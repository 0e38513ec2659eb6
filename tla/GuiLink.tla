------------------------------- MODULE GuiLink -------------------------------
(***************************************************************************)
(* Linking a GitHub account from the desktop GUI by the device flow        *)
(* (gui/src/github-link.ts and src-tauri/github.rs).                       *)
(*                                                                         *)
(* pollOnce and the timer that calls it again form a chain.  Cancelling    *)
(* stops the timer but not a poll in flight, so an old chain can live on   *)
(* beside that of a new attempt.                                           *)
(***************************************************************************)
EXTENDS Naturals, FiniteSets

CONSTANTS
  Chains,           \* bound on the chains alive at a time
  MaxCodes,         \* bound on the attempts
  PollErrorLimit,   \* POLL_ERROR_LIMIT
  MaxDrops,         \* bound on the disconnects
  Nil

VARIABLES
  gh,        \* the store's github slice (linking, account), starting, deadline, consecutivePollErrors
  chain,     \* the chains: a timer, a poll asked with a code, or its answer
  timer,     \* pollTimer: the chain whose timer it names
  fetch,     \* githubAccount and githubDisconnect calls and their answers
  tauri,     \* the bridge: device_code, and whether the token file exists
  codes,     \* GitHub: state of each device code
  drops

lvars == <<gh, chain, timer, fetch, tauri, codes, drops>>

Idle == [linking |-> FALSE, account |-> FALSE, starting |-> FALSE, deadline |-> Nil, errors |-> 0]
Off == [at |-> "off", code |-> Nil, r |-> Nil]
Answers == {"pending", "slow_down", "authorized", "denied", "expired", "error", "storeFailed", "noFlow"}
Fetches == {"start", "boot", "finish", "disconnect"}

\* store_token and clear_token: the bridge with or without the token file.
TokenFile(there) == [tauri EXCEPT !.token = there]

(***************************************************************************)
(* Polling internals.                                                      *)
(***************************************************************************)
\* stopPolling: clearTimeout of the timer pollTimer names, if it still runs.
StopPolling(ch) ==
  IF timer # Nil /\ ch[timer].at = "timer" THEN [ch EXCEPT ![timer] = Off] ELSE ch

ScheduleNext(k) ==
  /\ chain' = [chain EXCEPT ![k] = [Off EXCEPT !.at = "timer"]]
  /\ timer' = k

\* finishWithError.
FinishWithError(k, n) ==
  /\ chain' = StopPolling([chain EXCEPT ![k] = Off])
  /\ timer' = Nil
  /\ gh' = [gh EXCEPT !.deadline = Nil, !.linking = FALSE, !.errors = n]
  /\ UNCHANGED fetch

\* startGitHubLink, refused while an attempt starts or is open.
StartGitHubLink ==
  /\ ~gh.starting /\ ~gh.linking
  /\ Cardinality(DOMAIN codes) < MaxCodes
  /\ gh' = [gh EXCEPT !.starting = TRUE]
  /\ fetch' = [fetch EXCEPT !["start"] = "asked"]
  /\ UNCHANGED <<chain, timer, tauri, codes, drops>>

\* github_device_start: a new code, or an error.
DeviceStart ==
  /\ fetch["start"] = "asked"
  /\ \/ LET c == Cardinality(DOMAIN codes) + 1
        IN  /\ codes' = [x \in 1 .. c |-> IF x = c THEN "pending" ELSE codes[x]]
            /\ tauri' = [tauri EXCEPT !.code = c]
            /\ fetch' = [fetch EXCEPT !["start"] = "ok"]
     \/ fetch' = [fetch EXCEPT !["start"] = "error"] /\ UNCHANGED <<codes, tauri>>
  /\ UNCHANGED <<gh, chain, timer, drops>>

Started ==
  /\ fetch["start"] \notin {Nil, "asked"}
  /\ fetch' = [fetch EXCEPT !["start"] = Nil]
  /\ IF fetch["start"] = "error"
     THEN /\ gh' = [gh EXCEPT !.starting = FALSE, !.deadline = Nil, !.linking = FALSE]
          /\ UNCHANGED <<chain, timer>>
     ELSE \E k \in Chains :
          /\ StopPolling(chain)[k] = Off
          /\ gh' = [gh EXCEPT !.starting = FALSE, !.deadline = "ahead", !.linking = TRUE, !.errors = 0]
          /\ chain' = [StopPolling(chain) EXCEPT ![k] = [Off EXCEPT !.at = "timer"]]
          /\ timer' = k
  /\ UNCHANGED <<tauri, codes, drops>>

\* cancelGitHubLink.
CancelGitHubLink ==
  /\ gh.linking
  /\ chain' = StopPolling(chain)
  /\ timer' = Nil
  /\ gh' = [gh EXCEPT !.deadline = Nil, !.linking = FALSE]
  /\ UNCHANGED <<fetch, tauri, codes, drops>>

\* The timer fires: pollOnce up to its call, in which github_device_poll
\* reads the device code.
PollOnce(k) ==
  /\ chain[k].at = "timer"
  /\ IF gh.deadline = "passed" THEN FinishWithError(k, gh.errors)
     ELSE /\ chain' = [chain EXCEPT ![k] = IF tauri.code = Nil THEN [at |-> "answer", code |-> Nil, r |-> "noFlow"]
                                           ELSE [at |-> "asked", code |-> tauri.code, r |-> Nil]]
          /\ UNCHANGED <<gh, timer, fetch>>
  /\ UNCHANGED <<tauri, codes, drops>>

\* GitHub's answer, and what github_device_poll makes of it: the code of a
\* granted token is evicted before the token is stored.
DevicePoll(k) ==
  LET c == chain[k].code
      Says(r) == chain' = [chain EXCEPT ![k].at = "answer", ![k].r = r]
  IN
  /\ chain[k].at = "asked"
  /\ \/ /\ codes[c] = "granted"
        /\ codes' = [codes EXCEPT ![c] = "spent"]
        /\ \/ Says("authorized") /\ tauri' = [TokenFile(TRUE) EXCEPT !.code = Nil]
           \/ Says("storeFailed") /\ tauri' = [tauri EXCEPT !.code = Nil]
     \/ /\ \/ codes[c] = "pending" /\ (Says("pending") \/ Says("slow_down"))
           \/ codes[c] \in {"denied", "expired"} /\ Says(codes[c])
           \/ Says("error")
        /\ UNCHANGED <<codes, tauri>>
  /\ UNCHANGED <<gh, timer, fetch, drops>>

\* Mutant: a transient error is only counted.
MutantRetry(k, n) == chain' = [chain EXCEPT ![k] = Off] /\ UNCHANGED timer

\* A transient error is retried.
Retry(k, n) == ScheduleNext(k)

\* finishAuthorized up to its call; Fetched has the rest.
FinishAuthorized(k) ==
  /\ chain' = StopPolling([chain EXCEPT ![k] = Off])
  /\ timer' = Nil
  /\ gh' = [gh EXCEPT !.deadline = Nil, !.errors = 0]
  /\ fetch["finish"] = Nil
  /\ fetch' = [fetch EXCEPT !["finish"] = "asked"]

\* The rest of pollOnce.
Polled(k) ==
  LET r == chain[k].r
      n == gh.errors + 1
  IN
  /\ chain[k].at = "answer"
  /\ \/ r \in {"pending", "slow_down"} /\ ScheduleNext(k) /\ gh' = [gh EXCEPT !.errors = 0] /\ UNCHANGED fetch
     \/ r \in {"denied", "expired"} /\ FinishWithError(k, 0)
     \/ r \in {"storeFailed", "noFlow"} /\ FinishWithError(k, gh.errors)
     \/ r = "error" /\ n >= PollErrorLimit /\ FinishWithError(k, n)
     \/ r = "error" /\ n < PollErrorLimit /\ Retry(k, n) /\ gh' = [gh EXCEPT !.errors = n] /\ UNCHANGED fetch
     \/ r = "authorized" /\ FinishAuthorized(k)
  /\ UNCHANGED <<tauri, codes, drops>>

(***************************************************************************)
(* The account.                                                            *)
(***************************************************************************)
\* disconnectGitHub, from the account menu.
DisconnectGitHub ==
  /\ drops < MaxDrops /\ gh.account /\ fetch["disconnect"] = Nil
  /\ drops' = drops + 1
  /\ fetch' = [fetch EXCEPT !["disconnect"] = "asked"]
  /\ UNCHANGED <<gh, chain, timer, tauri, codes>>

\* github_account deletes a token that GitHub refuses; github_disconnect tries
\* to (clear_token says nothing of a failure), and the call itself may fail.
Account ==
  /\ \/ \E f \in {"boot", "finish"} :
          /\ fetch[f] = "asked"
          /\ \/ tauri.token /\ fetch' = [fetch EXCEPT ![f] = "account"] /\ UNCHANGED tauri
             \/ fetch' = [fetch EXCEPT ![f] = "none"] /\ tauri' = TokenFile(FALSE)
             \/ tauri.token /\ fetch' = [fetch EXCEPT ![f] = "error"] /\ UNCHANGED tauri
     \/ /\ fetch["disconnect"] = "asked"
        /\ \E r \in {"done", "error"}, there \in {FALSE, tauri.token} :
             /\ fetch' = [fetch EXCEPT !["disconnect"] = r]
             /\ tauri' = TokenFile(there)
  /\ UNCHANGED <<gh, chain, timer, codes, drops>>

Fetched(f) ==
  LET r == fetch[f] IN
  /\ f # "start" /\ r \notin {Nil, "asked"}
  /\ fetch' = [fetch EXCEPT ![f] = Nil]
  /\ gh' = CASE f \in {"boot", "disconnect"} /\ r = "error" -> gh
             [] f = "disconnect" -> [gh EXCEPT !.account = FALSE]
             [] f = "boot" -> [gh EXCEPT !.account = (r = "account")]
             [] f = "finish" /\ r = "error" -> [gh EXCEPT !.linking = FALSE]
             [] f = "finish" -> [gh EXCEPT !.account = (r = "account"), !.linking = FALSE]
  /\ UNCHANGED <<chain, timer, tauri, codes, drops>>

\* The user answers on GitHub's page, and time passes.
Decide(c) ==
  /\ codes[c] = "pending"
  /\ \E d \in {"granted", "denied"} : codes' = [codes EXCEPT ![c] = d]
  /\ UNCHANGED <<gh, chain, timer, fetch, tauri, drops>>

Expire(c) ==
  /\ codes[c] \in {"pending", "granted"}
  /\ codes' = [codes EXCEPT ![c] = "expired"]
  /\ UNCHANGED <<gh, chain, timer, fetch, tauri, drops>>

Deadline ==
  /\ gh.deadline = "ahead"
  /\ gh' = [gh EXCEPT !.deadline = "passed"]
  /\ UNCHANGED <<chain, timer, fetch, tauri, codes, drops>>

Init ==
  /\ gh = Idle
  /\ chain = [k \in Chains |-> Off]
  /\ timer = Nil
  /\ fetch = [f \in Fetches |-> IF f = "boot" THEN "asked" ELSE Nil]     \* loadGitHubAccount
  /\ tauri \in [code : {Nil}, token : BOOLEAN]
  /\ codes = <<>>
  /\ drops = 0

ChainStep(k) == PollOnce(k) \/ DevicePoll(k) \/ Polled(k)
StartStep == DeviceStart \/ Started
FetchStep == Account \/ \E f \in Fetches : Fetched(f)
SomeExpires == \E c \in DOMAIN codes : Expire(c)

Next ==
  \/ StartGitHubLink \/ CancelGitHubLink \/ DisconnectGitHub \/ Deadline
  \/ StartStep \/ FetchStep \/ SomeExpires
  \/ \E k \in Chains : ChainStep(k)
  \/ \E c \in DOMAIN codes : Decide(c)

\* Calls return, timers fire, and a device code does not live for ever.
Fairness ==
  /\ WF_lvars(StartStep) /\ WF_lvars(FetchStep) /\ WF_lvars(Deadline) /\ WF_lvars(SomeExpires)
  /\ \A k \in Chains : WF_lvars(ChainStep(k))

Spec == Init /\ [][Next]_lvars /\ Fairness

\* Whatever is cancelled, started again or answered late, the modal closes and
\* no chain goes on polling for ever (the deadline, the error limit and
\* GitHub's expiry in pollOnce).
LinkSettles ==
  []<>(~gh.linking /\ ~gh.starting /\ \A k \in Chains : chain[k] = Off)
=============================================================================
