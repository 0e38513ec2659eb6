--------------------------------- MODULE Mcp ---------------------------------
(***************************************************************************)
(* pyre-mcp: the stdio server.  Every line of standard input becomes a     *)
(* task of its own, which runs the RPCs of its method one after another    *)
(* and queues one answer for the single writer of standard output.         *)
(*                                                                         *)
(* A method is the sequence of its RPCs (Method).  Between two of them the *)
(* daemon, the shells and the other requests go on.  The daemon is what    *)
(* these RPCs see of it: live panes, the commands typed into each and the  *)
(* blocks its shell integration records.                                   *)
(***************************************************************************)
EXTENDS Naturals, Sequences, FiniteSets

CONSTANTS
  Reqs,            \* ids of the requests
  MaxMcpSessions,  \* bound on the sessions and on the panes ever made
  MaxMcpPanes,
  MaxOut,          \* capacity of the stdout channel (256)
  Null

\* 0 stands for a line on stdout that answers no request, and for the command of a
\* block that no request typed.
ASSUME ReqsAssumption == 0 \notin Reqs
ASSUME NullAssumption == Null \notin Nat

VARIABLES
  pane,      \* the panes: session, is the shell alive, commands typed, stored blocks
  born,      \* sessions and panes made so far
  req,       \* the requests
  subs,      \* subscriptions: is there a task for the resource
  out,       \* the stdout channel
  written,   \* how often each request has been answered on stdout
  eof        \* stdin is closed, and main returns

mcpVars == <<pane, born, req, subs, out, written, eof>>

(***************************************************************************)
(* dispatch and handle_tools_call.  "pane" and "session" are               *)
(* resolve_pane_id and resolve_session_id, "find_pane" and "find_session"  *)
(* a list in which the prefix of a URI is looked up, "cmd" is a command    *)
(* that the arguments may leave out, "reject" an error without an RPC.     *)
(***************************************************************************)
Initialize == <<>>
ToolsList == <<>>
UnknownMethod == <<"reject">>
ResourcesList == <<"list", "list", "list">>       \* sessions, panes of each, blocks
ReadState == <<"list">>
ReadSession == <<"find_session", "list">>
ReadPane == <<"find_pane">>
ReadOutput == <<"find_pane", "stdout">>
ReadBlock == <<"stdout">>
SubscribeTo == <<"subscribe">>
UnsubscribeFrom == <<"unsubscribe">>
SendKeys == <<"pane", "keys">>
Capture == <<"pane", "last", "stdout">>
WaitPaneState == <<"pane", "wait">>
SetState == <<"pane", "set">>
SetWeight == <<"pane", "set">>
BlockSearch == <<"session", "pane", "list">>
SessionSpawn == <<"spawn">>
SessionClose == <<"session", "close">>
ListSessions == <<"list">>
ListPanes == <<"list">>
SessionLayout == <<"spawn", "cmd", "open", "cmd">>
SessionLayoutSplit == <<"spawn", "cmd", "split", "cmd">>
GetLayout == <<"session", "list">>
GcStale == <<"gc">>
PaneOpen == <<"session", "open">>
OpenPaneSplit == <<"pane", "split", "cmd">>
LastBlockTool == <<"pane", "last", "stdout">>
RunCommand == <<"pane", "baseline", "keys", "poll", "stdout">>

Method ==
  [ initialize  |-> Initialize,      initialized |-> <<>>,             \* a notification
    tools       |-> ToolsList,       unknown     |-> UnknownMethod,
    resources   |-> ResourcesList,   read_state  |-> ReadState,
    read_sess   |-> ReadSession,     read_pane   |-> ReadPane,
    read_output |-> ReadOutput,      read_block  |-> ReadBlock,
    subscribe   |-> SubscribeTo,     unsubscribe |-> UnsubscribeFrom,
    send_keys   |-> SendKeys,        capture     |-> Capture,
    wait_state  |-> WaitPaneState,   set_state   |-> SetState,
    search      |-> BlockSearch,     set_weight  |-> SetWeight,
    spawn       |-> SessionSpawn,    close       |-> SessionClose,
    sessions    |-> ListSessions,    panes       |-> ListPanes,
    gc          |-> GcStale,         get_layout  |-> GetLayout,
    pane_open   |-> PaneOpen,        split       |-> OpenPaneSplit,
    layout      |-> SessionLayout,   tree        |-> SessionLayoutSplit,
    run_command |-> RunCommand,      last_block  |-> LastBlockTool ]

Free == [tool |-> Null, named |-> FALSE, todo |-> <<>>, prefix |-> {}, pane |-> Null, sess |-> Null,
         base |-> Null, block |-> Null, shared |-> FALSE, ok |-> FALSE]

Live == {p \in DOMAIN pane : pane[p].live}
LiveSessions == {pane[p].session : p \in Live}
\* list_blocks_for_pane(pane, 1).
LastBlock(p) == LET b == pane[p].blocks IN IF b = <<>> THEN Null ELSE Len(b)
Finished(p, n) == pane[p].blocks[n].done
Busy(p) == pane[p].typed # <<>> \/ \E b \in DOMAIN pane[p].blocks : ~Finished(p, b)

\* main: a line of stdin is parsed and handed to a task.  A line without an id is
\* a notification, whatever its method.
Receive(r, tool, named, prefix) ==
  /\ ~eof /\ req[r].tool = Null
  /\ req' = [req EXCEPT ![r] = [Free EXCEPT !.tool = tool, !.named = named,
                                           !.todo = Method[tool], !.prefix = prefix]]
  /\ UNCHANGED <<pane, born, subs, out, written, eof>>

\* A line that is no request: main itself queues the error, without an id.
ParseError ==
  /\ ~eof /\ Len(out) < MaxOut
  /\ out' = Append(out, 0)
  /\ UNCHANGED <<pane, born, req, subs, written, eof>>

\* Mutant: the task sends every response, id or not.
MutantAnswers(q) == q.tool # "initialized"

\* handle: Some response for a result or an error, None after "initialized"; the
\* task sends it if the line had an id.
Answers(q) == q.tool # "initialized" /\ q.named

\* The task is done: send_line, which waits for room in the channel.
Answer(r) ==
  /\ ~eof /\ req[r].tool # Null /\ req[r].todo = <<>>
  /\ Answers(req[r]) => Len(out) < MaxOut
  /\ out' = IF Answers(req[r]) THEN Append(out, r) ELSE out
  /\ req' = [req EXCEPT ![r] = [Free EXCEPT !.tool = req[r].tool, !.named = req[r].named,
                                           !.todo = <<"sent">>]]
  /\ UNCHANGED <<pane, born, subs, written, eof>>

\* The writer task.
Write ==
  /\ ~eof /\ out # <<>>
  /\ out' = Tail(out)
  /\ written' = IF Head(out) \in Reqs THEN [written EXCEPT ![Head(out)] = @ + 1] ELSE written
  /\ UNCHANGED <<pane, born, req, subs, eof>>

(***************************************************************************)
(* One RPC of a request.                                                   *)
(***************************************************************************)
Now(r, rpc) == ~eof /\ req[r].todo # <<>> /\ Head(req[r].todo) = rpc

\* Any RPC may fail (arguments missing, no daemon, deadline of the call, an error
\* of the daemon), and the method ends there.  What its earlier RPCs did stays.
Fails(r) == req' = [req EXCEPT ![r].todo = <<>>, ![r].ok = FALSE] /\ UNCHANGED <<pane, born, subs>>

Goes(r, q) == req' = [req EXCEPT ![r] = [q EXCEPT !.todo = Tail(@), !.ok = TRUE]]

\* resolve_pane_id, resolve_session_id: exactly one match.
Resolve(r) ==
  \/ /\ Now(r, "pane")
     /\ LET m == Live \intersect req[r].prefix
        IN  IF Cardinality(m) # 1 THEN Fails(r)
            ELSE Goes(r, [req[r] EXCEPT !.prefix = {}, !.pane = CHOOSE p \in m : TRUE]) /\ UNCHANGED <<pane, born, subs>>
  \/ /\ Now(r, "session")
     /\ LET m == LiveSessions \intersect req[r].prefix
        IN  IF Cardinality(m) # 1 THEN Fails(r)
            ELSE Goes(r, [req[r] EXCEPT !.sess = CHOOSE s \in m : TRUE]) /\ UNCHANGED <<pane, born, subs>>

\* The first match, if there is one; RpcFails is the other case.
Find(r) ==
  /\ \/ Now(r, "find_pane") /\ Live \intersect req[r].prefix # {}
     \/ Now(r, "find_session") /\ LiveSessions \intersect req[r].prefix # {}
  /\ Goes(r, req[r])
  /\ UNCHANGED <<pane, born, subs>>

\* send_keys, and the commands that session_layout and open_pane_split type.
\* A run in progress on the same pane no longer has it to itself (history
\* variable shared).
Keys(r) ==
  LET p == req[r].pane
      q == [req[r] EXCEPT !.shared = @ \/ Busy(p)]
      touched(x) == x # r /\ req[x].tool = "run_command" /\ req[x].pane = p
  IN
  /\ Now(r, "keys") \/ Now(r, "cmd")
  /\ IF p \notin Live THEN Fails(r)
     ELSE /\ pane' = [pane EXCEPT ![p].typed = Append(@, r)]
          /\ req' = [x \in Reqs |-> IF x = r THEN [q EXCEPT !.todo = Tail(@), !.ok = TRUE]
                                    ELSE IF touched(x) THEN [req[x] EXCEPT !.shared = TRUE] ELSE req[x]]
          /\ UNCHANGED <<born, subs>>

\* spawn, open_pane in a session and open_pane_split beside a pane.
Open(r) ==
  LET s == IF Now(r, "spawn") THEN born.sessions + 1
           ELSE IF Now(r, "open") THEN req[r].sess
           ELSE pane[req[r].pane].session
      p == born.panes + 1
  IN
  /\ Now(r, "spawn") \/ Now(r, "open") \/ Now(r, "split")
  /\ IF (Now(r, "open") /\ s \notin LiveSessions) \/ (Now(r, "split") /\ req[r].pane \notin Live) THEN Fails(r)
     ELSE /\ p <= MaxMcpPanes /\ s <= MaxMcpSessions
          /\ pane' = [x \in DOMAIN pane \union {p} |->
                        IF x = p THEN [session |-> s, live |-> TRUE, typed |-> <<>>, blocks |-> <<>>] ELSE pane[x]]
          /\ born' = [sessions |-> IF s > born.sessions THEN s ELSE born.sessions, panes |-> p]
          /\ Goes(r, [req[r] EXCEPT !.pane = p, !.sess = s])
          /\ UNCHANGED subs

\* A dead shell runs nothing more; its blocks stay, an open one without exit code.
Dead(p) == [pane[p] EXCEPT !.live = FALSE, !.typed = <<>>]

\* close_session and gc_stale_sessions (a session without panes is not modelled).
Close(r) ==
  \/ /\ Now(r, "close")
     /\ pane' = [p \in DOMAIN pane |-> IF pane[p].session = req[r].sess THEN Dead(p) ELSE pane[p]]
     /\ Goes(r, req[r])
     /\ UNCHANGED <<born, subs>>
  \/ Now(r, "gc") /\ Goes(r, req[r]) /\ UNCHANGED <<pane, born, subs>>

\* last_block_for_pane as the baseline of pane_run_command, or for its own sake.
LastRpc(r) ==
  LET p == req[r].pane IN
  /\ Now(r, "baseline") \/ Now(r, "last")
  /\ Goes(r, IF Now(r, "baseline") THEN [req[r] EXCEPT !.base = LastBlock(p), !.shared = Busy(p)] ELSE req[r])
  /\ UNCHANGED <<pane, born, subs>>

\* Mutant: any finished block will do.
MutantIsNew(base, b) == TRUE

\* is_new: different from the baseline.
IsNew(base, b) == base = Null \/ b # base

\* A poll of pane_run_command: the last block is new and finished, or the
\* deadline has passed, or it polls again.
Poll(r) ==
  LET p == req[r].pane
      b == LastBlock(p)
  IN
  /\ Now(r, "poll")
  /\ IF b # Null /\ IsNew(req[r].base, b) /\ Finished(p, b)
     THEN Goes(r, [req[r] EXCEPT !.block = pane[p].blocks[b].cmd])
     ELSE req' = [req EXCEPT ![r].todo = <<>>]      \* timed out, completed: false
  /\ UNCHANGED <<pane, born, subs>>

\* The deadline of a poll is Instant::now() plus what the request asks for, which
\* panics when it overflows: the task is gone, and its command stays typed.
Panic(r) ==
  /\ Now(r, "poll")
  /\ req' = [req EXCEPT ![r].todo = <<"panicked">>]
  /\ UNCHANGED <<pane, born, subs, out, written, eof>>

\* capture_pane, get_block_stdout, set_pane_state, set_pane_weight,
\* wait_pane_state and the lists change nothing that is modelled; no command was
\* given.
Read(r) ==
  /\ \E c \in {"list", "stdout", "set", "wait", "cmd"} : Now(r, c)
  /\ Goes(r, req[r])
  /\ UNCHANGED <<pane, born, subs>>

\* resources/subscribe starts one task per resource, resources/unsubscribe
\* aborts it.
Subscribe(r) ==
  /\ Now(r, "subscribe") \/ Now(r, "unsubscribe")
  /\ subs' = Now(r, "subscribe")
  /\ Goes(r, req[r])
  /\ UNCHANGED <<pane, born>>

RpcFails(r) ==
  /\ ~eof /\ req[r].todo # <<>> /\ Head(req[r].todo) \notin {"sent", "panicked"}
  /\ Fails(r)

Rpc(r) ==
  /\ RpcFails(r) \/ Resolve(r) \/ Find(r) \/ Keys(r) \/ Open(r) \/ Close(r) \/ LastRpc(r) \/ Poll(r) \/ Read(r) \/ Subscribe(r)
  /\ UNCHANGED <<out, written, eof>>

\* The task of a subscription queues a notification, written 0 (PaneEvents
\* models its cursor).
Notify ==
  /\ ~eof /\ subs /\ Len(out) < MaxOut
  /\ out' = Append(out, 0)
  /\ UNCHANGED <<pane, born, req, subs, written, eof>>

(***************************************************************************)
(* The shells, and the end of stdin.                                       *)
(***************************************************************************)
\* The shell starts the next command and its block is created.
Start(p) ==
  /\ ~eof /\ pane[p].typed # <<>> /\ \A b \in DOMAIN pane[p].blocks : Finished(p, b)
  /\ pane' = [pane EXCEPT ![p].typed = Tail(@),
                          ![p].blocks = Append(@, [cmd |-> Head(pane[p].typed), done |-> FALSE])]
  /\ UNCHANGED <<born, req, subs, out, written, eof>>

Finish(p) ==
  /\ ~eof /\ pane[p].live /\ pane[p].blocks # <<>> /\ ~Finished(p, Len(pane[p].blocks))
  /\ pane' = [pane EXCEPT ![p].blocks[Len(pane[p].blocks)].done = TRUE]
  /\ UNCHANGED <<born, req, subs, out, written, eof>>

\* The shell exits, or another client closes the pane.
Exit(p) ==
  /\ ~eof /\ pane[p].live
  /\ pane' = [pane EXCEPT ![p] = Dead(p)]
  /\ UNCHANGED <<born, req, subs, out, written, eof>>

\* main returns: tasks and queued lines are lost, and the model stops.
Eof ==
  /\ ~eof
  /\ eof' = TRUE
  /\ UNCHANGED <<pane, born, req, subs, out, written>>

\* What a client sends: an id with every request, but for some that it does not
\* want answered, and a prefix that fits one pane or session, or two.
Unnamed == {"initialized", "unknown", "send_keys"}
IdPrefixes(tool) ==
  IF \E i \in DOMAIN Method[tool] : Method[tool][i] \in {"pane", "session", "find_pane", "find_session"}
  THEN {{1}, {1, 2}} ELSE {{}}

McpInit ==
  /\ pane = [p \in {1} |-> [session |-> 1, live |-> TRUE, typed |-> <<>>, blocks |-> <<[cmd |-> 0, done |-> TRUE]>>]]
  /\ born = [sessions |-> 1, panes |-> 1]
  /\ req = [r \in Reqs |-> Free]
  /\ subs = FALSE
  /\ out = <<>>
  /\ written = [r \in Reqs |-> 0]
  /\ eof = FALSE

McpNext ==
  \/ \E r \in Reqs, tool \in DOMAIN Method, named \in BOOLEAN :
       /\ named \/ tool \in Unnamed
       /\ \E prefix \in IdPrefixes(tool) : Receive(r, tool, named, prefix)
  \/ \E r \in Reqs : Answer(r) \/ Rpc(r) \/ Panic(r)
  \/ ParseError \/ Write \/ Notify \/ Eof
  \/ \E p \in DOMAIN pane : Start(p) \/ Finish(p) \/ Exit(p)

McpSpec == McpInit /\ [][McpNext]_mcpVars

\* pane_run_command reports the exit code of the command it typed, when the
\* shell was idle before it and nobody else typed into the pane meanwhile
\* (tool_pane_run_command).
RunReportsOwnBlock ==
  \A r \in Reqs : req[r].tool = "run_command" /\ req[r].block # Null /\ ~req[r].shared => req[r].block = r

\* A request that JSON-RPC owes an answer: it has an id, and "initialized" is a
\* notification even with one.
Owed(q) == q.named /\ q.tool # "initialized"

\* When the server rests, every request it took has one answer on stdout and no
\* notification has one: a failed RPC, a pane that closed or a full channel
\* costs no answer and doubles none (handle, send_line and the writer).  Only a
\* task that panicked never answers.
NoAnswerLost ==
  ~eof /\ out = <<>> =>
    \A r \in Reqs :
      /\ req[r].todo = <<"sent">> => written[r] = IF Owed(req[r]) THEN 1 ELSE 0
      /\ req[r].todo = <<"panicked">> => written[r] = 0
=============================================================================
