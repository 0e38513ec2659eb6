--------------------------- MODULE GuiStore_proofs ---------------------------
(***************************************************************************)
(* Proofs about the store of the desktop GUI (GuiStore), for any scripts   *)
(* and any number of windows and panes: the rail ends up with the sessions *)
(* the daemon has.                                                         *)
(***************************************************************************)
EXTENDS GuiStore, FiniteSetTheorems, SequenceTheorems, WellFoundedInduction, TLAPS

\* The operations of Exec.
ThenOps ==
  {"first", "switch", "active", "focus", "zoom", "window", "dispose", "write", "closedPane",
   "closedWindow", "closedSession", "afterClose", "afterSession", "reload", "adopt", "afterClosed",
   "closedTree", "refocus", "state"}

\* An instruction that runs at once is one that Exec knows.
IsInstr(i) == "op" \in DOMAIN i /\ "sync" \in DOMAIN i /\ (i.sync => i.op \in ThenOps)

IsProg(c) == \E S : c \in Seq(S) /\ \A i \in S : IsInstr(i)

\* The part of the store that the rail is about: a session listed has a pane.
IsView(u) ==
  /\ {"sessions", "at", "stale"} \subseteq DOMAIN u
  /\ \A s \in DOMAIN u.sessions : u.sessions[s] # 0

\* v is a later state of the store that shows the same list.
KeepsRail(u, v) ==
  IsView(v) /\ DOMAIN v.sessions = DOMAIN u.sessions /\ v.at = u.at /\ (u.stale => v.stale)

\* A program that waits for list_sessions, at once or when a terminal is gone.
Listing(c) == c # <<>> /\ ~Head(c).sync /\ Head(c).op = "list"
Rings(c) ==
  Listing(c) \/ (c # <<>> /\ Head(c).sync /\ Head(c).op = "dispose" /\ Listing(Tail(c)))

-----------------------------------------------------------------------------
(* Programs *)

\* Induction over the natural numbers, by the least counterexample.
LEMMA LeastNumber ==
  ASSUME NEW T, T \subseteq Nat, T # {}
  PROVE  \E n \in T : \A m \in T : n <= m
<1> DEFINE R == OpToRel(<, Nat)
<1>1. IsWellFoundedOn(R, Nat)
  BY NatLessThanWellFounded
<1>2. \A x, y \in Nat : <<x, y>> \in R <=> x < y
  BY DEF OpToRel
<1> HIDE DEF R
<1>3. PICK x \in T : \A y \in T : ~ (<<y, x>> \in R)
  BY <1>1, WFMin
<1>4. ASSUME NEW m \in T PROVE x <= m
  <2>1. x \in Nat /\ m \in Nat /\ ~(m < x)
    BY <1>2, <1>3
  <2> QED BY <2>1
<1> QED BY <1>3, <1>4

LEMMA CallInstr == \A o, x : IsInstr(Call(o, x))
BY DEF IsInstr, Call

LEMMA ThenInstr == \A o, x, y : o \in ThenOps => IsInstr(Then(o, x, y))
BY DEF IsInstr, Then

LEMMA ProgNone == IsProg(<<>>)
<1> DEFINE S == {}
<1>1. <<>> \in Seq(S) /\ \A i \in S : IsInstr(i)
  BY EmptySeq
<1> HIDE DEF S
<1> QED BY <1>1 DEF IsProg

LEMMA ProgOne == \A i : IsInstr(i) => IsProg(<<i>>)
<1> SUFFICES ASSUME NEW i, IsInstr(i) PROVE IsProg(<<i>>)
  OBVIOUS
<1> DEFINE S == {i}
<1>1. <<i>> \in Seq(S) /\ \A j \in S : IsInstr(j)
  OBVIOUS
<1> HIDE DEF S
<1> QED BY <1>1 DEF IsProg

LEMMA ProgCat == \A c, d : IsProg(c) /\ IsProg(d) => IsProg(c \o d)
<1> SUFFICES ASSUME NEW c, NEW d, IsProg(c), IsProg(d) PROVE IsProg(c \o d)
  OBVIOUS
<1>1. PICK S : c \in Seq(S) /\ \A i \in S : IsInstr(i)
  BY DEF IsProg
<1>2. PICK T : d \in Seq(T) /\ \A i \in T : IsInstr(i)
  BY DEF IsProg
<1>3. c \in Seq(S \cup T) /\ d \in Seq(S \cup T)
  BY <1>1, <1>2, SeqMonotonic
<1>4. c \o d \in Seq(S \cup T)
  BY <1>3, ConcatProperties
<1>5. \A i \in S \cup T : IsInstr(i)
  BY <1>1, <1>2
<1> QED BY <1>4, <1>5 DEF IsProg

LEMMA ProgHead ==
  ASSUME NEW c, IsProg(c), c # <<>>
  PROVE  /\ IsInstr(Head(c)) /\ IsProg(Tail(c))
         /\ Len(c) \in Nat /\ Len(c) # 0 /\ Head(c) = c[1]
<1>1. PICK S : c \in Seq(S) /\ \A i \in S : IsInstr(i)
  BY DEF IsProg
<1>2. Head(c) \in S /\ Tail(c) \in Seq(S) /\ Len(c) \in Nat /\ Len(c) # 0 /\ Head(c) = c[1]
  BY <1>1, HeadTailProperties
<1> QED BY <1>1, <1>2 DEF IsProg

LEMMA ProgLen == \A c : IsProg(c) => Len(c) \in Nat
<1> SUFFICES ASSUME NEW c, IsProg(c) PROVE Len(c) \in Nat
  OBVIOUS
<1>1. PICK S : c \in Seq(S)
  BY DEF IsProg
<1> QED BY <1>1

\* The first instruction of two programs is that of the first of them.
LEMMA CatHead ==
  ASSUME NEW c, NEW d, IsProg(c), IsProg(d), c # <<>>
  PROVE  c \o d # <<>> /\ Head(c \o d) = Head(c)
<1>1. PICK S : c \in Seq(S) /\ \A i \in S : IsInstr(i)
  BY DEF IsProg
<1>2. PICK T : d \in Seq(T) /\ \A i \in T : IsInstr(i)
  BY DEF IsProg
<1> DEFINE U == S \cup T
<1>3. c \in Seq(U) /\ d \in Seq(U)
  BY <1>1, <1>2, SeqMonotonic
<1> HIDE DEF U
<1>4. Len(c) \in Nat /\ Len(c) # 0 /\ Head(c) = c[1] /\ Len(d) \in Nat
  BY <1>3, EmptySeq, HeadTailProperties
<1>5. c \o d \in Seq(U) /\ Len(c \o d) = Len(c) + Len(d) /\ (c \o d)[1] = c[1]
  BY <1>3, <1>4, ConcatProperties
<1>6. c \o d # <<>>
  BY <1>4, <1>5, EmptySeq
<1> QED BY <1>3, <1>4, <1>5, <1>6, HeadTailProperties

\* After its only instruction a program goes on with the second.
LEMMA OneCat ==
  ASSUME NEW i, NEW d, IsInstr(i), IsProg(d)
  PROVE  <<i>> \o d # <<>> /\ Head(<<i>> \o d) = i /\ Tail(<<i>> \o d) = d
<1>1. PICK T : d \in Seq(T)
  BY DEF IsProg
<1> DEFINE U == T \cup {i}
<1>2. d \in Seq(U) /\ <<i>> \in Seq(U) /\ i \in U
  BY <1>1, SeqMonotonic
<1> HIDE DEF U
<1> QED BY <1>2

LEMMA NoneCat == \A d : IsProg(d) => <<>> \o d = d
<1> SUFFICES ASSUME NEW d, IsProg(d) PROVE <<>> \o d = d
  OBVIOUS
<1>1. PICK T : d \in Seq(T)
  BY DEF IsProg
<1> QED BY <1>1, ConcatEmptySeq

\* The programs of the store.
LEMMA Programs ==
  /\ IsProg(List) /\ IsProg(States) /\ IsProg(NewSession)
  /\ \A s : IsProg(Tree(s)) /\ IsProg(TreeFocus(s))
  /\ \A o, x : IsProg(<<Call(o, x)>>)
  /\ \A o \in ThenOps : \A x, y : IsProg(<<Then(o, x, y)>>)
<1>1. \A o, x : IsProg(<<Call(o, x)>>)
  BY ProgOne, CallInstr
<1>2. \A o \in ThenOps : \A x, y : IsProg(<<Then(o, x, y)>>)
  BY ProgOne, ThenInstr
<1>3. \A s : IsProg(<<Then("first", s, Nil)>>)
  BY <1>2 DEF ThenOps
<1>4. \A s : IsProg(Tree(s))
  BY <1>1 DEF Tree
<1>5. \A s : IsProg(TreeFocus(s))
  BY <1>3, <1>4, ProgCat DEF TreeFocus
<1>6. IsProg(List) /\ IsProg(States) /\ IsProg(NewSession)
  BY <1>1 DEF List, States, NewSession
<1> QED BY <1>1, <1>2, <1>4, <1>5, <1>6

-----------------------------------------------------------------------------
(* What a synchronous stretch leaves of the rail *)

\* A step on other fields of the store.
LEMMA KeepsSame == \A u : IsView(u) => KeepsRail(u, u)
BY DEF KeepsRail

LEMMA KeepsFocusFirstLeaf ==
  ASSUME NEW u, IsView(u), NEW s PROVE KeepsRail(u, FocusFirstLeaf(u, s))
BY DEF FocusFirstLeaf, KeepsRail, IsView

LEMMA KeepsPick ==
  ASSUME NEW u, IsView(u), NEW s PROVE KeepsRail(u, Pick(u, s))
BY DEF Pick, KeepsRail, IsView

LEMMA KeepsDispose ==
  ASSUME NEW u, IsView(u), NEW P PROVE KeepsRail(u, Dispose(u, P))
BY DEF Dispose, KeepsRail, IsView

LEMMA KeepsDetach ==
  ASSUME NEW u, IsView(u), NEW P PROVE KeepsRail(u, Detach(u, P))
BY DEF Detach, Dispose, KeepsRail, IsView

LEMMA KeepsForget ==
  ASSUME NEW u, IsView(u), NEW S PROVE KeepsRail(u, Forget(u, S))
BY DEF Forget, KeepsRail, IsView

LEMMA KeepsSwitchWindow ==
  ASSUME NEW u, IsView(u), NEW w PROVE KeepsRail(u, SwitchWindow(u, w))
BY DEF SwitchWindow, FocusFirstLeaf, KeepsRail, IsView

LEMMA KeepsReloadWindows ==
  ASSUME NEW u, IsView(u), NEW s, NEW ws, NEW v PROVE KeepsRail(u, ReloadWindows(u, s, ws, v))
BY DEF ReloadWindows, KeepsRail, IsView

LEMMA KeepsSettle ==
  ASSUME NEW u, IsView(u) PROVE KeepsRail(u, Settle(u))
BY DEF Settle, Render, KeepsRail, IsView

LEMMA KeepsTrans ==
  ASSUME NEW u, NEW v, NEW w, KeepsRail(u, v), KeepsRail(v, w) PROVE KeepsRail(u, w)
BY DEF KeepsRail

\* removeSessionNow is called for a session that the list does not have.
LEMMA KeepsRemove ==
  ASSUME NEW u, IsView(u), NEW s, s \notin DOMAIN u.sessions
  PROVE  KeepsRail(u, RemoveSessionNow(u, s).u) /\ IsProg(RemoveSessionNow(u, s).c)
<1> DEFINE rest == Drop(u.sessions, {s})
           next == IF u.first # s THEN u.first ELSE Least(DOMAIN rest)
           d == Detach(Forget(u, {s}), Leaves(u.layouts, WindowTabs(u, s)))
           v == [d EXCEPT !.sessions = rest, !.first = next]
<1>1. DOMAIN rest = DOMAIN u.sessions /\ \A x \in DOMAIN rest : rest[x] = u.sessions[x]
  BY DEF Drop, Restrict
<1>2. KeepsRail(u, d)
  <2>1. KeepsRail(u, Forget(u, {s}))
    BY KeepsForget
  <2> HIDE DEF d
  <2>2. KeepsRail(Forget(u, {s}), d)
    BY <2>1, KeepsDetach DEF KeepsRail, d
  <2> QED BY <2>1, <2>2, KeepsTrans
<1>3. RemoveSessionNow(u, s)
        = IF u.active # s THEN [u |-> v, c |-> <<>>]
          ELSE [u |-> Pick(v, next), c |-> IF next = Nil THEN NewSession ELSE TreeFocus(next)]
  BY DEF RemoveSessionNow
<1> HIDE DEF rest, next, d
<1>4. KeepsRail(u, v)
  BY <1>1, <1>2 DEF KeepsRail, IsView
<1> HIDE DEF v
<1>5. KeepsRail(u, Pick(v, next))
  <2>1. IsView(v)
    BY <1>4 DEF KeepsRail
  <2> QED BY <1>4, <2>1, KeepsPick, KeepsTrans
<1> QED BY <1>3, <1>4, <1>5, Programs, ProgNone

\* What is left to do when session s may have ended.
LEMMA KeepsAfterClose ==
  ASSUME NEW u, IsView(u), NEW s
  PROVE  KeepsRail(u, AfterClose(u, s).u) /\ IsProg(AfterClose(u, s).c)
<1>1. KeepsRail(u, u) /\ KeepsRail(u, Pick(u, u.first))
  BY KeepsSame, KeepsPick
<1> QED BY <1>1, Programs, ProgNone DEF AfterClose

\* An instruction that runs at once leaves the list as it is, and leads to a program.
LEMMA ExecKeeps ==
  ASSUME NEW i, IsInstr(i), i.sync, NEW u, IsView(u), NEW map
  PROVE  /\ KeepsRail(u, Exec(i, u, map).u) /\ IsProg(Exec(i, u, map).c)
         /\ i.op = "dispose" => Exec(i, u, map).c = <<>>
<1> DEFINE e == Exec(i, u, map)
<1>0. i.op \in ThenOps
  BY DEF IsInstr
<1>1. CASE i.op = "first"
  <2>1. e = [u |-> FocusFirstLeaf(u, i.x), c |-> <<>>]
    BY <1>1 DEF Exec
  <2> QED BY <1>1, <2>1, KeepsFocusFirstLeaf, ProgNone
<1>2. CASE i.op = "switch"
  <2> DEFINE v == [u EXCEPT !.active = i.x, !.zoom = Nil]
  <2>1. e = [u |-> v, c |-> <<>>]
    BY <1>2 DEF Exec
  <2>2. KeepsRail(u, v)
    BY DEF KeepsRail, IsView
  <2> HIDE DEF v
  <2> QED BY <1>2, <2>1, <2>2, ProgNone
<1>3. CASE i.op = "active"
  <2> DEFINE v == [u EXCEPT !.active = i.x]
  <2>1. e = [u |-> v, c |-> <<>>]
    BY <1>3 DEF Exec
  <2>2. KeepsRail(u, v)
    BY DEF KeepsRail, IsView
  <2> HIDE DEF v
  <2> QED BY <1>3, <2>1, <2>2, ProgNone
<1>4. CASE i.op = "focus"
  <2> DEFINE v == [u EXCEPT !.focus = i.x]
  <2>1. e = [u |-> v, c |-> <<>>]
    BY <1>4 DEF Exec
  <2>2. KeepsRail(u, v)
    BY DEF KeepsRail, IsView
  <2> HIDE DEF v
  <2> QED BY <1>4, <2>1, <2>2, ProgNone
<1>5. CASE i.op = "zoom"
  <2> DEFINE v == ZoomPane(u, i.x)
  <2>1. e = [u |-> v, c |-> <<>>]
    BY <1>5 DEF Exec
  <2>2. KeepsRail(u, v)
    BY DEF KeepsRail, IsView, ZoomPane
  <2> HIDE DEF v
  <2> QED BY <1>5, <2>1, <2>2, ProgNone
<1>6. CASE i.op = "window"
  <2>1. e = [u |-> SwitchWindow(u, i.x), c |-> <<>>]
    BY <1>6 DEF Exec
  <2> QED BY <1>6, <2>1, KeepsSwitchWindow, ProgNone
<1>7. CASE i.op = "dispose"
  <2>1. e = [u |-> Dispose(u, {i.x}), c |-> <<>>]
    BY <1>7 DEF Exec
  <2> QED BY <2>1, KeepsDispose, ProgNone
<1>8. CASE i.op = "write"
  <2> DEFINE ps == Leaves(map, i.y) \ u.terms
             b == Older(map, u.layouts)
             v == [u EXCEPT !.layouts = map, !.stale = @ \/ b]
  <2>1. e = [u |-> v,
             c |-> IF ps = {} THEN <<>> ELSE <<Call("attach", ps)>>]
    BY <1>8 DEF Exec
  <2> HIDE DEF ps, b
  <2>2. KeepsRail(u, v)
    BY DEF KeepsRail, IsView
  <2> HIDE DEF v
  <2> QED BY <1>8, <2>1, <2>2, ProgNone, Programs
<1>9. CASE i.op = "closedPane"
  <2> DEFINE v == [Dispose(u, {i.x}) EXCEPT !.zoom = IF @ = i.x THEN Nil ELSE @]
  <2>1. e = [u |-> v, c |-> <<>>]
    BY <1>9 DEF Exec
  <2>2. KeepsRail(u, v)
    BY DEF KeepsRail, IsView, Dispose
  <2> HIDE DEF v
  <2> QED BY <1>9, <2>1, <2>2, ProgNone
<1>10. CASE i.op = "closedWindow"
  <2> DEFINE v == [Detach(u, i.y.ps) EXCEPT !.layouts = Drop(@, {i.x}),
                    !.actWin = IF i.y.s \in DOMAIN @ /\ @[i.y.s] = i.x THEN Drop(@, {i.y.s}) ELSE @]
  <2>1. e = [u |-> v, c |-> <<>>]
    BY <1>10 DEF Exec
  <2>2. KeepsRail(u, v)
    BY DEF KeepsRail, IsView, Detach, Dispose
  <2> HIDE DEF v
  <2> QED BY <1>10, <2>1, <2>2, ProgNone
<1>11. CASE i.op = "closedSession"
  <2>1. e = [u |-> Detach(Forget(u, {i.x}), i.y), c |-> <<>>]
    BY <1>11 DEF Exec
  <2>2. KeepsRail(u, Forget(u, {i.x})) /\ IsView(Forget(u, {i.x}))
    BY KeepsForget DEF KeepsRail
  <2>3. KeepsRail(u, Detach(Forget(u, {i.x}), i.y))
    BY <2>2, KeepsDetach, KeepsTrans
  <2> QED BY <1>11, <2>1, <2>3, ProgNone
<1>12. CASE i.op = "afterClose"
  <2>1. e = AfterClose(u, i.x)
    BY <1>12 DEF Exec
  <2> QED BY <1>12, <2>1, KeepsAfterClose
<1>13. CASE i.op = "afterSession"
  <2>1. e = IF i.x THEN [u |-> Pick(u, u.first), c |-> IF u.first = Nil THEN NewSession ELSE TreeFocus(u.first)]
            ELSE [u |-> u, c |-> <<>>]
    BY <1>13 DEF Exec
  <2>2. KeepsRail(u, u) /\ KeepsRail(u, Pick(u, u.first))
    BY KeepsSame, KeepsPick
  <2> QED BY <1>13, <2>1, <2>2, Programs, ProgNone
<1>14. CASE i.op = "reload"
  <2> DEFINE a == IF i.y = "adopt" THEN <<Then("adopt", u.active, Nil)>> ELSE <<>>
  <2>1. e = [u |-> u, c |-> IF u.active \notin DOMAIN u.sessions THEN <<>> ELSE Tree(u.active) \o a]
    BY <1>14 DEF Exec
  <2>2. IsProg(a)
    BY Programs, ProgNone DEF ThenOps
  <2> HIDE DEF a
  <2>3. IsProg(e.c)
    BY <2>1, <2>2, Programs, ProgNone, ProgCat
  <2> QED BY <1>14, <2>1, <2>3, KeepsSame
<1>15. CASE i.op = "adopt"
  <2>1. e = IF u.active = Nil THEN [u |-> [u EXCEPT !.active = i.x], c |-> TreeFocus(i.x)] ELSE [u |-> u, c |-> <<>>]
    BY <1>15 DEF Exec
  <2>2. KeepsRail(u, e.u)
    BY <2>1 DEF KeepsRail, IsView
  <2> QED BY <1>15, <2>1, <2>2, Programs, ProgNone
<1>16. CASE i.op = "afterClosed"
  <2>1. e = IF i.y = Nil THEN [u |-> u, c |-> <<>>]
            ELSE IF i.y \notin DOMAIN u.sessions \/ u.sessions[i.y] = 0 THEN RemoveSessionNow(u, i.y)
            ELSE [u |-> u, c |-> States \o <<Then("closedTree", i.x, i.y)>>]
    BY <1>16 DEF Exec
  <2>2. i.y \notin DOMAIN u.sessions \/ u.sessions[i.y] = 0 <=> i.y \notin DOMAIN u.sessions
    BY DEF IsView
  <2>3. IsProg(States \o <<Then("closedTree", i.x, i.y)>>)
    BY Programs, ProgCat DEF ThenOps
  <2> QED BY <1>16, <2>1, <2>2, <2>3, KeepsSame, KeepsRemove, ProgNone
<1>17. CASE i.op = "closedTree"
  <2>1. e = [u |-> u, c |-> IF u.active = i.y THEN Tree(i.y) \o <<Then("refocus", i.x, i.y)>>
                            ELSE <<Call("windows", i.y)>>]
    BY <1>17 DEF Exec
  <2>2. IsProg(Tree(i.y) \o <<Then("refocus", i.x, i.y)>>) /\ IsProg(<<Call("windows", i.y)>>)
    BY Programs, ProgCat DEF ThenOps
  <2> QED BY <1>17, <2>1, <2>2, KeepsSame
<1>18. CASE i.op = "refocus"
  <2>1. e = [u |-> IF u.focus = i.x THEN FocusFirstLeaf(u, i.y) ELSE u, c |-> <<>>]
    BY <1>18 DEF Exec
  <2> QED BY <1>18, <2>1, KeepsSame, KeepsFocusFirstLeaf, ProgNone
<1>19. CASE i.op = "state"
  <2> DEFINE v == [u EXCEPT !.states = Set(@, i.x, IF i.x \in DOMAIN @ THEN @[i.x] ELSE u.active)]
  <2>1. e = [u |-> v, c |-> <<>>]
    BY <1>19 DEF Exec
  <2>2. KeepsRail(u, v)
    BY DEF KeepsRail, IsView
  <2> HIDE DEF v
  <2> QED BY <1>19, <2>1, <2>2, ProgNone
<1> QED BY <1>0, <1>1, <1>2, <1>3, <1>4, <1>5, <1>6, <1>7, <1>8, <1>9, <1>10, <1>11, <1>12, <1>13,
           <1>14, <1>15, <1>16, <1>17, <1>18, <1>19 DEF ThenOps

\* A state of a run from u: what is left is a program and the list is that of u.
RunFrom(u, x) == KeepsRail(u, x.u) /\ IsProg(x.c)

LEMMA RoundKeeps ==
  ASSUME NEW u, NEW x, RunFrom(u, x), NEW map
  PROVE  /\ RunFrom(u, Round(x, map))
         /\ Rings(x.c) => Listing(Round(x, map).c)
<1>1. CASE x.c = <<>> \/ ~Head(x.c).sync
  <2>1. Round(x, map) = x
    BY <1>1 DEF Round
  <2>2. Rings(x.c) => Listing(x.c)
    BY <1>1 DEF Rings, Listing
  <2> QED BY <2>1, <2>2
<1>2. CASE x.c # <<>> /\ Head(x.c).sync
  <2> DEFINE i == Head(x.c)
             e == Exec(i, x.u, map)
  <2>1. Round(x, map) = [u |-> e.u, c |-> e.c \o Tail(x.c)]
    BY <1>2 DEF Round
  <2>2. IsProg(x.c) /\ KeepsRail(u, x.u) /\ IsView(x.u)
    BY DEF RunFrom, KeepsRail
  <2>3. IsInstr(i) /\ IsProg(Tail(x.c))
    BY <1>2, <2>2, ProgHead
  <2>4. i.sync
    BY <1>2
  <2> HIDE DEF i
  <2>5. KeepsRail(x.u, e.u) /\ IsProg(e.c) /\ (i.op = "dispose" => e.c = <<>>)
    BY <2>2, <2>3, <2>4, ExecKeeps
  <2> HIDE DEF e
  <2>6. KeepsRail(u, e.u)
    BY <2>2, <2>5, KeepsTrans
  <2>7. IsProg(e.c \o Tail(x.c))
    BY <2>3, <2>5, ProgCat
  <2>8. ASSUME Rings(x.c) PROVE Listing(e.c \o Tail(x.c))
    <3>1. i.op = "dispose" /\ Listing(Tail(x.c))
      BY <1>2, <2>8 DEF Rings, Listing, i
    <3>2. e.c \o Tail(x.c) = Tail(x.c)
      BY <2>3, <2>5, <3>1, NoneCat
    <3> QED BY <3>1, <3>2
  <2> QED BY <2>1, <2>6, <2>7, <2>8 DEF RunFrom
<1> QED BY <1>1, <1>2

\* A run leaves the list as it is, and a program that is about to list does so.
LEMMA RunKeeps ==
  ASSUME NEW u, NEW c, NEW map, IsView(u), IsProg(c)
  PROVE  /\ RunFrom(u, Run(u, c, map))
         /\ Rings(c) => Listing(Run(u, c, map).c)
<1> DEFINE N == Len(c)
           x0 == [u |-> u, c |-> c]
           Step(g, m) == IF m = 0 THEN x0 ELSE Round(g[m - 1], map)
           Upto(m) == \E g : g = [i \in 0 .. m |-> Step(g, i)]
           F == CHOOSE g : g = [i \in 0 .. N |-> Step(g, i)]
           J(m) == RunFrom(u, F[m]) /\ (Rings(c) => IF m = 0 THEN Rings(F[m].c) ELSE Listing(F[m].c))
<1>0. N \in Nat
  BY ProgLen
<1>1. Run(u, c, map) = F[N]
  BY DEF Run
<1> HIDE DEF Step
<1>2. Upto(0)
  <2>1. [i \in 0 .. 0 |-> x0] = [i \in 0 .. 0 |-> Step([j \in 0 .. 0 |-> x0], i)]
    BY DEF Step
  <2> QED BY <2>1
<1>3. ASSUME NEW m \in Nat, m # 0, Upto(m - 1) PROVE Upto(m)
  <2>1. PICK g : g = [i \in 0 .. m - 1 |-> Step(g, i)]
    BY <1>3
  <2>2. \A i \in 0 .. m - 1 : g[i] = Step(g, i)
    BY <2>1
  <2> DEFINE h == [i \in 0 .. m |-> IF i < m THEN g[i] ELSE Step(g, m)]
  <2>3. ASSUME NEW i \in 0 .. m PROVE h[i] = Step(h, i)
    <3>1. CASE i = 0
      <4>1. h[i] = g[i] /\ g[i] = Step(g, i)
        BY <1>3, <2>2, <3>1
      <4> QED BY <3>1, <4>1 DEF Step
    <3>2. CASE i # 0 /\ i < m
      <4>1. h[i] = g[i] /\ h[i - 1] = g[i - 1] /\ g[i] = Step(g, i)
        BY <2>2, <3>2
      <4> QED BY <3>2, <4>1 DEF Step
    <3>3. CASE i = m
      <4>1. h[i] = Step(g, m) /\ h[i - 1] = g[i - 1]
        BY <1>3, <3>3
      <4> QED BY <1>3, <3>3, <4>1 DEF Step
    <3> QED BY <3>1, <3>2, <3>3
  <2>4. h = [i \in 0 .. m |-> Step(h, i)]
    <3> DEFINE h2 == [i \in 0 .. m |-> Step(h, i)]
    <3>1. \A i \in 0 .. m : h2[i] = h[i]
      BY <2>3
    <3> QED BY <3>1
  <2> QED BY <2>4
<1> HIDE DEF Upto
<1>4. \A m \in Nat : Upto(m)
  <2>1. SUFFICES ASSUME {m \in Nat : ~Upto(m)} # {} PROVE FALSE
    OBVIOUS
  <2>2. PICK m \in {i \in Nat : ~Upto(i)} : \A k \in {i \in Nat : ~Upto(i)} : m <= k
    BY <2>1, LeastNumber
  <2>3. m # 0 /\ m \in Nat /\ m - 1 \in Nat /\ ~(m <= m - 1) /\ ~Upto(m)
    BY <1>2, <2>2
  <2> QED BY <1>3, <2>2, <2>3
<1>5. F = [i \in 0 .. N |-> Step(F, i)]
  <2>1. \E g : g = [i \in 0 .. N |-> Step(g, i)]
    BY <1>0, <1>4 DEF Upto
  <2> QED BY <2>1
<1> HIDE DEF F
<1>6. F[0] = x0 /\ \A m \in 1 .. N : F[m] = Round(F[m - 1], map)
  <2>1. \A m \in 0 .. N : F[m] = Step(F, m)
    BY <1>5
  <2> QED BY <1>0, <2>1 DEF Step
<1>7. J(0)
  <2>1. F[0].u = u /\ F[0].c = c
    BY <1>6
  <2> QED BY <2>1, KeepsSame DEF RunFrom
<1>8. ASSUME NEW m \in 1 .. N, J(m - 1) PROVE J(m)
  <2>1. RunFrom(u, F[m - 1]) /\ (Rings(c) => Rings(F[m - 1].c))
    BY <1>8 DEF Rings
  <2>2. /\ RunFrom(u, F[m])
        /\ Rings(F[m - 1].c) => Listing(F[m].c)
    <3>1. F[m] = Round(F[m - 1], map)
      BY <1>6, <1>8
    <3> QED BY <2>1, <3>1, RoundKeeps
  <2> QED BY <1>0, <1>8, <2>1, <2>2
<1> HIDE DEF J
<1>9. J(N)
  <2>1. SUFFICES ASSUME {m \in 0 .. N : ~J(m)} # {} PROVE FALSE
    BY <1>0
  <2>2. {m \in 0 .. N : ~J(m)} \subseteq Nat
    BY <1>0
  <2>3. PICK m \in {i \in 0 .. N : ~J(i)} : \A k \in {i \in 0 .. N : ~J(i)} : m <= k
    BY <2>1, <2>2, LeastNumber
  <2>4. m # 0 /\ m \in 1 .. N /\ m - 1 \in 0 .. N /\ ~(m <= m - 1) /\ ~J(m)
    BY <1>0, <1>7, <2>3
  <2> QED BY <1>8, <2>3, <2>4
<1>10. CASE N = 0
  <2>1. c = <<>>
    <3>1. PICK S : c \in Seq(S)
      BY DEF IsProg
    <3> QED BY <1>10, <3>1, EmptySeq
  <2>2. ~Rings(c)
    BY <2>1 DEF Rings, Listing
  <2> QED BY <1>1, <1>9, <2>2 DEF J
<1>11. CASE N # 0
  BY <1>1, <1>9, <1>11 DEF J
<1> QED BY <1>10, <1>11

-----------------------------------------------------------------------------
(* The invariant *)

\* The windows the daemon has are among those it made, and a session that is
\* listed has a pane.
WinsOK ==
  /\ made.w \in Nat /\ made.p \in Nat /\ made.v \in Nat
  /\ DOMAIN wins \subseteq 1 .. made.w
  /\ \A w \in DOMAIN wins :
       /\ {"s", "panes"} \subseteq DOMAIN wins[w]
       /\ wins[w].panes \subseteq 1 .. made.p
       /\ \E x \in DOMAIN wins : wins[x].s = wins[w].s /\ wins[x].panes # {}

JobsOK ==
  /\ DOMAIN jobs = Actors
  /\ \A a \in Actors : {"c", "ans"} \subseteq DOMAIN jobs[a] /\ IsProg(jobs[a].c)

\* The kinds of lifecycle events.
IsEvents(evs) == \E S : evs \in Seq(S) /\ \A e \in S : e.k \in {"spawned", "closed", "layout", "state"}
BusOK == IsEvents(bus) /\ reports \in Nat

\* Functions whose list_sessions has been answered, and the answer not applied.
Answered == {a \in Actors : jobs[a].c # <<>> /\ Head(jobs[a].c).op = "list" /\ jobs[a].ans # Nil}

\* A list of sessions l taken at change v of the daemon.
ListOK(l, v) ==
  /\ v \in Nat /\ v <= made.v
  /\ v = made.v => DOMAIN l = Listed
  /\ \A s \in DOMAIN l : l[s] # 0

AnswersOK ==
  \A a \in Answered : jobs[a].ans.ok /\ ListOK(jobs[a].ans.r.count, jobs[a].ans.r.v)

ViewOK == IsView(view) /\ ListOK(view.sessions, view.at)

TreesOK ==
  \A a \in Actors :
    jobs[a].c # <<>> /\ Head(jobs[a].c).op = "tree" /\ jobs[a].ans # Nil /\ jobs[a].ans.ok
      => IsFiniteSet(jobs[a].ans.r)

\* The list the rail shows and those about to replace it.
Lists ==
  {[s |-> DOMAIN view.sessions, v |-> view.at]}
    \cup {[s |-> DOMAIN jobs[a].ans.r.count, v |-> jobs[a].ans.r.v] : a \in Answered}

\* One of them is right, and newer than all that are wrong.
Fresh == \E l \in Lists : l.s = Listed /\ \A k \in Lists : k.s # Listed => k.v < l.v

\* An event that makes the event loop ask for the list, one that a worker has
\* still to report, or the loop asking.
Alert(evs) == \E n \in 1 .. Len(evs) : evs[n].k \in {"spawned", "closed"}
LoopLists == Listing(jobs["loop"].c) /\ jobs["loop"].ans = Nil
Pending == Alert(bus) \/ reports # 0 \/ LoopLists

RailInv == ~view.stale => Pending \/ Fresh

GuiInv == WinsOK /\ JobsOK /\ BusOK /\ AnswersOK /\ ViewOK /\ TreesOK /\ RailInv

-----------------------------------------------------------------------------
(* Steps that apply no list *)

\* The step neither answers nor applies a list_sessions.  Where it changes what
\* is listed an event tells the loop.
LEMMA RailFrame ==
  ASSUME GuiInv, WinsOK', JobsOK', BusOK', TreesOK',
         KeepsRail(view, view'),
         Answered' = Answered, \A a \in Answered : jobs'[a].ans = jobs[a].ans,
         made.v <= made'.v, made'.v = made.v => Listed' = Listed,
         Pending' \/ (Listed' = Listed /\ (Pending => Pending'))
  PROVE  GuiInv'
<1>1. Lists' = Lists
  BY DEF Lists, KeepsRail
<1>2. made.v \in Nat /\ made'.v \in Nat
  BY DEF GuiInv, WinsOK
<1>4. AnswersOK'
  BY <1>2 DEF GuiInv, AnswersOK, ListOK
<1>5. ViewOK'
  BY <1>2 DEF GuiInv, ViewOK, ListOK, KeepsRail, IsView
<1>6. RailInv'
  <2>1. CASE Pending'
    BY <2>1 DEF RailInv
  <2>2. CASE Listed' = Listed /\ (Pending => Pending')
    <3>1. Fresh => Fresh'
      BY <1>1, <2>2 DEF Fresh
    <3>2. ~view'.stale => ~view.stale
      BY DEF KeepsRail
    <3> QED BY <2>2, <3>1, <3>2 DEF GuiInv, RailInv
  <2> QED BY <2>1, <2>2
<1> QED BY <1>4, <1>5, <1>6 DEF GuiInv

\* An answer to a call other than for a list.
LEMMA ReturnsOther ==
  ASSUME GuiInv, NEW a \in Actors, NEW r, Returns(a, r),
         Head(jobs[a].c).op # "list", Head(jobs[a].c).op = "tree" /\ r.ok => IsFiniteSet(r.r)
  PROVE  /\ JobsOK' /\ TreesOK' /\ Answered' = Answered
         /\ \A b \in Answered : jobs'[b].ans = jobs[b].ans
         /\ LoopLists => LoopLists'
<1>1. /\ DOMAIN jobs = Actors
      /\ \A b \in Actors : {"c", "ans"} \subseteq DOMAIN jobs[b] /\ IsProg(jobs[b].c)
  BY DEF GuiInv, JobsOK
<1>2. /\ DOMAIN jobs' = Actors
      /\ \A b \in Actors : /\ DOMAIN jobs'[b] = DOMAIN jobs[b] /\ jobs'[b].c = jobs[b].c
                           /\ b # a => jobs'[b].ans = jobs[b].ans
      /\ jobs'[a].ans = r
  BY <1>1 DEF Returns
<1>3. JobsOK'
  BY <1>1, <1>2 DEF JobsOK
<1>4. TreesOK'
  BY <1>2 DEF GuiInv, TreesOK
<1>5. Answered' = Answered /\ \A b \in Answered : jobs'[b].ans = jobs[b].ans
  BY <1>2 DEF Answered
<1>6. LoopLists => LoopLists'
  <2>1. "loop" \in Actors
    BY DEF Actors
  <2>2. Listing(jobs["loop"].c) => Head(jobs["loop"].c).op = "list"
    BY DEF Listing
  <2>3. LoopLists => "loop" # a
    BY <2>2 DEF LoopLists
  <2> QED BY <1>2, <2>1, <2>3 DEF LoopLists, Listing
<1> QED BY <1>3, <1>4, <1>5, <1>6

\* A function of actor a goes on: it is not waiting for a list.
LEMMA ProceedOther ==
  ASSUME GuiInv, NEW a \in Actors, a \notin Answered, jobs[a].c = <<>> \/ jobs[a].ans # Nil,
         NEW c, NEW map, IsProg(c), NEW u, KeepsRail(view, u), Proceed(a, u, c, map)
  PROVE  /\ JobsOK' /\ TreesOK' /\ Answered' = Answered
         /\ \A b \in Answered : jobs'[b].ans = jobs[b].ans
         /\ KeepsRail(view, view')
         /\ a # "loop" => jobs'["loop"] = jobs["loop"]
         /\ Rings(c) /\ a = "loop" => Pending'
<1>1. /\ DOMAIN jobs = Actors
      /\ \A b \in Actors : {"c", "ans"} \subseteq DOMAIN jobs[b] /\ IsProg(jobs[b].c)
  BY DEF GuiInv, JobsOK
<1> DEFINE r == Run(u, c, map)
<1>3. KeepsRail(u, r.u) /\ IsProg(r.c) /\ (Rings(c) => Listing(r.c))
  <2>1. IsView(u)
    BY DEF KeepsRail
  <2> QED BY <2>1, RunKeeps DEF RunFrom
<1>4. /\ view' = Settle(r.u)
      /\ jobs' = [jobs EXCEPT ![a] = [c |-> r.c, ans |-> Nil, map |-> IF r.c = <<>> THEN <<>> ELSE map]]
  BY DEF Proceed
<1> HIDE DEF r
<1>5. KeepsRail(view, view')
  <2>1. KeepsRail(r.u, view')
    BY <1>3, <1>4, KeepsSettle DEF KeepsRail
  <2> QED BY <1>3, <2>1, KeepsTrans
<1>6. /\ DOMAIN jobs' = Actors
      /\ jobs'[a].c = r.c /\ jobs'[a].ans = Nil /\ {"c", "ans"} \subseteq DOMAIN jobs'[a]
      /\ \A b \in Actors : b # a => jobs'[b] = jobs[b]
  BY <1>1, <1>4
<1>7. JobsOK'
  BY <1>1, <1>3, <1>6 DEF JobsOK
<1>8. TreesOK'
  BY <1>6 DEF GuiInv, TreesOK
<1>9. Answered' = Answered /\ \A b \in Answered : jobs'[b].ans = jobs[b].ans
  BY <1>6 DEF Answered
<1>10. a # "loop" => jobs'["loop"] = jobs["loop"]
  BY <1>6 DEF Actors
<1>11. Rings(c) /\ a = "loop" => Pending'
  BY <1>3, <1>6 DEF Pending, LoopLists
<1> QED BY <1>5, <1>7, <1>8, <1>9, <1>10, <1>11

-----------------------------------------------------------------------------
(* What the daemon changes *)

LEMMA EventsNone == IsEvents(<<>>)
<1> DEFINE S == {}
<1>1. <<>> \in Seq(S) /\ \A e \in S : e.k \in {"spawned", "closed", "layout", "state"}
  OBVIOUS
<1> HIDE DEF S
<1> QED BY <1>1 DEF IsEvents

LEMMA EventsOne ==
  ASSUME NEW e, e.k \in {"spawned", "closed", "layout", "state"} PROVE IsEvents(<<e>>)
<1> DEFINE S == {e}
<1>1. <<e>> \in Seq(S) /\ \A x \in S : x.k \in {"spawned", "closed", "layout", "state"}
  OBVIOUS
<1> HIDE DEF S
<1> QED BY <1>1 DEF IsEvents

\* One event, and others after it.
LEMMA EventsMore ==
  ASSUME NEW e, e.k \in {"spawned", "closed", "layout", "state"}, NEW evs, IsEvents(evs)
  PROVE  /\ IsEvents(<<e>> \o evs)
         /\ e.k \in {"spawned", "closed"} \/ Alert(evs) => Alert(<<e>> \o evs)
<1>1. PICK S : evs \in Seq(S) /\ \A x \in S : x.k \in {"spawned", "closed", "layout", "state"}
  BY DEF IsEvents
<1> DEFINE U == S \cup {e}
           all == <<e>> \o evs
<1>2. <<e>> \in Seq(U) /\ evs \in Seq(U) /\ \A x \in U : x.k \in {"spawned", "closed", "layout", "state"}
  BY <1>1, SeqMonotonic
<1> HIDE DEF U
<1>3. all \in Seq(U) /\ Len(all) = Len(evs) + 1 /\ Len(evs) \in Nat
      /\ all[1] = e /\ \A n \in 1 .. Len(evs) : all[n + 1] = evs[n]
  BY <1>2
<1> HIDE DEF all
<1>4. IsEvents(all)
  BY <1>2, <1>3 DEF IsEvents
<1>5. e.k \in {"spawned", "closed"} => Alert(all)
  BY <1>3 DEF Alert
<1>6. ASSUME Alert(evs) PROVE Alert(all)
  <2>1. PICK n \in 1 .. Len(evs) : evs[n].k \in {"spawned", "closed"}
    BY <1>6 DEF Alert
  <2>2. n + 1 \in 1 .. Len(all) /\ all[n + 1] = evs[n]
    BY <1>3
  <2> QED BY <2>1, <2>2 DEF Alert
<1> QED BY <1>4, <1>5, <1>6 DEF all

\* Events are added to the bus.
LEMMA BusGrows ==
  ASSUME BusOK, NEW evs, IsEvents(evs), bus' = bus \o evs, reports' \in Nat
  PROVE  BusOK' /\ (Alert(bus) \/ Alert(evs) => Alert(bus)')
<1> DEFINE Kinds == {"spawned", "closed", "layout", "state"}
<1>0. PICK T : evs \in Seq(T) /\ \A e \in T : e.k \in Kinds
  BY DEF IsEvents
<1>1. PICK S : bus \in Seq(S) /\ \A e \in S : e.k \in Kinds
  BY DEF BusOK, IsEvents
<1> DEFINE U == S \cup T
<1>2. bus \in Seq(U) /\ evs \in Seq(U) /\ \A e \in U : e.k \in Kinds
  BY <1>0, <1>1, SeqMonotonic
<1> HIDE DEF U
<1>3. /\ bus' \in Seq(U) /\ Len(bus') = Len(bus) + Len(evs) /\ Len(bus) \in Nat /\ Len(evs) \in Nat
      /\ \A i \in 1 .. Len(bus) + Len(evs) : bus'[i] = IF i <= Len(bus) THEN bus[i] ELSE evs[i - Len(bus)]
  BY <1>2, ConcatProperties
<1>4. BusOK'
  BY <1>2, <1>3 DEF BusOK, IsEvents
<1>5. ASSUME Alert(bus) PROVE Alert(bus')
  <2>1. PICK n \in 1 .. Len(bus) : bus[n].k \in {"spawned", "closed"}
    BY <1>5 DEF Alert
  <2>2. n \in 1 .. Len(bus') /\ bus'[n] = bus[n]
    BY <1>3
  <2> QED BY <2>1, <2>2 DEF Alert
<1>6. ASSUME Alert(evs) PROVE Alert(bus')
  <2>1. PICK n \in 1 .. Len(evs) : evs[n].k \in {"spawned", "closed"}
    BY <1>6 DEF Alert
  <2>2. Len(bus) + n \in 1 .. Len(bus') /\ bus'[Len(bus) + n] = evs[n]
    BY <1>3
  <2> QED BY <2>1, <2>2 DEF Alert
<1>7. Alert(bus)' <=> Alert(bus')
  BY DEF Alert
<1> QED BY <1>4, <1>5, <1>6, <1>7

\* The call of an actor is answered, of those that change the daemon, or none is.
AnswersOther ==
  jobs' = jobs \/ \E a \in Actors : \E r : Returns(a, r) /\ Head(jobs[a].c).op \notin {"list", "tree"}

\* A change of the daemon, with what it answers to the call of an actor.
LEMMA ChangeKeeps ==
  ASSUME GuiInv, WinsOK', view' = view,
         NEW f, NEW ids, NEW evs, Changes(f, ids, evs), IsEvents(evs),
         AnswersOther,
         reports' = reports \/ (reports' \in Nat /\ reports' # 0),
         Alert(evs) \/ reports' # 0 \/ Listed' = Listed
  PROVE  GuiInv'
<1>1. bus' = bus \o evs /\ made'.v = made.v + 1
  BY DEF Changes
<1>2. BusOK' /\ (Alert(bus) \/ Alert(evs) => Alert(bus)')
  BY <1>1, BusGrows DEF GuiInv, BusOK
<1>3. /\ JobsOK' /\ TreesOK' /\ Answered' = Answered
      /\ \A b \in Answered : jobs'[b].ans = jobs[b].ans
      /\ LoopLists => LoopLists'
  <2>1. CASE jobs' = jobs
    BY <2>1 DEF GuiInv, JobsOK, TreesOK, Answered, LoopLists
  <2>2. CASE \E a \in Actors : \E r : Returns(a, r) /\ Head(jobs[a].c).op \notin {"list", "tree"}
    BY <2>2, ReturnsOther
  <2> QED BY <2>1, <2>2 DEF AnswersOther
<1>4. Pending' \/ (Listed' = Listed /\ (Pending => Pending'))
  BY <1>2, <1>3 DEF Pending
<1>5. KeepsRail(view, view')
  BY KeepsSame DEF GuiInv, ViewOK
<1>6. made.v <= made'.v /\ made'.v # made.v
  BY <1>1 DEF GuiInv, WinsOK
<1> QED BY <1>2, <1>3, <1>4, <1>5, <1>6, RailFrame

\* A step that leaves the daemon and its events as they are.
LEMMA DaemonStays ==
  ASSUME GuiInv, wins' = wins, made' = made, BusOK', JobsOK', TreesOK',
         KeepsRail(view, view'),
         Answered' = Answered, \A a \in Answered : jobs'[a].ans = jobs[a].ans,
         Pending => Pending'
  PROVE  GuiInv'
<1>1. WinsOK'
  BY DEF GuiInv, WinsOK
<1>2. Listed' = Listed
  BY DEF Listed
<1>3. made.v <= made'.v
  BY DEF GuiInv, WinsOK
<1> QED BY <1>1, <1>2, <1>3, RailFrame

\* The windows and the panes of the daemon are finitely many.
LEMMA FiniteWins ==
  ASSUME WinsOK, NEW s
  PROVE  IsFiniteSet(WindowsOf(s)) /\ IsFiniteSet(PanesOf(s)) /\ (s \in Listed => PanesOf(s) # {})
<1>1. WindowsOf(s) \subseteq 1 .. made.w /\ PanesOf(s) \subseteq 1 .. made.p /\ made.w \in Nat /\ made.p \in Nat
  BY DEF WinsOK, WindowsOf, PanesOf
<1>2. IsFiniteSet(1 .. made.w) /\ IsFiniteSet(1 .. made.p)
  <2>1. \A n \in Nat : IsFiniteSet(1 .. n)
    BY FS_Interval
  <2> QED BY <1>1, <2>1
<1>3. IsFiniteSet(WindowsOf(s)) /\ IsFiniteSet(PanesOf(s))
  BY <1>1, <1>2, FS_Subset
<1>4. ASSUME s \in Listed PROVE PanesOf(s) # {}
  <2>1. PICK w \in DOMAIN wins : wins[w].s = s
    BY <1>4 DEF Listed
  <2>2. PICK x \in DOMAIN wins : wins[x].s = s /\ wins[x].panes # {}
    BY <2>1 DEF WinsOK
  <2> QED BY <2>2 DEF PanesOf, WindowsOf
<1> QED BY <1>3, <1>4

LEMMA SpawnChanges ==
  ASSUME GuiInv, SpawnDaemon, view' = view,
         AnswersOther
  PROVE  GuiInv'
<1> DEFINE win == [s |-> NewW, panes |-> {NewP}]
           f == Set(wins, NewW, win)
           evs == <<Event("spawned", NewP)>>
<1>1. Changes(f, <<1, 1>>, evs) /\ reports' = reports
  BY DEF SpawnDaemon
<1>2. wins' = f /\ made' = [w |-> made.w + 1, p |-> made.p + 1, v |-> made.v + 1]
  BY <1>1 DEF Changes
<1>3. /\ DOMAIN wins' = DOMAIN wins \cup {made.w + 1} /\ wins'[made.w + 1] = win
      /\ \A x \in DOMAIN wins : x # made.w + 1 => wins'[x] = wins[x]
  BY <1>2 DEF Set, NewW
<1>4. made.w \in Nat /\ made.p \in Nat /\ made.v \in Nat /\ DOMAIN wins \subseteq 1 .. made.w
  BY DEF GuiInv, WinsOK
<1>5. \A x \in DOMAIN wins : x # made.w + 1
  BY <1>4
<1>6. WinsOK'
  <2>1. made'.w \in Nat /\ made'.p \in Nat /\ made'.v \in Nat /\ DOMAIN wins' \subseteq 1 .. made'.w
    BY <1>2, <1>3, <1>4
  <2>2. ASSUME NEW w \in DOMAIN wins'
        PROVE  /\ {"s", "panes"} \subseteq DOMAIN wins'[w]
               /\ wins'[w].panes \subseteq 1 .. made'.p
               /\ \E x \in DOMAIN wins' : wins'[x].s = wins'[w].s /\ wins'[x].panes # {}
    <3>1. CASE w = made.w + 1
      <4>1. wins'[w] = win /\ w \in DOMAIN wins'
        BY <1>3, <3>1
      <4>2. NewP \in 1 .. made'.p
        BY <1>2, <1>4 DEF NewP
      <4> QED BY <4>1, <4>2
    <3>2. CASE w \in DOMAIN wins
      <4>1. /\ {"s", "panes"} \subseteq DOMAIN wins[w] /\ wins[w].panes \subseteq 1 .. made.p
            /\ \E x \in DOMAIN wins : wins[x].s = wins[w].s /\ wins[x].panes # {}
        BY <3>2 DEF GuiInv, WinsOK
      <4>2. 1 .. made.p \subseteq 1 .. made'.p
        BY <1>2, <1>4
      <4> QED BY <1>3, <1>5, <3>2, <4>1, <4>2
    <3> QED BY <1>3, <3>1, <3>2
  <2> QED BY <2>1, <2>2 DEF WinsOK
<1>7. IsEvents(evs) /\ Alert(evs)
  BY EventsOne DEF Alert, Event
<1> QED BY <1>1, <1>6, <1>7, ChangeKeeps

\* A pane is added to a window, with any events.
LEMMA OpenChanges ==
  ASSUME GuiInv, NEW w \in DOMAIN wins, NEW evs, IsEvents(evs),
         AddPane(w, evs), view' = view, reports' = reports,
         AnswersOther
  PROVE  GuiInv'
<1> DEFINE f == [wins EXCEPT ![w].panes = @ \cup {NewP}]
<1>1. Changes(f, <<0, 1>>, evs)
  BY DEF AddPane
<1>2. wins' = f /\ made' = [w |-> made.w + 0, p |-> made.p + 1, v |-> made.v + 1]
  BY <1>1 DEF Changes
<1>3. made.w \in Nat /\ made.p \in Nat /\ made.v \in Nat /\ DOMAIN wins \subseteq 1 .. made.w
  BY DEF GuiInv, WinsOK
<1>4. /\ DOMAIN wins' = DOMAIN wins
      /\ \A x \in DOMAIN wins : x # w => wins'[x] = wins[x]
  BY <1>2
<1>5. {"s", "panes"} \subseteq DOMAIN wins[w] /\ wins[w].panes \subseteq 1 .. made.p
  BY DEF GuiInv, WinsOK
<1>6. {"s", "panes"} \subseteq DOMAIN wins'[w] /\ wins'[w].s = wins[w].s
        /\ wins'[w].panes = wins[w].panes \cup {NewP}
  BY <1>2, <1>5
<1>7. WinsOK'
  <2>1. made'.w \in Nat /\ made'.p \in Nat /\ made'.v \in Nat /\ DOMAIN wins' \subseteq 1 .. made'.w
    BY <1>2, <1>3, <1>4
  <2>2. ASSUME NEW y \in DOMAIN wins'
        PROVE  /\ {"s", "panes"} \subseteq DOMAIN wins'[y]
               /\ wins'[y].panes \subseteq 1 .. made'.p
               /\ \E x \in DOMAIN wins' : wins'[x].s = wins'[y].s /\ wins'[x].panes # {}
    <3>1. /\ {"s", "panes"} \subseteq DOMAIN wins[y] /\ wins[y].panes \subseteq 1 .. made.p
          /\ \E x \in DOMAIN wins : wins[x].s = wins[y].s /\ wins[x].panes # {}
      BY <1>4 DEF GuiInv, WinsOK
    <3>2. 1 .. made.p \subseteq 1 .. made'.p /\ NewP \in 1 .. made'.p
      BY <1>2, <1>3 DEF NewP
    <3>3. \E x \in DOMAIN wins' : wins'[x].s = wins'[y].s /\ wins'[x].panes # {}
      BY <1>4, <1>6, <3>1
    <3> QED BY <1>4, <1>6, <3>1, <3>2, <3>3
  <2> QED BY <2>1, <2>2 DEF WinsOK
<1>8. Listed' = Listed
  <2>1. \A y \in DOMAIN wins : wins'[y].s = wins[y].s
    BY <1>4, <1>6
  <2> QED BY <1>4, <2>1 DEF Listed
<1> HIDE DEF f
<1> QED BY <1>1, <1>7, <1>8, ChangeKeeps

\* open_pane_split opens the pane.
LEMMA StartSplitKeeps ==
  ASSUME GuiInv, NEW by, NEW p \in LivePanes, StartSplit(by, p), view' = view, AnswersOther
  PROVE  GuiInv'
<1> DEFINE evs == IF script.single THEN <<Event("spawned", NewP)>> ELSE <<>>
<1>1. AddPane(WindowOf(p), evs) /\ reports' = reports
  BY DEF StartSplit
<1>2. WindowOf(p) \in DOMAIN wins
  BY DEF WindowOf, LivePanes
<1>3. IsEvents(evs)
  BY EventsNone, EventsOne DEF Event
<1> HIDE DEF evs
<1> QED BY <1>1, <1>2, <1>3, OpenChanges

\* The events of panes P that end: one of them at least is a closed.
LEMMA ClosedAlert ==
  ASSUME NEW P, IsFiniteSet(P)
  PROVE  IsEvents(ClosedEvents(P)) /\ (P # {} => Alert(ClosedEvents(P)))
<1> DEFINE E == {Event("closed", p) : p \in P}
           g == [p \in P |-> Event("closed", p)]
<1>1. g \in Surjection(P, E)
  BY DEF Surjection
<1>2. IsFiniteSet(E)
  BY <1>1, FS_Surjection
<1>3. P # {} => E # {}
  OBVIOUS
<1>4. \A e \in E : e.k = "closed"
  BY DEF Event
<1> HIDE DEF E, g
<1> DEFINE n == Cardinality(E)
           q == SetToSeq(E)
<1>5. n \in Nat /\ (E # {} => n # 0) /\ ExistsBijection(1 .. n, E)
  BY <1>2, FS_CardinalityType, FS_EmptySet
<1>6. \E h \in [1 .. n -> E] : IsInjective(h)
  BY <1>5 DEF ExistsBijection, Bijection, Injection
<1>7. q \in [1 .. n -> E]
  BY <1>6 DEF SetToSeq
<1> HIDE DEF q, n
<1>8. q \in Seq(E) /\ Len(q) = n
  BY <1>5, <1>7
<1>9. P # {} => Alert(q)
  BY <1>3, <1>4, <1>5, <1>7, <1>8 DEF Alert
<1>10. IsEvents(q)
  BY <1>4, <1>8 DEF IsEvents
<1> QED BY <1>9, <1>10 DEF q, E, ClosedEvents

\* The windows when the panes P have ended: those of sessions that have another.
LEMMA EndedIs ==
  ASSUME WinsOK, NEW P
  PROVE  /\ DOMAIN Ended(P) = {w \in DOMAIN wins : \E x \in DOMAIN wins :
                                  wins[x].s = wins[w].s /\ wins[x].panes \ P # {}}
         /\ \A w \in DOMAIN Ended(P) :
              /\ {"s", "panes"} \subseteq DOMAIN Ended(P)[w]
              /\ Ended(P)[w].s = wins[w].s /\ Ended(P)[w].panes = wins[w].panes \ P
<1> DEFINE left == [w \in DOMAIN wins |-> [wins[w] EXCEPT !.panes = @ \ P]]
           alive == {left[w].s : w \in {x \in DOMAIN left : left[x].panes # {}}}
<1>1. Ended(P) = Restrict(left, {w \in DOMAIN left : left[w].s \in alive})
  BY DEF Ended
<1>2. DOMAIN left = DOMAIN wins
  OBVIOUS
<1>3. ASSUME NEW w \in DOMAIN wins
      PROVE  {"s", "panes"} \subseteq DOMAIN left[w] /\ left[w].s = wins[w].s /\ left[w].panes = wins[w].panes \ P
  <2>1. {"s", "panes"} \subseteq DOMAIN wins[w]
    BY DEF WinsOK
  <2>2. left[w] = [wins[w] EXCEPT !.panes = wins[w].panes \ P]
    OBVIOUS
  <2> HIDE DEF left
  <2> QED BY <2>1, <2>2
<1> HIDE DEF left
<1>4. \A w \in DOMAIN wins : left[w].s \in alive <=>
         \E x \in DOMAIN wins : wins[x].s = wins[w].s /\ wins[x].panes \ P # {}
  BY <1>2, <1>3
<1> HIDE DEF alive
<1>5. DOMAIN Ended(P) = {w \in DOMAIN left : left[w].s \in alive}
      /\ \A w \in DOMAIN Ended(P) : Ended(P)[w] = left[w]
  BY <1>1 DEF Restrict
<1> QED BY <1>2, <1>3, <1>4, <1>5

\* Panes P end, with events that tell of it.
LEMMA EndChanges ==
  ASSUME GuiInv, NEW P, NEW evs, IsEvents(evs), P # {} => Alert(evs),
         Changes(Ended(P), <<0, 0>>, evs), view' = view, reports' = reports,
         AnswersOther
  PROVE  GuiInv'
<1>2. wins' = Ended(P) /\ made' = [w |-> made.w + 0, p |-> made.p + 0, v |-> made.v + 1]
  BY DEF Changes
<1>3. WinsOK
  BY DEF GuiInv
<1>5. WinsOK'
  <2>1. made'.w \in Nat /\ made'.p \in Nat /\ made'.v \in Nat /\ made'.w = made.w /\ made'.p = made.p
    BY <1>2, <1>3 DEF WinsOK
  <2>0. /\ DOMAIN wins' = {w \in DOMAIN wins : \E x \in DOMAIN wins :
                             wins[x].s = wins[w].s /\ wins[x].panes \ P # {}}
        /\ \A w \in DOMAIN wins' :
             /\ {"s", "panes"} \subseteq DOMAIN wins'[w]
             /\ wins'[w].s = wins[w].s /\ wins'[w].panes = wins[w].panes \ P
    <3>1. wins' = Ended(P)
      BY <1>2
    <3>2. /\ DOMAIN Ended(P) = {w \in DOMAIN wins : \E x \in DOMAIN wins :
                                 wins[x].s = wins[w].s /\ wins[x].panes \ P # {}}
          /\ \A w \in DOMAIN Ended(P) :
               /\ {"s", "panes"} \subseteq DOMAIN Ended(P)[w]
               /\ Ended(P)[w].s = wins[w].s /\ Ended(P)[w].panes = wins[w].panes \ P
      BY <1>3, EndedIs
    <3> QED BY <3>1, <3>2
  <2>2. DOMAIN wins' \subseteq 1 .. made'.w
    BY <1>3, <2>0, <2>1 DEF WinsOK
  <2>3. ASSUME NEW w \in DOMAIN wins'
        PROVE  /\ {"s", "panes"} \subseteq DOMAIN wins'[w]
               /\ wins'[w].panes \subseteq 1 .. made'.p
               /\ \E x \in DOMAIN wins' : wins'[x].s = wins'[w].s /\ wins'[x].panes # {}
    <3>1. PICK x \in DOMAIN wins : wins[x].s = wins[w].s /\ wins[x].panes \ P # {}
      BY <2>0
    <3>2. w \in DOMAIN wins /\ x \in DOMAIN wins'
      BY <2>0, <3>1
    <3>3. /\ {"s", "panes"} \subseteq DOMAIN wins'[w] /\ wins'[w].panes = wins[w].panes \ P
          /\ wins'[w].s = wins[w].s /\ wins'[x].s = wins[x].s /\ wins'[x].panes = wins[x].panes \ P
      BY <2>0, <3>2
    <3>4. wins[w].panes \subseteq 1 .. made.p
      BY <1>3, <3>2 DEF WinsOK
    <3> QED BY <2>1, <3>1, <3>2, <3>3, <3>4
  <2> QED BY <2>1, <2>2, <2>3 DEF WinsOK
<1>6. ASSUME P = {} PROVE Listed' = Listed
  <2>1. /\ DOMAIN wins' = {w \in DOMAIN wins : \E x \in DOMAIN wins :
                             wins[x].s = wins[w].s /\ wins[x].panes \ P # {}}
        /\ \A w \in DOMAIN wins' : wins'[w].s = wins[w].s
    <3>1. wins' = Ended(P)
      BY <1>2
    <3>2. /\ DOMAIN Ended(P) = {w \in DOMAIN wins : \E x \in DOMAIN wins :
                                 wins[x].s = wins[w].s /\ wins[x].panes \ P # {}}
          /\ \A w \in DOMAIN Ended(P) : Ended(P)[w].s = wins[w].s
      BY <1>3, EndedIs
    <3> QED BY <3>1, <3>2
  <2>2. DOMAIN wins' = DOMAIN wins
    <3>1. \A w \in DOMAIN wins : \E x \in DOMAIN wins : wins[x].s = wins[w].s /\ wins[x].panes # {}
      BY <1>3 DEF WinsOK
    <3> QED BY <1>6, <2>1, <3>1
  <2> QED BY <2>1, <2>2 DEF Listed
<1> QED BY <1>5, <1>6, ChangeKeeps

\* Panes that are alive are finitely many.
LEMMA FiniteLive == WinsOK => IsFiniteSet(LivePanes)
<1> SUFFICES ASSUME WinsOK PROVE IsFiniteSet(LivePanes)
  OBVIOUS
<1>1. LivePanes \subseteq 1 .. made.p /\ made.p \in Nat
  BY DEF WinsOK, LivePanes
<1>2. IsFiniteSet(1 .. made.p)
  BY <1>1, FS_Interval
<1> QED BY <1>1, <1>2, FS_Subset

LEMMA ExitChanges ==
  ASSUME GuiInv, NEW p \in LivePanes, ExitDaemon(p), view' = view, AnswersOther
  PROVE  GuiInv'
<1> DEFINE closed == ClosedEvents({p})
           e == Event("layout", Nil)
<1>1. /\ reports' = reports
      /\ \/ Changes(Ended({p}), <<0, 0>>, <<e>> \o closed)
         \/ Changes(Ended({p}), <<0, 0>>, <<>> \o closed)
  BY DEF ExitDaemon
<1>2. IsEvents(closed) /\ Alert(closed)
  <2>1. IsFiniteSet({p}) /\ {p} # {}
    BY FS_Singleton
  <2> QED BY <2>1, ClosedAlert
<1> HIDE DEF closed
<1>3. <<>> \o closed = closed
  <2>1. PICK S : closed \in Seq(S)
    BY <1>2 DEF IsEvents
  <2> QED BY <2>1, ConcatEmptySeq
<1>4. IsEvents(<<e>> \o closed) /\ Alert(<<e>> \o closed)
  BY <1>2, EventsMore DEF Event
<1> HIDE DEF e
<1> QED BY <1>1, <1>2, <1>3, <1>4, EndChanges

LEMMA CloseChanges ==
  ASSUME GuiInv, NEW w, NEW P, P \subseteq LivePanes, CloseDaemon(w, P), view' = view, AnswersOther
  PROVE  GuiInv'
<1> DEFINE closed == ClosedEvents(P)
           e == Event("layout", Nil)
           evs == IF P = {} THEN <<>> ELSE <<e>> \o closed
<1>1. reports' = reports /\ Changes(Ended(P), <<0, 0>>, evs)
  BY DEF CloseDaemon
<1>2. IsEvents(closed) /\ (P # {} => Alert(closed))
  <2>1. IsFiniteSet(P)
    BY FiniteLive, FS_Subset DEF GuiInv
  <2> QED BY <2>1, ClosedAlert
<1> HIDE DEF closed
<1>3. IsEvents(<<e>> \o closed) /\ (P # {} => Alert(<<e>> \o closed))
  BY <1>2, EventsMore DEF Event
<1> HIDE DEF e
<1>4. IsEvents(evs) /\ (P # {} => Alert(evs))
  BY <1>3, EventsNone
<1> HIDE DEF evs
<1> QED BY <1>1, <1>4, EndChanges

\* A session is killed: its panes are told of now, or by its worker later.
LEMMA KillChanges ==
  ASSUME GuiInv, NEW s \in Listed, KillDaemon(s), view' = view, AnswersOther
  PROVE  GuiInv'
<1> DEFINE P == PanesOf(s)
           f == Drop(wins, WindowsOf(s))
           evs == IF script.single THEN ClosedEvents(P) ELSE <<>>
<1>1. Changes(f, <<0, 0>>, evs) /\ reports' = IF script.single THEN reports ELSE reports + Cardinality(P)
  BY DEF KillDaemon
<1>2. WinsOK /\ reports \in Nat
  BY DEF GuiInv, BusOK
<1>3. IsFiniteSet(P) /\ P # {}
  BY <1>2, FiniteWins
<1> HIDE DEF P
<1>4. Cardinality(P) \in Nat /\ Cardinality(P) # 0
  BY <1>3, FS_CardinalityType, FS_EmptySet
<1>5. IsEvents(evs) /\ (script.single => Alert(evs))
  BY <1>3, ClosedAlert, EventsNone
<1>6. /\ reports' = reports \/ (reports' \in Nat /\ reports' # 0)
      /\ Alert(evs) \/ reports' # 0
  BY <1>1, <1>2, <1>4, <1>5
<1> HIDE DEF evs
<1>7. wins' = f /\ made' = [w |-> made.w + 0, p |-> made.p + 0, v |-> made.v + 1]
  BY <1>1 DEF Changes
<1>8. /\ DOMAIN wins' = {w \in DOMAIN wins : wins[w].s # s}
      /\ \A w \in DOMAIN wins' : wins'[w] = wins[w]
  BY <1>7 DEF Drop, Restrict, WindowsOf
<1>9. WinsOK'
  <2>1. made'.w = made.w /\ made'.p = made.p /\ made'.v \in Nat
    BY <1>2, <1>7 DEF WinsOK
  <2>2. ASSUME NEW w \in DOMAIN wins'
        PROVE  /\ {"s", "panes"} \subseteq DOMAIN wins'[w]
               /\ wins'[w].panes \subseteq 1 .. made'.p
               /\ \E x \in DOMAIN wins' : wins'[x].s = wins'[w].s /\ wins'[x].panes # {}
    <3>1. w \in DOMAIN wins /\ wins[w].s # s /\ wins'[w] = wins[w]
      BY <1>8
    <3>2. PICK x \in DOMAIN wins : wins[x].s = wins[w].s /\ wins[x].panes # {}
      BY <1>2, <3>1 DEF WinsOK
    <3>3. x \in DOMAIN wins' /\ wins'[x] = wins[x]
      BY <1>8, <3>1, <3>2
    <3> QED BY <1>2, <2>1, <3>1, <3>2, <3>3 DEF WinsOK
  <2> QED BY <1>2, <1>8, <2>1, <2>2 DEF WinsOK
<1> HIDE DEF f
<1> QED BY <1>1, <1>5, <1>6, <1>9, ChangeKeeps

LEMMA NewWindowChanges ==
  ASSUME GuiInv, NEW a \in Actors, NEW s, OpenWindow(a, s), view' = view,
         Head(jobs[a].c).op \notin {"list", "tree"}
  PROVE  GuiInv'
<1> DEFINE win == [s |-> s, panes |-> {}]
           f == Set(wins, NewW, win)
<1>1. s \in Listed /\ Changes(f, <<1, 0>>, <<>>) /\ reports' = reports /\ \E r : Returns(a, r)
  BY DEF OpenWindow
<1>2. wins' = f /\ made' = [w |-> made.w + 1, p |-> made.p + 0, v |-> made.v + 1]
  BY <1>1 DEF Changes
<1>3. made.w \in Nat /\ made.p \in Nat /\ made.v \in Nat /\ DOMAIN wins \subseteq 1 .. made.w
  BY DEF GuiInv, WinsOK
<1>4. /\ DOMAIN wins' = DOMAIN wins \cup {made.w + 1} /\ wins'[made.w + 1] = win
      /\ \A x \in DOMAIN wins : wins'[x] = wins[x]
  <2>1. \A x \in DOMAIN wins : x # made.w + 1
    BY <1>3
  <2> QED BY <1>2, <2>1 DEF Set, NewW
<1>5. PICK y \in DOMAIN wins : wins[y].s = s
  BY <1>1 DEF Listed
<1>6. WinsOK'
  <2>1. /\ made'.w \in Nat /\ made'.p \in Nat /\ made'.v \in Nat /\ made'.p = made.p
        /\ DOMAIN wins' \subseteq 1 .. made'.w
    BY <1>2, <1>3, <1>4
  <2>2. ASSUME NEW w \in DOMAIN wins'
        PROVE  /\ {"s", "panes"} \subseteq DOMAIN wins'[w]
               /\ wins'[w].panes \subseteq 1 .. made'.p
               /\ \E x \in DOMAIN wins' : wins'[x].s = wins'[w].s /\ wins'[x].panes # {}
    <3>1. CASE w = made.w + 1
      <4>1. wins'[w] = win
        BY <1>4, <3>1
      <4>2. PICK x \in DOMAIN wins : wins[x].s = s /\ wins[x].panes # {}
        BY <1>5 DEF GuiInv, WinsOK
      <4>3. x \in DOMAIN wins' /\ wins'[x] = wins[x]
        BY <1>4
      <4> QED BY <4>1, <4>2, <4>3
    <3>2. CASE w \in DOMAIN wins
      <4>1. /\ {"s", "panes"} \subseteq DOMAIN wins[w] /\ wins[w].panes \subseteq 1 .. made.p
            /\ \E x \in DOMAIN wins : wins[x].s = wins[w].s /\ wins[x].panes # {}
        BY <3>2 DEF GuiInv, WinsOK
      <4> QED BY <1>4, <2>1, <3>2, <4>1
    <3> QED BY <1>4, <3>1, <3>2
  <2> QED BY <2>1, <2>2 DEF WinsOK
<1>7. Listed' = Listed
  <2>1. \A w \in DOMAIN wins' : wins'[w].s \in Listed
    BY <1>1, <1>4 DEF Listed
  <2>2. \A w \in DOMAIN wins : wins[w].s \in Listed'
    BY <1>4 DEF Listed
  <2> QED BY <2>1, <2>2 DEF Listed
<1>8. IsEvents(<<>>)
  BY EventsNone
<1> HIDE DEF f
<1> QED BY <1>1, <1>6, <1>7, <1>8, ChangeKeeps DEF AnswersOther

\* The rest of close_window: a window without panes goes.
LEMMA WindowGoes ==
  ASSUME GuiInv, NEW h, FinishWindow(h), view' = view, reports' = reports, AnswersOther
  PROVE  GuiInv'
<1> DEFINE empty == h.w \in DOMAIN wins /\ wins[h.w].panes = {}
           f == IF empty THEN Drop(wins, {h.w}) ELSE wins
<1>1. Changes(f, <<0, 0>>, <<>>)
  BY DEF FinishWindow
<1>2. wins' = f /\ made' = [w |-> made.w + 0, p |-> made.p + 0, v |-> made.v + 1]
  BY <1>1 DEF Changes
<1>3. WinsOK
  BY DEF GuiInv
<1>4. /\ DOMAIN wins' \subseteq DOMAIN wins
      /\ \A w \in DOMAIN wins : wins[w].panes # {} => w \in DOMAIN wins'
      /\ \A w \in DOMAIN wins' : wins'[w] = wins[w]
  BY <1>2 DEF Drop, Restrict
<1> HIDE DEF f, empty
<1>5. made'.w = made.w /\ made'.p = made.p /\ made'.v \in Nat
  BY <1>2, <1>3 DEF WinsOK
<1>6. ASSUME NEW w \in DOMAIN wins
      PROVE  \E x \in DOMAIN wins' : wins'[x].s = wins[w].s /\ wins'[x].panes # {}
  <2>1. PICK x \in DOMAIN wins : wins[x].s = wins[w].s /\ wins[x].panes # {}
    BY <1>3 DEF WinsOK
  <2> QED BY <1>4, <2>1
<1>7. WinsOK'
  <2>1. ASSUME NEW w \in DOMAIN wins'
        PROVE  /\ {"s", "panes"} \subseteq DOMAIN wins'[w]
               /\ wins'[w].panes \subseteq 1 .. made'.p
               /\ \E x \in DOMAIN wins' : wins'[x].s = wins'[w].s /\ wins'[x].panes # {}
    BY <1>3, <1>4, <1>5, <1>6 DEF WinsOK
  <2> QED BY <1>3, <1>4, <1>5, <2>1 DEF WinsOK
<1>8. Listed' = Listed
  BY <1>4, <1>6 DEF Listed
<1> QED BY <1>1, <1>7, <1>8, EventsNone, ChangeKeeps

\* The rest of a split.
LEMMA SplitEnds ==
  ASSUME GuiInv, NEW h, FinishSplit(h), view' = view, reports' = reports, AnswersOther
  PROVE  GuiInv'
<1> DEFINE e == Event("spawned", h.new)
           l == <<Event("layout", Nil)>>
           evs == (IF script.single THEN <<>> ELSE <<e>>) \o l
<1>1. Changes(wins, <<0, 0>>, evs)
  BY DEF FinishSplit
<1>2. wins' = wins /\ made' = [w |-> made.w + 0, p |-> made.p + 0, v |-> made.v + 1]
  BY <1>1 DEF Changes
<1>3. WinsOK' /\ Listed' = Listed
  BY <1>2 DEF GuiInv, WinsOK, Listed
<1>4. IsEvents(l)
  BY EventsOne DEF Event
<1> HIDE DEF l
<1>5. <<>> \o l = l
  <2>1. PICK S : l \in Seq(S)
    BY <1>4 DEF IsEvents
  <2> QED BY <2>1, ConcatEmptySeq
<1>6. IsEvents(<<e>> \o l)
  BY <1>4, EventsMore DEF Event
<1> HIDE DEF e
<1>7. IsEvents(evs)
  BY <1>4, <1>5, <1>6
<1> HIDE DEF evs
<1> QED BY <1>1, <1>3, <1>7, ChangeKeeps

LEMMA FinishCallKeeps ==
  ASSUME GuiInv, NEW h, FinishCall(h)
  PROVE  GuiInv'
<1>1. view' = view /\ reports' = reports
  BY DEF FinishCall
<1>2. AnswersOther
  BY DEF FinishCall, AnswersOther, Doing
<1>3. CASE FinishSplit(h)
  BY <1>1, <1>2, <1>3, SplitEnds
<1>4. CASE FinishWindow(h)
  BY <1>1, <1>2, <1>4, WindowGoes
<1> QED BY <1>3, <1>4 DEF FinishCall

\* A worker that was told to shut down reports a pane.
LEMMA ReportKeeps ==
  ASSUME GuiInv, WorkerReports
  PROVE  GuiInv'
<1> DEFINE e == Event("closed", Nil)
<1>1. /\ wins' = wins /\ made' = made /\ view' = view /\ jobs' = jobs
      /\ bus' = Append(bus, e) /\ reports' = reports - 1 /\ reports # 0 /\ reports \in Nat
  BY DEF WorkerReports, GuiInv, BusOK
<1>2. IsEvents(<<e>>) /\ Alert(<<e>>)
  BY EventsOne DEF Event, Alert
<1> HIDE DEF e
<1>3. bus' = bus \o <<e>>
  <2>1. PICK S : bus \in Seq(S)
    BY DEF GuiInv, BusOK, IsEvents
  <2> DEFINE U == S \cup {e}
  <2>2. bus \in Seq(U) /\ e \in U
    BY <2>1, SeqMonotonic
  <2> HIDE DEF U
  <2> QED BY <1>1, <2>2, AppendIsConcat
<1>4. BusOK' /\ Alert(bus)'
  <2>1. reports' \in Nat
    BY <1>1
  <2> QED BY <1>2, <1>3, <2>1, BusGrows DEF GuiInv
<1>5. JobsOK' /\ TreesOK' /\ Answered' = Answered /\ Pending'
  BY <1>1, <1>4 DEF GuiInv, JobsOK, TreesOK, Answered, Pending
<1>6. KeepsRail(view, view')
  BY <1>1, KeepsSame DEF GuiInv, ViewOK
<1> QED BY <1>1, <1>4, <1>5, <1>6, DaemonStays

-----------------------------------------------------------------------------
(* Calls are served *)

\* A call that reads something else than the list.
LEMMA ReadsOther ==
  ASSUME GuiInv, NEW a \in Actors, NEW r, Replies(a, r), view' = view,
         Head(jobs[a].c).op # "list", Head(jobs[a].c).op = "tree" /\ r.ok => IsFiniteSet(r.r)
  PROVE  GuiInv'
<1>1. Returns(a, r) /\ wins' = wins /\ made' = made /\ bus' = bus /\ reports' = reports
  BY DEF Replies
<1>2. /\ JobsOK' /\ TreesOK' /\ Answered' = Answered
      /\ \A b \in Answered : jobs'[b].ans = jobs[b].ans
      /\ LoopLists => LoopLists'
  BY <1>1, ReturnsOther
<1>3. BusOK' /\ (Alert(bus) => Alert(bus)')
  BY <1>1 DEF GuiInv, BusOK, IsEvents, Alert
<1>4. KeepsRail(view, view')
  BY KeepsSame DEF GuiInv, ViewOK
<1>5. Pending => Pending'
  BY <1>1, <1>2, <1>3 DEF Pending
<1> QED BY <1>1, <1>2, <1>3, <1>4, <1>5, DaemonStays

\* list_sessions is answered: with the list of this moment, so the rail has or
\* will have it.
LEMMA ListServed ==
  ASSUME GuiInv, NEW a \in Actors, view' = view, ListAllSessions(a),
         jobs[a].c # <<>>, Head(jobs[a].c).op = "list", jobs[a].ans = Nil
  PROVE  GuiInv'
<1> DEFINE count == [s \in Listed |-> Cardinality(PanesOf(s))]
<1>1. PICK f : Reads(a, Ok([count |-> count, first |-> f, v |-> made.v]))
  BY DEF ListAllSessions
<1> DEFINE ans == Ok([count |-> count, first |-> f, v |-> made.v])
<1>2. /\ wins' = wins /\ made' = made /\ bus' = bus /\ reports' = reports
      /\ jobs' = [jobs EXCEPT ![a].ans = ans]
  BY <1>1 DEF Reads, Replies, Returns
<1>3. ans.ok /\ ans.r.count = count /\ ans.r.v = made.v
  BY DEF Ok
<1>4. WinsOK /\ made.v \in Nat
  BY DEF GuiInv, WinsOK
<1>5. ListOK(count, made.v)
  <2>1. ASSUME NEW s \in Listed PROVE Cardinality(PanesOf(s)) # 0
    BY <1>4, FiniteWins, FS_EmptySet
  <2> QED BY <1>4, <2>1 DEF ListOK
<1>6. DOMAIN count = Listed
  OBVIOUS
<1> HIDE DEF ans, count
<1>7. WinsOK' /\ BusOK' /\ Listed' = Listed /\ (Alert(bus) => Alert(bus)')
  BY <1>2 DEF GuiInv, WinsOK, BusOK, IsEvents, Listed, Alert
<1>8. /\ DOMAIN jobs = Actors
      /\ \A b \in Actors : {"c", "ans"} \subseteq DOMAIN jobs[b] /\ IsProg(jobs[b].c)
  BY DEF GuiInv, JobsOK
<1>9. /\ DOMAIN jobs' = Actors
      /\ \A b \in Actors : /\ DOMAIN jobs'[b] = DOMAIN jobs[b] /\ jobs'[b].c = jobs[b].c
                           /\ b # a => jobs'[b].ans = jobs[b].ans
      /\ jobs'[a].ans = ans
  BY <1>2, <1>8
<1>10. JobsOK'
  BY <1>8, <1>9 DEF JobsOK
<1>11. TreesOK'
  BY <1>9 DEF GuiInv, TreesOK
<1>12. ViewOK'
  BY <1>2, <1>7 DEF GuiInv, ViewOK, ListOK, IsView
<1>13. a \notin Answered /\ \A b \in Actors : b # a => (b \in Answered' <=> b \in Answered)
  BY <1>9 DEF Answered
<1>14. AnswersOK'
  <2>1. ASSUME NEW b \in Answered'
        PROVE  jobs'[b].ans.ok /\ ListOK(jobs[b].ans.r.count, jobs[b].ans.r.v)'
    <3>1. b \in Actors
      BY <2>1 DEF Answered
    <3>2. CASE b = a
      BY <1>2, <1>3, <1>5, <1>7, <1>9, <3>2 DEF ListOK
    <3>3. CASE b # a
      <4>1. jobs[b].ans.ok /\ ListOK(jobs[b].ans.r.count, jobs[b].ans.r.v) /\ jobs'[b].ans = jobs[b].ans
        BY <1>9, <1>13, <2>1, <3>1, <3>3 DEF GuiInv, AnswersOK
      <4> QED BY <1>2, <1>7, <4>1 DEF ListOK
    <3> QED BY <3>2, <3>3
  <2> QED BY <2>1 DEF AnswersOK
<1>15. RailInv'
  <2>1. CASE a \notin Answered'
    <3>1. Answered' = Answered /\ \A b \in Answered : jobs'[b].ans = jobs[b].ans
      BY <1>9, <1>13, <2>1 DEF Answered
    <3>2. Lists' = Lists
      BY <3>1 DEF Lists
    <3>3. Fresh => Fresh'
      BY <1>7, <3>2 DEF Fresh
    <3>4. ans = Nil
      BY <1>9, <2>1 DEF Answered
    <3>5. Pending => Pending'
      <4>1. jobs'["loop"].c = jobs["loop"].c /\ (jobs["loop"].ans = Nil => jobs'["loop"].ans = Nil)
        BY <1>9, <3>4 DEF Actors
      <4> QED BY <1>2, <1>7, <4>1 DEF Pending, LoopLists, Listing
    <3> QED BY <3>3, <3>5 DEF GuiInv, RailInv
  <2>2. CASE a \in Answered'
    <3> DEFINE l == [s |-> Listed, v |-> made.v]
    <3>1. l \in Lists'
      BY <1>3, <1>6, <1>9, <2>2 DEF Lists
    <3>2. ASSUME NEW k \in Lists', k.s # Listed PROVE k.v < made.v
      <4>1. CASE k = [s |-> DOMAIN view.sessions, v |-> view.at]
        BY <1>4, <3>2, <4>1 DEF GuiInv, ViewOK, ListOK
      <4>2. CASE \E b \in Answered' : k = [s |-> DOMAIN jobs'[b].ans.r.count, v |-> jobs'[b].ans.r.v]
        <5>1. PICK b \in Answered' : k = [s |-> DOMAIN jobs'[b].ans.r.count, v |-> jobs'[b].ans.r.v]
          BY <4>2
        <5>2. ListOK(jobs[b].ans.r.count, jobs[b].ans.r.v)'
          BY <1>14 DEF AnswersOK
        <5>3. k.v \in Nat /\ k.v <= made.v /\ (k.v = made.v => k.s = Listed)
          BY <1>2, <1>7, <5>1, <5>2 DEF ListOK
        <5> QED BY <1>4, <3>2, <5>3
      <4> QED BY <4>1, <4>2 DEF Lists
    <3>3. Fresh'
      BY <1>7, <3>1, <3>2 DEF Fresh
    <3> QED BY <3>3 DEF RailInv
  <2> QED BY <2>1, <2>2
<1> QED BY <1>7, <1>10, <1>11, <1>12, <1>14, <1>15 DEF GuiInv

\* attach_pane_stream.
LEMMA AttachKeeps ==
  ASSUME GuiInv, NEW a \in Actors, jobs[a].c # <<>>, view' = view, Attach(a)
  PROVE  GuiInv'
<1> DEFINE i == Head(jobs[a].c)
<1>1. PICK p : jobs' = [jobs EXCEPT ![a].c[1].x = @ \ {p}, ![a].ans = IF i.x = {p} THEN Ok(Nil) ELSE @]
  BY DEF Attach, Doing
<1>2. i.op = "attach" /\ wins' = wins /\ made' = made /\ bus' = bus /\ reports' = reports
  BY DEF Attach, Doing
<1>3. /\ DOMAIN jobs = Actors
      /\ \A b \in Actors : {"c", "ans"} \subseteq DOMAIN jobs[b] /\ IsProg(jobs[b].c)
  BY DEF GuiInv, JobsOK
<1> DEFINE c == jobs[a].c
           j == [c[1] EXCEPT !.x = @ \ {p}]
           d == [c EXCEPT ![1] = j]
<1>4. /\ DOMAIN jobs' = Actors /\ DOMAIN jobs'[a] = DOMAIN jobs[a] /\ jobs'[a].c = d
      /\ \A b \in Actors : b # a => jobs'[b] = jobs[b]
  BY <1>1, <1>3
<1>5. IsInstr(i) /\ i = c[1]
  BY <1>3, ProgHead
<1>6. IsInstr(j) /\ j.op = "attach"
  BY <1>2, <1>5 DEF IsInstr
<1>7. IsProg(d) /\ d # <<>> /\ Head(d) = j
  <2>1. PICK S : c \in Seq(S) /\ \A x \in S : IsInstr(x)
    BY <1>3 DEF IsProg
  <2> DEFINE U == S \cup {j}
  <2>2. c \in Seq(U) /\ j \in U /\ \A x \in U : IsInstr(x)
    BY <1>6, <2>1, SeqMonotonic
  <2> HIDE DEF U, j
  <2>3. c # <<>> /\ Len(c) \in Nat /\ 1 \in 1 .. Len(c)
    BY <2>2, EmptySeq
  <2> HIDE DEF c
  <2>4. d \in Seq(U) /\ Len(d) = Len(c) /\ d[1] = j
    BY <2>2, <2>3, ExceptSeq
  <2> HIDE DEF d
  <2>5. d # <<>> /\ Head(d) = j
    BY <2>3, <2>4
  <2> QED BY <2>2, <2>4, <2>5 DEF IsProg
<1> HIDE DEF i, c, d, j
<1>8. JobsOK'
  BY <1>3, <1>4, <1>7 DEF JobsOK
<1>9. TreesOK'
  BY <1>4, <1>6, <1>7 DEF GuiInv, TreesOK
<1>10. Answered' = Answered /\ \A b \in Answered : jobs'[b].ans = jobs[b].ans
  <2>1. a \notin Answered /\ a \notin Answered'
    BY <1>2, <1>4, <1>6, <1>7 DEF Answered, i
  <2> QED BY <1>4, <2>1 DEF Answered
<1>11. Pending => Pending'
  <2>1. "loop" \in Actors
    BY DEF Actors
  <2>2. ~Listing(jobs[a].c)
    BY <1>2 DEF Listing, i
  <2>3. Alert(bus) => Alert(bus)'
    BY <1>2 DEF Alert
  <2> QED BY <1>2, <1>4, <2>1, <2>2, <2>3 DEF Pending, LoopLists
<1>12. BusOK'
  BY <1>2 DEF GuiInv, BusOK, IsEvents
<1>13. KeepsRail(view, view')
  BY KeepsSame DEF GuiInv, ViewOK
<1> QED BY <1>2, <1>8, <1>9, <1>10, <1>11, <1>12, <1>13, DaemonStays

\* The bridge and the daemon serve the call of an actor.
LEMMA ServeCallKeeps ==
  ASSUME GuiInv, NEW a \in Actors, ServeCall(a)
  PROVE  GuiInv'
<1> DEFINE i == Head(jobs[a].c)
<1>1. jobs[a].c # <<>> /\ jobs[a].ans = Nil /\ view' = view /\ Doing(a) = i
  BY DEF ServeCall, Idle, Doing
<1>2. WinsOK
  BY DEF GuiInv
<1>3. CASE ServeRead(a)
  <2>1. CASE i.op = "list" /\ ListAllSessions(a)
    BY <1>1, <2>1, ListServed
  <2>2. CASE i.op \in {"tree", "windows"} /\ ListWindows(a, i.x)
    <3> DEFINE r == IF i.x = Nil THEN Err ELSE Ok(WindowsOf(i.x))
    <3>1. Replies(a, r) /\ i.op # "list"
      BY <2>2 DEF ListWindows, Reads
    <3>2. r.ok => IsFiniteSet(r.r)
      BY <1>2, FiniteWins DEF Ok, Err
    <3> HIDE DEF r
    <3> QED BY <1>1, <3>1, <3>2, ReadsOther
  <2>3. CASE i.op = "layout" /\ GetWindowLayout(a, i.x)
    <3>1. \E r : Replies(a, r)
      BY <2>3 DEF GetWindowLayout, Reads
    <3> QED BY <1>1, <2>3, <3>1, ReadsOther
  <2>4. CASE i.op = "states" /\ PaneStates(a)
    BY <1>1, <2>4, ReadsOther DEF PaneStates, Reads
  <2>5. CASE i.op = "rename" /\ Rename(a)
    BY <1>1, <2>5, ReadsOther DEF Rename, Reads
  <2> QED BY <1>1, <1>3, <2>1, <2>2, <2>3, <2>4, <2>5 DEF ServeRead
<1>4. CASE ServeWrite(a)
  <2>1. CASE i.op = "spawn" /\ Spawn(a)
    BY <1>1, <2>1, SpawnChanges DEF AnswersOther, Spawn
  <2>2. CASE i.op = "split" /\ OpenSplit(a, i.x)
    <3>1. i.x \in LivePanes /\ StartSplit(a, i.x) /\ jobs' = jobs
      BY <2>2 DEF OpenSplit
    <3> QED BY <1>1, <3>1, StartSplitKeeps DEF AnswersOther
  <2>3. CASE i.op = "openPane" /\ OpenPane(a, i.x)
    <3>1. /\ i.x \in DOMAIN wins /\ AddPane(i.x, <<Event("spawned", NewP)>>) /\ reports' = reports
          /\ \E r : Returns(a, r)
      BY <2>3 DEF OpenPane, OpenDaemon
    <3>2. IsEvents(<<Event("spawned", NewP)>>)
      BY EventsOne DEF Event
    <3> QED BY <1>1, <2>3, <3>1, <3>2, OpenChanges DEF AnswersOther
  <2>4. CASE i.op = "newWindow" /\ OpenWindow(a, i.x)
    BY <1>1, <2>4, NewWindowChanges
  <2>5. CASE i.op = "closePane" /\ EndPane(a, i.x)
    <3>1. i.x \in LivePanes
      BY <2>5 DEF EndPane
    <3>2. CASE CloseDaemon(WindowOf(i.x), {i.x}) /\ \E r : Returns(a, r)
      <4>1. {i.x} \subseteq LivePanes
        BY <3>1
      <4> QED BY <1>1, <2>5, <3>2, <4>1, CloseChanges DEF AnswersOther
    <3>3. CASE Replies(a, Err)
      BY <1>1, <2>5, <3>3, ReadsOther
    <3> QED BY <2>5, <3>2, <3>3 DEF EndPane
  <2>6. CASE i.op = "closeSession" /\ EndSession(a, i.x)
    <3>1. i.x \in Listed /\ KillDaemon(i.x) /\ \E r : Returns(a, r)
      BY <2>6 DEF EndSession
    <3> QED BY <1>1, <2>6, <3>1, KillChanges DEF AnswersOther
  <2>7. CASE i.op = "closeWindow" /\ EndWindow(a, i.x)
    <3>1. i.x \in DOMAIN wins /\ CloseDaemon(i.x, wins[i.x].panes) /\ jobs' = jobs
      BY <2>7 DEF EndWindow
    <3>2. wins[i.x].panes \subseteq LivePanes
      BY <3>1 DEF LivePanes
    <3> QED BY <1>1, <3>1, <3>2, CloseChanges DEF AnswersOther
  <2> QED BY <1>1, <1>4, <2>1, <2>2, <2>3, <2>4, <2>5, <2>6, <2>7 DEF ServeWrite
<1>5. CASE Attach(a)
  BY <1>1, <1>5, AttachKeeps
<1>6. CASE Refused(Doing(a)) /\ Reads(a, Err)
  <2>1. i.op \notin {"list", "tree"}
    BY <1>1, <1>6 DEF Refused
  <2> QED BY <1>1, <1>6, <2>1, ReadsOther DEF Reads
<1> QED BY <1>3, <1>4, <1>5, <1>6 DEF ServeCall

-----------------------------------------------------------------------------
(* Answers are applied *)

\* An answer other than a list leaves the list as it is, and leads to a program.
LEMMA AppliedKeeps ==
  ASSUME NEW i, i.op # "list", NEW r, NEW u, IsView(u),
         i.op = "tree" => IsFiniteSet(r.r)
  PROVE  KeepsRail(u, Applied(i, r, u).u) /\ IsProg(Applied(i, r, u).c)
<1> DEFINE e == Applied(i, r, u)
<1>0. KeepsRail(u, u) /\ KeepsRail(u, ReloadWindows(u, i.x, r.r, r.v))
  BY KeepsSame, KeepsReloadWindows
<1>1. CASE i.op = "windows"
  <2>1. e = [u |-> ReloadWindows(u, i.x, r.r, r.v), c |-> <<>>]
    BY <1>1 DEF Applied
  <2> QED BY <1>0, <2>1, ProgNone
<1>2. CASE i.op = "tree"
  <2> DEFINE n == Cardinality(r.r)
             fetch == [k \in 1 .. n |-> Call("layout", SetToSortSeq(r.r, <)[k])]
  <2>1. e = [u |-> ReloadWindows(u, i.x, r.r, r.v), c |-> fetch \o <<Then("write", i.x, r.r)>>]
    BY <1>2 DEF Applied
  <2>2. n \in Nat
    BY <1>2, FS_CardinalityType
  <2>3. \A k \in 1 .. n : IsInstr(fetch[k])
    BY CallInstr
  <2> HIDE DEF n
  <2>4. IsProg(fetch)
    <3>1. DOMAIN fetch = 1 .. n
      OBVIOUS
    <3> DEFINE S == {fetch[k] : k \in 1 .. n}
    <3>2. fetch \in [1 .. n -> S]
      OBVIOUS
    <3>3. \A x \in S : IsInstr(x)
      BY <2>3
    <3> HIDE DEF S, fetch
    <3>4. fetch \in Seq(S)
      BY <2>2, <3>2
    <3> QED BY <3>3, <3>4 DEF IsProg
  <2> HIDE DEF fetch
  <2>5. IsProg(fetch \o <<Then("write", i.x, r.r)>>)
    BY <2>4, Programs, ProgCat DEF ThenOps
  <2> QED BY <1>0, <2>1, <2>5
<1>3. CASE i.op = "states"
  <2> DEFINE v == [u EXCEPT !.states = r.r]
  <2>1. e = [u |-> v, c |-> <<>>]
    BY <1>3 DEF Applied
  <2>2. KeepsRail(u, v)
    BY DEF KeepsRail, IsView
  <2> HIDE DEF v
  <2> QED BY <2>1, <2>2, ProgNone
<1>4. CASE i.op = "spawn"
  <2>1. e = [u |-> u, c |-> List \o <<Then("active", r.r, Nil)>> \o TreeFocus(r.r)]
    BY <1>4 DEF Applied
  <2>2. IsProg(List) /\ IsProg(<<Then("active", r.r, Nil)>>) /\ IsProg(TreeFocus(r.r))
    BY Programs DEF ThenOps
  <2> QED BY <1>0, <2>1, <2>2, ProgCat
<1>5. CASE i.op = "split"
  <2>1. e = [u |-> u, c |-> Tree(i.y) \o <<Then("focus", r.r, Nil)>>]
    BY <1>5 DEF Applied
  <2>2. IsProg(Tree(i.y)) /\ IsProg(<<Then("focus", r.r, Nil)>>)
    BY Programs DEF ThenOps
  <2> QED BY <1>0, <2>1, <2>2, ProgCat
<1>6. CASE i.op = "newWindow"
  <2>1. e = [u |-> u, c |-> <<Call("openPane", r.r)>> \o States \o Tree(i.x) \o <<Then("window", r.r, Nil)>>]
    BY <1>6 DEF Applied
  <2>2. IsProg(<<Call("openPane", r.r)>>) /\ IsProg(States) /\ IsProg(Tree(i.x))
        /\ IsProg(<<Then("window", r.r, Nil)>>)
    BY Programs DEF ThenOps
  <2> QED BY <1>0, <2>1, <2>2, ProgCat
<1>7. CASE i.op \notin {"list", "windows", "tree", "states", "spawn", "split", "newWindow"}
  <2>1. e = [u |-> u, c |-> <<>>]
    BY <1>7 DEF Applied
  <2> QED BY <1>0, <2>1, ProgNone
<1> QED BY <1>1, <1>2, <1>3, <1>4, <1>5, <1>6, <1>7

\* reloadSessions.
LEMMA ReloadSessionsIs ==
  ASSUME NEW u, IsView(u), NEW a, \A s \in DOMAIN a.count : a.count[s] # 0
  PROVE  LET v == ReloadSessions(u, a)
         IN  /\ IsView(v) /\ v.sessions = a.count /\ v.at = a.v
             /\ ~v.stale => ~u.stale /\ ~(a.v < u.at)
<1> DEFINE w == Forget(u, DOMAIN u.windows \ DOMAIN a.count)
           v == [w EXCEPT !.sessions = a.count, !.first = a.first, !.at = a.v, !.stale = @ \/ a.v < u.at]
           x == [v EXCEPT !.active = Nil, !.focus = Nil, !.zoom = Nil]
<1>1. ReloadSessions(u, a) = IF u.active = Nil \/ u.active \in DOMAIN a.count THEN v ELSE x
  BY DEF ReloadSessions
<1>2. KeepsRail(u, w)
  BY KeepsForget
<1> HIDE DEF w
<1>3. /\ IsView(v) /\ v.sessions = a.count /\ v.at = a.v
      /\ ~v.stale => ~u.stale /\ ~(a.v < u.at)
  <2>1. /\ DOMAIN v = DOMAIN w /\ v.sessions = a.count /\ v.at = a.v
        /\ v.stale = (w.stale \/ a.v < u.at)
    BY <1>2 DEF KeepsRail, IsView
  <2> HIDE DEF v
  <2> QED BY <1>2, <2>1 DEF KeepsRail, IsView
<1> HIDE DEF v
<1>4. DOMAIN x = DOMAIN v /\ x.sessions = v.sessions /\ x.at = v.at /\ x.stale = v.stale
  BY <1>3 DEF IsView
<1> HIDE DEF x
<1> QED BY <1>1, <1>3, <1>4 DEF IsView

\* The answer to list_sessions is applied: unless a newer list was shown, this one
\* is not older than the one that it replaces.
LEMMA ResumeList ==
  ASSUME GuiInv, NEW a \in Answered, wins' = wins, made' = made, bus' = bus, reports' = reports,
         NEW c, IsProg(c), NEW map,
         Proceed(a, ReloadSessions(view, jobs[a].ans.r), c, map)
  PROVE  GuiInv'
<1> DEFINE ans == jobs[a].ans.r
           u == ReloadSessions(view, ans)
           r == Run(u, c, map)
<1>1. jobs[a].ans.ok /\ ListOK(ans.count, ans.v) /\ a \in Actors /\ jobs[a].ans # Nil
  BY DEF GuiInv, AnswersOK, Answered
<1>2. /\ IsView(u) /\ u.sessions = ans.count /\ u.at = ans.v
      /\ ~u.stale => ~view.stale /\ ~(ans.v < view.at)
  BY <1>1, ReloadSessionsIs DEF GuiInv, ViewOK, ListOK
<1>3. /\ view' = Settle(r.u)
      /\ jobs' = [jobs EXCEPT ![a] = [c |-> r.c, ans |-> Nil, map |-> IF r.c = <<>> THEN <<>> ELSE map]]
  BY DEF Proceed
<1> HIDE DEF u
<1>4. KeepsRail(u, r.u) /\ IsProg(r.c)
  BY <1>2, RunKeeps DEF RunFrom
<1> HIDE DEF r
<1>5. KeepsRail(u, view')
  <2>1. KeepsRail(r.u, view')
    BY <1>3, <1>4, KeepsSettle DEF KeepsRail
  <2> QED BY <1>4, <2>1, KeepsTrans
<1>6. /\ IsView(view') /\ DOMAIN view'.sessions = DOMAIN ans.count /\ view'.at = ans.v
      /\ ~view'.stale => ~view.stale /\ ~(ans.v < view.at)
  BY <1>2, <1>5 DEF KeepsRail
<1>7. /\ DOMAIN jobs = Actors
      /\ \A b \in Actors : {"c", "ans"} \subseteq DOMAIN jobs[b] /\ IsProg(jobs[b].c)
  BY DEF GuiInv, JobsOK
<1>8. /\ DOMAIN jobs' = Actors
      /\ jobs'[a].c = r.c /\ jobs'[a].ans = Nil /\ {"c", "ans"} \subseteq DOMAIN jobs'[a]
      /\ \A b \in Actors : b # a => jobs'[b] = jobs[b]
  BY <1>1, <1>3, <1>7
<1>9. JobsOK'
  BY <1>4, <1>7, <1>8 DEF JobsOK
<1>10. TreesOK'
  BY <1>8 DEF GuiInv, TreesOK
<1>11. Answered' = Answered \ {a} /\ \A b \in Answered' : jobs'[b] = jobs[b]
  BY <1>8 DEF Answered
<1>12. WinsOK' /\ BusOK' /\ Listed' = Listed /\ (Alert(bus) => Alert(bus)')
  BY DEF GuiInv, WinsOK, BusOK, IsEvents, Listed, Alert
<1>13. AnswersOK'
  <2>1. \A b \in Answered' : jobs[b].ans.ok /\ ListOK(jobs[b].ans.r.count, jobs[b].ans.r.v)
    BY <1>11 DEF GuiInv, AnswersOK
  <2> QED BY <1>11, <1>12, <2>1 DEF AnswersOK, ListOK
<1>14. ViewOK'
  BY <1>1, <1>6, <1>12 DEF ViewOK, ListOK, IsView
<1>15. RailInv'
  <2>1. SUFFICES ASSUME ~view'.stale PROVE Pending' \/ Fresh'
    BY DEF RailInv
  <2>2. ~view.stale /\ ~(ans.v < view.at)
    BY <1>6, <2>1
  <2>3. CASE Pending
    <3>1. "loop" \in Actors
      BY DEF Actors
    <3>2. Alert(bus) \/ reports # 0 \/ a # "loop"
      BY <1>1, <2>3 DEF Pending, LoopLists
    <3> QED BY <1>8, <1>12, <2>3, <3>1, <3>2 DEF Pending, LoopLists
  <2>4. CASE Fresh
    <3> DEFINE new == [s |-> DOMAIN ans.count, v |-> ans.v]
               old == [s |-> DOMAIN view.sessions, v |-> view.at]
    <3>1. new \in Lists' /\ new \in Lists
      BY <1>6 DEF Lists
    <3>2. Lists' \subseteq Lists
      <4>1. ASSUME NEW k \in Lists' PROVE k \in Lists
        <5>1. CASE k = [s |-> DOMAIN view'.sessions, v |-> view'.at]
          BY <1>6, <3>1, <5>1
        <5>2. CASE \E b \in Answered' : k = [s |-> DOMAIN jobs'[b].ans.r.count, v |-> jobs'[b].ans.r.v]
          BY <1>11, <5>2 DEF Lists
        <5> QED BY <4>1, <5>1, <5>2 DEF Lists
      <4> QED BY <4>1
    <3>3. Lists \subseteq Lists' \cup {old}
      <4>1. ASSUME NEW k \in Lists, k # old PROVE k \in Lists'
        <5>1. PICK b \in Answered : k = [s |-> DOMAIN jobs[b].ans.r.count, v |-> jobs[b].ans.r.v]
          BY <4>1 DEF Lists
        <5>2. CASE b = a
          BY <3>1, <5>1, <5>2
        <5>3. CASE b # a
          BY <1>11, <5>1, <5>3 DEF Lists
        <5> QED BY <5>2, <5>3
      <4> QED BY <4>1
    <3>4. \A k \in Lists : k.v \in Nat
      BY DEF Lists, GuiInv, AnswersOK, ViewOK, ListOK
    <3>5. old.v = view.at /\ new.v = ans.v /\ old \in Lists
      BY DEF Lists
    <3> HIDE DEF old, new
    <3>6. PICK l \in Lists : l.s = Listed /\ \A k \in Lists : k.s # Listed => k.v < l.v
      BY <2>4 DEF Fresh
    <3>7. CASE l \in Lists'
      BY <1>12, <3>2, <3>6, <3>7 DEF Fresh
    <3>8. CASE l = old
      <4>1. new.s = Listed
        BY <2>2, <3>1, <3>5, <3>6, <3>8
      <4>2. \A k \in Lists' : k.s # Listed => k.v < new.v
        BY <2>2, <3>1, <3>2, <3>4, <3>5, <3>6, <3>8
      <4> QED BY <1>12, <3>1, <4>1, <4>2 DEF Fresh
    <3> QED BY <3>3, <3>6, <3>7, <3>8
  <2> QED BY <2>2, <2>3, <2>4 DEF GuiInv, RailInv
<1> QED BY <1>9, <1>10, <1>12, <1>13, <1>14, <1>15 DEF GuiInv

\* A function goes on and the daemon stays.
LEMMA GoesOn ==
  ASSUME GuiInv, NEW a \in Actors, a \notin Answered, jobs[a].c = <<>> \/ jobs[a].ans # Nil,
         NEW c, NEW map, IsProg(c), NEW u, KeepsRail(view, u), Proceed(a, u, c, map),
         wins' = wins, made' = made, bus' = bus, reports' = reports
  PROVE  GuiInv'
<1>1. /\ JobsOK' /\ TreesOK' /\ Answered' = Answered
      /\ \A b \in Answered : jobs'[b].ans = jobs[b].ans
      /\ KeepsRail(view, view')
      /\ a # "loop" => jobs'["loop"] = jobs["loop"]
  BY ProceedOther
<1>2. BusOK' /\ (Alert(bus) => Alert(bus)')
  BY DEF GuiInv, BusOK, IsEvents, Alert
<1>3. Pending => Pending'
  <2>1. CASE a = "loop"
    <3>1. ~LoopLists
      BY <2>1 DEF LoopLists, Listing
    <3> QED BY <1>2, <3>1 DEF Pending
  <2>2. CASE a # "loop"
    BY <1>1, <1>2, <2>2 DEF Pending, LoopLists
  <2> QED BY <2>1, <2>2
<1> QED BY <1>1, <1>2, <1>3, DaemonStays

LEMMA ResumeKeeps ==
  ASSUME GuiInv, NEW a \in Actors, Resume(a)
  PROVE  GuiInv'
<1> DEFINE i == Head(jobs[a].c)
           r == jobs[a].ans
           t == Tail(jobs[a].c)
           m == jobs[a].map
<1>1. jobs[a].c # <<>> /\ r # Nil /\ wins' = wins /\ made' = made /\ bus' = bus /\ reports' = reports
  BY DEF Resume, Idle
<1>2. IsProg(jobs[a].c) /\ IsProg(t)
  BY <1>1, ProgHead DEF GuiInv, JobsOK
<1>3. KeepsRail(view, view) /\ IsView(view)
  BY KeepsSame DEF GuiInv, ViewOK
<1>4. i.op = "list" <=> a \in Answered
  BY <1>1 DEF Answered
<1>5. CASE ~r.ok
  <2>1. a \notin Answered
    BY <1>5 DEF GuiInv, AnswersOK
  <2>2. PICK c : Proceed(a, view, c, m) /\ IsProg(c)
    BY <1>2, <1>5, ProgNone DEF Resume, Doing
  <2> QED BY <1>1, <1>3, <2>1, <2>2, GoesOn
<1>6. CASE r.ok /\ i.op = "list"
  <2>1. PICK map : Proceed(a, ReloadSessions(view, r.r), <<>> \o t, map)
    BY <1>6 DEF Resume, Doing, Applied
  <2>2. IsProg(<<>> \o t)
    BY <1>2, ProgNone, ProgCat
  <2> QED BY <1>1, <1>4, <1>6, <2>1, <2>2, ResumeList
<1>7. CASE r.ok /\ i.op # "list"
  <2> DEFINE e == Applied(i, r, view)
  <2>1. PICK map : Proceed(a, e.u, e.c \o t, map)
    BY <1>7 DEF Resume, Doing
  <2>2. i.op = "tree" => IsFiniteSet(r.r)
    BY <1>1, <1>7 DEF GuiInv, TreesOK
  <2>3. KeepsRail(view, e.u) /\ IsProg(e.c)
    BY <1>3, <1>7, <2>2, AppliedKeeps
  <2> HIDE DEF e
  <2>4. IsProg(e.c \o t)
    BY <1>2, <2>3, ProgCat
  <2> QED BY <1>1, <1>4, <1>7, <2>1, <2>3, <2>4, GoesOn
<1> QED BY <1>5, <1>6, <1>7

-----------------------------------------------------------------------------
(* Functions start *)

LEMMA CatAssoc ==
  ASSUME NEW c, NEW d, NEW e, IsProg(c), IsProg(d), IsProg(e)
  PROVE  (c \o d) \o e = c \o (d \o e)
<1>1. PICK S : c \in Seq(S)
  BY DEF IsProg
<1>2. PICK T : d \in Seq(T)
  BY DEF IsProg
<1>3. PICK U : e \in Seq(U)
  BY DEF IsProg
<1> DEFINE V == S \cup T \cup U
<1>4. c \in Seq(V) /\ d \in Seq(V) /\ e \in Seq(V)
  BY <1>1, <1>2, <1>3, SeqMonotonic
<1> HIDE DEF V
<1> QED BY <1>4, ConcatAssociative

\* The programs of the user's actions.
LEMMA UserPrograms ==
  /\ \A s : IsProg(SwitchSession(s)) /\ IsProg(NewWindow(s)) /\ IsProg(RenameWindow(s))
  /\ IsProg(RenameSession) /\ IsProg(RenamePane)
  /\ \A s, ps, was : IsProg(CloseSession(s, ps, was))
  /\ \A p, s : IsProg(DoSplit(p, s)) /\ IsProg(ClosePane(p, s))
  /\ \A w, s, ps : IsProg(CloseWindow(w, s, ps))
  /\ \A u, p : IsProg(GotoPane(u, p))
<1>1. /\ \A o, x : IsInstr(Call(o, x))
      /\ \A o \in ThenOps : \A x, y : IsInstr(Then(o, x, y))
  BY CallInstr, ThenInstr
<1>2. \A i, j : IsInstr(i) /\ IsInstr(j) => IsProg(<<i, j>>)
  <2> SUFFICES ASSUME NEW i, NEW j, IsInstr(i), IsInstr(j) PROVE IsProg(<<i, j>>)
    OBVIOUS
  <2> DEFINE S == {i, j}
  <2>1. <<i, j>> \in Seq(S) /\ \A x \in S : IsInstr(x)
    OBVIOUS
  <2> HIDE DEF S
  <2> QED BY <2>1 DEF IsProg
<1>3. \A s : IsProg(SwitchSession(s))
  <2>1. \A s : IsProg(<<Then("switch", s, Nil)>>)
    BY Programs DEF ThenOps
  <2> QED BY <2>1, Programs, ProgCat DEF SwitchSession
<1>4. \A s : IsProg(NewWindow(s)) /\ IsProg(RenameWindow(s))
  BY <1>1, <1>2, Programs DEF NewWindow, RenameWindow
<1>5. IsProg(RenameSession) /\ IsProg(RenamePane)
  BY Programs, ProgCat DEF RenameSession, RenamePane
<1>6. ASSUME NEW s, NEW ps, NEW was PROVE IsProg(CloseSession(s, ps, was))
  <2>1. IsProg(<<Call("closeSession", s), Then("closedSession", s, ps)>>) /\ IsProg(<<Then("afterSession", was, Nil)>>)
    BY <1>1, <1>2, Programs DEF ThenOps
  <2> QED BY <2>1, Programs, ProgCat DEF CloseSession
<1>7. ASSUME NEW p, NEW s PROVE IsProg(DoSplit(p, s))
  <2>1. IsInstr([Call("split", p) EXCEPT !.y = s])
    BY DEF IsInstr, Call
  <2> QED BY <2>1, ProgOne DEF DoSplit
<1>8. ASSUME NEW p, NEW s PROVE IsProg(ClosePane(p, s))
  <2>1. IsProg(<<Call("closePane", p), Then("closedPane", p, Nil)>>) /\ IsProg(<<Then("afterClose", s, Nil)>>)
    BY <1>1, <1>2, Programs DEF ThenOps
  <2> QED BY <2>1, Programs, ProgCat DEF ClosePane
<1>9. ASSUME NEW w, NEW s, NEW ps PROVE IsProg(CloseWindow(w, s, ps))
  <2>1. /\ IsProg(<<Call("closeWindow", w), Then("closedWindow", w, [s |-> s, ps |-> ps])>>)
        /\ IsProg(<<Then("afterClose", s, Nil)>>)
    BY <1>1, <1>2, Programs DEF ThenOps
  <2> QED BY <2>1, Programs, ProgCat DEF CloseWindow
<1>10. ASSUME NEW u, NEW p PROVE IsProg(GotoPane(u, p))
  <2>1. IsProg(<<Then("focus", p, Nil)>>)
    BY Programs DEF ThenOps
  <2>2. IsProg(IF u.active = u.states[p] THEN <<>> ELSE SwitchSession(u.states[p]))
    BY <1>3, ProgNone
  <2> QED BY <2>1, <2>2, ProgCat DEF GotoPane
<1> QED BY <1>3, <1>4, <1>5, <1>6, <1>7, <1>8, <1>9, <1>10

\* A spawned or a closed makes the loop ask for the list.
LEMMA LifecycleRings ==
  ASSUME NEW u, NEW e, e.k \in {"spawned", "closed", "layout", "state"}
  PROVE  /\ IsProg(Lifecycle(u, e))
         /\ e.k \in {"spawned", "closed"} => Rings(Lifecycle(u, e))
<1>0. Listing(List) /\ IsProg(List) /\ List # <<>>
  BY Programs DEF Listing, List, Call
<1>1. CASE e.k = "spawned"
  <2> DEFINE f == <<Then("reload", Nil, "adopt")>>
  <2>1. Lifecycle(u, e) = (List \o States) \o f
    BY <1>1 DEF Lifecycle
  <2>2. IsProg(States) /\ IsProg(f)
    BY Programs DEF ThenOps
  <2>3. IsProg(List \o States) /\ List \o States # <<>> /\ Head(List \o States) = Head(List)
    BY <1>0, <2>2, ProgCat, CatHead
  <2> HIDE DEF f
  <2>4. /\ IsProg((List \o States) \o f) /\ (List \o States) \o f # <<>>
        /\ Head((List \o States) \o f) = Head(List)
    BY <2>2, <2>3, ProgCat, CatHead
  <2> QED BY <1>0, <2>1, <2>4 DEF Rings, Listing
<1>2. CASE e.k = "closed"
  <2> DEFINE i == Then("dispose", e.p, Nil)
             f == <<Then("afterClosed", e.p, IF e.p \in DOMAIN u.states THEN u.states[e.p] ELSE Nil)>>
  <2>1. Lifecycle(u, e) = (<<i>> \o List) \o f
    BY <1>2 DEF Lifecycle
  <2>2. IsInstr(i) /\ IsProg(<<i>>) /\ IsProg(f) /\ i.sync /\ i.op = "dispose"
    BY Programs, ThenInstr DEF ThenOps, Then
  <2> HIDE DEF i, f
  <2>3. (<<i>> \o List) \o f = <<i>> \o (List \o f)
    BY <1>0, <2>2, CatAssoc
  <2>4. IsProg(List \o f) /\ List \o f # <<>> /\ Head(List \o f) = Head(List)
    BY <1>0, <2>2, ProgCat, CatHead
  <2>5. /\ IsProg(<<i>> \o (List \o f)) /\ <<i>> \o (List \o f) # <<>>
        /\ Head(<<i>> \o (List \o f)) = i /\ Tail(<<i>> \o (List \o f)) = List \o f
    BY <2>2, <2>4, ProgCat, OneCat
  <2> QED BY <1>0, <2>1, <2>2, <2>3, <2>4, <2>5 DEF Rings, Listing
<1>3. CASE e.k = "layout"
  BY <1>3, Programs DEF Lifecycle, ThenOps
<1>4. CASE e.k = "state"
  BY <1>4, Programs DEF Lifecycle, ThenOps
<1> QED BY <1>1, <1>2, <1>3, <1>4

\* runEventLoop takes an event.
LEMMA TakeEventKeeps ==
  ASSUME GuiInv, TakeEvent
  PROVE  GuiInv'
<1> DEFINE e == Head(bus)
           c == Lifecycle(view, e)
<1>1. /\ bus # <<>> /\ jobs["loop"].c = <<>> /\ Proceed("loop", view, c, <<>>)
      /\ wins' = wins /\ made' = made /\ bus' = Tail(bus) /\ reports' = reports
  BY DEF TakeEvent, Begin, Idle
<1>2. PICK S : bus \in Seq(S) /\ \A x \in S : x.k \in {"spawned", "closed", "layout", "state"}
  BY DEF GuiInv, BusOK, IsEvents
<1>3. /\ e \in S /\ Tail(bus) \in Seq(S) /\ e = bus[1] /\ Len(bus) \in Nat /\ Len(Tail(bus)) = Len(bus) - 1
      /\ \A n \in 1 .. Len(Tail(bus)) : Tail(bus)[n] = bus[n + 1]
  BY <1>1, <1>2, HeadTailProperties
<1>4. IsProg(c) /\ (e.k \in {"spawned", "closed"} => Rings(c))
  BY <1>2, <1>3, LifecycleRings
<1>5. "loop" \in Actors /\ "loop" \notin Answered
  BY <1>1 DEF Actors, Answered
<1>6. KeepsRail(view, view)
  BY KeepsSame DEF GuiInv, ViewOK
<1> HIDE DEF c
<1>7. /\ JobsOK' /\ TreesOK' /\ Answered' = Answered
      /\ \A b \in Answered : jobs'[b].ans = jobs[b].ans
      /\ KeepsRail(view, view')
      /\ Rings(c) => Pending'
  BY <1>1, <1>4, <1>5, <1>6, ProceedOther
<1>8. BusOK'
  BY <1>1, <1>2, <1>3 DEF GuiInv, BusOK, IsEvents
<1>9. Pending => Pending'
  <2>1. SUFFICES ASSUME Alert(bus), e.k \notin {"spawned", "closed"} PROVE Alert(bus')
    BY <1>1, <1>4, <1>7 DEF Pending, LoopLists, Listing, Alert
  <2>2. PICK n \in 1 .. Len(bus) : bus[n].k \in {"spawned", "closed"}
    BY <2>1 DEF Alert
  <2>3. n # 1
    BY <1>3, <2>1, <2>2
  <2>4. n - 1 \in 1 .. Len(Tail(bus)) /\ Tail(bus)[n - 1] = bus[(n - 1) + 1] /\ (n - 1) + 1 = n
    BY <1>3, <2>3
  <2> QED BY <1>1, <2>2, <2>4 DEF Alert
<1> QED BY <1>1, <1>7, <1>8, <1>9, DaemonStays

\* Another function starts.
LEMMA BeginKeeps ==
  ASSUME GuiInv, NEW a \in Actors, NEW c, IsProg(c), Begin(a, c), bus' = bus
  PROVE  GuiInv'
<1>1. jobs[a].c = <<>> /\ Proceed(a, view, c, <<>>) /\ wins' = wins /\ made' = made /\ reports' = reports
  BY DEF Begin, Idle
<1>2. a \notin Answered
  BY <1>1 DEF Answered
<1>3. KeepsRail(view, view)
  BY KeepsSame DEF GuiInv, ViewOK
<1> QED BY <1>1, <1>2, <1>3, GoesOn

LEMMA InvokeKeeps ==
  ASSUME GuiInv, NEW name, NEW c, IsProg(c), Invoke(name, c)
  PROVE  GuiInv'
<1>1. Slot \in Actors /\ Begin(Slot, c) /\ bus' = bus
  BY DEF Invoke, Slot, Actors
<1> QED BY <1>1, BeginKeeps

LEMMA UserKeeps ==
  ASSUME GuiInv, UserSession \/ UserPane \/ UserWindow
  PROVE  GuiInv'
<1>1. CASE UserSession
  BY <1>1, Programs, UserPrograms, InvokeKeeps DEF UserSession
<1>2. CASE UserPane
  <2>1. /\ \A p : IsProg(<<Then("zoom", p, Nil)>>) /\ IsProg(<<Then("focus", p, Nil)>>)
        /\ IsProg(IF view.active = Nil THEN <<>> ELSE DoSplit(view.focus, view.active))
    BY Programs, UserPrograms, ProgNone DEF ThenOps
  <2> QED BY <1>2, <2>1, UserPrograms, InvokeKeeps DEF UserPane
<1>3. CASE UserWindow
  <2>1. \A w : IsProg(<<Then("window", w, Nil)>>)
    BY Programs DEF ThenOps
  <2> QED BY <1>3, <2>1, UserPrograms, InvokeKeeps DEF UserWindow
<1> QED BY <1>1, <1>2, <1>3

\* Other clients, and shells that end.
LEMMA OthersKeep ==
  ASSUME GuiInv, Others
  PROVE  GuiInv'
<1>1. view' = view /\ jobs' = jobs
  BY DEF Others, Other
<1>2. CASE Other("spawn") /\ SpawnDaemon
  BY <1>1, <1>2, SpawnChanges DEF AnswersOther
<1>3. ASSUME NEW p \in LivePanes, StartSplit("other", p) PROVE GuiInv'
  BY <1>1, <1>3, StartSplitKeeps DEF AnswersOther
<1>4. ASSUME NEW p \in LivePanes, ExitDaemon(p) PROVE GuiInv'
  BY <1>1, <1>4, ExitChanges DEF AnswersOther
<1>5. ASSUME NEW p \in LivePanes, bus' = Append(bus, Event("state", p)), wins' = wins, made' = made,
             reports' = reports
      PROVE  GuiInv'
  <2> DEFINE e == Event("state", p)
  <2>1. IsEvents(<<e>>)
    BY EventsOne DEF Event
  <2>2. bus' = bus \o <<e>>
    <3>1. PICK S : bus \in Seq(S)
      BY DEF GuiInv, BusOK, IsEvents
    <3> DEFINE U == S \cup {e}
    <3>2. bus \in Seq(U) /\ e \in U
      BY <3>1, SeqMonotonic
    <3> HIDE DEF U, e
    <3> QED BY <1>5, <3>2, AppendIsConcat DEF e
  <2> HIDE DEF e
  <2>3. BusOK' /\ (Alert(bus) => Alert(bus)')
    BY <1>5, <2>1, <2>2, BusGrows DEF GuiInv, BusOK
  <2>4. JobsOK' /\ TreesOK' /\ Answered' = Answered /\ (Pending => Pending')
    BY <1>1, <1>5, <2>3 DEF GuiInv, JobsOK, TreesOK, Answered, Pending, LoopLists
  <2>5. KeepsRail(view, view')
    BY <1>1, KeepsSame DEF GuiInv, ViewOK
  <2> QED BY <1>1, <1>5, <2>3, <2>4, <2>5, DaemonStays
<1>6. ASSUME NEW s \in Listed, KillDaemon(s) PROVE GuiInv'
  BY <1>1, <1>6, KillChanges DEF AnswersOther
<1> QED BY <1>2, <1>3, <1>4, <1>5, <1>6 DEF Others

-----------------------------------------------------------------------------
(* The rail *)

LEMMA GuiStarts == GuiInit => GuiInv
<1> SUFFICES ASSUME GuiInit PROVE GuiInv
  OBVIOUS
<1>1. /\ wins = [w \in {1} |-> [s |-> 1, panes |-> {1}]]
      /\ made = [w |-> 1, p |-> 1, v |-> 0] /\ bus = <<>> /\ reports = 0
      /\ view = Settle(Loaded)
      /\ jobs = [a \in Actors |-> [c |-> <<>>, ans |-> Nil, map |-> <<>>]]
  BY DEF GuiInit
<1>2. WinsOK
  BY <1>1 DEF WinsOK
<1>3. JobsOK /\ Answered = {} /\ TreesOK /\ AnswersOK
  BY <1>1, ProgNone DEF JobsOK, Answered, TreesOK, AnswersOK
<1>4. BusOK
  BY <1>1, EventsNone DEF BusOK
<1>5. Listed = {1} /\ made.v = 0
  BY <1>1 DEF Listed
<1>6. IsView(Loaded) /\ DOMAIN Loaded.sessions = {1} /\ Loaded.at = 0
  BY DEF Loaded, IsView
<1>7. KeepsRail(Loaded, view)
  BY <1>1, <1>6, KeepsSettle
<1>8. IsView(view) /\ DOMAIN view.sessions = {1} /\ view.at = 0
  BY <1>6, <1>7 DEF KeepsRail
<1>9. ViewOK
  BY <1>5, <1>8 DEF ViewOK, ListOK, IsView
<1>10. Fresh
  <2>1. Lists = {[s |-> {1}, v |-> 0]}
    BY <1>3, <1>8 DEF Lists
  <2> QED BY <1>5, <2>1 DEF Fresh
<1> QED BY <1>2, <1>3, <1>4, <1>9, <1>10 DEF GuiInv, RailInv

LEMMA GuiStep == GuiInv /\ [GuiNext]_svars => GuiInv'
<1> SUFFICES ASSUME GuiInv, [GuiNext]_svars PROVE GuiInv'
  OBVIOUS
<1>1. ASSUME NEW a \in Actors, ServeCall(a) PROVE GuiInv'
  BY <1>1, ServeCallKeeps
<1>2. ASSUME NEW a \in Actors, Resume(a) PROVE GuiInv'
  BY <1>2, ResumeKeeps
<1>3. CASE TakeEvent
  BY <1>3, TakeEventKeeps
<1>4. ASSUME NEW p \in Panes, PaneClosed(p) PROVE GuiInv'
  <2> DEFINE c == <<Then("dispose", p, Nil)>> \o (IF view.active = Nil THEN <<>> ELSE Tree(view.active))
  <2>1. Begin("pump", c) /\ bus' = bus /\ "pump" \in Actors
    BY <1>4 DEF PaneClosed, Actors
  <2>2. IsProg(<<Then("dispose", p, Nil)>>) /\ IsProg(IF view.active = Nil THEN <<>> ELSE Tree(view.active))
    BY Programs, ProgNone DEF ThenOps
  <2>3. IsProg(c)
    BY <2>2, ProgCat
  <2> HIDE DEF c
  <2> QED BY <2>1, <2>3, BeginKeeps
<1>5. CASE PollStates
  <2>1. Begin("poll", States) /\ bus' = bus /\ "poll" \in Actors
    BY <1>5 DEF PollStates, Actors
  <2> QED BY <2>1, Programs, BeginKeeps
<1>6. CASE UserSession \/ UserPane \/ UserWindow
  BY <1>6, UserKeeps
<1>7. CASE Others
  BY <1>7, OthersKeep
<1>8. CASE UNCHANGED svars
  <2>1. wins' = wins /\ made' = made /\ bus' = bus /\ view' = view /\ jobs' = jobs /\ reports' = reports
    BY <1>8 DEF svars
  <2>2. BusOK' /\ JobsOK' /\ TreesOK' /\ Answered' = Answered /\ (Pending => Pending')
    BY <2>1 DEF GuiInv, BusOK, IsEvents, JobsOK, TreesOK, Answered, Pending, LoopLists, Alert
  <2>3. KeepsRail(view, view')
    BY <2>1, KeepsSame DEF GuiInv, ViewOK
  <2> QED BY <2>1, <2>2, <2>3, DaemonStays
<1>9. ASSUME NEW h \in halves, FinishCall(h) PROVE GuiInv'
  BY <1>9, FinishCallKeeps
<1>10. CASE WorkerReports
  BY <1>10, ReportKeeps
<1> QED BY <1>1, <1>2, <1>3, <1>4, <1>5, <1>6, <1>7, <1>8, <1>9, <1>10 DEF GuiNext

\* In every state some list, shown or on its way, is right and newer than all that
\* are wrong, or an event or a call to come will fetch one; unless an older
\* answer has replaced a newer one (reloadSessions, applyLifecycleEvent).
THEOREM RailSound == GuiSpec => []GuiInv
<1>1. GuiInit => GuiInv
  BY GuiStarts
<1>2. GuiInv /\ [GuiNext]_svars => GuiInv'
  BY GuiStep
<1> QED BY <1>1, <1>2, PTL DEF GuiSpec

\* Once every event is handled and every answer applied, the rail lists the
\* sessions that the daemon has, whatever the user and other clients did.
THEOREM RailConverged == GuiSpec => []RailConverges
<1>1. GuiInv => RailConverges
  <2> SUFFICES ASSUME GuiInv, Quiet, ~view.stale PROVE DOMAIN view.sessions = Listed
    BY DEF RailConverges
  <2>1. bus = <<>> /\ reports = 0 /\ \A a \in Actors : jobs[a].c = <<>>
    BY DEF Quiet, Done, Idle
  <2>2. Answered = {}
    BY <2>1 DEF Answered
  <2>3. ~Pending
    <3>1. "loop" \in Actors
      BY DEF Actors
    <3> QED BY <2>1, <3>1 DEF Pending, LoopLists, Alert, Listing
  <2>4. Fresh
    BY <2>3 DEF GuiInv, RailInv
  <2> QED BY <2>2, <2>4 DEF Fresh, Lists
<1> QED BY <1>1, RailSound, PTL

=============================================================================
