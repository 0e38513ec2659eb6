------------------------------ MODULE Tui_proofs ------------------------------
(***************************************************************************)
(* Proofs about the terminal client: the indices and versions its overlays *)
(* keep while the panes change under them (TuiInput), and the sessions,    *)
(* tabs, slots and close RPCs of the event loop (Tui).                     *)
(***************************************************************************)
EXTENDS Tui, TuiInput, WellFoundedInduction, SequenceTheorems, TLAPS

-----------------------------------------------------------------------------
(* Numbers and sequences *)

\* Induction over the natural numbers, by the least counterexample.
LEMMA LeastNumber ==
  ASSUME NEW T, T \subseteq Nat, T # {}
  PROVE  \E n \in T : \A m \in T : n <= m
<1> DEFINE R == OpToRel(<, Nat)
<1>1. IsWellFoundedOn(R, Nat)
  BY NatLessThanWellFounded
<1>2. \A x, y \in Nat : <<x, y>> \in R <=> x < y
  BY DEF OpToRel
<1> HIDE DEF R
<1>3. PICK x \in T : \A y \in T : ~ (<<y, x>> \in R)
  BY <1>1, WFMin
<1>4. ASSUME NEW m \in T PROVE x <= m
  <2>1. x \in Nat /\ m \in Nat /\ ~(m < x)
    BY <1>2, <1>3
  <2> QED BY <2>1
<1> QED BY <1>3, <1>4

\* What SelectInSeq finds is the least of what it looks for.
LEMMA MinIsLeast ==
  ASSUME NEW T, T \subseteq Nat, T # {}
  PROVE  Min(T) \in T /\ \A m \in T : Min(T) <= m
BY LeastNumber DEF Min

\* A sequence is one of its own elements.
LEMMA SeqOfItsOwn ==
  ASSUME NEW S, NEW s \in Seq(S)
  PROVE  /\ s \in Seq(ToSet(s)) /\ DOMAIN s = 1 .. Len(s) /\ Len(s) \in Nat
         /\ \A x : x \in ToSet(s) <=> \E k \in 1 .. Len(s) : s[k] = x
<1>1. DOMAIN s = 1 .. Len(s) /\ Len(s) \in Nat /\ s \in [1 .. Len(s) -> S]
  OBVIOUS
<1>2. s \in [1 .. Len(s) -> ToSet(s)]
  BY <1>1 DEF ToSet
<1>3. s \in Seq(ToSet(s))
  BY <1>1, <1>2, SeqDef
<1> QED BY <1>1, <1>3 DEF ToSet

\* A function on 1 .. n is a sequence.
LEMMA FunIsSeq ==
  ASSUME NEW f, NEW n \in Nat, DOMAIN f = 1 .. n, f = [k \in 1 .. n |-> f[k]]
  PROVE  f \in Seq(ToSet(f)) /\ Len(f) = n
<1>1. f \in [1 .. n -> ToSet(f)]
  BY DEF ToSet
<1>2. f \in Seq(ToSet(f))
  BY <1>1, SeqDef
<1> QED BY <1>2

-----------------------------------------------------------------------------
(* Overlays (TuiInput): for any number of panes, keys and events *)

SlotFields   == {"pane", "blocks", "ribbon", "scroll"}
SearchFields == {"open", "input", "pending", "q", "n", "cursor", "rx", "box"}
UiFields     == {"help", "lost", "prefix", "prompt", "menu", "picker", "pager", "theme", "saved", "focus",
                 "zoomed", "search", "text", "side", "deck", "weight", "drag"}

\* The slots are a list of panes and gaps.
SlotList(ss) ==
  /\ ss \in Seq(ToSet(ss))
  /\ \A k \in 1 .. Len(ss) : ss[k] # Absent => DOMAIN ss[k] = SlotFields

\* An open context menu is about a slot that holds the pane it was opened on, or
\* nothing any more.
MenuOK ==
  /\ DOMAIN killed = {"of", "pane"} /\ killed.pane \in {Absent, killed.of}
  /\ ui.menu # Absent =>
       /\ DOMAIN ui.menu = {"slot", "cursor"}
       /\ ui.menu.slot \in 1 .. Len(inSlots)
       /\ inSlots[ui.menu.slot] # Absent => inSlots[ui.menu.slot].pane = killed.of

\* Versions of the search text: what is shown is no newer than the query under
\* way, nor that than the one that waits.
SearchOK ==
  LET s == ui.search IN
  /\ ui.text \in Nat /\ s.q \in Nat /\ s.q < ui.text
  /\ s.pending # Absent => s.pending \in Nat /\ s.q <= s.pending /\ s.pending < ui.text
  /\ s.rx # Absent => s.rx \in Nat /\ s.q <= s.rx /\ s.rx < ui.text
  /\ s.rx # Absent /\ s.pending # Absent => s.rx <= s.pending

UiTypeOK == DOMAIN ui = UiFields /\ DOMAIN ui.search = SearchFields

OverlayInv == SlotList(inSlots) /\ UiTypeOK /\ MenuOK /\ SearchOK

-----------------------------------------------------------------------------
(* What a step may do to the slots, the overlays and the menu's history *)

\* Slot k holds the pane it held, or nothing; new panes go behind the others.
SlotsKept(a, b) ==
  /\ SlotList(b) /\ Len(a) <= Len(b)
  /\ \A k \in 1 .. Len(a) : b[k] # Absent => a[k] # Absent /\ b[k].pane = a[k].pane

SameSlot(x, y) == y = Absent \/ (x # Absent /\ DOMAIN y = SlotFields /\ y.pane = x.pane)

LEMMA KeptRefl ==
  ASSUME NEW ss, SlotList(ss)
  PROVE  SlotsKept(ss, ss)
<1>1. Len(ss) \in Nat
  BY SeqOfItsOwn DEF SlotList
<1> QED BY <1>1 DEF SlotsKept

LEMMA KeptMap ==
  ASSUME NEW ss, SlotList(ss), NEW f, DOMAIN f = 1 .. Len(ss), f = [k \in 1 .. Len(ss) |-> f[k]],
         \A k \in 1 .. Len(ss) : SameSlot(ss[k], f[k])
  PROVE  SlotsKept(ss, f)
<1>1. Len(ss) \in Nat
  BY SeqOfItsOwn DEF SlotList
<1>2. f \in Seq(ToSet(f)) /\ Len(f) = Len(ss)
  BY <1>1, FunIsSeq
<1> QED BY <1>1, <1>2 DEF SlotsKept, SlotList, SameSlot

LEMMA KeptExcept ==
  ASSUME NEW ss, SlotList(ss), NEW k \in 1 .. Len(ss), NEW x, SameSlot(ss[k], x)
  PROVE  SlotsKept(ss, [ss EXCEPT ![k] = x])
<1> DEFINE f == [ss EXCEPT ![k] = x]
<1>1. DOMAIN ss = 1 .. Len(ss) /\ Len(ss) \in Nat
  BY SeqOfItsOwn DEF SlotList
<1>2. DOMAIN f = 1 .. Len(ss) /\ f = [j \in 1 .. Len(ss) |-> f[j]]
  BY <1>1
<1>3. \A j \in 1 .. Len(ss) : f[j] = IF j = k THEN x ELSE ss[j]
  BY <1>1
<1>4. \A j \in 1 .. Len(ss) : SameSlot(ss[j], f[j])
  BY <1>3 DEF SlotList, SameSlot
<1> HIDE DEF f
<1>5. SlotsKept(ss, f)
  BY <1>2, <1>4, KeptMap
<1> QED BY <1>5 DEF f

LEMMA KeptPush ==
  ASSUME NEW ss, SlotList(ss), NEW x, DOMAIN x = SlotFields
  PROVE  SlotsKept(ss, Push(ss, x))
<1>1. DOMAIN ss = 1 .. Len(ss) /\ Len(ss) \in Nat /\ ss \in Seq(ToSet(ss))
  BY SeqOfItsOwn DEF SlotList
<1>2. ss \in Seq(ToSet(ss) \cup {x}) /\ x \in ToSet(ss) \cup {x}
  BY <1>1
<1> DEFINE f == Append(ss, x)
<1>3. f \in Seq(ToSet(ss) \cup {x}) /\ Len(f) = Len(ss) + 1
      /\ \A j \in 1 .. Len(ss) + 1 : f[j] = IF j = Len(ss) + 1 THEN x ELSE ss[j]
  BY <1>2, AppendProperties
<1> HIDE DEF f
<1>4. f \in Seq(ToSet(f))
  BY <1>3, SeqOfItsOwn
<1>5. SlotsKept(ss, f)
  BY <1>1, <1>3, <1>4 DEF SlotsKept, SlotList
<1> QED BY <1>5 DEF f, Push

\* The versions in a search overlay.
VersionsOK(s, t) ==
  /\ DOMAIN s = SearchFields
  /\ t \in Nat /\ s.q \in Nat /\ s.q < t
  /\ s.pending # Absent => s.pending \in Nat /\ s.q <= s.pending /\ s.pending < t
  /\ s.rx # Absent => s.rx \in Nat /\ s.q <= s.rx /\ s.rx < t
  /\ s.rx # Absent /\ s.pending # Absent => s.rx <= s.pending

\* A menu that stays open stays on its slot.
MenuKept(v, w) ==
  w.menu = Absent \/ (v.menu # Absent /\ DOMAIN w.menu = {"slot", "cursor"} /\ w.menu.slot = v.menu.slot)

UiKept(v, w) ==
  /\ DOMAIN w = UiFields /\ MenuKept(v, w)
  /\ VersionsOK(w.search, w.text) /\ v.search.q <= w.search.q

\* The overlays but the menu and the search.
Quiet(v, w) ==
  /\ DOMAIN w = UiFields /\ w.menu \in {v.menu, Absent}
  /\ w.search = v.search /\ w.text = v.text

KilledKept ==
  DOMAIN killed' = {"of", "pane"} /\ killed'.of = killed.of /\ killed'.pane \in {Absent, killed.of}

Kept == SlotsKept(inSlots, inSlots') /\ UiKept(ui, ui') /\ KilledKept

\* The facts an action finds.
LEMMA InvFacts ==
  ASSUME OverlayInv
  PROVE  /\ SlotList(inSlots) /\ SlotsKept(inSlots, inSlots)
         /\ DOMAIN inSlots = 1 .. Len(inSlots) /\ Len(inSlots) \in Nat
         /\ DOMAIN ui = UiFields /\ VersionsOK(ui.search, ui.text)
         /\ ui.menu # Absent => DOMAIN ui.menu = {"slot", "cursor"}
         /\ killed' = killed => KilledKept
<1>1. SlotList(inSlots) /\ SlotsKept(inSlots, inSlots)
  BY KeptRefl DEF OverlayInv
<1>2. DOMAIN inSlots = 1 .. Len(inSlots) /\ Len(inSlots) \in Nat
  BY <1>1, SeqOfItsOwn DEF SlotList
<1>3. VersionsOK(ui.search, ui.text)
  BY DEF OverlayInv, SearchOK, UiTypeOK, VersionsOK
<1> QED BY <1>1, <1>2, <1>3 DEF OverlayInv, UiTypeOK, MenuOK, KilledKept

LEMMA QuietKept ==
  ASSUME OverlayInv, NEW w, Quiet(ui, w)
  PROVE  UiKept(ui, w)
<1>1. VersionsOK(ui.search, ui.text) /\ (ui.menu # Absent => DOMAIN ui.menu = {"slot", "cursor"})
  BY InvFacts
<1>2. ui.search.q \in Nat
  BY <1>1 DEF VersionsOK
<1> QED BY <1>1, <1>2 DEF UiKept, Quiet, MenuKept

\* Such a step keeps the invariant, and never goes back to older results.
LEMMA KeptStep ==
  ASSUME OverlayInv, Kept
  PROVE  OverlayInv' /\ ui'.search.q >= ui.search.q
<1>1. SlotList(inSlots)' /\ UiTypeOK'
  BY DEF Kept, SlotsKept, UiKept, VersionsOK, UiTypeOK
<1>2. SearchOK' /\ ui'.search.q >= ui.search.q
  BY InvFacts DEF Kept, UiKept, VersionsOK, SearchOK
<1>3. MenuOK'
  <2>1. DOMAIN killed' = {"of", "pane"} /\ killed'.pane \in {Absent, killed'.of} /\ killed'.of = killed.of
    BY DEF Kept, KilledKept
  <2>2. SUFFICES ASSUME ui'.menu # Absent
                 PROVE  /\ DOMAIN ui'.menu = {"slot", "cursor"}
                        /\ ui'.menu.slot \in 1 .. Len(inSlots')
                        /\ inSlots'[ui'.menu.slot] # Absent => inSlots'[ui'.menu.slot].pane = killed'.of
    BY <2>1 DEF MenuOK
  <2>3. ui.menu # Absent /\ DOMAIN ui'.menu = {"slot", "cursor"} /\ ui'.menu.slot = ui.menu.slot
    BY <2>2 DEF Kept, UiKept, MenuKept
  <2>4. ui.menu.slot \in 1 .. Len(inSlots)
        /\ (inSlots[ui.menu.slot] # Absent => inSlots[ui.menu.slot].pane = killed.of)
    BY <2>3 DEF OverlayInv, MenuOK
  <2>5. Len(inSlots) \in Nat /\ Len(inSlots') \in Nat /\ Len(inSlots) <= Len(inSlots')
    BY InvFacts, SeqOfItsOwn DEF Kept, SlotsKept, SlotList
  <2>6. \A k \in 1 .. Len(inSlots) : inSlots'[k] # Absent =>
          inSlots[k] # Absent /\ inSlots'[k].pane = inSlots[k].pane
    BY DEF Kept, SlotsKept
  <2> QED BY <2>1, <2>3, <2>4, <2>5, <2>6
<1> QED BY <1>1, <1>2, <1>3 DEF OverlayInv

\* Then something quiet.
LEMMA ThenQuiet ==
  ASSUME NEW v, NEW w, OverlayInv, UiKept(ui, v), Quiet(v, w)
  PROVE  UiKept(ui, w)
BY DEF UiKept, Quiet, MenuKept

LEMMA UiSame ==
  ASSUME OverlayInv
  PROVE  UiKept(ui, ui)
<1>1. Quiet(ui, ui)
  BY InvFacts DEF Quiet
<1> QED BY <1>1, QuietKept

LEMMA ShowsKept ==
  ASSUME NEW v, OverlayInv, UiKept(ui, v), Shows(v)
  PROVE  Kept
BY InvFacts DEF Shows, Kept

LEMMA AltersKept ==
  ASSUME NEW k, NEW x, OverlayInv, k \in 1 .. Len(inSlots), SameSlot(inSlots[k], x), Alters(k, x)
  PROVE  Kept
<1>1. SlotsKept(inSlots, inSlots')
  BY InvFacts, KeptExcept DEF Alters
<1> QED BY <1>1, InvFacts, UiSame DEF Alters, Kept

LEMMA ClosePaneKept ==
  ASSUME NEW v, NEW k, OverlayInv, k \in 1 .. Len(inSlots), UiKept(ui, v), ClosePane(v, k), KilledKept
  PROVE  Kept
<1>1. SlotsKept(inSlots, inSlots')
  BY InvFacts, KeptExcept DEF ClosePane, SameSlot
<1>2. \A a, b : Quiet(v, [v EXCEPT !.zoomed = a, !.focus = b])
  BY DEF Quiet, UiKept, UiFields
<1>3. UiKept(ui, ui')
  <2>1. CASE ui' = v
    BY <2>1
  <2>2. CASE \E a, b : ui' = [v EXCEPT !.zoomed = a, !.focus = b]
    <3>1. PICK a, b : ui' = [v EXCEPT !.zoomed = a, !.focus = b]
      BY <2>2
    <3>2. UiKept(ui, [v EXCEPT !.zoomed = a, !.focus = b])
      BY <1>2, ThenQuiet
    <3> QED BY <3>1, <3>2
  <2> QED BY <2>1, <2>2 DEF ClosePane
<1> QED BY <1>1, <1>3 DEF Kept

LEMMA NewPaneKept ==
  ASSUME NEW v, OverlayInv, UiKept(ui, v), NewPane(v)
  PROVE  Kept
<1>1. CASE Shows(v)
  BY <1>1, ShowsKept
<1>2. CASE ~Shows(v)
  <2>1. inSlots' = Push(inSlots, NewSlot(NextPane)) /\ killed' = killed
        /\ ui' = [v EXCEPT !.focus = NextPane, !.zoomed = Absent]
    BY <1>2 DEF NewPane
  <2>2. DOMAIN NewSlot(NextPane) = SlotFields
    BY DEF NewSlot, SlotFields
  <2>3. SlotsKept(inSlots, inSlots')
    BY <2>1, <2>2, InvFacts, KeptPush
  <2>4. Quiet(v, ui')
    BY <2>1 DEF Quiet, UiKept, UiFields
  <2> QED BY <2>1, <2>3, <2>4, InvFacts, ThenQuiet DEF Kept
<1> QED BY <1>1, <1>2

\* The focused slot, when there is one, holds a pane.
LEMMA FocusedSlot ==
  ASSUME OverlayInv, Focused # 0
  PROVE  Focused \in 1 .. Len(inSlots) /\ inSlots[Focused] # Absent /\ DOMAIN inSlots[Focused] = SlotFields
<1> DEFINE T == {i \in 1 .. Len(inSlots) : inSlots[i] # Absent /\ inSlots[i].pane = ui.focus}
<1>1. Focused = IF T # {} THEN Min(T) ELSE 0
  BY DEF Focused, SlotFor, SelectInSeq
<1>2. T \subseteq Nat
  BY InvFacts
<1>3. Focused \in T
  BY <1>1, <1>2, MinIsLeast
<1> QED BY <1>3, InvFacts DEF SlotList

\* The layer that takes a key is open.
LEMMA LayerOpen ==
  ASSUME NEW a \in 1 .. 10
  PROVE  LayerFrom(a) = "pane" \/ \E j \in 1 .. 10 : LayerFrom(a) = Layers[j] /\ Open(Layers[j])
<1> DEFINE T == {i \in a .. 10 : Open(Layers[i])}
<1>1. Len(Layers) = 10
  BY DEF Layers
<1>2. LayerFrom(a) = LET j == IF T # {} THEN Min(T) ELSE 0 IN IF j = 0 THEN "pane" ELSE Layers[j]
  BY <1>1 DEF LayerFrom, SelectInSubSeq
<1>3. T \subseteq Nat
  OBVIOUS
<1>4. CASE T = {}
  BY <1>2, <1>4
<1>5. CASE T # {}
  <2>1. Min(T) \in T
    BY <1>3, <1>5, MinIsLeast
  <2> HIDE DEF T
  <2>2. Min(T) \in 1 .. 10 /\ Open(Layers[Min(T)])
    BY <2>1 DEF T
  <2> QED BY <1>2, <1>5, <2>2
<1> QED BY <1>4, <1>5

LEMMA TakesOpen ==
  ASSUME NEW k
  PROVE  /\ Takes(k) = "menu" => ui.menu # Absent
         /\ Takes(k) = "ribbon" => Focused # 0
<1>1. Takes(k) \in {"arm", LayerFrom(1), LayerFrom(10)}
  BY DEF Takes, Layer
<1>2. Takes(k) \in {"arm", "pane"} \/ \E j \in 1 .. 10 : Takes(k) = Layers[j] /\ Open(Layers[j])
  BY <1>1, LayerOpen
<1>3. Open("menu") => ui.menu # Absent
  BY DEF Open
<1>4. Open("ribbon") => Focused # 0
  BY DEF Open
<1> QED BY <1>2, <1>3, <1>4

-----------------------------------------------------------------------------
(* Keys *)

LEMMA PlainKeys ==
  ASSUME NEW k, OverlayInv,
         HelpKey(k) \/ LostKey(k) \/ PickerKey(k) \/ PagerKey(k) \/ ArmPrefix(k) \/ SideKey(k)
  PROVE  Kept
<1>1. DOMAIN ui = UiFields
  BY InvFacts
<1>2. \A a : /\ Quiet(ui, [ui EXCEPT !.help = a]) /\ Quiet(ui, [ui EXCEPT !.pager = a])
             /\ Quiet(ui, [ui EXCEPT !.prefix = a]) /\ Quiet(ui, [ui EXCEPT !.side = a])
  BY <1>1 DEF Quiet, UiFields
<1>3. \A a, b : /\ Quiet(ui, [ui EXCEPT !.picker = a, !.theme = b])
                /\ Quiet(ui, [ui EXCEPT !.focus = a, !.side = b])
  BY <1>1 DEF Quiet, UiFields
<1>4. \A a, b, c : Quiet(ui, [ui EXCEPT !.picker = a, !.theme = b, !.saved = c])
  BY <1>1 DEF Quiet, UiFields
<1>5. Quiet(ui, ui)
  BY <1>1 DEF Quiet
<1>6. ASSUME NEW v, Quiet(ui, v), Shows(v) PROVE Kept
  BY <1>6, QuietKept, ShowsKept
<1>7. CASE HelpKey(k)
  BY <1>7, <1>2, <1>6 DEF HelpKey
<1>8. CASE LostKey(k)
  <2>1. Leave => Kept
    BY InvFacts, UiSame DEF Leave, Kept
  <2> QED BY <2>1, <1>8, <1>5, <1>6 DEF LostKey, Nothing
<1>9. CASE PickerKey(k)
  <2>1. PICK v : Quiet(ui, v) /\ Shows(v)
    BY <1>9, <1>3, <1>4 DEF PickerKey
  <2> QED BY <2>1, <1>6
<1>10. CASE PagerKey(k)
  BY <1>10, <1>2, <1>6 DEF PagerKey
<1>11. CASE ArmPrefix(k)
  BY <1>11, <1>2, <1>6 DEF ArmPrefix
<1>12. CASE SideKey(k)
  <2>1. PICK v : Quiet(ui, v) /\ Shows(v)
    BY <1>12, <1>2, <1>3, <1>5 DEF SideKey
  <2> QED BY <2>1, <1>6
<1> QED BY <1>7, <1>8, <1>9, <1>10, <1>11, <1>12

LEMMA PromptKeyKept ==
  ASSUME NEW k, OverlayInv, PromptKey(k)
  PROVE  Kept
<1>1. \A a : UiKept(ui, [ui EXCEPT !.prompt = a])
  <2>1. \A a : Quiet(ui, [ui EXCEPT !.prompt = a])
    BY InvFacts DEF Quiet, UiFields
  <2> QED BY <2>1, QuietKept
<1>2. PICK v : UiKept(ui, v) /\ (Shows(v) \/ NewPane(v))
  BY <1>1 DEF PromptKey
<1> QED BY <1>2, ShowsKept, NewPaneKept

\* The items of the context menu: Kill closes the pane of the menu's slot.
LEMMA MenuDoKept ==
  ASSUME NEW item, OverlayInv, ui.menu # Absent, MenuDo(item, ui.menu.slot)
  PROVE  Kept
<1> DEFINE k == ui.menu.slot
           v == [ui EXCEPT !.menu = Absent]
<1>1. DOMAIN ui = UiFields /\ k \in 1 .. Len(inSlots)
      /\ (inSlots[k] # Absent => inSlots[k].pane = killed.of)
      /\ DOMAIN killed = {"of", "pane"} /\ killed.pane \in {Absent, killed.of}
  BY InvFacts DEF OverlayInv, MenuOK
<1>2. Quiet(ui, v)
  BY <1>1 DEF Quiet, UiFields
<1>3. UiKept(ui, v)
  BY <1>2, QuietKept
<1>4. Quiet(v, ZoomToggle(v))
  BY <1>2 DEF Quiet, ZoomToggle, UiFields
<1> HIDE DEF v
<1>5. CASE /\ killed' = [killed EXCEPT !.pane = IF inSlots[k] = Absent THEN @ ELSE inSlots[k].pane]
           /\ IF inSlots[k] = Absent THEN ui' = v /\ Back /\ UNCHANGED <<inSlots, root>>
              ELSE ClosePane(v, k)
  <2>1. KilledKept
    BY <1>1, <1>5 DEF KilledKept
  <2>2. CASE inSlots[k] = Absent
    BY <1>3, <1>5, <2>1, <2>2, InvFacts DEF Kept
  <2>3. CASE inSlots[k] # Absent
    BY <1>1, <1>3, <1>5, <2>1, <2>3, ClosePaneKept
  <2> QED BY <2>2, <2>3
<1>6. CASE NewPane(v)
  BY <1>3, <1>6, NewPaneKept
<1>7. CASE Shows(v)
  BY <1>3, <1>7, ShowsKept
<1>8. CASE Shows(ZoomToggle(v))
  BY <1>3, <1>4, <1>8, ThenQuiet, ShowsKept
<1> QED BY <1>5, <1>6, <1>7, <1>8 DEF MenuDo, v

LEMMA MenuKeyKept ==
  ASSUME NEW k, OverlayInv, ui.menu # Absent, MenuKey(k)
  PROVE  Kept
<1>1. DOMAIN ui = UiFields /\ DOMAIN ui.menu = {"slot", "cursor"}
  BY InvFacts
<1>2. UiKept(ui, [ui EXCEPT !.menu = Absent])
  <2>1. Quiet(ui, [ui EXCEPT !.menu = Absent])
    BY <1>1 DEF Quiet, UiFields
  <2> QED BY <2>1, QuietKept
<1>3. ASSUME NEW c PROVE UiKept(ui, [ui EXCEPT !.menu.cursor = c])
  <2> DEFINE w == [ui EXCEPT !.menu.cursor = c]
  <2>1. DOMAIN w = UiFields /\ w.search = ui.search /\ w.text = ui.text
    BY <1>1 DEF UiFields
  <2>2. DOMAIN w.menu = {"slot", "cursor"} /\ w.menu.slot = ui.menu.slot
    BY <1>1 DEF UiFields
  <2> HIDE DEF w
  <2>3. UiKept(ui, w)
    BY <2>1, <2>2, UiSame DEF UiKept, MenuKept
  <2> QED BY <2>3 DEF w
<1>4. \/ \E v : UiKept(ui, v) /\ Shows(v)
      \/ \E item : MenuDo(item, ui.menu.slot)
  BY <1>2, <1>3 DEF MenuKey
<1> QED BY <1>4, ShowsKept, MenuDoKept

\* Closing the overlay forgets the query under way; opening it begins a text of its own.
LEMMA CloseSearchKept ==
  ASSUME NEW v, OverlayInv, UiKept(ui, v)
  PROVE  UiKept(ui, CloseSearch(v))
<1>1. DOMAIN v = UiFields /\ DOMAIN v.search = SearchFields
  BY DEF UiKept, VersionsOK
<1> DEFINE w == CloseSearch(v)
<1>2. DOMAIN w = UiFields /\ w.menu = v.menu /\ w.text = v.text
  BY <1>1 DEF UiFields, CloseSearch
<1>3. DOMAIN w.search = SearchFields /\ w.search.q = v.search.q /\ w.search.pending = v.search.pending
      /\ w.search.rx = Absent
  BY <1>1 DEF UiFields, SearchFields, CloseSearch
<1> HIDE DEF w
<1>4. UiKept(ui, w)
  BY <1>2, <1>3 DEF UiKept, MenuKept, VersionsOK
<1> QED BY <1>4 DEF w

LEMMA OpenSearchKept ==
  ASSUME NEW v, OverlayInv, UiKept(ui, v)
  PROVE  UiKept(ui, OpenSearch(v))
<1>1. DOMAIN v = UiFields /\ v.text \in Nat /\ v.search.q \in Nat /\ v.search.q < v.text
      /\ ui.search.q <= v.search.q /\ ui.search.q \in Nat
  BY InvFacts DEF UiKept, VersionsOK
<1> DEFINE w == OpenSearch(v)
<1>2. DOMAIN w = UiFields /\ w.menu = v.menu /\ w.text = v.text + 1
  BY <1>1 DEF UiFields, OpenSearch
<1>3. DOMAIN w.search = SearchFields /\ w.search.q = v.text /\ w.search.pending = Absent
      /\ w.search.rx = Absent
  BY <1>1 DEF UiFields, SearchFields, OpenSearch
<1> HIDE DEF w
<1>4. MenuKept(ui, w)
  BY <1>2 DEF UiKept, MenuKept
<1>5. VersionsOK(w.search, w.text) /\ ui.search.q <= w.search.q
  BY <1>1, <1>2, <1>3 DEF VersionsOK
<1>6. UiKept(ui, w)
  BY <1>2, <1>4, <1>5 DEF UiKept
<1> QED BY <1>6 DEF w

LEMMA SearchJumpKept ==
  ASSUME NEW v, OverlayInv, UiKept(ui, v), SearchJump(v)
  PROVE  Kept
<1>1. UiKept(ui, CloseSearch(v))
  BY CloseSearchKept
<1>2. CASE Shows(CloseSearch(v))
  BY <1>1, <1>2, ShowsKept
<1>3. CASE ~Shows(CloseSearch(v))
  <2>1. PICK k \in DOMAIN inSlots : /\ inSlots[k] # Absent
                                    /\ ui' = [CloseSearch(v) EXCEPT !.focus = inSlots[k].pane]
                                    /\ \E c : inSlots' = [inSlots EXCEPT ![k].ribbon = c]
                                    /\ killed' = killed
    BY <1>3 DEF SearchJump
  <2>2. k \in 1 .. Len(inSlots) /\ DOMAIN inSlots[k] = SlotFields
    BY <2>1, InvFacts DEF SlotList
  <2>3. PICK c : inSlots' = [inSlots EXCEPT ![k] = [inSlots[k] EXCEPT !.ribbon = c]]
    BY <2>1
  <2>4. SameSlot(inSlots[k], [inSlots[k] EXCEPT !.ribbon = c])
    BY <2>1, <2>2 DEF SameSlot, SlotFields
  <2>5. SlotsKept(inSlots, inSlots')
    BY <2>2, <2>3, <2>4, InvFacts, KeptExcept
  <2>6. \A a : Quiet(CloseSearch(v), [CloseSearch(v) EXCEPT !.focus = a])
    BY <1>1 DEF UiKept, Quiet, UiFields
  <2>7. UiKept(ui, ui')
    BY <1>1, <2>1, <2>6, ThenQuiet
  <2> QED BY <2>1, <2>5, <2>7, InvFacts DEF Kept
<1> QED BY <1>2, <1>3

LEMMA SearchKeyKept ==
  ASSUME NEW k, OverlayInv, SearchKey(k)
  PROVE  Kept
<1>1. DOMAIN ui = UiFields /\ DOMAIN ui.search = SearchFields
  BY InvFacts DEF VersionsOK
<1>2. ASSUME NEW c PROVE UiKept(ui, [ui EXCEPT !.search.cursor = c])
  <2> DEFINE w == [ui EXCEPT !.search.cursor = c]
  <2>1. DOMAIN w = UiFields /\ w.menu = ui.menu /\ w.text = ui.text
    BY <1>1 DEF UiFields
  <2>2. DOMAIN w.search = SearchFields /\ w.search.q = ui.search.q /\ w.search.pending = ui.search.pending
        /\ w.search.rx = ui.search.rx
    BY <1>1 DEF UiFields, SearchFields
  <2> HIDE DEF w
  <2>3. UiKept(ui, w)
    BY <2>1, <2>2, UiSame DEF UiKept, MenuKept, VersionsOK
  <2> QED BY <2>3 DEF w
<1> DEFINE e == [ui EXCEPT !.search.input = ui.text, !.search.pending = ui.text, !.text = @ + 1]
<1>3. UiKept(ui, e)
  <2>1. DOMAIN e = UiFields /\ e.menu = ui.menu /\ e.text = ui.text + 1
    BY <1>1 DEF UiFields
  <2>2. DOMAIN e.search = SearchFields /\ e.search.q = ui.search.q /\ e.search.pending = ui.text
        /\ e.search.rx = ui.search.rx
    BY <1>1 DEF UiFields, SearchFields
  <2> HIDE DEF e
  <2>3. MenuKept(ui, e)
    BY <2>1, UiSame DEF UiKept, MenuKept
  <2>4. VersionsOK(e.search, e.text) /\ ui.search.q <= e.search.q
    BY <2>1, <2>2, InvFacts DEF VersionsOK
  <2> QED BY <2>1, <2>3, <2>4 DEF UiKept
<1>4. UiKept(ui, CloseSearch(ui))
  BY UiSame, CloseSearchKept
<1>5. (\E v : UiKept(ui, v) /\ Shows(v)) \/ SearchJump(ui)
  BY <1>2, <1>3, <1>4 DEF SearchKey
<1> QED BY <1>5, UiSame, ShowsKept, SearchJumpKept

\* A slot whose ribbon or scrollback moves is the same slot.
LEMMA SlotExcept ==
  ASSUME NEW x, x # Absent, DOMAIN x = SlotFields, NEW c
  PROVE  /\ SameSlot(x, [x EXCEPT !.ribbon = c]) /\ SameSlot(x, [x EXCEPT !.scroll = c])
         /\ \A b : SameSlot(x, [x EXCEPT !.blocks = b, !.ribbon = c])
BY DEF SameSlot, SlotFields

LEMMA PrefixKeyKept ==
  ASSUME NEW k, OverlayInv, PrefixKey(k)
  PROVE  Kept
<1> DEFINE v == [ui EXCEPT !.prefix = FALSE]
<1>1. DOMAIN ui = UiFields
  BY InvFacts
<1>2. Quiet(ui, v)
  BY <1>1 DEF Quiet, UiFields
<1>3. UiKept(ui, v) /\ DOMAIN v = UiFields
  BY <1>2, QuietKept DEF Quiet
<1> HIDE DEF v
<1>4. CASE Leave
  BY <1>4, InvFacts, UiSame DEF Leave, Kept
<1>5. CASE NewPane(v)
  BY <1>3, <1>5, NewPaneKept
<1>6. CASE /\ killed' = killed
           /\ IF Focused = 0 THEN ui' = v /\ Back /\ UNCHANGED <<inSlots, root>> ELSE ClosePane(v, Focused)
  <2>1. KilledKept
    BY <1>6, InvFacts
  <2>2. CASE Focused = 0
    BY <1>3, <1>6, <2>1, <2>2, InvFacts DEF Kept
  <2>3. CASE Focused # 0
    BY <1>3, <1>6, <2>1, <2>3, FocusedSlot, ClosePaneKept
  <2> QED BY <2>2, <2>3
<1>7. CASE /\ ui' = v /\ killed' = killed
           /\ \E c : inSlots' = IF Focused = 0 THEN inSlots ELSE [inSlots EXCEPT ![Focused].ribbon = c]
  <2>1. CASE Focused = 0
    BY <1>3, <1>7, <2>1, InvFacts DEF Kept
  <2>2. CASE Focused # 0
    <3>1. PICK c : inSlots' = [inSlots EXCEPT ![Focused] = [inSlots[Focused] EXCEPT !.ribbon = c]]
      BY <1>7, <2>2
    <3>2. SlotsKept(inSlots, inSlots')
      BY <2>2, <3>1, InvFacts, FocusedSlot, SlotExcept, KeptExcept
    <3> QED BY <1>3, <1>7, <3>2, InvFacts DEF Kept
  <2> QED BY <2>1, <2>2
<1>9. /\ \A a : /\ UiKept(ui, [v EXCEPT !.help = a]) /\ UiKept(ui, [v EXCEPT !.prompt = a])
                /\ UiKept(ui, [v EXCEPT !.picker = a]) /\ UiKept(ui, [v EXCEPT !.deck = a])
                /\ UiKept(ui, [v EXCEPT !.zoomed = a])
      /\ UiKept(ui, OpenSearch(v))
  <2>1. \A a : /\ Quiet(v, [v EXCEPT !.help = a]) /\ Quiet(v, [v EXCEPT !.prompt = a])
               /\ Quiet(v, [v EXCEPT !.picker = a]) /\ Quiet(v, [v EXCEPT !.deck = a])
               /\ Quiet(v, [v EXCEPT !.zoomed = a])
    BY <1>3 DEF Quiet, UiFields
  <2> QED BY <1>3, <2>1, ThenQuiet, OpenSearchKept
<1>10. \A a, b : UiKept(ui, [v EXCEPT !.side.open = a, !.side.focused = b])
  <2>1. \A a, b : Quiet(v, [v EXCEPT !.side.open = a, !.side.focused = b])
    BY <1>3 DEF Quiet, UiFields
  <2> QED BY <1>3, <2>1, ThenQuiet
<1>11. ASSUME NEW w, Shows(w),
              w = CASE k = "?" -> [v EXCEPT !.help = TRUE]
                    [] k = "/" -> OpenSearch(v)
                    [] k = "z" -> ZoomToggle(v)
                    [] k = "s" -> [v EXCEPT !.side.open = ~@, !.side.focused = ~ui.side.open]
                    [] k = "S" -> [v EXCEPT !.prompt = [kind |-> "new", len |-> 0]]
                    [] k = "," -> [v EXCEPT !.prompt = [kind |-> "rename", len |-> 1]]
                    [] k = "T" -> [v EXCEPT !.picker = [cursor |-> v.theme, original |-> v.theme]]
                    [] k = "N" -> [v EXCEPT !.deck.on = ~@]
                    [] OTHER   -> v
       PROVE  Kept
  <2>1. UiKept(ui, w)
    <3>1. CASE k = "s"
      BY <1>10, <1>11, <3>1
    <3>2. CASE k = "N"
      BY <1>9, <1>11, <3>2
    <3>3. CASE k = "z"
      BY <1>9, <1>11, <3>3 DEF ZoomToggle
    <3>4. CASE k \notin {"s", "N", "z"}
      BY <1>3, <1>9, <1>11, <3>4
    <3> QED BY <3>1, <3>2, <3>3, <3>4
  <2> QED BY <1>11, <2>1, ShowsKept
<1> QED BY <1>4, <1>5, <1>6, <1>7, <1>11 DEF PrefixKey, v

LEMMA RibbonKeyKept ==
  ASSUME NEW k, OverlayInv, Focused # 0, RibbonKey(k)
  PROVE  Kept
<1>1. Focused \in 1 .. Len(inSlots) /\ inSlots[Focused] # Absent /\ DOMAIN inSlots[Focused] = SlotFields
  BY FocusedSlot
<1>2. \A c : SameSlot(inSlots[Focused], [inSlots[Focused] EXCEPT !.ribbon = c])
  BY <1>1, SlotExcept
<1>3. UiKept(ui, [ui EXCEPT !.pager = 0]) /\ UiKept(ui, ui)
  <2>1. Quiet(ui, [ui EXCEPT !.pager = 0])
    BY InvFacts DEF Quiet, UiFields
  <2> QED BY <2>1, QuietKept, UiSame
<1>4. (\E c : Alters(Focused, [inSlots[Focused] EXCEPT !.ribbon = c])) \/ (\E v : UiKept(ui, v) /\ Shows(v))
  BY <1>3 DEF RibbonKey, OpenPager, Nothing
<1> QED BY <1>1, <1>2, <1>4, AltersKept, ShowsKept

\* Scrolling the focused pane.
LEMMA ScrollKept ==
  ASSUME OverlayInv,
         (Focused = 0 /\ Nothing)
           \/ (Focused # 0 /\ \E c : Alters(Focused, [inSlots[Focused] EXCEPT !.scroll = c]))
  PROVE  Kept
<1>1. CASE Nothing
  BY <1>1, UiSame, ShowsKept DEF Nothing
<1>2. CASE Focused # 0 /\ \E c : Alters(Focused, [inSlots[Focused] EXCEPT !.scroll = c])
  <2>1. Focused \in 1 .. Len(inSlots) /\ inSlots[Focused] # Absent /\ DOMAIN inSlots[Focused] = SlotFields
    BY <1>2, FocusedSlot
  <2>2. \A c : SameSlot(inSlots[Focused], [inSlots[Focused] EXCEPT !.scroll = c])
    BY <2>1, SlotExcept
  <2> QED BY <1>2, <2>1, <2>2, AltersKept
<1> QED BY <1>1, <1>2

LEMMA KeyKept ==
  ASSUME NEW k, OverlayInv, Key(k)
  PROVE  Kept
<1>1. CASE HelpKey(k) \/ LostKey(k) \/ PickerKey(k) \/ PagerKey(k) \/ ArmPrefix(k) \/ SideKey(k)
  BY <1>1, PlainKeys
<1>2. CASE PromptKey(k) \/ PrefixKey(k) \/ SearchKey(k)
  BY <1>2, PromptKeyKept, PrefixKeyKept, SearchKeyKept
<1>3. CASE Takes(k) = "menu" /\ MenuKey(k)
  BY <1>3, TakesOpen, MenuKeyKept
<1>4. CASE Takes(k) = "ribbon" /\ RibbonKey(k)
  BY <1>4, TakesOpen, RibbonKeyKept
<1>5. CASE PaneKey(k)
  BY <1>5, ScrollKept DEF PaneKey
<1> QED BY <1>1, <1>2, <1>3, <1>4, <1>5 DEF Key

-----------------------------------------------------------------------------
(* The mouse *)

LEMMA PressedKept ==
  ASSUME OverlayInv
  PROVE  UiKept(ui, Pressed) /\ DOMAIN Pressed = UiFields
<1>1. Quiet(ui, Pressed)
  BY InvFacts DEF Quiet, UiFields, Pressed
<1> QED BY <1>1, QuietKept DEF Quiet

LEMMA ClickKept ==
  ASSUME OverlayInv, ClickPlus \/ ClickRow \/ Press \/ Drag \/ Release
  PROVE  Kept
<1>1. UiKept(ui, Pressed) /\ DOMAIN Pressed = UiFields /\ DOMAIN ui = UiFields
  BY PressedKept, InvFacts
<1>2. \A a, b : /\ Quiet(Pressed, [Pressed EXCEPT !.prompt = a]) /\ Quiet(Pressed, [Pressed EXCEPT !.weight = a])
                /\ Quiet(Pressed, [Pressed EXCEPT !.drag = a]) /\ Quiet(Pressed, [Pressed EXCEPT !.side = a, !.focus = b])
  BY <1>1 DEF Quiet, UiFields
<1>3. \A a : Quiet(ui, [ui EXCEPT !.weight = a]) /\ Quiet(ui, [ui EXCEPT !.drag = a])
  BY <1>1 DEF Quiet, UiFields
<1>4. ASSUME NEW v, Shows(v), Quiet(Pressed, v) \/ Quiet(ui, v) PROVE Kept
  BY <1>1, <1>4, ThenQuiet, QuietKept, ShowsKept
<1>5. CASE ClickPlus
  BY <1>2, <1>4, <1>5 DEF ClickPlus
<1>6. CASE ClickRow
  <2>1. \A r, a, b : Quiet(Pressed, [Pressed EXCEPT !.side.cursor = r, !.side.focused = a, !.focus = b])
    BY <1>1 DEF Quiet, UiFields
  <2>2. PICK r, here : Shows([Pressed EXCEPT !.side.cursor = r, !.side.focused = TRUE,
                                             !.focus = IF here /\ r \in root THEN r ELSE @])
    BY <1>6 DEF ClickRow
  <2>3. Quiet(Pressed, [Pressed EXCEPT !.side.cursor = r, !.side.focused = TRUE,
                                       !.focus = IF here /\ r \in root THEN r ELSE @])
    BY <2>1
  <2> QED BY <1>4, <2>2, <2>3
<1>7. CASE Press
  BY <1>2, <1>4, <1>7 DEF Press
<1>8. CASE Drag
  BY <1>3, <1>4, <1>8 DEF Drag
<1>9. CASE Release
  BY <1>3, <1>4, <1>9 DEF Release
<1> QED BY <1>5, <1>6, <1>7, <1>8, <1>9

\* A click on a chip of the ribbon, and the wheel.
LEMMA ChipKept ==
  ASSUME OverlayInv, ClickChip \/ Wheel
  PROVE  Kept
<1>1. UiKept(ui, Pressed) /\ DOMAIN Pressed = UiFields /\ DOMAIN ui = UiFields
  BY PressedKept, InvFacts
<1>2. \A a, b : UiKept(ui, [Pressed EXCEPT !.focus = a, !.pager = b])
  <2>1. \A a, b : Quiet(Pressed, [Pressed EXCEPT !.focus = a, !.pager = b])
    BY <1>1 DEF Quiet, UiFields
  <2> QED BY <1>1, <2>1, ThenQuiet
<1>3. \A a : UiKept(ui, [ui EXCEPT !.focus = a]) /\ UiKept(ui, [ui EXCEPT !.pager = a])
  <2>1. \A a : Quiet(ui, [ui EXCEPT !.focus = a]) /\ Quiet(ui, [ui EXCEPT !.pager = a])
    BY <1>1 DEF Quiet, UiFields
  <2> QED BY <2>1, QuietKept
<1>4. ASSUME NEW k \in DOMAIN inSlots, inSlots[k] # Absent, NEW x, inSlots' = [inSlots EXCEPT ![k] = x],
             \E c : x \in {[inSlots[k] EXCEPT !.ribbon = c], [inSlots[k] EXCEPT !.scroll = c]},
             UiKept(ui, ui'), killed' = killed
      PROVE  Kept
  <2>1. k \in 1 .. Len(inSlots) /\ DOMAIN inSlots[k] = SlotFields
    BY <1>4, InvFacts DEF SlotList
  <2>2. SameSlot(inSlots[k], x)
    <3>1. PICK c : x \in {[inSlots[k] EXCEPT !.ribbon = c], [inSlots[k] EXCEPT !.scroll = c]}
      BY <1>4
    <3>2. /\ SameSlot(inSlots[k], [inSlots[k] EXCEPT !.ribbon = c])
          /\ SameSlot(inSlots[k], [inSlots[k] EXCEPT !.scroll = c])
      BY <1>4, <2>1, SlotExcept
    <3> QED BY <3>1, <3>2
  <2>3. SlotsKept(inSlots, inSlots')
    BY <1>4, <2>1, <2>2, InvFacts, KeptExcept
  <2> QED BY <1>4, <2>3, InvFacts DEF Kept
<1>5. CASE ClickChip
  <2>1. PICK k, c : /\ k \in DOMAIN inSlots /\ inSlots[k] # Absent
                    /\ inSlots' = [inSlots EXCEPT ![k].ribbon = c]
                    /\ \E a, b : ui' = [Pressed EXCEPT !.focus = a, !.pager = b]
                    /\ killed' = killed
    BY <1>5 DEF ClickChip
  <2>2. UiKept(ui, ui')
    <3>1. PICK a, b : ui' = [Pressed EXCEPT !.focus = a, !.pager = b]
      BY <2>1
    <3>2. UiKept(ui, [Pressed EXCEPT !.focus = a, !.pager = b])
      BY <1>2
    <3> QED BY <3>1, <3>2
  <2> QED BY <1>4, <2>1, <2>2
<1>6. CASE Wheel
  <2>1. CASE \E v : Shows(v) /\ UiKept(ui, v)
    BY <2>1, ShowsKept
  <2>2. CASE ~\E v : Shows(v) /\ UiKept(ui, v)
    <3>1. PICK k, c : /\ k \in DOMAIN inSlots /\ inSlots[k] # Absent
                      /\ inSlots' = [inSlots EXCEPT ![k].scroll = c]
                      /\ \E a : ui' = [ui EXCEPT !.focus = a]
                      /\ killed' = killed
      BY <1>3, <1>6, <2>2 DEF Wheel
    <3>2. UiKept(ui, ui')
      BY <1>3, <3>1
    <3> QED BY <1>4, <3>1, <3>2
  <2> QED BY <2>1, <2>2
<1> QED BY <1>5, <1>6

LEMMA ClickResultKept ==
  ASSUME OverlayInv, ClickResult
  PROVE  Kept
<1>1. PICK r : SearchJump([Pressed EXCEPT !.search.cursor = r])
  BY DEF ClickResult
<1> DEFINE w == [Pressed EXCEPT !.search.cursor = r]
<1>2. UiKept(ui, Pressed) /\ DOMAIN Pressed = UiFields /\ DOMAIN Pressed.search = SearchFields
  BY PressedKept DEF UiKept, VersionsOK
<1>3. DOMAIN w = UiFields /\ w.menu = Pressed.menu /\ w.text = Pressed.text
  BY <1>2 DEF UiFields
<1>4. DOMAIN w.search = SearchFields /\ w.search.q = Pressed.search.q
      /\ w.search.pending = Pressed.search.pending /\ w.search.rx = Pressed.search.rx
  BY <1>2 DEF UiFields, SearchFields
<1>5. SearchJump(w)
  BY <1>1
<1> HIDE DEF w
<1>6. UiKept(ui, w)
  BY <1>2, <1>3, <1>4 DEF UiKept, MenuKept, VersionsOK
<1> QED BY <1>5, <1>6, SearchJumpKept

\* The one step that opens a menu: it is about the slot that was clicked.
LEMMA RightClickInv ==
  ASSUME OverlayInv, RightClick
  PROVE  OverlayInv' /\ ui'.search.q >= ui.search.q
<1>1. PICK k \in DOMAIN inSlots : /\ inSlots[k] # Absent
                                  /\ ui' = [ui EXCEPT !.focus = inSlots[k].pane, !.menu = [slot |-> k, cursor |-> 1]]
                                  /\ killed' = [of |-> inSlots[k].pane, pane |-> Absent]
                                  /\ inSlots' = inSlots
  BY DEF RightClick
<1>2. DOMAIN ui = UiFields /\ VersionsOK(ui.search, ui.text) /\ k \in 1 .. Len(inSlots)
  BY InvFacts
<1>3. DOMAIN ui' = UiFields /\ ui'.search = ui.search /\ ui'.text = ui.text
  BY <1>1, <1>2 DEF UiFields
<1>4. ui'.menu = [slot |-> k, cursor |-> 1]
  BY <1>1, <1>2 DEF UiFields
<1>5. MenuOK'
  BY <1>1, <1>2, <1>4 DEF MenuOK
<1>6. SlotList(inSlots)' /\ UiTypeOK' /\ SearchOK'
  BY <1>1, <1>3 DEF OverlayInv, UiTypeOK, SearchOK
<1>7. ui'.search.q >= ui.search.q
  BY <1>2, <1>3 DEF VersionsOK
<1> QED BY <1>5, <1>6, <1>7 DEF OverlayInv

LEMMA MouseInv ==
  ASSUME OverlayInv, MouseNext
  PROVE  OverlayInv' /\ ui'.search.q >= ui.search.q
<1>1. CASE RightClick
  BY <1>1, RightClickInv
<1>2. CASE ClickItem
  BY <1>2, MenuDoKept, KeptStep DEF ClickItem
<1>3. CASE ClickResult
  BY <1>3, ClickResultKept, KeptStep
<1>4. CASE ClickPlus \/ ClickRow \/ Press \/ Drag \/ Release
  BY <1>4, ClickKept, KeptStep
<1>5. CASE ClickChip \/ Wheel
  BY <1>5, ChipKept, KeptStep
<1>6. CASE Paste
  BY <1>6, ScrollKept, KeptStep DEF Paste
<1> QED BY <1>1, <1>2, <1>3, <1>4, <1>5, <1>6 DEF MouseNext

-----------------------------------------------------------------------------
(* The loop and the world *)

LEMMA DrainPanesKept ==
  ASSUME OverlayInv, DrainPanes
  PROVE  Kept
<1>1. DOMAIN inSlots = 1 .. Len(inSlots) /\ SlotList(inSlots) /\ killed' = killed /\ DOMAIN ui = UiFields
  BY InvFacts DEF DrainPanes
<1>2. inSlots' = [k \in 1 .. Len(inSlots) |->
                    IF inSlots[k] = Absent \/ k \in ended THEN Absent ELSE Listed(inSlots[k])]
  BY <1>1 DEF DrainPanes
<1>3. DOMAIN inSlots' = 1 .. Len(inSlots) /\ inSlots' = [k \in 1 .. Len(inSlots) |-> inSlots'[k]]
  BY <1>2
<1>4. ASSUME NEW k \in 1 .. Len(inSlots), inSlots[k] # Absent PROVE SameSlot(inSlots[k], Listed(inSlots[k]))
  <2>1. DOMAIN inSlots[k] = SlotFields
    BY <1>1, <1>4 DEF SlotList
  <2> DEFINE x == inSlots[k]
  <2> HIDE DEF x
  <2>2. x # Absent /\ DOMAIN x = SlotFields
    BY <1>4, <2>1 DEF x
  <2>3. SameSlot(x, x)
    BY <2>2 DEF SameSlot
  <2>4. SameSlot(x, Listed(x))
    BY <2>2, <2>3, SlotExcept DEF Listed
  <2> QED BY <2>4 DEF x
<1>5. ASSUME NEW k \in 1 .. Len(inSlots) PROVE SameSlot(inSlots[k], inSlots'[k])
  BY <1>2, <1>4 DEF SameSlot
<1>6. SlotsKept(inSlots, inSlots')
  BY <1>1, <1>3, <1>5, KeptMap
<1>7. UiKept(ui, ui')
  <2>1. \A a, b : Quiet(ui, [ui EXCEPT !.zoomed = a, !.focus = b])
    BY <1>1 DEF Quiet, UiFields
  <2>2. \A a, b : UiKept(ui, [ui EXCEPT !.zoomed = a, !.focus = b])
    BY <2>1, QuietKept
  <2>3. ui' = ui \/ \E a, b : ui' = [ui EXCEPT !.zoomed = a, !.focus = b]
    BY DEF DrainPanes
  <2>4. CASE ui' = ui
    BY <2>4, UiSame
  <2>5. CASE ui' # ui
    <3>1. PICK a, b : ui' = [ui EXCEPT !.zoomed = a, !.focus = b]
      BY <2>3, <2>5
    <3>2. UiKept(ui, [ui EXCEPT !.zoomed = a, !.focus = b])
      BY <2>2
    <3> QED BY <3>1, <3>2
  <2> QED BY <2>4, <2>5
<1> QED BY <1>1, <1>6, <1>7, InvFacts DEF Kept

LEMMA DrawPanesKept ==
  ASSUME OverlayInv, DrawPanes
  PROVE  Kept
<1>1. DOMAIN inSlots = 1 .. Len(inSlots) /\ SlotList(inSlots) /\ killed' = killed /\ DOMAIN ui = UiFields
  BY InvFacts DEF DrawPanes
<1>2. inSlots' = [k \in 1 .. Len(inSlots) |->
                    IF DrawnNow(k) THEN [inSlots[k] EXCEPT !.scroll = Lesser(@, 1)] ELSE inSlots[k]]
  BY <1>1 DEF DrawPanes
<1>3. DOMAIN inSlots' = 1 .. Len(inSlots) /\ inSlots' = [k \in 1 .. Len(inSlots) |-> inSlots'[k]]
  BY <1>2
<1>4. ASSUME NEW k \in 1 .. Len(inSlots) PROVE SameSlot(inSlots[k], inSlots'[k])
  <2>1. inSlots[k] # Absent => DOMAIN inSlots[k] = SlotFields
    BY <1>1 DEF SlotList
  <2>2. CASE DrawnNow(k)
    <3>1. inSlots[k] # Absent
      BY <2>2 DEF DrawnNow
    <3>2. PICK c : inSlots'[k] = [inSlots[k] EXCEPT !.scroll = c]
      BY <1>2, <2>2
    <3>3. SameSlot(inSlots[k], [inSlots[k] EXCEPT !.scroll = c])
      BY <2>1, <3>1, SlotExcept
    <3> QED BY <3>2, <3>3
  <2>3. CASE ~DrawnNow(k)
    BY <1>2, <2>1, <2>3 DEF SameSlot
  <2> QED BY <2>2, <2>3
<1>5. SlotsKept(inSlots, inSlots')
  BY <1>1, <1>3, <1>4, KeptMap
<1>6. UiKept(ui, ui')
  <2>1. \A a : Quiet(ui, [ui EXCEPT !.lost = a])
    BY <1>1 DEF Quiet, UiFields
  <2> QED BY <2>1, QuietKept DEF DrawPanes
<1> QED BY <1>1, <1>5, <1>6, InvFacts DEF Kept

\* A search that fires hands its text to the query under way; the answer shown is that one's.
LEMMA SearchTickKept ==
  ASSUME OverlayInv, SearchTick
  PROVE  Kept
<1>1. VersionsOK(ui.search, ui.text) /\ DOMAIN ui = UiFields
  BY InvFacts
<1>2. PICK fire \in BOOLEAN :
        LET s == ui.search
            t == IF fire THEN [s EXCEPT !.rx = s.pending, !.box = Absent, !.pending = Absent] ELSE s
        IN  /\ fire => s.open /\ s.pending # Absent
            /\ ui' = [ui EXCEPT !.search = IF t.rx # Absent /\ t.box # Absent THEN ShowHits(t) ELSE t]
  BY DEF SearchTick
<1> DEFINE s == ui.search
           t == IF fire THEN [s EXCEPT !.rx = s.pending, !.box = Absent, !.pending = Absent] ELSE s
           u == IF t.rx # Absent /\ t.box # Absent THEN ShowHits(t) ELSE t
<1>3. VersionsOK(t, ui.text) /\ t.q = s.q
  <2> HIDE DEF s
  <2>1. VersionsOK(s, ui.text) /\ (fire => s.pending # Absent)
    BY <1>1, <1>2 DEF s
  <2>2. CASE ~fire
    BY <2>1, <2>2
  <2>3. CASE fire
    <3>1. DOMAIN t = SearchFields /\ t.q = s.q /\ t.rx = s.pending /\ t.pending = Absent
      BY <2>1, <2>3 DEF VersionsOK, SearchFields
    <3> HIDE DEF t
    <3> QED BY <2>1, <2>3, <3>1 DEF VersionsOK
  <2> QED BY <2>2, <2>3
<1>4. VersionsOK(u, ui.text) /\ s.q <= u.q
  <2>0. s.q \in Nat
    BY <1>1 DEF VersionsOK
  <2> HIDE DEF s, t
  <2>1. CASE ~(t.rx # Absent /\ t.box # Absent)
    BY <1>3, <2>0, <2>1
  <2>2. CASE t.rx # Absent /\ t.box # Absent
    <3>1. DOMAIN u = SearchFields /\ u.q = t.rx /\ u.rx = t.rx /\ u.pending = t.pending
      BY <1>3, <2>2 DEF VersionsOK, SearchFields, ShowHits
    <3> HIDE DEF u
    <3> QED BY <1>3, <2>0, <2>2, <3>1 DEF VersionsOK
  <2> QED BY <2>1, <2>2
<1>5. ui' = [ui EXCEPT !.search = u]
  BY <1>2
<1> HIDE DEF u
<1>6. DOMAIN ui' = UiFields /\ ui'.search = u /\ ui'.text = ui.text /\ ui'.menu = ui.menu
  BY <1>1, <1>5 DEF UiFields
<1>7. MenuKept(ui, ui')
  BY <1>6, InvFacts DEF MenuKept
<1>8. UiKept(ui, ui')
  BY <1>4, <1>6, <1>7 DEF UiKept
<1>9. inSlots' = inSlots /\ killed' = killed
  BY DEF SearchTick
<1> QED BY <1>8, <1>9, InvFacts DEF Kept

LEMMA WorldKept ==
  ASSUME OverlayInv, WorldNext
  PROVE  Kept
<1>1. DOMAIN ui = UiFields /\ DOMAIN ui.search = SearchFields
  BY InvFacts DEF VersionsOK
<1>2. CASE StreamEnds \/ BlockPoll
  BY <1>2, InvFacts, UiSame DEF StreamEnds, BlockPoll, World, Kept
<1>3. CASE PruneSlot
  <2>1. PICK k \in DOMAIN inSlots : inSlots' = [inSlots EXCEPT ![k] = Absent]
    BY <1>3 DEF PruneSlot
  <2>2. SlotsKept(inSlots, inSlots')
    BY <2>1, InvFacts, KeptExcept DEF SameSlot
  <2> QED BY <1>3, <2>2, InvFacts, UiSame DEF PruneSlot, World, Kept
<1>4. CASE MetaPoll \/ ToastTick
  <2>1. \A a, b : Quiet(ui, [ui EXCEPT !.side.n = a, !.side.cursor = b])
    BY <1>1 DEF Quiet, UiFields
  <2>2. \A a : Quiet(ui, [ui EXCEPT !.deck.n = a])
    BY <1>1 DEF Quiet, UiFields
  <2>3. inSlots' = inSlots /\ killed' = killed
    BY <1>4 DEF MetaPoll, ToastTick, World
  <2>4. (\E a, b : ui' = [ui EXCEPT !.side.n = a, !.side.cursor = b]) \/ (\E a : ui' = [ui EXCEPT !.deck.n = a])
    BY <1>4 DEF MetaPoll, ToastTick
  <2>5. UiKept(ui, ui')
    BY <2>1, <2>2, <2>4, QuietKept
  <2> QED BY <2>3, <2>5, InvFacts DEF Kept
<1>5. CASE Answer
  <2>1. inSlots' = inSlots /\ killed' = killed
    BY <1>5 DEF Answer
  <2>2. ui' = ui \/ \E n : ui' = [ui EXCEPT !.search.box = n]
    BY <1>5 DEF Answer
  <2>3. ASSUME NEW n PROVE UiKept(ui, [ui EXCEPT !.search.box = n])
    <3> DEFINE w == [ui EXCEPT !.search.box = n]
    <3>1. DOMAIN w = UiFields /\ w.menu = ui.menu /\ w.text = ui.text
      BY <1>1 DEF UiFields
    <3>2. DOMAIN w.search = SearchFields /\ w.search.q = ui.search.q
          /\ w.search.pending = ui.search.pending /\ w.search.rx = ui.search.rx
      BY <1>1 DEF UiFields, SearchFields
    <3> HIDE DEF w
    <3>3. UiKept(ui, w)
      BY <3>1, <3>2, UiSame DEF UiKept, MenuKept, VersionsOK
    <3> QED BY <3>3 DEF w
  <2>4. UiKept(ui, ui')
    BY <2>2, <2>3, UiSame
  <2> QED BY <2>1, <2>4, InvFacts DEF Kept
<1> QED BY <1>2, <1>3, <1>4, <1>5 DEF WorldNext

-----------------------------------------------------------------------------
(* The theorems on the overlays *)

LEMMA InputStart ==
  ASSUME InputInit
  PROVE  OverlayInv
<1>1. PICK n \in Nat : n = inp.panes
  BY InputAssumption DEF InputInit
<1>2. inSlots = [p \in 1 .. n |-> NewSlot(p)]
  BY <1>1 DEF InputInit
<1>3. inSlots \in Seq(ToSet(inSlots)) /\ Len(inSlots) = n
  BY <1>2, FunIsSeq
<1>4. \A k \in 1 .. n : inSlots[k] = NewSlot(k)
  BY <1>2
<1>5. \A k : DOMAIN NewSlot(k) = SlotFields
  BY DEF NewSlot, SlotFields
<1>6. SlotList(inSlots)
  BY <1>3, <1>4, <1>5 DEF SlotList
<1>7. DOMAIN ui = UiFields /\ ui.menu = Absent /\ ui.text = 1
  BY DEF InputInit, UiFields
<1>8. ui.search = [open |-> FALSE, input |-> 0, pending |-> Absent, q |-> 0, n |-> 0,
                   cursor |-> 1, rx |-> Absent, box |-> Absent]
  BY DEF InputInit
<1>9. DOMAIN ui.search = SearchFields /\ ui.search.q = 0 /\ ui.search.pending = Absent /\ ui.search.rx = Absent
  BY <1>8 DEF SearchFields
<1>10. UiTypeOK /\ SearchOK
  BY <1>7, <1>9 DEF UiTypeOK, SearchOK
<1>11. MenuOK
  BY <1>7 DEF MenuOK, InputInit
<1> QED BY <1>6, <1>10, <1>11 DEF OverlayInv

LEMMA InputStep ==
  ASSUME OverlayInv, [InputNext]_ivars
  PROVE  OverlayInv' /\ ui'.search.q >= ui.search.q
<1>1. CASE handle_key \/ PressEsc
  <2>1. PICK k : Key(k)
    BY <1>1 DEF handle_key, PressEsc
  <2> QED BY <2>1, KeyKept, KeptStep
<1>2. CASE MouseNext
  BY <1>2, MouseInv
<1>3. CASE NoInput \/ UNCHANGED ivars
  <2>1. ui' = ui /\ inSlots' = inSlots /\ killed' = killed
    BY <1>3 DEF NoInput, ivars
  <2> QED BY <2>1, InvFacts, UiSame, KeptStep DEF Kept
<1>4. CASE InputLoop
  BY <1>4, DrainPanesKept, SearchTickKept, DrawPanesKept, KeptStep DEF InputLoop
<1>5. CASE WorldNext
  BY <1>5, WorldKept, KeptStep
<1> QED BY <1>1, <1>2, <1>3, <1>4, <1>5 DEF InputNext

\* For any number of panes, keys and events: the slots only grow and never take
\* another pane, an open menu stays on its slot, and the versions of the search
\* text are in order (AppState.slots, ContextMenu.target_slot, SearchState).
THEOREM OverlaysSound == InputSpec => []OverlayInv
<1>1. InputInit => OverlayInv
  BY InputStart
<1>2. OverlayInv /\ [InputNext]_ivars => OverlayInv'
  BY InputStep
<1> QED BY <1>1, <1>2, PTL DEF InputSpec

\* "Kill pane" of a context menu closes the pane the menu was opened on or
\* nothing, whatever ended or was attached while the menu was open.
THEOREM MenuKillsRight == InputSpec => []MenuKillsItsPane
<1>1. OverlayInv => MenuKillsItsPane
  BY DEF OverlayInv, MenuOK, MenuKillsItsPane
<1> QED BY <1>1, OverlaysSound, PTL

\* No step of the terminal client puts the results of an older text in place of
\* newer ones: run_tui drains SearchState.rx, the channel of the last query only.
THEOREM SearchForward == InputSpec => ResultsNeverGoBack
<1>1. OverlayInv /\ [InputNext]_ivars => [SearchGoesForward]_ivars
  BY InputStep DEF SearchGoesForward
<1> QED BY <1>1, OverlaysSound, PTL DEF InputSpec, ResultsNeverGoBack

-----------------------------------------------------------------------------
(* Sessions, tabs, slots and streams (Tui): for any number of panes *)

\* The daemon below the next identifier n: windows with at least one leaf.
Windows(n) == {w \in [id : Nat, leaves : Seq(1 .. n - 1)] : w.leaves # <<>>}
DaemonOK(d, n) == DOMAIN d \subseteq Nat /\ d \in [DOMAIN d -> Seq(Windows(n))]
Lives(d)       == UNION {PanesOf(d, s) : s \in DOMAIN d}

\* A stream that ended after some frames is the one of a pane that is gone.
SlotSet(n) == {Nil} \cup [pane : 1 .. n - 1, ev : {"open", "eof0", "eofN", "mute"}]
SlotsOK(ss, d, n) ==
  /\ ss \in Seq(SlotSet(n))
  /\ \A k \in 1 .. Len(ss) : ss[k] # Nil /\ ss[k].ev = "eofN" => ss[k].pane \notin Lives(d)

ClosingOK(c, as, d, n) == c \subseteq 1 .. n - 1 /\ c \cap Lives(d) \subseteq as

TabSet == {t \in [root : Seq(Nat), focus : Nat, zoomed : Nat \cup {Nil}, win : Nat \cup {Nil}] :
             Contains(t.root, t.focus)}
SessionSet == {x \in [id : Nat, tabs : Seq(TabSet), at : Nat] : x.at \in 1 .. Len(x.tabs)}

ListOK(l) == l \in Seq(ToSet(l)) /\ \A k \in 1 .. Len(l) : l[k].id \in Nat

Idle == {"start", "attach", "end"}

PanesInv ==
  /\ next \in Nat \ {0} /\ DaemonOK(daemon, next)
  /\ SlotsOK(slots, daemon, next) /\ ClosingOK(closing, asked, daemon, next)
SessionsInv ==
  /\ sessions \in Seq(SessionSet) /\ active \in Nat
  /\ pc \notin Idle => active \in 1 .. Len(sessions)
ListInv ==
  /\ turn \in Nat \ {0} /\ ListOK(listed) /\ found \subseteq 1 .. next - 1
  /\ pc = "layout" => turn <= Len(listed) /\ \E i \in 1 .. Len(sessions) : sessions[i].id = listed[turn].id
ViewInv == PanesInv /\ SessionsInv /\ ListInv

-----------------------------------------------------------------------------
(* Sequences and choices *)

\* What is picked of a sequence are elements at the positions asked for.
LEMMA PickedSeq ==
  ASSUME NEW S, NEW s \in Seq(S), NEW T
  PROVE  Picked(s, T) \in Seq({s[i] : i \in T \cap (1 .. Len(s))})
<1> DEFINE N == Len(s)
           R == {s[i] : i \in T \cap (1 .. Len(s))}
           Step(g, n) == IF n = 0 THEN <<>> ELSE IF n \in T THEN Append(g[n - 1], s[n]) ELSE g[n - 1]
           Upto(n) == \E g : g = [i \in 0 .. n |-> Step(g, i)]
           F == CHOOSE g : g = [i \in 0 .. N |-> Step(g, i)]
<1>0. N \in Nat
  OBVIOUS
<1>1. Picked(s, T) = F[N]
  BY DEF Picked
<1> HIDE DEF Step
<1>2. Upto(0)
  <2>1. [i \in 0 .. 0 |-> <<>>] = [i \in 0 .. 0 |-> Step([j \in 0 .. 0 |-> <<>>], i)]
    BY DEF Step
  <2> QED BY <2>1
<1>3. ASSUME NEW m \in Nat, m # 0, Upto(m - 1) PROVE Upto(m)
  <2>1. PICK g : g = [i \in 0 .. m - 1 |-> Step(g, i)]
    BY <1>3
  <2>0. \A i \in 0 .. m - 1 : g[i] = Step(g, i)
    BY <2>1
  <2> DEFINE h == [i \in 0 .. m |-> IF i < m THEN g[i] ELSE Step(g, m)]
  <2>2. \A i \in 0 .. m : h[i] = Step(h, i)
    <3>1. ASSUME NEW i \in 0 .. m PROVE h[i] = Step(h, i)
      <4>1. CASE i = 0
        <5>1. h[i] = g[i] /\ i \in 0 .. m - 1
          BY <1>3, <4>1
        <5>2. g[i] = Step(g, i)
          BY <2>0, <5>1
        <5> QED BY <4>1, <5>1, <5>2 DEF Step
      <4>2. CASE i # 0 /\ i < m
        <5>1. h[i] = g[i] /\ h[i - 1] = g[i - 1]
          BY <4>2
        <5>2. g[i] = Step(g, i)
          BY <2>0, <4>2
        <5> QED BY <4>2, <5>1, <5>2 DEF Step
      <4>3. CASE i = m
        <5>1. h[i] = Step(g, m) /\ h[i - 1] = g[i - 1]
          BY <1>3, <4>3
        <5> QED BY <1>3, <4>3, <5>1 DEF Step
      <4> QED BY <4>1, <4>2, <4>3
    <3> QED BY <3>1
  <2>3. h = [i \in 0 .. m |-> Step(h, i)]
    <3> DEFINE h2 == [i \in 0 .. m |-> Step(h, i)]
    <3>1. \A i \in 0 .. m : h2[i] = h[i]
      BY <2>2
    <3> QED BY <3>1
  <2> QED BY <2>3
<1> HIDE DEF Upto
<1>4. \A n \in Nat : Upto(n)
  <2>1. SUFFICES ASSUME {n \in Nat : ~Upto(n)} # {} PROVE FALSE
    OBVIOUS
  <2>2. PICK m \in Nat : ~Upto(m) /\ \A n \in Nat : ~Upto(n) => m <= n
    <3>1. PICK m \in {n \in Nat : ~Upto(n)} : \A k \in {n \in Nat : ~Upto(n)} : m <= k
      BY <2>1, LeastNumber
    <3> QED BY <3>1
  <2>3. m # 0 /\ m - 1 \in Nat /\ ~(m <= m - 1)
    BY <1>2, <2>2
  <2> QED BY <1>3, <2>2, <2>3
<1>5. F = [i \in 0 .. N |-> Step(F, i)]
  <2>1. \E g : g = [i \in 0 .. N |-> Step(g, i)]
    BY <1>0, <1>4 DEF Upto
  <2> QED BY <2>1
<1> HIDE DEF F
<1>6. ASSUME NEW n \in 0 .. N PROVE F[n] \in Seq(R)
  <2> DEFINE B == {k \in 0 .. N : F[k] \notin Seq(R)}
  <2>1. SUFFICES ASSUME B # {} PROVE FALSE
    OBVIOUS
  <2>a. B \subseteq Nat
    BY <1>0
  <2>2. PICK m \in B : \A k \in B : m <= k
    BY <2>1, <2>a, LeastNumber
  <2>3. F[m] = Step(F, m) /\ m \in 0 .. N
    BY <1>5, <2>2
  <2>4. <<>> \in Seq(R)
    OBVIOUS
  <2>5. m # 0
    BY <2>2, <2>3, <2>4 DEF Step
  <2>6. m - 1 \in 0 .. N /\ ~(m <= m - 1)
    BY <1>0, <2>3, <2>5
  <2>7. F[m - 1] \in Seq(R)
    BY <2>2, <2>6
  <2>8. m \in T => s[m] \in R
    BY <1>0, <2>3, <2>5
  <2>9. F[m] \in Seq(R)
    BY <2>3, <2>5, <2>7, <2>8 DEF Step
  <2> QED BY <2>2, <2>9
<1> QED BY <1>0, <1>1, <1>6

LEMMA RemoveAtSeq ==
  ASSUME NEW S, NEW s \in Seq(S), NEW i \in 1 .. Len(s)
  PROVE  RemoveAt(s, i) \in Seq(S) /\ Len(RemoveAt(s, i)) = Len(s) - 1
<1>1. Len(s) \in Nat /\ i \in Nat /\ 1 <= i /\ i <= Len(s)
  OBVIOUS
<1> DEFINE a == SubSeq(s, 1, i - 1)
           b == SubSeq(s, i + 1, Len(s))
<1>2. a \in Seq(S) /\ Len(a) = i - 1
  BY <1>1, SubSeqProperties
<1>3. b \in Seq(S) /\ Len(b) = Len(s) - i
  BY <1>1, SubSeqProperties
<1> HIDE DEF a, b
<1>4. a \o b \in Seq(S) /\ Len(a \o b) = Len(s) - 1
  BY <1>1, <1>2, <1>3, ConcatProperties
<1>5. RemoveAt(s, i) = a \o b
  BY DEF RemoveAt, a, b
<1> QED BY <1>4, <1>5

LEMMA InsertAtSeq ==
  ASSUME NEW S, NEW s \in Seq(S), NEW i \in 1 .. Len(s) + 1, NEW e \in S
  PROVE  /\ InsertAt(s, i, e) \in Seq(S) /\ Len(InsertAt(s, i, e)) = Len(s) + 1
         /\ InsertAt(s, i, e)[i] = e
<1>1. Len(s) \in Nat /\ i \in Nat /\ 1 <= i /\ i <= Len(s) + 1
  OBVIOUS
<1> DEFINE a == SubSeq(s, 1, i - 1)
           b == SubSeq(s, i, Len(s))
<1>2. a \in Seq(S) /\ Len(a) = i - 1
  BY <1>1, SubSeqProperties
<1>3. b \in Seq(S) /\ Len(b) = Len(s) - i + 1
  BY <1>1, SubSeqProperties
<1>4. <<e>> \in Seq(S) /\ Len(<<e>>) = 1 /\ <<e>>[1] = e
  OBVIOUS
<1> HIDE DEF a, b
<1>5. a \o <<e>> \in Seq(S) /\ Len(a \o <<e>>) = i /\ (a \o <<e>>)[i] = e
  BY <1>1, <1>2, <1>4, ConcatProperties
<1> DEFINE c == a \o <<e>>
<1> HIDE DEF c
<1>6. c \in Seq(S) /\ Len(c) = i /\ c[i] = e
  BY <1>5 DEF c
<1>7. c \o b \in Seq(S) /\ Len(c \o b) = Len(s) + 1 /\ (c \o b)[i] = e
  BY <1>1, <1>3, <1>6, ConcatProperties
<1>8. InsertAt(s, i, e) = c \o b
  BY DEF InsertAt, a, b, c
<1> QED BY <1>7, <1>8

LEMMA SetAt ==
  ASSUME NEW S, NEW s \in Seq(S), NEW i, NEW e \in S
  PROVE  [s EXCEPT ![i] = e] \in Seq(S) /\ Len([s EXCEPT ![i] = e]) = Len(s)
<1>1. s \in [1 .. Len(s) -> S] /\ Len(s) \in Nat /\ DOMAIN s = 1 .. Len(s)
  OBVIOUS
<1> DEFINE f == [s EXCEPT ![i] = e]
<1>2. f \in [1 .. Len(s) -> S]
  BY <1>1
<1>3. f \in Seq(S)
  BY <1>1, <1>2, SeqDef
<1> HIDE DEF f
<1>4. f \in Seq(S) /\ Len(f) = Len(s)
  BY <1>1, <1>2, <1>3
<1> QED BY <1>4 DEF f

LEMMA SeqBy ==
  ASSUME NEW S, NEW f, NEW n \in Nat, f \in [1 .. n -> S]
  PROVE  f \in Seq(S) /\ Len(f) = n
<1>1. f \in Seq(S)
  BY SeqDef
<1> QED BY <1>1

LEMMA NonEmpty ==
  ASSUME NEW S, NEW s \in Seq(S)
  PROVE  Len(s) \in Nat /\ (s = <<>> <=> Len(s) = 0) /\ DOMAIN s = 1 .. Len(s)
OBVIOUS

LEMMA SeqSub ==
  ASSUME NEW A, NEW B, A \subseteq B, NEW s \in Seq(A)
  PROVE  s \in Seq(B) /\ ToSet(s) \subseteq A /\ DOMAIN s = 1 .. Len(s) /\ Len(s) \in Nat
<1>1. s \in [1 .. Len(s) -> A] /\ Len(s) \in Nat
  OBVIOUS
<1>2. s \in [1 .. Len(s) -> B]
  BY <1>1
<1>3. s \in Seq(B)
  BY <1>1, <1>2, SeqDef
<1> QED BY <1>1, <1>3 DEF ToSet

LEMMA AscendingSeq ==
  ASSUME NEW T, NEW n \in Nat
  PROVE  Ascending(T, n) \in Seq(T \cap (1 .. n))
<1> DEFINE f == [k \in 1 .. n |-> k]
<1>1. f \in Seq(1 .. n) /\ Len(f) = n
  BY SeqBy
<1>2. {f[i] : i \in T \cap (1 .. n)} = T \cap (1 .. n)
  OBVIOUS
<1> HIDE DEF f
<1>3. Picked(f, T) \in Seq(T \cap (1 .. n))
  BY <1>1, <1>2, PickedSeq
<1> QED BY <1>3 DEF Ascending, f

LEMMA GreatestNumber ==
  ASSUME NEW T, T \subseteq Nat, T # {}, NEW b \in Nat, \A x \in T : x <= b
  PROVE  \E n \in T : \A m \in T : m <= n
<1> DEFINE U == {b - x : x \in T}
<1>1. U \subseteq Nat /\ U # {}
  <2>1. ASSUME NEW x \in T PROVE b - x \in Nat
    BY <2>1
  <2>2. PICK x : x \in T
    OBVIOUS
  <2> QED BY <2>1, <2>2
<1>2. PICK u \in U : \A m \in U : u <= m
  BY <1>1, LeastNumber
<1>3. PICK x \in T : u = b - x
  BY <1>2
<1>4. ASSUME NEW m \in T PROVE m <= x
  <2>1. b - m \in U
    BY <1>4
  <2>2. b - x <= b - m
    BY <1>2, <1>3, <2>1
  <2> QED BY <1>3, <1>4, <2>2
<1> QED BY <1>4

\* The first and the last of a set of pairs.
LEMMA FirstPair ==
  ASSUME NEW P, P \subseteq Nat \X Nat, P # {}
  PROVE  \E x \in P : \A y \in P : x[1] < y[1] \/ (x[1] = y[1] /\ x[2] <= y[2])
<1> DEFINE A == {x[1] : x \in P}
<1>1. PICK a \in A : \A m \in A : a <= m
  <2>1. A \subseteq Nat /\ A # {}
    OBVIOUS
  <2> QED BY <2>1, LeastNumber
<1> DEFINE B == {x[2] : x \in {y \in P : y[1] = a}}
<1>2. PICK b \in B : \A m \in B : b <= m
  <2>1. B \subseteq Nat /\ B # {}
    BY <1>1
  <2> QED BY <2>1, LeastNumber
<1>3. PICK x \in P : x[1] = a /\ x[2] = b
  BY <1>2
<1>4. ASSUME NEW y \in P PROVE x[1] < y[1] \/ (x[1] = y[1] /\ x[2] <= y[2])
  <2>1. y[1] \in Nat /\ y[2] \in Nat /\ x[1] \in Nat /\ x[2] \in Nat
    BY <1>3, <1>4
  <2>2. a <= y[1]
    BY <1>1, <1>4
  <2>3. y[1] = a => b <= y[2]
    BY <1>2, <1>4
  <2> QED BY <1>3, <2>1, <2>2, <2>3
<1> QED BY <1>3, <1>4

LEMMA LastPair ==
  ASSUME NEW m \in Nat, NEW n \in Nat, NEW P, P \subseteq (1 .. m) \X (1 .. n), P # {}
  PROVE  \E x \in P : \A y \in P : y[1] < x[1] \/ (y[1] = x[1] /\ y[2] <= x[2])
<1> DEFINE A == {x[1] : x \in P}
<1>1. PICK a \in A : \A k \in A : k <= a
  <2>1. A \subseteq Nat /\ A # {} /\ \A k \in A : k <= m
    OBVIOUS
  <2> QED BY <2>1, GreatestNumber
<1> DEFINE B == {x[2] : x \in {y \in P : y[1] = a}}
<1>2. PICK b \in B : \A k \in B : k <= b
  <2>1. B \subseteq Nat /\ B # {} /\ \A k \in B : k <= n
    BY <1>1
  <2> QED BY <2>1, GreatestNumber
<1>3. PICK x \in P : x[1] = a /\ x[2] = b
  BY <1>2
<1>4. ASSUME NEW y \in P PROVE y[1] < x[1] \/ (y[1] = x[1] /\ y[2] <= x[2])
  <2>1. y[1] \in Nat /\ y[2] \in Nat /\ x[1] \in Nat /\ x[2] \in Nat
    BY <1>3, <1>4
  <2>2. y[1] <= a
    BY <1>1, <1>4
  <2>3. y[1] = a => y[2] <= b
    BY <1>2, <1>4
  <2> QED BY <1>3, <2>1, <2>2, <2>3
<1> QED BY <1>3, <1>4

-----------------------------------------------------------------------------
(* The daemon's panes *)

LEMMA AliveLives ==
  ASSUME NEW p
  PROVE  Alive(p) <=> p \in Lives(daemon)
BY DEF Alive, Lives

LEMMA PanesOfLives ==
  ASSUME NEW d, NEW s
  PROVE  PanesOf(d, s) \subseteq Lives(d)
BY DEF PanesOf, Lives

\* A pane lives when it is a leaf of a window.
LEMMA LivesIn ==
  ASSUME NEW d, NEW p
  PROVE  p \in Lives(d) <=> \E s \in DOMAIN d : \E j \in DOMAIN d[s] : p \in ToSet(d[s][j].leaves)
BY DEF Lives, PanesOf

LEMMA WindowFacts ==
  ASSUME NEW d, NEW n \in Nat, DaemonOK(d, n), NEW s \in DOMAIN d
  PROVE  /\ d[s] \in Seq(Windows(n)) /\ Len(d[s]) \in Nat /\ DOMAIN d[s] = 1 .. Len(d[s])
         /\ \A j \in 1 .. Len(d[s]) :
              /\ d[s][j] \in Windows(n) /\ d[s][j].leaves \in Seq(1 .. n - 1) /\ d[s][j].leaves # <<>>
              /\ d[s][j].id \in Nat
              /\ DOMAIN d[s][j].leaves = 1 .. Len(d[s][j].leaves) /\ Len(d[s][j].leaves) \in Nat
              /\ ToSet(d[s][j].leaves) \subseteq 1 .. n - 1
<1>1. d[s] \in Seq(Windows(n))
  BY DEF DaemonOK
<1>2. Len(d[s]) \in Nat /\ DOMAIN d[s] = 1 .. Len(d[s])
  BY <1>1
<1>3. ASSUME NEW j \in 1 .. Len(d[s])
      PROVE  /\ d[s][j] \in Windows(n) /\ d[s][j].leaves \in Seq(1 .. n - 1) /\ d[s][j].leaves # <<>>
             /\ d[s][j].id \in Nat
             /\ DOMAIN d[s][j].leaves = 1 .. Len(d[s][j].leaves) /\ Len(d[s][j].leaves) \in Nat
             /\ ToSet(d[s][j].leaves) \subseteq 1 .. n - 1
  <2>1. d[s][j] \in Windows(n)
    BY <1>1, <1>3
  <2>2. d[s][j].leaves \in Seq(1 .. n - 1) /\ d[s][j].leaves # <<>> /\ d[s][j].id \in Nat
    BY <2>1 DEF Windows
  <2> DEFINE l == d[s][j].leaves
  <2> HIDE DEF l
  <2>3. l \in Seq(1 .. n - 1)
    BY <2>2 DEF l
  <2>4. DOMAIN l = 1 .. Len(l) /\ Len(l) \in Nat /\ ToSet(l) \subseteq 1 .. n - 1
    BY <2>3 DEF ToSet
  <2> QED BY <2>1, <2>2, <2>4 DEF l
<1> QED BY <1>1, <1>2, <1>3

LEMMA LivesBelow ==
  ASSUME NEW d, NEW n \in Nat, DaemonOK(d, n)
  PROVE  Lives(d) \subseteq 1 .. n - 1
<1>1. ASSUME NEW p \in Lives(d) PROVE p \in 1 .. n - 1
  <2>1. PICK s \in DOMAIN d : \E j \in DOMAIN d[s] : p \in ToSet(d[s][j].leaves)
    BY <1>1, LivesIn
  <2> QED BY <2>1, WindowFacts
<1> QED BY <1>1

\* The next identifier may grow.
LEMMA WindowsGrow ==
  ASSUME NEW n \in Nat, NEW w \in Windows(n)
  PROVE  w \in Windows(n + 1)
<1>1. 1 .. n - 1 \subseteq 1 .. (n + 1) - 1
  OBVIOUS
<1>2. w.leaves \in Seq(1 .. (n + 1) - 1)
  <2>1. w.leaves \in Seq(1 .. n - 1)
    BY DEF Windows
  <2> QED BY <1>1, <2>1
<1> QED BY <1>2 DEF Windows

\* A daemon with more panes: one of them is new.
LEMMA DaemonGrows ==
  ASSUME NEW d, NEW n \in Nat, DaemonOK(d, n), NEW e, e = [s \in DOMAIN e |-> e[s]], DOMAIN e \subseteq Nat,
         \A s \in DOMAIN e : e[s] \in Seq(Windows(n + 1)),
         \A s \in DOMAIN e : \A j \in DOMAIN e[s] : ToSet(e[s][j].leaves) \subseteq Lives(d) \cup {n}
  PROVE  DaemonOK(e, n + 1) /\ Lives(e) \subseteq Lives(d) \cup {n}
<1>1. e \in [DOMAIN e -> Seq(Windows(n + 1))]
  OBVIOUS
<1> QED BY <1>1, LivesIn DEF DaemonOK

LEMMA WindowIn ==
  ASSUME NEW n \in Nat \ {0}
  PROVE  Window(n) \in Windows(n + 1) /\ ToSet(Window(n).leaves) = {n}
<1>1. <<n>> \in Seq(1 .. (n + 1) - 1) /\ <<n>> # <<>> /\ ToSet(<<n>>) = {n}
  BY DEF ToSet
<1> QED BY <1>1 DEF Window, Windows

\* A session spawned.
LEMMA SpawnGrows ==
  ASSUME NEW d, NEW n \in Nat \ {0}, DaemonOK(d, n)
  PROVE  LET e == [s \in DOMAIN d \cup {n} |-> IF s = n THEN <<Window(n)>> ELSE d[s]]
         IN  DaemonOK(e, n + 1) /\ Lives(e) \subseteq Lives(d) \cup {n}
<1> DEFINE e == [s \in DOMAIN d \cup {n} |-> IF s = n THEN <<Window(n)>> ELSE d[s]]
<1>0. \A s \in DOMAIN e : e[s] = IF s = n THEN <<Window(n)>> ELSE d[s]
  OBVIOUS
<1>1. DOMAIN e = DOMAIN d \cup {n} /\ DOMAIN e \subseteq Nat /\ e = [s \in DOMAIN e |-> e[s]]
  BY DEF DaemonOK
<1> HIDE DEF e
<1>2. ASSUME NEW s \in DOMAIN e
      PROVE  e[s] \in Seq(Windows(n + 1)) /\ \A j \in DOMAIN e[s] : ToSet(e[s][j].leaves) \subseteq Lives(d) \cup {n}
  <2>1. CASE s = n
    <3>1. e[s] = <<Window(n)>>
      BY <1>0, <1>1, <2>1
    <3>2. e[s] \in Seq(Windows(n + 1)) /\ DOMAIN e[s] = {1} /\ e[s][1] = Window(n)
      <4>1. Window(n) \in Windows(n + 1)
        BY WindowIn
      <4>2. /\ <<Window(n)>> \in Seq(Windows(n + 1)) /\ DOMAIN <<Window(n)>> = {1}
            /\ <<Window(n)>>[1] = Window(n)
        BY <4>1
      <4> QED BY <3>1, <4>2
    <3> QED BY <3>2, WindowIn
  <2>2. CASE s # n
    <3>1. e[s] = d[s] /\ s \in DOMAIN d
      BY <1>0, <1>1, <2>2
    <3>2. d[s] \in Seq(Windows(n + 1))
      <4>1. d[s] \in [1 .. Len(d[s]) -> Windows(n + 1)] /\ Len(d[s]) \in Nat
        BY <3>1, WindowFacts, WindowsGrow
      <4> QED BY <4>1, SeqBy
    <3>3. \A j \in DOMAIN d[s] : ToSet(d[s][j].leaves) \subseteq Lives(d)
      BY <3>1, LivesIn
    <3> QED BY <3>1, <3>2, <3>3
  <2> QED BY <2>1, <2>2
<1>3. DaemonOK(e, n + 1) /\ Lives(e) \subseteq Lives(d) \cup {n}
  BY <1>1, <1>2, DaemonGrows
<1> QED BY <1>3 DEF e

\* One session has other windows.
LEMMA SessionGrows ==
  ASSUME NEW d, NEW n \in Nat, DaemonOK(d, n), NEW t \in DOMAIN d, NEW ws,
         ws \in Seq(Windows(n + 1)), \A j \in DOMAIN ws : ToSet(ws[j].leaves) \subseteq Lives(d) \cup {n}
  PROVE  DaemonOK([d EXCEPT ![t] = ws], n + 1) /\ Lives([d EXCEPT ![t] = ws]) \subseteq Lives(d) \cup {n}
<1> DEFINE e == [d EXCEPT ![t] = ws]
<1>1. DOMAIN e = DOMAIN d /\ DOMAIN e \subseteq Nat /\ e = [s \in DOMAIN e |-> e[s]]
  BY DEF DaemonOK
<1>2. \A s \in DOMAIN d : e[s] = IF s = t THEN ws ELSE d[s]
  BY DEF DaemonOK
<1> HIDE DEF e
<1>3. ASSUME NEW s \in DOMAIN e
      PROVE  e[s] \in Seq(Windows(n + 1)) /\ \A j \in DOMAIN e[s] : ToSet(e[s][j].leaves) \subseteq Lives(d) \cup {n}
  <2>1. CASE s = t
    BY <1>1, <1>2, <2>1
  <2>2. CASE s # t
    <3>1. e[s] = d[s] /\ s \in DOMAIN d
      BY <1>1, <1>2, <2>2
    <3>2. d[s] \in Seq(Windows(n + 1))
      <4>1. d[s] \in [1 .. Len(d[s]) -> Windows(n + 1)] /\ Len(d[s]) \in Nat
        BY <3>1, WindowFacts, WindowsGrow
      <4> QED BY <4>1, SeqBy
    <3>3. \A j \in DOMAIN d[s] : ToSet(d[s][j].leaves) \subseteq Lives(d)
      BY <3>1, LivesIn
    <3> QED BY <3>1, <3>2, <3>3
  <2> QED BY <2>1, <2>2
<1>4. DaemonOK(e, n + 1) /\ Lives(e) \subseteq Lives(d) \cup {n}
  BY <1>1, <1>3, DaemonGrows
<1> QED BY <1>4 DEF e

\* A leaf that was split, and the one that was not.
LEMMA SplitLeaves ==
  ASSUME NEW n \in Nat \ {0}, NEW w \in Windows(n), NEW p
  PROVE  LET x == [w EXCEPT !.leaves = SplitLeaf(@, p, n)]
         IN  x \in Windows(n + 1) /\ ToSet(x.leaves) \subseteq ToSet(w.leaves) \cup {n}
<1> DEFINE l == w.leaves
           m == SplitLeaf(l, p, n)
<1>1. l \in Seq(1 .. n - 1) /\ l # <<>> /\ w.id \in Nat /\ DOMAIN w = {"id", "leaves"}
      /\ w = [id |-> w.id, leaves |-> w.leaves]
  BY DEF Windows
<1>2. l \in Seq(ToSet(l)) /\ DOMAIN l = 1 .. Len(l) /\ Len(l) \in Nat
  BY <1>1, SeqOfItsOwn
<1>3. m \in Seq(ToSet(l) \cup {n}) /\ m # <<>>
  <2>1. CASE ~Contains(l, p)
    <3>1. m = l
      BY <2>1 DEF SplitLeaf
    <3> QED BY <1>1, <1>2, <3>1
  <2>2. CASE Contains(l, p)
    <3> DEFINE k == CHOOSE k \in DOMAIN l : l[k] = p
    <3>1. k \in 1 .. Len(l)
      BY <1>2, <2>2 DEF Contains
    <3>2. m = InsertAt(l, k + 1, n)
      BY <2>2 DEF SplitLeaf, InsertAfter
    <3> HIDE DEF k, l, m
    <3>3. l \in Seq(ToSet(l) \cup {n})
      BY <1>2
    <3>4. k + 1 \in 1 .. Len(l) + 1 /\ Len(l) \in Nat
      BY <1>2, <3>1
    <3>5. InsertAt(l, k + 1, n) \in Seq(ToSet(l) \cup {n}) /\ Len(InsertAt(l, k + 1, n)) = Len(l) + 1
      BY <3>3, <3>4, InsertAtSeq
    <3> QED BY <3>2, <3>4, <3>5
  <2> QED BY <2>1, <2>2
<1> HIDE DEF m
<1>4. ToSet(l) \subseteq 1 .. n - 1
  BY <1>1 DEF ToSet
<1> HIDE DEF l
<1>5. ToSet(l) \cup {n} \subseteq 1 .. (n + 1) - 1
  BY <1>4
<1>6. m \in Seq(1 .. (n + 1) - 1) /\ ToSet(m) \subseteq ToSet(l) \cup {n}
  BY <1>3, <1>5, SeqSub
<1> DEFINE x == [w EXCEPT !.leaves = SplitLeaf(@, p, n)]
<1>7. x = [id |-> w.id, leaves |-> m]
  BY <1>1 DEF l, m
<1> HIDE DEF x
<1>8. x \in Windows(n + 1) /\ x.leaves = m
  BY <1>1, <1>3, <1>6, <1>7 DEF Windows
<1>9. x \in Windows(n + 1) /\ ToSet(x.leaves) \subseteq ToSet(w.leaves) \cup {n}
  BY <1>6, <1>8 DEF l
<1> QED BY <1>9 DEF x

\* The shell of a pane ends: it lives no more, and no other pane is new.
LEMMA WithoutPane ==
  ASSUME NEW d, NEW n \in Nat, DaemonOK(d, n), NEW p
  PROVE  DaemonOK(Without(d, p), n) /\ Lives(Without(d, p)) \subseteq Lives(d) \ {p}
<1> DEFINE e == Without(d, p)
           Rest(s) == [j \in DOMAIN d[s] |-> [d[s][j] EXCEPT !.leaves = Picked(@, {k \in DOMAIN @ : @[k] # p})]]
<1>1. /\ DOMAIN e = DOMAIN d
      /\ \A s \in DOMAIN d : e[s] = Picked(Rest(s), {j \in DOMAIN Rest(s) : Rest(s)[j].leaves # <<>>})
      /\ e = [s \in DOMAIN e |-> e[s]]
  BY DEF Without
<1> HIDE DEF e
<1>2. ASSUME NEW s \in DOMAIN d
      PROVE  e[s] \in Seq({w \in Windows(n) : ToSet(w.leaves) \subseteq Lives(d) \ {p}})
  <2> DEFINE r == Rest(s)
             W == {w \in [id : Nat, leaves : Seq(1 .. n - 1)] : ToSet(w.leaves) \subseteq Lives(d) \ {p}}
  <2>1. Len(d[s]) \in Nat /\ DOMAIN d[s] = 1 .. Len(d[s])
    BY <1>2, WindowFacts
  <2>2. ASSUME NEW j \in DOMAIN d[s] PROVE r[j] \in W
    <3> DEFINE w == d[s][j]
               l == w.leaves
               m == Picked(l, {k \in DOMAIN l : l[k] # p})
    <3>1. w \in Windows(n) /\ l \in Seq(1 .. n - 1) /\ w.id \in Nat /\ DOMAIN l = 1 .. Len(l)
      BY <1>2, <2>1, <2>2, WindowFacts
    <3>2. ToSet(l) \subseteq Lives(d)
      BY <1>2, <2>2, LivesIn
    <3>3. r[j] = [w EXCEPT !.leaves = m]
      BY <2>2
    <3>4. w = [id |-> w.id, leaves |-> w.leaves]
      BY <3>1 DEF Windows
    <3>5. m \in Seq({l[i] : i \in {k \in DOMAIN l : l[k] # p} \cap (1 .. Len(l))})
      BY <3>1, PickedSeq
    <3> DEFINE E == {l[i] : i \in {k \in DOMAIN l : l[k] # p} \cap (1 .. Len(l))}
    <3>6. E \subseteq Lives(d) \ {p} /\ E \subseteq 1 .. n - 1
      BY <3>1, <3>2 DEF ToSet
    <3> HIDE DEF m, l, w, E
    <3>7. m \in Seq(E)
      BY <3>5 DEF E
    <3>8. m \in Seq(1 .. n - 1) /\ ToSet(m) \subseteq Lives(d) \ {p}
      <4>1. m \in Seq(1 .. n - 1) /\ ToSet(m) \subseteq E
        BY <3>6, <3>7, SeqSub
      <4> QED BY <3>6, <4>1
    <3>9. r[j] = [id |-> w.id, leaves |-> m]
      BY <3>3, <3>4
    <3> HIDE DEF r
    <3> QED BY <3>1, <3>8, <3>9
  <2>3. DOMAIN r = 1 .. Len(d[s])
    BY <2>1
  <2>4. r = [j \in 1 .. Len(d[s]) |-> r[j]]
    BY <2>1
  <2>5. e[s] = Picked(r, {j \in DOMAIN r : r[j].leaves # <<>>})
    BY <1>1, <1>2
  <2> HIDE DEF r
  <2>6. r \in Seq(W) /\ Len(r) = Len(d[s])
    <3>1. r \in [1 .. Len(d[s]) -> W]
      BY <2>1, <2>2, <2>4
    <3> QED BY <2>1, <3>1, SeqBy
  <2> DEFINE T == {j \in DOMAIN r : r[j].leaves # <<>>}
             V == {w \in Windows(n) : ToSet(w.leaves) \subseteq Lives(d) \ {p}}
  <2>7. \A w \in W : w.leaves # <<>> => w \in V
    BY DEF Windows
  <2>8. {r[i] : i \in T \cap (1 .. Len(r))} \subseteq V
    <3>1. ASSUME NEW i \in T \cap (1 .. Len(r)) PROVE r[i] \in V
      <4>1. r[i] \in W /\ r[i].leaves # <<>>
        BY <2>6, <3>1
      <4> HIDE DEF W, V
      <4> QED BY <2>7, <4>1
    <3> QED BY <3>1
  <2> HIDE DEF T, V, W
  <2>9. Picked(r, T) \in Seq({r[i] : i \in T \cap (1 .. Len(r))})
    BY <2>6, PickedSeq
  <2>10. Picked(r, T) \in Seq(V)
    BY <2>8, <2>9
  <2> QED BY <2>5, <2>10 DEF T, V
<1>3. ASSUME NEW s \in DOMAIN d
      PROVE  e[s] \in Seq(Windows(n)) /\ \A j \in DOMAIN e[s] : ToSet(e[s][j].leaves) \subseteq Lives(d) \ {p}
  <2> DEFINE V == {w \in Windows(n) : ToSet(w.leaves) \subseteq Lives(d) \ {p}}
  <2>1. e[s] \in Seq(V)
    BY <1>2, <1>3
  <2>2. V \subseteq Windows(n) /\ \A w \in V : ToSet(w.leaves) \subseteq Lives(d) \ {p}
    OBVIOUS
  <2> HIDE DEF V
  <2>3. e[s] \in Seq(Windows(n)) /\ \A j \in DOMAIN e[s] : e[s][j] \in V
    BY <2>1, <2>2, SeqSub DEF ToSet
  <2> QED BY <2>2, <2>3
<1>4. e \in [DOMAIN e -> Seq(Windows(n))]
  BY <1>1, <1>3
<1>5. DaemonOK(e, n)
  BY <1>1, <1>4 DEF DaemonOK
<1>6. Lives(e) \subseteq Lives(d) \ {p}
  BY <1>1, <1>3, LivesIn
<1> QED BY <1>5, <1>6 DEF e

-----------------------------------------------------------------------------
(* Slots and RPCs while the daemon changes *)

LEMMA SlotsLater ==
  ASSUME NEW n \in Nat, NEW m \in {n, n + 1}, NEW d, NEW e, Lives(e) \subseteq Lives(d) \cup {n},
         NEW ss, SlotsOK(ss, d, n)
  PROVE  SlotsOK(ss, e, m)
<1>1. SlotSet(n) \subseteq SlotSet(m)
  BY DEF SlotSet
<1>2. ss \in Seq(SlotSet(n)) /\ Len(ss) \in Nat
  BY DEF SlotsOK
<1>3. ss \in Seq(SlotSet(m))
  BY <1>1, <1>2
<1>4. ASSUME NEW k \in 1 .. Len(ss), ss[k] # Nil, ss[k].ev = "eofN" PROVE ss[k].pane \notin Lives(e)
  <2>1. ss[k] \in SlotSet(n)
    BY <1>2, <1>4
  <2>2. ss[k].pane \in 1 .. n - 1
    BY <1>4, <2>1 DEF SlotSet
  <2>3. ss[k].pane \notin Lives(d)
    BY <1>4 DEF SlotsOK
  <2> QED BY <2>2, <2>3
<1> QED BY <1>3, <1>4 DEF SlotsOK

LEMMA ClosingLater ==
  ASSUME NEW n \in Nat, NEW m \in {n, n + 1}, NEW d, NEW e, Lives(e) \subseteq Lives(d) \cup {n},
         NEW c, NEW as, ClosingOK(c, as, d, n)
  PROVE  ClosingOK(c, as, e, m)
<1>1. c \subseteq 1 .. n - 1 /\ c \cap Lives(d) \subseteq as
  BY DEF ClosingOK
<1>2. c \subseteq 1 .. m - 1
  BY <1>1
<1>3. n \notin c
  BY <1>1
<1>4. c \cap Lives(e) \subseteq as
  BY <1>1, <1>3
<1> QED BY <1>2, <1>4 DEF ClosingOK

Events == {"open", "eof0", "eofN", "mute"}

LEMMA SlotFacts ==
  ASSUME NEW n \in Nat, NEW d, NEW ss, SlotsOK(ss, d, n)
  PROVE  /\ DOMAIN ss = 1 .. Len(ss) /\ Len(ss) \in Nat
         /\ \A k \in 1 .. Len(ss) :
              /\ ss[k] \in SlotSet(n)
              /\ ss[k] # Nil => /\ ss[k].pane \in 1 .. n - 1 /\ ss[k].ev \in Events
                                /\ ss[k].ev = "eofN" => ss[k].pane \notin Lives(d)
<1>1. ss \in Seq(SlotSet(n))
  BY DEF SlotsOK
<1>2. ASSUME NEW k \in 1 .. Len(ss)
      PROVE  /\ ss[k] \in SlotSet(n)
             /\ ss[k] # Nil => /\ ss[k].pane \in 1 .. n - 1 /\ ss[k].ev \in Events
                               /\ ss[k].ev = "eofN" => ss[k].pane \notin Lives(d)
  <2>1. ss[k] \in SlotSet(n)
    BY <1>1, <1>2
  <2> QED BY <2>1, <1>2 DEF SlotSet, SlotsOK, Events
<1> QED BY <1>1, <1>2

LEMMA SlotIn ==
  ASSUME NEW n \in Nat, NEW p \in 1 .. n - 1, NEW ev \in Events
  PROVE  Slot(p, ev) \in SlotSet(n) /\ Slot(p, ev).pane = p /\ Slot(p, ev).ev = ev
BY DEF Slot, SlotSet, Events

LEMMA SlotsMap ==
  ASSUME NEW n \in Nat, NEW e, NEW m \in Nat, NEW f, f = [k \in 1 .. m |-> f[k]],
         \A k \in 1 .. m : f[k] \in SlotSet(n) /\ (f[k] # Nil /\ f[k].ev = "eofN" => f[k].pane \notin Lives(e))
  PROVE  SlotsOK(f, e, n) /\ Len(f) = m
<1>1. f \in [1 .. m -> SlotSet(n)]
  OBVIOUS
<1>2. f \in Seq(SlotSet(n)) /\ Len(f) = m
  BY <1>1, SeqBy
<1> QED BY <1>2 DEF SlotsOK

LEMMA EndStreamsOK ==
  ASSUME NEW n \in Nat, NEW d, NEW e, NEW p, Lives(e) \subseteq Lives(d) \ {p}, NEW ss, SlotsOK(ss, d, n),
         NEW mute \in BOOLEAN
  PROVE  SlotsOK(EndStreams(ss, p, mute), e, n)
<1> DEFINE f == EndStreams(ss, p, mute)
<1>1. DOMAIN ss = 1 .. Len(ss) /\ Len(ss) \in Nat
  BY SlotFacts
<1>2. f = [k \in 1 .. Len(ss) |-> f[k]]
  BY <1>1 DEF EndStreams
<1>3. \A k \in 1 .. Len(ss) : f[k] = IF ss[k] # Nil /\ ss[k].pane = p /\ ss[k].ev = "open"
                                    THEN Slot(p, IF mute THEN "mute" ELSE "eofN") ELSE ss[k]
  BY <1>1 DEF EndStreams
<1> HIDE DEF f
<1>4. ASSUME NEW k \in 1 .. Len(ss)
      PROVE  f[k] \in SlotSet(n) /\ (f[k] # Nil /\ f[k].ev = "eofN" => f[k].pane \notin Lives(e))
  <2>1. CASE ss[k] # Nil /\ ss[k].pane = p /\ ss[k].ev = "open"
    <3>1. p \in 1 .. n - 1
      BY <1>4, <2>1, SlotFacts
    <3>2. (IF mute THEN "mute" ELSE "eofN") \in Events
      BY DEF Events
    <3>3. f[k] \in SlotSet(n) /\ f[k].pane = p
      BY <1>3, <2>1, <3>1, <3>2, SlotIn
    <3> QED BY <3>3
  <2>2. CASE ~(ss[k] # Nil /\ ss[k].pane = p /\ ss[k].ev = "open")
    <3>1. f[k] = ss[k]
      BY <1>3, <2>2
    <3> QED BY <3>1, SlotFacts
  <2> QED BY <2>1, <2>2
<1>5. SlotsOK(f, e, n)
  BY <1>1, <1>2, <1>4, SlotsMap
<1> QED BY <1>5 DEF f

\* The Closed events are taken out, and slots are emptied.
LEMMA ConsumedOK ==
  ASSUME NEW n \in Nat, NEW d, NEW ss, SlotsOK(ss, d, n)
  PROVE  SlotsOK(Consumed(ss), d, n) /\ Len(Consumed(ss)) = Len(ss)
         /\ \A k \in 1 .. Len(ss) : ss[k] # Nil => Consumed(ss)[k] = Nil \/ Consumed(ss)[k].pane = ss[k].pane
<1> DEFINE f == Consumed(ss)
           Ended(k) == ss[k] # Nil /\ ss[k].ev \in {"eof0", "eofN"}
<1>1. DOMAIN ss = 1 .. Len(ss) /\ Len(ss) \in Nat
  BY SlotFacts
<1>2. f = [k \in 1 .. Len(ss) |-> f[k]]
  BY <1>1 DEF Consumed
<1>3. \A k \in 1 .. Len(ss) : f[k] = IF Ended(k) THEN Slot(ss[k].pane, "mute") ELSE ss[k]
  BY <1>1 DEF Consumed
<1> HIDE DEF f
<1>4. ASSUME NEW k \in 1 .. Len(ss)
      PROVE  /\ f[k] \in SlotSet(n) /\ (f[k] # Nil /\ f[k].ev = "eofN" => f[k].pane \notin Lives(d))
             /\ ss[k] # Nil => f[k] = Nil \/ f[k].pane = ss[k].pane
  <2>1. CASE Ended(k)
    <3>1. ss[k].pane \in 1 .. n - 1 /\ "mute" \in Events
      BY <2>1, SlotFacts DEF Events
    <3>2. f[k] \in SlotSet(n) /\ f[k].pane = ss[k].pane /\ f[k].ev = "mute"
      BY <1>3, <2>1, <3>1, SlotIn
    <3> QED BY <3>2
  <2>2. CASE ~Ended(k)
    <3>1. f[k] = ss[k]
      BY <1>3, <2>2
    <3> QED BY <3>1, SlotFacts
  <2> QED BY <2>1, <2>2
<1>5. SlotsOK(f, d, n) /\ Len(f) = Len(ss)
  <2>1. \A k \in 1 .. Len(ss) :
          f[k] \in SlotSet(n) /\ (f[k] # Nil /\ f[k].ev = "eofN" => f[k].pane \notin Lives(d))
    BY <1>4
  <2>2. SlotsOK(f, d, n)
    BY <1>1, <1>2, <2>1, SlotsMap
  <2>3. DOMAIN f = 1 .. Len(ss) /\ f \in Seq(SlotSet(n))
    BY <1>2, <2>2 DEF SlotsOK
  <2> QED BY <1>1, <2>2, <2>3
<1> QED BY <1>4, <1>5 DEF f

LEMMA EmptiedOK ==
  ASSUME NEW n \in Nat, NEW d, NEW ss, SlotsOK(ss, d, n), NEW i
  PROVE  SlotsOK([ss EXCEPT ![i] = Nil], d, n)
<1> DEFINE f == [ss EXCEPT ![i] = Nil]
<1>1. DOMAIN ss = 1 .. Len(ss) /\ Len(ss) \in Nat
  BY SlotFacts
<1>2. f = [k \in 1 .. Len(ss) |-> f[k]] /\ \A k \in 1 .. Len(ss) : f[k] = Nil \/ f[k] = ss[k]
  <2>1. ss \in [1 .. Len(ss) -> SlotSet(n)]
    BY DEF SlotsOK
  <2> QED BY <1>1, <2>1
<1> HIDE DEF f
<1>3. \A k \in 1 .. Len(ss) : f[k] \in SlotSet(n) /\ (f[k] # Nil /\ f[k].ev = "eofN" => f[k].pane \notin Lives(d))
  BY <1>2, SlotFacts DEF SlotSet
<1>4. SlotsOK(f, d, n)
  BY <1>1, <1>2, <1>3, SlotsMap
<1> QED BY <1>4 DEF f

LEMMA PruneOK ==
  ASSUME NEW n \in Nat, NEW d, NEW ss, SlotsOK(ss, d, n), NEW gone
  PROVE  SlotsOK(PruneSlots(ss, gone), d, n)
<1> DEFINE f == PruneSlots(ss, gone)
<1>1. DOMAIN ss = 1 .. Len(ss) /\ Len(ss) \in Nat
  BY SlotFacts
<1>2. f = [k \in 1 .. Len(ss) |-> f[k]] /\ \A k \in 1 .. Len(ss) : f[k] = Nil \/ f[k] = ss[k]
  BY <1>1 DEF PruneSlots
<1> HIDE DEF f
<1>3. \A k \in 1 .. Len(ss) : f[k] \in SlotSet(n) /\ (f[k] # Nil /\ f[k].ev = "eofN" => f[k].pane \notin Lives(d))
  BY <1>2, SlotFacts DEF SlotSet
<1>4. SlotsOK(f, d, n)
  BY <1>1, <1>2, <1>3, SlotsMap
<1> QED BY <1>4 DEF f

\* Attachments: none of them has ended after some frames.
NewSlots(n) == {x \in [pane : 1 .. n - 1, ev : Events] : x.ev # "eofN"}

LEMMA SlotsConcat ==
  ASSUME NEW n \in Nat, NEW d, NEW ss, SlotsOK(ss, d, n), NEW xs \in Seq(NewSlots(n))
  PROVE  SlotsOK(ss \o xs, d, n) /\ Len(ss \o xs) = Len(ss) + Len(xs)
<1>1. ss \in Seq(SlotSet(n)) /\ Len(ss) \in Nat
  BY DEF SlotsOK
<1>2. xs \in Seq(SlotSet(n)) /\ Len(xs) \in Nat
  <2>1. NewSlots(n) \subseteq SlotSet(n)
    BY DEF NewSlots, SlotSet, Events
  <2> QED BY <2>1, SeqSub
<1> DEFINE f == ss \o xs
<1>3. /\ f \in Seq(SlotSet(n)) /\ Len(f) = Len(ss) + Len(xs)
      /\ \A k \in 1 .. Len(ss) + Len(xs) : f[k] = IF k <= Len(ss) THEN ss[k] ELSE xs[k - Len(ss)]
  BY <1>1, <1>2, ConcatProperties
<1> HIDE DEF f
<1>4. ASSUME NEW k \in 1 .. Len(f), f[k] # Nil, f[k].ev = "eofN" PROVE f[k].pane \notin Lives(d)
  <2>1. CASE k <= Len(ss)
    <3>1. k \in 1 .. Len(ss) /\ f[k] = ss[k]
      BY <1>1, <1>3, <1>4, <2>1
    <3> QED BY <1>4, <3>1 DEF SlotsOK
  <2>2. CASE k > Len(ss)
    <3>1. k - Len(ss) \in 1 .. Len(xs) /\ f[k] = xs[k - Len(ss)]
      BY <1>1, <1>2, <1>3, <1>4, <2>2
    <3>2. f[k] \in NewSlots(n)
      BY <3>1
    <3> QED BY <1>4, <3>2 DEF NewSlots
  <2> QED BY <1>1, <1>2, <1>3, <1>4, <2>1, <2>2
<1>5. SlotsOK(f, d, n)
  BY <1>3, <1>4 DEF SlotsOK
<1> QED BY <1>3, <1>5 DEF f

LEMMA SlotsAppend ==
  ASSUME NEW n \in Nat, NEW d, NEW ss, SlotsOK(ss, d, n), NEW x \in NewSlots(n)
  PROVE  SlotsOK(Append(ss, x), d, n) /\ Len(Append(ss, x)) = Len(ss) + 1
<1>1. ss \in Seq(SlotSet(n)) /\ Len(ss) \in Nat /\ x \in SlotSet(n)
  BY DEF SlotsOK, NewSlots, SlotSet, Events
<1>2. <<x>> \in Seq(NewSlots(n)) /\ Len(<<x>>) = 1
  OBVIOUS
<1>3. Append(ss, x) = ss \o <<x>>
  BY <1>1, AppendIsConcat
<1> QED BY <1>2, <1>3, SlotsConcat

LEMMA AttachmentsIn ==
  ASSUME NEW n \in Nat, NEW p \in 1 .. n - 1, NEW x \in Attachments(p)
  PROVE  x \in NewSlots(n)
<1>1. x \in {Slot(p, "eof0"), Slot(p, "open")}
  BY DEF Attachments
<1> QED BY <1>1 DEF Slot, NewSlots, Events

LEMMA AttachAllOK ==
  ASSUME NEW n \in Nat, NEW d, NEW ss, SlotsOK(ss, d, n), NEW panes, panes \subseteq 1 .. n - 1,
         NEW tt \in AttachAll(ss, panes)
  PROVE  SlotsOK(tt, d, n)
<1>0. PICK got \in SUBSET Missing(ss, panes) :
        \E xs \in [DOMAIN Ascending(got, MaxPanes) -> UNION {Attachments(p) : p \in panes}] : tt = ss \o xs
  BY DEF AttachAll
<1> DEFINE new == Ascending(got, MaxPanes)
<1>1. PICK xs \in [DOMAIN new -> UNION {Attachments(p) : p \in panes}] : tt = ss \o xs
  BY <1>0
<1>2. new \in Seq(got \cap (1 .. MaxPanes))
  BY AscendingSeq, TuiAssumption
<1>3. DOMAIN new = 1 .. Len(new) /\ Len(new) \in Nat
  BY <1>2
<1> HIDE DEF new
<1>4. UNION {Attachments(p) : p \in panes} \subseteq NewSlots(n)
  BY AttachmentsIn
<1>5. xs \in [1 .. Len(new) -> NewSlots(n)]
  BY <1>1, <1>3, <1>4
<1>6. xs \in Seq(NewSlots(n))
  BY <1>3, <1>5, SeqBy
<1> QED BY <1>1, <1>6, SlotsConcat

-----------------------------------------------------------------------------
(* Tabs, sessions and views *)

TabFields == [root : Seq(Nat), focus : Nat, zoomed : Nat \cup {Nil}, win : Nat \cup {Nil}]

LEMMA TabFacts ==
  ASSUME NEW t \in TabSet
  PROVE  /\ t \in TabFields /\ t.root \in Seq(Nat) /\ t.root # <<>> /\ Len(t.root) \in Nat /\ Len(t.root) >= 1
         /\ DOMAIN t.root = 1 .. Len(t.root) /\ t.focus \in Nat /\ Contains(t.root, t.focus)
<1>1. t \in TabFields /\ Contains(t.root, t.focus)
  BY DEF TabSet, TabFields
<1>2. t.root \in Seq(Nat) /\ t.focus \in Nat
  BY <1>1 DEF TabFields
<1>3. Len(t.root) \in Nat /\ DOMAIN t.root = 1 .. Len(t.root)
  BY <1>2
<1>4. Len(t.root) >= 1
  BY <1>1, <1>3 DEF Contains
<1>5. t.root # <<>>
  BY <1>4
<1> QED BY <1>1, <1>2, <1>3, <1>4, <1>5

LEMMA TabFocus ==
  ASSUME NEW t \in TabSet, NEW p, Contains(t.root, p)
  PROVE  [t EXCEPT !.focus = p] \in TabSet
<1>1. p \in Nat
  BY TabFacts DEF Contains
<1>2. t \in TabFields
  BY TabFacts
<1> DEFINE u == [t EXCEPT !.focus = p]
<1>3. u \in TabFields /\ u.root = t.root /\ u.focus = p
  BY <1>1, <1>2 DEF TabFields
<1> HIDE DEF u
<1>4. u \in TabSet
  BY <1>3 DEF TabSet, TabFields
<1> QED BY <1>4 DEF u

LEMMA TabZoom ==
  ASSUME NEW t \in TabSet, NEW z \in Nat \cup {Nil}
  PROVE  [t EXCEPT !.zoomed = z] \in TabSet
<1>1. t \in TabFields /\ Contains(t.root, t.focus)
  BY TabFacts
<1> DEFINE u == [t EXCEPT !.zoomed = z]
<1>2. u \in TabFields /\ u.root = t.root /\ u.focus = t.focus
  BY <1>1 DEF TabFields
<1> HIDE DEF u
<1>3. u \in TabSet
  BY <1>1, <1>2 DEF TabSet, TabFields
<1> QED BY <1>3 DEF u

LEMMA TabRoot ==
  ASSUME NEW t \in TabSet, NEW r \in Seq(Nat), NEW p, Contains(r, p)
  PROVE  /\ [t EXCEPT !.root = r, !.focus = p] \in TabSet
         /\ [t EXCEPT !.root = r, !.zoomed = Nil, !.focus = p] \in TabSet
         /\ [t EXCEPT !.root = r, !.focus = p, !.zoomed = Nil] \in TabSet
<1>1. p \in Nat
  <2>1. DOMAIN r = 1 .. Len(r) /\ r \in [1 .. Len(r) -> Nat]
    OBVIOUS
  <2> QED BY <2>1 DEF Contains
<1>2. t \in TabFields
  BY TabFacts
<1> DEFINE u == [t EXCEPT !.root = r, !.focus = p]
           w == [t EXCEPT !.root = r, !.zoomed = Nil, !.focus = p]
           x == [t EXCEPT !.root = r, !.focus = p, !.zoomed = Nil]
<1>3. /\ u \in TabFields /\ u.root = r /\ u.focus = p
      /\ w \in TabFields /\ w.root = r /\ w.focus = p
      /\ x \in TabFields /\ x.root = r /\ x.focus = p
  BY <1>1, <1>2 DEF TabFields
<1> HIDE DEF u, w, x
<1>4. u \in TabSet /\ w \in TabSet /\ x \in TabSet
  BY <1>3 DEF TabSet, TabFields
<1> QED BY <1>4 DEF u, w, x

LEMMA TabNew ==
  ASSUME NEW p \in Nat, NEW w \in Nat \cup {Nil}
  PROVE  Tab(<<p>>, p, w) \in TabSet
<1>1. <<p>> \in Seq(Nat) /\ Contains(<<p>>, p)
  BY DEF Contains
<1> QED BY <1>1 DEF Tab, TabSet

LEMMA ApplyLayoutTab ==
  ASSUME NEW t \in TabSet, NEW r \in Seq(Nat), r # <<>>
  PROVE  ApplyLayout(t, r) \in TabSet
<1>1. Contains(r, Head(r))
  <2>1. Len(r) \in Nat /\ Len(r) # 0 /\ Head(r) = r[1]
    OBVIOUS
  <2> QED BY <2>1 DEF Contains
<1> DEFINE p == IF Contains(r, t.focus) THEN t.focus ELSE Head(r)
<1>2. Contains(r, p)
  BY <1>1
<1>3. t \in TabFields
  BY TabFacts
<1>4. ApplyLayout(t, r) = [t EXCEPT !.root = r, !.focus = p]
  BY <1>3 DEF ApplyLayout, TabFields
<1> HIDE DEF p
<1>5. [t EXCEPT !.root = r, !.focus = p] \in TabSet
  BY <1>2, TabRoot
<1> QED BY <1>4, <1>5

SessionFields == [id : Nat, tabs : Seq(TabSet), at : Nat]

LEMMA SessionFacts ==
  ASSUME NEW x \in SessionSet
  PROVE  /\ x \in SessionFields /\ x.tabs \in Seq(TabSet) /\ x.at \in 1 .. Len(x.tabs) /\ x.id \in Nat
         /\ Len(x.tabs) \in Nat /\ DOMAIN x.tabs = 1 .. Len(x.tabs) /\ x.tabs # <<>>
         /\ \A j \in 1 .. Len(x.tabs) : x.tabs[j] \in TabSet
<1>1. x \in SessionFields /\ x.tabs \in Seq(TabSet) /\ x.at \in 1 .. Len(x.tabs) /\ x.id \in Nat
  BY DEF SessionSet, SessionFields
<1> HIDE DEF TabSet
<1>2. Len(x.tabs) \in Nat /\ DOMAIN x.tabs = 1 .. Len(x.tabs) /\ \A j \in 1 .. Len(x.tabs) : x.tabs[j] \in TabSet
  BY <1>1
<1>3. x.tabs # <<>>
  BY <1>1
<1> QED BY <1>1, <1>2, <1>3

LEMMA SessionWith ==
  ASSUME NEW x \in SessionSet, NEW ts \in Seq(TabSet), NEW a \in 1 .. Len(ts)
  PROVE  [x EXCEPT !.tabs = ts, !.at = a] \in SessionSet
<1>1. x \in SessionFields /\ a \in Nat
  BY SessionFacts
<1> DEFINE u == [x EXCEPT !.tabs = ts, !.at = a]
<1>2. u \in SessionFields /\ u.tabs = ts /\ u.at = a
  BY <1>1 DEF SessionFields
<1> HIDE DEF u
<1>3. u \in SessionSet
  BY <1>2 DEF SessionSet, SessionFields
<1> QED BY <1>3 DEF u

LEMMA SessionTabs ==
  ASSUME NEW x \in SessionSet, NEW ts \in Seq(TabSet), x.at \in 1 .. Len(ts)
  PROVE  [x EXCEPT !.tabs = ts] \in SessionSet
<1>1. x \in SessionFields
  BY SessionFacts
<1> DEFINE u == [x EXCEPT !.tabs = ts]
<1>2. u \in SessionFields /\ u.tabs = ts /\ u.at = x.at
  BY <1>1 DEF SessionFields
<1> HIDE DEF u
<1>3. u \in SessionSet
  BY <1>2 DEF SessionSet, SessionFields
<1> QED BY <1>3 DEF u

LEMMA SessionAt ==
  ASSUME NEW x \in SessionSet, NEW a \in 1 .. Len(x.tabs)
  PROVE  [x EXCEPT !.at = a] \in SessionSet
<1>1. x \in SessionFields /\ a \in Nat
  BY SessionFacts
<1> DEFINE u == [x EXCEPT !.at = a]
<1>2. u \in SessionFields /\ u.tabs = x.tabs /\ u.at = a
  BY <1>1 DEF SessionFields
<1> HIDE DEF u
<1>3. u \in SessionSet
  BY <1>2 DEF SessionSet, SessionFields
<1> QED BY <1>3 DEF u

LEMMA SessionTab ==
  ASSUME NEW x \in SessionSet, NEW j, NEW t \in TabSet
  PROVE  [x EXCEPT !.tabs = [x.tabs EXCEPT ![j] = t]] \in SessionSet
<1>1. x.tabs \in Seq(TabSet) /\ x.at \in 1 .. Len(x.tabs)
  BY SessionFacts
<1>2. [x.tabs EXCEPT ![j] = t] \in Seq(TabSet) /\ Len([x.tabs EXCEPT ![j] = t]) = Len(x.tabs)
  BY <1>1, SetAt
<1> QED BY <1>1, <1>2, SessionTabs

LEMMA SessionNew ==
  ASSUME NEW s \in Nat, NEW p \in Nat, NEW w \in Nat \cup {Nil}
  PROVE  SessionView(s, p, w) \in SessionSet
<1>1. Tab(<<p>>, p, w) \in TabSet
  BY TabNew
<1> DEFINE t == Tab(<<p>>, p, w)
<1> HIDE DEF t
<1>2. <<t>> \in Seq(TabSet) /\ 1 \in 1 .. Len(<<t>>)
  BY <1>1 DEF t
<1>3. SessionView(s, p, w) = [id |-> s, tabs |-> <<t>>, at |-> 1]
  BY DEF SessionView, t
<1> QED BY <1>2, <1>3 DEF SessionSet

\* What the handlers make of sessions, active, slots and closing.
ViewOK(v, d, n, as) ==
  /\ DOMAIN v = {"sessions", "active", "slots", "closing"}
  /\ v.sessions \in Seq(SessionSet) /\ v.active \in Nat
  /\ v.sessions # <<>> => v.active \in 1 .. Len(v.sessions)
  /\ SlotsOK(v.slots, d, n) /\ ClosingOK(v.closing, as, d, n)

LEMMA SessionsFacts ==
  ASSUME NEW ss \in Seq(SessionSet)
  PROVE  /\ Len(ss) \in Nat /\ DOMAIN ss = 1 .. Len(ss) /\ (ss = <<>> <=> Len(ss) = 0)
         /\ \A i \in 1 .. Len(ss) : ss[i] \in SessionSet
OBVIOUS

\* One session changes, or the active one.
LEMMA ViewSession ==
  ASSUME NEW v, NEW d, NEW n, NEW as, ViewOK(v, d, n, as), NEW i, NEW x \in SessionSet
  PROVE  /\ ViewOK([v EXCEPT !.sessions = [v.sessions EXCEPT ![i] = x]], d, n, as)
         /\ Len([v EXCEPT !.sessions = [v.sessions EXCEPT ![i] = x]].sessions) = Len(v.sessions)
<1>1. v.sessions \in Seq(SessionSet) /\ Len(v.sessions) \in Nat
  BY SessionsFacts DEF ViewOK
<1> DEFINE ss == [v.sessions EXCEPT ![i] = x]
           w == [v EXCEPT !.sessions = ss]
<1>2. ss \in Seq(SessionSet) /\ Len(ss) = Len(v.sessions)
  <2> DEFINE q == v.sessions
  <2>1. q \in Seq(SessionSet)
    BY <1>1
  <2> HIDE DEF q
  <2>2. [q EXCEPT ![i] = x] \in Seq(SessionSet) /\ Len([q EXCEPT ![i] = x]) = Len(q)
    BY <2>1, SetAt
  <2> QED BY <2>2 DEF q
<1> HIDE DEF ss
<1>3. DOMAIN w = {"sessions", "active", "slots", "closing"} /\ w.sessions = ss /\ w.active = v.active
      /\ w.slots = v.slots /\ w.closing = v.closing
  BY DEF ViewOK
<1> HIDE DEF w
<1>4. w.sessions # <<>> => v.sessions # <<>>
  BY <1>1, <1>2, <1>3, SessionsFacts
<1>5. ViewOK(w, d, n, as) /\ Len(w.sessions) = Len(v.sessions)
  BY <1>2, <1>3, <1>4 DEF ViewOK
<1> QED BY <1>5 DEF w, ss

LEMMA ViewActive ==
  ASSUME NEW v, NEW d, NEW n, NEW as, ViewOK(v, d, n, as), NEW a \in 1 .. Len(v.sessions)
  PROVE  ViewOK([v EXCEPT !.active = a], d, n, as)
<1> DEFINE w == [v EXCEPT !.active = a]
<1>1. DOMAIN w = {"sessions", "active", "slots", "closing"} /\ w.sessions = v.sessions /\ w.active = a
      /\ w.slots = v.slots /\ w.closing = v.closing
  BY DEF ViewOK
<1>2. a \in Nat
  BY SessionsFacts DEF ViewOK
<1> HIDE DEF w
<1>3. ViewOK(w, d, n, as)
  BY <1>1, <1>2 DEF ViewOK
<1> QED BY <1>3 DEF w

LEMMA ViewSlots ==
  ASSUME NEW v, NEW d, NEW n, NEW as, ViewOK(v, d, n, as), NEW ss, SlotsOK(ss, d, n)
  PROVE  ViewOK([v EXCEPT !.slots = ss], d, n, as)
<1> DEFINE w == [v EXCEPT !.slots = ss]
<1>1. DOMAIN w = {"sessions", "active", "slots", "closing"} /\ w.sessions = v.sessions /\ w.active = v.active
      /\ w.slots = ss /\ w.closing = v.closing
  BY DEF ViewOK
<1> HIDE DEF w
<1>2. ViewOK(w, d, n, as)
  BY <1>1 DEF ViewOK
<1> QED BY <1>2 DEF w

\* locate_pane finds a tab that shows the pane.
LEMMA Located ==
  ASSUME NEW v, v.sessions \in Seq(SessionSet), NEW p, locate_pane(v, p) # <<>>
  PROVE  LET x == locate_pane(v, p) IN
         /\ x[1] \in 1 .. Len(v.sessions) /\ x[2] \in 1 .. Len(v.sessions[x[1]].tabs)
         /\ Contains(v.sessions[x[1]].tabs[x[2]].root, p)
<1> DEFINE P == {x \in (DOMAIN v.sessions) \X Ids :
                   x[2] \in DOMAIN v.sessions[x[1]].tabs
                   /\ Contains(v.sessions[x[1]].tabs[x[2]].root, p)}
<1>1. locate_pane(v, p) = IF P = {} THEN <<>>
                          ELSE CHOOSE x \in P : \A y \in P : x[1] < y[1] \/ (x[1] = y[1] /\ x[2] <= y[2])
  BY DEF locate_pane
<1>2. DOMAIN v.sessions = 1 .. Len(v.sessions) /\ Len(v.sessions) \in Nat
      /\ \A i \in 1 .. Len(v.sessions) : v.sessions[i] \in SessionSet
  BY SessionsFacts
<1>3. P \subseteq Nat \X Nat
  BY <1>2 DEF Ids
<1>4. \A x \in P : /\ x[1] \in 1 .. Len(v.sessions) /\ x[2] \in 1 .. Len(v.sessions[x[1]].tabs)
                   /\ Contains(v.sessions[x[1]].tabs[x[2]].root, p)
  <2>1. ASSUME NEW x \in P
        PROVE  /\ x[1] \in 1 .. Len(v.sessions) /\ x[2] \in 1 .. Len(v.sessions[x[1]].tabs)
               /\ Contains(v.sessions[x[1]].tabs[x[2]].root, p)
    <3>1. x[1] \in 1 .. Len(v.sessions) /\ x[2] \in DOMAIN v.sessions[x[1]].tabs
          /\ Contains(v.sessions[x[1]].tabs[x[2]].root, p)
      BY <1>2, <2>1
    <3>2. DOMAIN v.sessions[x[1]].tabs = 1 .. Len(v.sessions[x[1]].tabs)
      BY <1>2, <3>1, SessionFacts
    <3> QED BY <3>1, <3>2
  <2> QED BY <2>1
<1> HIDE DEF P
<1>5. P # {}
  BY <1>1
<1>6. \E x \in P : \A y \in P : x[1] < y[1] \/ (x[1] = y[1] /\ x[2] <= y[2])
  BY <1>3, <1>5, FirstPair
<1>7. locate_pane(v, p) \in P
  BY <1>1, <1>5, <1>6
<1> QED BY <1>4, <1>7

LEMMA DropTabOK ==
  ASSUME NEW v, NEW d, NEW n, NEW as, ViewOK(v, d, n, as),
         NEW i \in 1 .. Len(v.sessions), NEW j \in 1 .. Len(v.sessions[i].tabs)
  PROVE  ViewOK(DropTab(v, i, j), d, n, as)
<1> DEFINE x == v.sessions[i]
           tabs == RemoveAt(x.tabs, j)
           left == RemoveAt(v.sessions, i)
           k == MinOf(j, Len(tabs))
<1>1. v.sessions \in Seq(SessionSet) /\ Len(v.sessions) \in Nat /\ x \in SessionSet
  BY SessionsFacts DEF ViewOK
<1>2. x.tabs \in Seq(TabSet) /\ Len(x.tabs) \in Nat /\ j \in 1 .. Len(x.tabs)
  BY <1>1, SessionFacts
<1>3. tabs \in Seq(TabSet) /\ Len(tabs) = Len(x.tabs) - 1
  BY <1>2, RemoveAtSeq
<1>4. left \in Seq(SessionSet) /\ Len(left) = Len(v.sessions) - 1
  BY <1>1, RemoveAtSeq
<1> DEFINE y == [x EXCEPT !.tabs = [tabs EXCEPT ![k].focus = Head(tabs[k].root)], !.at = k]
           a == IF left = <<>> THEN v.active ELSE MinOf(v.active, Len(left))
<1>5. DropTab(v, i, j) = IF tabs # <<>> THEN [v EXCEPT !.sessions = [v.sessions EXCEPT ![i] = y]]
                         ELSE [v EXCEPT !.sessions = left, !.active = a]
  BY DEF DropTab, ViewOK
<1>6. CASE tabs # <<>>
  <2> HIDE DEF tabs
  <2>1. Len(tabs) \in Nat /\ Len(tabs) # 0
    BY <1>3, <1>6, NonEmpty
  <2>2. k \in 1 .. Len(tabs)
    BY <1>2, <2>1 DEF MinOf
  <2> HIDE DEF k
  <2>3. tabs[k] \in TabSet
    BY <1>3, <2>2
  <2>4. Contains(tabs[k].root, Head(tabs[k].root))
    <3> DEFINE r == tabs[k].root
    <3> HIDE DEF r
    <3>1. r \in Seq(Nat) /\ r # <<>>
      BY <2>3, TabFacts DEF r
    <3>2. Len(r) \in Nat /\ Len(r) # 0 /\ Head(r) = r[1]
      BY <3>1
    <3>3. Contains(r, Head(r))
      BY <3>2 DEF Contains
    <3> QED BY <3>3 DEF r
  <2>5. [tabs[k] EXCEPT !.focus = Head(tabs[k].root)] \in TabSet
    BY <2>3, <2>4, TabFocus
  <2> DEFINE ts == [tabs EXCEPT ![k] = [tabs[k] EXCEPT !.focus = Head(tabs[k].root)]]
  <2>6. ts \in Seq(TabSet) /\ Len(ts) = Len(tabs)
    BY <1>3, <2>5, SetAt
  <2>7. y = [x EXCEPT !.tabs = ts, !.at = k]
    OBVIOUS
  <2> HIDE DEF ts, y, x
  <2>8. [x EXCEPT !.tabs = ts, !.at = k] \in SessionSet
    BY <1>1, <2>2, <2>6, SessionWith
  <2>9. ViewOK([v EXCEPT !.sessions = [v.sessions EXCEPT ![i] = y]], d, n, as)
    BY <2>7, <2>8, ViewSession
  <2> QED BY <1>5, <1>6, <2>9
<1>7. CASE tabs = <<>>
  <2> HIDE DEF tabs, left, x
  <2> DEFINE w == [v EXCEPT !.sessions = left, !.active = a]
  <2>1. v.active \in Nat
    BY DEF ViewOK
  <2>2. a \in Nat /\ (left # <<>> => a \in 1 .. Len(left))
    <3>1. v.active \in 1 .. Len(v.sessions)
      BY <1>1 DEF ViewOK
    <3>2. left # <<>> => Len(left) \in Nat /\ Len(left) # 0
      BY <1>4, NonEmpty
    <3> QED BY <2>1, <3>1, <3>2 DEF MinOf
  <2> HIDE DEF a
  <2>3. DOMAIN w = {"sessions", "active", "slots", "closing"} /\ w.sessions = left /\ w.active = a
        /\ w.slots = v.slots /\ w.closing = v.closing
    BY DEF ViewOK
  <2>4. DropTab(v, i, j) = w
    BY <1>5, <1>7
  <2> HIDE DEF w
  <2>5. ViewOK(w, d, n, as)
    BY <1>4, <2>2, <2>3 DEF ViewOK
  <2> QED BY <2>4, <2>5
<1> QED BY <1>6, <1>7

LEMMA LeaveTabOK ==
  ASSUME NEW v, NEW d, NEW n, NEW as, ViewOK(v, d, n, as), NEW p,
         NEW i \in 1 .. Len(v.sessions), NEW j \in 1 .. Len(v.sessions[i].tabs),
         Contains(v.sessions[i].tabs[j].root, p), v.sessions[i].tabs[j].root # <<p>>
  PROVE  ViewOK(LeaveTab(v, i, j, p), d, n, as)
<1> DEFINE x == v.sessions[i]
           t == x.tabs[j]
           r == t.root
           k == CHOOSE k \in DOMAIN r : r[k] = p
           rest == RemoveAt(r, k)
           f == rest[IF k > 1 THEN k - 1 ELSE 1]
           u == [t EXCEPT !.root = rest, !.zoomed = Nil, !.focus = f]
<1>1. x \in SessionSet
  BY SessionsFacts DEF ViewOK
<1>2. t \in TabSet
  BY <1>1, SessionFacts
<1>3. r \in Seq(Nat) /\ Len(r) \in Nat /\ DOMAIN r = 1 .. Len(r)
  BY <1>2, TabFacts
<1>4. LeaveTab(v, i, j, p) =
        [v EXCEPT !.sessions = [v.sessions EXCEPT ![i] = [x EXCEPT !.tabs = [x.tabs EXCEPT ![j] = u]]]]
  BY DEF LeaveTab
<1>5. Contains(r, p) /\ r # <<p>>
  OBVIOUS
<1>6. k \in 1 .. Len(r) /\ r[k] = p
  BY <1>3, <1>5 DEF Contains
<1> HIDE DEF k, r
<1>7. Len(r) >= 2
  <2>1. SUFFICES ASSUME Len(r) = 1 PROVE FALSE
    BY <1>3, <1>6
  <2>2. r = <<r[1]>> /\ k = 1
    BY <1>3, <1>6, <2>1
  <2> QED BY <1>5, <1>6, <2>2
<1>8. rest \in Seq(Nat) /\ Len(rest) = Len(r) - 1
  BY <1>3, <1>6, RemoveAtSeq
<1> HIDE DEF rest
<1>9. Contains(rest, f)
  <2>1. (IF k > 1 THEN k - 1 ELSE 1) \in 1 .. Len(rest)
    BY <1>3, <1>6, <1>7, <1>8
  <2> QED BY <2>1 DEF Contains
<1> HIDE DEF f, t
<1>10. u \in TabSet
  BY <1>2, <1>8, <1>9, TabRoot
<1> HIDE DEF u, x
<1>11. [x EXCEPT !.tabs = [x.tabs EXCEPT ![j] = u]] \in SessionSet
  BY <1>1, <1>10, SessionTab
<1> DEFINE y == [x EXCEPT !.tabs = [x.tabs EXCEPT ![j] = u]]
<1> HIDE DEF y
<1>12. ViewOK([v EXCEPT !.sessions = [v.sessions EXCEPT ![i] = y]], d, n, as)
  BY <1>11, ViewSession DEF y
<1> QED BY <1>4, <1>12 DEF y

\* Closing a slot: an RPC is sent only when the pane is gone or the user asked.
LEMMA ClosePaneOK ==
  ASSUME NEW v, NEW d, NEW n \in Nat, NEW as, ViewOK(v, d, n, as), NEW k, NEW fire \in BOOLEAN,
         fire => k \notin DOMAIN v.slots \/ v.slots[k] = Nil \/ v.slots[k].pane \notin Lives(d)
                 \/ v.slots[k].pane \in as
  PROVE  ViewOK(close_pane_inner(v, k, fire), d, n, as)
<1> DEFINE p == v.slots[k].pane
           loc == locate_pane(v, p)
           c == IF fire THEN v.closing \cup {p} ELSE v.closing
           w == [v EXCEPT !.slots = [v.slots EXCEPT ![k] = Nil], !.closing = c]
<1>1. DOMAIN v = {"sessions", "active", "slots", "closing"} /\ SlotsOK(v.slots, d, n)
      /\ v.sessions \in Seq(SessionSet)
  BY DEF ViewOK
<1>2. CASE k \notin DOMAIN v.slots \/ v.slots[k] = Nil \/ loc = <<>>
  BY <1>2 DEF close_pane_inner
<1>3. CASE k \in DOMAIN v.slots /\ v.slots[k] # Nil /\ loc # <<>>
  <2>1. close_pane_inner(v, k, fire) = IF v.sessions[loc[1]].tabs[loc[2]].root = <<p>>
                                       THEN DropTab(w, loc[1], loc[2]) ELSE LeaveTab(w, loc[1], loc[2], p)
    BY <1>1, <1>3 DEF close_pane_inner
  <2>2. k \in 1 .. Len(v.slots) /\ p \in 1 .. n - 1
    BY <1>1, <1>3, SlotFacts
  <2>3. ClosingOK(c, as, d, n)
    <3>1. ClosingOK(v.closing, as, d, n)
      BY DEF ViewOK
    <3>2. fire => p \notin Lives(d) \/ p \in as
      BY <1>3
    <3> HIDE DEF p
    <3> QED BY <2>2, <3>1, <3>2 DEF ClosingOK
  <2>4. SlotsOK([v.slots EXCEPT ![k] = Nil], d, n)
    BY <1>1, EmptiedOK
  <2>5. loc[1] \in 1 .. Len(v.sessions) /\ loc[2] \in 1 .. Len(v.sessions[loc[1]].tabs)
        /\ Contains(v.sessions[loc[1]].tabs[loc[2]].root, p)
    BY <1>1, <1>3, Located
  <2> DEFINE z == [v.slots EXCEPT ![k] = Nil]
  <2>6. w = [v EXCEPT !.slots = z, !.closing = c]
    OBVIOUS
  <2> HIDE DEF w, loc, p, c, z
  <2>7. DOMAIN w = {"sessions", "active", "slots", "closing"} /\ w.sessions = v.sessions /\ w.active = v.active
        /\ w.slots = z /\ w.closing = c
    BY <1>1, <2>6
  <2>8. ViewOK(w, d, n, as)
    BY <2>3, <2>4, <2>7 DEF ViewOK, z
  <2>9. CASE v.sessions[loc[1]].tabs[loc[2]].root = <<p>>
    BY <2>1, <2>5, <2>7, <2>8, <2>9, DropTabOK
  <2>10. CASE v.sessions[loc[1]].tabs[loc[2]].root # <<p>>
    BY <2>1, <2>5, <2>7, <2>8, <2>10, LeaveTabOK
  <2> QED BY <2>9, <2>10
<1> QED BY <1>2, <1>3

LEMMA ClosePaneSlots ==
  ASSUME NEW v, NEW d, NEW n, NEW as, ViewOK(v, d, n, as), NEW k, NEW fire
  PROVE  close_pane_inner(v, k, fire).slots \in {v.slots, [v.slots EXCEPT ![k] = Nil]}
<1> DEFINE p == v.slots[k].pane
           loc == locate_pane(v, p)
           w == [v EXCEPT !.slots = [v.slots EXCEPT ![k] = Nil],
                          !.closing = IF fire THEN v.closing \cup {p} ELSE v.closing]
<1>1. DOMAIN v = {"sessions", "active", "slots", "closing"}
  BY DEF ViewOK
<1>2. DOMAIN w = {"sessions", "active", "slots", "closing"} /\ w.slots = [v.slots EXCEPT ![k] = Nil]
  BY <1>1
<1>3. close_pane_inner(v, k, fire) \in {v, DropTab(w, loc[1], loc[2]), LeaveTab(w, loc[1], loc[2], p)}
  BY <1>1 DEF close_pane_inner
<1> HIDE DEF w, loc, p
<1>4. DropTab(w, loc[1], loc[2]).slots = w.slots
  BY <1>2 DEF DropTab
<1>5. LeaveTab(w, loc[1], loc[2], p).slots = w.slots
  BY <1>2 DEF LeaveTab
<1> QED BY <1>2, <1>3, <1>4, <1>5

\* The streams that ended, one after the other.
LEMMA CloseAllOK ==
  ASSUME NEW d, NEW n \in Nat, NEW as, NEW v, ViewOK(v, d, n, as), NEW K, NEW ks \in Seq(K),
         \A k \in K : FiresRpc(slots[k]) => k \notin DOMAIN v.slots \/ v.slots[k] = Nil \/ v.slots[k].pane \notin Lives(d)
  PROVE  ViewOK(CloseAll(v, ks), d, n, as)
<1> DEFINE N == Len(ks)
           Step(g, m) == IF m = 0 THEN v ELSE close_pane_inner(g[m - 1], ks[m], FiresRpc(slots[ks[m]]))
           Upto(m) == \E g : g = [i \in 0 .. m |-> Step(g, i)]
           F == CHOOSE g : g = [i \in 0 .. N |-> Step(g, i)]
           J(w) == /\ ViewOK(w, d, n, as)
                   /\ \A k \in K : FiresRpc(slots[k]) =>
                        k \notin DOMAIN w.slots \/ w.slots[k] = Nil \/ w.slots[k].pane \notin Lives(d)
<1>0. N \in Nat
  OBVIOUS
<1>1. CloseAll(v, ks) = F[N]
  BY DEF CloseAll
<1> HIDE DEF Step
<1>2. Upto(0)
  <2>1. [i \in 0 .. 0 |-> v] = [i \in 0 .. 0 |-> Step([j \in 0 .. 0 |-> v], i)]
    BY DEF Step
  <2> QED BY <2>1
<1>3. ASSUME NEW m \in Nat, m # 0, Upto(m - 1) PROVE Upto(m)
  <2>1. PICK g : g = [i \in 0 .. m - 1 |-> Step(g, i)]
    BY <1>3
  <2>2. \A i \in 0 .. m - 1 : g[i] = Step(g, i)
    BY <2>1
  <2> DEFINE h == [i \in 0 .. m |-> IF i < m THEN g[i] ELSE Step(g, m)]
  <2>3. ASSUME NEW i \in 0 .. m PROVE h[i] = Step(h, i)
    <3>1. CASE i = 0
      <4>1. h[i] = g[i] /\ g[i] = Step(g, i)
        BY <1>3, <2>2, <3>1
      <4> QED BY <3>1, <4>1 DEF Step
    <3>2. CASE i # 0 /\ i < m
      <4>1. h[i] = g[i] /\ h[i - 1] = g[i - 1] /\ g[i] = Step(g, i)
        BY <2>2, <3>2
      <4> QED BY <3>2, <4>1 DEF Step
    <3>3. CASE i = m
      <4>1. h[i] = Step(g, m) /\ h[i - 1] = g[i - 1]
        BY <1>3, <3>3
      <4> QED BY <1>3, <3>3, <4>1 DEF Step
    <3> QED BY <3>1, <3>2, <3>3
  <2>4. h = [i \in 0 .. m |-> Step(h, i)]
    <3> DEFINE h2 == [i \in 0 .. m |-> Step(h, i)]
    <3>1. \A i \in 0 .. m : h2[i] = h[i]
      BY <2>3
    <3> QED BY <3>1
  <2> QED BY <2>4
<1> HIDE DEF Upto
<1>4. \A m \in Nat : Upto(m)
  <2>1. SUFFICES ASSUME {m \in Nat : ~Upto(m)} # {} PROVE FALSE
    OBVIOUS
  <2>2. PICK m \in {i \in Nat : ~Upto(i)} : \A k \in {i \in Nat : ~Upto(i)} : m <= k
    BY <2>1, LeastNumber
  <2>3. m # 0 /\ m \in Nat /\ m - 1 \in Nat /\ ~(m <= m - 1) /\ ~Upto(m)
    BY <1>2, <2>2
  <2> QED BY <1>3, <2>2, <2>3
<1>5. F = [i \in 0 .. N |-> Step(F, i)]
  <2>1. \E g : g = [i \in 0 .. N |-> Step(g, i)]
    BY <1>0, <1>4 DEF Upto
  <2> QED BY <2>1
<1> HIDE DEF F
<1>6. \A m \in 0 .. N : F[m] = Step(F, m)
  BY <1>5
<1> HIDE DEF J
<1>7. J(F[0])
  <2>1. J(v)
    BY DEF J
  <2>2. F[0] = v
    BY <1>0, <1>6 DEF Step
  <2> QED BY <2>1, <2>2
<1>8. ASSUME NEW m \in 1 .. N, J(F[m - 1]) PROVE J(F[m])
  <2> DEFINE w == F[m - 1]
             k == ks[m]
             fire == FiresRpc(slots[k])
             x == close_pane_inner(w, k, fire)
  <2>1. F[m] = x
    <3>1. m \in 0 .. N /\ m # 0
      BY <1>0, <1>8
    <3>2. F[m] = Step(F, m)
      BY <1>6, <3>1
    <3> QED BY <3>1, <3>2 DEF Step
  <2>2. k \in K /\ fire \in BOOLEAN
    BY <1>8 DEF FiresRpc
  <2>3. J(w)
    BY <1>8
  <2> HIDE DEF w, k, fire
  <2>4. ViewOK(w, d, n, as)
    BY <2>3 DEF J
  <2>5. fire => k \notin DOMAIN w.slots \/ w.slots[k] = Nil \/ w.slots[k].pane \notin Lives(d)
    BY <2>2, <2>3 DEF J, fire
  <2>6. ViewOK(x, d, n, as)
    BY <2>2, <2>4, <2>5, ClosePaneOK
  <2>7. x.slots \in {w.slots, [w.slots EXCEPT ![k] = Nil]}
    BY <2>4, ClosePaneSlots
  <2> HIDE DEF x
  <2>8. \A q : q \in DOMAIN x.slots => q \in DOMAIN w.slots /\ (x.slots[q] = Nil \/ x.slots[q] = w.slots[q])
    <3> DEFINE z == w.slots
    <3> HIDE DEF z
    <3>1. \A q : q \in DOMAIN [z EXCEPT ![k] = Nil] =>
            q \in DOMAIN z /\ ([z EXCEPT ![k] = Nil][q] = Nil \/ [z EXCEPT ![k] = Nil][q] = z[q])
      OBVIOUS
    <3>2. x.slots = z \/ x.slots = [z EXCEPT ![k] = Nil]
      BY <2>7 DEF z
    <3>3. \A q : q \in DOMAIN x.slots => q \in DOMAIN z /\ (x.slots[q] = Nil \/ x.slots[q] = z[q])
      <4>1. CASE x.slots = z
        BY <4>1
      <4>2. CASE x.slots = [z EXCEPT ![k] = Nil]
        BY <3>1, <4>2
      <4> QED BY <3>2, <4>1, <4>2
    <3> QED BY <3>3 DEF z
  <2>9. J(x)
    <3>1. ASSUME NEW q \in K, FiresRpc(slots[q])
          PROVE  q \notin DOMAIN x.slots \/ x.slots[q] = Nil \/ x.slots[q].pane \notin Lives(d)
      <4>1. q \notin DOMAIN w.slots \/ w.slots[q] = Nil \/ w.slots[q].pane \notin Lives(d)
        BY <2>3, <3>1 DEF J
      <4> QED BY <2>8, <4>1
    <3> QED BY <2>6, <3>1 DEF J
  <2> QED BY <2>1, <2>9
<1>9. J(F[N])
  <2> DEFINE B == {m \in 0 .. N : ~J(F[m])}
  <2>1. SUFFICES ASSUME B # {} PROVE FALSE
    BY <1>0
  <2>2. B \subseteq Nat
    BY <1>0
  <2>3. PICK m \in B : \A k \in B : m <= k
    BY <2>1, <2>2, LeastNumber
  <2>4. m \in 0 .. N /\ ~J(F[m]) /\ m # 0
    BY <1>7, <2>3
  <2>5. m \in 1 .. N /\ m - 1 \in 0 .. N /\ ~(m <= m - 1)
    BY <1>0, <2>4
  <2>6. J(F[m - 1])
    BY <2>3, <2>5
  <2> QED BY <1>8, <2>4, <2>5, <2>6
<1> QED BY <1>1, <1>9 DEF J

-----------------------------------------------------------------------------
(* The daemon and its other clients *)

\* A step that leaves the loop where it is.
LEMMA LoopSame ==
  ASSUME SessionsInv, ListInv, next \in Nat, UNCHANGED <<sessions, active, loop>>, next' \in {next, next + 1}
  PROVE  SessionsInv' /\ ListInv'
<1>1. pc' = pc /\ listed' = listed /\ turn' = turn /\ found' = found /\ sessions' = sessions /\ active' = active
  BY DEF loop, rpc
<1>2. SessionsInv'
  BY <1>1 DEF SessionsInv
<1>3. found' \subseteq 1 .. next' - 1
  <2>1. found \subseteq 1 .. next - 1
    BY DEF ListInv
  <2>2. ASSUME NEW a \in Nat, NEW b \in {a, a + 1} PROVE 1 .. a - 1 \subseteq 1 .. b - 1
    OBVIOUS
  <2>3. 1 .. next - 1 \subseteq 1 .. next' - 1
    BY <2>2
  <2> QED BY <1>1, <2>1, <2>3
<1>4. ListOK(listed') /\ turn' \in Nat \ {0}
  BY <1>1 DEF ListInv
<1>5. pc' = "layout" => turn' <= Len(listed') /\ \E i \in 1 .. Len(sessions') : sessions'[i].id = listed'[turn'].id
  BY <1>1 DEF ListInv
<1> QED BY <1>2, <1>3, <1>4, <1>5 DEF ListInv

LEMMA GrowInv ==
  ASSUME PanesInv, DaemonOK(daemon', next + 1), Lives(daemon') \subseteq Lives(daemon) \cup {next},
         next' = next + 1, UNCHANGED <<slots, closing, asked>>
  PROVE  PanesInv'
<1>1. next \in Nat \ {0} /\ SlotsOK(slots, daemon, next) /\ ClosingOK(closing, asked, daemon, next)
  BY DEF PanesInv
<1>2. SlotsOK(slots, daemon', next + 1) /\ ClosingOK(closing, asked, daemon', next + 1)
  BY <1>1, SlotsLater, ClosingLater
<1>3. next' \in Nat \ {0} /\ DaemonOK(daemon', next') /\ SlotsOK(slots', daemon', next')
      /\ ClosingOK(closing', asked', daemon', next')
  BY <1>1, <1>2
<1> QED BY <1>3 DEF PanesInv

LEMMA OtherSpawnInv ==
  ASSUME ViewInv, OtherSpawn
  PROVE  ViewInv'
<1>1. PanesInv /\ SessionsInv /\ ListInv /\ next \in Nat \ {0} /\ DaemonOK(daemon, next)
  BY DEF ViewInv, PanesInv
<1>2. next' = next + 1 /\ UNCHANGED <<slots, closing, asked>> /\ UNCHANGED <<sessions, active, loop>>
  BY DEF OtherSpawn, DaemonStep
<1>3. daemon' = [s \in DOMAIN daemon \cup {next} |-> IF s = next THEN <<Window(next)>> ELSE daemon[s]]
  BY DEF OtherSpawn
<1>4. DaemonOK(daemon', next + 1) /\ Lives(daemon') \subseteq Lives(daemon) \cup {next}
  BY <1>1, <1>3, SpawnGrows
<1> QED BY <1>1, <1>2, <1>4, GrowInv, LoopSame DEF ViewInv

LEMMA OtherSplitInv ==
  ASSUME ViewInv, OtherSplit
  PROVE  ViewInv'
<1>1. PanesInv /\ SessionsInv /\ ListInv /\ next \in Nat \ {0} /\ DaemonOK(daemon, next)
  BY DEF ViewInv, PanesInv
<1>2. next' = next + 1 /\ UNCHANGED <<slots, closing, asked>> /\ UNCHANGED <<sessions, active, loop>>
  BY DEF OtherSplit, DaemonStep
<1>3. PICK s \in DOMAIN daemon : \E j \in DOMAIN daemon[s] : \E p \in ToSet(daemon[s][j].leaves) :
        daemon' = [daemon EXCEPT ![s][j].leaves = InsertAfter(@, p, next)]
  BY DEF OtherSplit
<1>4. PICK j \in DOMAIN daemon[s] : \E p \in ToSet(daemon[s][j].leaves) :
        daemon' = [daemon EXCEPT ![s][j].leaves = InsertAfter(@, p, next)]
  BY <1>3
<1>5. PICK p \in ToSet(daemon[s][j].leaves) :
        daemon' = [daemon EXCEPT ![s][j].leaves = InsertAfter(@, p, next)]
  BY <1>4
<1> DEFINE ds == daemon[s]
           w == ds[j]
           x == [w EXCEPT !.leaves = InsertAfter(@, p, next)]
           ws == [ds EXCEPT ![j] = x]
<1>6. daemon' = [daemon EXCEPT ![s] = ws]
  BY <1>5
<1>7. ds \in Seq(Windows(next)) /\ DOMAIN ds = 1 .. Len(ds) /\ Len(ds) \in Nat /\ w \in Windows(next)
      /\ DOMAIN w.leaves = 1 .. Len(w.leaves)
  BY <1>1, <1>4, WindowFacts
<1>8. x = [w EXCEPT !.leaves = SplitLeaf(@, p, next)]
  <2>1. Contains(w.leaves, p)
    BY <1>7 DEF ToSet, Contains
  <2> QED BY <2>1 DEF SplitLeaf
<1>9. x \in Windows(next + 1) /\ ToSet(x.leaves) \subseteq ToSet(w.leaves) \cup {next}
  BY <1>1, <1>7, <1>8, SplitLeaves
<1>10. \A i \in DOMAIN ds : ToSet(ds[i].leaves) \subseteq Lives(daemon)
  BY <1>3, LivesIn
<1> HIDE DEF x, w
<1>11. ds \in Seq(Windows(next + 1))
  <2>1. ds \in [1 .. Len(ds) -> Windows(next + 1)]
    BY <1>1, <1>7, WindowsGrow
  <2> QED BY <1>7, <2>1, SeqBy
<1>12. ws \in Seq(Windows(next + 1)) /\ DOMAIN ws = DOMAIN ds
  BY <1>9, <1>11, SetAt
<1>13. \A i \in DOMAIN ws : ToSet(ws[i].leaves) \subseteq Lives(daemon) \cup {next}
  <2>1. ASSUME NEW i \in DOMAIN ws PROVE ToSet(ws[i].leaves) \subseteq Lives(daemon) \cup {next}
    <3>1. CASE i = j
      <4>1. ws[i] = x
        BY <1>4, <1>7, <3>1
      <4>2. ToSet(w.leaves) \subseteq Lives(daemon)
        BY <1>4, <1>10 DEF w
      <4> QED BY <1>9, <4>1, <4>2
    <3>2. CASE i # j
      <4>1. ws[i] = ds[i] /\ i \in DOMAIN ds
        BY <1>7, <1>12, <2>1, <3>2
      <4> QED BY <1>10, <4>1
    <3> QED BY <3>1, <3>2
  <2> QED BY <2>1
<1> HIDE DEF ws, ds
<1>14. DaemonOK(daemon', next + 1) /\ Lives(daemon') \subseteq Lives(daemon) \cup {next}
  BY <1>1, <1>3, <1>6, <1>12, <1>13, SessionGrows
<1> QED BY <1>1, <1>2, <1>14, GrowInv, LoopSame DEF ViewInv

\* A window more at the end of a session.
LEMMA AppendWindow ==
  ASSUME NEW d, NEW n \in Nat \ {0}, DaemonOK(d, n), NEW s \in DOMAIN d
  PROVE  LET e == [d EXCEPT ![s] = Append(d[s], Window(n))]
         IN  DaemonOK(e, n + 1) /\ Lives(e) \subseteq Lives(d) \cup {n}
<1> DEFINE ds == d[s]
           ws == Append(ds, Window(n))
<1>1. ds \in Seq(Windows(n)) /\ DOMAIN ds = 1 .. Len(ds) /\ Len(ds) \in Nat
  BY WindowFacts
<1>2. \A i \in DOMAIN ds : ToSet(ds[i].leaves) \subseteq Lives(d)
  BY LivesIn
<1>3. ds \in Seq(Windows(n + 1))
  <2>1. ds \in [1 .. Len(ds) -> Windows(n + 1)]
    BY <1>1, WindowFacts, WindowsGrow
  <2> QED BY <1>1, <2>1, SeqBy
<1>4. Window(n) \in Windows(n + 1) /\ ToSet(Window(n).leaves) = {n}
  BY WindowIn
<1> HIDE DEF ds
<1>5. /\ ws \in Seq(Windows(n + 1)) /\ DOMAIN ws = 1 .. Len(ds) + 1
      /\ \A i \in 1 .. Len(ds) + 1 : ws[i] = IF i <= Len(ds) THEN ds[i] ELSE Window(n)
  BY <1>1, <1>3, <1>4, AppendProperties
<1> HIDE DEF ws
<1>6. \A i \in DOMAIN ws : ToSet(ws[i].leaves) \subseteq Lives(d) \cup {n}
  BY <1>1, <1>2, <1>4, <1>5
<1>7. DaemonOK([d EXCEPT ![s] = ws], n + 1) /\ Lives([d EXCEPT ![s] = ws]) \subseteq Lives(d) \cup {n}
  BY <1>5, <1>6, SessionGrows
<1> QED BY <1>7 DEF ws, ds

LEMMA OtherWindowInv ==
  ASSUME ViewInv, OtherWindow
  PROVE  ViewInv'
<1>1. PanesInv /\ SessionsInv /\ ListInv /\ next \in Nat \ {0} /\ DaemonOK(daemon, next)
  BY DEF ViewInv, PanesInv
<1>2. next' = next + 1 /\ UNCHANGED <<slots, closing, asked>> /\ UNCHANGED <<sessions, active, loop>>
  BY DEF OtherWindow, DaemonStep
<1>3. PICK s \in DOMAIN daemon : daemon' = [daemon EXCEPT ![s] = Append(daemon[s], Window(next))]
  BY DEF OtherWindow
<1>4. DaemonOK(daemon', next + 1) /\ Lives(daemon') \subseteq Lives(daemon) \cup {next}
  BY <1>1, <1>3, AppendWindow
<1> QED BY <1>1, <1>2, <1>4, GrowInv, LoopSame DEF ViewInv

\* A pane ends: its streams end, and the RPCs sent for it are harmless.
LEMMA GoneInv ==
  ASSUME PanesInv, NEW p, Gone(p), next' = next, asked' = asked, closing' \subseteq closing
  PROVE  PanesInv'
<1>1. next \in Nat \ {0} /\ DaemonOK(daemon, next) /\ SlotsOK(slots, daemon, next)
      /\ ClosingOK(closing, asked, daemon, next)
  BY DEF PanesInv
<1>2. daemon' = Without(daemon, p)
  BY DEF Gone
<1>3. DaemonOK(daemon', next) /\ Lives(daemon') \subseteq Lives(daemon) \ {p}
  BY <1>1, <1>2, WithoutPane
<1>4. PICK mute \in BOOLEAN : slots' = EndStreams(slots, p, mute)
  BY DEF Gone
<1>5. SlotsOK(slots', daemon', next)
  BY <1>1, <1>3, <1>4, EndStreamsOK
<1>6. ClosingOK(closing', asked', daemon', next)
  BY <1>1, <1>3 DEF ClosingOK
<1>7. next' \in Nat \ {0} /\ DaemonOK(daemon', next') /\ SlotsOK(slots', daemon', next')
      /\ ClosingOK(closing', asked', daemon', next')
  BY <1>1, <1>3, <1>5, <1>6
<1> QED BY <1>7 DEF PanesInv

LEMMA PaneEndInv ==
  ASSUME ViewInv, PaneExit \/ ServeClose
  PROVE  ViewInv'
<1>1. PanesInv /\ SessionsInv /\ ListInv /\ next \in Nat
  BY DEF ViewInv, PanesInv
<1>2. next' = next /\ asked' = asked /\ closing' \subseteq closing /\ UNCHANGED <<sessions, active, loop>>
  BY DEF PaneExit, ServeClose, DaemonStep
<1>3. (\E p : Gone(p)) \/ (daemon' = daemon /\ slots' = slots)
  BY DEF PaneExit, ServeClose
<1>4. CASE \E p : Gone(p)
  BY <1>1, <1>2, <1>4, GoneInv, LoopSame DEF ViewInv
<1>5. CASE daemon' = daemon /\ slots' = slots
  <2>1. PanesInv'
    BY <1>1, <1>2, <1>5 DEF PanesInv, ClosingOK
  <2> QED BY <1>1, <1>2, <2>1, LoopSame DEF ViewInv
<1> QED BY <1>3, <1>4, <1>5

LEMMA EvictInv ==
  ASSUME ViewInv, Evict
  PROVE  ViewInv'
<1>1. PanesInv /\ SessionsInv /\ ListInv /\ next \in Nat \ {0} /\ DaemonOK(daemon, next)
      /\ SlotsOK(slots, daemon, next) /\ ClosingOK(closing, asked, daemon, next)
  BY DEF ViewInv, PanesInv
<1>2. next' = next /\ asked' = asked /\ closing' = closing /\ slots' = slots /\ UNCHANGED <<sessions, active, loop>>
  BY DEF Evict, DaemonStep
<1>3. PICK s \in DOMAIN daemon : daemon' = [t \in DOMAIN daemon \ {s} |-> daemon[t]]
  BY DEF Evict
<1>4. DaemonOK(daemon', next)
  BY <1>1, <1>3 DEF DaemonOK
<1>5. Lives(daemon') \subseteq Lives(daemon)
  BY <1>3, LivesIn
<1>6. SlotsOK(slots, daemon', next) /\ ClosingOK(closing, asked, daemon', next)
  BY <1>1, <1>5, SlotsLater, ClosingLater
<1>7. PanesInv'
  BY <1>1, <1>2, <1>4, <1>6 DEF PanesInv
<1> QED BY <1>1, <1>2, <1>7, LoopSame DEF ViewInv

LEMMA DaemonDiesInv ==
  ASSUME ViewInv, DaemonDies
  PROVE  ViewInv'
<1>1. PanesInv /\ SessionsInv /\ ListInv /\ next \in Nat \ {0}
      /\ SlotsOK(slots, daemon, next) /\ ClosingOK(closing, asked, daemon, next)
  BY DEF ViewInv, PanesInv
<1>2. next' = next /\ asked' = asked /\ closing' = closing /\ UNCHANGED <<sessions, active, loop>>
  BY DEF DaemonDies, hist
<1>3. DOMAIN daemon' = {} /\ daemon' = [s \in {} |-> <<>>]
  BY DEF DaemonDies
<1>4. DaemonOK(daemon', next) /\ Lives(daemon') = {}
  BY <1>3 DEF DaemonOK, Lives
<1>5. DOMAIN slots = 1 .. Len(slots) /\ Len(slots) \in Nat
  BY <1>1, SlotFacts
<1>6. slots' = [k \in 1 .. Len(slots) |-> slots'[k]]
      /\ \A k \in 1 .. Len(slots) : slots'[k] = IF slots[k] # Nil /\ slots[k].ev = "open"
                                                THEN Slot(slots[k].pane, "eofN") ELSE slots[k]
  BY <1>5 DEF DaemonDies
<1>7. \A k \in 1 .. Len(slots) : slots'[k] \in SlotSet(next)
  <2>1. ASSUME NEW k \in 1 .. Len(slots) PROVE slots'[k] \in SlotSet(next)
    <3>1. slots[k] \in SlotSet(next) /\ (slots[k] # Nil => slots[k].pane \in 1 .. next - 1)
      BY <1>1, <2>1, SlotFacts
    <3>2. "eofN" \in Events
      BY DEF Events
    <3> QED BY <1>1, <1>6, <3>1, <3>2, SlotIn
  <2> QED BY <2>1
<1>8. SlotsOK(slots', daemon', next)
  BY <1>1, <1>4, <1>5, <1>6, <1>7, SlotsMap
<1>9. ClosingOK(closing', asked', daemon', next)
  BY <1>1, <1>2, <1>4 DEF ClosingOK
<1>10. PanesInv'
  BY <1>1, <1>2, <1>4, <1>8, <1>9 DEF PanesInv
<1> QED BY <1>1, <1>2, <1>10, LoopSame DEF ViewInv

LEMMA DaemonInv ==
  ASSUME ViewInv, DaemonNext
  PROVE  ViewInv'
<1>1. CASE SelectPane
  <2>1. /\ UNCHANGED <<daemon, next, slots, closing, asked>> /\ UNCHANGED <<sessions, active, loop>>
        /\ PanesInv /\ SessionsInv /\ ListInv /\ next \in Nat
    BY <1>1 DEF SelectPane, DaemonStep, ViewInv, PanesInv
  <2>2. PanesInv'
    BY <2>1 DEF PanesInv
  <2> QED BY <2>1, <2>2, LoopSame DEF ViewInv
<1> QED BY <1>1, OtherSpawnInv, OtherSplitInv, OtherWindowInv, PaneEndInv, EvictInv, DaemonDiesInv DEF DaemonNext

-----------------------------------------------------------------------------
(* The event loop *)

\* The first session with an id, which is what IndexOf looks for.
FirstId(s, id) == SelectInSeq(s, LAMBDA x : x.id = id)

LEMMA FirstWithId ==
  ASSUME NEW S, NEW s \in Seq(S), NEW id
  PROVE  IF \E i \in 1 .. Len(s) : s[i].id = id
         THEN FirstId(s, id) \in 1 .. Len(s) /\ s[FirstId(s, id)].id = id ELSE FirstId(s, id) = 0
<1> DEFINE T == {i \in 1 .. Len(s) : s[i].id = id}
           k == FirstId(s, id)
<1>1. k = IF T # {} THEN Min(T) ELSE 0
  BY DEF SelectInSeq, FirstId
<1>2. T \subseteq Nat
  OBVIOUS
<1> HIDE DEF k
<1>3. CASE T = {}
  BY <1>1, <1>3 DEF k
<1>4. CASE T # {}
  <2> HIDE DEF T
  <2>1. Min(T) \in T
    BY <1>2, <1>4, MinIsLeast
  <2>2. k \in T
    BY <1>1, <1>4, <2>1
  <2> QED BY <2>2 DEF T, k
<1> QED BY <1>3, <1>4

\* The view is sound while the loop runs, and a sound view is one to go on with.
LEMMA ViewNow ==
  ASSUME ViewInv, pc \notin Idle
  PROVE  /\ ViewOK(view, daemon, next, asked) /\ next \in Nat \ {0} /\ DaemonOK(daemon, next)
         /\ view.sessions = sessions /\ view.active = active /\ view.slots = slots /\ view.closing = closing
         /\ sessions \in Seq(SessionSet) /\ active \in 1 .. Len(sessions) /\ sessions[active] \in SessionSet
         /\ SlotsOK(slots, daemon, next) /\ ClosingOK(closing, asked, daemon, next)
<1>1. next \in Nat \ {0} /\ DaemonOK(daemon, next) /\ SlotsOK(slots, daemon, next)
      /\ ClosingOK(closing, asked, daemon, next)
  BY DEF ViewInv, PanesInv
<1>2. sessions \in Seq(SessionSet) /\ active \in 1 .. Len(sessions) /\ active \in Nat
  BY DEF ViewInv, SessionsInv
<1>3. view.sessions = sessions /\ view.active = active /\ view.slots = slots /\ view.closing = closing
      /\ DOMAIN view = {"sessions", "active", "slots", "closing"}
  BY DEF view
<1>4. sessions[active] \in SessionSet
  BY <1>2, SessionsFacts
<1>5. ViewOK(view, daemon, next, asked)
  BY <1>1, <1>2, <1>3 DEF ViewOK
<1> QED BY <1>1, <1>2, <1>3, <1>4, <1>5

LEMMA PanesBecome ==
  ASSUME NEW v, ViewOK(v, daemon', next', asked'), Become(v), next' \in Nat \ {0}, DaemonOK(daemon', next'),
         v.sessions = <<>> => pc' = "end"
  PROVE  PanesInv' /\ SessionsInv'
<1>1. sessions' = v.sessions /\ active' = v.active /\ slots' = v.slots /\ closing' = v.closing
  BY DEF Become
<1>2. SlotsOK(slots', daemon', next') /\ ClosingOK(closing', asked', daemon', next')
  BY <1>1 DEF ViewOK
<1>3. sessions' \in Seq(SessionSet) /\ active' \in Nat /\ (sessions' # <<>> => active' \in 1 .. Len(sessions'))
  BY <1>1 DEF ViewOK
<1>4. PanesInv'
  BY <1>2 DEF PanesInv
<1>5. SessionsInv'
  BY <1>1, <1>3 DEF SessionsInv, Idle
<1> QED BY <1>4, <1>5

LEMMA PanesSame ==
  ASSUME PanesInv, UNCHANGED <<next, daemon, slots, closing, asked>>
  PROVE  PanesInv'
BY DEF PanesInv

LEMMA ListSame ==
  ASSUME ListInv, next \in Nat, UNCHANGED <<listed, turn, found>>, next' \in {next, next + 1}, pc' # "layout"
  PROVE  ListInv'
<1>1. ASSUME NEW a \in Nat, NEW b \in {a, a + 1} PROVE 1 .. a - 1 \subseteq 1 .. b - 1
  OBVIOUS
<1>2. 1 .. next - 1 \subseteq 1 .. next' - 1 /\ found \subseteq 1 .. next - 1
  BY <1>1 DEF ListInv
<1>3. found' \subseteq 1 .. next' - 1
  BY <1>2
<1>4. ListOK(listed') /\ turn' \in Nat \ {0}
  BY DEF ListInv
<1> QED BY <1>3, <1>4 DEF ListInv

LEMMA ListingOK ==
  ASSUME NEW n \in Nat, DaemonOK(daemon, n)
  PROVE  ListOK(Listing) /\ ListOK(<<>>)
<1> DEFINE q == Ascending(DOMAIN daemon, MaxPanes)
           f == Listing
<1>1. f = [k \in DOMAIN q |-> Info(q[k])]
  BY DEF Listing
<1>2. q \in Seq(DOMAIN daemon \cap (1 .. MaxPanes))
  BY TuiAssumption, AscendingSeq
<1> HIDE DEF q, f
<1>3. DOMAIN q = 1 .. Len(q) /\ Len(q) \in Nat /\ \A k \in 1 .. Len(q) : q[k] \in Nat
  <2>1. q \in Seq(Nat)
    BY <1>2, SeqSub
  <2> QED BY <2>1
<1>4. DOMAIN f = 1 .. Len(q) /\ f = [k \in 1 .. Len(q) |-> f[k]]
  BY <1>1, <1>3
<1>5. f \in Seq(ToSet(f)) /\ Len(f) = Len(q)
  BY <1>3, <1>4, FunIsSeq
<1>6. \A k \in 1 .. Len(f) : f[k].id \in Nat
  BY <1>1, <1>3, <1>5 DEF Info
<1>7. ListOK(<<>>)
  BY DEF ListOK, ToSet
<1>8. ListOK(f)
  BY <1>5, <1>6 DEF ListOK
<1> QED BY <1>7, <1>8 DEF f

\* A step that only looks: the daemon, the view and the answers stay.
LEMMA StartListInv ==
  ASSUME ViewInv, StartList
  PROVE  ViewInv'
<1>1. PanesInv /\ SessionsInv /\ ListInv /\ next \in Nat /\ DaemonOK(daemon, next)
  BY DEF ViewInv, PanesInv
<1>2. /\ UNCHANGED <<next, daemon, slots, closing, asked>> /\ sessions' = sessions /\ active' = active
      /\ pc' = "attach" /\ turn' = turn /\ found' = found /\ listed' = Listing
  BY DEF StartList, LoopStep, dvars, app
<1>3. PanesInv'
  BY <1>1, <1>2, PanesSame
<1>4. SessionsInv'
  BY <1>1, <1>2 DEF SessionsInv, Idle
<1>5. ListInv'
  <2>1. ListOK(listed')
    BY <1>1, <1>2, ListingOK
  <2>2. turn' \in Nat \ {0} /\ found' \subseteq 1 .. next' - 1
    BY <1>1, <1>2 DEF ListInv
  <2> QED BY <1>2, <2>1, <2>2 DEF ListInv
<1> QED BY <1>3, <1>4, <1>5 DEF ViewInv

LEMMA EagerListInv ==
  ASSUME ViewInv, EagerList
  PROVE  ViewInv'
<1>1. PanesInv /\ SessionsInv /\ ListInv /\ next \in Nat /\ DaemonOK(daemon, next)
  BY DEF ViewInv, PanesInv
<1>2. /\ UNCHANGED <<next, daemon, slots, closing, asked>> /\ sessions' = sessions /\ active' = active
      /\ pc = "eager" /\ pc' = "discover" /\ turn' = turn /\ found' = found /\ listed' \in {Listing, <<>>}
  BY DEF EagerList, LoopStep, dvars, app
<1>3. PanesInv'
  BY <1>1, <1>2, PanesSame
<1>4. SessionsInv'
  BY <1>1, <1>2 DEF SessionsInv, Idle
<1>5. ListInv'
  <2>1. ListOK(listed')
    BY <1>1, <1>2, ListingOK
  <2>2. turn' \in Nat \ {0} /\ found' \subseteq 1 .. next' - 1
    BY <1>1, <1>2 DEF ListInv
  <2> QED BY <1>2, <2>1, <2>2 DEF ListInv
<1> QED BY <1>3, <1>4, <1>5 DEF ViewInv

LEMMA SyncStartInv ==
  ASSUME ViewInv, SyncSkip \/ SyncError \/ SyncList
  PROVE  ViewInv'
<1>1. PanesInv /\ SessionsInv /\ ListInv /\ next \in Nat /\ DaemonOK(daemon, next)
  BY DEF ViewInv, PanesInv
<1>2. /\ UNCHANGED <<next, daemon, slots, closing, asked>> /\ sessions' = sessions /\ active' = active
      /\ pc = "poll" /\ pc' \in {"resync", "adopt"} /\ turn' = turn /\ found' = found
      /\ listed' \in {Listing, listed}
  BY DEF SyncSkip, SyncError, SyncList, LoopStep, dvars, app, rpc
<1>3. PanesInv'
  BY <1>1, <1>2, PanesSame
<1>4. SessionsInv'
  BY <1>1, <1>2 DEF SessionsInv, Idle
<1>5. ListInv'
  <2>1. ListOK(listed')
    <3>1. ListOK(listed) /\ ListOK(Listing)
      BY <1>1, ListingOK DEF ListInv
    <3> QED BY <1>2, <3>1
  <2>2. turn' \in Nat \ {0} /\ found' \subseteq 1 .. next' - 1
    BY <1>1, <1>2 DEF ListInv
  <2> QED BY <1>2, <2>1, <2>2 DEF ListInv
<1> QED BY <1>3, <1>4, <1>5 DEF ViewInv

\* The attachment a step makes itself.
LEMMA SlotOpen ==
  ASSUME NEW n \in Nat, NEW p \in 1 .. n - 1
  PROVE  Slot(p, "open") \in NewSlots(n)
BY DEF Slot, NewSlots, Events

LEMMA StartAttachInv ==
  ASSUME ViewInv, StartAttach
  PROVE  ViewInv'
<1>1. PanesInv /\ SessionsInv /\ ListInv /\ next \in Nat \ {0} /\ DaemonOK(daemon, next)
      /\ ClosingOK(closing, asked, daemon, next)
  BY DEF ViewInv, PanesInv
<1>2. /\ closing' = closing /\ asked' = asked /\ active' = 1 /\ pc' = "eager"
      /\ listed' = listed /\ turn' = turn /\ found' = found
  BY DEF StartAttach, rpc, hist
<1>3. \E s : \/ /\ PanesOf(daemon, s) # {}
                /\ \E p \in PanesOf(daemon, s) : slots' = <<Slot(p, "open")>> /\ sessions' = <<SessionView(s, p, Nil)>>
                /\ UNCHANGED <<daemon, next>>
             \/ /\ daemon' = [t \in DOMAIN daemon \cup {next} |-> IF t = next THEN <<Window(next)>> ELSE daemon[t]]
                /\ slots' = <<Slot(next, "open")>>
                /\ sessions' = <<SessionView(next, next, Nil)>>
                /\ next' = next + 1
  <2> DEFINE k == SelectInSeq(listed, LAMBDA x : x.n > 0)
             s == IF k = 0 THEN Nil ELSE listed[k].id
  <2>1. \/ /\ PanesOf(daemon, s) # {}
           /\ \E p \in PanesOf(daemon, s) : slots' = <<Slot(p, "open")>> /\ sessions' = <<SessionView(s, p, Nil)>>
           /\ UNCHANGED <<daemon, next>>
        \/ /\ daemon' = [t \in DOMAIN daemon \cup {next} |-> IF t = next THEN <<Window(next)>> ELSE daemon[t]]
           /\ slots' = <<Slot(next, "open")>>
           /\ sessions' = <<SessionView(next, next, Nil)>>
           /\ next' = next + 1
    BY DEF StartAttach
  <2> HIDE DEF s
  <2> QED BY <2>1
<1>4. \E s \in Nat, p \in 1 .. next' - 1 :
        /\ slots' = <<Slot(p, "open")>> /\ sessions' = <<SessionView(s, p, Nil)>> /\ next' \in {next, next + 1}
        /\ DaemonOK(daemon', next') /\ Lives(daemon') \subseteq Lives(daemon) \cup {next}
  <2>1. ASSUME NEW s, NEW p \in PanesOf(daemon, s), UNCHANGED <<daemon, next>>
        PROVE  s \in Nat /\ p \in 1 .. next' - 1
    <3>1. s \in DOMAIN daemon
      BY <2>1 DEF PanesOf
    <3>2. p \in 1 .. next - 1
      BY <1>1, <2>1, PanesOfLives, LivesBelow
    <3> QED BY <1>1, <2>1, <3>1, <3>2 DEF DaemonOK
  <2>2. CASE daemon' = [t \in DOMAIN daemon \cup {next} |-> IF t = next THEN <<Window(next)>> ELSE daemon[t]]
             /\ slots' = <<Slot(next, "open")>> /\ sessions' = <<SessionView(next, next, Nil)>> /\ next' = next + 1
    <3>1. DaemonOK(daemon', next') /\ Lives(daemon') \subseteq Lives(daemon) \cup {next}
      BY <1>1, <2>2, SpawnGrows
    <3>2. next \in Nat /\ next \in 1 .. next' - 1
      BY <1>1, <2>2
    <3> QED BY <2>2, <3>1, <3>2
  <2>3. CASE \E s : \E p \in PanesOf(daemon, s) :
               slots' = <<Slot(p, "open")>> /\ sessions' = <<SessionView(s, p, Nil)>> /\ UNCHANGED <<daemon, next>>
    <3>1. PICK s, p : p \in PanesOf(daemon, s) /\ slots' = <<Slot(p, "open")>>
                      /\ sessions' = <<SessionView(s, p, Nil)>> /\ UNCHANGED <<daemon, next>>
      BY <2>3
    <3>2. s \in Nat /\ p \in 1 .. next' - 1
      BY <2>1, <3>1
    <3>3. DaemonOK(daemon', next') /\ Lives(daemon') \subseteq Lives(daemon) \cup {next}
      BY <1>1, <3>1
    <3> QED BY <3>1, <3>2, <3>3
  <2> QED BY <1>3, <2>2, <2>3
<1>5. PICK s \in Nat, p \in 1 .. next' - 1 :
        /\ slots' = <<Slot(p, "open")>> /\ sessions' = <<SessionView(s, p, Nil)>> /\ next' \in {next, next + 1}
        /\ DaemonOK(daemon', next') /\ Lives(daemon') \subseteq Lives(daemon) \cup {next}
  BY <1>4
<1>6. next' \in Nat \ {0} /\ p \in Nat
  BY <1>1, <1>5
<1>7. SlotsOK(slots', daemon', next')
  <2> DEFINE f == <<Slot(p, "open")>>
  <2>1. Slot(p, "open") \in SlotSet(next') /\ Slot(p, "open").ev = "open"
    BY <1>6, SlotIn DEF Events
  <2>2. f = [k \in 1 .. 1 |-> f[k]] /\ \A k \in 1 .. 1 : f[k] = Slot(p, "open")
    OBVIOUS
  <2> HIDE DEF f
  <2>3. SlotsOK(f, daemon', next')
    BY <1>6, <2>1, <2>2, SlotsMap
  <2> QED BY <1>5, <2>3 DEF f
<1>8. ClosingOK(closing', asked', daemon', next')
  BY <1>1, <1>2, <1>5, ClosingLater
<1>9. sessions' \in Seq(SessionSet) /\ Len(sessions') = 1
  <2>1. SessionView(s, p, Nil) \in SessionSet
    BY <1>6, SessionNew
  <2> QED BY <1>5, <2>1
<1>10. PanesInv' /\ SessionsInv'
  BY <1>2, <1>5, <1>6, <1>7, <1>8, <1>9 DEF PanesInv, SessionsInv
<1>11. ListInv'
  BY <1>1, <1>2, <1>5, ListSame
<1> QED BY <1>10, <1>11 DEF ViewInv

\* One listed session, adopted or skipped.
LEMMA AdoptOK ==
  ASSUME NEW n \in Nat, DaemonOK(daemon, n), SlotsOK(slots, daemon, n), sessions \in Seq(SessionSet), AdoptHead
  PROVE  SlotsOK(slots', daemon, n) /\ sessions' \in Seq(SessionSet) /\ Len(sessions') >= Len(sessions)
<1>1. Len(sessions) \in Nat
  BY SessionsFacts
<1>2. CASE UNCHANGED <<sessions, slots>>
  BY <1>1, <1>2
<1>3. CASE ~UNCHANGED <<sessions, slots>>
  <2> DEFINE s == listed[turn].id
  <2>1. PICK p \in PanesOf(daemon, s) : \E x \in Attachments(p) :
          slots' = Append(slots, x) /\ sessions' = Append(sessions, SessionView(s, p, Nil))
    BY <1>3 DEF AdoptHead
  <2>2. PICK x \in Attachments(p) : slots' = Append(slots, x) /\ sessions' = Append(sessions, SessionView(s, p, Nil))
    BY <2>1
  <2> HIDE DEF s
  <2>3. s \in Nat
    BY <2>1 DEF PanesOf, DaemonOK
  <2>4. p \in 1 .. n - 1
    BY <2>1, PanesOfLives, LivesBelow
  <2>5. x \in NewSlots(n)
    BY <2>2, <2>4, AttachmentsIn
  <2>6. SlotsOK(slots', daemon, n)
    BY <2>2, <2>5, SlotsAppend
  <2>7. SessionView(s, p, Nil) \in SessionSet
    <3>1. p \in Nat
      BY <2>4
    <3> QED BY <2>3, <3>1, SessionNew
  <2> DEFINE y == SessionView(s, p, Nil)
  <2> HIDE DEF y
  <2>8. Append(sessions, y) \in Seq(SessionSet) /\ Len(Append(sessions, y)) = Len(sessions) + 1
    BY <2>7, AppendProperties DEF y
  <2> QED BY <1>1, <2>2, <2>6, <2>8 DEF y
<1> QED BY <1>2, <1>3

LEMMA AdoptInv ==
  ASSUME ViewInv, Discover \/ SyncAdopt
  PROVE  ViewInv'
<1>1. PanesInv /\ SessionsInv /\ ListInv /\ next \in Nat \ {0} /\ DaemonOK(daemon, next)
      /\ SlotsOK(slots, daemon, next) /\ sessions \in Seq(SessionSet)
  BY DEF ViewInv, PanesInv, SessionsInv
<1>2. /\ UNCHANGED <<next, daemon, closing, asked>> /\ active' = active /\ found' = found
      /\ pc \in {"discover", "adopt"} /\ pc' \in {"discover", "adopt", "drain", "panes"}
      /\ turn' \in {1, turn + 1} /\ listed' \in {<<>>, listed}
      /\ AdoptHead \/ UNCHANGED <<sessions, slots>>
  BY DEF Discover, SyncAdopt, LoopStep, dvars
<1>3. SlotsOK(slots', daemon, next) /\ sessions' \in Seq(SessionSet) /\ Len(sessions') >= Len(sessions)
  <2>1. CASE AdoptHead
    BY <1>1, <2>1, AdoptOK
  <2>2. CASE UNCHANGED <<sessions, slots>>
    <3>1. Len(sessions) \in Nat
      BY <1>1, SessionsFacts
    <3> QED BY <1>1, <2>2, <3>1
  <2> QED BY <1>2, <2>1, <2>2
<1>4. PanesInv'
  BY <1>1, <1>2, <1>3 DEF PanesInv
<1>5. SessionsInv'
  <2>1. active \in 1 .. Len(sessions) /\ Len(sessions) \in Nat /\ Len(sessions') \in Nat
    BY <1>1, <1>2, <1>3, SessionsFacts DEF SessionsInv, Idle
  <2>2. active \in Nat /\ active \in 1 .. Len(sessions')
    BY <1>3, <2>1
  <2> QED BY <1>2, <1>3, <2>2 DEF SessionsInv
<1>6. ListInv'
  <2>1. ListOK(listed')
    <3>1. ListOK(listed) /\ ListOK(<<>>)
      BY <1>1, ListingOK DEF ListInv
    <3> QED BY <1>2, <3>1
  <2>2. turn' \in Nat \ {0} /\ found' \subseteq 1 .. next' - 1
    BY <1>1, <1>2 DEF ListInv
  <2> QED BY <1>2, <2>1, <2>2 DEF ListInv
<1> QED BY <1>4, <1>5, <1>6 DEF ViewInv

LEMMA SyncPanesInv ==
  ASSUME ViewInv, SyncPanes
  PROVE  ViewInv'
<1>1. PanesInv /\ SessionsInv /\ ListInv /\ next \in Nat /\ DaemonOK(daemon, next) /\ sessions \in Seq(SessionSet)
  BY DEF ViewInv, PanesInv, SessionsInv
<1> DEFINE id == listed[turn].id
<1>2. /\ UNCHANGED <<next, daemon, slots, closing, asked>> /\ sessions' = sessions /\ active' = active
      /\ pc = "panes" /\ pc' \in {"panes", "layout"} /\ listed' = listed /\ turn <= Len(listed)
      /\ \/ turn' = turn + 1 /\ found' = found /\ pc' = "panes"
         \/ turn' = turn /\ found' = PanesOf(daemon, id) /\ IndexOf(id) # 0
  BY DEF SyncPanes, LoopStep, dvars, app
<1>3. PanesInv'
  BY <1>1, <1>2, PanesSame
<1>4. SessionsInv'
  BY <1>1, <1>2 DEF SessionsInv, Idle
<1>5. turn' \in Nat \ {0} /\ ListOK(listed')
  BY <1>1, <1>2 DEF ListInv
<1>6. found' \subseteq 1 .. next' - 1
  <2>1. PanesOf(daemon, id) \subseteq 1 .. next - 1 /\ found \subseteq 1 .. next - 1
    BY <1>1, PanesOfLives, LivesBelow DEF ListInv
  <2> QED BY <1>2, <2>1
<1>7. ASSUME pc' = "layout" PROVE turn <= Len(listed) /\ turn' = turn /\ \E i \in 1 .. Len(sessions) : sessions[i].id = id
  <2>1. IndexOf(id) # 0 /\ turn' = turn
    BY <1>2, <1>7
  <2> HIDE DEF id
  <2>2. FirstId(sessions, id) # 0
    BY <2>1 DEF IndexOf, FirstId
  <2>3. \E i \in 1 .. Len(sessions) : sessions[i].id = id
    BY <1>1, <2>2, FirstWithId
  <2> QED BY <1>2, <2>1, <2>3
<1>8. ListInv'
  BY <1>2, <1>5, <1>6, <1>7 DEF ListInv
<1> QED BY <1>3, <1>4, <1>8 DEF ViewInv

LEMMA DrainInv ==
  ASSUME ViewInv, Drain
  PROVE  ViewInv'
<1> DEFINE T == {k \in DOMAIN slots : slots[k] # Nil /\ slots[k].ev \in {"eof0", "eofN"}}
           K == T \cap (1 .. Len(slots))
           ks == Closed(slots)
           u == [view EXCEPT !.slots = Consumed(slots)]
           v == CloseAll(u, ks)
<1>1. /\ UNCHANGED <<next, daemon, asked>> /\ pc = "drain" /\ Become(v)
      /\ pc' = (IF v.sessions = <<>> THEN "end" ELSE "focus") /\ UNCHANGED <<listed, turn, found>>
  BY DEF Drain, LoopStep, dvars, rpc
<1>2. /\ ViewOK(view, daemon, next, asked) /\ next \in Nat \ {0} /\ DaemonOK(daemon, next)
      /\ SlotsOK(slots, daemon, next)
  BY <1>1, ViewNow DEF Idle
<1>3. Len(slots) \in Nat /\ DOMAIN slots = 1 .. Len(slots)
      /\ \A k \in 1 .. Len(slots) : slots[k] # Nil => (slots[k].ev = "eofN" => slots[k].pane \notin Lives(daemon))
  BY <1>2, SlotFacts
<1>4. ks \in Seq(K)
  <2>1. ks = Ascending(T, Len(slots))
    BY DEF Closed
  <2> HIDE DEF ks, T
  <2> QED BY <1>3, <2>1, AscendingSeq
<1>5. /\ SlotsOK(Consumed(slots), daemon, next) /\ Len(Consumed(slots)) = Len(slots)
      /\ \A k \in 1 .. Len(slots) : slots[k] # Nil =>
           Consumed(slots)[k] = Nil \/ Consumed(slots)[k].pane = slots[k].pane
  BY <1>2, ConsumedOK
<1>6. ViewOK(u, daemon, next, asked)
  BY <1>2, <1>5, ViewSlots
<1>7. u.slots = Consumed(slots)
  BY DEF view
<1> HIDE DEF u, ks
<1>8. \A k \in K : FiresRpc(slots[k]) =>
        k \notin DOMAIN u.slots \/ u.slots[k] = Nil \/ u.slots[k].pane \notin Lives(daemon)
  <2>1. ASSUME NEW k \in K, FiresRpc(slots[k]) PROVE u.slots[k] = Nil \/ u.slots[k].pane \notin Lives(daemon)
    <3>1. k \in 1 .. Len(slots) /\ slots[k] # Nil /\ slots[k].ev = "eofN"
      BY <2>1 DEF FiresRpc
    <3> QED BY <1>3, <1>5, <1>7, <3>1
  <2> QED BY <2>1
<1> HIDE DEF K
<1>9. ViewOK(v, daemon, next, asked)
  BY <1>2, <1>4, <1>6, <1>8, CloseAllOK
<1> HIDE DEF v
<1>10. PanesInv' /\ SessionsInv'
  BY <1>1, <1>2, <1>9, PanesBecome
<1>11. ListInv /\ pc' # "layout"
  BY <1>1 DEF ViewInv
<1>12. ListInv'
  BY <1>1, <1>2, <1>11, ListSame
<1> QED BY <1>10, <1>12 DEF ViewInv

\* One tab of the view changes.
WithTab(v, i, j, t) ==
  [v EXCEPT !.sessions = [v.sessions EXCEPT ![i] =
     [v.sessions[i] EXCEPT !.tabs = [v.sessions[i].tabs EXCEPT ![j] = t]]]]

LEMMA ViewTab ==
  ASSUME NEW v, NEW d, NEW n, NEW as, ViewOK(v, d, n, as), NEW i \in 1 .. Len(v.sessions), NEW j, NEW t \in TabSet
  PROVE  ViewOK(WithTab(v, i, j, t), d, n, as) /\ Len(WithTab(v, i, j, t).sessions) = Len(v.sessions)
<1> DEFINE x == v.sessions[i]
           y == [x EXCEPT !.tabs = [x.tabs EXCEPT ![j] = t]]
<1>1. x \in SessionSet
  BY SessionsFacts DEF ViewOK
<1> HIDE DEF x
<1>2. y \in SessionSet
  BY <1>1, SessionTab
<1> HIDE DEF y
<1>3. /\ ViewOK([v EXCEPT !.sessions = [v.sessions EXCEPT ![i] = y]], d, n, as)
      /\ Len([v EXCEPT !.sessions = [v.sessions EXCEPT ![i] = y]].sessions) = Len(v.sessions)
  BY <1>2, ViewSession
<1> QED BY <1>3 DEF WithTab, x, y

\* The active tab of a view that has sessions.
LEMMA ActiveOf ==
  ASSUME NEW v, NEW d, NEW n, NEW as, ViewOK(v, d, n, as), v.active \in 1 .. Len(v.sessions)
  PROVE  /\ v.sessions[v.active] \in SessionSet
         /\ v.sessions[v.active].at \in 1 .. Len(v.sessions[v.active].tabs)
         /\ ActiveTab(v) \in TabSet /\ ActiveTab(v) = v.sessions[v.active].tabs[v.sessions[v.active].at]
<1> DEFINE x == v.sessions[v.active]
<1>1. x \in SessionSet
  BY SessionsFacts DEF ViewOK
<1>2. ActiveTab(v) = x.tabs[x.at]
  BY DEF ActiveTab
<1> HIDE DEF x
<1>3. x.at \in 1 .. Len(x.tabs) /\ x.tabs[x.at] \in TabSet
  BY <1>1, SessionFacts
<1>4. x \in SessionSet /\ x.at \in 1 .. Len(x.tabs) /\ ActiveTab(v) \in TabSet /\ ActiveTab(v) = x.tabs[x.at]
  BY <1>1, <1>2, <1>3
<1> QED BY <1>4 DEF x

LEMMA FocusOK ==
  ASSUME NEW v, NEW d, NEW n, NEW as, ViewOK(v, d, n, as), v.active \in 1 .. Len(v.sessions), NEW p
  PROVE  ViewOK(focus_slot(v, p), d, n, as) /\ Len(focus_slot(v, p).sessions) = Len(v.sessions)
<1>1. CASE HasSlot(v.slots, p) /\ Contains(ActiveTab(v).root, p)
  <2> DEFINE a == v.active
             x == v.sessions[a]
             b == x.at
             t == [x.tabs[b] EXCEPT !.focus = p]
  <2>1. focus_slot(v, p) = WithTab(v, a, b, t)
    BY <1>1 DEF focus_slot, WithTab
  <2>2. x.tabs[b] \in TabSet /\ Contains(x.tabs[b].root, p)
    <3>1. ActiveTab(v) \in TabSet /\ ActiveTab(v) = x.tabs[b]
      BY ActiveOf
    <3> QED BY <1>1, <3>1
  <2>3. t \in TabSet
    BY <2>2, TabFocus
  <2> HIDE DEF t, b
  <2>4. ViewOK(WithTab(v, a, b, t), d, n, as) /\ Len(WithTab(v, a, b, t).sessions) = Len(v.sessions)
    BY <2>3, ViewTab
  <2> QED BY <2>1, <2>4
<1>2. CASE ~(HasSlot(v.slots, p) /\ Contains(ActiveTab(v).root, p))
  BY <1>2 DEF focus_slot
<1> QED BY <1>1, <1>2

LEMMA FocusRequestInv ==
  ASSUME ViewInv, apply_focus_request
  PROVE  ViewInv'
<1>1. /\ UNCHANGED <<next, daemon, asked>> /\ pc = "focus" /\ pc' = "poll" /\ UNCHANGED <<listed, turn, found>>
      /\ Become(focus_slot(view, request)) \/ Become(view)
  BY DEF apply_focus_request, rpc, hist, Become, view
<1>2. /\ ViewOK(view, daemon, next, asked) /\ next \in Nat \ {0} /\ DaemonOK(daemon, next)
      /\ view.sessions = sessions /\ view.active = active
      /\ sessions \in Seq(SessionSet) /\ active \in 1 .. Len(sessions)
  BY <1>1, ViewNow DEF Idle
<1> DEFINE v == focus_slot(view, request)
<1>3. view.active \in 1 .. Len(view.sessions)
  BY <1>2
<1>4. ViewOK(v, daemon, next, asked) /\ Len(v.sessions) = Len(view.sessions)
  BY <1>2, <1>3, FocusOK
<1> HIDE DEF v
<1>5. v.sessions # <<>> /\ view.sessions # <<>>
  <2>1. v.sessions \in Seq(SessionSet) /\ view.sessions \in Seq(SessionSet)
    BY <1>2, <1>4 DEF ViewOK
  <2> QED BY <1>3, <1>4, <2>1
<1>6. PanesInv' /\ SessionsInv'
  <2>1. CASE Become(v)
    BY <1>1, <1>2, <1>4, <1>5, <2>1, PanesBecome
  <2>2. CASE Become(view)
    BY <1>1, <1>2, <1>5, <2>2, PanesBecome
  <2> QED BY <1>1, <2>1, <2>2 DEF v
<1>7. ListInv'
  <2>1. ListInv
    BY DEF ViewInv
  <2> QED BY <1>1, <1>2, <2>1, ListSame
<1> QED BY <1>6, <1>7 DEF ViewInv

\* What is drawn: the tab or the session to go to when nothing in this one lives.
LEMMA DetectOK ==
  ASSUME NEW v, NEW d, NEW n, NEW as, ViewOK(v, d, n, as), v.active \in 1 .. Len(v.sessions)
  PROVE  ViewOK(DetectLost(v).v, d, n, as) /\ Len(DetectLost(v).v.sessions) = Len(v.sessions)
<1> DEFINE i == v.active
           x == v.sessions[i]
           alt == {j \in DOMAIN x.tabs : j # x.at /\ LiveTab(v, i, j)}
           alts == {k \in DOMAIN v.sessions : k # i /\ LiveTab(v, k, v.sessions[k].at)}
           a == CHOOSE z \in alt : \A y \in alt : z <= y
           b == CHOOSE z \in alts : \A y \in alts : z <= y
           w == [v EXCEPT !.sessions = [v.sessions EXCEPT ![i] = [x EXCEPT !.at = a]]]
           u == [v EXCEPT !.active = b]
<1>1. DetectLost(v).v \in {v, IF alt # {} THEN w ELSE v, IF alts # {} THEN u ELSE v}
  BY DEF DetectLost
<1>2. x \in SessionSet /\ v.sessions \in Seq(SessionSet) /\ Len(v.sessions) \in Nat /\ DOMAIN v.sessions = 1 .. Len(v.sessions)
  BY SessionsFacts DEF ViewOK
<1>3. ASSUME alt # {} PROVE ViewOK(w, d, n, as) /\ Len(w.sessions) = Len(v.sessions)
  <2> HIDE DEF x
  <2>1. alt \subseteq 1 .. Len(x.tabs) /\ Len(x.tabs) \in Nat
    BY <1>2, SessionFacts
  <2> HIDE DEF alt
  <2>2. \E z \in alt : \A y \in alt : z <= y
    <3>1. alt \subseteq Nat
      BY <2>1
    <3> QED BY <1>3, <3>1, LeastNumber
  <2>3. a \in alt
    BY <2>2
  <2> HIDE DEF a
  <2>4. a \in 1 .. Len(x.tabs)
    BY <2>1, <2>3
  <2>5. [x EXCEPT !.at = a] \in SessionSet
    BY <1>2, <2>4, SessionAt
  <2> DEFINE y == [x EXCEPT !.at = a]
  <2> HIDE DEF y
  <2>6. /\ ViewOK([v EXCEPT !.sessions = [v.sessions EXCEPT ![i] = y]], d, n, as)
        /\ Len([v EXCEPT !.sessions = [v.sessions EXCEPT ![i] = y]].sessions) = Len(v.sessions)
    BY <2>5, ViewSession DEF y
  <2> QED BY <2>6 DEF y
<1>4. ASSUME alts # {} PROVE ViewOK(u, d, n, as) /\ Len(u.sessions) = Len(v.sessions)
  <2>1. alts \subseteq 1 .. Len(v.sessions)
    BY <1>2
  <2> HIDE DEF alts
  <2>2. \E z \in alts : \A y \in alts : z <= y
    <3>1. alts \subseteq Nat
      BY <1>2, <2>1
    <3> QED BY <1>4, <3>1, LeastNumber
  <2>3. b \in alts
    BY <2>2
  <2> HIDE DEF b
  <2>4. b \in 1 .. Len(v.sessions)
    BY <2>1, <2>3
  <2>5. ViewOK(u, d, n, as)
    BY <2>4, ViewActive
  <2>6. u.sessions = v.sessions
    BY DEF ViewOK
  <2> QED BY <2>5, <2>6
<1> HIDE DEF u, w, alt, alts
<1> QED BY <1>1, <1>3, <1>4

LEMMA DrawInv ==
  ASSUME ViewInv, NEW v, ViewOK(v, daemon, next, asked), v.active \in 1 .. Len(v.sessions), Draw(v),
         UNCHANGED <<next, daemon, asked, listed, turn, found>>
  PROVE  ViewInv'
<1> DEFINE w == DetectLost(v).v
<1>1. Become(w) /\ pc' = "event"
  BY DEF Draw
<1>2. ViewOK(w, daemon, next, asked) /\ Len(w.sessions) = Len(v.sessions)
  BY DetectOK
<1> HIDE DEF w
<1>3. next \in Nat \ {0} /\ DaemonOK(daemon, next) /\ ListInv
  BY DEF ViewInv, PanesInv
<1>4. w.sessions # <<>>
  <2>1. w.sessions \in Seq(SessionSet) /\ v.sessions \in Seq(SessionSet)
    BY <1>2 DEF ViewOK
  <2> QED BY <1>2, <2>1
<1>5. PanesInv' /\ SessionsInv'
  BY <1>1, <1>2, <1>3, <1>4, PanesBecome
<1>6. ListInv'
  BY <1>1, <1>3, ListSame
<1> QED BY <1>5, <1>6 DEF ViewInv

\* A layout the daemon answers with is the leaves of one of its windows.
LEMMA LayoutLeaves ==
  ASSUME NEW n \in Nat, DaemonOK(daemon, n), NEW r,
         \E s \in DOMAIN daemon : \E j \in DOMAIN daemon[s] : r = daemon[s][j].leaves
  PROVE  r \in Seq(Nat) /\ r # <<>> /\ ToSet(r) \subseteq 1 .. n - 1
<1>1. PICK s \in DOMAIN daemon : \E j \in DOMAIN daemon[s] : r = daemon[s][j].leaves
  OBVIOUS
<1>2. PICK j \in DOMAIN daemon[s] : r = daemon[s][j].leaves
  BY <1>1
<1>3. r \in Seq(1 .. n - 1) /\ r # <<>> /\ ToSet(r) \subseteq 1 .. n - 1
  <2>1. DOMAIN daemon[s] = 1 .. Len(daemon[s])
    BY <1>1, WindowFacts
  <2> QED BY <1>1, <1>2, <2>1, WindowFacts
<1>4. 1 .. n - 1 \subseteq Nat
  OBVIOUS
<1> QED BY <1>3, <1>4, SeqSub

LEMMA SessionLayoutIs ==
  ASSUME NEW n \in Nat, DaemonOK(daemon, n), NEW id, SessionLayout(id) # Nil
  PROVE  SessionLayout(id) \in Seq(Nat) /\ SessionLayout(id) # <<>> /\ ToSet(SessionLayout(id)) \subseteq 1 .. n - 1
<1>1. id \in DOMAIN daemon /\ daemon[id] # <<>> /\ SessionLayout(id) = daemon[id][1].leaves
  BY DEF SessionLayout
<1>2. 1 \in DOMAIN daemon[id]
  <2>1. daemon[id] \in Seq(Windows(n))
    BY <1>1, WindowFacts
  <2> QED BY <1>1, <2>1, NonEmpty
<1> QED BY <1>1, <1>2, LayoutLeaves

LEMMA WindowLayoutIs ==
  ASSUME NEW n \in Nat, DaemonOK(daemon, n), NEW id, WindowLayout(id) # Nil
  PROVE  WindowLayout(id) \in Seq(Nat) /\ WindowLayout(id) # <<>> /\ ToSet(WindowLayout(id)) \subseteq 1 .. n - 1
<1> DEFINE P == {x \in (DOMAIN daemon) \X Ids : x[2] \in DOMAIN daemon[x[1]] /\ daemon[x[1]][x[2]].id = id}
           x == CHOOSE y \in P : TRUE
<1>1. WindowLayout(id) = IF P = {} THEN Nil ELSE daemon[x[1]][x[2]].leaves
  BY DEF WindowLayout
<1>2. P # {}
  BY <1>1
<1>3. x \in P
  BY <1>2
<1>4. x[1] \in DOMAIN daemon /\ x[2] \in DOMAIN daemon[x[1]]
  <2>1. \A y \in P : y[1] \in DOMAIN daemon /\ y[2] \in DOMAIN daemon[y[1]]
    OBVIOUS
  <2> HIDE DEF x, P
  <2> QED BY <1>3, <2>1
<1>5. WindowLayout(id) = daemon[x[1]][x[2]].leaves
  BY <1>1, <1>2
<1> HIDE DEF x
<1>6. \E s \in DOMAIN daemon : \E j \in DOMAIN daemon[s] : WindowLayout(id) = daemon[s][j].leaves
  BY <1>4, <1>5
<1> QED BY <1>6, LayoutLeaves

\* A tab for every pane without a layout.
LEMMA FallbackOK ==
  ASSUME NEW ts \in Seq(TabSet), NEW ss, NEW panes
  PROVE  FallbackTabs(ts, ss, panes) \in Seq(TabSet) /\ Len(FallbackTabs(ts, ss, panes)) >= Len(ts)
<1> DEFINE T == {p \in panes : HasSlot(ss, p)}
           q == Ascending(T, MaxPanes)
           f == [k \in DOMAIN q |-> Tab(<<q[k]>>, q[k], q[k])]
<1>1. FallbackTabs(ts, ss, panes) = ts \o f
  BY DEF FallbackTabs
<1> HIDE DEF T
<1>2. q \in Seq(T \cap (1 .. MaxPanes))
  BY TuiAssumption, AscendingSeq
<1> HIDE DEF q
<1>3. DOMAIN q = 1 .. Len(q) /\ Len(q) \in Nat /\ \A k \in 1 .. Len(q) : q[k] \in Nat
  <2>1. q \in Seq(Nat)
    BY <1>2, SeqSub
  <2> QED BY <2>1
<1>4. f \in [1 .. Len(q) -> TabSet]
  BY <1>3, TabNew
<1>5. f \in Seq(TabSet)
  BY <1>3, <1>4, SeqBy
<1> HIDE DEF f
<1>6. ts \o f \in Seq(TabSet) /\ Len(ts \o f) = Len(ts) + Len(f) /\ Len(f) \in Nat /\ Len(ts) \in Nat
  BY <1>5, ConcatProperties
<1> QED BY <1>1, <1>6

LEMMA SyncLayoutInv ==
  ASSUME ViewInv, SyncLayout
  PROVE  ViewInv'
<1> DEFINE id == listed[turn].id
           i == IndexOf(id)
           new == found \ LocalLeaves(i)
           lay == SessionLayout(id)
           x == sessions[i]
           Tabs(ss) == IF new = {} THEN x.tabs
                       ELSE IF lay # Nil THEN [x.tabs EXCEPT ![x.at] = ApplyLayout(@, lay)]
                       ELSE FallbackTabs(x.tabs, ss, new)
<1>1. /\ UNCHANGED <<next, daemon, closing, asked>> /\ active' = active /\ listed' = listed
      /\ pc = "layout" /\ pc' = "panes" /\ turn' = turn + 1 /\ found' = {}
  BY DEF SyncLayout, LoopStep, dvars
<1>2. PICK ss \in (IF new = {} THEN {slots} ELSE AttachAll(slots, new)) :
        /\ sessions' = [sessions EXCEPT ![i].tabs = Tabs(ss)]
        /\ \E gone : slots' = PruneSlots(ss, gone)
  BY DEF SyncLayout
<1>3. PanesInv /\ SessionsInv /\ ListInv
  BY DEF ViewInv
<1>4. /\ next \in Nat \ {0} /\ DaemonOK(daemon, next) /\ SlotsOK(slots, daemon, next)
      /\ sessions \in Seq(SessionSet) /\ active \in 1 .. Len(sessions) /\ ClosingOK(closing, asked, daemon, next)
  BY <1>1, ViewNow DEF Idle
<1>5. found \subseteq 1 .. next - 1 /\ turn \in Nat \ {0} /\ ListOK(listed)
      /\ \E k \in 1 .. Len(sessions) : sessions[k].id = id
  BY <1>1, <1>3 DEF ListInv
<1> HIDE DEF id
<1>6. i \in 1 .. Len(sessions)
  <2>1. i = FirstId(sessions, id)
    BY DEF IndexOf, FirstId
  <2> QED BY <1>4, <1>5, <2>1, FirstWithId
<1>7. new \subseteq 1 .. next - 1
  BY <1>5
<1> HIDE DEF i, new
<1>8. SlotsOK(ss, daemon, next)
  <2>1. CASE new = {}
    BY <1>2, <1>4, <2>1
  <2>2. CASE new # {}
    BY <1>2, <1>4, <1>7, <2>2, AttachAllOK
  <2> QED BY <2>1, <2>2
<1>9. x \in SessionSet
  BY <1>4, <1>6, SessionsFacts
<1>10. lay # Nil => lay \in Seq(Nat) /\ lay # <<>>
  BY <1>4, SessionLayoutIs
<1>11. sessions' = [sessions EXCEPT ![i] = [x EXCEPT !.tabs = Tabs(ss)]]
  BY <1>2
<1> HIDE DEF x, lay
<1>12. x.tabs \in Seq(TabSet) /\ x.at \in 1 .. Len(x.tabs) /\ Len(x.tabs) \in Nat /\ x.tabs[x.at] \in TabSet
  BY <1>9, SessionFacts
<1>13. Tabs(ss) \in Seq(TabSet) /\ x.at \in 1 .. Len(Tabs(ss))
  <2>1. CASE new = {}
    BY <1>12, <2>1
  <2>2. CASE new # {} /\ lay # Nil
    <3> DEFINE ts == x.tabs
               t == ApplyLayout(ts[x.at], lay)
    <3>1. t \in TabSet
      BY <1>10, <1>12, <2>2, ApplyLayoutTab
    <3>2. Tabs(ss) = [ts EXCEPT ![x.at] = t]
      BY <2>2
    <3>3. ts \in Seq(TabSet)
      BY <1>12
    <3> HIDE DEF Tabs, t, ts
    <3>4. [ts EXCEPT ![x.at] = t] \in Seq(TabSet) /\ Len([ts EXCEPT ![x.at] = t]) = Len(ts)
      BY <3>1, <3>3, SetAt
    <3> QED BY <1>12, <3>2, <3>4 DEF ts
  <2>3. CASE new # {} /\ lay = Nil
    <3>1. Tabs(ss) = FallbackTabs(x.tabs, ss, new)
      BY <2>3
    <3> HIDE DEF Tabs
    <3>2. Tabs(ss) \in Seq(TabSet) /\ Len(Tabs(ss)) >= Len(x.tabs)
      BY <1>12, <3>1, FallbackOK
    <3>3. Len(Tabs(ss)) \in Nat
      BY <3>2
    <3> QED BY <1>12, <3>2, <3>3
  <2> QED BY <2>1, <2>2, <2>3
<1> DEFINE ts == Tabs(ss)
           y == [x EXCEPT !.tabs = ts]
<1> HIDE DEF ts
<1>14. ts \in Seq(TabSet) /\ x.at \in 1 .. Len(ts)
  BY <1>13 DEF ts
<1>15. y \in SessionSet
  BY <1>9, <1>14, SessionTabs
<1>16. sessions' = [sessions EXCEPT ![i] = y]
  BY <1>11 DEF ts
<1> HIDE DEF y
<1>17. sessions' \in Seq(SessionSet) /\ Len(sessions') = Len(sessions)
  BY <1>4, <1>15, <1>16, SetAt
<1>18. SlotsOK(slots', daemon, next)
  BY <1>2, <1>4, <1>8, PruneOK
<1>19. PanesInv'
  BY <1>1, <1>4, <1>18 DEF PanesInv
<1>20. SessionsInv'
  BY <1>1, <1>3, <1>4, <1>17 DEF SessionsInv
<1>21. ListInv'
  BY <1>1, <1>5 DEF ListInv
<1> QED BY <1>19, <1>20, <1>21 DEF ViewInv

LEMMA SyncPruneInv ==
  ASSUME ViewInv, SyncPrune
  PROVE  ViewInv'
<1> DEFINE T == {i \in DOMAIN sessions : sessions[i].id \in known}
           left == Picked(sessions, T)
           k == FirstId(left, prev)
<1>1. /\ UNCHANGED <<next, daemon, slots, closing, asked>> /\ found' = found /\ pc = "panes"
      /\ sessions' = left /\ active' = (IF k # 0 THEN k ELSE IF left # <<>> THEN Len(left) ELSE active)
      /\ pc' = (IF left = <<>> THEN "end" ELSE "resync") /\ listed' = <<>> /\ turn' = 1
  BY DEF SyncPrune, LoopStep, dvars, restore_active_session, FirstId
<1>2. PanesInv /\ SessionsInv /\ ListInv
  BY DEF ViewInv
<1>3. next \in Nat \ {0} /\ DaemonOK(daemon, next) /\ sessions \in Seq(SessionSet) /\ active \in 1 .. Len(sessions)
  BY <1>1, ViewNow DEF Idle
<1>4. left \in Seq(SessionSet)
  <2> HIDE DEF T
  <2>1. left \in Seq({sessions[i] : i \in T \cap (1 .. Len(sessions))})
    BY <1>3, PickedSeq
  <2>2. {sessions[i] : i \in T \cap (1 .. Len(sessions))} \subseteq SessionSet
    BY <1>3, SessionsFacts
  <2> HIDE DEF left
  <2> QED BY <2>1, <2>2, SeqSub
<1> HIDE DEF left
<1>5. Len(left) \in Nat /\ (left = <<>> <=> Len(left) = 0)
  BY <1>4, SessionsFacts
<1>6. k # 0 => k \in 1 .. Len(left)
  BY <1>4, FirstWithId
<1> HIDE DEF k
<1>7. active' \in Nat /\ (left # <<>> => active' \in 1 .. Len(left))
  <2>1. active \in Nat
    BY <1>3, SessionsFacts
  <2> QED BY <1>1, <1>5, <1>6, <2>1
<1>8. SessionsInv'
  BY <1>1, <1>4, <1>7 DEF SessionsInv, Idle
<1>9. PanesInv'
  BY <1>1, <1>2, PanesSame
<1>10. ListInv'
  <2>1. ListOK(listed')
    BY <1>1, <1>3, ListingOK
  <2>2. found' \subseteq 1 .. next' - 1
    BY <1>1, <1>2 DEF ListInv
  <2> QED BY <1>1, <2>1, <2>2 DEF ListInv
<1> QED BY <1>8, <1>9, <1>10 DEF ViewInv

LEMMA ResyncSkipInv ==
  ASSUME ViewInv, ResyncSkip
  PROVE  ViewInv'
<1>1. UNCHANGED <<next, daemon, asked, listed, turn, found>> /\ pc = "resync" /\ Draw(view)
  BY DEF ResyncSkip, LoopStep, dvars, rpc
<1>2. ViewOK(view, daemon, next, asked) /\ view.active \in 1 .. Len(view.sessions)
  BY <1>1, ViewNow DEF Idle
<1> QED BY <1>1, <1>2, DrawInv

LEMMA ResyncInv ==
  ASSUME ViewInv, Resync
  PROVE  ViewInv'
<1> DEFINE tab == ActiveTab(view)
           lay == IF tab.win # Nil THEN WindowLayout(tab.win) ELSE SessionLayout(sessions[active].id)
           at == sessions[active].at
           V(ss) == [view EXCEPT !.slots = ss]
           W(ss) == [V(ss) EXCEPT !.sessions[active].tabs[at] = ApplyLayout(@, lay)]
<1>1. UNCHANGED <<next, daemon, asked, listed, turn, found>> /\ pc = "resync"
  BY DEF Resync, LoopStep, dvars, rpc
<1>2. lay # Nil
  BY DEF Resync
<1>3. PICK ss \in AttachAll(slots, ToSet(lay)) : Draw(IF tab.root = lay \/ grace THEN V(ss) ELSE W(ss))
  BY DEF Resync
<1>4. /\ ViewOK(view, daemon, next, asked) /\ view.sessions = sessions /\ view.active = active
      /\ active \in 1 .. Len(sessions) /\ sessions[active] \in SessionSet
      /\ next \in Nat /\ DaemonOK(daemon, next) /\ SlotsOK(slots, daemon, next)
  BY <1>1, ViewNow DEF Idle
<1>5. lay \in Seq(Nat) /\ lay # <<>> /\ ToSet(lay) \subseteq 1 .. next - 1
  BY <1>2, <1>4, WindowLayoutIs, SessionLayoutIs
<1> HIDE DEF lay, tab
<1>6. SlotsOK(ss, daemon, next)
  BY <1>3, <1>4, <1>5, AttachAllOK
<1> DEFINE v == V(ss)
<1>7. ViewOK(v, daemon, next, asked)
  BY <1>4, <1>6, ViewSlots
<1>8. v.sessions = sessions /\ v.active = active
  BY DEF view
<1> DEFINE t == ApplyLayout(sessions[active].tabs[at], lay)
           w == WithTab(v, active, at, t)
<1>9. W(ss) = w
  <2>1. W(ss) = [v EXCEPT !.sessions = [v.sessions EXCEPT ![active] =
                   [v.sessions[active] EXCEPT !.tabs = [v.sessions[active].tabs EXCEPT ![at] =
                      ApplyLayout(v.sessions[active].tabs[at], lay)]]]]
    OBVIOUS
  <2>2. ApplyLayout(v.sessions[active].tabs[at], lay) = t
    BY <1>8
  <2> QED BY <2>1, <2>2 DEF WithTab
<1>10. t \in TabSet
  <2>1. sessions[active].tabs[at] \in TabSet
    BY <1>4, SessionFacts
  <2> QED BY <1>5, <2>1, ApplyLayoutTab
<1>11. Draw(IF tab.root = lay \/ grace THEN v ELSE w)
  BY <1>3, <1>9
<1> HIDE DEF t, v, at
<1>12. active \in 1 .. Len(v.sessions) /\ Len(v.sessions) = Len(sessions)
  BY <1>4, <1>8
<1>13. ViewOK(w, daemon, next, asked) /\ Len(w.sessions) = Len(v.sessions)
  BY <1>7, <1>10, <1>12, ViewTab
<1>14. w.active = active
  BY <1>7, <1>8 DEF WithTab, ViewOK
<1> HIDE DEF w
<1>15. Draw(v) \/ Draw(w)
  BY <1>11
<1>16. v.active \in 1 .. Len(v.sessions) /\ w.active \in 1 .. Len(w.sessions)
  BY <1>8, <1>12, <1>13, <1>14
<1> QED BY <1>1, <1>7, <1>13, <1>15, <1>16, DrawInv

-----------------------------------------------------------------------------
(* What the user does *)

\* A change of the view that the loop goes on with.
LEMMA LocalInv ==
  ASSUME ViewInv, NEW v, LocalOp(v), ViewOK(v, daemon, next, asked')
  PROVE  ViewInv'
<1>1. /\ UNCHANGED <<next, daemon, listed, turn, found>> /\ Become(v)
      /\ pc' = (IF v.sessions = <<>> THEN "end" ELSE "drain")
  BY DEF LocalOp, Event, At, dvars, rpc
<1>2. next \in Nat \ {0} /\ DaemonOK(daemon, next) /\ ListInv
  BY DEF ViewInv, PanesInv
<1>3. PanesInv' /\ SessionsInv'
  BY <1>1, <1>2, PanesBecome
<1>4. ListInv'
  BY <1>1, <1>2, ListSame
<1> QED BY <1>3, <1>4 DEF ViewInv

\* The user's view: the loop waits for an event, or for an answer to one.
LEMMA EventNow ==
  ASSUME ViewInv, pc \in {"event", "window"}
  PROVE  /\ ViewOK(view, daemon, next, asked) /\ next \in Nat \ {0} /\ DaemonOK(daemon, next) /\ ListInv
         /\ view.sessions = sessions /\ view.active = active /\ view.slots = slots
         /\ sessions \in Seq(SessionSet) /\ DOMAIN sessions = 1 .. Len(sessions) /\ Len(sessions) \in Nat
         /\ active \in 1 .. Len(sessions) /\ sessions[active] \in SessionSet
         /\ sessions[active].at \in 1 .. Len(sessions[active].tabs)
         /\ ActiveTab(view) = sessions[active].tabs[sessions[active].at] /\ ActiveTab(view) \in TabSet
         /\ SlotsOK(slots, daemon, next) /\ ClosingOK(closing, asked, daemon, next)
<1>1. pc \notin Idle
  BY DEF Idle
<1>2. view.active \in 1 .. Len(view.sessions)
  BY <1>1, ViewNow
<1>3. /\ ViewOK(view, daemon, next, asked) /\ next \in Nat \ {0} /\ DaemonOK(daemon, next)
      /\ view.sessions = sessions /\ view.active = active /\ view.slots = slots
      /\ sessions \in Seq(SessionSet) /\ active \in 1 .. Len(sessions) /\ sessions[active] \in SessionSet
      /\ SlotsOK(slots, daemon, next) /\ ClosingOK(closing, asked, daemon, next)
  BY <1>1, ViewNow
<1>4. sessions[active].at \in 1 .. Len(sessions[active].tabs)
  BY <1>3, SessionFacts
<1>5. ActiveTab(view) = sessions[active].tabs[sessions[active].at] /\ ActiveTab(view) \in TabSet
  BY <1>2, <1>3, ActiveOf
<1>6. ListInv
  BY DEF ViewInv
<1>7. DOMAIN sessions = 1 .. Len(sessions) /\ Len(sessions) \in Nat
  BY <1>3, SessionsFacts
<1> QED BY <1>3, <1>4, <1>5, <1>6, <1>7

LEMMA CloseSlotInv ==
  ASSUME ViewInv, pc = "event", NEW k, CloseSlot(k)
  PROVE  ViewInv'
<1> DEFINE v == close_pane_inner(view, k, TRUE)
<1>1. asked' = asked \cup {slots[k].pane} /\ LocalOp(v)
  BY DEF CloseSlot
<1>2. ViewOK(view, daemon, next, asked) /\ view.slots = slots /\ next \in Nat
  BY EventNow
<1>3. ViewOK(view, daemon, next, asked')
  BY <1>1, <1>2 DEF ViewOK, ClosingOK
<1>4. view.slots[k].pane \in asked'
  BY <1>1, <1>2
<1>5. ViewOK(v, daemon, next, asked')
  BY <1>2, <1>3, <1>4, ClosePaneOK
<1> HIDE DEF v
<1> QED BY <1>1, <1>5, LocalInv

\* A click on a chip that is not there any more changes nothing but where the loop is.
LEMMA StrayInv ==
  ASSUME ViewInv, NEW c, NEW q, Stray(c, q)
  PROVE  ViewInv'
<1>1. /\ UNCHANGED <<next, daemon, slots, closing, asked, sessions, active, listed, turn, found>>
      /\ pc = "event" /\ pc' = "astray"
  BY DEF Stray, Event, At, dvars, rpc
<1>2. PanesInv /\ SessionsInv /\ ListInv
  BY DEF ViewInv
<1>3. PanesInv'
  BY <1>1, <1>2, PanesSame
<1>4. SessionsInv'
  BY <1>1, <1>2 DEF SessionsInv, Idle
<1>5. ListInv'
  BY <1>1, <1>2 DEF ListInv
<1> QED BY <1>3, <1>4, <1>5 DEF ViewInv

LEMMA CloseInv ==
  ASSUME ViewInv, pc = "event", close_focused_pane \/ close_tab_chip \/ menu_kill
  PROVE  ViewInv'
<1>1. (\E k : CloseSlot(k)) \/ (\E c, q : Stray(c, q))
  BY DEF close_focused_pane, close_tab_chip, menu_kill
<1> QED BY <1>1, CloseSlotInv, StrayInv

\* One session of the view changes.
WithSession(v, i, x) == [v EXCEPT !.sessions = [v.sessions EXCEPT ![i] = x]]

LEMMA SessionOp ==
  ASSUME ViewInv, pc = "event", NEW i, NEW x \in SessionSet, LocalOp(WithSession(view, i, x)), asked' = asked
  PROVE  ViewInv'
<1>1. ViewOK(view, daemon, next, asked)
  BY EventNow
<1>2. ViewOK(WithSession(view, i, x), daemon, next, asked')
  BY <1>1, ViewSession DEF WithSession
<1> QED BY <1>2, LocalInv

LEMMA TabOp ==
  ASSUME ViewInv, pc = "event", NEW i \in 1 .. Len(sessions), NEW j, NEW t \in TabSet,
         LocalOp(WithTab(view, i, j, t)), asked' = asked
  PROVE  ViewInv'
<1>1. ViewOK(view, daemon, next, asked) /\ i \in 1 .. Len(view.sessions)
  BY EventNow
<1>2. ViewOK(WithTab(view, i, j, t), daemon, next, asked')
  BY <1>1, ViewTab
<1> QED BY <1>2, LocalInv

LEMMA ClickInv ==
  ASSUME ViewInv, pc = "event", click_session \/ click_tab \/ click_pane
  PROVE  ViewInv'
<1>0. CASE \E c, q : Stray(c, q)
  BY <1>0, StrayInv
<1>1. CASE click_session /\ ~\E c, q : Stray(c, q)
  <2>1. PICK i \in DOMAIN sessions : Click([view EXCEPT !.active = i])
    BY <1>1 DEF click_session
  <2> DEFINE v == [view EXCEPT !.active = i]
  <2>2. ViewOK(view, daemon, next, asked) /\ i \in 1 .. Len(view.sessions)
    BY <2>1, EventNow
  <2>3. ViewOK(v, daemon, next, asked)
    BY <2>2, ViewActive
  <2>4. LocalOp(v) /\ asked' = asked
    BY <2>1 DEF Click
  <2> HIDE DEF v
  <2>5. ViewOK(v, daemon, next, asked')
    BY <2>3, <2>4
  <2> QED BY <2>4, <2>5, LocalInv
<1>2. CASE click_tab /\ ~\E c, q : Stray(c, q)
  <2>1. PICK j \in DOMAIN sessions[active].tabs : Click([view EXCEPT !.sessions[active].at = j])
    BY <1>2 DEF click_tab
  <2> DEFINE x == [sessions[active] EXCEPT !.at = j]
  <2>2. sessions[active] \in SessionSet /\ view.sessions = sessions
    BY EventNow
  <2>3. j \in 1 .. Len(sessions[active].tabs)
    BY <2>1, <2>2, SessionFacts
  <2>4. x \in SessionSet
    BY <2>2, <2>3, SessionAt
  <2>5. [view EXCEPT !.sessions[active].at = j] = WithSession(view, active, x)
    <3>1. [view EXCEPT !.sessions[active].at = j] = WithSession(view, active, [view.sessions[active] EXCEPT !.at = j])
      BY DEF WithSession
    <3> QED BY <2>2, <3>1
  <2>6. LocalOp(WithSession(view, active, x)) /\ asked' = asked
    BY <2>1, <2>5 DEF Click
  <2> HIDE DEF x
  <2> QED BY <2>4, <2>6, SessionOp
<1>3. CASE click_pane
  <2>1. PICK p : Click(focus_slot(view, p))
    BY <1>3 DEF click_pane
  <2> DEFINE v == focus_slot(view, p)
  <2>2. ViewOK(view, daemon, next, asked) /\ view.active \in 1 .. Len(view.sessions)
    BY EventNow
  <2>3. ViewOK(v, daemon, next, asked)
    BY <2>2, FocusOK
  <2>4. LocalOp(v) /\ asked' = asked
    BY <2>1 DEF Click
  <2> HIDE DEF v
  <2>5. ViewOK(v, daemon, next, asked')
    BY <2>3, <2>4
  <2> QED BY <2>4, <2>5, LocalInv
<1> QED BY <1>0, <1>1, <1>2, <1>3

LEMMA ModBelow ==
  ASSUME NEW a \in Nat, NEW b \in Nat \ {0}
  PROVE  (a % b) + 1 \in 1 .. b
OBVIOUS

LEMMA NextTabInv ==
  ASSUME ViewInv, pc = "event", next_tab
  PROVE  ViewInv'
<1> DEFINE x == sessions[active]
           m == Len(x.tabs)
<1>1. PICK e \in {1, m - 1} : Move([view EXCEPT !.sessions[active].at = ((@ - 1 + e) % m) + 1])
  BY DEF next_tab
<1> DEFINE a == ((x.at - 1 + e) % m) + 1
           y == [x EXCEPT !.at = a]
<1>2. x \in SessionSet /\ view.sessions = sessions
  BY EventNow
<1>3. x.at \in 1 .. m /\ m \in Nat
  BY <1>2, SessionFacts
<1>4. [view EXCEPT !.sessions[active].at = ((@ - 1 + e) % m) + 1] = WithSession(view, active, y)
  <2>1. [view EXCEPT !.sessions[active].at = ((@ - 1 + e) % m) + 1] =
          WithSession(view, active, [view.sessions[active] EXCEPT !.at = ((view.sessions[active].at - 1 + e) % m) + 1])
    BY DEF WithSession
  <2> QED BY <1>2, <2>1
<1>5. LocalOp(WithSession(view, active, y)) /\ asked' = asked
  BY <1>1, <1>4 DEF Move
<1> HIDE DEF m
<1>6. a \in 1 .. m
  <2>1. x.at - 1 + e \in Nat /\ m \in Nat \ {0}
    BY <1>1, <1>3
  <2> QED BY <2>1, ModBelow
<1>7. y \in SessionSet
  <2> HIDE DEF a
  <2> QED BY <1>2, <1>6, SessionAt DEF m
<1> HIDE DEF y
<1> QED BY <1>5, <1>7, SessionOp

LEMMA FocusNextInv ==
  ASSUME ViewInv, pc = "event", focus_next
  PROVE  ViewInv'
<1> DEFINE t == ActiveTab(view)
           T == {j \in DOMAIN t.root : HasSlot(slots, t.root[j])}
           live == Picked(t.root, T)
           k == SelectInSeq(live, LAMBDA p : p = t.focus)
           cur == IF k = 0 THEN 0 ELSE k - 1
           b == sessions[active].at
<1>1. live # <<>>
  BY DEF focus_next
<1>2. PICK e \in {1, Len(live) - 1} :
        Move([view EXCEPT !.sessions[active].tabs[b].focus = live[((cur + e) % Len(live)) + 1]])
  BY DEF focus_next
<1> DEFINE a == ((cur + e) % Len(live)) + 1
           z == live[a]
           y == [t EXCEPT !.focus = z]
<1>3. /\ active \in 1 .. Len(sessions) /\ view.sessions = sessions /\ t \in TabSet
      /\ t = sessions[active].tabs[b]
  BY EventNow
<1>4. t.root \in Seq(Nat) /\ DOMAIN t.root = 1 .. Len(t.root)
  BY <1>3, TabFacts
<1>5. [view EXCEPT !.sessions[active].tabs[b].focus = z] = WithTab(view, active, b, y)
  <2> HIDE DEF z, t
  <2>1. [view EXCEPT !.sessions[active].tabs[b].focus = z] =
          WithTab(view, active, b, [view.sessions[active].tabs[b] EXCEPT !.focus = z])
    BY DEF WithTab
  <2> QED BY <1>3, <2>1
<1>6. LocalOp(WithTab(view, active, b, y)) /\ asked' = asked
  BY <1>2, <1>5 DEF Move
<1>7. live \in Seq({t.root[i] : i \in T \cap (1 .. Len(t.root))})
  <2> DEFINE r == t.root
  <2>1. r \in Seq(Nat)
    BY <1>4
  <2> HIDE DEF T, r
  <2>2. Picked(r, T) \in Seq({r[i] : i \in T \cap (1 .. Len(r))})
    BY <2>1, PickedSeq
  <2> QED BY <2>2 DEF r
<1>8. cur \in Nat
  <2> DEFINE K == {i \in 1 .. Len(live) : live[i] = t.focus}
  <2>1. k = IF K # {} THEN Min(K) ELSE 0
    BY DEF SelectInSeq
  <2> HIDE DEF live, t
  <2>2. K \subseteq Nat /\ 0 \notin K
    BY <1>7
  <2> HIDE DEF K, k
  <2>3. K # {} => Min(K) \in K
    BY <2>2, MinIsLeast
  <2>4. k \in Nat
    BY <2>1, <2>2, <2>3
  <2> QED BY <2>4
<1> HIDE DEF live, cur, t
<1>9. Len(live) \in Nat /\ Len(live) # 0
  BY <1>1, <1>7, NonEmpty
<1>10. a \in 1 .. Len(live)
  <2>1. cur + e \in Nat
    BY <1>2, <1>8, <1>9
  <2> QED BY <1>9, <2>1, ModBelow
<1> HIDE DEF a
<1>11. z \in {t.root[i] : i \in T \cap (1 .. Len(t.root))}
  BY <1>7, <1>10
<1>12. Contains(t.root, z)
  BY <1>11 DEF Contains
<1> HIDE DEF z
<1>13. y \in TabSet
  BY <1>3, <1>12, TabFocus
<1> HIDE DEF y, b
<1> QED BY <1>3, <1>6, <1>13, TabOp

LEMMA ZoomInv ==
  ASSUME ViewInv, pc = "event", toggle_zoom
  PROVE  ViewInv'
<1> DEFINE t == ActiveTab(view)
           b == sessions[active].at
           y == [t EXCEPT !.zoomed = IF @ = Nil THEN t.focus ELSE Nil]
<1>1. /\ active \in 1 .. Len(sessions) /\ view.sessions = sessions /\ t \in TabSet
      /\ t = sessions[active].tabs[b]
  BY EventNow
<1>2. Move([view EXCEPT !.sessions[active].tabs[b].zoomed = IF @ = Nil THEN t.focus ELSE Nil])
  BY DEF toggle_zoom
<1> HIDE DEF t
<1>3. [view EXCEPT !.sessions[active].tabs[b].zoomed = IF @ = Nil THEN t.focus ELSE Nil] = WithTab(view, active, b, y)
  <2>1. [view EXCEPT !.sessions[active].tabs[b].zoomed = IF @ = Nil THEN t.focus ELSE Nil] =
          WithTab(view, active, b, [view.sessions[active].tabs[b] EXCEPT !.zoomed =
                                      IF view.sessions[active].tabs[b].zoomed = Nil THEN t.focus ELSE Nil])
    BY DEF WithTab
  <2> QED BY <1>1, <2>1
<1>4. LocalOp(WithTab(view, active, b, y)) /\ asked' = asked
  BY <1>2, <1>3 DEF Move
<1>5. y \in TabSet
  <2>1. (IF t.zoomed = Nil THEN t.focus ELSE Nil) \in Nat \cup {Nil}
    BY <1>1, TabFacts
  <2> DEFINE z == IF t.zoomed = Nil THEN t.focus ELSE Nil
  <2> HIDE DEF z
  <2>2. [t EXCEPT !.zoomed = z] \in TabSet
    BY <1>1, <2>1, TabZoom DEF z
  <2> QED BY <2>2 DEF z
<1> HIDE DEF y, b
<1> QED BY <1>1, <1>4, <1>5, TabOp

LEMMA ReorderInv ==
  ASSUME ViewInv, pc = "event", tab_reorder
  PROVE  ViewInv'
<1> DEFINE x == sessions[active]
           tabs == x.tabs
           Moved(i, j) == IF i \in DOMAIN tabs THEN InsertAt(RemoveAt(tabs, i), j, tabs[i]) ELSE tabs
<1>1. x \in SessionSet /\ view.sessions = sessions
  BY EventNow
<1>2. CASE \E c, q : Stray(c, q)
  BY <1>2, StrayInv
<1>3. CASE ~\E c, q : Stray(c, q)
  <2>1. PICK i \in Ids, j \in DOMAIN tabs :
          Move([view EXCEPT !.sessions[active] = [@ EXCEPT !.tabs = Moved(i, j), !.at = j]])
    BY <1>3 DEF tab_reorder
  <2> DEFINE ts == Moved(i, j)
             y == [x EXCEPT !.tabs = ts, !.at = j]
  <2>2. [view EXCEPT !.sessions[active] = [@ EXCEPT !.tabs = ts, !.at = j]] = WithSession(view, active, y)
    <3> HIDE DEF ts
    <3>1. [view EXCEPT !.sessions[active] = [@ EXCEPT !.tabs = ts, !.at = j]] =
            WithSession(view, active, [view.sessions[active] EXCEPT !.tabs = ts, !.at = j])
      BY DEF WithSession
    <3> QED BY <1>1, <3>1
  <2>3. LocalOp(WithSession(view, active, y)) /\ asked' = asked
    BY <2>1, <2>2 DEF Move
  <2> HIDE DEF x
  <2>4. tabs \in Seq(TabSet) /\ j \in 1 .. Len(tabs) /\ Len(tabs) \in Nat /\ DOMAIN tabs = 1 .. Len(tabs)
        /\ \A k \in 1 .. Len(tabs) : tabs[k] \in TabSet
    BY <1>1, <2>1, SessionFacts
  <2> HIDE DEF tabs
  <2>5. ts \in Seq(TabSet) /\ Len(ts) = Len(tabs)
    <3>1. CASE i \in 1 .. Len(tabs)
      <4> DEFINE rest == RemoveAt(tabs, i)
      <4>1. ts = InsertAt(rest, j, tabs[i]) /\ tabs[i] \in TabSet
        BY <2>4, <3>1
      <4>2. rest \in Seq(TabSet) /\ Len(rest) = Len(tabs) - 1
        BY <2>4, <3>1, RemoveAtSeq
      <4> HIDE DEF rest, ts
      <4>3. j \in 1 .. Len(rest) + 1
        BY <2>4, <4>2
      <4>4. ts \in Seq(TabSet) /\ Len(ts) = Len(rest) + 1
        BY <4>1, <4>2, <4>3, InsertAtSeq
      <4> QED BY <2>4, <4>2, <4>4
    <3>2. CASE i \notin 1 .. Len(tabs)
      BY <2>4, <3>2
    <3> QED BY <3>1, <3>2
  <2> HIDE DEF ts
  <2>6. j \in 1 .. Len(ts)
    BY <2>4, <2>5
  <2>7. y \in SessionSet
    BY <1>1, <2>5, <2>6, SessionWith
  <2> HIDE DEF y
  <2> QED BY <2>3, <2>7, SessionOp
<1> QED BY <1>2, <1>3

LEMMA JumpLocal ==
  ASSUME search_jump
  PROVE  \E v : LocalOp(v)
<1> DEFINE P(p) == {x \in (DOMAIN sessions) \X Ids :
                      x[2] \in DOMAIN sessions[x[1]].tabs
                      /\ Contains(sessions[x[1]].tabs[x[2]].root, p) /\ HasSlot(slots, p)}
           H(p) == {x \in P(p) : x[1] = active}
           To(p) == IF H(p) # {} THEN CHOOSE x \in H(p) : \A y \in H(p) : x[1] < y[1] \/ (x[1] = y[1] /\ x[2] <= y[2])
                    ELSE CHOOSE x \in P(p) : \A y \in P(p) : y[1] < x[1] \/ (y[1] = x[1] /\ y[2] <= x[2])
<1>1. PICK p \in Ids : /\ P(p) # {}
                       /\ Click([view EXCEPT !.active = To(p)[1], !.sessions[To(p)[1]].at = To(p)[2],
                                   !.sessions[To(p)[1]].tabs[To(p)[2]].focus = p])
  BY DEF search_jump
<1> DEFINE v == [view EXCEPT !.active = To(p)[1], !.sessions[To(p)[1]].at = To(p)[2],
                             !.sessions[To(p)[1]].tabs[To(p)[2]].focus = p]
<1>2. LocalOp(v)
  BY <1>1 DEF Click
<1> HIDE DEF v
<1> QED BY <1>2

\* The tab to jump to shows the pane that was found.
LEMMA JumpInv ==
  ASSUME ViewInv, pc = "event", search_jump
  PROVE  ViewInv'
<1> DEFINE P(p) == {x \in (DOMAIN sessions) \X Ids :
                      x[2] \in DOMAIN sessions[x[1]].tabs
                      /\ Contains(sessions[x[1]].tabs[x[2]].root, p) /\ HasSlot(slots, p)}
           H(p) == {x \in P(p) : x[1] = active}
           To(p) == IF H(p) # {} THEN CHOOSE x \in H(p) : \A y \in H(p) : x[1] < y[1] \/ (x[1] = y[1] /\ x[2] <= y[2])
                    ELSE CHOOSE x \in P(p) : \A y \in P(p) : y[1] < x[1] \/ (y[1] = x[1] /\ y[2] <= x[2])
<1>1. PICK p \in Ids : /\ P(p) # {}
                       /\ Click([view EXCEPT !.active = To(p)[1], !.sessions[To(p)[1]].at = To(p)[2],
                                   !.sessions[To(p)[1]].tabs[To(p)[2]].focus = p])
  BY DEF search_jump
<1>2. /\ sessions \in Seq(SessionSet) /\ DOMAIN sessions = 1 .. Len(sessions) /\ Len(sessions) \in Nat
      /\ ViewOK(view, daemon, next, asked) /\ view.sessions = sessions
  BY EventNow
<1> DEFINE Q == P(p)
           h == H(p)
           to == To(p)
<1>3. Q \subseteq (1 .. Len(sessions)) \X (1 .. MaxPanes) /\ Q # {} /\ h \subseteq Q
  BY <1>1, <1>2 DEF Ids
<1>4. \A x \in Q : x[1] \in DOMAIN sessions /\ x[2] \in DOMAIN sessions[x[1]].tabs
                   /\ Contains(sessions[x[1]].tabs[x[2]].root, p)
  OBVIOUS
<1>5. to = IF h # {} THEN CHOOSE x \in h : \A y \in h : x[1] < y[1] \/ (x[1] = y[1] /\ x[2] <= y[2])
           ELSE CHOOSE x \in Q : \A y \in Q : y[1] < x[1] \/ (y[1] = x[1] /\ y[2] <= x[2])
  OBVIOUS
<1> DEFINE v3 == [view EXCEPT !.active = to[1], !.sessions[to[1]].at = to[2],
                              !.sessions[to[1]].tabs[to[2]].focus = p]
<1>6. LocalOp(v3) /\ asked' = asked
  BY <1>1 DEF Click
<1> HIDE DEF P, H, To, Q, h, to
<1>7. to \in Q
  <2>1. CASE h # {}
    <3>1. h \subseteq Nat \X Nat
      <4>1. (1 .. Len(sessions)) \X (1 .. MaxPanes) \subseteq Nat \X Nat
        OBVIOUS
      <4> QED BY <1>3, <4>1
    <3>2. \E x \in h : \A y \in h : x[1] < y[1] \/ (x[1] = y[1] /\ x[2] <= y[2])
      BY <2>1, <3>1, FirstPair
    <3>3. to \in h
      BY <1>5, <2>1, <3>2
    <3> QED BY <1>3, <3>3
  <2>2. CASE h = {}
    <3>1. \E x \in Q : \A y \in Q : y[1] < x[1] \/ (y[1] = x[1] /\ y[2] <= x[2])
      BY <1>2, <1>3, TuiAssumption, LastPair
    <3> QED BY <1>5, <2>2, <3>1
  <2> QED BY <2>1, <2>2
<1> DEFINE a == to[1]
           b == to[2]
<1>8. a \in 1 .. Len(sessions) /\ b \in DOMAIN sessions[a].tabs /\ Contains(sessions[a].tabs[b].root, p)
  BY <1>2, <1>4, <1>7
<1>9. v3 = [view EXCEPT !.active = a, !.sessions[a].at = b, !.sessions[a].tabs[b].focus = p]
  OBVIOUS
<1> HIDE DEF v3, a, b
<1> DEFINE v1 == [view EXCEPT !.active = a]
           x == v1.sessions[a]
           u == [x EXCEPT !.at = b]
           v2 == WithSession(v1, a, u)
           t == v2.sessions[a].tabs[b]
           y == [t EXCEPT !.focus = p]
           w == WithTab(v2, a, b, y)
<1>10. v3 = w
  BY <1>9 DEF WithTab, WithSession
<1>11. v1.sessions = sessions /\ ViewOK(v1, daemon, next, asked)
  <2>1. v1.sessions = view.sessions
    BY DEF view
  <2>2. ViewOK(v1, daemon, next, asked)
    BY <1>2, <1>8, ViewActive
  <2> QED BY <1>2, <2>1, <2>2
<1> HIDE DEF v1
<1>12. x = sessions[a] /\ x \in SessionSet
  BY <1>2, <1>8, <1>11, SessionsFacts
<1> HIDE DEF x
<1>13. b \in 1 .. Len(x.tabs) /\ x.tabs[b] \in TabSet /\ Contains(x.tabs[b].root, p)
  BY <1>8, <1>12, SessionFacts
<1>14. u \in SessionSet /\ u.tabs = x.tabs
  BY <1>12, <1>13, SessionAt, SessionFacts
<1> HIDE DEF u
<1>15. ViewOK(v2, daemon, next, asked) /\ Len(v2.sessions) = Len(sessions)
  BY <1>11, <1>14, ViewSession DEF WithSession
<1>16. v2.sessions[a] = u
  <2>1. v2.sessions = [sessions EXCEPT ![a] = u]
    BY <1>11 DEF WithSession, ViewOK
  <2> QED BY <1>2, <1>8, <2>1
<1> HIDE DEF v2
<1>17. t \in TabSet /\ Contains(t.root, p)
  BY <1>13, <1>14, <1>16
<1> HIDE DEF t
<1>18. y \in TabSet
  BY <1>17, TabFocus
<1> HIDE DEF y
<1>19. a \in 1 .. Len(v2.sessions)
  BY <1>8, <1>15
<1>20. ViewOK(w, daemon, next, asked)
  BY <1>15, <1>18, <1>19, ViewTab
<1> HIDE DEF w
<1>21. LocalOp(w) /\ ViewOK(w, daemon, next, asked')
  BY <1>6, <1>10, <1>20
<1> QED BY <1>21, LocalInv

\* A new pane: the daemon has one more, and so have the slots.
LEMMA OneMorePane ==
  ASSUME NEW n \in Nat \ {0}, NEW d, NEW e, SlotsOK(slots, d, n), ClosingOK(closing, asked, d, n),
         Lives(e) \subseteq Lives(d) \cup {n}
  PROVE  SlotsOK(Append(slots, Slot(n, "open")), e, n + 1) /\ ClosingOK(closing, asked, e, n + 1)
<1>1. SlotsOK(slots, e, n + 1) /\ ClosingOK(closing, asked, e, n + 1)
  BY SlotsLater, ClosingLater
<1>2. n + 1 \in Nat /\ n \in 1 .. (n + 1) - 1
  OBVIOUS
<1>3. Slot(n, "open") \in NewSlots(n + 1)
  BY <1>2, SlotOpen
<1>4. SlotsOK(Append(slots, Slot(n, "open")), e, n + 1)
  BY <1>1, <1>2, <1>3, SlotsAppend
<1> QED BY <1>1, <1>4

\* The user's operations that make one.
LEMMA PaneOp ==
  ASSUME ViewInv, NEW c \in {"event", "window"}, At(c), pc' = "drain", next' = next + 1, UNCHANGED <<closing, asked>>,
         DaemonOK(daemon', next + 1), Lives(daemon') \subseteq Lives(daemon) \cup {next},
         slots' = Append(slots, Slot(next, "open")), sessions' \in Seq(SessionSet), active' \in 1 .. Len(sessions')
  PROVE  ViewInv'
<1>1. pc \in {"event", "window"} /\ UNCHANGED <<listed, turn, found>>
  BY DEF At, rpc
<1>2. next \in Nat \ {0} /\ SlotsOK(slots, daemon, next) /\ ClosingOK(closing, asked, daemon, next) /\ ListInv
  BY <1>1, EventNow
<1>3. SlotsOK(slots', daemon', next') /\ ClosingOK(closing', asked', daemon', next')
  BY <1>2, OneMorePane
<1>4. PanesInv'
  BY <1>2, <1>3 DEF PanesInv
<1>5. SessionsInv'
  BY DEF SessionsInv
<1>6. ListInv'
  BY <1>1, <1>2, ListSame
<1> QED BY <1>4, <1>5, <1>6 DEF ViewInv

LEMMA NewSessionInv ==
  ASSUME ViewInv, open_new_session
  PROVE  ViewInv'
<1>1. /\ At("event") /\ pc = "event" /\ pc' = "drain" /\ next' = next + 1 /\ UNCHANGED <<closing, asked>>
      /\ slots' = Append(slots, Slot(next, "open"))
      /\ sessions' = Append(sessions, SessionView(next, next, next)) /\ active' = Len(sessions) + 1
  BY DEF open_new_session, Event, At
<1>2. daemon' = [s \in DOMAIN daemon \cup {next} |-> IF s = next THEN <<Window(next)>> ELSE daemon[s]]
  BY DEF open_new_session
<1>3. next \in Nat \ {0} /\ DaemonOK(daemon, next) /\ sessions \in Seq(SessionSet) /\ Len(sessions) \in Nat
  BY <1>1, EventNow
<1>4. DaemonOK(daemon', next + 1) /\ Lives(daemon') \subseteq Lives(daemon) \cup {next}
  BY <1>2, <1>3, SpawnGrows
<1> DEFINE y == SessionView(next, next, next)
<1>5. y \in SessionSet
  BY <1>3, SessionNew
<1> HIDE DEF y
<1>6. Append(sessions, y) \in Seq(SessionSet) /\ Len(Append(sessions, y)) = Len(sessions) + 1
  BY <1>3, <1>5, AppendProperties
<1>7. sessions' \in Seq(SessionSet) /\ active' \in 1 .. Len(sessions')
  BY <1>1, <1>3, <1>6 DEF y
<1> QED BY <1>1, <1>4, <1>7, PaneOp

\* A step that leaves the panes and the loop's answers, and changes sessions at most.
LEMMA SessionsOp ==
  ASSUME ViewInv, NEW c \in {"event", "window"}, At(c), pc' = "drain",
         UNCHANGED <<next, daemon, slots, closing, asked>>,
         sessions' \in Seq(SessionSet), active' \in 1 .. Len(sessions')
  PROVE  ViewInv'
<1>1. UNCHANGED <<listed, turn, found>>
  BY DEF At, rpc
<1>2. PanesInv /\ ListInv /\ next \in Nat
  BY DEF ViewInv, PanesInv
<1>3. PanesInv'
  BY <1>2, PanesSame
<1>4. SessionsInv'
  BY DEF SessionsInv
<1>5. ListInv'
  BY <1>1, <1>2, ListSame
<1> QED BY <1>3, <1>4, <1>5 DEF ViewInv

LEMMA FirstPaneInv ==
  ASSUME ViewInv, open_first_pane
  PROVE  ViewInv'
<1> DEFINE x == sessions[active]
           s == x.id
           ts == Append(x.tabs, Tab(<<next>>, next, next))
           y == [x EXCEPT !.tabs = ts, !.at = Len(x.tabs) + 1]
<1>1. At("window") /\ pc = "window" /\ pc' = "drain" /\ active' = active /\ UNCHANGED <<closing, asked>>
  BY DEF open_first_pane, At
<1>2. /\ next \in Nat \ {0} /\ DaemonOK(daemon, next) /\ sessions \in Seq(SessionSet)
      /\ x \in SessionSet /\ active \in 1 .. Len(sessions)
  BY <1>1, EventNow
<1>3. CASE UNCHANGED <<daemon, next, slots, sessions>>
  BY <1>1, <1>2, <1>3, SessionsOp
<1>4. CASE ~UNCHANGED <<daemon, next, slots, sessions>>
  <2>1. /\ s \in DOMAIN daemon /\ next' = next + 1
        /\ daemon' = [daemon EXCEPT ![s] = Append(daemon[s], Window(next))]
        /\ \/ UNCHANGED <<slots, sessions>>
           \/ slots' = Append(slots, Slot(next, "open")) /\ sessions' = [sessions EXCEPT ![active] = y]
    <3>1. \/ UNCHANGED <<daemon, next, slots, sessions>>
          \/ /\ s \in DOMAIN daemon /\ next' = next + 1
             /\ daemon' = [daemon EXCEPT ![s] = Append(@, Window(next))]
             /\ \/ UNCHANGED <<slots, sessions>>
                \/ /\ slots' = Append(slots, Slot(next, "open"))
                   /\ sessions' = [sessions EXCEPT ![active] = [@ EXCEPT !.tabs = ts, !.at = Len(x.tabs) + 1]]
      BY DEF open_first_pane
    <3> QED BY <1>4, <3>1
  <2> HIDE DEF s
  <2>2. DaemonOK(daemon', next + 1) /\ Lives(daemon') \subseteq Lives(daemon) \cup {next}
    BY <1>2, <2>1, AppendWindow
  <2>3. CASE UNCHANGED <<slots, sessions>>
    <3>1. PanesInv'
      BY <1>1, <2>1, <2>2, <2>3, GrowInv DEF ViewInv
    <3>2. SessionsInv'
      BY <1>1, <1>2, <2>3 DEF SessionsInv
    <3>3. UNCHANGED <<listed, turn, found>> /\ ListInv
      BY <1>1 DEF At, rpc, ViewInv
    <3>4. ListInv'
      BY <1>1, <1>2, <2>1, <3>3, ListSame
    <3> QED BY <3>1, <3>2, <3>4 DEF ViewInv
  <2>4. CASE slots' = Append(slots, Slot(next, "open")) /\ sessions' = [sessions EXCEPT ![active] = y]
    <3> DEFINE t == Tab(<<next>>, next, next)
               tabs == x.tabs
    <3>1. t \in TabSet
      BY <1>2, TabNew
    <3>2. tabs \in Seq(TabSet) /\ Len(tabs) \in Nat
      BY <1>2, SessionFacts
    <3> HIDE DEF t, tabs
    <3>3. Append(tabs, t) \in Seq(TabSet) /\ Len(Append(tabs, t)) = Len(tabs) + 1
      BY <3>1, <3>2, AppendProperties
    <3>4. ts \in Seq(TabSet) /\ Len(x.tabs) + 1 \in 1 .. Len(ts)
      BY <3>2, <3>3 DEF t, tabs
    <3> HIDE DEF ts, x
    <3>5. y \in SessionSet
      BY <1>2, <3>4, SessionWith
    <3> HIDE DEF y
    <3>6. sessions' \in Seq(SessionSet) /\ Len(sessions') = Len(sessions)
      BY <1>2, <2>4, <3>5, SetAt
    <3>7. active' \in 1 .. Len(sessions')
      BY <1>1, <1>2, <3>6
    <3> QED BY <1>1, <2>1, <2>2, <2>4, <3>6, <3>7, PaneOp
  <2> QED BY <2>1, <2>3, <2>4
<1> QED BY <1>3, <1>4

\* The daemon splits the leaf wherever it is.
SplitAll(d, p, n) ==
  [s \in DOMAIN d |-> [j \in DOMAIN d[s] |-> [d[s][j] EXCEPT !.leaves = SplitLeaf(@, p, n)]]]

LEMMA SplitGrows ==
  ASSUME NEW d, NEW n \in Nat \ {0}, DaemonOK(d, n), NEW p
  PROVE  DaemonOK(SplitAll(d, p, n), n + 1) /\ Lives(SplitAll(d, p, n)) \subseteq Lives(d) \cup {n}
<1> DEFINE e == [s \in DOMAIN d |-> [j \in DOMAIN d[s] |-> [d[s][j] EXCEPT !.leaves = SplitLeaf(@, p, n)]]]
<1>1. DOMAIN e = DOMAIN d /\ e = [s \in DOMAIN e |-> e[s]] /\ DOMAIN e \subseteq Nat
  BY DEF DaemonOK
<1>2. ASSUME NEW s \in DOMAIN d
      PROVE  /\ e[s] \in Seq(Windows(n + 1))
             /\ \A j \in DOMAIN e[s] : ToSet(e[s][j].leaves) \subseteq Lives(d) \cup {n}
  <2> DEFINE ws == d[s]
             f == e[s]
  <2>1. Len(ws) \in Nat /\ DOMAIN ws = 1 .. Len(ws) /\ \A j \in 1 .. Len(ws) : ws[j] \in Windows(n)
    BY <1>2, WindowFacts
  <2>2. \A j \in DOMAIN ws : ToSet(ws[j].leaves) \subseteq Lives(d)
    BY <1>2, LivesIn
  <2>3. f = [j \in DOMAIN ws |-> [ws[j] EXCEPT !.leaves = SplitLeaf(@, p, n)]]
    BY <1>2
  <2> HIDE DEF f, ws, e
  <2>4. ASSUME NEW j \in 1 .. Len(ws)
        PROVE  f[j] \in Windows(n + 1) /\ ToSet(f[j].leaves) \subseteq Lives(d) \cup {n}
    <3> DEFINE w == ws[j]
               x == [w EXCEPT !.leaves = SplitLeaf(@, p, n)]
    <3>1. w \in Windows(n) /\ ToSet(w.leaves) \subseteq Lives(d)
      BY <2>1, <2>2, <2>4
    <3>2. f[j] = x
      BY <2>1, <2>3, <2>4
    <3> HIDE DEF w
    <3>3. x \in Windows(n + 1) /\ ToSet(x.leaves) \subseteq ToSet(w.leaves) \cup {n}
      BY <3>1, SplitLeaves
    <3> HIDE DEF x
    <3> QED BY <3>1, <3>2, <3>3
  <2>5. DOMAIN f = 1 .. Len(ws) /\ f \in [1 .. Len(ws) -> Windows(n + 1)]
    <3>1. DOMAIN f = 1 .. Len(ws) /\ f = [j \in 1 .. Len(ws) |-> f[j]]
      BY <2>1, <2>3
    <3> QED BY <2>4, <3>1
  <2>6. f \in Seq(Windows(n + 1))
    BY <2>1, <2>5, SeqBy
  <2>7. \A j \in DOMAIN f : ToSet(f[j].leaves) \subseteq Lives(d) \cup {n}
    BY <2>4, <2>5
  <2> QED BY <2>6, <2>7 DEF f
<1> HIDE DEF e
<1>3. DaemonOK(e, n + 1) /\ Lives(e) \subseteq Lives(d) \cup {n}
  BY <1>1, <1>2, DaemonGrows
<1> QED BY <1>3 DEF SplitAll, e

LEMMA SplitInv ==
  ASSUME ViewInv, split_active
  PROVE  ViewInv'
<1> DEFINE x == sessions[active]
           b == x.at
           t == ActiveTab(view)
           p == t.focus
           r == SplitLeaf(t.root, p, next)
           dead == [t EXCEPT !.zoomed = Nil]
           split == [t EXCEPT !.root = r, !.focus = next, !.zoomed = Nil]
           Put(y) == [sessions EXCEPT ![active] = [x EXCEPT !.tabs = [x.tabs EXCEPT ![b] = y]]]
<1>1. At("event") /\ pc = "event" /\ pc' = "drain" /\ active' = active /\ UNCHANGED <<closing, asked>>
  BY DEF split_active, Event, At
<1>2. /\ next \in Nat \ {0} /\ DaemonOK(daemon, next) /\ sessions \in Seq(SessionSet)
      /\ x \in SessionSet /\ active \in 1 .. Len(sessions) /\ t = x.tabs[b] /\ t \in TabSet
  BY <1>1, EventNow
<1>3. \/ sessions' = [sessions EXCEPT ![active].tabs[b].zoomed = Nil] /\ UNCHANGED <<daemon, next, slots>>
      \/ /\ daemon' = [s \in DOMAIN daemon |-> [j \in DOMAIN daemon[s] |->
                         [daemon[s][j] EXCEPT !.leaves = SplitLeaf(@, p, next)]]]
         /\ next' = next + 1 /\ slots' = Append(slots, Slot(next, "open"))
         /\ sessions' = [sessions EXCEPT ![active].tabs[b] = [@ EXCEPT !.root = r, !.focus = next, !.zoomed = Nil]]
  BY DEF split_active
<1> HIDE DEF t
<1>4. [sessions EXCEPT ![active].tabs[b].zoomed = Nil] = Put(dead)
  BY <1>2
<1>5. [sessions EXCEPT ![active].tabs[b] = [@ EXCEPT !.root = r, !.focus = next, !.zoomed = Nil]] = Put(split)
  <2> HIDE DEF r
  <2>1. [sessions EXCEPT ![active].tabs[b] = [@ EXCEPT !.root = r, !.focus = next, !.zoomed = Nil]] =
          Put([x.tabs[b] EXCEPT !.root = r, !.focus = next, !.zoomed = Nil])
    OBVIOUS
  <2> QED BY <1>2, <2>1
<1>6. dead \in TabSet
  BY <1>2, TabZoom
<1>7. split \in TabSet
  <2>1. t.root \in Seq(Nat) /\ Len(t.root) \in Nat /\ DOMAIN t.root = 1 .. Len(t.root) /\ Contains(t.root, p)
    BY <1>2, TabFacts
  <2> DEFINE q == t.root
             k == CHOOSE k \in DOMAIN q : q[k] = p
  <2>2. r = InsertAt(q, k + 1, next)
    BY <2>1 DEF SplitLeaf, InsertAfter
  <2>3. k \in 1 .. Len(q)
    BY <2>1 DEF Contains
  <2> HIDE DEF q, k, p
  <2>4. q \in Seq(Nat) /\ Len(q) \in Nat /\ k + 1 \in 1 .. Len(q) + 1
    BY <2>1, <2>3 DEF q
  <2>5. r \in Seq(Nat) /\ Len(r) = Len(q) + 1 /\ r[k + 1] = next
    BY <1>2, <2>2, <2>4, InsertAtSeq
  <2> HIDE DEF r
  <2>6. Contains(r, next)
    BY <2>4, <2>5 DEF Contains
  <2> QED BY <1>2, <2>5, <2>6, TabRoot
<1> HIDE DEF dead, split
<1>8. ASSUME NEW y \in TabSet PROVE Put(y) \in Seq(SessionSet) /\ Len(Put(y)) = Len(sessions)
  <2> DEFINE z == [x EXCEPT !.tabs = [x.tabs EXCEPT ![b] = y]]
  <2> HIDE DEF x, b
  <2>1. z \in SessionSet
    BY <1>2, SessionTab
  <2> HIDE DEF z
  <2>2. [sessions EXCEPT ![active] = z] \in Seq(SessionSet) /\ Len([sessions EXCEPT ![active] = z]) = Len(sessions)
    BY <1>2, <2>1, SetAt
  <2> QED BY <2>2 DEF z
<1> HIDE DEF Put
<1>9. CASE sessions' = Put(dead) /\ UNCHANGED <<daemon, next, slots>>
  <2>1. sessions' \in Seq(SessionSet) /\ active' \in 1 .. Len(sessions')
    BY <1>1, <1>2, <1>6, <1>8, <1>9
  <2> QED BY <1>1, <1>9, <2>1, SessionsOp
<1>10. CASE /\ daemon' = [s \in DOMAIN daemon |-> [j \in DOMAIN daemon[s] |->
                            [daemon[s][j] EXCEPT !.leaves = SplitLeaf(@, p, next)]]]
            /\ next' = next + 1 /\ slots' = Append(slots, Slot(next, "open")) /\ sessions' = Put(split)
  <2>1. sessions' \in Seq(SessionSet) /\ active' \in 1 .. Len(sessions')
    BY <1>1, <1>2, <1>7, <1>8, <1>10
  <2>2. DaemonOK(daemon', next + 1) /\ Lives(daemon') \subseteq Lives(daemon) \cup {next}
    <3> HIDE DEF p
    <3>1. daemon' = SplitAll(daemon, p, next)
      BY <1>10 DEF SplitAll
    <3> QED BY <1>2, <3>1, SplitGrows
  <2> QED BY <1>1, <1>10, <2>1, <2>2, PaneOp
<1> QED BY <1>3, <1>4, <1>5, <1>9, <1>10

LEMMA LoopInv ==
  ASSUME ViewInv, LoopNext
  PROVE  ViewInv'
BY StartListInv, StartAttachInv, EagerListInv, AdoptInv, DrainInv, FocusRequestInv, SyncStartInv, SyncPanesInv,
   SyncLayoutInv, SyncPruneInv, ResyncSkipInv, ResyncInv, FirstPaneInv DEF LoopNext

LEMMA StillInv ==
  ASSUME ViewInv, open_new_tab \/ Quit \/ NoEvent \/ GraceOver \/ UNCHANGED vars
  PROVE  ViewInv'
<1>1. /\ UNCHANGED <<next, daemon, slots, closing, asked, sessions, active, listed, turn, found>>
      /\ pc' = pc \/ (pc = "event" /\ pc' \in {"quit", "drain", "window"})
  BY DEF open_new_tab, Quit, NoEvent, GraceOver, Event, At, vars, dvars, app, loop, rpc, hist
<1>2. PanesInv /\ SessionsInv /\ ListInv
  BY DEF ViewInv
<1>3. PanesInv'
  BY <1>1, <1>2, PanesSame
<1>4. SessionsInv'
  BY <1>1, <1>2 DEF SessionsInv, Idle
<1>5. ListInv'
  BY <1>1, <1>2 DEF ListInv
<1> QED BY <1>3, <1>4, <1>5 DEF ViewInv

LEMMA UserInv ==
  ASSUME ViewInv, UserNext
  PROVE  ViewInv'
<1>1. pc = "event"
  BY DEF UserNext
<1> QED BY <1>1, SplitInv, NewSessionInv, CloseInv, ClickInv, JumpInv, NextTabInv, FocusNextInv, ZoomInv,
           ReorderInv, StillInv DEF UserNext

\* ViewInv: identifiers below next name what was created, windows of the daemon
\* have leaves, a stream that ended after frames is of a pane that is gone, every
\* close_pane RPC is for a pane that is gone or the user closed, and whatever the
\* loop indexes is there (run_tui, whatever the daemon and its other clients do
\* between the awaits).
THEOREM ViewSound == Spec => []ViewInv
<1>1. Init => ViewInv
  <2>1. SUFFICES ASSUME Init PROVE ViewInv
    OBVIOUS
  <2>2. /\ next = 1 /\ daemon = [s \in {} |-> <<>>] /\ slots = <<>> /\ closing = {} /\ sessions = <<>> /\ active = 1
        /\ pc = "start" /\ listed = <<>> /\ turn = 1 /\ found = {}
    BY <2>1 DEF Init
  <2>3. DaemonOK(daemon, next)
    BY <2>2 DEF DaemonOK
  <2>4. SlotsOK(slots, daemon, next) /\ ClosingOK(closing, asked, daemon, next)
    BY <2>2 DEF SlotsOK, ClosingOK
  <2>5. ListOK(listed)
    BY <2>2 DEF ListOK, ToSet
  <2> QED BY <2>2, <2>3, <2>4, <2>5 DEF ViewInv, PanesInv, SessionsInv, ListInv, Idle
<1>2. ViewInv /\ [Next]_vars => ViewInv'
  BY DaemonInv, LoopInv, UserInv, StillInv DEF Next
<1> QED BY <1>1, <1>2, PTL DEF Spec

\* The chips on the screen are those of the sessions and tabs there are when the
\* loop waits for an event, and no click went astray, unless the session is lost.
ChipInv ==
  /\ pc = "astray" => lost
  /\ pc = "event" /\ ~lost => frame.sessions = Len(sessions) /\ frame.tabs = Len(sessions[active].tabs)

LEMMA ChipsKept ==
  ASSUME UNCHANGED <<pc, lost, frame, sessions, active>>, ChipInv
  PROVE  ChipInv'
BY DEF ChipInv

LEMMA ChipsAway ==
  ASSUME pc' \notin {"event", "astray"}
  PROVE  ChipInv'
BY DEF ChipInv

LEMMA ChipsDrawn ==
  ASSUME NEW v, Draw(v)
  PROVE  ChipInv'
<1> DEFINE d == DetectLost(v)
<1>1. /\ pc' = "event" /\ lost' = d.lost /\ sessions' = d.v.sessions /\ active' = d.v.active
      /\ frame' = IF d.lost THEN frame
                  ELSE [sessions |-> Len(d.v.sessions), tabs |-> Len(d.v.sessions[d.v.active].tabs)]
  BY DEF Draw, Become
<1> HIDE DEF d
<1> QED BY <1>1 DEF ChipInv

\* A chip that leads nowhere is not on the screen: the overlay is.
LEMMA ChipsStray ==
  ASSUME ViewInv, ChipInv, NEW c, NEW q, Stray(c, q),
         <<c, q>> \in {<<frame.sessions, sessions>>, <<frame.tabs, sessions[active].tabs>>}
  PROVE  ChipInv'
<1>1. pc = "event" /\ pc' = "astray" /\ lost' = lost /\ c > Len(q)
  BY DEF Stray, Event, At
<1>2. sessions[active] \in SessionSet /\ Len(sessions) \in Nat
  BY <1>1, EventNow
<1>3. Len(sessions[active].tabs) \in Nat
  BY <1>2, SessionFacts
<1>4. ~lost => frame.sessions = Len(sessions) /\ frame.tabs = Len(sessions[active].tabs)
  BY <1>1 DEF ChipInv
<1>5. lost
  <2>1. CASE c = frame.sessions /\ q = sessions
    BY <1>1, <1>2, <1>4, <2>1
  <2>2. CASE c = frame.tabs /\ q = sessions[active].tabs
    BY <1>1, <1>3, <1>4, <2>2
  <2> QED BY <2>1, <2>2
<1> QED BY <1>1, <1>5 DEF ChipInv

LEMMA ChipsUser ==
  ASSUME ViewInv, ChipInv, UserNext
  PROVE  ChipInv'
<1>1. CASE split_active \/ open_new_tab \/ open_new_session \/ Quit
  <2>1. pc' \in {"drain", "window", "quit"}
    BY <1>1 DEF split_active, open_new_tab, open_new_session, Quit
  <2> QED BY <2>1, ChipsAway
<1>2. CASE \E v : LocalOp(v)
  <2>1. pc' \in {"drain", "end"}
    BY <1>2 DEF LocalOp
  <2> QED BY <2>1, ChipsAway
<1>3. CASE Stray(frame.sessions, sessions)
  BY <1>3, ChipsStray
<1>4. CASE Stray(frame.tabs, sessions[active].tabs)
  BY <1>4, ChipsStray
<1>5. close_focused_pane \/ menu_kill => \E v : LocalOp(v)
  BY DEF close_focused_pane, menu_kill, CloseSlot
<1>6. close_tab_chip => (\E v : LocalOp(v)) \/ Stray(frame.tabs, sessions[active].tabs)
  BY DEF close_tab_chip, CloseSlot
<1>7. click_session => (\E v : LocalOp(v)) \/ Stray(frame.sessions, sessions)
  BY DEF click_session, Click
<1>8. click_tab => (\E v : LocalOp(v)) \/ Stray(frame.tabs, sessions[active].tabs)
  BY DEF click_tab, Click
<1>9. click_pane => \E v : LocalOp(v)
  BY DEF click_pane, Click
<1>10. search_jump => \E v : LocalOp(v)
  BY JumpLocal
<1>11. next_tab \/ focus_next \/ toggle_zoom => \E v : LocalOp(v)
  BY DEF next_tab, focus_next, toggle_zoom, Move
<1>12. tab_reorder => (\E v : LocalOp(v)) \/ Stray(frame.tabs, sessions[active].tabs)
  BY DEF tab_reorder, Move
<1> QED BY <1>1, <1>2, <1>3, <1>4, <1>5, <1>6, <1>7, <1>8, <1>9, <1>10, <1>11, <1>12 DEF UserNext

LEMMA ChipsLoop ==
  ASSUME LoopNext
  PROVE  ChipInv'
<1>1. CASE ResyncSkip \/ Resync
  <2>1. \E v : Draw(v)
    BY <1>1 DEF ResyncSkip, Resync
  <2> QED BY <2>1, ChipsDrawn
<1>2. CASE ~(ResyncSkip \/ Resync)
  <2>1. CASE StartList \/ StartAttach \/ EagerList \/ Discover
    <3>1. pc' \in {"attach", "eager", "discover", "drain"}
      BY <2>1 DEF StartList, StartAttach, EagerList, Discover
    <3> QED BY <3>1, ChipsAway
  <2>2. CASE Drain \/ apply_focus_request \/ SyncSkip \/ SyncError \/ SyncList
    <3>1. pc' \in {"end", "focus", "poll", "resync", "adopt"}
      BY <2>2 DEF Drain, apply_focus_request, SyncSkip, SyncError, SyncList
    <3> QED BY <3>1, ChipsAway
  <2>3. CASE SyncAdopt \/ SyncPanes \/ SyncLayout \/ SyncPrune \/ open_first_pane
    <3>1. pc' \in {"adopt", "panes", "layout", "end", "resync", "drain"}
      BY <2>3 DEF SyncAdopt, SyncPanes, SyncLayout, SyncPrune, open_first_pane
    <3> QED BY <3>1, ChipsAway
  <2> QED BY <1>2, <2>1, <2>2, <2>3 DEF LoopNext
<1> QED BY <1>1, <1>2

LEMMA ChipsOthers ==
  ASSUME ChipInv, DaemonNext \/ NoEvent \/ GraceOver \/ UNCHANGED vars
  PROVE  ChipInv'
<1>1. CASE NoEvent
  <2>1. pc' = "drain"
    BY <1>1 DEF NoEvent
  <2> QED BY <2>1, ChipsAway
<1>2. CASE DaemonNext
  <2>1. UNCHANGED <<pc, lost, frame, sessions, active>>
    BY <1>2 DEF DaemonNext, OtherSpawn, OtherSplit, OtherWindow, PaneExit, Evict, ServeClose, SelectPane,
                DaemonDies, DaemonStep, loop
  <2> QED BY <2>1, ChipsKept
<1>3. CASE GraceOver \/ UNCHANGED vars
  <2>1. UNCHANGED <<pc, lost, frame, sessions, active>>
    BY <1>3 DEF GraceOver, vars, app, loop
  <2> QED BY <2>1, ChipsKept
<1> QED BY <1>1, <1>2, <1>3

\* Wherever run_tui indexes sessions[active_session].tabs[active_tab] both indices
\* are in bounds, and the focus of every tab is one of its leaves; a click whose
\* chip leads nowhere (session_strip_rects, tab_chip_rects of an old frame) needs
\* the session-lost overlay on the screen.
THEOREM IndicesInBounds == Spec => []ViewConsistent
<1>1. ViewInv /\ ChipInv => ViewConsistent
  <2>1. SUFFICES ASSUME ViewInv, ChipInv PROVE InBounds /\ FocusIsLeaf
    BY DEF ViewConsistent, ChipInv
  <2>2. sessions \in Seq(SessionSet) /\ (pc \notin Idle => active \in 1 .. Len(sessions))
    BY <2>1 DEF ViewInv, SessionsInv
  <2>3. DOMAIN sessions = 1 .. Len(sessions) /\ \A i \in DOMAIN sessions : sessions[i] \in SessionSet
    BY <2>2, SessionsFacts
  <2>4. InBounds
    BY <2>2, <2>3, SessionFacts DEF InBounds, Running, Idle
  <2>5. FocusIsLeaf
    <3>1. ASSUME NEW i \in DOMAIN sessions, NEW j \in DOMAIN sessions[i].tabs
          PROVE  Contains(sessions[i].tabs[j].root, sessions[i].tabs[j].focus)
      <4>1. sessions[i].tabs[j] \in TabSet
        BY <2>3, <3>1, SessionFacts
      <4> QED BY <4>1, TabFacts
    <3> QED BY <3>1 DEF FocusIsLeaf
  <2> QED BY <2>4, <2>5
<1>2. Init => ChipInv
  BY DEF Init, ChipInv
<1>3. ViewInv /\ ChipInv /\ [Next]_vars => ChipInv'
  BY ChipsUser, ChipsLoop, ChipsOthers DEF Next
<1> QED BY <1>1, <1>2, <1>3, ViewSound, PTL DEF Spec

\* A close_pane RPC for a pane whose shell still runs is one the user asked for:
\* close_pane_locally takes a stream without frames for a refused attachment.
THEOREM KillsAsked == Spec => []OnlyUserKillsLive
<1>1. ViewInv => OnlyUserKillsLive
  <2>1. SUFFICES ASSUME ViewInv, NEW p \in closing, Alive(p) PROVE p \in asked
    BY DEF OnlyUserKillsLive
  <2>2. p \in Lives(daemon)
    BY <2>1, AliveLives
  <2>3. ClosingOK(closing, asked, daemon, next)
    BY <2>1 DEF ViewInv, PanesInv
  <2> QED BY <2>1, <2>2, <2>3 DEF ClosingOK
<1> QED BY <1>1, ViewSound, PTL
=============================================================================
