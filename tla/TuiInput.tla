------------------------------ MODULE TuiInput ------------------------------
(***************************************************************************)
(* The terminal client's overlays, and what keys and mouse events do to    *)
(* them (input/keyboard.rs, input/prefix.rs, input/mouse.rs and the rest   *)
(* of the loop of app/run.rs).  Sessions and tabs are the subject of Tui:  *)
(* here root is the set of the leaves of all of them together, and panes   *)
(* are numbered as they are attached.                                      *)
(*                                                                         *)
(* A turn of the loop drains the channels, serves the search overlay,      *)
(* draws, and takes one event.  A text is known by its version, cursors    *)
(* count from 1, and a name is its length.                                 *)
(***************************************************************************)
EXTENDS Naturals, Sequences, SequencesExt, FiniteSets

CONSTANTS
  MaxAttached,  \* bound on the panes attached
  MaxText,      \* bound on the length of a typed name
  Inputs,       \* scenarios: the keys, mouse and other events, and bounds on them
  Absent

ASSUME InputAssumption ==
  /\ MaxAttached \in Nat /\ Absent \notin Nat
  /\ \A g \in Inputs : g.panes \in 1 .. MaxAttached

NumThemes  == 2
NumBlocks  == 2    \* longest block list of a pane
NumHits    == 2    \* longest list of search results
PagerLines == 3    \* lines of a block, of which VisibleRows are shown
VisibleRows == 2
MaxVisible == 2    \* toasts shown at once
MinPct     == 5

VARIABLES
  inp,      \* the scenario
  ui,       \* the overlay fields of AppState
  inSlots,  \* AppState.slots: the panes with their ribbon and scrollback
  root,     \* leaves of the tabs
  ended,    \* slots whose stream has ended
  feed,     \* block lists published by the poll task, and whether they are new
  flying,   \* search queries sent and not answered
  attached, \* panes attached so far
  inPc,
  steps,    \* events so far, of the user and of the world
  killed    \* history: the pane a menu was opened on, and the one it closed

ivars == <<inp, ui, inSlots, root, ended, feed, flying, attached, inPc, steps, killed>>
world == <<ended, feed, flying, attached>>

Panes == 1 .. MaxAttached
Lesser(a, b)  == IF a <= b THEN a ELSE b
Minus(a, b)   == IF a >= b THEN a - b ELSE 0    \* saturating_sub

SlotFor(ss, p) == SelectInSeq(ss, LAMBDA x : x # Absent /\ x.pane = p)
Focused   == SlotFor(inSlots, ui.focus)
NextPane  == attached + 1

NewSlot(p) == [pane |-> p, blocks |-> 0, ribbon |-> Absent, scroll |-> 0]

\* Mutant: a slot that was emptied is used again.
MutantPush(ss, x) ==
  LET k == SelectInSeq(ss, LAMBDA y : y = Absent)
  IN  IF k = 0 THEN Append(ss, x) ELSE [ss EXCEPT ![k] = x]

Push(ss, x) == Append(ss, x)

(***************************************************************************)
(* The overlays, in the order in which handle_key asks for them.           *)
(***************************************************************************)
Layers == <<"help", "lost", "prompt", "menu", "picker", "pager", "prefix", "search", "side", "ribbon">>
Modal  == {"help", "lost", "prompt", "menu", "picker", "pager"}

Open(l) ==
  CASE l = "help"   -> ui.help
    [] l = "lost"   -> ui.lost
    [] l = "prompt" -> ui.prompt # Absent
    [] l = "menu"   -> ui.menu # Absent
    [] l = "picker" -> ui.picker # Absent
    [] l = "pager"  -> ui.pager # Absent
    [] l = "prefix" -> ui.prefix
    [] l = "search" -> ui.search.open
    [] l = "side"   -> ui.side.open /\ ui.side.focused
    [] l = "ribbon" -> Focused # 0 /\ inSlots[Focused].ribbon # Absent

LayerFrom(k) == LET j == SelectInSubSeq(Layers, k, Len(Layers), Open)
                IN  IF j = 0 THEN "pane" ELSE Layers[j]
Layer == LayerFrom(1)

SideKeys == {"up", "down", "enter", "esc"}
Special  == SideKeys \cup {"back", "left", "right", "pgup", "pgdn", "prefix"}
IsChar(k) == k \notin Special

\* The layer that takes key k: the prefix goes before everything that is not
\* modal, and the sidebar lets through the keys it has no use for.
Takes(k) ==
  IF k = "prefix" /\ ~ui.prefix /\ Layer \notin Modal THEN "arm"
  ELSE IF Layer = "side" /\ k \notin SideKeys THEN LayerFrom(10)
  ELSE Layer

(***************************************************************************)
(* What the events have in common.                                         *)
(***************************************************************************)
Budget == /\ steps.user < inp.ops
          /\ steps' = [steps EXCEPT !.user = @ + 1]

InputEvent == inPc = "event" /\ UNCHANGED <<inp, world>>
Back  == inPc' = "drain"
Leave == inPc' = "quit" /\ UNCHANGED <<ui, inSlots, root, killed>>

Shows(v)  == ui' = v /\ Back /\ UNCHANGED <<inSlots, root, killed>>
Alters(k, x) == inSlots' = [inSlots EXCEPT ![k] = x] /\ Back /\ UNCHANGED <<ui, root, killed>>
Nothing   == Shows(ui)

\* close_pane_by_slot_idx.
ClosePane(v, k) ==
  LET p    == inSlots[k].pane
      left == root \ {p}
  IN  /\ inSlots' = [inSlots EXCEPT ![k] = Absent]
      /\ root' = left
      /\ IF left = {} THEN inPc' = "quit" /\ ui' = v
         ELSE /\ Back
              /\ ui' = [v EXCEPT !.zoomed = Absent,
                          !.focus = IF @ = p THEN CHOOSE q \in left : \A r \in left : q <= r ELSE @]

\* A split, a new tab or a new session: its pane is attached and focused,
\* unless the RPC fails.
NewPane(v) ==
  \/ /\ NextPane <= MaxAttached
     /\ inSlots' = Push(inSlots, NewSlot(NextPane))
     /\ root' = root \cup {NextPane}
     /\ ui' = [v EXCEPT !.focus = NextPane, !.zoomed = Absent]
     /\ attached' = NextPane
     /\ Back /\ UNCHANGED <<ended, feed, flying, killed>>
  \/ Shows(v) /\ UNCHANGED world

ZoomToggle(v) == [v EXCEPT !.zoomed = IF @ = Absent THEN v.focus ELSE Absent]

\* get_block_stdout of the block under the ribbon's cursor opens the pager.
OpenPager(k) ==
  \E ok \in BOOLEAN :
    Shows(IF ok /\ inSlots[k].ribbon <= inSlots[k].blocks THEN [ui EXCEPT !.pager = 0] ELSE ui)

MENU_ITEMS == <<"copy", "kill", "split_h", "split_v", "zoom", "inspect">>

\* The item of a context menu that was opened on slot k.
MenuDo(item, k) ==
  LET v == [ui EXCEPT !.menu = Absent]
  IN  \/ /\ item = "kill"
         /\ killed' = [killed EXCEPT !.pane = IF inSlots[k] = Absent THEN @ ELSE inSlots[k].pane]
         /\ IF inSlots[k] = Absent THEN ui' = v /\ Back /\ UNCHANGED <<inSlots, root>>
            ELSE ClosePane(v, k)
         /\ UNCHANGED world
      \/ item \in {"split_h", "split_v"} /\ NewPane(v)
      \/ item = "zoom" /\ Shows(ZoomToggle(v)) /\ UNCHANGED world
      \* pid_inspect shows a popup that takes no key.
      \/ item \in {"copy", "inspect"} /\ Shows(v) /\ UNCHANGED world

(***************************************************************************)
(* handle_key, layer by layer.                                             *)
(***************************************************************************)
HelpKey(k) == InputEvent /\ Shows([ui EXCEPT !.help = k \notin {"esc", "q", "?"}])

LostKey(k) == /\ InputEvent
              /\ IF k \in {"q", "esc", "ctrl_c"} THEN Leave ELSE Nothing

PromptKey(k) ==
  /\ inPc = "event" /\ UNCHANGED inp
  /\ LET closed == [ui EXCEPT !.prompt = Absent] IN
     \/ k = "esc" /\ Shows(closed) /\ UNCHANGED world
     \/ k = "back" /\ Shows([ui EXCEPT !.prompt.len = Minus(@, 1)]) /\ UNCHANGED world
     \/ IsChar(k) /\ ui.prompt.len < MaxText
        /\ Shows([ui EXCEPT !.prompt.len = @ + 1]) /\ UNCHANGED world
     \/ k = "enter" /\ ui.prompt.kind = "new" /\ NewPane(closed)
     \/ k = "enter" /\ ui.prompt.kind = "rename" /\ Shows(closed) /\ UNCHANGED world

MenuKey(k) ==
  /\ inPc = "event" /\ UNCHANGED inp
  /\ \/ k \in {"esc", "q"} /\ Shows([ui EXCEPT !.menu = Absent]) /\ UNCHANGED world
     \/ k = "up"   /\ Shows([ui EXCEPT !.menu.cursor = IF @ > 1 THEN @ - 1 ELSE 1]) /\ UNCHANGED world
     \/ k = "down" /\ Shows([ui EXCEPT !.menu.cursor = Lesser(@ + 1, Len(MENU_ITEMS))]) /\ UNCHANGED world
     \/ k = "enter" /\ MenuDo(MENU_ITEMS[ui.menu.cursor], ui.menu.slot)

\* Moving the cursor previews a theme, Enter keeps it, Esc goes back.
PickerKey(k) ==
  /\ InputEvent
  /\ LET Preview(c) == [ui EXCEPT !.picker.cursor = c, !.theme = c] IN
     \/ k \in {"esc", "q"} /\ Shows([ui EXCEPT !.picker = Absent, !.theme = ui.picker.original])
     \/ k = "up"   /\ Shows(Preview(IF ui.picker.cursor > 1 THEN ui.picker.cursor - 1 ELSE 1))
     \/ k = "down" /\ Shows(Preview(Lesser(ui.picker.cursor + 1, NumThemes)))
     \/ k = "enter" /\ Shows([ui EXCEPT !.picker = Absent, !.theme = ui.picker.cursor, !.saved = ui.picker.cursor])

\* PagerState::scroll_up, scroll_down.
PagerScroll(at, up, n) ==
  IF up THEN Minus(at, n) ELSE Lesser(at + n, Minus(PagerLines, VisibleRows))

\* Mutant: Esc is left to the layers below.
MutantPagerKey(k) ==
  /\ InputEvent
  /\ \/ k = "q" /\ Shows([ui EXCEPT !.pager = Absent])
     \/ k \in {"up", "down"} /\ Shows([ui EXCEPT !.pager = PagerScroll(@, k = "up", 1)])
     \/ k \in {"pgup", "pgdn"} /\ Shows([ui EXCEPT !.pager = PagerScroll(@, k = "pgup", VisibleRows)])

PagerKey(k) ==
  /\ InputEvent
  /\ \/ k \in {"q", "esc"} /\ Shows([ui EXCEPT !.pager = Absent])
     \/ k \in {"up", "down"} /\ Shows([ui EXCEPT !.pager = PagerScroll(@, k = "up", 1)])
     \/ k \in {"pgup", "pgdn"} /\ Shows([ui EXCEPT !.pager = PagerScroll(@, k = "pgup", VisibleRows)])

ArmPrefix(k) == InputEvent /\ Shows([ui EXCEPT !.prefix = TRUE])

\* Mutant: a query still under way is not forgotten when the overlay opens.
MutantOpenSearch(v) ==
  [v EXCEPT !.search = [@ EXCEPT !.open = TRUE, !.input = v.text, !.pending = Absent,
                                 !.q = v.text, !.n = 0, !.cursor = 1],
            !.text = @ + 1]

\* An empty text and no results, in a version of their own.
OpenSearch(v) ==
  [v EXCEPT !.search = [open |-> TRUE, input |-> v.text, pending |-> Absent, q |-> v.text,
                        n |-> 0, cursor |-> 1, rx |-> Absent, box |-> Absent],
            !.text = @ + 1]

\* handle_prefix_key.
PrefixKey(k) ==
  /\ inPc = "event" /\ UNCHANGED inp
  /\ LET v == [ui EXCEPT !.prefix = FALSE] IN
     \/ k \in {"q", "d"} /\ Leave /\ UNCHANGED world
     \/ k \in {"c", "%"} /\ NewPane(v)
     \/ /\ k = "x" /\ UNCHANGED <<world, killed>>
        /\ IF Focused = 0 THEN ui' = v /\ Back /\ UNCHANGED <<inSlots, root>> ELSE ClosePane(v, Focused)
     \/ /\ k \in {"[", "]"} /\ ui' = v /\ Back /\ UNCHANGED <<world, root, killed>>
        /\ inSlots' = IF Focused = 0 THEN inSlots
                    ELSE [inSlots EXCEPT ![Focused].ribbon =
                            IF k = "[" THEN IF inSlots[Focused].blocks > 0 THEN inSlots[Focused].blocks ELSE 1
                            ELSE Absent]
     \/ /\ k \notin {"q", "d", "c", "%", "x", "[", "]"} /\ UNCHANGED world
        /\ Shows(CASE k = "?" -> [v EXCEPT !.help = TRUE]
                   [] k = "/" -> OpenSearch(v)
                   [] k = "z" -> ZoomToggle(v)
                   [] k = "s" -> [v EXCEPT !.side.open = ~@, !.side.focused = ~ui.side.open]
                   [] k = "S" -> [v EXCEPT !.prompt = [kind |-> "new", len |-> 0]]
                   [] k = "," -> [v EXCEPT !.prompt = [kind |-> "rename", len |-> 1]]
                   [] k = "T" -> [v EXCEPT !.picker = [cursor |-> v.theme, original |-> v.theme]]
                   [] k = "N" -> [v EXCEPT !.deck.on = ~@]
                   [] OTHER   -> v)

CloseSearch(v) == [v EXCEPT !.search.open = FALSE, !.search.rx = Absent, !.search.box = Absent]

\* To the pane of the result and its block in the ribbon, if they are loaded.
SearchJump(v) ==
  \/ Shows(CloseSearch(v))
  \/ \E k \in {j \in DOMAIN inSlots : inSlots[j] # Absent /\ inSlots[j].pane \in root} :
       /\ ui' = [CloseSearch(v) EXCEPT !.focus = inSlots[k].pane]
       /\ \E c \in {inSlots[k].ribbon} \cup 1 .. inSlots[k].blocks :
            inSlots' = [inSlots EXCEPT ![k].ribbon = c]
       /\ Back /\ UNCHANGED <<root, killed>>

SearchKey(k) ==
  /\ InputEvent
  /\ LET s == ui.search
         Edit == [ui EXCEPT !.search.input = ui.text, !.search.pending = ui.text, !.text = @ + 1]
     IN  \/ k = "esc" /\ Shows(CloseSearch(ui))
         \/ k = "enter" /\ IF s.n = 0 THEN Shows(CloseSearch(ui)) ELSE SearchJump(ui)
         \/ k = "up"   /\ Shows([ui EXCEPT !.search.cursor = IF @ > 1 THEN @ - 1 ELSE 1])
         \/ k = "down" /\ Shows([ui EXCEPT !.search.cursor = Lesser(@ + 1, IF s.n > 0 THEN s.n ELSE 1)])
         \/ k = "back" /\ Shows(Edit)
         \/ IsChar(k) /\ Shows(Edit)

SideKey(k) ==
  /\ InputEvent
  /\ \/ k = "esc"  /\ Shows([ui EXCEPT !.side.focused = FALSE])
     \/ k = "up"   /\ Shows([ui EXCEPT !.side.cursor = IF @ > 1 THEN @ - 1 ELSE 1])
     \/ k = "down" /\ Shows([ui EXCEPT !.side.cursor = Lesser(@ + 1, IF ui.side.n > 0 THEN ui.side.n ELSE 1)])
     \/ /\ k = "enter"
        /\ \E here \in BOOLEAN :     \* the pane of the row is a leaf of this tab
             Shows(IF here /\ ui.side.cursor <= ui.side.n /\ ui.side.cursor \in root
                   THEN [ui EXCEPT !.focus = ui.side.cursor, !.side.focused = FALSE] ELSE ui)

RibbonKey(k) ==
  /\ InputEvent
  /\ LET x == inSlots[Focused]
         At(c) == Alters(Focused, [x EXCEPT !.ribbon = c])
     IN  \/ k = "left"  /\ At(IF x.ribbon > 1 THEN x.ribbon - 1 ELSE 1)
         \/ k = "right" /\ At(Lesser(x.ribbon + 1, IF x.blocks > 0 THEN x.blocks ELSE 1))
         \/ k = "esc"   /\ At(Absent)
         \/ k = "enter" /\ OpenPager(Focused)
         \/ k \notin {"left", "right", "esc", "enter"} /\ Nothing

\* The scrollback keys, and everything else to the shell.
PaneKey(k) ==
  /\ InputEvent
  /\ LET x == inSlots[Focused] IN
     \/ Focused = 0 /\ Nothing
     \/ /\ Focused # 0
        /\ Alters(Focused, [x EXCEPT !.scroll = CASE k = "pgup" -> @ + 1
                                                  [] k = "pgdn" -> Minus(@, 1)
                                                  [] OTHER -> 0])

Key(k) ==
  /\ inPc = "event"
  /\ LET l == Takes(k) IN
     \/ l = "help"   /\ HelpKey(k)
     \/ l = "lost"   /\ LostKey(k)
     \/ l = "prompt" /\ PromptKey(k)
     \/ l = "menu"   /\ MenuKey(k)
     \/ l = "picker" /\ PickerKey(k)
     \/ l = "pager"  /\ PagerKey(k)
     \/ l = "arm"    /\ ArmPrefix(k)
     \/ l = "prefix" /\ PrefixKey(k)
     \/ l = "search" /\ SearchKey(k)
     \/ l = "side"   /\ SideKey(k)
     \/ l = "ribbon" /\ RibbonKey(k)
     \/ l = "pane"   /\ PaneKey(k)

handle_key == Budget /\ \E k \in inp.keys : Key(k)

\* The user who wants out, once the events of the scenario are spent.
PressEsc == steps.user = inp.ops /\ Key("esc") /\ UNCHANGED steps

(***************************************************************************)
(* handle_mouse: the overlays do not keep the mouse from what is behind.   *)
(***************************************************************************)
Mouse(a) == a \in inp.acts /\ Budget

\* A press outside the menu dismisses it.
Pressed == [ui EXCEPT !.menu = Absent]

RightClick ==
  /\ Mouse("menu") /\ InputEvent /\ Back /\ UNCHANGED <<inSlots, root>>
  /\ \E k \in DOMAIN inSlots :
       /\ inSlots[k] # Absent /\ inSlots[k].pane \in root
       /\ ui' = [ui EXCEPT !.focus = inSlots[k].pane, !.menu = [slot |-> k, cursor |-> 1]]
       /\ killed' = [of |-> inSlots[k].pane, pane |-> Absent]

ClickItem ==
  /\ Mouse("menu") /\ inPc = "event" /\ UNCHANGED inp /\ ui.menu # Absent
  /\ \E c \in DOMAIN MENU_ITEMS : MenuDo(MENU_ITEMS[c], ui.menu.slot)

ClickResult ==
  /\ Mouse("click") /\ InputEvent /\ ui.search.open
  /\ \E r \in 1 .. ui.search.n : SearchJump([Pressed EXCEPT !.search.cursor = r])

ClickPlus == Mouse("click") /\ InputEvent /\ Shows([Pressed EXCEPT !.prompt = [kind |-> "new", len |-> 0]])

ClickRow ==
  /\ Mouse("click") /\ InputEvent /\ ui.side.open
  /\ \E r \in 1 .. ui.side.n : \E here \in BOOLEAN :
       Shows([Pressed EXCEPT !.side.cursor = r, !.side.focused = TRUE,
                             !.focus = IF here /\ r \in root THEN r ELSE @])

\* A double click opens the pager when get_block_stdout answers.
ClickChip ==
  /\ Mouse("chip") /\ InputEvent /\ Back /\ UNCHANGED <<root, killed>>
  /\ \E k \in DOMAIN inSlots : \E opened \in BOOLEAN :
       /\ inSlots[k] # Absent /\ inSlots[k].pane \in root
       /\ \E c \in 1 .. inSlots[k].blocks :
            /\ inSlots' = [inSlots EXCEPT ![k].ribbon = c]
            /\ ui' = [Pressed EXCEPT !.focus = inSlots[k].pane, !.pager = IF opened THEN 0 ELSE @]

\* A drag on the boundary of two panes moves their weights.
apply_resize_weights(w, delta) ==
  LET to == IF delta.left THEN Minus(w, delta.pct) ELSE w + delta.pct
  IN  IF to < MinPct THEN MinPct ELSE IF to > 100 - MinPct THEN 100 - MinPct ELSE to

Press   == Mouse("drag") /\ InputEvent /\ Cardinality(root) = 2
           /\ \E double \in BOOLEAN :
                Shows(IF double THEN [Pressed EXCEPT !.weight = 50] ELSE [Pressed EXCEPT !.drag = ui.weight])
Drag    == Mouse("drag") /\ InputEvent /\ ui.drag # Absent
           /\ \E left \in BOOLEAN, pct \in {10, 60} :
                Shows([ui EXCEPT !.weight = apply_resize_weights(ui.drag, [left |-> left, pct |-> pct])])
Release == Mouse("drag") /\ InputEvent /\ ui.drag # Absent /\ Shows([ui EXCEPT !.drag = Absent])

\* The wheel scrolls the pager while it is open, else the pane under it.
Wheel ==
  /\ Mouse("wheel") /\ InputEvent
  /\ \E up \in BOOLEAN :
       IF ui.pager # Absent THEN Shows([ui EXCEPT !.pager = PagerScroll(@, up, 3)])
       ELSE \E k \in DOMAIN inSlots :
              /\ inSlots[k] # Absent /\ inSlots[k].pane \in root
              /\ inSlots' = [inSlots EXCEPT ![k].scroll = IF up THEN @ + 3 ELSE Minus(@, 3)]
              /\ ui' = [ui EXCEPT !.focus = inSlots[k].pane]
              /\ Back /\ UNCHANGED <<root, killed>>

\* Pasted text goes to the focused pane whatever overlay is open.
Paste ==
  /\ Mouse("paste") /\ InputEvent
  /\ IF Focused = 0 THEN Nothing ELSE Alters(Focused, [inSlots[Focused] EXCEPT !.scroll = 0])

NoInput == inPc = "event" /\ Back /\ UNCHANGED <<inp, ui, inSlots, root, world, steps, killed>>

(***************************************************************************)
(* The rest of the loop.                                                   *)
(***************************************************************************)
\* The channels: ended streams close their pane, and new block lists move the
\* ribbon's cursor inside.
Listed(x) ==
  LET n == feed.map[x.pane]
  IN  IF ~feed.new THEN x
      ELSE [x EXCEPT !.blocks = n,
                     !.ribbon = IF @ = Absent \/ n = 0 THEN Absent ELSE Lesser(@, n)]

DrainPanes ==
  /\ inPc = "drain"
  /\ LET gone == {inSlots[k].pane : k \in {j \in ended : inSlots[j] # Absent}}
         left == root \ gone
     IN  /\ inSlots' = [k \in DOMAIN inSlots |->
                        IF inSlots[k] = Absent \/ k \in ended THEN Absent ELSE Listed(inSlots[k])]
         /\ root' = left
         /\ inPc' = IF left = {} THEN "quit" ELSE "search"
         /\ ui' = IF gone = {} \/ left = {} THEN ui
                  ELSE [ui EXCEPT !.zoomed = Absent,
                          !.focus = IF @ \in gone THEN CHOOSE q \in left : \A r \in left : q <= r ELSE @]
  /\ ended' = {} /\ feed' = [feed EXCEPT !.new = FALSE]
  /\ UNCHANGED <<inp, flying, attached, steps, killed>>

ShowHits(s) == [s EXCEPT !.q = s.rx, !.n = s.box, !.cursor = 1, !.box = Absent]

\* The debounced query, in a channel of its own, and the answer of the last one.
SearchTick ==
  /\ inPc = "search" /\ inPc' = "draw"
  /\ \E fire \in BOOLEAN :
       LET s == ui.search
           t == IF fire THEN [s EXCEPT !.rx = s.pending, !.box = Absent, !.pending = Absent] ELSE s
       IN  /\ fire => s.open /\ s.pending # Absent
           /\ flying' = IF fire THEN flying \cup {s.pending} ELSE flying
           /\ ui' = [ui EXCEPT !.search = IF t.rx # Absent /\ t.box # Absent THEN ShowHits(t) ELSE t]
  /\ UNCHANGED <<inp, inSlots, root, ended, feed, attached, steps, killed>>

\* session_lost, then the frame: the scrollback of a drawn pane is clamped to
\* the lines there are (one in this model).
DrawnNow(k) == /\ inSlots[k] # Absent /\ inSlots[k].pane \in root
               /\ ui.zoomed \in {Absent, inSlots[k].pane}

DrawPanes ==
  /\ inPc = "draw" /\ inPc' = "event"
  /\ inSlots' = [k \in DOMAIN inSlots |->
                 IF DrawnNow(k) THEN [inSlots[k] EXCEPT !.scroll = Lesser(@, 1)] ELSE inSlots[k]]
  /\ ui' = [ui EXCEPT !.lost = \A p \in root : SlotFor(inSlots, p) = 0]
  /\ UNCHANGED <<inp, root, world, steps, killed>>

(***************************************************************************)
(* The world.                                                              *)
(***************************************************************************)
World(a) == /\ a \in inp.acts /\ inPc # "quit"
            /\ steps.world < inp.env
            /\ steps' = [steps EXCEPT !.world = @ + 1]
            /\ UNCHANGED <<inp, inPc, killed>>

StreamEnds ==
  /\ World("exit")
  /\ \E k \in DOMAIN inSlots : inSlots[k] # Absent /\ k \notin ended /\ ended' = ended \cup {k}
  /\ UNCHANGED <<ui, inSlots, root, feed, flying, attached>>

\* The poll of the session list drops the slot and keeps the leaf.
PruneSlot ==
  /\ World("prune") /\ inPc = "search"
  /\ \E k \in DOMAIN inSlots : inSlots[k] # Absent /\ inSlots' = [inSlots EXCEPT ![k] = Absent]
  /\ UNCHANGED <<ui, root, world>>

BlockPoll ==
  /\ World("blocks")
  /\ \E p \in Panes, n \in 0 .. NumBlocks : feed' = [map |-> [feed.map EXCEPT ![p] = n], new |-> TRUE]
  /\ UNCHANGED <<ui, inSlots, root, ended, flying, attached>>

\* The pane-meta poll of the loop.
MetaPoll ==
  /\ World("meta") /\ inPc = "search"
  /\ \E n \in 0 .. MaxAttached :
       ui' = [ui EXCEPT !.side.n = n, !.side.cursor = Lesser(@, IF n > 0 THEN n ELSE 1)]
  /\ UNCHANGED <<inSlots, root, world>>

\* A toast arrives in an enabled deck and pushes out the oldest, or one expires.
ToastTick ==
  /\ World("toast") /\ inPc = "search"
  /\ \/ ui' = [ui EXCEPT !.deck.n = IF ui.deck.on THEN Lesser(@ + 1, MaxVisible) ELSE @]
     \/ ui.deck.n > 0 /\ ui' = [ui EXCEPT !.deck.n = @ - 1]
  /\ UNCHANGED <<inSlots, root, world>>

\* An answer whose channel was replaced or closed is dropped.
Answer ==
  /\ \E q \in flying, n \in 0 .. NumHits :
       /\ flying' = flying \ {q}
       /\ ui' = IF ui.search.rx = q THEN [ui EXCEPT !.search.box = n] ELSE ui
  /\ UNCHANGED <<inp, inSlots, root, ended, feed, attached, inPc, steps, killed>>

(***************************************************************************)
InputInit ==
  /\ inp \in Inputs
  /\ ui = [help |-> FALSE, lost |-> FALSE, prefix |-> FALSE, prompt |-> Absent, menu |-> Absent,
           picker |-> Absent, pager |-> Absent, theme |-> 1, saved |-> 1, focus |-> 1, zoomed |-> Absent,
           search |-> [open |-> FALSE, input |-> 0, pending |-> Absent, q |-> 0, n |-> 0,
                       cursor |-> 1, rx |-> Absent, box |-> Absent],
           text |-> 1, side |-> [open |-> FALSE, focused |-> FALSE, n |-> 0, cursor |-> 1],
           deck |-> [on |-> TRUE, n |-> 0], weight |-> 50, drag |-> Absent]
  /\ inSlots = [p \in 1 .. inp.panes |-> NewSlot(p)]
  /\ root = 1 .. inp.panes
  /\ attached = inp.panes
  /\ ended = {} /\ flying = {}
  /\ feed = [map |-> [p \in Panes |-> 0], new |-> FALSE]
  /\ inPc = "drain" /\ steps = [user |-> 0, world |-> 0]
  /\ killed = [of |-> Absent, pane |-> Absent]

MouseNext == RightClick \/ ClickItem \/ ClickResult \/ ClickPlus \/ ClickRow \/ ClickChip
             \/ Press \/ Drag \/ Release \/ Wheel \/ Paste
InputLoop == DrainPanes \/ SearchTick \/ DrawPanes
WorldNext == StreamEnds \/ PruneSlot \/ BlockPoll \/ MetaPoll \/ ToastTick \/ Answer

InputNext == handle_key \/ PressEsc \/ MouseNext \/ NoInput \/ InputLoop \/ WorldNext

InputSpec == InputInit /\ [][InputNext]_ivars

\* The loop turns, and a user who wants out presses Esc again and again.
InputFairSpec == InputSpec /\ WF_ivars(InputLoop) /\ SF_ivars(PressEsc)

(***************************************************************************)
(* Properties                                                              *)
(***************************************************************************)

\* Kill pane of a context menu closes the pane the menu was opened on or
\* nothing, although the menu keeps an index into slots while panes end and
\* others are attached.
MenuKillsItsPane == killed.pane \in {Absent, killed.of}

\* The search overlay never goes back to the results of an older text: the
\* answer to a query that was replaced, or that was sent before the overlay
\* was closed and opened again, is not shown.
SearchGoesForward ==
  ui.search.open /\ ui'.search.open => ui'.search.q >= ui.search.q
ResultsNeverGoBack == [][SearchGoesForward]_ivars

\* Every overlay can be left: a user who goes on pressing Esc ends up with
\* the keys going to the shell, or outside the program.
EscLeadsOut == []<>(steps.user = inp.ops => Layer = "pane" \/ inPc = "quit")
=============================================================================
