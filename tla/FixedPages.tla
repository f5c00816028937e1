----------------------------- MODULE FixedPages -----------------------------
(***************************************************************************)
(* The renderer of books with a fixed layout, public/foliate/              *)
(* fixed-layout.js: how sections are put side by side into spreads, and    *)
(* how a spread is opened, page by page, while the reader turns on.        *)
(*                                                                         *)
(* Pages are numbers of sections; 0 is a blank page.  A frame is the page  *)
(* in it and whether its element is hidden; NoFrame is a frame still to    *)
(* come.  The scale of the pages is left out, and so are sections that     *)
(* load without a source, which #createFrame shows as a blank page.        *)
(***************************************************************************)
EXTENDS ClientEvents, Sequences, FiniteSets, SequencesExt

CONSTANT Layouts   \* books: [spread, rtl, pages], pages a sequence of page-spread properties

ASSUME LayoutsAssumption ==
    \A b \in Layouts : b.rtl \in BOOLEAN /\ b.pages \in Seq({"left", "right", "center", "none"}) /\ b.pages # <<>>

VARIABLES
    fixed,   \* the element: the book, the spread that was asked for, its frames, the window
    moves    \* the calls of goToSpread that wait for a section or a frame

fixedVars == <<fixed, moves, events>>

NoFrame == [page |-> -1, hidden |-> FALSE]
Framed(n) == [page |-> n, hidden |-> FALSE]

(***************************************************************************)
(* Spreads                                                                 *)
(***************************************************************************)
Empty == [left |-> 0, right |-> 0, center |-> 0]
Given(n) == IF n = 0 THEN <<>> ELSE <<n>>

(* The body of the reduce in open: the next section into the last spread, or a new one. *)
PlacePage(spreads, i, property, rtl) ==
    LET near == spreads[Len(spreads)]
        first == IF rtl THEN "right" ELSE "left"       \* the side read first
        second == IF rtl THEN "left" ELSE "right"
        here(side) == [spreads EXCEPT ![Len(spreads)][side] = i]
        anew(side) == Append(spreads, [Empty EXCEPT ![side] = i])
    IN  CASE property = "center" -> (IF near.left # 0 \/ near.right # 0 THEN anew("center") ELSE here("center"))
          [] property = first -> (IF near.center # 0 \/ near[first] # 0 \/ i > 1 THEN anew(first) ELSE here(first))
          [] property = second -> (IF near.center # 0 \/ near[second] # 0 THEN anew(second) ELSE here(second))
          [] OTHER -> (IF near.center # 0 \/ near[second] # 0 THEN anew(first)
                       ELSE IF near[first] # 0 \/ i = 1 THEN here(second) ELSE here(first))

(* open: one section a spread, or pairs. *)
Spreads(b) ==
    IF b.spread = "none" THEN [i \in DOMAIN b.pages |-> [Empty EXCEPT !.center = i]]
    ELSE LET placed[i \in 0 .. Len(b.pages)] ==
               IF i = 0 THEN <<Empty>> ELSE PlacePage(placed[i - 1], i, b.pages[i], b.rtl)
         IN  placed[Len(b.pages)]

Current == Spreads(fixed.book)[fixed.index]

(* get index: the section that is reported as the reader's place. *)
IndexOfPage(f) ==
    LET s == Spreads(f.book)[f.index]
        either(a, b) == IF a # 0 THEN a ELSE b
    IN  IF s.center # 0 THEN s.center
        ELSE IF f.side = "left" THEN either(s.left, s.right) ELSE either(s.right, s.left)

(***************************************************************************)
(* Frames                                                                  *)
(***************************************************************************)

(* #render: in a tall window only the target is left visible, the page of the   *)
(* side; a page in the middle is the target of every side but the left one.     *)
Render(f, side) ==
    LET portrait == f.book.spread \notin {"both", "portrait"} /\ f.tall
        show(name) == IF f[name] = NoFrame THEN NoFrame ELSE [f[name] EXCEPT !.hidden = portrait /\ name # side]
    IN  IF side = "" THEN f
        ELSE IF f.center # NoFrame THEN [f EXCEPT !.portrait = portrait, !.center.hidden = portrait /\ side = "left"]
        ELSE [f EXCEPT !.portrait = portrait, !.left = show("left"), !.right = show("right")]

(* The end of goToSpread: the side, the layout, the report. *)
Opened(f, side) ==
    LET s == IF f.center # NoFrame THEN "center"
             ELSE IF f.left.page = 0 THEN "right" ELSE IF f.right.page = 0 THEN "left" ELSE side
        g == Render([f EXCEPT !.side = s], s)
    IN  [g EXCEPT !.reported = IndexOfPage(g)]

(* The start of #showSpread: every frame is dropped. *)
Cleared(f) == [f EXCEPT !.left = NoFrame, !.right = NoFrame, !.center = NoFrame]

(* #createFrame of the sides in turn; a blank page is there at once. *)
WithFrames(f, t) ==
    LET s == t.spread
        filled == IF s.center = 0 /\ s.left = 0 THEN [f EXCEPT !.left = Framed(0)] ELSE f
    IN  [f |-> filled, wait |-> IF s.center # 0 THEN "center" ELSE IF s.left # 0 THEN "left" ELSE "right"]

(* #showSpread.  A frame that is removed while it loads never does: who waits for it waits on. *)
ShowSpread(t) ==
    LET w == WithFrames(Cleared(fixed), t)
    IN  /\ fixed' = w.f
        /\ moves' = {m \in moves : m.stage = "sections" /\ m.id # t.id} \cup {[t EXCEPT !.stage = w.wait]}

(* A section of the spread was loaded, left before right; then the frames. *)
SectionLoads(t) ==
    /\ t.stage = "sections"
    /\ IF Len(t.rest) > 1
       THEN moves' = (moves \ {t}) \cup {[t EXCEPT !.rest = Tail(@)]} /\ UNCHANGED fixed
       ELSE ShowSpread(t)

(* The call ends with an error; the spread stays the one that was asked for. *)
SectionLoadFails(t) ==
    /\ t.stage = "sections"
    /\ moves' = moves \ {t}
    /\ fixed' = [fixed EXCEPT !.orderly = FALSE]

FrameArrives(t) ==
    /\ t.stage \in {"left", "right", "center"}
    /\ LET f == [fixed EXCEPT ![t.stage] = Framed(t.spread[t.stage])]
           right == t.spread.right
       IN  IF t.stage = "left" /\ right # 0
           THEN fixed' = f /\ moves' = (moves \ {t}) \cup {[t EXCEPT !.stage = "right"]}
           ELSE /\ fixed' = Opened(IF t.stage = "left" THEN [f EXCEPT !.right = Framed(0)] ELSE f, t.side)
                /\ moves' = moves \ {t}

(***************************************************************************)
(* Moving                                                                  *)
(***************************************************************************)

(* goToSpread, up to its first wait.  f is the element as the caller left it. *)
GoToSpread(f, index, side) ==
    LET n == Len(Spreads(f.book))
        spread == Spreads(f.book)[index]
        sections == IF spread.center # 0 THEN <<spread.center>>
                    ELSE Given(spread.left) \o Given(spread.right)
    IN  CASE index < 1 \/ index > n -> fixed' = f /\ UNCHANGED moves
          [] index \in 1 .. n /\ index = f.index -> fixed' = Render(f, side) /\ UNCHANGED moves
          [] OTHER ->
                /\ fixed' = [f EXCEPT !.index = index, !.orderly = moves = {}]
                /\ moves' = moves \cup {[id |-> events, spread |-> spread, side |-> side,
                                         rest |-> sections, stage |-> "sections"]}

(* #goLeft, #goRight: the other page of a spread that shows one at a time. *)
GoSide(side) ==
    /\ fixed.center = NoFrame /\ fixed[side].page # 0
    /\ fixed.portrait /\ fixed[side] # NoFrame /\ fixed[side].hidden

Pressed(f, by) ==
    LET seen == {g \in {f.left, f.right, f.center} : g.page > 0 /\ ~g.hidden}
    IN  [f EXCEPT !.from = IF moves = {} /\ f.orderly /\ Cardinality(seen) = 1
                           THEN [page |-> (CHOOSE g \in seen : TRUE).page, by |-> by] ELSE [page |-> 0, by |-> 0]]

(* next, prev *)
TurnPage(by) ==
    LET side == IF (by = 1) = fixed.book.rtl THEN "left" ELSE "right"
        entered == IF side = "left" THEN "right" ELSE "left"
        f == Pressed(fixed, by)
        there == Render([f EXCEPT !.side = side], side)
    IN  IF GoSide(side)
        THEN fixed' = [there EXCEPT !.reported = IndexOfPage(there)] /\ UNCHANGED moves
        ELSE GoToSpread(f, fixed.index + by, entered)

(* goTo, with getSpreadOf: a section that is in no spread is an error. *)
GoToPage(wanted) ==
    LET all == Spreads(fixed.book)
        at == [index : DOMAIN all, side : {"left", "right", "center"}]
        found == {x \in at : all[x.index][x.side] = wanted}
    IN  /\ found # {}
        /\ LET x == CHOOSE x \in found : TRUE
           IN  GoToSpread([fixed EXCEPT !.from = [page |-> 0, by |-> 0]], x.index, x.side)

(* The window is turned; the observer lays the pages out again. *)
Resize ==
    /\ fixed' = Render([fixed EXCEPT !.tall = ~@, !.from = [page |-> 0, by |-> 0]], fixed.side)
    /\ UNCHANGED moves

FixedInit ==
    /\ \E b \in Layouts, tall \in BOOLEAN :
          fixed = [book |-> b, index |-> 0, side |-> "", portrait |-> FALSE, tall |-> tall,
                   left |-> NoFrame, right |-> NoFrame, center |-> NoFrame, reported |-> 0,
                   orderly |-> TRUE, from |-> [page |-> 0, by |-> 0]]
    /\ moves = {}

FixedNext ==
    \/ External /\ (Resize \/ (\E by \in {1, -1} : TurnPage(by)) \/ (\E p \in DOMAIN fixed.book.pages : GoToPage(p)))
    \/ Internal /\ \E t \in moves : SectionLoads(t) \/ SectionLoadFails(t) \/ FrameArrives(t)

(***************************************************************************)
(* Properties                                                              *)
(***************************************************************************)
Settled == moves = {} /\ fixed.orderly /\ fixed.index # 0
OnScreen == {g.page : g \in {g \in {fixed.left, fixed.right, fixed.center} : g.page > 0 /\ ~g.hidden}}

(* Two pages to be shown in the centre, one after the other: the second takes *)
(* the place of the first, which is then in no spread (fixed-layout.js:229).  *)
Doubled(b) == \E i \in 1 .. (Len(b.pages) - 1) : b.pages[i] = "center" /\ b.pages[i + 1] = "center"

(* Spread by spread, in the direction of reading, every section is there once  *)
(* and in its order, whatever sides the book asks for.                         *)
PagesInOrder ==
    LET all == Spreads(fixed.book)
        read(s) == Given(s.center) \o (IF fixed.book.rtl THEN Given(s.right) \o Given(s.left)
                                       ELSE Given(s.left) \o Given(s.right))
    IN  fixed.book.spread = "none" \/ ~Doubled(fixed.book) =>
            FlattenSeq([n \in DOMAIN all |-> read(all[n])]) = [i \in DOMAIN fixed.book.pages |-> i]

(* Calls that do not overlap, and do not fail, leave the spread that was asked *)
(* for on the screen and nothing of the one before.                            *)
SpreadShown ==
    Settled => /\ fixed.center.page = (IF Current.center # 0 THEN Current.center ELSE -1)
               /\ Current.center = 0 => fixed.left.page = Current.left /\ fixed.right.page = Current.right
               /\ OnScreen # {}

(* In a tall window a turn leads from the page on the screen to the next or the *)
(* one before, in the same spread or another, and reports it; at the ends of    *)
(* the book it stays.                                                           *)
NoPageSkipped ==
    (Settled /\ fixed.from.page # 0 /\ fixed.portrait /\ ~Doubled(fixed.book)) =>
        LET next == fixed.from.page + fixed.from.by
        IN  IF next \in DOMAIN fixed.book.pages
            THEN OnScreen = {next} /\ fixed.reported = next
            ELSE OnScreen = {fixed.from.page}

(* Together: every page is in the spreads, is shown when it was asked for, and *)
(* is met when the reader turns through the book.                              *)
SpreadsSafe == PagesInOrder /\ SpreadShown /\ NoPageSkipped
=============================================================================
