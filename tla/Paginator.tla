------------------------------ MODULE Paginator ------------------------------
(***************************************************************************)
(* Turning pages: class Paginator of frontend/public/foliate/paginator.js, *)
(* used by the reader with its `animated` attribute set (the default).     *)
(* One section is shown at a time, in an iframe laid out in columns with a *)
(* blank page before and after the text, or scrolled.  A turn holds        *)
(* `locked`; a jump (goTo) only looks at it when it begins; a swipe is     *)
(* handled twice, by the snap of the paginator and by the turn the         *)
(* application asks for (useReaderControls.ts).  All of them scroll, load  *)
(* and show sections in promises that interleave.                          *)
(*                                                                         *)
(* Text is counted in units; a page holds pager.size of them.  The state   *)
(* of the operations is in `pagerTasks`, one per kind: two jumps may run.  *)
(***************************************************************************)
EXTENDS ClientEvents, Sequences, FiniteSetsExt

CONSTANTS
    Texts,       \* the units of text of each section, a sequence
    NonLinear,   \* sections with linear="no"
    Missing,     \* sections whose file is not in the archive
    PageSizes    \* units on a page, for the font sizes there are

VARIABLES pager, pagerTasks

pagerVars == <<pager, pagerTasks, events>>

Sections == DOMAIN Texts

ASSUME PaginatorAssumption ==
    /\ Texts \in Seq(Nat \ {0}) /\ NonLinear \subseteq Sections /\ Missing \subseteq Sections
    /\ PageSizes \subseteq Nat \ {0} /\ PageSizes # {}

Slots == {"turn", "snap", "goTo", "link"}
Unset == 0          \* #index is -1
Undefined == -1     \* #index is undefined: a section failed to load

Lost == -1          \* place: an animation went on over a layout it was not made for

Fraction(f) == [kind |-> "fraction", at |-> f]
Text(i) == [kind |-> "text", at |-> i]

NoTask == [stage |-> "none", dir |-> 0, to |-> 0, pages |-> 0, go |-> 0, anchor |-> Fraction(0), disturbed |-> FALSE]

PaginatorInit ==
    /\ \E size \in PageSizes :
         pager = [index |-> Unset, section |-> 0,   \* section: whose document the view shows
                  ready |-> FALSE,                  \* it is loaded and laid out
                  size |-> size, flow |-> "paginated",
                  at |-> 0,                         \* the page, or the first unit when scrolled
                  base |-> 0,                       \* where the last scroll ended
                  anchor |-> Fraction(0),
                  place |-> 0,                      \* the unit the reader went to last
                  just |-> FALSE, moved |-> FALSE,  \* #justAnchored; a scroll event is debounced
                  locked |-> FALSE]
    /\ pagerTasks = [s \in Slots |-> NoTask]

(***************************************************************************)
(* Layout                                                                  *)
(***************************************************************************)
Length(P) == Texts[P.section]
Scrolled(P) == P.flow = "scrolled"

(* The text of a document that is laid out. *)
Units(P) == IF P.ready THEN 0 .. Length(P) - 1 ELSE {}

(* pages: the text and a blank page at each end; the empty frame of a view that is loading has one. *)
Pages(P) == IF P.ready THEN (Length(P) + P.size - 1) \div P.size + 2 ELSE 1

(* The units in view. *)
Visible(P) ==
    LET from == IF Scrolled(P) THEN P.at ELSE (P.at - 1) * P.size
    IN  {i \in from .. from + P.size - 1 : i >= 0 /\ i < Length(P)}

(* Where getVisibleRange starts; on a blank page it is the body. *)
VisibleStart(P) == IF Visible(P) = {} THEN 0 ELSE Min(Visible(P))

(* The browser keeps a scroll position inside the content. *)
Clamp(P, at) ==
    LET limit == IF Scrolled(P) THEN Max({0, Length(P) - P.size}) ELSE Pages(P) - 1
    IN  Max({0, Min({limit, at})})

(* #scrollToAnchor: the page or the offset of an anchor. *)
AnchorAt(P, a) ==
    CASE a.kind = "text" /\ Scrolled(P) -> a.at
      [] a.kind = "text" /\ ~Scrolled(P) -> a.at \div P.size + 1
      [] a.kind = "fraction" /\ Scrolled(P) -> a.at * Length(P)
      [] a.kind = "fraction" /\ ~Scrolled(P) -> a.at * (Pages(P) - 3) + 1

(* The unit the anchor stands for. *)
AnchorPlace(P) == IF P.anchor.kind = "text" THEN P.anchor.at ELSE P.anchor.at * (Length(P) - 1)

(* #adjacentIndex: the next section of the reading order, Undefined if there is none. *)
AdjacentIndex(index, dir) ==
    LET ahead == {i \in Sections \ NonLinear : IF dir > 0 THEN i > index ELSE i < index}
    IN  IF index = Undefined \/ ahead = {} THEN Undefined ELSE IF dir > 0 THEN Min(ahead) ELSE Max(ahead)

AtStart(P) == AdjacentIndex(P.index, -1) = Undefined /\ P.at <= 1
AtEnd(P) == AdjacentIndex(P.index, 1) = Undefined /\ P.at >= Pages(P) - 2

(* Mutant: scrolling to an anchor makes what is visible then the new anchor. *)
AfterScrollAlways(P, reason) == [P EXCEPT !.anchor = Text(VisibleStart(P)), !.place = IF reason = "anchor" THEN @ ELSE VisibleStart(P)]

(* #afterScroll: the anchor follows the reader, not the layout. *)
AfterScroll(P, reason) ==
    IF reason \in {"navigation", "selection", "anchor"}
    THEN [P EXCEPT !.just = TRUE,
                   !.place = IF reason = "anchor" THEN @ ELSE AnchorPlace(P)]
    ELSE [P EXCEPT !.anchor = Text(VisibleStart(P)), !.place = VisibleStart(P)]

(* #scrollTo, done: the position, and #afterScroll. *)
Arrive(P, at, reason) ==
    LET c == Clamp(P, at)
    IN  AfterScroll([P EXCEPT !.at = c, !.base = c, !.moved = @ \/ (Scrolled(P) /\ c # P.at)], reason)

(* #scrollBounds: the pages a swipe may reach from where the last scroll ended. *)
Bounds(P) ==
    LET Q == [P EXCEPT !.at = P.base]
    IN  (IF AtStart(Q) THEN Q.at ELSE Q.at - 1) .. (IF AtEnd(Q) THEN Q.at ELSE Q.at + 1)

ScrollToAnchor(P, a, reason) ==
    LET Q == [P EXCEPT !.anchor = a] IN Arrive(Q, AnchorAt(Q, a), reason)

(***************************************************************************)
(* #goTo and #display                                                      *)
(***************************************************************************)

(* A task is done: a turn that showed a section still waits 100 ms with the lock. *)
Done(slot) == [NoTask EXCEPT !.stage = IF slot = "turn" THEN "wait" ELSE "none"]

(* A promise that never comes back, or rejects: only the turn had something left to do. *)
Gone(slot) == [NoTask EXCEPT !.stage = IF slot = "turn" THEN "lost" ELSE "none"]

(* A scroll in progress goes on over the layout that changes under it. *)
Disturbed(s) == [pagerTasks[s] EXCEPT !.disturbed = @ \/ pagerTasks[s].stage = "scroll"]

(* The end of an animation. *)
Scroll(t, reason) ==
    LET P == IF pager.ready THEN Arrive(pager, t.to, reason) ELSE pager
    IN  [P EXCEPT !.place = IF t.disturbed THEN Lost ELSE @]

(* scrollToAnchor of a view; one that is still loading will go where its own display asked. *)
Show(P, a) == IF P.ready THEN ScrollToAnchor(P, a, "navigation") ELSE P

(* #goTo from the state P: the section is there already, is to be loaded, or does  *)
(* not exist.  No section is the section that is there after one failed to load.   *)
Go(P, slot, target, a) ==
    CASE target = Undefined /\ (P.index # Undefined \/ P.section = 0) -> pager' = P /\ pagerTasks' = [pagerTasks EXCEPT ![slot] = Gone(slot)]
      [] target = P.index /\ (target = Undefined => P.section # 0) ->
             pager' = Show(P, a) /\ pagerTasks' = [pagerTasks EXCEPT ![slot] = Done(slot)]
      [] OTHER ->
             /\ pager' = P
             /\ pagerTasks' = [pagerTasks EXCEPT ![slot] = [NoTask EXCEPT !.stage = "load", !.go = target, !.anchor = a]]

(* The section's URL is there: a new view takes the place of the old one, whose frame may never load now. *)
SectionLoaded(slot) ==
    LET t == pagerTasks[slot] IN
    /\ t.stage = "load" /\ t.go \notin Missing
    /\ pager' = [pager EXCEPT !.index = t.go, !.section = t.go, !.ready = FALSE, !.at = 0]
    /\ pagerTasks' = [s \in Slots |-> IF s = slot THEN [t EXCEPT !.stage = "frame"]
                                 ELSE IF pagerTasks[s].stage = "frame" THEN Gone(s) ELSE Disturbed(s)]

(* What is displayed without a new view scrolls the old one; without any view it throws. *)
Redisplay(slot, index, a) ==
    LET P == [pager EXCEPT !.index = index]
    IN  IF pager.section = 0 THEN pager' = P /\ pagerTasks' = [pagerTasks EXCEPT ![slot] = Gone(slot)]
        ELSE pager' = Show(P, a) /\ pagerTasks' = [pagerTasks EXCEPT ![slot] = Done(slot)]

(* There is no such file: no view is made, the old one is scrolled under the new index. *)
SectionMissing(slot) ==
    /\ pagerTasks[slot].stage = "load" /\ pagerTasks[slot].go \in Missing
    /\ Redisplay(slot, pagerTasks[slot].go, pagerTasks[slot].anchor)

(* The section cannot be loaded: #index becomes undefined and the old view goes to its start. *)
SectionFails(slot) ==
    /\ pagerTasks[slot].stage = "load"
    /\ Redisplay(slot, Undefined, Fraction(0))

(* The load event of the frame: layout, and the position that was asked for. *)
FrameLoads(slot) ==
    LET t == pagerTasks[slot] IN
    /\ t.stage = "frame"
    /\ pager' = ScrollToAnchor([pager EXCEPT !.ready = TRUE], t.anchor, "navigation")
    /\ pagerTasks' = [s \in Slots |-> IF s = slot THEN Done(slot) ELSE Disturbed(s)]

(* goTo: a link, an entry of the contents, a bookmark, a position read elsewhere. *)
GoTo(slot, target, a) ==
    /\ ~pager.locked /\ pagerTasks[slot].stage = "none"
    /\ Go(pager, slot, target, a)

(***************************************************************************)
(* #turnPage                                                               *)
(***************************************************************************)
Locked(P) == [P EXCEPT !.locked = TRUE]

(* The anchor a section is entered with: its start, or its end when going back. *)
Entry(dir) == Fraction(IF dir < 0 THEN 1 ELSE 0)

ScrollTask(P, dir, to) ==
    [NoTask EXCEPT !.stage = "scroll", !.dir = dir, !.to = to, !.pages = Pages(P), !.disturbed = P.place = Lost]

(* #turnPage, with #scrollPrev or #scrollNext: nothing to do, the next section, or a scroll. *)
Turn(dir) ==
    LET P == pager
        next == IF Scrolled(P) THEN P.at + dir * P.size ELSE P.at + dir
        edge == ~P.ready \/ (IF dir < 0 THEN P.at = 0 ELSE P.at + P.size >= Length(P))
        still == IF dir < 0 THEN AtStart(P) ELSE AtEnd(P)
    IN  ~P.locked /\
        CASE P.section = 0 \/ (Scrolled(P) /\ edge) ->
                 Go(Locked(P), "turn", AdjacentIndex(P.index, dir), Entry(dir))
          [] P.section # 0 /\ ~Scrolled(P) /\ still -> pager' = P /\ UNCHANGED pagerTasks
          [] OTHER -> pager' = Locked(P) /\ pagerTasks' = [pagerTasks EXCEPT !["turn"] = ScrollTask(P, dir, Clamp(P, next))]


(* The blank page is reached: the turn goes on to the next section. *)
Leaves(t) == IF t.dir < 0 THEN t.to <= 0 ELSE t.to >= t.pages - 1

(* The animation of a turn ends. *)
TurnScrolled ==
    LET t == pagerTasks["turn"] IN
    /\ t.stage = "scroll"
    /\ LET P == Scroll(t, "page")
       IN  IF ~Scrolled(P) /\ Leaves(t)
           THEN Go(P, "turn", AdjacentIndex(P.index, t.dir), Entry(t.dir))
           ELSE pager' = [P EXCEPT !.locked = FALSE] /\ pagerTasks' = [pagerTasks EXCEPT !["turn"] = NoTask]

TurnWaited ==
    /\ pagerTasks["turn"].stage = "wait"
    /\ pager' = [pager EXCEPT !.locked = FALSE]
    /\ pagerTasks' = [pagerTasks EXCEPT !["turn"] = NoTask]

(***************************************************************************)
(* A swipe: the page follows the finger inside the bounds, then both the   *)
(* application and the paginator act on its end                            *)
(***************************************************************************)
(* The end of a touch: the turn, unless locked or at the end of the book, and the snap in the next frame. *)
Swipe(dir, drag) ==
    LET P == [pager EXCEPT !.at = Clamp(pager, @ + drag)]
        turns == ~P.locked /\ ((dir < 0 /\ ~AtStart(P)) \/ (dir > 0 /\ ~AtEnd(P)))
    IN  /\ pager.ready /\ ~Scrolled(pager) /\ pagerTasks["snap"].stage = "none"
        /\ P.at \in Bounds(pager)
        /\ pager' = IF turns THEN Locked(P) ELSE P
        /\ pagerTasks' = [pagerTasks EXCEPT !["snap"] = [NoTask EXCEPT !.stage = "touched"],
                                  !["turn"] = IF turns THEN ScrollTask(P, dir, Clamp(P, P.at + dir)) ELSE @]

(* snap, in the frame after the touch: a page inside the bounds by the speed of the finger. *)
SnapStarts ==
    /\ pagerTasks["snap"].stage = "touched"
    /\ \E q \in Bounds(pager) :
         pagerTasks' = [pagerTasks EXCEPT !["snap"] = ScrollTask(pager, 0, q)]
    /\ UNCHANGED pager

SnapScrolled ==
    LET t == pagerTasks["snap"]
        dir == IF t.to <= 0 THEN -1 ELSE 1
    IN  /\ t.stage = "scroll"
        /\ LET P == Scroll(t, "snap")
           IN  IF t.to <= 0 \/ t.to >= t.pages - 1
               THEN Go(P, "snap", AdjacentIndex(P.index, dir), Entry(dir))
               ELSE pager' = P /\ pagerTasks' = [pagerTasks EXCEPT !["snap"] = NoTask]

(***************************************************************************)
(* Layout changes, reading aloud, scrolling by hand                        *)
(***************************************************************************)

(* The view lays its document out, and what was the anchor is shown. *)
Expand(P, size, flow) ==
    ScrollToAnchor([P EXCEPT !.size = size, !.flow = flow], P.anchor, "anchor")

(* render(): a font size, fonts that arrive, the flow. *)
Reflow(size, flow) ==
    /\ pager.ready /\ <<size, flow>> # <<pager.size, pager.flow>>
    /\ pager' = Expand(pager, size, flow)
    /\ pagerTasks' = [s \in Slots |-> Disturbed(s)]

(* The word that is read aloud: scrollToAnchor(range, true), whatever is locked. *)
SpeechFollows(i) ==
    /\ pager' = ScrollToAnchor(pager, Text(i), "selection")
    /\ UNCHANGED pagerTasks

ScrollByHand(at) ==
    /\ Scrolled(pager) /\ at # pager.at /\ Clamp(pager, at) = at
    /\ pager' = [pager EXCEPT !.at = at, !.moved = TRUE]
    /\ UNCHANGED pagerTasks

(* 250 ms without a scroll event: the first report after an anchor is taken for its echo. *)
ScrollSettles ==
    /\ pager.moved /\ Scrolled(pager) /\ pager.ready
    /\ pager' = [IF pager.just THEN [pager EXCEPT !.just = FALSE] ELSE AfterScroll(pager, "scroll")
                 EXCEPT !.moved = FALSE]
    /\ UNCHANGED pagerTasks

PagerStep ==
    \/ \E slot \in Slots : SectionLoaded(slot) \/ SectionMissing(slot) \/ FrameLoads(slot)
    \/ TurnScrolled \/ TurnWaited \/ SnapStarts \/ SnapScrolled \/ ScrollSettles

PaginatorNext ==
    \/ Internal /\ PagerStep
    \/ External /\ \E slot \in {"goTo", "link"}, target \in Sections :
         \E a \in {Fraction(0), Text(Texts[target] - 1)} : GoTo(slot, target, a)
    \/ External /\ \E dir \in {-1, 1} : Turn(dir)
    \/ External /\ \E dir \in -1 .. 1, drag \in -1 .. 1 : Swipe(dir, drag)
    \/ External /\ \E slot \in Slots : SectionFails(slot)
    \/ External /\ \E size \in PageSizes, flow \in {"paginated", "scrolled"} : Reflow(size, flow)
    \/ External /\ \E i \in Units(pager) : SpeechFollows(i) \/ ScrollByHand(i)

(***************************************************************************)
(* Properties                                                              *)
(***************************************************************************)
AtRest == pager.ready /\ \A s \in Slots : pagerTasks[s].stage \in {"none", "wait", "lost"}

(* Changing fonts and layout never moves the reader away: when nothing is     *)
(* running, the unit of text the reader went to last is on the page shown,    *)
(* however many layouts came since (paginator.js:976-979, "don't set new      *)
(* anchor if relocation was to scroll to anchor").                            *)
PlaceKept ==
    (AtRest /\ ~Scrolled(pager) /\ pager.index = pager.section /\ pager.place # Lost) =>
        pager.place \in Visible(pager)

(* When nothing is running, the index reported with every position is that of *)
(* the section shown, in whatever order overlapping jumps and turns loaded    *)
(* theirs; only a missing file or a failed load leaves another (#display).    *)
IndexMatchesView == AtRest => pager.index \in {pager.section, Undefined} \cup Missing

(* A turn leaves a section forwards only behind its last unit of text, unless *)
(* the layout changed under its animation (#scrollNext).                      *)
LeavesAtEnd ==
    [][LET t == pagerTasks["turn"]
       IN  (t.stage = "scroll" /\ t.dir > 0 /\ ~t.disturbed /\ pager.ready /\ pagerTasks'["turn"].stage = "load")
               => (t.to - 1) * pager.size >= Length(pager)]_pagerVars

(* The lock is held only by a turn that still has a way to release it: what it *)
(* waits for is a timer, a file, or the frame of the view that is in the page. *)
(* It is held for ever ("lost") in two cases: a view was replaced before its   *)
(* frame loaded, or the turn asked for a section before the first or after the *)
(* last one (#turnPage).                                                       *)
LockAccounted ==
    LET t == pagerTasks["turn"]
    IN  pager.locked => \/ t.stage \in {"scroll", "load", "wait", "lost"}
                        \/ t.stage = "frame" /\ t.go = pager.section /\ ~pager.ready

(* Together: turns, jumps, swipes and reflows that interleave keep the place   *)
(* of the reader, the section that is shown and the lock consistent.           *)
PagesSafe == [](PlaceKept /\ IndexMatchesView /\ LockAccounted) /\ LeavesAtEnd
=============================================================================
