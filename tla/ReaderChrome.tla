---------------------------- MODULE ReaderChrome ----------------------------
(***************************************************************************)
(* The reader's header, sheets, keys and full screen:                      *)
(* hooks/useReaderChrome.ts, hooks/useReaderControls.ts and the page that  *)
(* connects them (app/read/[id]/page.tsx, ReaderToolbar, ReaderStatusBar). *)
(*                                                                         *)
(* The hooks see the page's state in an effect, later than the state       *)
(* itself, and do their work in animation frames, later again.             *)
(***************************************************************************)
EXTENDS ClientEvents, FiniteSets, Sequences, SequencesExt

CONSTANT Chapters   \* names of chapters; a book may also report none

VARIABLES
    page,     \* what the page renders
    chrome    \* refs of the hooks and the browser's full screen state

chromeVars == <<page, chrome, events>>

NoChapter == "no chapter"
Sheets == {"toc", "bookmarks", "themeSettings"}

ASSUME ChaptersAssumption == NoChapter \notin Chapters

Watched == [loading |-> page.loading, sheets |-> page.sheets, chapter |-> page.chapter]
Pins(s) == s.loading \/ s.sheets # {}

ChromeInit ==
    /\ page = [loading |-> TRUE, sheets |-> {}, chapter |-> NoChapter, header |-> TRUE,
               menu |-> FALSE, zoom |-> FALSE, full |-> FALSE, here |-> TRUE]
    /\ chrome = [seen |-> [loading |-> TRUE, sheets |-> {}, chapter |-> NoChapter],
                 show |-> FALSE, locate |-> FALSE, located |-> NoChapter,
                 asked |-> "nothing", element |-> FALSE, changed |-> FALSE,
                 image |-> FALSE]              \* dataset.readerImageZoomOpen, and the image's own listener

(***************************************************************************)
(* The header                                                              *)
(***************************************************************************)

(* The effect of the page: syncChromeState. *)
SyncChromeState ==
    /\ page.here /\ Watched # chrome.seen
    /\ chrome' = [chrome EXCEPT !.seen = Watched, !.show = @ \/ Pins(Watched),
                     !.locate = @ \/ (/\ "toc" \in page.sheets /\ page.chapter # NoChapter
                                      /\ \/ "toc" \notin chrome.seen.sheets
                                         \/ chrome.seen.chapter # page.chapter)]
    /\ UNCHANGED page

(* The frame scheduleHeaderShow asked for. *)
ShowFrame ==
    /\ chrome.show
    /\ chrome' = [chrome EXCEPT !.show = FALSE]
    /\ page' = [page EXCEPT !.header = TRUE]

(* The frame scheduleCurrentChapterScroll asked for: it finds the item of the *)
(* chapter only in a list that is there.                                      *)
LocateFrame ==
    /\ chrome.locate
    /\ chrome' = [chrome EXCEPT !.locate = FALSE,
                     !.located = IF "toc" \in page.sheets THEN page.chapter ELSE @]
    /\ UNCHANGED page

(* hideHeader: refused while the hook knows of a reason to keep it. *)
HideHeader == IF Pins(chrome.seen) THEN page ELSE [page EXCEPT !.header = FALSE]

(* The status bar: onToggleToolbar. *)
ToggleToolbar ==
    /\ page.here
    /\ page' = IF page.header THEN HideHeader ELSE [page EXCEPT !.header = TRUE]
    /\ UNCHANGED chrome

(* ttsState became "playing". *)
SpeechPlays == page.here /\ page' = HideHeader /\ UNCHANGED chrome

(***************************************************************************)
(* What the page shows                                                     *)
(***************************************************************************)

(* The effect of one rendering runs before the next rendering. *)
Rendered == page.here /\ Watched = chrome.seen

Loaded == page.loading /\ Rendered /\ page' = [page EXCEPT !.loading = FALSE] /\ UNCHANGED chrome
Relocate(c) == Rendered /\ page' = [page EXCEPT !.chapter = c] /\ UNCHANGED chrome

(* A sheet covers everything; a list that is opened starts at its top. *)
OpenSheet(s) ==
    /\ Rendered /\ page.sheets = {} /\ ~page.zoom
    /\ page' = [page EXCEPT !.sheets = {s}, !.menu = FALSE]
    /\ chrome' = [chrome EXCEPT !.located = IF s = "toc" THEN NoChapter ELSE @]
CloseSheet == Rendered /\ page.sheets # {} /\ page' = [page EXCEPT !.sheets = {}] /\ UNCHANGED chrome

ToggleMenu == page.here /\ page.sheets = {} /\ ~page.zoom /\ page' = [page EXCEPT !.menu = ~@] /\ UNCHANGED chrome
DismissMenu == page.menu /\ page' = [page EXCEPT !.menu = FALSE] /\ UNCHANGED chrome

OpenImage == page.here /\ page.sheets = {} /\ page' = [page EXCEPT !.zoom = TRUE] /\ UNCHANGED chrome

(* The effects of useReaderImageZoom, after the image was rendered or taken away. *)
ImageEffects ==
    /\ page.here /\ chrome.image # page.zoom
    /\ chrome' = [chrome EXCEPT !.image = page.zoom]
    /\ UNCHANGED page

(***************************************************************************)
(* Full screen and leaving                                                 *)
(***************************************************************************)
ToggleFullscreen ==
    /\ page.here
    /\ chrome' = [chrome EXCEPT !.asked = IF chrome.element THEN "exit" ELSE "enter"]
    /\ UNCHANGED page

(* The browser grants what was asked, refuses it, or leaves on its own. *)
FullscreenGranted ==
    /\ chrome.asked # "nothing"
    /\ LET on == chrome.asked = "enter" /\ page.here
       IN  chrome' = [chrome EXCEPT !.asked = "nothing", !.element = on, !.changed = @ \/ on # chrome.element]
    /\ UNCHANGED page
FullscreenRefused ==
    chrome.asked = "enter" /\ chrome' = [chrome EXCEPT !.asked = "nothing"] /\ UNCHANGED page
FullscreenLost ==
    chrome.element /\ chrome' = [chrome EXCEPT !.element = FALSE, !.changed = TRUE] /\ UNCHANGED page

(* The fullscreenchange event. *)
FullscreenChange ==
    /\ chrome.changed
    /\ chrome' = [chrome EXCEPT !.changed = FALSE]
    /\ page' = [page EXCEPT !.full = chrome.element /\ page.here]

(* handleBack and the unmount that follows: frames are cancelled, full screen is left. *)
HandleBack ==
    /\ page' = [page EXCEPT !.here = FALSE, !.sheets = {}, !.menu = FALSE, !.zoom = FALSE]
    /\ chrome' = [chrome EXCEPT !.show = FALSE, !.locate = FALSE,
                     !.asked = IF chrome.element THEN "exit" ELSE @]

ClickBack == page.here /\ page.sheets = {} /\ ~page.zoom /\ HandleBack

(***************************************************************************)
(* Escape                                                                  *)
(***************************************************************************)

(* Mutant: the page ignores the image. *)
KeyboardHandlerBlind ==
    IF chrome.element THEN chrome' = [chrome EXCEPT !.asked = "exit"] /\ UNCHANGED page ELSE HandleBack

(* keyboardHandler: an open image keeps every key. *)
KeyboardHandler ==
    IF chrome.image THEN UNCHANGED <<page, chrome>>
    ELSE IF chrome.element THEN chrome' = [chrome EXCEPT !.asked = "exit"] /\ UNCHANGED page
    ELSE HandleBack

(* In the page the image takes the key before everyone else, then the menu that has the focus. *)
EscapeInPage ==
    /\ page.here /\ page.sheets = {}
    /\ CASE chrome.image -> page' = [page EXCEPT !.zoom = FALSE] /\ UNCHANGED chrome
         [] page.menu /\ ~chrome.image -> DismissMenu
         [] OTHER -> KeyboardHandler

(* In the document of the book only keyboardHandler listens. *)
EscapeInBook == page.here /\ page.sheets = {} /\ KeyboardHandler

ChromeNext ==
    \/ Internal /\ (SyncChromeState \/ ImageEffects \/ ShowFrame \/ LocateFrame \/ FullscreenGranted \/ FullscreenChange)
    \/ External /\ (ToggleToolbar \/ SpeechPlays \/ Loaded \/ CloseSheet \/ ToggleMenu \/ DismissMenu \/ OpenImage)
    \/ External /\ (ToggleFullscreen \/ FullscreenRefused \/ FullscreenLost)
    \/ External /\ (ClickBack \/ EscapeInPage \/ EscapeInBook)
    \/ External /\ \E c \in Chapters \cup {NoChapter} : Relocate(c)
    \/ External /\ \E s \in Sheets : OpenSheet(s)

(***************************************************************************)
(* Properties                                                              *)
(***************************************************************************)

(* Once effects and frames are done, an open sheet or a loading book has the   *)
(* header above it, however the hiding, the speech and the frames interleaved. *)
HeaderShown == (page.here /\ Pins(Watched) /\ chrome.seen = Watched /\ ~chrome.show) => page.header

(* The table of contents, once it settled, stands at the current chapter, also *)
(* when the chapter changes while it is open (scheduleCurrentChapterScroll).   *)
TocLocated ==
    (page.here /\ "toc" \in page.sheets /\ page.chapter # NoChapter /\ chrome.seen = Watched /\ ~chrome.locate)
        => chrome.located = page.chapter

(* Escape takes one thing at a time: nobody leaves the reader from an open image, *)
(* once the effects that follow its rendering have run.                           *)
OneThingAtATime == [][page.zoom /\ chrome.image /\ page.here => page'.here]_chromeVars

(***************************************************************************)
(* The enlarged image of the reader: hooks/useReaderImageZoom.ts,          *)
(* getZoomedState in lib/reader-page.ts and ReaderImageZoomOverlay.        *)
(* Fingers go down, move and lift in any order; one drags, two pinch, two  *)
(* quick taps toggle.                                                      *)
(*                                                                         *)
(* One axis is modelled, the middle of the window at 0, offsets in whole   *)
(* units.  Scales are counted in halves: 2 is the image as it is.          *)
(***************************************************************************)

CONSTANTS Fingers, Points   \* pointer ids; where a finger can be

VARIABLES
    zoom,      \* zoomedImage, imageZoom, imageInteracting
    touch,     \* the refs: pointers in the order they went down, drag, gesture, last tap
    hands      \* fingers on the screen; the wheel turned since the drag began (history)

zoomVars == <<zoom, touch, hands, events>>

ASSUME PointsAssumption == Points \subseteq Int /\ Points # {}

ReaderMinImageScale == 2
ReaderMaxImageScale == 10
Original == [scale |-> ReaderMinImageScale, x |-> 0]
NoDrag == [id |-> "none", start |-> 0, origin |-> 0]
NoGesture == [distance |-> -1, scale |-> 0, center |-> 0, x |-> 0]
NoTouch == [pointers |-> <<>>, drag |-> NoDrag, gesture |-> NoGesture, tapped |-> FALSE]

ZoomInit ==
    /\ zoom = [open |-> FALSE, image |-> Original, interacting |-> FALSE]
    /\ touch = NoTouch
    /\ hands = [down |-> {}, turned |-> FALSE]

(* getZoomedState: the point under the focus stays where it is. *)
GetZoomedState(z, next, focus) ==
    LET lower == IF next < ReaderMinImageScale THEN ReaderMinImageScale ELSE next
        scale == IF lower > ReaderMaxImageScale THEN ReaderMaxImageScale ELSE lower
    IN  [scale |-> scale, x |-> focus - ((focus - z.x) * scale) \div z.scale]

Toggled(z, at) == IF z.scale > ReaderMinImageScale THEN Original ELSE GetZoomedState(z, 5, at)

Distance(a, b) == IF a < b THEN b - a ELSE a - b
FingersOn(t) == {t.pointers[k].id : k \in DOMAIN t.pointers}
DragOf(p) == [id |-> p.id, start |-> p.at, origin |-> zoom.image.x]

HandleImageOpen ==
    /\ ~zoom.open
    /\ zoom' = [open |-> TRUE, image |-> Original, interacting |-> FALSE]
    /\ UNCHANGED <<touch, hands>>

(* handleImageClose: by a click, the button or Escape, with fingers on the image or not. *)
HandleImageClose ==
    /\ zoom.open
    /\ zoom' = [open |-> FALSE, image |-> Original, interacting |-> FALSE]
    /\ touch' = NoTouch
    /\ UNCHANGED hands

(* One more finger, neither the second nor on an image that can be dragged. *)
KeepsDrag == Len(touch.pointers) # 1 /\ zoom.image.scale <= ReaderMinImageScale

HandleImagePointerDown(f, at) ==
    /\ zoom.open /\ f \notin hands.down
    /\ hands' = [down |-> hands.down \cup {f}, turned |-> hands.turned /\ KeepsDrag]
    /\ zoom' = [zoom EXCEPT !.interacting = TRUE]
    /\ LET now == Append(touch.pointers, [id |-> f, at |-> at])
       IN  touch' = IF Len(now) = 2
                    THEN [touch EXCEPT !.pointers = now, !.drag = NoDrag,
                            !.gesture = [distance |-> Distance(now[1].at, now[2].at), scale |-> zoom.image.scale,
                                         center |-> (now[1].at + now[2].at) \div 2, x |-> zoom.image.x]]
                    ELSE [touch EXCEPT !.pointers = now,
                            !.drag = IF zoom.image.scale > ReaderMinImageScale THEN DragOf([id |-> f, at |-> at]) ELSE @]

(* Two fingers scale and shift the image they found; one drags it. *)
HandleImagePointerMove(f, at) ==
    /\ zoom.open /\ f \in FingersOn(touch)
    /\ LET now == [k \in DOMAIN touch.pointers |->
                      IF touch.pointers[k].id = f THEN [id |-> f, at |-> at] ELSE touch.pointers[k]]
           g == touch.gesture
           drag == touch.drag
           center == (now[1].at + now[2].at) \div 2
           pinched == GetZoomedState([scale |-> g.scale, x |-> g.x],
                                     (g.scale * Distance(now[1].at, now[2].at)) \div
                                        (IF g.distance < 1 THEN 1 ELSE g.distance), g.center)
           carried == [scale |-> pinched.scale, x |-> pinched.x + center - g.center]
       IN  /\ touch' = [touch EXCEPT !.pointers = now]
           /\ zoom' = [zoom EXCEPT !.image =
                          IF Len(now) >= 2 /\ g # NoGesture THEN carried
                          ELSE IF drag.id = f THEN [@ EXCEPT !.x = drag.origin + at - drag.start]
                          ELSE @]
    /\ UNCHANGED hands

(* What the lifted finger leaves: with one finger on a zoomed image the drag *)
(* goes on from where that finger is.                                        *)
AfterLift(f) ==
    LET at == {k \in DOMAIN touch.pointers : touch.pointers[k].id = f}
        rest == IF at = {} THEN touch.pointers ELSE RemoveAt(touch.pointers, CHOOSE k \in at : TRUE)
    IN  [touch EXCEPT !.pointers = rest, !.gesture = NoGesture,
           !.drag = IF Len(rest) = 1 /\ zoom.image.scale > ReaderMinImageScale THEN DragOf(rest[1]) ELSE NoDrag]

(* handleImagePointerEnd: the last finger to lift, unless it dragged or pinched, taps; *)
(* a second tap soon after, close by, toggles.                                         *)
HandleImagePointerEnd(f, at, soon) ==
    /\ f \in hands.down
    /\ hands' = [down |-> hands.down \ {f}, turned |-> FALSE]
    /\ IF ~zoom.open THEN UNCHANGED <<zoom, touch>>
       ELSE LET left == AfterLift(f)
                moved == touch.drag # NoDrag /\ Distance(at, touch.drag.start) > 0
                taps == ~moved /\ touch.gesture = NoGesture /\ left.pointers = <<>>
                again == taps /\ touch.tapped /\ soon
            IN  /\ touch' = IF taps THEN [left EXCEPT !.tapped = ~again] ELSE left
                /\ zoom' = [zoom EXCEPT !.interacting = left.pointers # <<>>,
                               !.image = IF again THEN Toggled(@, at) ELSE @]

(* A double click of a mouse: the click that counts two and the dblclick event toggle, each of them. *)
HandleImageDoubleClick(at) ==
    /\ zoom.open /\ touch.pointers = <<>>
    /\ zoom' = [zoom EXCEPT !.image = Toggled(Toggled(@, at), at)]
    /\ UNCHANGED <<touch, hands>>

HandleWheel(at, up) ==
    /\ zoom.open
    /\ zoom' = [zoom EXCEPT !.image = GetZoomedState(@, IF up THEN @.scale * 2 ELSE @.scale \div 2, at)]
    /\ hands' = [hands EXCEPT !.turned = TRUE]
    /\ UNCHANGED touch

ZoomNext ==
    \/ External /\ (HandleImageOpen \/ HandleImageClose)
    \/ External /\ \E f \in Fingers, at \in Points : HandleImagePointerDown(f, at) \/ HandleImagePointerMove(f, at)
    \/ External /\ \E f \in Fingers, at \in Points, soon \in BOOLEAN : HandleImagePointerEnd(f, at, soon)
    \/ External /\ \E at \in Points : HandleImageDoubleClick(at) \/ \E up \in BOOLEAN : HandleWheel(at, up)

(***************************************************************************)
(* Properties                                                              *)
(***************************************************************************)

(* The refs and the page agree whatever order fingers come and go in, and an   *)
(* image closed under the fingers leaves nothing for the next one: otherwise   *)
(* the next image would be pinched by a finger that is not there.              *)
PointersAccounted ==
    /\ zoom.interacting <=> touch.pointers # <<>>
    /\ FingersOn(touch) \subseteq hands.down
    /\ touch.drag # NoDrag => touch.drag.id \in FingersOn(touch)
    /\ touch.gesture # NoGesture => Len(touch.pointers) >= 2

(* A drag never jumps: the image stays under the finger that drags it, also    *)
(* when a pinch leaves one finger behind.  A wheel turned meanwhile is undone. *)
DragHolds ==
    (touch.drag # NoDrag /\ touch.gesture = NoGesture /\ ~hands.turned) =>
        \A k \in DOMAIN touch.pointers :
            touch.pointers[k].id = touch.drag.id =>
                zoom.image.x - touch.pointers[k].at = touch.drag.origin - touch.drag.start
=============================================================================
