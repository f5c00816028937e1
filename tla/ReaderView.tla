----------------------------- MODULE ReaderView -----------------------------
(***************************************************************************)
(* Opening a book in the reader: frontend/src/hooks/useFoliateView.ts on   *)
(* the page app/read/[id]/page.tsx.  `engine` is the foliate script, which *)
(* belongs to the browser tab and outlives a reader; `reader` is the one   *)
(* that is mounted.  initReader() waits for the script, the file, the      *)
(* saved position (shortly), the parsed book and the first document, each  *)
(* with a time limit or a failure of its own, and what it gave up waiting  *)
(* for may still come.                                                     *)
(***************************************************************************)
EXTENDS ClientEvents

CONSTANT MaxThemes   \* bound: themes chosen in a behaviour

VARIABLES engine, reader

viewVars == <<engine, reader, events>>

NoReader ==
    [stage |-> "none",      \* what initReader awaits
     view |-> "none",       \* the view element: none, made, opened, closed
     late |-> FALSE,        \* a goTo that initReader no longer waits for is running
     first |-> FALSE,       \* firstDocumentLoadedRef
     reveal |-> FALSE,      \* the animation frame of the first document is due
     left |-> FALSE,        \* destroyedRef
     loading |-> TRUE, ready |-> FALSE, error |-> FALSE,
     documents |-> 0,       \* documents whose listeners are bound
     theme |-> 1, applied |-> 0]

ReaderInit ==
    /\ engine = [run |-> "idle", script |-> "none", scripts |-> 0, defined |-> FALSE]
    /\ reader = NoReader

(***************************************************************************)
(* ensureFoliateScript: one load for everybody who asks                    *)
(***************************************************************************)

(* A script element that is already there is only waited for. *)
EnsureFoliateScript(e) ==
    IF e.defined \/ e.run # "idle" THEN e
    ELSE IF e.script # "none" THEN [e EXCEPT !.run = "register"]
    ELSE [e EXCEPT !.run = "fetch", !.script = "pending", !.scripts = @ + 1]

(* setReaderReady(true) and the effects that follow it: styles and preferences. *)
Ready(r) == [r EXCEPT !.ready = TRUE, !.loading = FALSE, !.applied = r.theme]

(* The catch of initReader. *)
InitFails(r) ==
    IF r.left THEN [r EXCEPT !.stage = "over"]
    ELSE [r EXCEPT !.stage = "over", !.ready = FALSE, !.error = TRUE, !.loading = FALSE]

(* Those who await the promise go on: a view is made, or the error is shown. *)
ScriptSettles(r, ok) ==
    IF r.stage # "script" THEN r
    ELSE IF ~ok THEN InitFails(r)
    ELSE IF r.left THEN [r EXCEPT !.stage = "over"]
    ELSE [r EXCEPT !.view = "made", !.stage = "file"]

ScriptRuns ==
    /\ engine.script = "pending"
    /\ engine' = [engine EXCEPT !.script = "ran", !.defined = TRUE, !.run = "idle"]
    /\ reader' = IF engine.run = "idle" THEN reader ELSE ScriptSettles(reader, TRUE)

(* An error event of the element, or a module that throws while it is evaluated. *)
ScriptBreaks ==
    /\ engine.script = "pending"
    /\ engine' = [engine EXCEPT !.script = "broken", !.run = "idle"]
    /\ reader' = IF engine.run = "idle" THEN reader ELSE ScriptSettles(reader, FALSE)

(* 15 seconds for the script, 5 for the element to be registered. *)
ScriptTimesOut ==
    /\ engine.run \in {"fetch", "register"}
    /\ engine' = [engine EXCEPT !.run = "idle"]
    /\ reader' = ScriptSettles(reader, FALSE)

(* Nobody registers the element any more: only the time limit ends the wait. *)
RegisterEnds ==
    /\ engine.run = "register" /\ engine.script \in {"broken", "ran"} /\ ~engine.defined
    /\ engine' = [engine EXCEPT !.run = "idle"]
    /\ reader' = ScriptSettles(reader, FALSE)

(***************************************************************************)
(* initReader                                                              *)
(***************************************************************************)

(* Authentication is ready: prefetch and initReader both ask for the script. *)
OpenReader ==
    /\ reader.stage = "none"
    /\ LET e == EnsureFoliateScript(EnsureFoliateScript(engine))
           r == [NoReader EXCEPT !.stage = "script"]
       IN  /\ engine' = e
           /\ reader' = IF e.defined THEN ScriptSettles(r, TRUE) ELSE r

(* After every await: a reader that was left goes no further. *)
GoOn(stage) ==
    reader' = [reader EXCEPT !.stage = IF reader.left THEN "over" ELSE stage]

FileArrives == reader.stage = "file" /\ GoOn("progress") /\ UNCHANGED engine

(* The position came, or 400 milliseconds went by. *)
ProgressWaited == reader.stage = "progress" /\ GoOn("open") /\ UNCHANGED engine

FileFails == reader.stage = "file" /\ reader' = InitFails(reader) /\ UNCHANGED engine

(* view.open() is done: styles, preferences, and goTo the saved position. *)
BookOpened ==
    /\ reader.stage = "open"
    /\ reader' = IF reader.left THEN [reader EXCEPT !.stage = "over"]
                 ELSE [reader EXCEPT !.stage = "goTo", !.view = "opened", !.applied = reader.theme]
    /\ UNCHANGED engine

(* The book cannot be parsed, or not within 30 seconds. *)
OpenFails == reader.stage = "open" /\ reader' = InitFails(reader) /\ UNCHANGED engine

(* The load event of the view: listeners, and the first document is revealed. *)
DocumentLoads ==
    /\ reader.view = "opened" /\ (reader.stage = "goTo" \/ reader.late) /\ ~reader.first
    /\ reader' = IF reader.left THEN reader
                 ELSE [reader EXCEPT !.first = TRUE, !.reveal = TRUE, !.documents = @ + 1]
    /\ UNCHANGED engine

(* Mutant: the frame does not look at destroyedRef. *)
RevealUnchecked ==
    /\ reader.reveal
    /\ reader' = [Ready(reader) EXCEPT !.reveal = FALSE]
    /\ UNCHANGED engine

(* requestAnimationFrame of the first document *)
Reveal ==
    /\ reader.reveal
    /\ reader' = IF reader.left THEN [reader EXCEPT !.reveal = FALSE]
                 ELSE [Ready(reader) EXCEPT !.reveal = FALSE]
    /\ UNCHANGED engine

(* view.goTo() resolves; it reports a failure to the console only. *)
GoToSettles ==
    /\ reader.stage = "goTo"
    /\ reader' = IF reader.left THEN [reader EXCEPT !.stage = "over"]
                 ELSE [Ready(reader) EXCEPT !.stage = "over"]
    /\ UNCHANGED engine

(* 12 seconds: a document that is loaded is shown, else the book failed to open. *)
GoToTimesOut ==
    /\ reader.stage = "goTo"
    /\ reader' = IF reader.first /\ ~reader.left
                 THEN [Ready(reader) EXCEPT !.stage = "over", !.late = TRUE]
                 ELSE [InitFails(reader) EXCEPT !.late = TRUE]
    /\ UNCHANGED engine

LateGoToEnds ==
    /\ reader.late
    /\ reader' = [reader EXCEPT !.late = FALSE]
    /\ UNCHANGED engine

(***************************************************************************)
(* The user                                                                *)
(***************************************************************************)

(* A theme chosen in the settings: the effects apply it to a reader that is ready. *)
ChooseTheme ==
    /\ reader.stage # "none" /\ ~reader.left /\ reader.theme < MaxThemes
    /\ reader' = [reader EXCEPT !.theme = @ + 1, !.applied = IF reader.ready THEN reader.theme + 1 ELSE @]
    /\ UNCHANGED engine

(* handleBack: cleanupReader aborts the download, unbinds and closes the view. *)
LeaveReader ==
    /\ reader.stage # "none" /\ ~reader.left
    /\ reader' = [reader EXCEPT !.left = TRUE, !.documents = 0, !.late = FALSE,
                                !.view = IF @ = "none" THEN "none" ELSE "closed"]
    /\ UNCHANGED engine

(***************************************************************************)
(* The page is unmounted: what it still awaits ends at the next look at    *)
(* its destroyedRef.  The tab, and the script in it, go on.  The effect    *)
(* that lowers destroyedRef again runs once for a mount: the book and the  *)
(* sign-in it depends on change only with the page.                        *)
(***************************************************************************)
ReaderGone ==
    /\ reader.left
    /\ reader' = NoReader
    /\ UNCHANGED engine

ReaderStep ==
    \/ (reader.left /\ FileArrives) \/ ProgressWaited \/ BookOpened \/ DocumentLoads \/ Reveal \/ GoToSettles
    \/ LateGoToEnds \/ ScriptRuns \/ RegisterEnds

ReaderViewNext ==
    \/ Internal /\ (ReaderStep \/ FileArrives \/ ReaderGone)
    \/ External /\ (OpenReader \/ ChooseTheme \/ LeaveReader)
    \/ External /\ (ScriptBreaks \/ ScriptTimesOut \/ FileFails \/ OpenFails \/ GoToTimesOut)

(* The browser answers or a time limit ends the wait; leaving ends the download, but no *)
(* time limit does.                                                                      *)
ReaderFairness == WF_viewVars(Internal /\ ReaderStep)

(***************************************************************************)
(* Properties                                                              *)
(***************************************************************************)

(* Prefetch, initReader and a reader opened again share one load: the engine  *)
(* is never put into the page twice (ensureFoliateScript).                    *)
OneScript == engine.scripts <= 1

(* If the file arrives, the loading screen goes away, by a page, an error, or *)
(* leaving: no other wait of initReader is without an end (useFoliateView.ts, *)
(* initReader).                                                               *)
LoadingEnds ==
    WF_viewVars(Internal /\ FileArrives) =>
      ((reader.stage # "none" /\ reader.loading) ~> (~reader.loading \/ reader.left))

(* An error page replaces no text that is there to be read: a slow position   *)
(* after the first document is no failure (useFoliateView.ts:705-710).        *)
ErrorHidesNothing == [][(~reader.error /\ reader'.error) => ~reader'.first]_viewVars

(* After the reader was left nothing of it changes what the page shows, and   *)
(* no document is bound any more: answers that come late find it gone.        *)
SilentAfterLeaving ==
    [][reader.left => \/ reader' = NoReader
                      \/ /\ reader'.documents = 0
                         /\ reader'.loading = reader.loading /\ reader'.ready = reader.ready
                         /\ reader'.error = reader.error]_viewVars

(* A page that is shown has the theme chosen last, also when it was chosen    *)
(* while the book was being opened (the effects on theme and readerReady).    *)
ThemeApplied == (reader.ready /\ ~reader.left) => reader.applied = reader.theme

(* Together: a page is shown in the theme chosen last and never taken back for  *)
(* an error, by one engine, and a reader that was left says nothing any more.   *)
ReaderSafe == ErrorHidesNothing /\ SilentAfterLeaving /\ [](ThemeApplied /\ OneScript)
=============================================================================
