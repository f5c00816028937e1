---------------------------- MODULE ArchiveLoader ----------------------------
(***************************************************************************)
(* The entries of an archive (zip-loader.js, zip-worker.js): a module      *)
(* worker decodes them, each request under a timer; when the worker cannot *)
(* start, breaks, is late or cannot decode an entry it is given up, and    *)
(* what it still owed is decoded on the page by a decoder opened then.     *)
(*                                                                         *)
(* The continuations of rejected requests run before any other event, so   *)
(* giving the worker up and turning to the decoder is one step.  Reading   *)
(* the archive itself (vendor/zip.js) is external: it may fail.            *)
(***************************************************************************)
EXTENDS ClientEvents

CONSTANT MaxEntries   \* how many loads a run makes
ASSUME EntriesAssumption == MaxEntries \in Nat

VARIABLES
    archive,      \* mode, worker, decoder on the page, running timers, stopped
    entryLoads    \* what became of each load

archiveVars == <<archive, entryLoads, events>>

EntryIds == 1 .. MaxEntries
InitRequest == 0

ArchiveInit ==
    /\ archive = [mode |-> "none", worker |-> FALSE, decoder |-> "none", timers |-> {}, stopped |-> FALSE]
    /\ entryLoads = [r \in EntryIds |-> "idle"]

Asked == {r \in EntryIds : entryLoads[r] = "asked"}
Becomes(rs, phase) == entryLoads' = [r \in EntryIds |-> IF r \in rs THEN phase ELSE entryLoads[r]]

(* makeDirectZipLoader for the whole archive. *)
Direct(a) == [a EXCEPT !.mode = "direct", !.decoder = "opening"]

(* stop: the worker is terminated and everything pending rejected, timers included. *)
StopWorker(a) == [a EXCEPT !.worker = FALSE, !.timers = {}]

MakeZipLoader ==
    /\ External
    /\ archive.mode = "none"
    /\ \/ archive' = [archive EXCEPT !.mode = "starting", !.worker = TRUE, !.timers = {InitRequest}]
       \/ archive' = Direct(archive)
    /\ UNCHANGED entryLoads

(* The answer to init: the names of the entries, or why there are none. *)
WorkerReady(ok) ==
    /\ Internal
    /\ archive.mode = "starting"
    /\ archive' = IF ok THEN [archive EXCEPT !.mode = "worker", !.timers = @ \ {InitRequest}]
                  ELSE Direct(StopWorker(archive))
    /\ UNCHANGED entryLoads

(* The catch of load. *)
FallBack(rs) ==
    IF archive.stopped THEN Becomes(rs, "failed") /\ UNCHANGED archive
    ELSE /\ archive' = [StopWorker(archive) EXCEPT !.decoder = IF @ = "none" THEN "opening" ELSE @]
         /\ Becomes(rs, CASE archive.decoder = "open" -> "decoding"
                          [] archive.decoder = "failed" -> "failed"
                          [] OTHER -> "waiting")

LoadEntry(r) ==
    /\ External
    /\ archive.mode = "worker" \/ (archive.mode = "direct" /\ archive.decoder \in {"open", "closed"})
    /\ entryLoads[r] = "idle"
    /\ CASE archive.mode = "direct" -> Becomes({r}, "decoding") /\ UNCHANGED archive
         [] archive.mode = "worker" /\ archive.worker ->
              Becomes({r}, "asked") /\ archive' = [archive EXCEPT !.timers = @ \cup {r}]
         [] OTHER -> FallBack({r})

(* The message listener: an entry, or the error that makes the load give the worker up. *)
WorkerAnswers(r, ok) ==
    /\ Internal
    /\ archive.worker /\ entryLoads[r] = "asked"
    /\ IF ok THEN Becomes({r}, "done") /\ archive' = [archive EXCEPT !.timers = @ \ {r}] ELSE FallBack(Asked)

(* stop from an event: who waited for the worker goes on without it. *)
GiveWorkerUp ==
    CASE archive.mode = "starting" -> archive' = Direct(StopWorker(archive)) /\ UNCHANGED entryLoads
      [] archive.mode = "worker" /\ Asked = {} -> archive' = StopWorker(archive) /\ UNCHANGED entryLoads
      [] OTHER -> FallBack(Asked)

(* "error", "messageerror", or a message that cannot be posted. *)
WorkerBreaks == Internal /\ archive.worker /\ GiveWorkerUp
(* Fifteen seconds. *)
WorkerTimesOut == Internal /\ archive.timers # {} /\ GiveWorkerUp

DecoderOpens(ok) ==
    /\ Internal
    /\ archive.decoder = "opening"
    /\ archive' = [archive EXCEPT !.decoder = IF ~ok THEN "failed" ELSE IF archive.stopped THEN "closed" ELSE "open"]
    /\ Becomes({r \in EntryIds : entryLoads[r] = "waiting"}, IF ok THEN "decoding" ELSE "failed")

EntryDecoded(r, ok) ==
    /\ Internal
    /\ entryLoads[r] = "decoding"
    /\ Becomes({r}, IF ok THEN "done" ELSE "failed")
    /\ UNCHANGED archive

(* destroy: book.destroy, or a book that cannot be opened (view.js). *)
DestroyArchive ==
    /\ External
    /\ ~archive.stopped
    /\ archive.mode = "worker" \/ (archive.mode = "direct" /\ archive.decoder = "open")
    /\ archive' = [StopWorker(archive) EXCEPT !.stopped = TRUE, !.decoder = IF @ = "open" THEN "closed" ELSE @]
    /\ Becomes(Asked, "failed")

ArchiveNext ==
    \/ MakeZipLoader \/ DestroyArchive \/ WorkerBreaks \/ WorkerTimesOut
    \/ \E ok \in BOOLEAN : WorkerReady(ok) \/ DecoderOpens(ok)
    \/ \E r \in EntryIds : LoadEntry(r) \/ \E ok \in BOOLEAN : WorkerAnswers(r, ok) \/ EntryDecoded(r, ok)

(* Timers run out and the page decodes; that the worker answers is not assumed. *)
ArchiveFairness ==
    /\ WF_archiveVars(WorkerTimesOut)
    /\ WF_archiveVars(\E ok \in BOOLEAN : DecoderOpens(ok))
    /\ \A r \in EntryIds : WF_archiveVars(\E ok \in BOOLEAN : EntryDecoded(r, ok))

(***************************************************************************)
(* Properties                                                              *)
(***************************************************************************)

(* A timer runs exactly for a request that is pending: one that outlived its    *)
(* request would end the worker under those it still serves.                    *)
TimersMatch ==
    archive.timers = Asked \cup (IF archive.mode = "starting" THEN {InitRequest} ELSE {})

(* A closed archive has no worker and opens no decoder any more, also when      *)
(* loads were under way (destroy).                                              *)
ClosedIsQuiet ==
    [][archive.stopped => ~archive'.worker /\ (archive'.decoder = archive.decoder \/ archive.decoder = "opening")]_archiveVars

(* Whatever happens to the worker, no load fails for it: only a closed archive, *)
(* or one the page cannot decode either, fails a load.                          *)
WorkerUnnoticed ==
    [][\A r \in EntryIds : entryLoads[r] # "failed" /\ entryLoads'[r] = "failed" =>
          archive'.stopped \/ archive'.decoder = "failed" \/ entryLoads[r] = "decoding"]_archiveVars

(* Every load ends, though the worker may never answer, and so does the decoder *)
(* of a closed archive.                                                         *)
LoadsEnd ==
    /\ \A r \in EntryIds : entryLoads[r] \in {"asked", "waiting", "decoding"} ~> entryLoads[r] \in {"done", "failed"}
    /\ archive.stopped ~> archive.decoder \notin {"opening", "open"}

(* Together: a worker may come and go without anybody losing an entry. *)
ArchiveSafe == []TimersMatch /\ ClosedIsQuiet /\ WorkerUnnoticed
=============================================================================
