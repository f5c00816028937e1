------------------------------ MODULE BookFlow ------------------------------
(***************************************************************************)
(* The request handlers, the EPUB processing workers and the legacy hash   *)
(* worker, running concurrently over the store and the upload directory.   *)
(*                                                                         *)
(* A store operation is one atomic action of BookStore.  What a handler    *)
(* does between two of them (reading a body, hashing or unzipping a file)  *)
(* takes time, so a handler that reads a record and later saves it is two  *)
(* actions, and the copy it read is part of the state.  A crash loses the  *)
(* goroutines and the queue and keeps the database and the files.          *)
(***************************************************************************)
EXTENDS BookStore, Sequences, FiniteSets

CONSTANTS
    Requests,     \* concurrent HTTP requests
    Workers,      \* bookProcessingWorkers
    QueueSize,    \* bookProcessingQueueSize
    Workloads     \* what there is and may happen in one behaviour: books of an older
                  \* version (owned, stored without a hash), ids for new ones, the
                  \* requests used and their kinds, formats, a bound on restarts

(* Titles: the uploaded file's name, an edit by the user, the EPUB's own. *)
Titles == {"file", "edited", "epub"}

(* CoverPath and CoverThumbPath: no cover, a cover, a cover with thumbnail. *)
Covers == {"none", "cover", "thumb"}

States == {"pending", "ready", "failed"}

ASSUME InfoAssumption == Infos = [title : Titles, cover : Covers, state : States]
ASSUME FlowAssumption ==
    /\ QueueSize \in Nat \ {0}
    /\ \A l \in Workloads : /\ l.formats \subseteq {"epub", "pdf"} /\ l.crashes \in Nat
                          /\ l.legacy \subseteq Books /\ l.clients \subseteq Requests

VARIABLES
    bookFile,    \* upload directory: id -> content of the book's file or NoHash
    coverFile,   \* ids with a cover file in the upload directory
    req,         \* request -> where its handler is and what it holds
    queue,       \* bookProcessor.jobs
    proc,        \* processing worker -> where it is and what it holds
    hasher,      \* legacyHashBackfill worker
    crashes,     \* restarts so far
    load         \* the workload of this behaviour

flowVars == <<bookFile, coverFile, req, queue, proc, hasher, crashes>>
vars == <<storeVars, flowVars, load>>

NoRequest == [at |-> "idle", user |-> NoUser, id |-> NoBook, copy |-> NoBook,
              hash |-> NoHash, format |-> "none", ids |-> {}, covers |-> {}]

NoJob == [at |-> "idle", job |-> NoBook, copy |-> NoBook]

IdleHasher == [at |-> "idle", for |-> NoUser, snapshot |-> <<>>]

-----------------------------------------------------------------------------

LegacyBook(u) == [owner |-> u, info |-> [title |-> "file", cover |-> "none", state |-> "ready"],
                  category |-> NoCategory, hash |-> NoHash, lastRead |-> NoTime]

Init ==
    /\ load \in Workloads
    /\ \E u \in Users :
         books = [i \in Books |-> IF i \in load.legacy THEN LegacyBook(u) ELSE NoBook]
    /\ progress = [k \in Owners \X Books |-> NoTime]
    /\ bookmarks = {}
    /\ issued = load.legacy
    /\ bookFile \in {f \in [Books -> Hashes \cup {NoHash}] :
                       \A i \in Books : f[i] # NoHash <=> i \in load.legacy}
    /\ coverFile = {}
    /\ req = [r \in Requests |-> NoRequest]
    /\ queue = <<>>
    /\ proc = [w \in Workers |-> NoJob]
    /\ hasher = IdleHasher
    /\ crashes = 0

Idle(r) == req[r].at = "idle" /\ r \in load.clients
At(r, label) == req[r].at = label
Goto(r, label) == req' = [req EXCEPT ![r].at = label]
Answer(r) == req' = [req EXCEPT ![r] = NoRequest]

GetBookForUser(i, u) == IF OwnedBy(i, u) THEN books[i] ELSE NoBook

SameContent(u, h) == {j \in Books : OwnedBy(j, u) /\ books[j].hash = h}

Backlog(u) == {i \in Books : OwnedBy(i, u) /\ books[i].hash = NoHash}

-----------------------------------------------------------------------------
(* Upload: the file first, then the duplicate check, then the record. *)

Unused(i) ==
    /\ i \in load.ids \ issued
    /\ bookFile[i] = NoHash
    /\ \A s \in Requests : req[s].id # i

(* uuid.New: nobody compares ids, so that the least stands for any. *)
FreshId(i) == Unused(i) /\ \A j \in Books : Unused(j) => i <= j

UploadWrite(r, u, i, h, f) ==
    /\ "upload" \in load.ops /\ Idle(r)
    /\ FreshId(i)
    /\ bookFile' = [bookFile EXCEPT ![i] = h]
    /\ req' = [req EXCEPT ![r] = [NoRequest EXCEPT !.at = "find", !.user = u, !.id = i,
                                                   !.hash = h, !.format = f]]
    /\ UNCHANGED <<storeVars, coverFile, queue, proc, hasher, crashes>>

(* findDuplicateBook: look, let the legacy worker catch up, look again.    *)
(* An upload refused as a duplicate removes the file it wrote.             *)
UploadFind(r) ==
    /\ req[r].at \in {"find", "findAgain"}
    /\ IF SameContent(req[r].user, req[r].hash) # {}
       THEN /\ bookFile' = [bookFile EXCEPT ![req[r].id] = NoHash]
            /\ Answer(r)
       ELSE /\ Goto(r, IF At(r, "find") THEN "backlog" ELSE "create")
            /\ UNCHANGED bookFile
    /\ UNCHANGED <<storeVars, coverFile, queue, proc, hasher, crashes>>

\* Mutant: an upload does not wait for the legacy backlog.
UploadSkipCatchUp(r) ==
    /\ At(r, "backlog")
    /\ Goto(r, "findAgain")
    /\ UNCHANGED <<storeVars, bookFile, coverFile, queue, proc, hasher, crashes>>

(* catchUp: the common path finds no backlog and does not wait. *)
UploadCatchUp(r) ==
    /\ At(r, "backlog")
    /\ Goto(r, IF Backlog(req[r].user) = {} THEN "findAgain" ELSE "request")
    /\ UNCHANGED <<storeVars, bookFile, coverFile, queue, proc, hasher, crashes>>

UploadedBook(r) ==
    [owner |-> req[r].user,
     info  |-> [title |-> "file", cover |-> "none",
                state |-> IF req[r].format = "epub" THEN "pending" ELSE "ready"],
     category |-> NoCategory, hash |-> req[r].hash, lastRead |-> NoTime]

UploadCreate(r) ==
    /\ At(r, "create")
    /\ Create(req[r].id, UploadedBook(r))
    /\ IF req[r].format = "epub" THEN Goto(r, "enqueue") ELSE Answer(r)
    /\ UNCHANGED <<bookFile, coverFile, queue, proc, hasher, crashes>>

\* Mutant: the loser of the race removes the file of the book it found.
UploadRefusedWrongFile(r) ==
    /\ At(r, "create")
    /\ SameContent(req[r].user, req[r].hash) # {}
    /\ bookFile' = [i \in Books |-> IF i \in SameContent(req[r].user, req[r].hash)
                                    THEN NoHash ELSE bookFile[i]]
    /\ Answer(r)
    /\ UNCHANGED <<storeVars, coverFile, queue, proc, hasher, crashes>>

(* ErrDuplicateBookContent: another upload of the content committed first. *)
(* The second findDuplicateBook only finds the words of the answer; the    *)
(* backlog it would wait for is the one this upload has waited for.        *)
UploadRefused(r) ==
    /\ At(r, "create")
    /\ SameContent(req[r].user, req[r].hash) # {}
    /\ bookFile' = [bookFile EXCEPT ![req[r].id] = NoHash]
    /\ Answer(r)
    /\ UNCHANGED <<storeVars, coverFile, queue, proc, hasher, crashes>>

(* enqueueBookProcessing blocks while the queue is full. *)
UploadEnqueue(r) ==
    /\ At(r, "enqueue")
    /\ Len(queue) < QueueSize
    /\ queue' = Append(queue, [id |-> req[r].id, user |-> req[r].user])
    /\ Answer(r)
    /\ UNCHANGED <<storeVars, bookFile, coverFile, proc, hasher, crashes>>

-----------------------------------------------------------------------------
(* Handlers that read a record, change their copy and save the copy. *)

ReadBook(r, u, i, op, label) ==
    /\ op \in load.ops /\ Idle(r)
    /\ GetBookForUser(i, u) # NoBook
    /\ req' = [req EXCEPT ![r] = [NoRequest EXCEPT !.at = label, !.user = u, !.id = i,
                                                   !.copy = books[i]]]
    /\ UNCHANGED <<storeVars, bookFile, coverFile, queue, proc, hasher, crashes>>

(* Update: title, category or both; a field not sent keeps the copy's value. *)
Update(r) ==
    /\ At(r, "edit")
    /\ \E title \in {req[r].copy.info.title, "edited"}, raw \in RawCategories :
         Save(req[r].id, [req[r].copy EXCEPT !.info.title = title, !.category = raw])
    /\ Answer(r)
    /\ UNCHANGED <<bookFile, coverFile, queue, proc, hasher, crashes>>

RemoveCategory(r) ==
    /\ At(r, "uncategorize")
    /\ Save(req[r].id, [req[r].copy EXCEPT !.category = NoCategory])
    /\ Answer(r)
    /\ UNCHANGED <<bookFile, coverFile, queue, proc, hasher, crashes>>

(* UploadCover, or GetCover caching an extracted cover or a thumbnail: the *)
(* image is written, then the record; the thumbnail is optional.           *)
SaveCover(r, cover) ==
    /\ At(r, "cover")
    /\ coverFile' = coverFile \cup {req[r].id}
    /\ Save(req[r].id, [req[r].copy EXCEPT !.info.cover = cover])
    /\ Answer(r)
    /\ UNCHANGED <<bookFile, queue, proc, hasher, crashes>>

-----------------------------------------------------------------------------
(* Delete removes the record, then the files named by the record it read.  *)

DeleteBook(r) ==
    /\ At(r, "delete")
    /\ Delete({req[r].id}, req[r].user)
    /\ req' = [req EXCEPT ![r].at = "remove", ![r].ids = {req[r].id},
                          ![r].covers = IF req[r].copy.info.cover = "none" THEN {}
                                        ELSE {req[r].id}]
    /\ UNCHANGED <<bookFile, coverFile, queue, proc, hasher, crashes>>

DeleteNotFound(r) ==
    /\ At(r, "delete")
    /\ ~ OwnedBy(req[r].id, req[r].user)
    /\ Answer(r)
    /\ UNCHANGED <<storeVars, bookFile, coverFile, queue, proc, hasher, crashes>>

(* BatchDelete takes the file names from the records it deletes. *)
BatchDelete(r, u, ids) ==
    /\ "batchDelete" \in load.ops /\ Idle(r)
    /\ Delete(ids, u)
    /\ req' = [req EXCEPT ![r] = [NoRequest EXCEPT !.at = "remove", !.user = u, !.ids = ids,
                                    !.covers = {i \in ids : books[i].info.cover # "none"}]]
    /\ UNCHANGED <<bookFile, coverFile, queue, proc, hasher, crashes>>

RemoveFiles(r) ==
    /\ At(r, "remove")
    /\ bookFile' = [i \in Books |-> IF i \in req[r].ids THEN NoHash ELSE bookFile[i]]
    /\ coverFile' = coverFile \ req[r].covers
    /\ Answer(r)
    /\ UNCHANGED <<storeVars, queue, proc, hasher, crashes>>

-----------------------------------------------------------------------------
(* Handlers that are a single transaction. *)

BatchUpdateCategory(u, ids, raw) ==
    /\ "category" \in load.ops
    /\ Recategorize(ids, u, raw)
    /\ UNCHANGED flowVars

RenameBookCategory(u, from, raw) ==
    /\ "category" \in load.ops
    /\ RenameCategory(u, from, raw)
    /\ UNCHANGED flowVars

SaveProgress(u, i, t, expected) ==
    /\ "progress" \in load.ops
    /\ RecordProgress(i, u, t, expected)
    /\ UNCHANGED flowVars

-----------------------------------------------------------------------------
(* processBookPreview: load, extract, reload, save. *)

\* Mutant: a job whose book is gone is left at the head of the queue.
LoadJobOfBook(w) ==
    /\ proc[w].at = "idle" /\ queue # <<>>
    /\ GetBookForUser(Head(queue).id, Head(queue).user) # NoBook
    /\ queue' = Tail(queue)
    /\ LET job  == Head(queue)
           book == GetBookForUser(job.id, job.user)
       IN  proc' = IF book.info.state = "pending"
                   THEN [proc EXCEPT ![w] = [at |-> "extract", job |-> job, copy |-> book]]
                   ELSE proc
    /\ UNCHANGED <<storeVars, bookFile, coverFile, req, hasher, crashes>>

LoadJob(w) ==
    /\ proc[w].at = "idle" /\ queue # <<>>
    /\ queue' = Tail(queue)
    /\ LET job  == Head(queue)
           book == GetBookForUser(job.id, job.user)
       IN  proc' = IF book # NoBook /\ book.info.state = "pending"
                   THEN [proc EXCEPT ![w] = [at |-> "extract", job |-> job, copy |-> book]]
                   ELSE proc
    /\ UNCHANGED <<storeVars, bookFile, coverFile, req, hasher, crashes>>

(* markBookProcessingFailed saves the copy loaded before the extraction. *)
MarkFailed(w) ==
    /\ proc[w].at = "extract"
    /\ Save(proc[w].job.id, [proc[w].copy EXCEPT !.info.state = "failed"])
    /\ proc' = [proc EXCEPT ![w] = NoJob]
    /\ UNCHANGED <<bookFile, coverFile, req, queue, hasher, crashes>>

(* The extraction needs the file; its result is used only if the book is still pending. *)
Refresh(w) ==
    /\ proc[w].at = "extract"
    /\ bookFile[proc[w].job.id] # NoHash
    /\ LET book == GetBookForUser(proc[w].job.id, proc[w].job.user)
       IN  proc' = IF book # NoBook /\ book.info.state = "pending"
                   THEN [proc EXCEPT ![w].at = "save", ![w].copy = book]
                   ELSE [proc EXCEPT ![w] = NoJob]
    /\ UNCHANGED <<storeVars, bookFile, coverFile, req, queue, hasher, crashes>>

(* A title the user changed and a cover already present win over the EPUB's. *)
Processed(info, cover) ==
    [title |-> IF info.title = "file" THEN "epub" ELSE info.title,
     cover |-> IF info.cover = "none" THEN cover ELSE info.cover,
     state |-> "ready"]

SaveProcessed(w, cover) ==
    /\ proc[w].at = "save"
    /\ LET copy == proc[w].copy
       IN  /\ Save(proc[w].job.id, [copy EXCEPT !.info = Processed(copy.info, cover)])
           /\ coverFile' = IF cover # "none" /\ copy.info.cover = "none"
                           THEN coverFile \cup {proc[w].job.id} ELSE coverFile
    /\ proc' = [proc EXCEPT ![w] = NoJob]
    /\ UNCHANGED <<bookFile, req, queue, hasher, crashes>>

-----------------------------------------------------------------------------
(* legacyHashBackfill.run: one goroutine serves requests and a timer.  The *)
(* instance has fewer books than one batch (legacyHashBatchSize = 16).     *)

Snapshot(ids) == [i \in ids |-> books[i]]

HashFor(r) ==
    /\ hasher.at = "idle" /\ At(r, "request")
    /\ hasher' = [at |-> "hashing", for |-> r, snapshot |-> Snapshot(Backlog(req[r].user))]
    /\ Goto(r, "wait")
    /\ UNCHANGED <<storeVars, bookFile, coverFile, queue, proc, crashes>>

\* Mutant: the timer is not armed again, only uploads start a pass.
HashTimerOff == FALSE /\ UNCHANGED vars

HashTimer ==
    /\ hasher.at = "idle"
    /\ UNION {Backlog(u) : u \in Owners} # {}
    /\ hasher' = [at |-> "hashing", for |-> NoUser,
                  snapshot |-> Snapshot(UNION {Backlog(u) : u \in Owners})]
    /\ UNCHANGED <<storeVars, bookFile, coverFile, req, queue, proc, crashes>>

(* Files that cannot be read are left in the backlog. *)
Hashed(snapshot) ==
    [i \in {j \in DOMAIN snapshot : bookFile[j] # NoHash} |->
       [snapshot[i] EXCEPT !.hash = bookFile[i]]]

HashCommit ==
    /\ hasher.at = "hashing"
    /\ Backfill(Hashed(hasher.snapshot))
    /\ hasher' = IdleHasher
    /\ IF hasher.for \in Requests /\ At(hasher.for, "wait")
       THEN Goto(hasher.for, "findAgain") ELSE UNCHANGED req
    /\ UNCHANGED <<bookFile, coverFile, queue, proc, crashes>>

-----------------------------------------------------------------------------

(* The process dies between two steps and is started again. *)
Crash ==
    /\ crashes < load.crashes
    /\ crashes' = crashes + 1
    /\ req' = [r \in Requests |-> NoRequest]
    /\ queue' = <<>>
    /\ proc' = [w \in Workers |-> NoJob]
    /\ hasher' = IdleHasher
    /\ UNCHANGED <<storeVars, bookFile, coverFile>>

NewRequest ==
    \/ \E r \in Requests, u \in Users, i \in Books, h \in Hashes, f \in load.formats :
         UploadWrite(r, u, i, h, f)
    \/ \E r \in Requests, u \in Users, i \in Books :
         \/ ReadBook(r, u, i, "update", "edit")
         \/ ReadBook(r, u, i, "removeCategory", "uncategorize")
         \/ ReadBook(r, u, i, "cover", "cover")
         \/ ReadBook(r, u, i, "delete", "delete")
    \/ \E r \in Requests, u \in Users, ids \in SUBSET Books : BatchDelete(r, u, ids)
    \/ \E u \in Users, ids \in SUBSET Books, raw \in RawCategories :
         BatchUpdateCategory(u, ids, raw)
    \/ \E u \in Users, from \in Categories, raw \in RawCategories :
         RenameBookCategory(u, from, raw)
    \/ \E u \in Users, i \in Books, t \in Times, expected \in Times \cup {NoTime} :
         SaveProgress(u, i, t, expected)

HandlerStep(r) ==
    \/ UploadFind(r) \/ UploadCatchUp(r) \/ UploadCreate(r) \/ UploadRefused(r)
    \/ UploadEnqueue(r) \/ Update(r) \/ RemoveCategory(r)
    \/ \E cover \in {"cover", "thumb"} : SaveCover(r, cover)
    \/ DeleteBook(r) \/ DeleteNotFound(r) \/ RemoveFiles(r)

WorkerStep(w) ==
    \/ LoadJob(w) \/ MarkFailed(w) \/ Refresh(w)
    \/ \E cover \in Covers : SaveProcessed(w, cover)

HasherStep == HashTimer \/ HashCommit \/ \E r \in Requests : HashFor(r)

Next ==
    /\ UNCHANGED load
    /\ \/ NewRequest
       \/ \E r \in Requests : HandlerStep(r)
       \/ \E w \in Workers : WorkerStep(w)
       \/ HasherStep
       \/ Crash

Spec == Init /\ [][Next]_vars

(* Goroutines are scheduled: a handler that has started, a worker with a   *)
(* job and the hash worker keep running.  The hash worker's select chooses *)
(* at random among the ready channels, so neither its timer nor a waiting  *)
(* upload is passed over for ever.  Clients and crashes owe nothing.       *)
Fairness ==
    /\ \A r \in Requests : WF_vars(HandlerStep(r) /\ UNCHANGED load)
    /\ \A w \in Workers : WF_vars(WorkerStep(w) /\ UNCHANGED load)
    /\ \A r \in Requests : SF_vars(HashFor(r) /\ UNCHANGED load)
    /\ SF_vars(HashTimer /\ UNCHANGED load) /\ WF_vars(HashCommit /\ UNCHANGED load)

FairSpec == Spec /\ Fairness

-----------------------------------------------------------------------------

(* No client saves a copy that it read before a deletion. *)
NoStaleSaves == load.ops \cap {"update", "removeCategory", "cover"} = {} /\ "epub" \notin load.formats

(* A book in the library can be opened: its file exists from before the    *)
(* record is created until after it is deleted, also when the process dies *)
(* between any two steps (Upload, Delete, BatchDelete).  A record that a   *)
(* stale save brings back (see DeletedStaysDeleted) has no file.           *)
RecordHasFile == NoStaleSaves => \A i \in Books : books[i] # NoBook => bookFile[i] # NoHash

(* A file without a record belongs to a request that is still running: an  *)
(* upload that has not committed or a delete that has not finished.  Only  *)
(* a crash can leave one behind.                                           *)
NoLeakedFile ==
    crashes = 0 =>
      \A i \in Books :
        bookFile[i] # NoHash /\ books[i] = NoBook =>
          \E r \in Requests :
            \/ req[r].id = i /\ req[r].at \in {"find", "backlog", "request", "wait", "findAgain", "create"}
            \/ req[r].at = "remove" /\ i \in req[r].ids

(* Records and files stay together, in both directions. *)
FilesMatchRecords == RecordHasFile /\ NoLeakedFile

(* A user never gets the same content twice by uploading it, neither from  *)
(* two uploads racing each other nor when the first copy is a book of an   *)
(* older version whose hash is only computed now (findDuplicateBook,       *)
(* CreateBook), unless a stale save brings the first copy back.            *)
UploadsUnique ==
    NoStaleSaves =>
      \A i, j \in Books :
        /\ i # j /\ i \notin load.legacy
        /\ books[i] # NoBook /\ books[j] # NoBook
        /\ books[i].owner = books[j].owner
        => bookFile[i] = NoHash \/ bookFile[i] # bookFile[j]

(* Every request is answered: an upload waiting for the legacy worker or   *)
(* for room in the processing queue gets on.                               *)
RequestsAnswered == \A r \in Requests : req[r].at # "idle" ~> req[r].at = "idle"

Pending(i) == books[i] # NoBook /\ books[i].info.state = "pending"

(* An uploaded EPUB does not stay in the pending state. *)
EventuallyProcessed == \A i \in Books : Pending(i) ~> ~ Pending(i)

Unhashed(i) == books[i] # NoBook /\ books[i].hash = NoHash

(* A stored book without a hash gets one, also after a handler saved a     *)
(* copy it had read before the hash was computed, and also when restarts   *)
(* interrupt the worker.                                                   *)
BacklogDrains ==
    \A i \in Books : Unhashed(i) /\ bookFile[i] # NoHash
                     ~> ~ Unhashed(i) \/ bookFile[i] = NoHash

(* What is left to the background gets done: previews and legacy hashes. *)
BackgroundWorkEnds == EventuallyProcessed /\ BacklogDrains

(* Committing hashes computed from an older snapshot loses no metadata     *)
(* edit, ownership or deletion: it changes hashes only, and only of        *)
(* records that had none.                                                  *)
BackfillKeepsEdits ==
    [][hasher.at = "hashing" /\ hasher'.at = "idle" /\ crashes' = crashes =>
         \A i \in Books :
           \/ books'[i] = books[i]
           \/ /\ Unhashed(i)
              /\ books'[i] = [books[i] EXCEPT !.hash = bookFile[i]]]_vars

(* A deleted book does not come back. *)
DeletedStaysDeleted ==
    [][\A i \in issued : books[i] = NoBook => books'[i] = NoBook]_vars
=============================================================================
