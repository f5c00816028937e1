-------------------------- MODULE BookFlowProofs --------------------------
(***************************************************************************)
(* Handlers, workers and crashes over the store, for every number of       *)
(* requests, workers, books and restarts: they use the store only through  *)
(* its operations, records and files stay together, no content is uploaded *)
(* twice, and the legacy hash worker loses no edit.                        *)
(***************************************************************************)
EXTENDS BookFlow, BookStoreProofs

(* An upload that has written its file and not stored its record yet. *)
Uploading == {"find", "backlog", "request", "wait", "findAgain", "create"}

(* A handler that holds a copy of a record. *)
Holding == {"edit", "uncategorize", "cover", "delete"}

Request == [at     : Uploading \cup Holding \cup {"idle", "enqueue", "remove"},
            user   : Owners, id : Books \cup {NoBook}, copy : Book \cup {NoBook},
            hash   : Hashes \cup {NoHash}, format : {"none", "epub", "pdf"},
            ids    : SUBSET Books, covers : SUBSET Books]

Job == [id : Books, user : Users]

WorkerState == [at : {"idle", "extract", "save"}, job : Job \cup {NoBook}, copy : Book \cup {NoBook}]

FlowTypeOK ==
    /\ load \in Workloads
    /\ bookFile \in [Books -> Hashes \cup {NoHash}]
    /\ coverFile \subseteq Books
    /\ req \in [Requests -> Request]
    /\ queue \in Seq(Job)
    /\ proc \in [Workers -> WorkerState]
    /\ crashes \in Nat
    /\ hasher.at \in {"idle", "hashing"}
    /\ hasher.at = "hashing" =>
         /\ DOMAIN hasher.snapshot \subseteq Books
         /\ \A i \in DOMAIN hasher.snapshot : hasher.snapshot[i] \in Book

(* Until its record is stored, an upload is the only one with its id, and  *)
(* its file has the content it looks for.                                  *)
UploadsHold ==
    /\ \A r \in Requests :
         req[r].at \in Uploading =>
           /\ req[r].user \in Users /\ req[r].id \in Books \ issued
           /\ req[r].hash \in Hashes /\ bookFile[req[r].id] = req[r].hash
           /\ req[r].format \in load.formats
    /\ \A r, s \in Requests :
         r # s /\ req[r].at \in Uploading /\ req[s].at \in Uploading => req[r].id # req[s].id

(* Whatever a handler or a worker will save or remove was stored before,   *)
(* under the same owner.                                                   *)
CopiesOwned ==
    /\ \A r \in Requests :
         /\ req[r].at \in Holding =>
              /\ req[r].user \in Users /\ req[r].id \in issued
              /\ req[r].copy \in Book /\ req[r].copy.owner = req[r].user
         /\ req[r].at = "enqueue" => req[r].user \in Users /\ req[r].id \in issued
         /\ req[r].at = "remove" => req[r].ids \subseteq issued
    /\ \A w \in Workers :
         proc[w].at # "idle" =>
           /\ proc[w].job \in Job /\ proc[w].job.id \in issued
           /\ proc[w].copy \in Book /\ proc[w].copy.owner = proc[w].job.user

(* Without stale saves nothing is ever queued, and no copy is saved. *)
NothingSaved ==
    /\ \A r \in Requests :
         req[r].at \notin {"edit", "uncategorize", "cover", "enqueue"}
    /\ queue = <<>>
    /\ \A w \in Workers : proc[w].at = "idle"

(* A hash in a record is the hash of its file. *)
HashesTrue ==
    \A i \in Books : books[i] # NoBook =>
      bookFile[i] # NoHash /\ books[i].hash \in {NoHash, bookFile[i]}

(* Files are removed only after the record, which does not come back. *)
RemovalsFollow ==
    \A r \in Requests : req[r].at = "remove" => \A i \in req[r].ids : books[i] = NoBook

(* An upload that has waited for the legacy worker faces no book whose     *)
(* hash is unknown; the one the worker serves faces none but those in the  *)
(* worker's snapshot.                                                      *)
CaughtUp ==
    /\ \A r \in Requests : req[r].at \in {"findAgain", "create"} =>
         \A j \in Books : OwnedBy(j, req[r].user) => books[j].hash # NoHash
    /\ hasher.at = "hashing" =>
         /\ \A i \in DOMAIN hasher.snapshot :
              i \in issued /\ (books[i] # NoBook => books[i].owner = hasher.snapshot[i].owner)
         /\ \A r \in Requests : r = hasher.for /\ req[r].at = "wait" =>
              \A j \in Books : OwnedBy(j, req[r].user) /\ books[j].hash = NoHash =>
                                 j \in DOMAIN hasher.snapshot

(* Two records of an owner are of different content, unless both are older. *)
ContentsDiffer ==
    \A i, j \in Books :
      /\ i # j /\ i \notin load.legacy
      /\ books[i] # NoBook /\ books[j] # NoBook /\ books[i].owner = books[j].owner
      => bookFile[i] # bookFile[j]

CleanParts == NothingSaved /\ HashesTrue /\ RemovalsFollow /\ CaughtUp /\ ContentsDiffer

CleanInv == NoStaleSaves => CleanParts

(* The invariant: what every step of every actor may rely on. *)
FlowInv == StoreInv /\ FlowTypeOK /\ UploadsHold /\ CopiesOwned


-----------------------------------------------------------------------------
(* Requests *)

(* A handler changes its own request and nobody else's. *)
Becomes(r, q) ==
    /\ req' \in [Requests -> Request]
    /\ req'[r] = q
    /\ \A s \in Requests \ {r} : req'[s] = req[s]

LEMMA RequestBecomes ==
    ASSUME req \in [Requests -> Request], NEW r \in Requests, NEW q \in Request,
           req' = [req EXCEPT ![r] = q]
    PROVE  Becomes(r, q)
  BY DEF Becomes

LEMMA NoRequestType == NoRequest \in Request /\ NoRequest.at = "idle" /\ NoRequest.id = NoBook
  BY DEF NoRequest, Request, Owners

(* Going on changes where the handler is and nothing it holds. *)
LEMMA RequestMoves ==
    ASSUME NEW q \in Request, NEW l \in Uploading \cup Holding \cup {"idle", "enqueue", "remove"}
    PROVE  LET n == [q EXCEPT !.at = l]
           IN  /\ n \in Request /\ n.at = l /\ n.user = q.user /\ n.id = q.id /\ n.copy = q.copy
               /\ n.hash = q.hash /\ n.format = q.format /\ n.ids = q.ids
  BY DEF Request, Uploading, Holding

LEMMA GotoBecomes ==
    ASSUME req \in [Requests -> Request], NEW r \in Requests,
           NEW l \in Uploading \cup Holding \cup {"idle", "enqueue", "remove"}, Goto(r, l)
    PROVE  Becomes(r, [req[r] EXCEPT !.at = l])
  <1>1. [req[r] EXCEPT !.at = l] \in Request
    BY RequestMoves
  <1>2. req' = [req EXCEPT ![r] = [req[r] EXCEPT !.at = l]]
    BY DEF Goto
  <1> QED BY <1>1, <1>2, RequestBecomes

LEMMA AnswerBecomes ==
    ASSUME req \in [Requests -> Request], NEW r \in Requests, Answer(r)
    PROVE  Becomes(r, NoRequest)
  BY NoRequestType, RequestBecomes DEF Answer

(* A copy with another title, category, cover or state is what a handler   *)
(* may pass to the store, for the owner of the copy.                       *)
LEMMA EditedCopies ==
    ASSUME NEW b \in Book
    PROVE  /\ b.info \in Infos
           /\ \A raw \in RawCategories :
                /\ [b EXCEPT !.category = raw] \in RawBook
                /\ [b EXCEPT !.category = raw].owner = b.owner
           /\ \A info \in Infos, raw \in RawCategories :
                /\ [b EXCEPT !.info = info, !.category = raw] \in RawBook
                /\ [b EXCEPT !.info = info, !.category = raw].owner = b.owner
           /\ \A info \in Infos :
                /\ [b EXCEPT !.info = info] \in RawBook
                /\ [b EXCEPT !.info = info].owner = b.owner
  <1>1. b.category \in RawCategories
    BY CategoryAssumption DEF Book
  <1> QED BY <1>1 DEF Book, RawBook

LEMMA InfoFields ==
    ASSUME NEW info \in Infos
    PROVE  /\ \A t \in Titles : [info EXCEPT !.title = t] \in Infos
           /\ \A c \in Covers : [info EXCEPT !.cover = c] \in Infos
           /\ \A s \in States : [info EXCEPT !.state = s] \in Infos
           /\ info.title \in Titles /\ info.cover \in Covers /\ info.state \in States
  BY InfoAssumption

-----------------------------------------------------------------------------
(* The store is used only through its operations *)

LEMMA UploadedBookType ==
    ASSUME FlowInv, NEW r \in Requests, req[r].at \in Uploading
    PROVE  UploadedBook(r) \in RawBook /\ UploadedBook(r).hash = req[r].hash
  <1>1. req[r].user \in Users /\ req[r].hash \in Hashes
    BY DEF FlowInv, UploadsHold
  <1>2. [title |-> "file", cover |-> "none",
         state |-> IF req[r].format = "epub" THEN "pending" ELSE "ready"] \in Infos
    BY InfoAssumption DEF Titles, Covers, States
  <1>3. NoCategory \in RawCategories
    BY CategoryAssumption
  <1> QED BY <1>1, <1>2, <1>3 DEF UploadedBook, RawBook, Owners

(* The hash worker passes more than the store reads. *)
LEMMA BackfillUsed ==
    ASSUME FlowInv, HashCommit
    PROVE  \E ids \in SUBSET Books : \E hashes \in [ids -> Snapshots] : Backfill(hashes)
  <1> DEFINE given == Hashed(hasher.snapshot)
             ids == {j \in DOMAIN hasher.snapshot : bookFile[j] # NoHash}
             used == [i \in ids |-> [owner |-> hasher.snapshot[i].owner, hash |-> bookFile[i]]]
  <1>1. hasher.at = "hashing" /\ Backfill(given)
    BY DEF HashCommit
  <1>2. ids \in SUBSET Books /\ \A i \in ids : hasher.snapshot[i] \in Book /\ bookFile[i] \in Hashes
    BY <1>1 DEF FlowInv, FlowTypeOK
  <1>3. given = [i \in ids |-> [hasher.snapshot[i] EXCEPT !.hash = bookFile[i]]]
    BY DEF Hashed
  <1>4. \A i \in ids : given[i].owner = hasher.snapshot[i].owner /\ given[i].hash = bookFile[i]
    BY <1>2, <1>3 DEF Book
  <1>5. used \in [ids -> Snapshots]
    BY <1>2 DEF Snapshots, Book
  <1>6. Refreshable(used) = Refreshable(given)
    BY <1>3, <1>4 DEF Refreshable
  <1>7. \A i \in Refreshable(given) : given[i].hash = used[i].hash
    BY <1>3, <1>4 DEF Refreshable
  <1>8. Backfill(used)
    BY <1>1, <1>6, <1>7 DEF Backfill
  <1> QED BY <1>2, <1>5, <1>8

(* Every save is of a copy that belongs to the owner of the book. *)
LEMMA SavesUsed ==
    ASSUME FlowInv,
           \/ \E r \in Requests : \/ Update(r) \/ RemoveCategory(r)
                                  \/ \E cover \in {"cover", "thumb"} : SaveCover(r, cover)
           \/ \E w \in Workers : \/ MarkFailed(w) \/ \E cover \in Covers : SaveProcessed(w, cover)
    PROVE  \E i \in Books, b \in RawBook : Save(i, b)
  <1>1. ASSUME NEW r \in Requests, Update(r) PROVE \E i \in Books, b \in RawBook : Save(i, b)
    <2>1. req[r].copy \in Book /\ req[r].id \in Books
      BY <1>1 DEF Update, At, FlowInv, CopiesOwned, Holding, StoreInv, StoreTypeOK
    <2>2. PICK title \in {req[r].copy.info.title, "edited"}, raw \in RawCategories :
            Save(req[r].id, [req[r].copy EXCEPT !.info.title = title, !.category = raw])
      BY <1>1 DEF Update
    <2>3. [req[r].copy.info EXCEPT !.title = title] \in Infos
      BY <2>1, InfoFields, EditedCopies DEF Titles
    <2>4. [req[r].copy EXCEPT !.info.title = title, !.category = raw]
            = [req[r].copy EXCEPT !.info = [req[r].copy.info EXCEPT !.title = title], !.category = raw]
      BY <2>1 DEF Book
    <2>5. [req[r].copy EXCEPT !.info = [req[r].copy.info EXCEPT !.title = title], !.category = raw] \in RawBook
      BY <2>1, <2>3, EditedCopies
    <2> QED BY <2>1, <2>2, <2>4, <2>5
  <1>2. ASSUME NEW r \in Requests, RemoveCategory(r) PROVE \E i \in Books, b \in RawBook : Save(i, b)
    <2>1. req[r].copy \in Book /\ req[r].id \in Books
      BY <1>2 DEF RemoveCategory, At, FlowInv, CopiesOwned, Holding, StoreInv, StoreTypeOK
    <2>2. [req[r].copy EXCEPT !.category = NoCategory] \in RawBook
      BY <2>1, EditedCopies, CategoryAssumption
    <2> QED BY <1>2, <2>1, <2>2 DEF RemoveCategory
  <1>3. ASSUME NEW r \in Requests, NEW cover \in {"cover", "thumb"}, SaveCover(r, cover)
        PROVE \E i \in Books, b \in RawBook : Save(i, b)
    <2>1. req[r].copy \in Book /\ req[r].id \in Books
      BY <1>3 DEF SaveCover, At, FlowInv, CopiesOwned, Holding, StoreInv, StoreTypeOK
    <2>2. [req[r].copy.info EXCEPT !.cover = cover] \in Infos
      BY <2>1, InfoFields, EditedCopies DEF Covers
    <2>3. [req[r].copy EXCEPT !.info.cover = cover]
            = [req[r].copy EXCEPT !.info = [req[r].copy.info EXCEPT !.cover = cover]]
      BY <2>1 DEF Book
    <2>4. [req[r].copy EXCEPT !.info = [req[r].copy.info EXCEPT !.cover = cover]] \in RawBook
      BY <2>1, <2>2, EditedCopies
    <2> QED BY <1>3, <2>1, <2>3, <2>4 DEF SaveCover
  <1>4. ASSUME NEW w \in Workers, MarkFailed(w) PROVE \E i \in Books, b \in RawBook : Save(i, b)
    <2>1. proc[w].copy \in Book /\ proc[w].job.id \in Books
      BY <1>4 DEF MarkFailed, FlowInv, CopiesOwned, StoreInv, StoreTypeOK
    <2>2. [proc[w].copy.info EXCEPT !.state = "failed"] \in Infos
      BY <2>1, InfoFields, EditedCopies DEF States
    <2>3. [proc[w].copy EXCEPT !.info.state = "failed"]
            = [proc[w].copy EXCEPT !.info = [proc[w].copy.info EXCEPT !.state = "failed"]]
      BY <2>1 DEF Book
    <2>4. [proc[w].copy EXCEPT !.info = [proc[w].copy.info EXCEPT !.state = "failed"]] \in RawBook
      BY <2>1, <2>2, EditedCopies
    <2> QED BY <1>4, <2>1, <2>3, <2>4 DEF MarkFailed
  <1>5. ASSUME NEW w \in Workers, NEW cover \in Covers, SaveProcessed(w, cover)
        PROVE \E i \in Books, b \in RawBook : Save(i, b)
    <2>1. proc[w].copy \in Book /\ proc[w].job.id \in Books
      BY <1>5 DEF SaveProcessed, FlowInv, CopiesOwned, StoreInv, StoreTypeOK
    <2> DEFINE info == proc[w].copy.info
    <2>2. Processed(info, cover) \in Infos
      <3>1. info.title \in Titles /\ info.cover \in Covers
        BY <2>1, InfoFields, EditedCopies
      <3>2. /\ (IF info.title = "file" THEN "epub" ELSE info.title) \in Titles
            /\ (IF info.cover = "none" THEN cover ELSE info.cover) \in Covers
            /\ "ready" \in States
        BY <3>1 DEF Titles, Covers, States
      <3> HIDE DEF info
      <3> QED BY <3>2, InfoAssumption DEF Processed
    <2>3. [proc[w].copy EXCEPT !.info = Processed(proc[w].copy.info, cover)] \in RawBook
      BY <2>1, <2>2, EditedCopies
    <2> QED BY <1>5, <2>1, <2>3 DEF SaveProcessed
  <1> QED BY <1>1, <1>2, <1>3, <1>4, <1>5

(* Each step of a handler, a worker or a crash is one operation of the     *)
(* store or none.                                                          *)
LEMMA FlowUsesStore == FlowInv /\ [Next]_vars => [StoreNext]_storeVars
  <1> SUFFICES ASSUME FlowInv, Next PROVE StoreNext \/ UNCHANGED storeVars
    BY DEF vars
  <1>1. CASE NewRequest
    <2>1. ASSUME NEW r \in Requests, NEW u \in Users, NEW ids \in SUBSET Books, BatchDelete(r, u, ids)
          PROVE StoreNext
      BY <2>1 DEF BatchDelete, StoreNext
    <2>2. ASSUME NEW u \in Users, NEW ids \in SUBSET Books, NEW raw \in RawCategories,
                 BatchUpdateCategory(u, ids, raw)
          PROVE StoreNext
      BY <2>2 DEF BatchUpdateCategory, StoreNext
    <2>3. ASSUME NEW u \in Users, NEW from \in Categories, NEW raw \in RawCategories,
                 RenameBookCategory(u, from, raw)
          PROVE StoreNext
      BY <2>3 DEF RenameBookCategory, StoreNext
    <2>4. ASSUME NEW u \in Users, NEW i \in Books, NEW t \in Times, NEW expected \in Times \cup {NoTime},
                 SaveProgress(u, i, t, expected)
          PROVE StoreNext
      BY <2>4 DEF SaveProgress, StoreNext
    <2> QED BY <1>1, <2>1, <2>2, <2>3, <2>4 DEF NewRequest, UploadWrite, ReadBook
  <1>2. ASSUME NEW r \in Requests, HandlerStep(r) PROVE StoreNext \/ UNCHANGED storeVars
    <2>1. CASE UploadCreate(r)
      <3>1. UploadedBook(r) \in RawBook /\ req[r].id \in Books
        BY <2>1, UploadedBookType DEF UploadCreate, At, Uploading, FlowInv, UploadsHold
      <3> QED BY <2>1, <3>1 DEF UploadCreate, StoreNext
    <2>2. CASE DeleteBook(r)
      <3>1. req[r].user \in Users /\ {req[r].id} \in SUBSET Books
        BY <2>2 DEF DeleteBook, At, FlowInv, CopiesOwned, Holding, StoreInv, StoreTypeOK
      <3> QED BY <2>2, <3>1 DEF DeleteBook, StoreNext
    <2>3. CASE Update(r) \/ RemoveCategory(r) \/ \E cover \in {"cover", "thumb"} : SaveCover(r, cover)
      BY <2>3, SavesUsed DEF StoreNext
    <2> QED BY <1>2, <2>1, <2>2, <2>3
            DEF HandlerStep, UploadFind, UploadCatchUp, UploadRefused, UploadEnqueue,
                DeleteNotFound, RemoveFiles
  <1>3. ASSUME NEW w \in Workers, WorkerStep(w) PROVE StoreNext \/ UNCHANGED storeVars
    <2>1. CASE MarkFailed(w) \/ \E cover \in Covers : SaveProcessed(w, cover)
      BY <2>1, SavesUsed DEF StoreNext
    <2> QED BY <1>3, <2>1 DEF WorkerStep, LoadJob, Refresh
  <1>4. CASE HasherStep
    <2>1. CASE HashCommit
      BY <2>1, BackfillUsed DEF StoreNext
    <2> QED BY <1>4, <2>1 DEF HasherStep, HashTimer, HashFor
  <1>5. CASE Crash
    BY <1>5 DEF Crash
  <1> QED BY <1>1, <1>2, <1>3, <1>4, <1>5 DEF Next

LEMMA StoreKept == FlowInv /\ [Next]_vars => StoreInv'
  BY FlowUsesStore, StoreStepInv DEF FlowInv

LEMMA FlowInitStore == Init => StoreInit
  <1> SUFFICES ASSUME Init PROVE StoreInit
    OBVIOUS
  <1>1. PICK u \in Users : books = [i \in Books |-> IF i \in load.legacy THEN LegacyBook(u) ELSE NoBook]
    BY DEF Init
  <1>2. LegacyBook(u) \in Book
    BY InfoAssumption DEF LegacyBook, Book, Owners, Titles, Covers, States
  <1>3. load.legacy \subseteq Books
    BY FlowAssumption DEF Init
  <1>4. books \in [Books -> Book \cup {NoBook}]
    BY <1>1, <1>2
  <1>5. issued = {i \in Books : books[i] # NoBook}
    BY <1>1, <1>2, <1>3, RecordAssumption DEF Init
  <1> QED BY <1>4, <1>5 DEF Init, StoreInit

-----------------------------------------------------------------------------
(* What the actors rely on is kept *)

LEMMA UploadsKept ==
    ASSUME FlowInv, NEW r \in Requests, NEW q, Becomes(r, q), UNCHANGED load,
           q.at \in Uploading =>
             /\ q.user \in Users /\ q.id \in Books \ issued'
             /\ q.hash \in Hashes /\ bookFile'[q.id] = q.hash /\ q.format \in load.formats
             /\ \A s \in Requests \ {r} : req[s].at \in Uploading => req[s].id # q.id,
           \A s \in Requests \ {r} : req[s].at \in Uploading =>
             req[s].id \notin issued' /\ bookFile'[req[s].id] = bookFile[req[s].id]
    PROVE  UploadsHold'
  BY DEF FlowInv, UploadsHold, Becomes

LEMMA CopiesKept ==
    ASSUME FlowInv, NEW r \in Requests, NEW q, Becomes(r, q), UNCHANGED proc, issued \subseteq issued',
           q.at \in Holding => /\ q.user \in Users /\ q.id \in issued'
                               /\ q.copy \in Book /\ q.copy.owner = q.user,
           q.at = "enqueue" => q.user \in Users /\ q.id \in issued',
           q.at = "remove" => q.ids \subseteq issued'
    PROVE  CopiesOwned'
  BY DEF FlowInv, CopiesOwned, Becomes

LEMMA OthersKept ==
    ASSUME FlowInv, UNCHANGED <<req, load, bookFile, issued>>
    PROVE  /\ UploadsHold'
           /\ UNCHANGED proc => CopiesOwned'
  BY DEF FlowInv, UploadsHold, CopiesOwned

LEMMA LabelsApart == /\ "idle" \notin Uploading \cup Holding
                     /\ "enqueue" \notin Uploading \cup Holding
                     /\ "remove" \notin Uploading \cup Holding
                     /\ Uploading \cap Holding = {}
                     /\ {"find", "backlog", "request", "wait", "findAgain", "create"} = Uploading
                     /\ {"edit", "uncategorize", "cover", "delete"} = Holding
  BY DEF Uploading, Holding

(* An answered request holds nothing. *)
LEMMA AnswerKept ==
    ASSUME FlowInv, NEW r \in Requests, Answer(r), UNCHANGED <<load, proc, issued>>,
           \A s \in Requests \ {r} :
             req[s].at \in Uploading => bookFile'[req[s].id] = bookFile[req[s].id]
    PROVE  UploadsHold' /\ CopiesOwned' /\ Becomes(r, NoRequest)
  <1>1. Becomes(r, NoRequest)
    BY AnswerBecomes DEF FlowInv, FlowTypeOK
  <1>2. \A s \in Requests : req[s].at \in Uploading => req[s].id \notin issued'
    BY DEF FlowInv, UploadsHold
  <1>3. UploadsHold'
    BY <1>1, <1>2, UploadsKept, NoRequestType, LabelsApart
  <1>4. CopiesOwned'
    BY <1>1, CopiesKept, NoRequestType, LabelsApart
  <1> QED BY <1>1, <1>3, <1>4

(* An upload that goes on holds what it held. *)
LEMMA GotoKept ==
    ASSUME FlowInv, NEW r \in Requests, NEW l \in Uploading, req[r].at \in Uploading, Goto(r, l),
           UNCHANGED <<load, proc, issued, bookFile>>
    PROVE  UploadsHold' /\ CopiesOwned' /\ Becomes(r, [req[r] EXCEPT !.at = l])
  <1> DEFINE q == [req[r] EXCEPT !.at = l]
  <1>1. Becomes(r, q)
    BY GotoBecomes DEF FlowInv, FlowTypeOK
  <1>2. /\ q.at = l /\ q.user = req[r].user /\ q.id = req[r].id
        /\ q.hash = req[r].hash /\ q.format = req[r].format
    BY RequestMoves DEF FlowInv, FlowTypeOK
  <1> HIDE DEF q
  <1>3. \A s \in Requests : req[s].at \in Uploading => req[s].id \notin issued'
    BY DEF FlowInv, UploadsHold
  <1>4. /\ q.user \in Users /\ q.id \in Books \ issued'
        /\ q.hash \in Hashes /\ bookFile'[q.id] = q.hash /\ q.format \in load.formats
        /\ \A s \in Requests \ {r} : req[s].at \in Uploading => req[s].id # q.id
    BY <1>2 DEF FlowInv, UploadsHold
  <1>5. UploadsHold'
    BY <1>1, <1>3, <1>4, UploadsKept
  <1>6. CopiesOwned'
    BY <1>1, <1>2, CopiesKept, LabelsApart
  <1> QED BY <1>1, <1>5, <1>6 DEF q

RestInv == FlowTypeOK /\ UploadsHold /\ CopiesOwned

LEMMA NewRequestKept ==
    ASSUME FlowInv, NewRequest, UNCHANGED load
    PROVE  RestInv'
  <1> USE DEF RestInv
  <1>t. FlowTypeOK BY DEF FlowInv
  <1>1. ASSUME NEW r \in Requests, NEW u \in Users, NEW i \in Books, NEW h \in Hashes,
               NEW f \in load.formats, UploadWrite(r, u, i, h, f)
        PROVE  RestInv'
    <2> DEFINE q == [NoRequest EXCEPT !.at = "find", !.user = u, !.id = i, !.hash = h, !.format = f]
    <2>0. f \in {"epub", "pdf"}
      BY FlowAssumption DEF FlowInv, FlowTypeOK
    <2>1. /\ q \in Request /\ q.at = "find" /\ q.user = u /\ q.id = i /\ q.hash = h /\ q.format = f
      BY <2>0 DEF NoRequest, Request, Uploading, Owners
    <2>2. req' = [req EXCEPT ![r] = q]
      BY <1>1 DEF UploadWrite
    <2>u. i \in Books \ issued /\ \A s \in Requests : req[s].id # i
      BY <1>1 DEF UploadWrite, FreshId, Unused
    <2>w. /\ bookFile' = [bookFile EXCEPT ![i] = h]
          /\ UNCHANGED <<issued, coverFile, queue, proc, hasher, crashes>>
      BY <1>1 DEF UploadWrite, storeVars
    <2> HIDE DEF q
    <2>3. Becomes(r, q)
      BY <1>t, <2>1, <2>2, RequestBecomes DEF FlowTypeOK
    <2>4. \A s \in Requests : req[s].at \in Uploading =>
            req[s].id \notin issued' /\ bookFile'[req[s].id] = bookFile[req[s].id]
      BY <2>u, <2>w DEF FlowInv, UploadsHold, FlowTypeOK
    <2>5. bookFile'[q.id] = q.hash /\ q.id \in Books \ issued'
      BY <1>t, <2>1, <2>u, <2>w DEF FlowTypeOK
    <2>6. UploadsHold'
      BY <2>1, <2>3, <2>4, <2>5, <2>u, UploadsKept
    <2>7. CopiesOwned'
      BY <2>1, <2>3, <2>w, CopiesKept, LabelsApart
    <2>8. FlowTypeOK'
      BY <1>t, <2>3, <2>w DEF FlowTypeOK, Becomes
    <2> QED BY <2>6, <2>7, <2>8
  <1>2. ASSUME NEW r \in Requests, NEW u \in Users, NEW i \in Books, NEW op, NEW label \in Holding,
               ReadBook(r, u, i, op, label)
        PROVE  RestInv'
    <2> DEFINE q == [NoRequest EXCEPT !.at = label, !.user = u, !.id = i, !.copy = books[i]]
    <2>0. OwnedBy(i, u) /\ books[i] \in Book /\ i \in issued
      BY <1>2 DEF ReadBook, GetBookForUser, OwnedBy, FlowInv, StoreInv, StoreTypeOK, IssuedCovers
    <2>1. q \in Request /\ q.at = label /\ q.user = u /\ q.id = i /\ q.copy = books[i]
      BY <2>0 DEF NoRequest, Request, Owners
    <2>2. req' = [req EXCEPT ![r] = q]
      BY <1>2 DEF ReadBook
    <2>w. UNCHANGED <<issued, bookFile, coverFile, queue, proc, hasher, crashes>>
      BY <1>2 DEF ReadBook, storeVars
    <2> HIDE DEF q
    <2>3. Becomes(r, q)
      BY <1>t, <2>1, <2>2, RequestBecomes DEF FlowTypeOK
    <2>4. \A s \in Requests : req[s].at \in Uploading => req[s].id \notin issued'
      BY <2>w DEF FlowInv, UploadsHold
    <2>5. UploadsHold'
      BY <2>1, <2>3, <2>4, <2>w, UploadsKept, LabelsApart
    <2>6. CopiesOwned'
      BY <2>0, <2>1, <2>3, <2>w, CopiesKept, LabelsApart DEF OwnedBy
    <2>7. FlowTypeOK'
      BY <1>t, <2>3, <2>w DEF FlowTypeOK, Becomes
    <2> QED BY <2>5, <2>6, <2>7
  <1>3. ASSUME NEW r \in Requests, NEW u \in Users, NEW ids \in SUBSET Books, BatchDelete(r, u, ids)
        PROVE  RestInv'
    <2> DEFINE q == [NoRequest EXCEPT !.at = "remove", !.user = u, !.ids = ids,
                                      !.covers = {i \in ids : books[i].info.cover # "none"}]
    <2>0. ids \subseteq issued
      BY <1>3 DEF BatchDelete, Delete, OwnedBy, FlowInv, StoreInv, IssuedCovers
    <2>1. q \in Request /\ q.at = "remove" /\ q.ids = ids
      BY DEF NoRequest, Request, Owners
    <2>2. req' = [req EXCEPT ![r] = q]
      BY <1>3 DEF BatchDelete
    <2>w. UNCHANGED <<issued, bookFile, coverFile, queue, proc, hasher, crashes>>
      BY <1>3 DEF BatchDelete, Delete
    <2> HIDE DEF q
    <2>3. Becomes(r, q)
      BY <1>t, <2>1, <2>2, RequestBecomes DEF FlowTypeOK
    <2>4. \A s \in Requests : req[s].at \in Uploading => req[s].id \notin issued'
      BY <2>w DEF FlowInv, UploadsHold
    <2>5. UploadsHold'
      BY <2>1, <2>3, <2>4, <2>w, UploadsKept, LabelsApart
    <2>6. CopiesOwned'
      BY <2>0, <2>1, <2>3, <2>w, CopiesKept, LabelsApart
    <2>7. FlowTypeOK'
      BY <1>t, <2>3, <2>w DEF FlowTypeOK, Becomes
    <2> QED BY <2>5, <2>6, <2>7
  <1>4. ASSUME UNCHANGED flowVars, UNCHANGED issued
        PROVE  RestInv'
    <2>1. UploadsHold' /\ CopiesOwned'
      BY <1>4, OthersKept DEF flowVars
    <2>2. FlowTypeOK'
      BY <1>t, <1>4 DEF FlowTypeOK, flowVars
    <2> QED BY <2>1, <2>2
  <1>5. ASSUME \/ \E u \in Users, ids \in SUBSET Books, raw \in RawCategories :
                    BatchUpdateCategory(u, ids, raw)
               \/ \E u \in Users, from \in Categories, raw \in RawCategories :
                    RenameBookCategory(u, from, raw)
               \/ \E u \in Users, i \in Books, t \in Times, expected \in Times \cup {NoTime} :
                    SaveProgress(u, i, t, expected)
        PROVE  RestInv'
    BY <1>4, <1>5 DEF BatchUpdateCategory, RenameBookCategory, SaveProgress,
                      Recategorize, RenameCategory, RecordProgress
  <1> QED BY <1>1, <1>2, <1>3, <1>5, LabelsApart DEF NewRequest

LEMMA HandlerKept ==
    ASSUME FlowInv, NEW r \in Requests, HandlerStep(r), UNCHANGED load
    PROVE  RestInv'
  <1> USE DEF RestInv
  <1>t. FlowTypeOK BY DEF FlowInv
  <1>q. req[r] \in Request BY <1>t DEF FlowTypeOK
  <1>d. \A s \in Requests \ {r} : req[r].at \in Uploading /\ req[s].at \in Uploading => req[s].id # req[r].id
    BY DEF FlowInv, UploadsHold
  <1>n. \A s \in Requests : req[s].at \in Uploading => req[s].id \notin issued
    BY DEF FlowInv, UploadsHold
  <1>1. ASSUME req[r].at \in Uploading, Answer(r), bookFile' = [bookFile EXCEPT ![req[r].id] = NoHash],
               UNCHANGED <<storeVars, coverFile, queue, proc, hasher, crashes>>
        PROVE  RestInv'
    <2>1. \A s \in Requests \ {r} :
            req[s].at \in Uploading => bookFile'[req[s].id] = bookFile[req[s].id]
      BY <1>d, <1>t, <1>1 DEF FlowTypeOK
    <2>2. UploadsHold' /\ CopiesOwned' /\ Becomes(r, NoRequest)
      BY <1>1, <2>1, AnswerKept DEF storeVars
    <2>3. FlowTypeOK'
      BY <1>t, <1>1, <2>2 DEF FlowTypeOK, Becomes
    <2> QED BY <2>2, <2>3
  <1>2. ASSUME req[r].at \in Uploading, NEW l \in Uploading, Goto(r, l),
               UNCHANGED <<storeVars, bookFile, coverFile, queue, proc, hasher, crashes>>
        PROVE  RestInv'
    <2>1. UploadsHold' /\ CopiesOwned' /\ Becomes(r, [req[r] EXCEPT !.at = l])
      BY <1>2, GotoKept DEF storeVars
    <2>2. FlowTypeOK'
      BY <1>t, <1>2, <2>1 DEF FlowTypeOK, Becomes
    <2> QED BY <2>1, <2>2
  <1>3. CASE UploadFind(r)
    BY <1>1, <1>2, <1>3, LabelsApart DEF UploadFind, At
  <1>4. CASE UploadCatchUp(r)
    BY <1>2, <1>4, LabelsApart DEF UploadCatchUp, At
  <1>5. CASE UploadRefused(r)
    BY <1>1, <1>5, LabelsApart DEF UploadRefused, At
  <1>6. CASE UploadCreate(r)
    <2>1. /\ req[r].at \in Uploading /\ issued' = issued \cup {req[r].id}
          /\ UNCHANGED <<bookFile, coverFile, queue, proc, hasher, crashes>>
      BY <1>6, LabelsApart DEF UploadCreate, Create, At
    <2>2. req[r].user \in Users
      BY <2>1 DEF FlowInv, UploadsHold
    <2>3. \A s \in Requests \ {r} : req[s].at \in Uploading =>
            req[s].id \notin issued' /\ bookFile'[req[s].id] = bookFile[req[s].id]
      BY <1>d, <1>n, <2>1
    <2> DEFINE q == [req[r] EXCEPT !.at = "enqueue"]
    <2>4. Becomes(r, q) \/ Becomes(r, NoRequest)
      BY <1>6, <1>t, GotoBecomes, AnswerBecomes DEF UploadCreate, FlowTypeOK
    <2>5. q.at = "enqueue" /\ q.user = req[r].user /\ q.id = req[r].id
      BY <1>q, RequestMoves
    <2> HIDE DEF q
    <2>6. UploadsHold'
      BY <2>3, <2>4, <2>5, UploadsKept, NoRequestType, LabelsApart
    <2>7. CopiesOwned'
      BY <2>1, <2>2, <2>4, <2>5, CopiesKept, NoRequestType, LabelsApart
    <2>8. FlowTypeOK'
      BY <1>t, <2>1, <2>4 DEF FlowTypeOK, Becomes
    <2> QED BY <2>6, <2>7, <2>8
  <1>7. CASE UploadEnqueue(r)
    <2>1. [id |-> req[r].id, user |-> req[r].user] \in Job
      BY <1>7 DEF UploadEnqueue, At, FlowInv, CopiesOwned, StoreInv, StoreTypeOK, Job
    <2>2. queue' \in Seq(Job)
      BY <1>7, <1>t, <2>1 DEF UploadEnqueue, FlowTypeOK
    <2>3. UploadsHold' /\ CopiesOwned' /\ Becomes(r, NoRequest)
      BY <1>7, AnswerKept DEF UploadEnqueue, storeVars
    <2>4. FlowTypeOK'
      BY <1>7, <1>t, <2>2, <2>3 DEF FlowTypeOK, Becomes, UploadEnqueue
    <2> QED BY <2>3, <2>4
  <1>8. ASSUME Answer(r), UNCHANGED <<issued, bookFile, queue, proc, hasher, crashes>>, coverFile' \subseteq Books
        PROVE  RestInv'
    <2>1. UploadsHold' /\ CopiesOwned' /\ Becomes(r, NoRequest)
      BY <1>8, AnswerKept
    <2>2. FlowTypeOK'
      BY <1>t, <1>8, <2>1 DEF FlowTypeOK, Becomes
    <2> QED BY <2>1, <2>2
  <1>9. CASE Update(r)
    BY <1>8, <1>9, <1>t DEF Update, Save, FlowTypeOK
  <1>10. CASE RemoveCategory(r)
    BY <1>8, <1>10, <1>t DEF RemoveCategory, Save, FlowTypeOK
  <1>11. ASSUME NEW cover, SaveCover(r, cover) PROVE RestInv'
    <2>1. req[r].id \in Books
      BY <1>11 DEF SaveCover, At, FlowInv, CopiesOwned, Holding, StoreInv, StoreTypeOK
    <2> QED BY <1>8, <1>11, <1>t, <2>1 DEF SaveCover, Save, FlowTypeOK
  <1>12. CASE DeleteBook(r)
    <2>1. /\ req[r].at \in Holding
          /\ UNCHANGED <<issued, bookFile, coverFile, queue, proc, hasher, crashes>>
      BY <1>12, LabelsApart DEF DeleteBook, Delete, At
    <2>2. req[r].id \in issued /\ req[r].id \in Books
      BY <2>1 DEF FlowInv, CopiesOwned, StoreInv, StoreTypeOK
    <2> DEFINE covers == IF req[r].copy.info.cover = "none" THEN {} ELSE {req[r].id}
               q == [req[r] EXCEPT !.at = "remove", !.ids = {req[r].id}, !.covers = covers]
    <2>3. q \in Request /\ q.at = "remove" /\ q.ids = {req[r].id}
      BY <1>q, <2>2 DEF Request
    <2>4. req' = [req EXCEPT ![r] = q]
      BY <1>12 DEF DeleteBook
    <2> HIDE DEF q
    <2>5. Becomes(r, q)
      BY <1>t, <2>3, <2>4, RequestBecomes DEF FlowTypeOK
    <2>6. UploadsHold'
      BY <1>n, <2>1, <2>3, <2>5, UploadsKept, LabelsApart
    <2>7. CopiesOwned'
      BY <2>1, <2>2, <2>3, <2>5, CopiesKept, LabelsApart
    <2>8. FlowTypeOK'
      BY <1>t, <2>1, <2>5 DEF FlowTypeOK, Becomes
    <2> QED BY <2>6, <2>7, <2>8
  <1>13. CASE DeleteNotFound(r)
    BY <1>8, <1>13, <1>t DEF DeleteNotFound, storeVars, FlowTypeOK
  <1>14. CASE RemoveFiles(r)
    <2>1. req[r].ids \subseteq issued
      BY <1>14 DEF RemoveFiles, At, FlowInv, CopiesOwned
    <2>2. \A s \in Requests : req[s].at \in Uploading =>
            req[s].id \in Books /\ bookFile'[req[s].id] = bookFile[req[s].id]
      BY <1>14, <2>1 DEF RemoveFiles, FlowInv, UploadsHold
    <2>3. UploadsHold' /\ CopiesOwned' /\ Becomes(r, NoRequest)
      BY <1>14, <2>2, AnswerKept DEF RemoveFiles, storeVars
    <2>4. bookFile' \in [Books -> Hashes \cup {NoHash}]
      BY <1>14, <1>t DEF RemoveFiles, FlowTypeOK
    <2>5. FlowTypeOK'
      BY <1>14, <1>t, <2>3, <2>4 DEF FlowTypeOK, Becomes, RemoveFiles
    <2> QED BY <2>3, <2>5
  <1> QED BY <1>3, <1>4, <1>5, <1>6, <1>7, <1>9, <1>10, <1>11, <1>12, <1>13, <1>14 DEF HandlerStep

(* A worker changes its own job and nobody else's. *)
LEMMA WorkerKept ==
    ASSUME FlowInv, NEW w \in Workers, WorkerStep(w), UNCHANGED load
    PROVE  RestInv'
  <1> USE DEF RestInv
  <1>t. FlowTypeOK BY DEF FlowInv
  <1>1. ASSUME NEW p \in WorkerState, proc' = [proc EXCEPT ![w] = p],
               p.at # "idle" => /\ p.job \in Job /\ p.job.id \in issued
                                /\ p.copy \in Book /\ p.copy.owner = p.job.user,
               UNCHANGED <<issued, bookFile, req, hasher, crashes>>, coverFile' \subseteq Books,
               queue' \in Seq(Job)
        PROVE  RestInv'
    <2>1. UploadsHold'
      BY <1>1, OthersKept
    <2>2. CopiesOwned'
      BY <1>1, <1>t DEF FlowInv, FlowTypeOK, CopiesOwned
    <2>3. FlowTypeOK'
      BY <1>1, <1>t DEF FlowTypeOK
    <2> QED BY <2>1, <2>2, <2>3
  <1>2. NoJob \in WorkerState /\ NoJob.at = "idle"
    BY DEF NoJob, WorkerState
  <1>3. CASE LoadJob(w)
    <2> DEFINE job == Head(queue)
               book == GetBookForUser(job.id, job.user)
               p == [at |-> "extract", job |-> job, copy |-> book]
    <2>1. queue # <<>> /\ job \in Job /\ Tail(queue) \in Seq(Job) /\ queue' = Tail(queue)
      BY <1>3, <1>t DEF LoadJob, FlowTypeOK
    <2>2. UNCHANGED <<issued, bookFile, req, hasher, crashes, coverFile>>
      BY <1>3 DEF LoadJob, storeVars
    <2>3. CASE book # NoBook /\ book.info.state = "pending"
      <3>1. book \in Book /\ book.owner = job.user /\ job.id \in issued
        BY <2>1, <2>3 DEF GetBookForUser, OwnedBy, FlowInv, StoreInv, StoreTypeOK, IssuedCovers, Job
      <3>2. proc' = [proc EXCEPT ![w] = p]
        BY <1>3, <2>3 DEF LoadJob
      <3> HIDE DEF job, book
      <3>3. p \in WorkerState /\ p.at = "extract" /\ p.job = job /\ p.copy = book
        BY <2>1, <3>1 DEF WorkerState
      <3> HIDE DEF p
      <3> QED BY <1>1, <1>t, <2>1, <2>2, <3>1, <3>2, <3>3 DEF FlowTypeOK
    <2>4. CASE ~ (book # NoBook /\ book.info.state = "pending")
      <3>1. UNCHANGED proc
        BY <1>3, <2>4 DEF LoadJob
      <3>2. UploadsHold' /\ CopiesOwned'
        BY <2>2, <3>1, OthersKept
      <3>3. FlowTypeOK'
        BY <1>t, <2>1, <2>2, <3>1 DEF FlowTypeOK
      <3> QED BY <3>2, <3>3
    <2> QED BY <2>3, <2>4
  <1>4. CASE MarkFailed(w)
    BY <1>1, <1>2, <1>4, <1>t DEF MarkFailed, Save, FlowTypeOK
  <1>5. CASE Refresh(w)
    <2> DEFINE book == GetBookForUser(proc[w].job.id, proc[w].job.user)
               p == [proc[w] EXCEPT !.at = "save", !.copy = book]
    <2>1. UNCHANGED <<issued, bookFile, req, hasher, crashes, coverFile, queue>>
      BY <1>5 DEF Refresh, storeVars
    <2>2. CASE book # NoBook /\ book.info.state = "pending"
      <3>1. proc[w].job \in Job /\ proc[w].job.id \in issued
        BY <1>5 DEF Refresh, FlowInv, CopiesOwned
      <3>2. book \in Book /\ book.owner = proc[w].job.user
        BY <2>2, <3>1 DEF GetBookForUser, OwnedBy, FlowInv, StoreInv, StoreTypeOK, Job
      <3>3. proc' = [proc EXCEPT ![w] = p]
        BY <1>5, <2>2 DEF Refresh
      <3> HIDE DEF book
      <3>4. p \in WorkerState /\ p.at = "save" /\ p.job = proc[w].job /\ p.copy = book
        BY <1>t, <3>2 DEF FlowTypeOK, WorkerState
      <3> HIDE DEF p
      <3> QED BY <1>1, <1>t, <2>1, <3>1, <3>2, <3>3, <3>4 DEF FlowTypeOK
    <2>3. CASE ~ (book # NoBook /\ book.info.state = "pending")
      BY <1>1, <1>2, <1>5, <1>t, <2>1, <2>3 DEF Refresh, FlowTypeOK
    <2> QED BY <2>2, <2>3
  <1>6. ASSUME NEW cover \in Covers, SaveProcessed(w, cover) PROVE RestInv'
    <2>1. proc[w].job.id \in Books
      BY <1>6 DEF SaveProcessed, FlowInv, CopiesOwned, StoreInv, StoreTypeOK
    <2> QED BY <1>1, <1>2, <1>6, <1>t, <2>1 DEF SaveProcessed, Save, FlowTypeOK
  <1> QED BY <1>3, <1>4, <1>5, <1>6 DEF WorkerStep

LEMMA HasherKept ==
    ASSUME FlowInv, HasherStep, UNCHANGED load
    PROVE  RestInv'
  <1> USE DEF RestInv
  <1>t. FlowTypeOK BY DEF FlowInv
  <1>b. \A ids \in SUBSET Books : \A i \in ids : books[i] # NoBook =>
          DOMAIN Snapshot(ids) \subseteq Books /\ Snapshot(ids)[i] \in Book
    BY DEF Snapshot, FlowInv, StoreInv, StoreTypeOK
  <1>1. CASE HashTimer
    <2> DEFINE ids == UNION {Backlog(u) : u \in Owners}
    <2>1. ids \in SUBSET Books /\ \A i \in ids : books[i] # NoBook
      BY DEF Backlog, OwnedBy
    <2>2. /\ hasher'.at = "hashing" /\ hasher'.snapshot = Snapshot(ids)
          /\ UNCHANGED <<issued, bookFile, coverFile, req, queue, proc, crashes>>
      BY <1>1 DEF HashTimer, storeVars
    <2> HIDE DEF ids
    <2>3. DOMAIN Snapshot(ids) \subseteq Books /\ \A i \in DOMAIN Snapshot(ids) : Snapshot(ids)[i] \in Book
      BY <1>b, <2>1 DEF Snapshot
    <2>4. FlowTypeOK'
      BY <1>t, <2>2, <2>3 DEF FlowTypeOK
    <2> QED BY <2>2, <2>4, OthersKept
  <1>2. ASSUME NEW r \in Requests, HashFor(r) PROVE RestInv'
    <2> DEFINE ids == Backlog(req[r].user)
    <2>1. ids \in SUBSET Books /\ \A i \in ids : books[i] # NoBook
      BY DEF Backlog, OwnedBy
    <2>2. /\ hasher'.at = "hashing" /\ hasher'.snapshot = Snapshot(ids)
          /\ req[r].at \in Uploading /\ Goto(r, "wait") /\ "wait" \in Uploading
          /\ UNCHANGED <<issued, bookFile, coverFile, queue, proc, crashes>>
      BY <1>2, LabelsApart DEF HashFor, storeVars, At
    <2> HIDE DEF ids
    <2>3. DOMAIN Snapshot(ids) \subseteq Books /\ \A i \in DOMAIN Snapshot(ids) : Snapshot(ids)[i] \in Book
      BY <1>b, <2>1 DEF Snapshot
    <2>4. UploadsHold' /\ CopiesOwned' /\ Becomes(r, [req[r] EXCEPT !.at = "wait"])
      BY <2>2, GotoKept
    <2>5. FlowTypeOK'
      BY <1>t, <2>2, <2>3, <2>4 DEF FlowTypeOK, Becomes
    <2> QED BY <2>4, <2>5
  <1>3. CASE HashCommit
    <2>1. /\ hasher'.at = "idle"
          /\ UNCHANGED <<issued, bookFile, coverFile, queue, proc, crashes>>
      BY <1>3 DEF HashCommit, Backfill, IdleHasher
    <2>2. UploadsHold' /\ CopiesOwned' /\ req' \in [Requests -> Request]
      <3>1. CASE hasher.for \in Requests /\ At(hasher.for, "wait")
        <4>1. req[hasher.for].at \in Uploading /\ Goto(hasher.for, "findAgain") /\ "findAgain" \in Uploading
          BY <1>3, <3>1, LabelsApart DEF HashCommit, At
        <4> QED BY <2>1, <3>1, <4>1, GotoKept DEF Becomes
      <3>2. CASE ~ (hasher.for \in Requests /\ At(hasher.for, "wait"))
        BY <1>3, <1>t, <2>1, <3>2, OthersKept DEF HashCommit, FlowTypeOK
      <3> QED BY <3>1, <3>2
    <2>3. FlowTypeOK'
      BY <1>t, <2>1, <2>2 DEF FlowTypeOK
    <2> QED BY <2>2, <2>3
  <1> QED BY <1>1, <1>2, <1>3 DEF HasherStep

LEMMA CrashKept ==
    ASSUME FlowInv, Crash, UNCHANGED load
    PROVE  RestInv'
  <1>1. /\ req' = [r \in Requests |-> NoRequest] /\ queue' = <<>>
        /\ proc' = [w \in Workers |-> NoJob] /\ hasher'.at = "idle"
        /\ UNCHANGED <<issued, bookFile, coverFile>> /\ crashes' = crashes + 1
    BY DEF Crash, IdleHasher, storeVars
  <1>2. NoJob \in WorkerState /\ NoJob.at = "idle"
    BY DEF NoJob, WorkerState
  <1>3. FlowTypeOK'
    BY <1>1, <1>2, NoRequestType DEF FlowInv, FlowTypeOK
  <1>4. UploadsHold' /\ CopiesOwned'
    BY <1>1, <1>2, NoRequestType, LabelsApart DEF UploadsHold, CopiesOwned
  <1> QED BY <1>3, <1>4 DEF RestInv

LEMMA FlowStepInv == FlowInv /\ [Next]_vars => FlowInv'
  <1> SUFFICES ASSUME FlowInv, [Next]_vars PROVE FlowInv'
    OBVIOUS
  <1>1. CASE Next
    <2>1. RestInv'
      BY <1>1, NewRequestKept, HandlerKept, WorkerKept, HasherKept, CrashKept DEF Next
    <2> QED BY <2>1, StoreKept DEF FlowInv, RestInv
  <1>2. CASE UNCHANGED vars
    <2>1. UploadsHold' /\ CopiesOwned'
      BY <1>2, OthersKept DEF vars, flowVars, storeVars
    <2>2. FlowTypeOK'
      BY <1>2 DEF vars, flowVars, FlowInv, FlowTypeOK
    <2> QED BY <2>1, <2>2, StoreKept DEF FlowInv
  <1> QED BY <1>1, <1>2

LEMMA FlowInitInv == Init => FlowInv
  <1> SUFFICES ASSUME Init PROVE FlowInv
    OBVIOUS
  <1>1. StoreInv
    BY FlowInitStore, StoreInitInv
  <1>2. NoJob \in WorkerState /\ NoJob.at = "idle"
    BY DEF NoJob, WorkerState
  <1>3. FlowTypeOK
    BY <1>2, NoRequestType DEF Init, FlowTypeOK, IdleHasher
  <1>4. UploadsHold /\ CopiesOwned
    BY <1>2, NoRequestType, LabelsApart DEF Init, UploadsHold, CopiesOwned
  <1> QED BY <1>1, <1>3, <1>4 DEF FlowInv

(* Handlers, workers and crashes together do nothing to the store that its *)
(* specification does not allow: what they save is a well formed record of *)
(* the owner of the copy, what they delete was stored, and an upload takes *)
(* an id nobody has.                                                       *)
THEOREM FlowImplementsStore == Spec => StoreSpec
  <1>1. Init => FlowInv BY FlowInitInv
  <1>2. FlowInv /\ [Next]_vars => FlowInv' BY FlowStepInv
  <1>3. FlowInv /\ [Next]_vars => [StoreNext]_storeVars BY FlowUsesStore
  <1>4. Init => StoreInit BY FlowInitStore
  <1> QED BY <1>1, <1>2, <1>3, <1>4, PTL DEF Spec, StoreSpec

-----------------------------------------------------------------------------
(* Files without a record *)

Explains(q, i) == \/ q.id = i /\ q.at \in Uploading
                  \/ q.at = "remove" /\ i \in q.ids

LEMMA LeakFree ==
    NoLeakedFile <=> (crashes = 0 =>
      \A i \in Books : bookFile[i] # NoHash /\ books[i] = NoBook =>
        \E r \in Requests : Explains(req[r], i))
  BY LabelsApart DEF NoLeakedFile, Explains

(* A step leaves no file behind if its own request explains every file     *)
(* that it deprives of a record or that it explained before.               *)
LEMMA LeakKept ==
    ASSUME NoLeakedFile, UNCHANGED crashes, NEW r \in Requests, NEW q, Becomes(r, q),
           \A i \in Books : bookFile'[i] # NoHash /\ books'[i] = NoBook =>
             \/ Explains(q, i)
             \/ bookFile[i] # NoHash /\ books[i] = NoBook /\ ~ Explains(req[r], i)
    PROVE  NoLeakedFile'
  <1> SUFFICES ASSUME crashes' = 0, NEW i \in Books, bookFile'[i] # NoHash, books'[i] = NoBook
               PROVE  \E s \in Requests : Explains(req'[s], i)
    BY LabelsApart DEF NoLeakedFile, Explains
  <1>1. CASE Explains(q, i)
    BY <1>1 DEF Becomes
  <1>2. CASE bookFile[i] # NoHash /\ books[i] = NoBook /\ ~ Explains(req[r], i)
    <2>1. PICK s \in Requests : Explains(req[s], i)
      BY <1>2, LeakFree
    <2>2. s # r BY <1>2, <2>1
    <2> QED BY <2>1, <2>2 DEF Becomes
  <1> QED BY <1>1, <1>2

(* Nobody's request changes and no record goes away. *)
LEMMA LeakSame ==
    ASSUME NoLeakedFile, UNCHANGED <<crashes, req, bookFile>>,
           \A i \in Books : books'[i] = NoBook => books[i] = NoBook
    PROVE  NoLeakedFile'
  BY DEF NoLeakedFile

LEMMA SaveStores ==
    ASSUME FlowInv, NEW i \in Books, NEW b \in RawBook, Save(i, b)
    PROVE  \A j \in Books : books'[j] = NoBook => books[j] = NoBook
  BY NormalizedType DEF Save, FlowInv, StoreInv, StoreTypeOK

LEMMA CategoryStores ==
    ASSUME FlowInv, NEW ids \in SUBSET Books, \A i \in ids : books[i] # NoBook,
           NEW c \in Categories \cup {NoCategory}, books' = WithCategory(ids, c)
    PROVE  \A i \in Books : /\ books'[i] = NoBook <=> books[i] = NoBook
                            /\ books[i] # NoBook => /\ books'[i].owner = books[i].owner
                                                    /\ books'[i].hash = books[i].hash
  <1>1. \A i \in ids : books[i] \in Book
    BY DEF FlowInv, StoreInv, StoreTypeOK
  <1>2. \A i \in ids : /\ books'[i] \in Book /\ books'[i].owner = books[i].owner
                       /\ books'[i].hash = books[i].hash
    BY <1>1 DEF WithCategory, Book
  <1>3. \A i \in Books \ ids : books'[i] = books[i]
    BY DEF WithCategory
  <1> QED BY <1>1, <1>2, <1>3, RecordAssumption

(* Every transaction but creating, deleting and saving changes fields of   *)
(* records that stay: never the owner, and a hash only from none to that   *)
(* of the file.                                                            *)
Tame ==
    \A i \in Books :
      /\ books'[i] = NoBook <=> books[i] = NoBook
      /\ books[i] # NoBook =>
           /\ books'[i].owner = books[i].owner
           /\ \/ books'[i].hash = books[i].hash
              \/ books[i].hash = NoHash /\ books'[i].hash = bookFile[i]

LEMMA TransactionsTame ==
    ASSUME FlowInv,
           \/ \E u \in Users, ids \in SUBSET Books, raw \in RawCategories :
                BatchUpdateCategory(u, ids, raw)
           \/ \E u \in Users, from \in Categories, raw \in RawCategories :
                RenameBookCategory(u, from, raw)
           \/ \E u \in Users, i \in Books, t \in Times, expected \in Times \cup {NoTime} :
                SaveProgress(u, i, t, expected)
    PROVE  Tame /\ UNCHANGED <<flowVars, issued>>
  <1>1. ASSUME NEW u \in Users, NEW ids \in SUBSET Books, NEW raw \in RawCategories,
               BatchUpdateCategory(u, ids, raw)
        PROVE  Tame
    <2>1. \A i \in ids : books[i] # NoBook
      BY <1>1 DEF BatchUpdateCategory, Recategorize, OwnedBy
    <2>2. books' = WithCategory(ids, Trim[raw])
      BY <1>1 DEF BatchUpdateCategory, Recategorize
    <2> QED BY <2>1, <2>2, CategoryStores, TrimType DEF Tame
  <1>2. ASSUME NEW u \in Users, NEW from \in Categories, NEW raw \in RawCategories,
               RenameBookCategory(u, from, raw)
        PROVE  Tame
    <2> DEFINE ids == {i \in Books : OwnedBy(i, u) /\ books[i].category = from}
    <2>1. ids \in SUBSET Books /\ \A i \in ids : books[i] # NoBook
      BY DEF OwnedBy
    <2>2. books' = WithCategory(ids, Trim[raw])
      BY <1>2 DEF RenameBookCategory, RenameCategory
    <2> QED BY <2>1, <2>2, CategoryStores, TrimType DEF Tame
  <1>3. ASSUME NEW u \in Users, NEW i \in Books, NEW t \in Times, NEW expected \in Times \cup {NoTime},
               SaveProgress(u, i, t, expected)
        PROVE  Tame
    <2>1. books[i] \in Book /\ books' = [books EXCEPT ![i] = [books[i] EXCEPT !.lastRead = t]]
      BY <1>3 DEF SaveProgress, RecordProgress, OwnedBy, FlowInv, StoreInv, StoreTypeOK
    <2>2. /\ [books[i] EXCEPT !.lastRead = t] \in Book
          /\ [books[i] EXCEPT !.lastRead = t].owner = books[i].owner
          /\ [books[i] EXCEPT !.lastRead = t].hash = books[i].hash
      BY <2>1 DEF Book
    <2>3. books'[i] = [books[i] EXCEPT !.lastRead = t] /\ \A j \in Books \ {i} : books'[j] = books[j]
      BY <2>1 DEF FlowInv, StoreInv, StoreTypeOK
    <2> QED BY <2>1, <2>2, <2>3, RecordAssumption DEF Tame
  <1>4. UNCHANGED <<flowVars, issued>>
    BY DEF BatchUpdateCategory, RenameBookCategory, SaveProgress,
           Recategorize, RenameCategory, RecordProgress
  <1> QED BY <1>1, <1>2, <1>3, <1>4

(* The hash worker writes the hash of the file, and only where none was. *)
LEMMA HashCommitTame ==
    ASSUME FlowInv, HashCommit
    PROVE  /\ Tame
           /\ \A i \in Books : \/ books'[i] = books[i]
                               \/ /\ books[i] # NoBook /\ books[i].hash = NoHash
                                  /\ books'[i] = [books[i] EXCEPT !.hash = bookFile[i]]
           /\ \A i \in DOMAIN hasher.snapshot :
                bookFile[i] # NoHash /\ OwnedBy(i, hasher.snapshot[i].owner) => books'[i].hash # NoHash
  <1> DEFINE given == Hashed(hasher.snapshot)
             ids == {j \in DOMAIN hasher.snapshot : bookFile[j] # NoHash}
  <1>1. hasher.at = "hashing" /\ Backfill(given)
    BY DEF HashCommit
  <1>2. ids \in SUBSET Books /\ \A i \in ids : hasher.snapshot[i] \in Book /\ bookFile[i] \in Hashes
    BY <1>1 DEF FlowInv, FlowTypeOK
  <1>3. given = [i \in ids |-> [hasher.snapshot[i] EXCEPT !.hash = bookFile[i]]]
    BY DEF Hashed
  <1>4. \A i \in ids : given[i].owner = hasher.snapshot[i].owner /\ given[i].hash = bookFile[i]
    BY <1>2, <1>3 DEF Book
  <1>5. \A i \in Refreshable(given) :
          /\ i \in ids /\ books[i] \in Book /\ books[i].hash = NoHash
          /\ books'[i] = [books[i] EXCEPT !.hash = bookFile[i]]
    <2>1. \A i \in Refreshable(given) : i \in ids /\ books[i] # NoBook /\ books[i].hash = NoHash
      BY <1>3 DEF Refreshable, OwnedBy
    <2>2. \A i \in Refreshable(given) : books'[i] = [books[i] EXCEPT !.hash = given[i].hash]
      BY <1>1, <1>2, <2>1 DEF Backfill
    <2> QED BY <1>2, <1>4, <2>1, <2>2 DEF FlowInv, StoreInv, StoreTypeOK
  <1>6. \A i \in Refreshable(given) :
          /\ books'[i] \in Book /\ books'[i].owner = books[i].owner /\ books'[i].hash = bookFile[i]
    BY <1>2, <1>5 DEF Book
  <1>7. \A i \in Books \ Refreshable(given) : books'[i] = books[i]
    BY <1>1 DEF Backfill
  <1>8. Tame
    BY <1>5, <1>6, <1>7, RecordAssumption DEF Tame
  <1>9. ASSUME NEW i \in DOMAIN hasher.snapshot, bookFile[i] # NoHash, OwnedBy(i, hasher.snapshot[i].owner)
        PROVE  books'[i].hash # NoHash
    <2>1. i \in ids /\ i \in Books BY <1>2, <1>9
    <2>2. CASE books[i].hash = NoHash
      <3>1. i \in Refreshable(given)
        BY <1>3, <1>4, <1>9, <2>1, <2>2 DEF Refreshable
      <3> QED BY <1>2, <1>6, <2>1, <3>1, HashAssumption
    <2>3. CASE books[i].hash # NoHash
      BY <1>5, <1>7, <2>1, <2>3
    <2> QED BY <2>2, <2>3
  <1> QED BY <1>5, <1>7, <1>8, <1>9, RecordAssumption

-----------------------------------------------------------------------------
(* Without stale saves *)

(* No record appears without a hash, and none comes back or changes hands. *)
Settles ==
    /\ issued \subseteq issued'
    /\ \A j \in Books : books'[j] # NoBook /\ books'[j].hash = NoHash =>
         books[j] # NoBook /\ books[j].owner = books'[j].owner /\ books[j].hash = NoHash
    /\ \A i \in issued : books'[i] # NoBook => books[i] # NoBook /\ books'[i].owner = books[i].owner

LEMMA SettlesSame == ASSUME UNCHANGED <<books, issued>> PROVE Settles /\ Tame
  BY DEF Settles, Tame

LEMMA TameSettles ==
    ASSUME FlowInv, Tame, UNCHANGED issued, \A i \in Books : books[i] # NoBook => bookFile[i] # NoHash
    PROVE  Settles
  BY DEF Tame, Settles, FlowInv, StoreInv, StoreTypeOK

LEMMA TameRecords ==
    ASSUME HashesTrue, ContentsDiffer, Tame, UNCHANGED <<bookFile, load>>
    PROVE  HashesTrue' /\ ContentsDiffer'
  BY DEF Tame, HashesTrue, ContentsDiffer

(* Records stay true to their files when files change elsewhere. *)
LEMMA FileElsewhere ==
    ASSUME HashesTrue, ContentsDiffer, UNCHANGED <<books, load>>,
           \A i \in Books : books[i] # NoBook => bookFile'[i] = bookFile[i]
    PROVE  HashesTrue' /\ ContentsDiffer'
  BY DEF HashesTrue, ContentsDiffer

LEMMA QueuesKept ==
    ASSUME NothingSaved, NEW r \in Requests, NEW q, Becomes(r, q), UNCHANGED <<queue, proc>>,
           q.at \notin {"edit", "uncategorize", "cover", "enqueue"}
    PROVE  NothingSaved'
  BY DEF NothingSaved, Becomes

LEMMA RemovalsKept ==
    ASSUME FlowInv, RemovalsFollow, Settles, NEW r \in Requests, NEW q, Becomes(r, q),
           q.at = "remove" => \A i \in q.ids : books'[i] = NoBook
    PROVE  RemovalsFollow'
  BY DEF RemovalsFollow, Settles, Becomes, FlowInv, CopiesOwned

LEMMA CaughtUpKept ==
    ASSUME FlowInv, CaughtUp, Settles, NEW r \in Requests, NEW q, Becomes(r, q), UNCHANGED hasher,
           q.at # "wait",
           q.at \in {"findAgain", "create"} =>
             \A j \in Books : OwnedBy(j, q.user) => books[j].hash # NoHash
    PROVE  CaughtUp'
  <1>1. ASSUME NEW s \in Requests, req'[s].at \in {"findAgain", "create"},
               NEW j \in Books, books'[j] # NoBook, books'[j].owner = req'[s].user
        PROVE  books'[j].hash # NoHash
    <2>1. CASE s = r
      BY <1>1, <2>1 DEF Becomes, Settles, OwnedBy
    <2>2. CASE s # r
      BY <1>1, <2>2 DEF Becomes, Settles, OwnedBy, CaughtUp
    <2> QED BY <2>1, <2>2
  <1>2. ASSUME hasher.at = "hashing", NEW i \in DOMAIN hasher.snapshot
        PROVE  i \in issued' /\ (books'[i] # NoBook => books'[i].owner = hasher.snapshot[i].owner)
    BY <1>2 DEF CaughtUp, Settles, FlowInv, FlowTypeOK
  <1>3. ASSUME hasher.at = "hashing", NEW s \in Requests, s = hasher.for, req'[s].at = "wait",
               NEW j \in Books, books'[j] # NoBook, books'[j].owner = req'[s].user, books'[j].hash = NoHash
        PROVE  j \in DOMAIN hasher.snapshot
    <2>1. s # r /\ req'[s] = req[s] BY <1>3 DEF Becomes
    <2>2. OwnedBy(j, req[s].user) /\ books[j].hash = NoHash
      BY <1>3, <2>1 DEF Settles, OwnedBy
    <2> QED BY <1>3, <2>1, <2>2 DEF CaughtUp
  <1> QED BY <1>1, <1>2, <1>3 DEF CaughtUp, OwnedBy

LEMMA CaughtUpSame ==
    ASSUME FlowInv, CaughtUp, Settles, UNCHANGED <<req, hasher>>
    PROVE  CaughtUp'
  <1>1. ASSUME NEW s \in Requests, req[s].at \in {"findAgain", "create"},
               NEW j \in Books, OwnedBy(j, req[s].user)'
        PROVE  books'[j].hash # NoHash
    BY <1>1 DEF Settles, OwnedBy, CaughtUp
  <1>2. ASSUME hasher.at = "hashing", NEW i \in DOMAIN hasher.snapshot
        PROVE  i \in issued' /\ (books'[i] # NoBook => books'[i].owner = hasher.snapshot[i].owner)
    BY <1>2 DEF CaughtUp, Settles, FlowInv, FlowTypeOK
  <1>3. ASSUME hasher.at = "hashing", NEW s \in Requests, s = hasher.for, req[s].at = "wait",
               NEW j \in Books, OwnedBy(j, req[s].user)', books'[j].hash = NoHash
        PROVE  j \in DOMAIN hasher.snapshot
    <2>1. OwnedBy(j, req[s].user) /\ books[j].hash = NoHash
      BY <1>3 DEF Settles, OwnedBy
    <2> QED BY <1>3, <2>1 DEF CaughtUp
  <1> QED BY <1>1, <1>2, <1>3 DEF CaughtUp

(* One request goes on and the records are those of before. *)
LEMMA RequestClean ==
    ASSUME FlowInv, CleanParts, NEW r \in Requests, NEW q, Becomes(r, q),
           UNCHANGED <<books, issued, queue, proc, hasher, load>>,
           \A i \in Books : books[i] # NoBook => bookFile'[i] = bookFile[i],
           q.at \notin {"edit", "uncategorize", "cover", "enqueue", "wait"},
           q.at = "remove" => \A i \in q.ids : books[i] = NoBook,
           q.at \in {"findAgain", "create"} =>
             \A j \in Books : OwnedBy(j, q.user) => books[j].hash # NoHash
    PROVE  CleanParts'
  <1> USE DEF CleanParts
  <1>1. Settles BY SettlesSame
  <1>2. NothingSaved' BY QueuesKept
  <1>3. HashesTrue' /\ ContentsDiffer' BY FileElsewhere
  <1>4. RemovalsFollow' BY <1>1, RemovalsKept
  <1>5. CaughtUp' BY <1>1, CaughtUpKept
  <1> QED BY <1>2, <1>3, <1>4, <1>5

SafeInv == NoLeakedFile /\ CleanInv

(* A deletion takes the record away and leaves the file to its request. *)
LEMMA DeletionSafe ==
    ASSUME FlowInv, SafeInv, UNCHANGED load, NEW ids \in SUBSET Books, NEW u \in Users, Delete(ids, u),
           NEW r \in Requests, NEW q, Becomes(r, q), q.at = "remove", q.ids = ids,
           \A i \in Books : ~ Explains(req[r], i),
           UNCHANGED <<bookFile, queue, proc, hasher, crashes>>
    PROVE  SafeInv'
  <1> USE DEF SafeInv
  <1>1. /\ \A i \in ids : books'[i] = NoBook
        /\ \A i \in Books \ ids : books'[i] = books[i]
        /\ UNCHANGED issued
    BY DEF Delete
  <1>2. NoLeakedFile'
    <2>1. \A i \in ids : Explains(q, i)
      BY DEF Explains
    <2> QED BY <1>1, <2>1, LeakKept
  <1>3. ASSUME NoStaleSaves PROVE CleanParts'
    <2> USE <1>3 DEF CleanInv, CleanParts
    <2>1. Settles
      BY <1>1 DEF Settles, FlowInv, StoreInv, StoreTypeOK
    <2>2. NothingSaved' BY QueuesKept
    <2>3. HashesTrue' /\ ContentsDiffer'
      BY <1>1 DEF HashesTrue, ContentsDiffer
    <2>4. RemovalsFollow' BY <1>1, <2>1, RemovalsKept
    <2>5. CaughtUp' BY <2>1, CaughtUpKept
    <2> QED BY <2>2, <2>3, <2>4, <2>5
  <1>4. NoStaleSaves' <=> NoStaleSaves
    BY DEF NoStaleSaves
  <1> QED BY <1>2, <1>3, <1>4 DEF CleanInv

LEMMA NewRequestSafe ==
    ASSUME FlowInv, SafeInv, NewRequest, UNCHANGED load
    PROVE  SafeInv'
  <1> USE DEF SafeInv
  <1>t. req \in [Requests -> Request] /\ bookFile \in [Books -> Hashes \cup {NoHash}]
    BY DEF FlowInv, FlowTypeOK
  <1>s. NoStaleSaves' <=> NoStaleSaves
    BY DEF NoStaleSaves
  <1>i. \A r \in Requests : req[r].at = "idle" => \A i \in Books : ~ Explains(req[r], i)
    BY LabelsApart DEF Explains
  <1>1. ASSUME NEW r \in Requests, NEW u \in Users, NEW i \in Books, NEW h \in Hashes,
               NEW f \in load.formats, UploadWrite(r, u, i, h, f)
        PROVE  SafeInv'
    <2> DEFINE q == [NoRequest EXCEPT !.at = "find", !.user = u, !.id = i, !.hash = h, !.format = f]
    <2>0. f \in {"epub", "pdf"}
      BY FlowAssumption DEF FlowInv, FlowTypeOK
    <2>1. q \in Request /\ q.at = "find" /\ q.id = i
      BY <2>0 DEF NoRequest, Request, Uploading, Owners
    <2>2. req' = [req EXCEPT ![r] = q]
      BY <1>1 DEF UploadWrite
    <2>u. i \notin issued /\ req[r].at = "idle"
      BY <1>1 DEF UploadWrite, FreshId, Unused, Idle
    <2>w. /\ bookFile' = [bookFile EXCEPT ![i] = h]
          /\ UNCHANGED <<books, issued, coverFile, queue, proc, hasher, crashes>>
      BY <1>1 DEF UploadWrite, storeVars
    <2> HIDE DEF q
    <2>3. Becomes(r, q)
      BY <1>t, <2>1, <2>2, RequestBecomes
    <2>4. books[i] = NoBook
      BY <2>u DEF FlowInv, StoreInv, IssuedCovers
    <2>5. \A j \in Books : j # i => bookFile'[j] = bookFile[j]
      BY <1>t, <2>w
    <2>6. NoLeakedFile'
      <3>1. Explains(q, i)
        BY <2>1, LabelsApart DEF Explains
      <3> QED BY <1>i, <2>3, <2>5, <2>u, <2>w, <3>1, LeakKept
    <2>7. ASSUME NoStaleSaves PROVE CleanParts'
      BY <2>1, <2>3, <2>4, <2>5, <2>7, <2>w, RequestClean DEF CleanInv
    <2> QED BY <1>s, <2>6, <2>7 DEF CleanInv
  <1>2. ASSUME NEW r \in Requests, NEW u \in Users, NEW i \in Books, NEW op, NEW label \in Holding,
               ReadBook(r, u, i, op, label), NoStaleSaves => label = "delete"
        PROVE  SafeInv'
    <2> DEFINE q == [NoRequest EXCEPT !.at = label, !.user = u, !.id = i, !.copy = books[i]]
    <2>0. books[i] \in Book
      BY <1>2 DEF ReadBook, GetBookForUser, OwnedBy, FlowInv, StoreInv, StoreTypeOK
    <2>1. q \in Request /\ q.at = label
      BY <2>0 DEF NoRequest, Request, Owners
    <2>2. req' = [req EXCEPT ![r] = q]
      BY <1>2 DEF ReadBook
    <2>w. /\ req[r].at = "idle"
          /\ UNCHANGED <<books, issued, bookFile, coverFile, queue, proc, hasher, crashes>>
      BY <1>2 DEF ReadBook, storeVars, Idle
    <2> HIDE DEF q
    <2>3. Becomes(r, q)
      BY <1>t, <2>1, <2>2, RequestBecomes
    <2>4. NoLeakedFile'
      BY <1>i, <2>3, <2>w, LeakKept
    <2>5. ASSUME NoStaleSaves PROVE CleanParts'
      BY <1>2, <2>1, <2>3, <2>5, <2>w, RequestClean DEF CleanInv
    <2> QED BY <1>s, <2>4, <2>5 DEF CleanInv
  <1>3. ASSUME NEW r \in Requests, NEW u \in Users, NEW ids \in SUBSET Books, BatchDelete(r, u, ids)
        PROVE  SafeInv'
    <2> DEFINE q == [NoRequest EXCEPT !.at = "remove", !.user = u, !.ids = ids,
                                      !.covers = {i \in ids : books[i].info.cover # "none"}]
    <2>1. q \in Request /\ q.at = "remove" /\ q.ids = ids
      BY DEF NoRequest, Request, Owners
    <2>2. req' = [req EXCEPT ![r] = q]
      BY <1>3 DEF BatchDelete
    <2>w. /\ req[r].at = "idle" /\ Delete(ids, u)
          /\ UNCHANGED <<issued, bookFile, coverFile, queue, proc, hasher, crashes>>
      BY <1>3 DEF BatchDelete, Delete, Idle
    <2> HIDE DEF q
    <2>3. Becomes(r, q)
      BY <1>t, <2>1, <2>2, RequestBecomes
    <2> QED BY <1>i, <2>1, <2>3, <2>w, DeletionSafe
  <1>4. ASSUME \/ \E u \in Users, ids \in SUBSET Books, raw \in RawCategories :
                    BatchUpdateCategory(u, ids, raw)
               \/ \E u \in Users, from \in Categories, raw \in RawCategories :
                    RenameBookCategory(u, from, raw)
               \/ \E u \in Users, i \in Books, t \in Times, expected \in Times \cup {NoTime} :
                    SaveProgress(u, i, t, expected)
        PROVE  SafeInv'
    <2>1. Tame /\ UNCHANGED <<issued, bookFile, req, queue, proc, hasher, crashes>>
      BY <1>4, TransactionsTame DEF flowVars
    <2>2. NoLeakedFile'
      BY <2>1, LeakSame DEF Tame
    <2>3. ASSUME NoStaleSaves PROVE CleanParts'
      <3> USE <2>3 DEF CleanInv, CleanParts
      <3>1. Settles
        BY <2>1, TameSettles DEF HashesTrue
      <3>2. HashesTrue' /\ ContentsDiffer'
        BY <2>1, TameRecords
      <3>3. NothingSaved'
        BY <2>1 DEF NothingSaved
      <3>4. RemovalsFollow'
        BY <2>1, <3>1 DEF RemovalsFollow, Settles, FlowInv, CopiesOwned
      <3>5. CaughtUp'
        BY <2>1, <3>1, CaughtUpSame
      <3> QED BY <3>2, <3>3, <3>4, <3>5
    <2> QED BY <1>s, <2>2, <2>3 DEF CleanInv
  <1>5. ASSUME NEW r \in Requests, NEW u \in Users, NEW i \in Books,
               \/ ReadBook(r, u, i, "update", "edit")
               \/ ReadBook(r, u, i, "removeCategory", "uncategorize")
               \/ ReadBook(r, u, i, "cover", "cover")
               \/ ReadBook(r, u, i, "delete", "delete")
        PROVE  SafeInv'
    <2>1. \A op : op \in load.ops \cap {"update", "removeCategory", "cover"} => ~ NoStaleSaves
      BY DEF NoStaleSaves
    <2>2. CASE ReadBook(r, u, i, "delete", "delete")
      BY <1>2, <2>2 DEF Holding
    <2>3. CASE ReadBook(r, u, i, "update", "edit")
      <3>1. ~ NoStaleSaves BY <2>1, <2>3 DEF ReadBook
      <3> QED BY <1>2, <2>3, <3>1 DEF Holding
    <2>4. CASE ReadBook(r, u, i, "removeCategory", "uncategorize")
      <3>1. ~ NoStaleSaves BY <2>1, <2>4 DEF ReadBook
      <3> QED BY <1>2, <2>4, <3>1 DEF Holding
    <2>5. CASE ReadBook(r, u, i, "cover", "cover")
      <3>1. ~ NoStaleSaves BY <2>1, <2>5 DEF ReadBook
      <3> QED BY <1>2, <2>5, <3>1 DEF Holding
    <2> QED BY <1>5, <2>2, <2>3, <2>4, <2>5
  <1> QED BY <1>1, <1>3, <1>4, <1>5 DEF NewRequest

LEMMA HandlerSafe ==
    ASSUME FlowInv, SafeInv, NEW r \in Requests, HandlerStep(r), UNCHANGED load
    PROVE  SafeInv'
  <1> USE DEF SafeInv
  <1>t. req \in [Requests -> Request] /\ bookFile \in [Books -> Hashes \cup {NoHash}]
    BY DEF FlowInv, FlowTypeOK
  <1>q. req[r] \in Request
    BY <1>t
  <1>s. NoStaleSaves' <=> NoStaleSaves
    BY DEF NoStaleSaves
  <1>n. \A i \in Books : ~ Explains(NoRequest, i)
    BY NoRequestType, LabelsApart DEF Explains
  <1>o. \A i \in Books : i \notin issued => books[i] = NoBook
    BY DEF FlowInv, StoreInv, IssuedCovers
  (* An upload that is refused takes its file with it. *)
  <1>1. ASSUME req[r].at \in Uploading, Answer(r), bookFile' = [bookFile EXCEPT ![req[r].id] = NoHash],
               UNCHANGED <<storeVars, coverFile, queue, proc, hasher, crashes>>
        PROVE  SafeInv'
    <2>1. Becomes(r, NoRequest)
      BY <1>1, <1>t, AnswerBecomes
    <2>2. req[r].id \in Books /\ books[req[r].id] = NoBook
      BY <1>1, <1>o DEF FlowInv, UploadsHold
    <2>3. /\ bookFile'[req[r].id] = NoHash
          /\ \A i \in Books : i # req[r].id => bookFile'[i] = bookFile[i] /\ ~ Explains(req[r], i)
      BY <1>1, <1>t, <2>2, LabelsApart DEF Explains
    <2>4. NoLeakedFile'
      BY <1>1, <2>1, <2>2, <2>3, LeakKept DEF storeVars
    <2>5. ASSUME NoStaleSaves PROVE CleanParts'
      BY <1>1, <2>1, <2>2, <2>3, <2>5, NoRequestType, RequestClean DEF CleanInv, storeVars
    <2> QED BY <1>s, <2>4, <2>5 DEF CleanInv
  (* An upload that goes on keeps it. *)
  <1>2. ASSUME req[r].at \in Uploading, NEW l \in Uploading \ {"wait"}, Goto(r, l),
               l \in {"findAgain", "create"} =>
                 \A j \in Books : NoStaleSaves /\ OwnedBy(j, req[r].user) => books[j].hash # NoHash,
               UNCHANGED <<storeVars, bookFile, coverFile, queue, proc, hasher, crashes>>
        PROVE  SafeInv'
    <2> DEFINE q == [req[r] EXCEPT !.at = l]
    <2>1. Becomes(r, q)
      BY <1>2, <1>t, GotoBecomes
    <2>2. q.at = l /\ q.id = req[r].id /\ q.user = req[r].user
      BY <1>q, RequestMoves
    <2> HIDE DEF q
    <2>3. \A i \in Books : Explains(req[r], i) => Explains(q, i)
      BY <1>2, <2>2, LabelsApart DEF Explains
    <2>4. NoLeakedFile'
      BY <1>2, <2>1, <2>3, LeakKept DEF storeVars
    <2>5. ASSUME NoStaleSaves PROVE CleanParts'
      BY <1>2, <2>1, <2>2, <2>5, RequestClean, LabelsApart DEF CleanInv, storeVars, Uploading
    <2> QED BY <1>s, <2>4, <2>5 DEF CleanInv
  <1>3. CASE UploadFind(r)
    <2>1. req[r].at \in Uploading
      BY <1>3, LabelsApart DEF UploadFind
    <2>2. CASE SameContent(req[r].user, req[r].hash) # {}
      BY <1>1, <1>3, <2>1, <2>2 DEF UploadFind
    <2>3. CASE SameContent(req[r].user, req[r].hash) = {}
      <3> DEFINE l == IF At(r, "find") THEN "backlog" ELSE "create"
      <3>1. Goto(r, l) /\ UNCHANGED <<storeVars, bookFile, coverFile, queue, proc, hasher, crashes>>
        BY <1>3, <2>3 DEF UploadFind
      <3>2. l \in Uploading \ {"wait"}
        BY DEF Uploading
      <3>3. l \in {"findAgain", "create"} => req[r].at = "findAgain"
        BY <1>3 DEF UploadFind, At
      <3> HIDE DEF l
      <3>4. l \in {"findAgain", "create"} =>
              \A j \in Books : NoStaleSaves /\ OwnedBy(j, req[r].user) => books[j].hash # NoHash
        BY <3>3 DEF CleanInv, CleanParts, CaughtUp
      <3> QED BY <1>2, <2>1, <3>1, <3>2, <3>4
    <2> QED BY <2>2, <2>3
  <1>4. CASE UploadCatchUp(r)
    <2> DEFINE l == IF Backlog(req[r].user) = {} THEN "findAgain" ELSE "request"
    <2>1. /\ req[r].at \in Uploading /\ Goto(r, l)
          /\ UNCHANGED <<storeVars, bookFile, coverFile, queue, proc, hasher, crashes>>
      BY <1>4, LabelsApart DEF UploadCatchUp, At
    <2>2. l \in Uploading \ {"wait"}
      BY DEF Uploading
    <2>3. l \in {"findAgain", "create"} => Backlog(req[r].user) = {}
      OBVIOUS
    <2> HIDE DEF l
    <2>4. l \in {"findAgain", "create"} =>
            \A j \in Books : NoStaleSaves /\ OwnedBy(j, req[r].user) => books[j].hash # NoHash
      BY <2>3 DEF Backlog
    <2> QED BY <1>2, <2>1, <2>2, <2>4
  <1>5. CASE UploadRefused(r)
    BY <1>1, <1>5, LabelsApart DEF UploadRefused, At
  <1>6. CASE UploadCreate(r)
    <2> DEFINE i == req[r].id
               b == Normalized(UploadedBook(r))
    <2>1. /\ req[r].at \in Uploading /\ Create(i, UploadedBook(r))
          /\ UNCHANGED <<bookFile, coverFile, queue, proc, hasher, crashes>>
      BY <1>6, LabelsApart DEF UploadCreate, At
    <2>2. /\ req[r].user \in Users /\ i \in Books \ issued /\ req[r].hash \in Hashes
          /\ bookFile[i] = req[r].hash /\ req[r].format \in load.formats
      BY <2>1 DEF FlowInv, UploadsHold
    <2>3. b \in Book /\ b.owner = req[r].user /\ b.hash = req[r].hash /\ b # NoBook
      <3>1. UploadedBook(r) \in RawBook /\ UploadedBook(r).hash = req[r].hash
        BY <2>1, UploadedBookType
      <3>2. UploadedBook(r).owner = req[r].user BY DEF UploadedBook
      <3>3. Normalized(UploadedBook(r)).hash = UploadedBook(r).hash
        BY <3>1 DEF Normalized, RawBook
      <3> QED BY <3>1, <3>2, <3>3, NormalizedType
    <2>4. books'[i] = b /\ \A j \in Books \ {i} : books'[j] = books[j]
      BY <2>1, <2>2 DEF Create, FlowInv, StoreInv, StoreTypeOK
    <2>5. issued' = issued \cup {i} /\ \A j \in Books \ {i} : ~ (OwnedBy(j, req[r].user) /\ books[j].hash = req[r].hash)
      <3>1. UploadedBook(r).owner = req[r].user /\ UploadedBook(r).hash = req[r].hash
        BY DEF UploadedBook
      <3> QED BY <2>1, <2>2, <3>1, HashAssumption DEF Create
    <2> HIDE DEF i, b
    <2>6. Becomes(r, [req[r] EXCEPT !.at = "enqueue"]) \/ Becomes(r, NoRequest)
      BY <1>6, <1>t, GotoBecomes, AnswerBecomes DEF UploadCreate
    <2>7. NoLeakedFile'
      <3>1. \A j \in Books : Explains(req[r], j) => j = i
        BY <2>1, LabelsApart DEF Explains, i
      <3>2. \A j \in Books : books'[j] = NoBook => books[j] = NoBook /\ ~ Explains(req[r], j)
        BY <2>3, <2>4, <3>1
      <3> QED BY <2>1, <2>6, <3>2, LeakKept
    <2>8. ASSUME NoStaleSaves PROVE CleanParts'
      <3>0. CleanParts BY <2>8 DEF CleanInv
      <3>1. Becomes(r, NoRequest)
        <4>1. req[r].format # "epub" BY <2>2, <2>8 DEF NoStaleSaves
        <4> QED BY <1>6, <1>t, <4>1, AnswerBecomes DEF UploadCreate
      <3>2. Settles
        BY <2>2, <2>3, <2>4, <2>5, <1>o, HashAssumption DEF Settles, FlowInv, StoreInv, StoreTypeOK
      <3>3. NothingSaved'
        BY <2>1, <3>0, <3>1, NoRequestType, QueuesKept DEF CleanParts
      <3>4. RemovalsFollow'
        BY <3>0, <3>1, <3>2, NoRequestType, RemovalsKept DEF CleanParts
      <3>5. CaughtUp'
        BY <2>1, <3>0, <3>1, <3>2, NoRequestType, CaughtUpKept DEF CleanParts
      <3>6. HashesTrue'
        BY <2>1, <2>2, <2>3, <2>4, <3>0, HashAssumption DEF CleanParts, HashesTrue
      <3>7. \A j \in Books \ {i} : OwnedBy(j, req[r].user) => bookFile[j] # bookFile[i]
        <4>1. req[r].at = "create" BY <1>6 DEF UploadCreate, At
        <4>2. \A j \in Books : OwnedBy(j, req[r].user) => books[j].hash # NoHash
          BY <3>0, <4>1 DEF CleanParts, CaughtUp
        <4> QED BY <2>2, <2>5, <3>0, <4>2 DEF CleanParts, HashesTrue, OwnedBy
      <3>8. ContentsDiffer'
        <4> SUFFICES ASSUME NEW j \in Books, NEW k \in Books, j # k, j \notin load.legacy,
                            books'[j] # NoBook, books'[k] # NoBook, books'[j].owner = books'[k].owner
                     PROVE  bookFile[j] # bookFile[k]
          BY <2>1 DEF ContentsDiffer
        <4>1. CASE j = i
          BY <2>3, <2>4, <3>7, <4>1 DEF OwnedBy
        <4>2. CASE k = i
          BY <2>3, <2>4, <3>7, <4>2 DEF OwnedBy
        <4>3. CASE j # i /\ k # i
          BY <2>4, <3>0, <4>3 DEF CleanParts, ContentsDiffer
        <4> QED BY <4>1, <4>2, <4>3
      <3> QED BY <3>3, <3>4, <3>5, <3>6, <3>8 DEF CleanParts
    <2> QED BY <1>s, <2>7, <2>8 DEF CleanInv
  (* Steps that no behaviour without stale saves takes. *)
  <1>7. ASSUME req[r].at \in {"edit", "uncategorize", "cover", "enqueue"}, Answer(r),
               UNCHANGED <<bookFile, crashes>>,
               \A i \in Books : books'[i] = NoBook => books[i] = NoBook
        PROVE  SafeInv'
    <2>1. Becomes(r, NoRequest)
      BY <1>7, <1>t, AnswerBecomes
    <2>2. \A i \in Books : ~ Explains(req[r], i)
      BY <1>7, LabelsApart DEF Explains, Uploading
    <2>3. NoLeakedFile'
      BY <1>7, <2>1, <2>2, LeakKept
    <2>4. ~ NoStaleSaves
      BY <1>7 DEF CleanInv, CleanParts, NothingSaved
    <2> QED BY <1>s, <2>3, <2>4 DEF CleanInv
  <1>8. CASE UploadEnqueue(r)
    BY <1>7, <1>8 DEF UploadEnqueue, At, storeVars
  <1>9. CASE Update(r) \/ RemoveCategory(r) \/ \E cover \in {"cover", "thumb"} : SaveCover(r, cover)
    <2>1. \A i \in Books : books'[i] = NoBook => books[i] = NoBook
      BY <1>9, SavesUsed, SaveStores
    <2> QED BY <1>7, <1>9, <2>1 DEF Update, RemoveCategory, SaveCover, At
  <1>10. CASE DeleteBook(r)
    <2>1. /\ req[r].at \in Holding /\ Delete({req[r].id}, req[r].user)
          /\ UNCHANGED <<issued, bookFile, coverFile, queue, proc, hasher, crashes>>
      BY <1>10, LabelsApart DEF DeleteBook, Delete, At
    <2>2. req[r].id \in Books /\ req[r].user \in Users
      BY <2>1 DEF FlowInv, CopiesOwned, StoreInv, StoreTypeOK
    <2> DEFINE covers == IF req[r].copy.info.cover = "none" THEN {} ELSE {req[r].id}
               q == [req[r] EXCEPT !.at = "remove", !.ids = {req[r].id}, !.covers = covers]
    <2>3. q \in Request /\ q.at = "remove" /\ q.ids = {req[r].id}
      BY <1>q, <2>2 DEF Request
    <2>4. req' = [req EXCEPT ![r] = q]
      BY <1>10 DEF DeleteBook
    <2> HIDE DEF q
    <2>5. Becomes(r, q)
      BY <1>t, <2>3, <2>4, RequestBecomes
    <2>6. \A i \in Books : ~ Explains(req[r], i)
      BY <2>1, LabelsApart DEF Explains
    <2> QED BY <2>1, <2>2, <2>3, <2>5, <2>6, DeletionSafe
  <1>11. CASE DeleteNotFound(r)
    <2>1. /\ req[r].at = "delete"
          /\ UNCHANGED <<books, issued, bookFile, coverFile, queue, proc, hasher, crashes>>
      BY <1>11 DEF DeleteNotFound, At, storeVars
    <2>2. Becomes(r, NoRequest)
      BY <1>11, <1>t, AnswerBecomes DEF DeleteNotFound
    <2>3. \A i \in Books : ~ Explains(req[r], i)
      BY <2>1, LabelsApart DEF Explains
    <2>4. NoLeakedFile'
      BY <2>1, <2>2, <2>3, LeakKept
    <2>5. ASSUME NoStaleSaves PROVE CleanParts'
      BY <2>1, <2>2, <2>5, NoRequestType, RequestClean DEF CleanInv
    <2> QED BY <1>s, <2>4, <2>5 DEF CleanInv
  <1>12. CASE RemoveFiles(r)
    <2>1. /\ req[r].at = "remove" /\ UNCHANGED <<books, issued, queue, proc, hasher, crashes>>
          /\ \A i \in Books : bookFile'[i] = IF i \in req[r].ids THEN NoHash ELSE bookFile[i]
      BY <1>12 DEF RemoveFiles, At, storeVars
    <2>2. Becomes(r, NoRequest)
      BY <1>12, <1>t, AnswerBecomes DEF RemoveFiles
    <2>3. NoLeakedFile'
      <3>1. \A i \in Books : Explains(req[r], i) => i \in req[r].ids
        BY <2>1, LabelsApart DEF Explains
      <3> QED BY <2>1, <2>2, <3>1, LeakKept
    <2>4. ASSUME NoStaleSaves PROVE CleanParts'
      <3>1. \A i \in req[r].ids : books[i] = NoBook
        BY <2>1, <2>4 DEF CleanInv, CleanParts, RemovalsFollow
      <3> QED BY <2>1, <2>2, <2>4, <3>1, NoRequestType, RequestClean DEF CleanInv
    <2> QED BY <1>s, <2>3, <2>4 DEF CleanInv
  <1> QED BY <1>3, <1>4, <1>5, <1>6, <1>8, <1>9, <1>10, <1>11, <1>12 DEF HandlerStep

LEMMA WorkerSafe ==
    ASSUME FlowInv, SafeInv, NEW w \in Workers, WorkerStep(w), UNCHANGED load
    PROVE  SafeInv'
  <1>1. UNCHANGED <<req, bookFile, crashes>>
    BY DEF WorkerStep, LoadJob, MarkFailed, Refresh, SaveProcessed
  <1>2. \A i \in Books : books'[i] = NoBook => books[i] = NoBook
    <2>1. CASE MarkFailed(w) \/ \E cover \in Covers : SaveProcessed(w, cover)
      BY <2>1, SavesUsed, SaveStores
    <2>2. CASE LoadJob(w) \/ Refresh(w)
      BY <2>2 DEF LoadJob, Refresh, storeVars
    <2> QED BY <2>1, <2>2 DEF WorkerStep
  <1>3. ~ NoStaleSaves
    BY DEF SafeInv, CleanInv, CleanParts, NothingSaved, WorkerStep, LoadJob, MarkFailed, Refresh,
           SaveProcessed
  <1> QED BY <1>1, <1>2, <1>3, LeakSame DEF SafeInv, CleanInv, NoStaleSaves

LEMMA HasherSafe ==
    ASSUME FlowInv, SafeInv, HasherStep, UNCHANGED load
    PROVE  SafeInv'
  <1> USE DEF SafeInv
  <1>t. req \in [Requests -> Request] /\ bookFile \in [Books -> Hashes \cup {NoHash}]
    BY DEF FlowInv, FlowTypeOK
  <1>s. NoStaleSaves' <=> NoStaleSaves
    BY DEF NoStaleSaves
  (* What a pass begins with: records of the backlog, as they are. *)
  <1>b. ASSUME NEW ids \in SUBSET Books, \A i \in ids : books[i] # NoBook
        PROVE  \A i \in DOMAIN Snapshot(ids) :
                 i \in issued /\ (books[i] # NoBook => books[i].owner = Snapshot(ids)[i].owner)
    BY <1>b DEF Snapshot, FlowInv, StoreInv, IssuedCovers
  <1>1. CASE HashTimer
    <2> DEFINE ids == UNION {Backlog(u) : u \in Owners}
    <2>1. ids \in SUBSET Books /\ \A i \in ids : books[i] # NoBook
      BY DEF Backlog, OwnedBy
    <2>2. /\ hasher'.at = "hashing" /\ hasher'.snapshot = Snapshot(ids)
          /\ UNCHANGED <<books, issued, bookFile, coverFile, req, queue, proc, crashes>>
      BY <1>1 DEF HashTimer, storeVars
    <2>3. \A u \in Owners, j \in Books : OwnedBy(j, u) /\ books[j].hash = NoHash => j \in ids
      BY DEF Backlog
    <2> HIDE DEF ids
    <2>4. NoLeakedFile'
      BY <2>2, LeakSame
    <2>5. ASSUME NoStaleSaves PROVE CleanParts'
      <3>0. CleanParts BY <2>5 DEF CleanInv
      <3>1. NothingSaved' /\ HashesTrue' /\ RemovalsFollow' /\ ContentsDiffer'
        BY <2>2, <3>0 DEF CleanParts, NothingSaved, HashesTrue, RemovalsFollow, ContentsDiffer
      <3>2. \A r \in Requests : req[r].user \in Owners
        BY <1>t DEF Request
      <3>3. \A r \in Requests, j \in Books :
              OwnedBy(j, req[r].user) /\ books[j].hash = NoHash => j \in DOMAIN Snapshot(ids)
        BY <2>3, <3>2 DEF Snapshot
      <3>4. CaughtUp'
        BY <1>b, <2>1, <2>2, <3>0, <3>3 DEF CleanParts, CaughtUp, OwnedBy
      <3> QED BY <3>1, <3>4 DEF CleanParts
    <2> QED BY <1>s, <2>4, <2>5 DEF CleanInv
  <1>2. ASSUME NEW r \in Requests, HashFor(r) PROVE SafeInv'
    <2> DEFINE ids == Backlog(req[r].user)
               q == [req[r] EXCEPT !.at = "wait"]
    <2>1. ids \in SUBSET Books /\ \A i \in ids : books[i] # NoBook
      BY DEF Backlog, OwnedBy
    <2>2. /\ hasher'.at = "hashing" /\ hasher'.snapshot = Snapshot(ids) /\ hasher'.for = r
          /\ req[r].at = "request" /\ Goto(r, "wait")
          /\ UNCHANGED <<books, issued, bookFile, coverFile, queue, proc, crashes>>
      BY <1>2 DEF HashFor, storeVars, At
    <2>3. \A j \in Books : OwnedBy(j, req[r].user) /\ books[j].hash = NoHash => j \in DOMAIN Snapshot(ids)
      BY DEF Backlog, Snapshot
    <2>4. Becomes(r, q)
      BY <1>t, <2>2, GotoBecomes DEF Uploading
    <2>5. q.at = "wait" /\ q.id = req[r].id /\ q.user = req[r].user
      BY <1>t, RequestMoves DEF Uploading
    <2> HIDE DEF ids, q
    <2>6. NoLeakedFile'
      <3>1. \A i \in Books : Explains(req[r], i) => Explains(q, i)
        BY <2>2, <2>5, LabelsApart DEF Explains
      <3> QED BY <2>2, <2>4, <3>1, LeakKept
    <2>7. ASSUME NoStaleSaves PROVE CleanParts'
      <3>0. CleanParts BY <2>7 DEF CleanInv
      <3>1. Settles BY <2>2, SettlesSame
      <3>2. NothingSaved'
        BY <2>2, <2>4, <2>5, <3>0, QueuesKept DEF CleanParts
      <3>3. RemovalsFollow'
        BY <2>4, <2>5, <3>0, <3>1, RemovalsKept DEF CleanParts
      <3>4. HashesTrue' /\ ContentsDiffer'
        BY <2>2, <3>0, FileElsewhere DEF CleanParts
      <3>5. CaughtUp'
        <4>1. \A s \in Requests : req'[s].at \in {"findAgain", "create"} => s # r /\ req'[s] = req[s]
          BY <2>4, <2>5 DEF Becomes
        <4>2. \A s \in Requests : s = hasher'.for => req'[s].user = req[r].user
          BY <2>2, <2>4, <2>5 DEF Becomes
        <4> QED BY <1>b, <2>1, <2>2, <2>3, <3>0, <4>1, <4>2 DEF CleanParts, CaughtUp, OwnedBy
      <3> QED BY <3>2, <3>3, <3>4, <3>5 DEF CleanParts
    <2> QED BY <1>s, <2>6, <2>7 DEF CleanInv
  <1>3. CASE HashCommit
    <2>1. /\ hasher.at = "hashing" /\ hasher'.at = "idle"
          /\ UNCHANGED <<issued, bookFile, coverFile, queue, proc, crashes>>
      BY <1>3 DEF HashCommit, Backfill, IdleHasher
    <2>2. Tame BY <1>3, HashCommitTame
    <2>p. \A i \in Books : books'[i] = NoBook => books[i] = NoBook
      BY <2>2 DEF Tame
    <2>3. CASE hasher.for \in Requests /\ At(hasher.for, "wait")
      <3> DEFINE r == hasher.for
                 q == [req[r] EXCEPT !.at = "findAgain"]
      <3>1. Becomes(r, q)
        BY <1>3, <1>t, <2>3, GotoBecomes DEF HashCommit, Uploading
      <3>2. q.at = "findAgain" /\ q.id = req[r].id /\ q.user = req[r].user
        BY <1>t, <2>3, RequestMoves DEF Uploading
      <3>3. r \in Requests /\ req[r].at = "wait"
        BY <2>3 DEF At
      <3>r. r = hasher.for OBVIOUS
      <3> HIDE DEF q, r
      <3>4. NoLeakedFile'
        <4>1. \A i \in Books : Explains(req[r], i) => Explains(q, i)
          BY <3>2, <3>3, LabelsApart DEF Explains
        <4> QED BY <2>1, <2>p, <3>1, <3>3, <4>1, LeakKept
      <3>5. ASSUME NoStaleSaves PROVE CleanParts'
        <4>0. CleanParts BY <3>5 DEF CleanInv
        <4>f. \A i \in Books : books[i] # NoBook => bookFile[i] # NoHash
          BY <4>0 DEF CleanParts, HashesTrue
        <4>1. Settles BY <2>1, <2>2, <4>f, TameSettles
        <4>2. NothingSaved'
          BY <2>1, <3>1, <3>2, <3>3, <4>0, QueuesKept DEF CleanParts
        <4>3. RemovalsFollow'
          BY <3>1, <3>2, <3>3, <4>0, <4>1, RemovalsKept DEF CleanParts
        <4>4. HashesTrue' /\ ContentsDiffer'
          BY <2>1, <2>2, <4>0, TameRecords DEF CleanParts
        <4>5. ASSUME NEW j \in Books, books'[j] # NoBook, books'[j].owner = req[r].user
              PROVE  books'[j].hash # NoHash
          <5>1. SUFFICES ASSUME books[j].hash = NoHash PROVE books'[j].hash # NoHash
            BY <4>1, <4>5 DEF Settles
          <5>2. OwnedBy(j, req[r].user) /\ bookFile[j] # NoHash
            BY <2>2, <4>5, <4>f DEF Tame, OwnedBy
          <5>3. j \in DOMAIN hasher.snapshot /\ books[j].owner = hasher.snapshot[j].owner
            BY <2>1, <3>3, <3>r, <4>0, <5>1, <5>2 DEF CleanParts, CaughtUp, OwnedBy
          <5> QED BY <1>3, <5>2, <5>3, HashCommitTame DEF OwnedBy
        <4>6. \A s \in Requests \ {r}, j \in Books :
                req'[s].at \in {"findAgain", "create"} /\ books'[j] # NoBook /\ books'[j].owner = req'[s].user
                => books'[j].hash # NoHash
          BY <3>1, <4>0, <4>1 DEF CleanParts, CaughtUp, Settles, Becomes, OwnedBy
        <4>7. CaughtUp'
          BY <2>1, <3>1, <3>2, <4>5, <4>6 DEF CaughtUp, OwnedBy, Becomes
        <4> QED BY <4>2, <4>3, <4>4, <4>7 DEF CleanParts
      <3> QED BY <1>s, <3>4, <3>5 DEF CleanInv
    <2>4. CASE ~ (hasher.for \in Requests /\ At(hasher.for, "wait"))
      <3>1. UNCHANGED req
        BY <1>3, <2>4 DEF HashCommit
      <3>2. NoLeakedFile'
        BY <2>1, <2>p, <3>1, LeakSame
      <3>3. ASSUME NoStaleSaves PROVE CleanParts'
        <4>0. CleanParts BY <3>3 DEF CleanInv
        <4>f. \A i \in Books : books[i] # NoBook => bookFile[i] # NoHash
          BY <4>0 DEF CleanParts, HashesTrue
        <4>1. Settles BY <2>1, <2>2, <4>f, TameSettles
        <4>2. NothingSaved'
          BY <2>1, <3>1, <4>0 DEF CleanParts, NothingSaved
        <4>3. RemovalsFollow'
          BY <3>1, <4>0, <4>1 DEF CleanParts, RemovalsFollow, Settles, FlowInv, CopiesOwned
        <4>4. HashesTrue' /\ ContentsDiffer'
          BY <2>1, <2>2, <4>0, TameRecords DEF CleanParts
        <4>5. CaughtUp'
          BY <2>1, <3>1, <4>0, <4>1 DEF CleanParts, CaughtUp, Settles, OwnedBy
        <4> QED BY <4>2, <4>3, <4>4, <4>5 DEF CleanParts
      <3> QED BY <1>s, <3>2, <3>3 DEF CleanInv
    <2> QED BY <2>3, <2>4
  <1> QED BY <1>1, <1>2, <1>3 DEF HasherStep

(* A crash may leave a file behind, but no record without one. *)
LEMMA CrashSafe ==
    ASSUME FlowInv, SafeInv, Crash, UNCHANGED load
    PROVE  SafeInv'
  <1>1. /\ req' = [r \in Requests |-> NoRequest] /\ queue' = <<>>
        /\ proc' = [w \in Workers |-> NoJob] /\ hasher'.at = "idle"
        /\ UNCHANGED <<books, issued, bookFile, coverFile>> /\ crashes' = crashes + 1
    BY DEF Crash, IdleHasher, storeVars
  <1>2. NoLeakedFile'
    BY <1>1 DEF NoLeakedFile, FlowInv, FlowTypeOK
  <1>3. ASSUME NoStaleSaves PROVE CleanParts'
    <2>0. CleanParts BY <1>3 DEF SafeInv, CleanInv
    <2>1. HashesTrue' /\ ContentsDiffer'
      BY <1>1, <2>0, FileElsewhere DEF CleanParts
    <2>2. NothingSaved'
      BY <1>1, NoRequestType DEF NothingSaved, NoJob
    <2>3. RemovalsFollow' /\ CaughtUp'
      BY <1>1, NoRequestType DEF RemovalsFollow, CaughtUp
    <2> QED BY <2>1, <2>2, <2>3 DEF CleanParts
  <1> QED BY <1>2, <1>3 DEF SafeInv, CleanInv, NoStaleSaves

LEMMA SafeStepInv == FlowInv /\ SafeInv /\ [Next]_vars => SafeInv'
  <1> SUFFICES ASSUME FlowInv, SafeInv, [Next]_vars PROVE SafeInv'
    OBVIOUS
  <1>1. CASE Next
    BY <1>1, NewRequestSafe, HandlerSafe, WorkerSafe, HasherSafe, CrashSafe DEF Next
  <1>2. CASE UNCHANGED vars
    BY <1>2 DEF vars, storeVars, flowVars, SafeInv, NoLeakedFile, CleanInv, CleanParts, NothingSaved,
                HashesTrue, RemovalsFollow, CaughtUp, ContentsDiffer, OwnedBy, NoStaleSaves
  <1> QED BY <1>1, <1>2

LEMMA SafeInitInv == Init => SafeInv
  <1> SUFFICES ASSUME Init PROVE SafeInv
    OBVIOUS
  <1>1. PICK u \in Users : books = [i \in Books |-> IF i \in load.legacy THEN LegacyBook(u) ELSE NoBook]
    BY DEF Init
  <1>2. LegacyBook(u) \in Book /\ LegacyBook(u).hash = NoHash
    BY InfoAssumption DEF LegacyBook, Book, Owners, Titles, Covers, States
  <1>3. \A i \in Books : books[i] # NoBook <=> i \in load.legacy
    BY <1>1, <1>2, RecordAssumption
  <1>4. \A i \in Books : books[i] # NoBook => books[i].hash = NoHash /\ bookFile[i] # NoHash
    BY <1>1, <1>2, <1>3 DEF Init
  <1>5. NoLeakedFile
    BY <1>3 DEF NoLeakedFile, Init
  <1>6. NothingSaved /\ RemovalsFollow /\ CaughtUp
    BY NoRequestType DEF NothingSaved, RemovalsFollow, CaughtUp, Init, NoJob, IdleHasher
  <1>7. HashesTrue /\ ContentsDiffer
    BY <1>3, <1>4 DEF HashesTrue, ContentsDiffer
  <1> QED BY <1>5, <1>6, <1>7 DEF SafeInv, CleanInv, CleanParts

LEMMA FlowInvariant == Spec => [](FlowInv /\ SafeInv)
  <1>1. Init => FlowInv /\ SafeInv BY FlowInitInv, SafeInitInv
  <1>2. FlowInv /\ SafeInv /\ [Next]_vars => (FlowInv /\ SafeInv)'
    BY FlowStepInv, SafeStepInv
  <1> QED BY <1>1, <1>2, PTL DEF Spec

(* Records and files stay together, in both directions, whatever handlers, *)
(* workers and restarts do in between (Upload, Delete, BatchDelete): every *)
(* book in the library can be opened unless a copy read before a deletion  *)
(* was saved after it, and only a crash leaves a file nobody answers for.  *)
THEOREM FlowFilesMatchRecords == Spec => []FilesMatchRecords
  <1>1. SafeInv => FilesMatchRecords
    BY DEF SafeInv, CleanInv, CleanParts, HashesTrue, FilesMatchRecords, RecordHasFile
  <1> QED BY <1>1, FlowInvariant, PTL

(* No order of uploads, deletions, passes of the hash worker and restarts  *)
(* gives a user the same content twice (findDuplicateBook, CreateBook).    *)
THEOREM FlowUploadsUnique == Spec => []UploadsUnique
  <1>1. SafeInv => UploadsUnique
    BY DEF SafeInv, CleanInv, CleanParts, ContentsDiffer, UploadsUnique
  <1> QED BY <1>1, FlowInvariant, PTL

(* The hash worker commits from an old snapshot and loses nothing that was *)
(* written since (RefreshMissingBookHashes).                               *)
THEOREM FlowBackfillKeepsEdits == Spec => BackfillKeepsEdits
  <1> DEFINE Kept == hasher.at = "hashing" /\ hasher'.at = "idle" /\ crashes' = crashes =>
                       \A i \in Books :
                         \/ books'[i] = books[i]
                         \/ /\ Unhashed(i)
                            /\ books'[i] = [books[i] EXCEPT !.hash = bookFile[i]]
  <1>1. FlowInv /\ [Next]_vars => [Kept]_vars
    <2> SUFFICES ASSUME FlowInv, Next, hasher.at = "hashing", hasher'.at = "idle", crashes' = crashes,
                        NEW i \in Books
                 PROVE  \/ books'[i] = books[i]
                        \/ /\ Unhashed(i)
                           /\ books'[i] = [books[i] EXCEPT !.hash = bookFile[i]]
      OBVIOUS
    <2>1. CASE HashCommit
      BY <2>1, HashCommitTame DEF Unhashed
    <2>2. CASE HashTimer \/ \E r \in Requests : HashFor(r)
      BY <2>2 DEF HashTimer, HashFor
    <2>3. CASE Crash
      BY <2>3 DEF Crash, FlowInv, FlowTypeOK
    <2>4. NewRequest => UNCHANGED hasher
      BY DEF NewRequest, UploadWrite, ReadBook, BatchDelete, BatchUpdateCategory, RenameBookCategory,
             SaveProgress, flowVars
    <2>5. ASSUME NEW r \in Requests, HandlerStep(r) PROVE UNCHANGED hasher
      BY <2>5 DEF HandlerStep, UploadFind, UploadCatchUp, UploadCreate, UploadRefused, UploadEnqueue,
             Update, RemoveCategory, SaveCover, DeleteBook, DeleteNotFound, RemoveFiles
    <2>6. ASSUME NEW w \in Workers, WorkerStep(w) PROVE UNCHANGED hasher
      BY <2>6 DEF WorkerStep, LoadJob, MarkFailed, Refresh, SaveProcessed
    <2> QED BY <2>1, <2>2, <2>3, <2>4, <2>5, <2>6 DEF Next, HasherStep
  <1>2. Spec => []FlowInv BY FlowInvariant, PTL
  <1> QED BY <1>1, <1>2, PTL DEF Spec, BackfillKeepsEdits
=============================================================================
