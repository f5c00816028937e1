----------------------------- MODULE BookStore -----------------------------
(***************************************************************************)
(* What backend/storage promises its callers: a library of book records,   *)
(* one reading position per owner and book, and bookmarks.  Every          *)
(* operation is one bbolt write transaction, so it is one atomic action;   *)
(* an operation that returns an error rolls back and is no step at all.    *)
(*                                                                         *)
(* Nothing is said here about the secondary indexes.  An operation that    *)
(* the code answers from an index is stated as a scan of the records;      *)
(* module Library keeps the indexes and is shown to implement this module. *)
(***************************************************************************)
EXTENDS Naturals

CONSTANTS
    Users,          \* accounts
    NoUser,         \* the empty owner of records written before accounts existed
    Books,          \* book ids; bbolt keeps keys in byte order, so ids are ordered
    NoBook,         \* no record under this id
    Infos,          \* title, author, cover and processing state of a record
    Hashes,         \* content hashes (sha256 of the stored file)
    NoHash,         \* the empty hash of a record not hashed yet
    Categories,     \* category names after trimming
    NoCategory,     \* nil: uncategorised
    RawCategories,  \* category values a client may send
    Trim,           \* what normalizeCategoryName makes of a raw value
    Times,          \* wall clock readings of progress writes
    NoTime,         \* nil: never read
    Marks           \* bookmark ids

ASSUME OwnerAssumption == NoUser \notin Users
ASSUME IdAssumption == Books \subseteq Nat /\ NoBook \notin Nat
ASSUME HashAssumption == NoHash \notin Hashes
ASSUME CategoryAssumption ==
    /\ NoCategory \notin Categories
    /\ Trim \in [RawCategories -> Categories \cup {NoCategory}]
    /\ \A c \in Categories \cup {NoCategory} : c \in RawCategories /\ Trim[c] = c
ASSUME TimeAssumption == NoTime \notin Times

Owners == Users \cup {NoUser}

(* models.Book; the fields no index reads are kept together in info. *)
Book == [owner    : Owners,
         info     : Infos,
         category : Categories \cup {NoCategory},
         hash     : Hashes \cup {NoHash},
         lastRead : Times \cup {NoTime}]

(* A book as a handler passes it, its category not trimmed yet. *)
RawBook == [owner    : Owners,
            info     : Infos,
            category : RawCategories,
            hash     : Hashes \cup {NoHash},
            lastRead : Times \cup {NoTime}]

ASSUME RecordAssumption == NoBook \notin Book

VARIABLES
    books,      \* BooksBucket: id -> record
    progress,   \* ProgressBucket: <<owner, id>> -> UpdatedAt of the position
    bookmarks,  \* BookmarksBucket: keys <<user, id, bookmark>>
    issued      \* ids handed out so far: uuid.New never repeats one

storeVars == <<books, progress, bookmarks, issued>>

(* Every record satisfies its type; the three buckets hold nothing else.   *)
StoreTypeOK ==
    /\ books \in [Books -> Book \cup {NoBook}]
    /\ progress \in [Owners \X Books -> Times \cup {NoTime}]
    /\ bookmarks \subseteq Users \X Books \X Marks
    /\ issued \subseteq Books

-----------------------------------------------------------------------------

Normalized(b) == [b EXCEPT !.category = Trim[b.category]]

OwnedBy(i, u) == books[i] # NoBook /\ books[i].owner = u

(* A database written by an older version: records may lack an owner or a  *)
(* hash and may duplicate each other's content.  Progress belongs to a     *)
(* stored book of the same owner; bookmarks came with accounts.            *)
StoreInit ==
    /\ books \in [Books -> Book \cup {NoBook}]
    /\ progress \in [Owners \X Books -> Times \cup {NoTime}]
    /\ \A k \in Owners \X Books : progress[k] # NoTime => OwnedBy(k[2], k[1])
    /\ bookmarks = {}
    /\ issued = {i \in Books : books[i] # NoBook}

(* Uploading takes a fresh id and refuses content its owner already has. *)
Create(i, b) ==
    /\ i \notin issued
    /\ issued' = issued \cup {i}
    /\ b.owner \in Users
    /\ b.hash # NoHash =>
         ~ \E j \in Books \ {i} : OwnedBy(j, b.owner) /\ books[j].hash = b.hash
    /\ books' = [books EXCEPT ![i] = Normalized(b)]
    /\ UNCHANGED <<progress, bookmarks>>

(* SaveBook writes a whole record that its caller read in an earlier       *)
(* transaction, whether or not a record is still there.  Callers never     *)
(* hand a book to another owner.                                           *)
Save(i, b) ==
    /\ i \in issued
    /\ b.owner \in Users
    /\ books[i] # NoBook => books[i].owner = b.owner
    /\ books' = [books EXCEPT ![i] = Normalized(b)]
    /\ UNCHANGED <<progress, bookmarks, issued>>

(* One id or a batch: all of them or, when one is missing, none. *)
Delete(ids, u) ==
    /\ ids # {}
    /\ \A i \in ids : OwnedBy(i, u)
    /\ books' = [i \in Books |-> IF i \in ids THEN NoBook ELSE books[i]]
    /\ progress' = [k \in Owners \X Books |->
                      IF k[1] = u /\ k[2] \in ids THEN NoTime ELSE progress[k]]
    /\ bookmarks' = {m \in bookmarks : ~ (m[1] = u /\ m[2] \in ids)}
    /\ UNCHANGED issued

WithCategory(ids, c) ==
    [i \in Books |-> IF i \in ids THEN [books[i] EXCEPT !.category = c]
                                  ELSE books[i]]

Recategorize(ids, u, raw) ==
    /\ ids # {}
    /\ \A i \in ids : OwnedBy(i, u)
    /\ books' = WithCategory(ids, Trim[raw])
    /\ UNCHANGED <<progress, bookmarks, issued>>

(* Every book of the owner in the category, found by scanning the records. *)
RenameCategory(u, from, raw) ==
    /\ from \in Categories
    /\ books' = WithCategory({i \in Books : OwnedBy(i, u) /\ books[i].category = from},
                             Trim[raw])
    /\ UNCHANGED <<progress, bookmarks, issued>>

(* hashes[i] is what the worker computed for the snapshot <<owner, hash>>; *)
(* a record that was deleted, transferred or hashed meanwhile is skipped.  *)
Refreshable(hashes) ==
    {i \in DOMAIN hashes : OwnedBy(i, hashes[i].owner) /\ books[i].hash = NoHash}

\* Mutant: the snapshot that was hashed is written back whole.
BackfillSnapshots(hashes) ==
    /\ books' = [i \in Books |-> IF i \in DOMAIN hashes THEN hashes[i] ELSE books[i]]
    /\ UNCHANGED <<progress, bookmarks, issued>>

Backfill(hashes) ==
    /\ books' = [i \in Books |->
                   IF i \in Refreshable(hashes)
                   THEN [books[i] EXCEPT !.hash = hashes[i].hash]
                   ELSE books[i]]
    /\ UNCHANGED <<progress, bookmarks, issued>>

(* expected = NoTime stands for a request without expected_updated_at. *)
RecordProgress(i, u, t, expected) ==
    /\ OwnedBy(i, u)
    /\ expected # NoTime => progress[<<u, i>>] = expected
    /\ books' = [books EXCEPT ![i].lastRead = t]
    /\ progress' = [progress EXCEPT ![<<u, i>>] = t]
    /\ UNCHANGED <<bookmarks, issued>>

AddBookmark(i, u, m) ==
    /\ OwnedBy(i, u)
    /\ bookmarks' = bookmarks \cup {<<u, i, m>>}
    /\ UNCHANGED <<books, progress, issued>>

RemoveBookmark(i, u, m) ==
    /\ OwnedBy(i, u)
    /\ <<u, i, m>> \in bookmarks
    /\ bookmarks' = bookmarks \ {<<u, i, m>>}
    /\ UNCHANGED <<books, progress, issued>>

(* The first account takes over everything that has no owner. *)
AdoptUnowned(u) ==
    /\ books' = [i \in Books |->
                   IF OwnedBy(i, NoUser) THEN [books[i] EXCEPT !.owner = u]
                                         ELSE books[i]]
    /\ progress' = [k \in Owners \X Books |->
                      CASE k[1] = NoUser -> NoTime
                        [] k[1] = u /\ progress[<<NoUser, k[2]>>] # NoTime
                             -> progress[<<NoUser, k[2]>>]
                        [] OTHER -> progress[k]]
    /\ UNCHANGED <<bookmarks, issued>>

Snapshots == [owner : Owners, hash : Hashes]

StoreNext ==
    \/ \E i \in Books, b \in RawBook : Create(i, b)
    \/ \E i \in Books, b \in RawBook : Save(i, b)
    \/ \E ids \in SUBSET Books, u \in Users : Delete(ids, u)
    \/ \E ids \in SUBSET Books, u \in Users, raw \in RawCategories :
         Recategorize(ids, u, raw)
    \/ \E u \in Users, from \in Categories, raw \in RawCategories :
         RenameCategory(u, from, raw)
    \/ \E ids \in SUBSET Books : \E hashes \in [ids -> Snapshots] :
         Backfill(hashes)
    \/ \E i \in Books, u \in Users, t \in Times, expected \in Times \cup {NoTime} :
         RecordProgress(i, u, t, expected)
    \/ \E i \in Books, u \in Users, m \in Marks : AddBookmark(i, u, m)
    \/ \E i \in Books, u \in Users, m \in Marks : RemoveBookmark(i, u, m)
    \/ \E u \in Users : AdoptUnowned(u)

StoreSpec == StoreInit /\ [][StoreNext]_storeVars

-----------------------------------------------------------------------------

(* Reading state never outlives its book or changes hands: a position or   *)
(* a bookmark always belongs to a stored book of the same owner, whatever  *)
(* order of deletes, stale saves and late progress writes occurs           *)
(* (deleteBookDataInTx, SaveProgressIfCurrent, SaveBookmark).              *)
NoOrphans ==
    /\ \A k \in Owners \X Books : progress[k] # NoTime => OwnedBy(k[2], k[1])
    /\ \A m \in bookmarks : OwnedBy(m[2], m[1])
=============================================================================
