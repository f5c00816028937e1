-------------------------- MODULE BookStoreProofs --------------------------
(***************************************************************************)
(* What the storage promises, for every number of users, books, hashes,    *)
(* categories, times and bookmarks.                                        *)
(***************************************************************************)
EXTENDS BookStore, TLAPS

(* An id in the bucket was handed out before: the part of the invariant    *)
(* that keeps an upload from landing on somebody's record.                 *)
IssuedCovers == \A i \in Books : books[i] # NoBook => i \in issued

StoreInv == StoreTypeOK /\ IssuedCovers /\ NoOrphans

-----------------------------------------------------------------------------

(* What a handler passes becomes a well formed record once trimmed. *)
LEMMA NormalizedType ==
    ASSUME NEW b \in RawBook
    PROVE  /\ Normalized(b) \in Book
           /\ Normalized(b).owner = b.owner
           /\ Normalized(b) # NoBook
  <1>1. Trim[b.category] \in Categories \cup {NoCategory}
    BY CategoryAssumption DEF RawBook
  <1>2. Normalized(b) \in Book /\ Normalized(b).owner = b.owner
    BY <1>1 DEF Normalized, RawBook, Book
  <1> QED BY <1>2, RecordAssumption

(* Changing one field of a record leaves a record of the same owner. *)
LEMMA FieldUpdates ==
    ASSUME NEW b \in Book
    PROVE  /\ \A c \in Categories \cup {NoCategory} :
                /\ [b EXCEPT !.category = c] \in Book
                /\ [b EXCEPT !.category = c].owner = b.owner
           /\ \A h \in Hashes \cup {NoHash} :
                /\ [b EXCEPT !.hash = h] \in Book
                /\ [b EXCEPT !.hash = h].owner = b.owner
           /\ \A t \in Times \cup {NoTime} :
                /\ [b EXCEPT !.lastRead = t] \in Book
                /\ [b EXCEPT !.lastRead = t].owner = b.owner
           /\ \A u \in Owners :
                /\ [b EXCEPT !.owner = u] \in Book
                /\ [b EXCEPT !.owner = u].owner = u
  BY DEF Book

LEMMA TrimType == \A raw \in RawCategories : Trim[raw] \in Categories \cup {NoCategory}
  BY CategoryAssumption

LEMMA StoreInitInv == StoreInit => StoreInv
  BY DEF StoreInit, StoreInv, StoreTypeOK, IssuedCovers, NoOrphans

(* Moving books between categories changes no owner. *)
LEMMA WithCategoryInv ==
    ASSUME StoreInv, NEW ids \in SUBSET Books, NEW u \in Users,
           \A i \in ids : OwnedBy(i, u),
           NEW c \in Categories \cup {NoCategory},
           books' = WithCategory(ids, c),
           UNCHANGED <<progress, bookmarks, issued>>
    PROVE  StoreInv'
  <1> USE DEF StoreInv
  <1>1. \A i \in ids : books[i] \in Book
    BY DEF OwnedBy, StoreTypeOK
  <1>2. \A i \in ids : books'[i] \in Book /\ books'[i].owner = books[i].owner
    BY <1>1, FieldUpdates DEF WithCategory
  <1>3. \A i \in Books \ ids : books'[i] = books[i]
    BY DEF WithCategory
  <1>4. books' \in [Books -> Book \cup {NoBook}]
    BY <1>2, <1>3 DEF WithCategory, StoreTypeOK
  <1>5. \A i \in Books, v \in Owners : OwnedBy(i, v) <=> OwnedBy(i, v)'
    BY <1>1, <1>2, <1>3, RecordAssumption DEF OwnedBy
  <1>6. StoreTypeOK' BY <1>4 DEF StoreTypeOK
  <1>7. IssuedCovers'
    BY <1>1, <1>2, <1>3, RecordAssumption DEF IssuedCovers
  <1>8. NoOrphans'
    BY <1>5 DEF NoOrphans, StoreTypeOK, Owners
  <1> QED BY <1>6, <1>7, <1>8

LEMMA StoreStepInv == StoreInv /\ [StoreNext]_storeVars => StoreInv'
  <1> SUFFICES ASSUME StoreInv, [StoreNext]_storeVars PROVE StoreInv'
    OBVIOUS
  <1> USE DEF StoreInv
  <1>1. ASSUME NEW i \in Books, NEW b \in RawBook, Create(i, b) PROVE StoreInv'
    <2>1. books' = [books EXCEPT ![i] = Normalized(b)] /\ i \notin issued
      BY <1>1 DEF Create
    <2>2. books[i] = NoBook BY <2>1 DEF IssuedCovers
    <2>3. \A j \in Books, v \in Owners : OwnedBy(j, v) => OwnedBy(j, v)'
      BY <2>1, <2>2 DEF OwnedBy, StoreTypeOK
    <2>4. StoreTypeOK'
      BY <1>1, <2>1, NormalizedType DEF StoreTypeOK, Create
    <2>5. IssuedCovers'
      BY <1>1, <2>1 DEF IssuedCovers, Create, StoreTypeOK
    <2>6. NoOrphans'
      BY <1>1, <2>3 DEF NoOrphans, Create, StoreTypeOK, Owners
    <2> QED BY <2>4, <2>5, <2>6
  <1>2. ASSUME NEW i \in Books, NEW b \in RawBook, Save(i, b) PROVE StoreInv'
    <2>1. /\ books' = [books EXCEPT ![i] = Normalized(b)]
          /\ books[i] # NoBook => books[i].owner = b.owner
      BY <1>2 DEF Save
    <2>3. \A j \in Books, v \in Owners : OwnedBy(j, v) => OwnedBy(j, v)'
      BY <2>1, NormalizedType DEF OwnedBy, StoreTypeOK
    <2>4. StoreTypeOK'
      BY <1>2, <2>1, NormalizedType DEF StoreTypeOK, Save
    <2>5. IssuedCovers'
      BY <1>2, <2>1 DEF IssuedCovers, Save, StoreTypeOK
    <2>6. NoOrphans'
      BY <1>2, <2>3 DEF NoOrphans, Save, StoreTypeOK, Owners
    <2> QED BY <2>4, <2>5, <2>6
  <1>3. ASSUME NEW ids \in SUBSET Books, NEW u \in Users, Delete(ids, u) PROVE StoreInv'
    <2>1. \A i \in Books : books'[i] = IF i \in ids THEN NoBook ELSE books[i]
      BY <1>3 DEF Delete
    <2>2. \A i \in ids : books[i].owner = u
      BY <1>3 DEF Delete, OwnedBy
    <2>3. \A j \in Books \ ids, v \in Owners : OwnedBy(j, v) => OwnedBy(j, v)'
      BY <2>1 DEF OwnedBy
    <2>4. StoreTypeOK'
      <3>1. books' \in [Books -> Book \cup {NoBook}]
        BY <1>3 DEF StoreTypeOK, Delete
      <3>2. progress' \in [Owners \X Books -> Times \cup {NoTime}]
        BY <1>3 DEF StoreTypeOK, Delete
      <3> QED BY <1>3, <3>1, <3>2 DEF StoreTypeOK, Delete
    <2>5. IssuedCovers'
      BY <1>3, <2>1 DEF IssuedCovers, Delete
    <2>6. ASSUME NEW k \in Owners \X Books, progress'[k] # NoTime PROVE OwnedBy(k[2], k[1])'
      <3>1. progress'[k] = IF k[1] = u /\ k[2] \in ids THEN NoTime ELSE progress[k]
        BY <1>3 DEF Delete
      <3>2. OwnedBy(k[2], k[1]) BY <2>6, <3>1 DEF NoOrphans
      <3>3. k[2] \notin ids BY <2>2, <2>6, <3>1, <3>2 DEF OwnedBy
      <3> QED BY <2>3, <3>2, <3>3
    <2>7. ASSUME NEW m \in bookmarks' PROVE OwnedBy(m[2], m[1])'
      <3>1. m \in bookmarks /\ ~ (m[1] = u /\ m[2] \in ids)
        BY <1>3 DEF Delete
      <3>2. OwnedBy(m[2], m[1]) BY <3>1 DEF NoOrphans
      <3>3. m[2] \notin ids BY <2>2, <3>1, <3>2 DEF OwnedBy
      <3> QED BY <2>3, <3>1, <3>2, <3>3 DEF StoreTypeOK, Owners
    <2> QED BY <2>4, <2>5, <2>6, <2>7 DEF NoOrphans
  <1>4. ASSUME NEW ids \in SUBSET Books, NEW u \in Users, NEW raw \in RawCategories,
               Recategorize(ids, u, raw)
        PROVE  StoreInv'
    BY <1>4, WithCategoryInv, TrimType DEF Recategorize
  <1>5. ASSUME NEW u \in Users, NEW from \in Categories, NEW raw \in RawCategories,
               RenameCategory(u, from, raw)
        PROVE  StoreInv'
    <2> DEFINE ids == {i \in Books : OwnedBy(i, u) /\ books[i].category = from}
    <2> QED BY <1>5, WithCategoryInv, TrimType DEF RenameCategory
  <1>6. ASSUME NEW ids \in SUBSET Books, NEW hashes \in [ids -> Snapshots],
               Backfill(hashes)
        PROVE  StoreInv'
    <2>1. \A i \in Refreshable(hashes) : /\ i \in Books /\ books[i] \in Book
                                         /\ hashes[i].hash \in Hashes
      BY DEF Refreshable, OwnedBy, Snapshots, StoreTypeOK
    <2>2. \A i \in Refreshable(hashes) :
            books'[i] \in Book /\ books'[i].owner = books[i].owner
      BY <1>6, <2>1, FieldUpdates DEF Backfill
    <2>3. \A i \in Books \ Refreshable(hashes) : books'[i] = books[i]
      BY <1>6 DEF Backfill
    <2>4. StoreTypeOK'
      <3>1. books' \in [Books -> Book \cup {NoBook}]
        BY <1>6, <2>2, <2>3 DEF Backfill, StoreTypeOK
      <3> QED BY <1>6, <3>1 DEF Backfill, StoreTypeOK
    <2>5. \A i \in Books, v \in Owners : OwnedBy(i, v) <=> OwnedBy(i, v)'
      BY <2>1, <2>2, <2>3, RecordAssumption DEF OwnedBy
    <2>6. IssuedCovers'
      BY <1>6, <2>1, <2>2, <2>3, RecordAssumption DEF IssuedCovers, Backfill
    <2>7. NoOrphans'
      BY <1>6, <2>5 DEF NoOrphans, Backfill, StoreTypeOK, Owners
    <2> QED BY <2>4, <2>6, <2>7
  <1>7. ASSUME NEW i \in Books, NEW u \in Users, NEW t \in Times,
               NEW expected \in Times \cup {NoTime}, RecordProgress(i, u, t, expected)
        PROVE  StoreInv'
    <2>1. /\ books[i] \in Book
          /\ books[i].owner = u
          /\ books' = [books EXCEPT ![i] = [books[i] EXCEPT !.lastRead = t]]
          /\ progress' = [progress EXCEPT ![<<u, i>>] = t]
          /\ UNCHANGED <<bookmarks, issued>>
      BY <1>7 DEF RecordProgress, OwnedBy, StoreTypeOK
    <2>2. books'[i] \in Book /\ books'[i].owner = u
      BY <2>1, FieldUpdates DEF StoreTypeOK
    <2>3. \A j \in Books \ {i} : books'[j] = books[j]
      BY <2>1 DEF StoreTypeOK
    <2>4. StoreTypeOK'
      BY <2>1, <2>2, FieldUpdates DEF StoreTypeOK, Owners
    <2>5. \A j \in Books, v \in Owners : OwnedBy(j, v) <=> OwnedBy(j, v)'
      BY <2>1, <2>2, <2>3, RecordAssumption DEF OwnedBy
    <2>6. IssuedCovers'
      BY <2>1, <2>2, <2>3, RecordAssumption DEF IssuedCovers
    <2>7. ASSUME NEW k \in Owners \X Books, progress'[k] # NoTime PROVE OwnedBy(k[2], k[1])'
      <3>1. CASE k = <<u, i>>
        BY <2>2, <3>1, RecordAssumption DEF OwnedBy
      <3>2. CASE k # <<u, i>>
        BY <2>1, <2>5, <2>7, <3>2 DEF NoOrphans, StoreTypeOK
      <3> QED BY <3>1, <3>2
    <2>8. \A m \in bookmarks' : OwnedBy(m[2], m[1])'
      BY <2>1, <2>5 DEF NoOrphans, StoreTypeOK, Owners
    <2> QED BY <2>4, <2>6, <2>7, <2>8 DEF NoOrphans
  <1>8. ASSUME NEW i \in Books, NEW u \in Users, NEW m \in Marks, AddBookmark(i, u, m)
        PROVE  StoreInv'
    BY <1>8 DEF AddBookmark, StoreTypeOK, IssuedCovers, NoOrphans, OwnedBy
  <1>9. ASSUME NEW i \in Books, NEW u \in Users, NEW m \in Marks, RemoveBookmark(i, u, m)
        PROVE  StoreInv'
    BY <1>9 DEF RemoveBookmark, StoreTypeOK, IssuedCovers, NoOrphans, OwnedBy
  <1>10. ASSUME NEW u \in Users, AdoptUnowned(u) PROVE StoreInv'
    <2>1. \A i \in Books : OwnedBy(i, NoUser) =>
            books[i] \in Book /\ books'[i] \in Book /\ books'[i].owner = u
      BY <1>10, FieldUpdates DEF AdoptUnowned, StoreTypeOK, OwnedBy, Owners
    <2>2. \A i \in Books : ~ OwnedBy(i, NoUser) => books'[i] = books[i]
      BY <1>10 DEF AdoptUnowned
    <2>3. \A i \in Books, v \in Users : OwnedBy(i, v) => OwnedBy(i, v)'
      BY <2>2, OwnerAssumption DEF OwnedBy
    <2>4. \A k \in Owners \X Books :
            progress'[k] = CASE k[1] = NoUser -> NoTime
                             [] k[1] = u /\ progress[<<NoUser, k[2]>>] # NoTime
                                  -> progress[<<NoUser, k[2]>>]
                             [] OTHER -> progress[k]
      BY <1>10 DEF AdoptUnowned
    <2>5. StoreTypeOK'
      <3>1. books' \in [Books -> Book \cup {NoBook}]
        <4>1. \A i \in Books : books'[i] \in Book \cup {NoBook}
          BY <2>1, <2>2 DEF StoreTypeOK
        <4>2. books' = [i \in Books |-> books'[i]]
          BY <1>10 DEF AdoptUnowned
        <4> QED BY <4>1, <4>2
      <3>2. progress' \in [Owners \X Books -> Times \cup {NoTime}]
        <4>1. \A k \in Owners \X Books : progress'[k] \in Times \cup {NoTime}
          BY <2>4 DEF StoreTypeOK, Owners
        <4>2. progress' = [k \in Owners \X Books |-> progress'[k]]
          BY <1>10 DEF AdoptUnowned
        <4> QED BY <4>1, <4>2
      <3> QED BY <1>10, <3>1, <3>2 DEF AdoptUnowned, StoreTypeOK
    <2>6. IssuedCovers'
      BY <1>10, <2>1, <2>2, RecordAssumption DEF IssuedCovers, AdoptUnowned
    <2>7. ASSUME NEW k \in Owners \X Books, progress'[k] # NoTime PROVE OwnedBy(k[2], k[1])'
      <3>1. CASE k[1] = u /\ progress[<<NoUser, k[2]>>] # NoTime
        <4>1. OwnedBy(k[2], NoUser)
          BY <3>1 DEF NoOrphans, Owners
        <4> QED BY <2>1, <3>1, <4>1, RecordAssumption DEF OwnedBy
      <3>2. CASE ~ (k[1] = u /\ progress[<<NoUser, k[2]>>] # NoTime)
        <4>1. k[1] \in Users /\ progress[k] # NoTime
          BY <2>4, <2>7, <3>2 DEF Owners
        <4> QED BY <2>3, <4>1 DEF NoOrphans
      <3> QED BY <3>1, <3>2
    <2>8. \A m \in bookmarks' : OwnedBy(m[2], m[1])'
      BY <1>10, <2>3 DEF NoOrphans, StoreTypeOK, AdoptUnowned
    <2> QED BY <2>5, <2>6, <2>7, <2>8 DEF NoOrphans
  <1>11. CASE UNCHANGED storeVars
    BY <1>11 DEF storeVars, StoreTypeOK, IssuedCovers, NoOrphans, OwnedBy
  <1> QED BY <1>1, <1>2, <1>3, <1>4, <1>5, <1>6, <1>7, <1>8, <1>9, <1>10, <1>11 DEF StoreNext

(* Records, positions and bookmarks keep their types. *)
THEOREM StoreTypeCorrect == StoreSpec => []StoreTypeOK
  BY StoreInitInv, StoreStepInv, PTL DEF StoreSpec, StoreInv

(* No reading position or bookmark outlives its book or changes hands, for *)
(* any number of users and books and any order of operations.              *)
THEOREM StoreNoOrphans == StoreSpec => []NoOrphans
  BY StoreInitInv, StoreStepInv, PTL DEF StoreSpec, StoreInv
=============================================================================
