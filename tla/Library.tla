------------------------------ MODULE Library ------------------------------
(***************************************************************************)
(* The storage engine: the records of BookStore together with every        *)
(* secondary index that backend/storage keeps in the same bbolt file.      *)
(* Each action is one write transaction and updates exactly the indexes    *)
(* that the code updates, from the record the code uses for it: an entry   *)
(* is removed under the key computed from the OLD record and inserted      *)
(* under the key computed from the NEW one.                                *)
(*                                                                         *)
(* A batch runs its per-book body once for every id of one transaction.    *)
(* The bodies touch disjoint keys, except for the counters, which commute, *)
(* and the canonical duplicate, for which only the last word counts, so a  *)
(* batch is written as one update over the set of ids.                     *)
(***************************************************************************)
EXTENDS BookStore, FiniteSets

CONSTANTS
    Grams,          \* search grams
    InfoGrams,      \* grams of title, author, file name and format
    CategoryGrams   \* grams of a category name

ASSUME GramAssumption ==
    /\ InfoGrams \in [Infos -> SUBSET Grams]
    /\ CategoryGrams \in [RawCategories -> SUBSET Grams]
ASSUME FiniteBooks == IsFiniteSet(Books)

VARIABLES
    userBooks,      \* UserBooksIndex: keys <<user, id>>
    members,        \* BookContentIndex, membership keys <<user, hash, id>>
    canonical,      \* BookContentIndex, <<user, hash>> -> id or NoBook
    missing,        \* BookMissingHashIndex: keys <<owner, id>>
    sortIndex,      \* BookSortIndex: keys <<sort, user, value, id>>
    categorySort,   \* BookCategorySortIndex: keys <<sort, user, category, value, id>>
    searchIndex,    \* BookSearchIndex: <<user, id>> -> search text or NoBook
    gramIndex,      \* BookSearchGramIndex: keys <<user, gram, id>>
    gramCounts,     \* BookSearchGramCounts: <<user, gram>> -> Nat
    summary,        \* LibrarySummaryIndex: user -> totals
    progressTime    \* ProgressTimeIndex: keys <<user, time, id>>

contentVars == <<members, canonical, missing>>
sortVars    == <<sortIndex, categorySort>>
searchVars  == <<searchIndex, gramIndex, gramCounts>>
indexVars   == <<userBooks, contentVars, sortVars, searchVars, summary, progressTime>>
vars        == <<storeVars, indexVars>>

-----------------------------------------------------------------------------
(* Keys computed from a record.  A record without an owner has none. *)

HasOwner(b) == b # NoBook /\ b.owner # NoUser

UserKeys(i, b) == IF HasOwner(b) THEN {<<b.owner, i>>} ELSE {}

MemberKeys(i, b) ==
    IF HasOwner(b) /\ b.hash # NoHash THEN {<<b.owner, b.hash, i>>} ELSE {}

(* The backlog is the only index that also holds unowned records. *)
BacklogKeys(i, b) == IF b # NoBook THEN {<<b.owner, i>>} ELSE {}

MissingKeys(i, b) == IF b # NoBook /\ b.hash = NoHash THEN {<<b.owner, i>>} ELSE {}

(* "title" stands for the orders by immutable or edited text (title,       *)
(* author, recent_added), "recent_read" for the one progress writes move.  *)
RecentKey(i, b) == <<"recent_read", b.owner, b.lastRead, i>>

SortKeys(i, b) ==
    IF HasOwner(b) THEN {<<"title", b.owner, b.info, i>>, RecentKey(i, b)} ELSE {}

CategoryRecentKey(i, b) == <<"recent_read", b.owner, b.category, b.lastRead, i>>

CategorySortKeys(i, b) ==
    IF HasOwner(b) THEN {<<"title", b.owner, b.category, b.info, i>>, CategoryRecentKey(i, b)}
                   ELSE {}

SearchText(b) == <<b.info, b.category>>

GramsOf(b) == InfoGrams[b.info] \cup CategoryGrams[b.category]

GramKeys(i, b) ==
    IF HasOwner(b) THEN {<<b.owner, g, i>> : g \in GramsOf(b)} ELSE {}

(* The keys of a set of ids in one state of the books bucket. *)
AllUserKeys(bs, ids) == UNION {UserKeys(i, bs[i]) : i \in ids}
AllMemberKeys(bs, ids) == UNION {MemberKeys(i, bs[i]) : i \in ids}
AllBacklogKeys(bs, ids) == UNION {BacklogKeys(i, bs[i]) : i \in ids}
AllMissingKeys(bs, ids) == UNION {MissingKeys(i, bs[i]) : i \in ids}
AllSortKeys(bs, ids) == UNION {SortKeys(i, bs[i]) : i \in ids}
AllCategorySortKeys(bs, ids) == UNION {CategorySortKeys(i, bs[i]) : i \in ids}
AllGramKeys(bs, ids) == UNION {GramKeys(i, bs[i]) : i \in ids}

(* First key of a cursor: the smallest id. *)
First(S) == CHOOSE i \in S : \A j \in S : i <= j

MembersOf(ms, k) == {i \in Books : <<k[1], k[2], i>> \in ms}

-----------------------------------------------------------------------------
(* The index helpers of db.go and library_indexes.go, for a set of ids. *)

(* trackMissingBookHash: a hashed record leaves the backlog, one without a hash enters it. *)
trackMissingBookHash(backlog, bs, ids) ==
    (backlog \ AllBacklogKeys(bs, ids)) \cup AllMissingKeys(bs, ids)

(* addBookToContentIndex: a key that is already taken keeps its book. *)
addBookToContentIndex(canon, bs, ids) ==
    LET added == AllMemberKeys(bs, ids)
    IN  [k \in Users \X Hashes |->
           IF canon[k] = NoBook /\ MembersOf(added, k) # {}
           THEN First(MembersOf(added, k)) ELSE canon[k]]

\* Mutant: removing the canonical book forgets its duplicates.
removeWithoutPromotion(ms, canon, bs, ids) ==
    [k \in Users \X Hashes |->
       IF canon[k] \in MembersOf(AllMemberKeys(bs, ids), k) THEN NoBook ELSE canon[k]]

(* removeBookFromContentIndex: a removed canonical book is succeeded by    *)
(* the first remaining member.                                             *)
removeBookFromContentIndex(ms, canon, bs, ids) ==
    LET removed == AllMemberKeys(bs, ids)
        left    == ms \ removed
    IN  [k \in Users \X Hashes |->
           IF MembersOf(removed, k) = {} THEN canon[k]
           ELSE IF canon[k] # NoBook /\ canon[k] \notin MembersOf(removed, k) THEN canon[k]
           ELSE IF MembersOf(left, k) # {} THEN First(MembersOf(left, k))
           ELSE NoBook]

(* Counters never go below zero. *)
Minus(n, d) == IF d <= n THEN n - d ELSE 0

CountOwned(bs, ids, u) == Cardinality({i \in ids : bs[i] # NoBook /\ bs[i].owner = u})

CountIn(bs, ids, u, c) ==
    Cardinality({i \in ids : bs[i] # NoBook /\ bs[i].owner = u /\ bs[i].category = c})

(* adjustLibrarySummary(old, -1), then adjustLibrarySummary(new, +1).  The *)
(* count under NoCategory is the field Uncategorized; a category whose     *)
(* count is 0 has no entry.                                                *)
adjustLibrarySummary(old, removed, new, added) ==
    [u \in Users |->
       [total |-> Minus(summary[u].total, CountOwned(old, removed, u))
                    + CountOwned(new, added, u),
        categories |-> [c \in Categories \cup {NoCategory} |->
                          Minus(summary[u].categories[c], CountIn(old, removed, u, c))
                            + CountIn(new, added, u, c)]]]

CountGram(keys, k) == Cardinality({i \in Books : <<k[1], k[2], i>> \in keys})

(* adjustBookSearchGramCount, called only for keys really removed or added. *)
adjustBookSearchGramCount(removed, added) ==
    [k \in Users \X Grams |->
       Minus(gramCounts[k], CountGram(removed, k)) + CountGram(added, k)]

(* removeBookFromSearchGramIndex of the old records, addBookToSearchGramIndex of the new. *)
ReplaceGrams(old, new, ids) ==
    LET removed == AllGramKeys(old, ids) \cap gramIndex
        added   == AllGramKeys(new, ids) \ (gramIndex \ removed)
    IN  /\ gramIndex' = (gramIndex \ removed) \cup added
        /\ gramCounts' = adjustBookSearchGramCount(removed, added)

(* The search text is stored under <<user, id>>: removal deletes the old   *)
(* owner's key, insertion overwrites the new owner's.                      *)
RemoveSearchText(old, ids) ==
    [k \in Users \X Books |->
       IF k[2] \in ids /\ old[k[2]] # NoBook /\ old[k[2]].owner = k[1]
       THEN NoBook ELSE searchIndex[k]]

AddSearchText(text, new, ids) ==
    [k \in Users \X Books |->
       IF k[2] \in ids /\ new[k[2]] # NoBook /\ new[k[2]].owner = k[1]
       THEN SearchText(new[k[2]]) ELSE text[k]]

ReplaceSearchText(old, new, ids) ==
    searchIndex' = AddSearchText(RemoveSearchText(old, ids), new, ids)

\* Mutant: the sort keys to remove are computed from the new record.
ReplaceSortKeysLate(old, new, ids) ==
    /\ sortIndex' = (sortIndex \ AllSortKeys(new, ids)) \cup AllSortKeys(new, ids)
    /\ categorySort' =
         (categorySort \ AllCategorySortKeys(new, ids)) \cup AllCategorySortKeys(new, ids)

ReplaceSortKeys(old, new, ids) ==
    /\ sortIndex' = (sortIndex \ AllSortKeys(old, ids)) \cup AllSortKeys(new, ids)
    /\ categorySort' =
         (categorySort \ AllCategorySortKeys(old, ids)) \cup AllCategorySortKeys(new, ids)

ReplaceContent(old, new, ids) ==
    /\ members' = (members \ AllMemberKeys(old, ids)) \cup AllMemberKeys(new, ids)
    /\ canonical' = addBookToContentIndex(
                      removeBookFromContentIndex(members, canonical, old, ids), new, ids)
    /\ missing' = trackMissingBookHash(missing \ AllBacklogKeys(old, ids), new, ids)

ReplaceUserKeys(old, new, ids) ==
    userBooks' = (userBooks \ AllUserKeys(old, ids)) \cup AllUserKeys(new, ids)

ProgressTimeKeys(p, keys) == {<<k[1], p[k], k[2]>> : k \in {k \in keys : p[k] # NoTime}}

-----------------------------------------------------------------------------
(* The rebuild functions: each index from nothing, over the whole bucket. *)

rebuildBookContentIndex(bs) ==
    /\ members' = AllMemberKeys(bs, Books)
    /\ canonical' = addBookToContentIndex([k \in Users \X Hashes |-> NoBook], bs, Books)

rebuildBookSortIndex(bs) ==
    /\ sortIndex' = AllSortKeys(bs, Books)
    /\ categorySort' = AllCategorySortKeys(bs, Books)

rebuildBookSearchIndex(bs) ==
    searchIndex' = AddSearchText([k \in Users \X Books |-> NoBook], bs, Books)

rebuildBookSearchGramIndex(bs) ==
    /\ gramIndex' = AllGramKeys(bs, Books)
    /\ gramCounts' = [k \in Users \X Grams |-> CountGram(AllGramKeys(bs, Books), k)]

LibrarySummaryOf(bs) ==
    [u \in Users |->
       [total |-> CountOwned(bs, Books, u),
        categories |-> [c \in Categories \cup {NoCategory} |-> CountIn(bs, Books, u, c)]]]

rebuildLibrarySummaryIndex(bs) == summary' = LibrarySummaryOf(bs)

rebuildMissingBookHashIndex(bs) == missing' = AllMissingKeys(bs, Books)

rebuildProgressTimeIndex(p) == progressTime' = ProgressTimeKeys(p, Users \X Books)

-----------------------------------------------------------------------------
(* Opening a database: the migrations build every index from the records. *)
Init ==
    /\ StoreInit
    /\ userBooks = AllUserKeys(books, Books)
    /\ members = AllMemberKeys(books, Books)
    /\ canonical = addBookToContentIndex([k \in Users \X Hashes |-> NoBook], books, Books)
    /\ missing = AllMissingKeys(books, Books)
    /\ sortIndex = AllSortKeys(books, Books)
    /\ categorySort = AllCategorySortKeys(books, Books)
    /\ searchIndex = AddSearchText([k \in Users \X Books |-> NoBook], books, Books)
    /\ gramIndex = AllGramKeys(books, Books)
    /\ gramCounts = [k \in Users \X Grams |-> CountGram(AllGramKeys(books, Books), k)]
    /\ summary = LibrarySummaryOf(books)
    /\ progressTime = ProgressTimeKeys(progress, Users \X Books)

(* The book is written and leaves every index under its old keys before it *)
(* enters them under its new ones.                                         *)
PutBook(i, b) ==
    /\ books' = [books EXCEPT ![i] = Normalized(b)]
    /\ ReplaceUserKeys(books, books', {i})
    /\ ReplaceContent(books, books', {i})
    /\ ReplaceSortKeys(books, books', {i})
    /\ ReplaceSearchText(books, books', {i})
    /\ ReplaceGrams(books, books', {i})
    /\ summary' = adjustLibrarySummary(books, {i}, books', {i})
    /\ UNCHANGED <<progress, progressTime, bookmarks>>

\* Mutant: the duplicate check is left to the handler's earlier lookup.
CreateBookUnchecked(i, b) ==
    /\ i \notin issued
    /\ issued' = issued \cup {i}
    /\ b.owner \in Users
    /\ PutBook(i, b)

(* The duplicate check is one lookup of the canonical key. *)
CreateBook(i, b) ==
    /\ i \notin issued
    /\ issued' = issued \cup {i}
    /\ b.owner \in Users
    /\ b.hash # NoHash => canonical[<<b.owner, b.hash>>] \in {NoBook, i}
    /\ PutBook(i, b)

(* SaveBook writes whatever record its caller holds, even over a deletion. *)
SaveBook(i, b) ==
    /\ i \in issued
    /\ b.owner \in Users
    /\ books[i] # NoBook => books[i].owner = b.owner
    /\ PutBook(i, b)
    /\ UNCHANGED issued

(* deleteBookDataInTx for every id; DeleteBookData is the case of one id. *)
DeleteBooksData(ids, u) ==
    /\ ids # {}
    /\ \A i \in ids : OwnedBy(i, u)
    /\ books' = [i \in Books |-> IF i \in ids THEN NoBook ELSE books[i]]
    /\ summary' = adjustLibrarySummary(books, ids, books', {})
    /\ ReplaceContent(books, books', ids)
    /\ ReplaceSortKeys(books, books', ids)
    /\ ReplaceUserKeys(books, books', ids)
    /\ progressTime' = progressTime \ ProgressTimeKeys(progress, {u} \X ids)
    /\ progress' = [k \in Owners \X Books |->
                      IF k \in {u} \X ids THEN NoTime ELSE progress[k]]
    /\ bookmarks' = {m \in bookmarks : <<m[1], m[2]>> \notin {u} \X ids}
    /\ searchIndex' = RemoveSearchText(books, ids)
    /\ ReplaceGrams(books, books', ids)
    /\ UNCHANGED issued

(* The content index does not depend on the category and is left alone;    *)
(* the search text is overwritten in place.                                *)
updateBooksCategoryInTx(ids, u, raw) ==
    /\ \A i \in ids : OwnedBy(i, u)
    /\ books' = WithCategory(ids, Trim[raw])
    /\ summary' = adjustLibrarySummary(books, ids, books', ids)
    /\ ReplaceSortKeys(books, books', ids)
    /\ searchIndex' = AddSearchText(searchIndex, books', ids)
    /\ ReplaceGrams(books, books', ids)
    /\ UNCHANGED <<progress, bookmarks, issued, progressTime, userBooks, contentVars>>

UpdateBooksCategory(ids, u, raw) ==
    /\ ids # {}
    /\ updateBooksCategoryInTx(ids, u, raw)

(* The ids come from the "title" entries of the category sort index; one   *)
(* stale entry would make the whole transaction fail with ErrNotFound.     *)
RenameBookCategory(u, from, raw) ==
    /\ from \in Categories
    /\ updateBooksCategoryInTx(
         {i \in Books : \E v \in Infos : <<"title", u, from, v, i>> \in categorySort}, u, raw)

(* Only the content index and the backlog depend on the hash. *)
BackfillBookContentHashes(hashes) ==
    LET ids == Refreshable(hashes)
    IN  /\ books' = [i \in Books |->
                       IF i \in ids THEN [books[i] EXCEPT !.hash = hashes[i].hash]
                                    ELSE books[i]]
        /\ members' = members \cup AllMemberKeys(books', ids)
        /\ canonical' = addBookToContentIndex(canonical, books', ids)
        /\ missing' = trackMissingBookHash(missing, books', ids)
        /\ UNCHANGED <<progress, bookmarks, issued, progressTime, userBooks, sortVars, searchVars, summary>>

\* Mutant: the entry of the previous write is left behind.
AddTimeKeyOnly(u, i, previous, t) == progressTime \cup {<<u, t, i>>}

(* An older key is removed only when the time really changes. *)
MoveTimeKey(u, i, previous, t) ==
    (IF previous \in {NoTime, t} THEN progressTime
                                 ELSE progressTime \ {<<u, previous, i>>})
      \cup {<<u, t, i>>}

(* Ownership, optimistic concurrency, LastReadAt and the two time-ordered  *)
(* indexes in one transaction.                                             *)
SaveProgressIfCurrent(i, u, t, expected) ==
    LET previous == progress[<<u, i>>]
    IN  /\ OwnedBy(i, u)
        /\ expected # NoTime => previous = expected
        /\ books' = [books EXCEPT ![i].lastRead = t]
        /\ IF books[i].lastRead = t THEN UNCHANGED sortVars
           ELSE /\ sortIndex' = (sortIndex \ {RecentKey(i, books[i])})
                                  \cup {RecentKey(i, books'[i])}
                /\ categorySort' = (categorySort \ {CategoryRecentKey(i, books[i])})
                                     \cup {CategoryRecentKey(i, books'[i])}
        /\ progress' = [progress EXCEPT ![<<u, i>>] = t]
        /\ progressTime' = MoveTimeKey(u, i, previous, t)
        /\ UNCHANGED <<bookmarks, issued, userBooks, contentVars, searchVars, summary>>

\* Mutant: a bookmark for a book deleted in the meantime is stored.
SaveBookmarkUnchecked(i, u, m) ==
    /\ bookmarks' = bookmarks \cup {<<u, i, m>>}
    /\ UNCHANGED <<books, progress, issued, indexVars>>

SaveBookmark(i, u, m) ==
    /\ OwnedBy(i, u)
    /\ bookmarks' = bookmarks \cup {<<u, i, m>>}
    /\ UNCHANGED <<books, progress, issued, indexVars>>

DeleteBookmark(i, u, m) ==
    /\ OwnedBy(i, u)
    /\ <<u, i, m>> \in bookmarks
    /\ bookmarks' = bookmarks \ {<<u, i, m>>}
    /\ UNCHANGED <<books, progress, issued, indexVars>>

(* Adoption changes many records at once and rebuilds instead of updating; *)
(* only the user index is extended in place.                               *)
AssignUnownedDataToUser(u) ==
    LET adopted == {i \in Books : OwnedBy(i, NoUser)}
    IN  /\ books' = [i \in Books |-> IF i \in adopted THEN [books[i] EXCEPT !.owner = u]
                                                     ELSE books[i]]
        /\ userBooks' = userBooks \cup ({u} \X adopted)
        /\ progress' = [k \in Owners \X Books |->
                          IF k[1] = NoUser THEN NoTime
                          ELSE IF k[1] = u /\ progress[<<NoUser, k[2]>>] # NoTime
                          THEN progress[<<NoUser, k[2]>>]
                          ELSE progress[k]]
        /\ rebuildBookSortIndex(books')
        /\ rebuildBookSearchIndex(books')
        /\ rebuildBookSearchGramIndex(books')
        /\ rebuildBookContentIndex(books')
        /\ rebuildLibrarySummaryIndex(books')
        /\ rebuildProgressTimeIndex(progress')
        /\ rebuildMissingBookHashIndex(books')
        /\ UNCHANGED <<bookmarks, issued>>

Next ==
    \/ \E i \in Books, b \in RawBook : CreateBook(i, b)
    \/ \E i \in Books, b \in RawBook : SaveBook(i, b)
    \/ \E ids \in SUBSET Books, u \in Users : DeleteBooksData(ids, u)
    \/ \E ids \in SUBSET Books, u \in Users, raw \in RawCategories :
         UpdateBooksCategory(ids, u, raw)
    \/ \E u \in Users, from \in Categories, raw \in RawCategories :
         RenameBookCategory(u, from, raw)
    \/ \E ids \in SUBSET Books : \E hashes \in [ids -> Snapshots] :
         BackfillBookContentHashes(hashes)
    \/ \E i \in Books, u \in Users, t \in Times, expected \in Times \cup {NoTime} :
         SaveProgressIfCurrent(i, u, t, expected)
    \/ \E i \in Books, u \in Users, m \in Marks : SaveBookmark(i, u, m)
    \/ \E i \in Books, u \in Users, m \in Marks : DeleteBookmark(i, u, m)
    \/ \E u \in Users : AssignUnownedDataToUser(u)

Spec == Init /\ [][Next]_vars

-----------------------------------------------------------------------------
(* Queries answered from the indexes. *)

(* GetBookForUser: the index decides ownership, the bucket gives the record. *)
GetBookForUser(i, u) == IF <<u, i>> \in userBooks THEN books[i] ELSE NoBook

(* FindBookByContentHash: one lookup, and a check of the record it leads to. *)
FindBookByContentHash(u, h) ==
    LET i == canonical[<<u, h>>]
    IN  IF i # NoBook /\ OwnedBy(i, u) /\ books[i].hash = h THEN i ELSE NoBook

(* ListProgressUpdatedSince: the entries the cursor visits whose record is *)
(* still new enough; a stale entry would list its book twice.              *)
ListProgressUpdatedSince(u, since) ==
    {e \in progressTime : /\ e[1] = u /\ e[2] >= since
                          /\ progress[<<u, e[3]>>] # NoTime
                          /\ progress[<<u, e[3]>>] >= since}

-----------------------------------------------------------------------------

(* Every bucket holds keys and values of its kind. *)
TypeOK ==
    /\ StoreTypeOK
    /\ userBooks \subseteq Users \X Books
    /\ members \subseteq Users \X Hashes \X Books
    /\ canonical \in [Users \X Hashes -> Books \cup {NoBook}]
    /\ missing \subseteq Owners \X Books
    /\ gramIndex \subseteq Users \X Grams \X Books
    /\ gramCounts \in [Users \X Grams -> Nat]
    /\ summary \in [Users -> [total : Nat, categories : [Categories \cup {NoCategory} -> Nat]]]
    /\ progressTime \subseteq Users \X Times \X Books

(* The shelf a user pages through is the set of books the user owns, in    *)
(* every order and in every category, after any sequence of creates, stale *)
(* saves, batch changes, progress writes and deletes.                      *)
ShelfExact ==
    /\ userBooks = AllUserKeys(books, Books)
    /\ sortIndex = AllSortKeys(books, Books)
    /\ categorySort = AllCategorySortKeys(books, Books)

(* Search reads the current text of exactly the owner's books: no book is  *)
(* found under words of an earlier title, category or owner.               *)
SearchExact ==
    /\ gramIndex = AllGramKeys(books, Books)
    /\ searchIndex = AddSearchText([k \in Users \X Books |-> NoBook], books, Books)

(* The hash backlog is exactly the set of records without a hash, so the   *)
(* background worker neither misses a book nor visits one for ever.        *)
BacklogExact == missing = AllMissingKeys(books, Books)

(* Duplicate detection by one lookup agrees with a scan of the library: a  *)
(* book is found under a hash exactly when the user has one with that      *)
(* content, also after the canonical duplicate was deleted or rehashed.    *)
DuplicateLookupExact ==
    /\ members = AllMemberKeys(books, Books)
    /\ \A u \in Users, h \in Hashes :
         LET same == {i \in Books : OwnedBy(i, u) /\ books[i].hash = h}
         IN  IF same = {} THEN FindBookByContentHash(u, h) = NoBook
                          ELSE FindBookByContentHash(u, h) \in same

(* The maintained counters equal a recount: filter badges never drift and  *)
(* gram selection never picks a gram by a wrong count.                     *)
CountersExact ==
    /\ summary = LibrarySummaryOf(books)
    /\ gramCounts = [k \in Users \X Grams |-> CountGram(AllGramKeys(books, Books), k)]

(* An incremental sync returns each position written at or after the given *)
(* time, once, and no other.                                               *)
SyncExact ==
    \A u \in Users, since \in Times :
      ListProgressUpdatedSince(u, since) =
        {<<u, progress[<<u, i>>], i>> :
            i \in {j \in Books : progress[<<u, j>>] # NoTime /\ progress[<<u, j>>] >= since}}

(* Together: every index and counter agrees with a scan of the records. *)
IndexesExact == ShelfExact /\ SearchExact /\ BacklogExact /\ CountersExact
=============================================================================
