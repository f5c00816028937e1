--------------------------- MODULE LibraryProofs ---------------------------
(***************************************************************************)
(* Every secondary index of the storage engine is exact and the engine     *)
(* implements BookStore, for every number of users, books, hashes,         *)
(* categories and times.                                                   *)
(***************************************************************************)
EXTENDS Library, BookStoreProofs, FiniteSetTheorems, WellFoundedInduction, TLAPS

(* A lookup key names a member of its duplicate group and is absent only   *)
(* when the group is empty: what FindBookByContentHash relies on.  Nothing *)
(* is said of which member: after promotions it need not be the first.     *)
CanonicalValid(canon, ms) ==
    /\ canon \in [Users \X Hashes -> Books \cup {NoBook}]
    /\ \A k \in Users \X Hashes :
         IF MembersOf(ms, k) = {} THEN canon[k] = NoBook
                                  ELSE canon[k] \in MembersOf(ms, k)

NoText == [k \in Users \X Books |-> NoBook]

(* The inductive invariant.  Exactness alone is not inductive: removing a  *)
(* key that is computed from the old record needs the old record's keys to *)
(* be in the index, an upload needs its id to be fresh, and the duplicate  *)
(* check needs the canonical key to stand for the whole group.             *)
LibraryInv ==
    /\ StoreInv
    /\ userBooks = AllUserKeys(books, Books)
    /\ sortIndex = AllSortKeys(books, Books)
    /\ categorySort = AllCategorySortKeys(books, Books)
    /\ missing = AllMissingKeys(books, Books)
    /\ members = AllMemberKeys(books, Books)
    /\ CanonicalValid(canonical, members)
    /\ gramIndex = AllGramKeys(books, Books)
    /\ searchIndex = AddSearchText(NoText, books, Books)
    /\ progressTime = ProgressTimeKeys(progress, Users \X Books)
    /\ CountersExact

-----------------------------------------------------------------------------
(* Lemmas about sets. *)

(* A non-empty set of ids has a first one. *)
LEMMA FirstInSet ==
    ASSUME NEW S \in SUBSET Nat, S # {}
    PROVE  First(S) \in S
  <1>1. \E i \in S : \A j \in S : ~ (<<j, i>> \in OpToRel(<, Nat))
    BY NatLessThanWellFounded, WFMin
  <1>2. PICK i \in S : \A j \in S : ~ (<<j, i>> \in OpToRel(<, Nat))
    BY <1>1
  <1>3. \A j \in S : ~ (j < i)
    BY <1>2 DEF OpToRel
  <1>4. \A j \in S : i <= j
    BY <1>3
  <1> QED BY <1>4 DEF First

LEMMA SplitCount ==
    ASSUME NEW S, NEW A, IsFiniteSet(S), A \subseteq S
    PROVE  /\ Cardinality(S) = Cardinality(A) + Cardinality(S \ A)
           /\ Cardinality(A) \in Nat /\ Cardinality(S \ A) \in Nat
  <1> DEFINE R == S \ A
  <1>1. A \cup R = S /\ A \cap R = {} OBVIOUS
  <1>2. IsFiniteSet(A) /\ IsFiniteSet(R) BY FS_Subset, FS_Difference
  <1> HIDE DEF R
  <1>3. Cardinality(A \cup R) = Cardinality(A) + Cardinality(R) - Cardinality(A \cap R)
    BY <1>2, FS_Union
  <1>4. Cardinality(S) = Cardinality(A) + Cardinality(R) - 0
    BY <1>1, <1>3, FS_EmptySet
  <1>5. Cardinality(A) \in Nat /\ Cardinality(R) \in Nat
    BY <1>2, FS_CardinalityType
  <1> QED BY <1>4, <1>5 DEF R

(* Maintained counters: subtracting what a change removes and adding what  *)
(* it brings is a recount, and the clamp at zero never acts.               *)
LEMMA CountReplace ==
    ASSUME NEW S, NEW S2, NEW A, NEW B, IsFiniteSet(S), IsFiniteSet(S2),
           A \subseteq S, B \subseteq S2, S \ A = S2 \ B
    PROVE  Minus(Cardinality(S), Cardinality(A)) + Cardinality(B) = Cardinality(S2)
  <1>1. /\ Cardinality(S) = Cardinality(A) + Cardinality(S \ A)
        /\ Cardinality(A) \in Nat /\ Cardinality(S \ A) \in Nat
    BY SplitCount
  <1>2. /\ Cardinality(S2) = Cardinality(B) + Cardinality(S2 \ B)
        /\ Cardinality(B) \in Nat
    BY SplitCount
  <1>3. Cardinality(S2) = Cardinality(B) + Cardinality(S \ A)
    BY <1>2
  <1> QED BY <1>1, <1>2, <1>3 DEF Minus

-----------------------------------------------------------------------------
(* One replacement lemma per index: bs becomes bs2, only ids differ. *)

LEMMA ReplaceUser ==
    ASSUME NEW bs, NEW bs2, NEW ids \in SUBSET Books, \A i \in Books \ ids : bs2[i] = bs[i]
    PROVE  (AllUserKeys(bs, Books) \ AllUserKeys(bs, ids)) \cup AllUserKeys(bs2, ids)
             = AllUserKeys(bs2, Books)
  <1>1. \A f, W, x : x \in AllUserKeys(f, W) <=> \E i \in W : x \in UserKeys(i, f[i])
    BY DEF AllUserKeys
  <1>2. \A i, j, b, c, x : x \in UserKeys(i, b) /\ x \in UserKeys(j, c) => i = j
    BY DEF UserKeys
  <1> QED BY <1>1, <1>2

LEMMA ReplaceMember ==
    ASSUME NEW bs, NEW bs2, NEW ids \in SUBSET Books, \A i \in Books \ ids : bs2[i] = bs[i]
    PROVE  (AllMemberKeys(bs, Books) \ AllMemberKeys(bs, ids)) \cup AllMemberKeys(bs2, ids)
             = AllMemberKeys(bs2, Books)
  <1>1. \A f, W, x : x \in AllMemberKeys(f, W) <=> \E i \in W : x \in MemberKeys(i, f[i])
    BY DEF AllMemberKeys
  <1>2. \A i, j, b, c, x : x \in MemberKeys(i, b) /\ x \in MemberKeys(j, c) => i = j
    BY DEF MemberKeys
  <1> QED BY <1>1, <1>2

LEMMA ReplaceSort ==
    ASSUME NEW bs, NEW bs2, NEW ids \in SUBSET Books, \A i \in Books \ ids : bs2[i] = bs[i]
    PROVE  (AllSortKeys(bs, Books) \ AllSortKeys(bs, ids)) \cup AllSortKeys(bs2, ids)
             = AllSortKeys(bs2, Books)
  <1>1. \A f, W, x : x \in AllSortKeys(f, W) <=> \E i \in W : x \in SortKeys(i, f[i])
    BY DEF AllSortKeys
  <1>2. \A i, j, b, c, x : x \in SortKeys(i, b) /\ x \in SortKeys(j, c) => i = j
    BY DEF SortKeys, RecentKey
  <1> QED BY <1>1, <1>2

LEMMA ReplaceCategorySort ==
    ASSUME NEW bs, NEW bs2, NEW ids \in SUBSET Books, \A i \in Books \ ids : bs2[i] = bs[i]
    PROVE  (AllCategorySortKeys(bs, Books) \ AllCategorySortKeys(bs, ids)) \cup AllCategorySortKeys(bs2, ids)
             = AllCategorySortKeys(bs2, Books)
  <1>1. \A f, W, x : x \in AllCategorySortKeys(f, W) <=> \E i \in W : x \in CategorySortKeys(i, f[i])
    BY DEF AllCategorySortKeys
  <1>2. \A i, j, b, c, x : x \in CategorySortKeys(i, b) /\ x \in CategorySortKeys(j, c) => i = j
    BY DEF CategorySortKeys, CategoryRecentKey
  <1> QED BY <1>1, <1>2

LEMMA ReplaceGram ==
    ASSUME NEW bs, NEW bs2, NEW ids \in SUBSET Books, \A i \in Books \ ids : bs2[i] = bs[i]
    PROVE  (AllGramKeys(bs, Books) \ AllGramKeys(bs, ids)) \cup AllGramKeys(bs2, ids)
             = AllGramKeys(bs2, Books)
  <1>1. \A f, W, x : x \in AllGramKeys(f, W) <=> \E i \in W : x \in GramKeys(i, f[i])
    BY DEF AllGramKeys
  <1>2. \A i, j, b, c, x : x \in GramKeys(i, b) /\ x \in GramKeys(j, c) => i = j
    BY DEF GramKeys
  <1> QED BY <1>1, <1>2

(* The backlog is cleared under the old owner and under the new one. *)
LEMMA ReplaceMissing ==
    ASSUME NEW bs, NEW bs2, NEW ids \in SUBSET Books, \A i \in Books \ ids : bs2[i] = bs[i]
    PROVE  trackMissingBookHash(AllMissingKeys(bs, Books) \ AllBacklogKeys(bs, ids), bs2, ids)
             = AllMissingKeys(bs2, Books)
  <1>1. \A f, W, x : x \in AllMissingKeys(f, W) <=> \E i \in W : x \in MissingKeys(i, f[i])
    BY DEF AllMissingKeys
  <1>2. \A f, W, x : x \in AllBacklogKeys(f, W) <=> \E i \in W : x \in BacklogKeys(i, f[i])
    BY DEF AllBacklogKeys
  <1>3. \A i, j, b, c, x : x \in MissingKeys(i, b) /\ x \in BacklogKeys(j, c) => i = j
    BY DEF MissingKeys, BacklogKeys
  <1>4. \A i, b, x : x \in MissingKeys(i, b) => x \in BacklogKeys(i, b)
    BY DEF MissingKeys, BacklogKeys
  <1> QED BY <1>1, <1>2, <1>3, <1>4 DEF trackMissingBookHash

-----------------------------------------------------------------------------
(* The canonical duplicate. *)

LEMMA FirstMember ==
    ASSUME NEW ms, NEW k, MembersOf(ms, k) # {}
    PROVE  First(MembersOf(ms, k)) \in MembersOf(ms, k)
  <1>1. MembersOf(ms, k) \in SUBSET Nat BY IdAssumption DEF MembersOf
  <1> QED BY <1>1, FirstInSet

(* Inserting members keeps the lookup key of a group that has one and      *)
(* creates one for a new group.                                            *)
LEMMA CanonicalAdd ==
    ASSUME NEW canon, NEW ms, NEW bs, NEW ids, CanonicalValid(canon, ms)
    PROVE  CanonicalValid(addBookToContentIndex(canon, bs, ids), ms \cup AllMemberKeys(bs, ids))
  <1> DEFINE added == AllMemberKeys(bs, ids)
             canon2 == addBookToContentIndex(canon, bs, ids)
  <1>1. canon2 = [k \in Users \X Hashes |->
                    IF canon[k] = NoBook /\ MembersOf(added, k) # {}
                    THEN First(MembersOf(added, k)) ELSE canon[k]]
    BY DEF addBookToContentIndex
  <1> HIDE DEF added, canon2
  <1>2. \A k : MembersOf(ms \cup added, k) = MembersOf(ms, k) \cup MembersOf(added, k)
    BY DEF MembersOf
  <1>3. \A k : MembersOf(added, k) # {} => First(MembersOf(added, k)) \in MembersOf(added, k)
    BY FirstMember
  <1>4. \A m, k : MembersOf(m, k) \subseteq Books /\ NoBook \notin MembersOf(m, k)
    BY IdAssumption DEF MembersOf
  <1>5. \A k \in Users \X Hashes : canon2[k] \in Books \cup {NoBook}
    BY <1>1, <1>3, <1>4 DEF CanonicalValid
  <1>6. ASSUME NEW k \in Users \X Hashes
        PROVE  IF MembersOf(ms \cup added, k) = {}
               THEN canon2[k] = NoBook ELSE canon2[k] \in MembersOf(ms \cup added, k)
    <2>1. IF MembersOf(ms, k) = {} THEN canon[k] = NoBook ELSE canon[k] \in MembersOf(ms, k)
      BY DEF CanonicalValid
    <2>2. canon2[k] = IF canon[k] = NoBook /\ MembersOf(added, k) # {}
                      THEN First(MembersOf(added, k)) ELSE canon[k]
      BY <1>1
    <2> QED BY <1>2, <1>3, <1>4, <2>1, <2>2
  <1>7. canon2 \in [Users \X Hashes -> Books \cup {NoBook}]
    BY <1>1, <1>5
  <1> QED BY <1>6, <1>7 DEF CanonicalValid, added, canon2

(* Removing members promotes a remaining one when the canonical book goes. *)
LEMMA CanonicalRemove ==
    ASSUME NEW canon, NEW ms, NEW bs, NEW ids, CanonicalValid(canon, ms)
    PROVE  CanonicalValid(removeBookFromContentIndex(ms, canon, bs, ids),
                          ms \ AllMemberKeys(bs, ids))
  <1> DEFINE removed == AllMemberKeys(bs, ids)
             left == ms \ removed
             canon2 == removeBookFromContentIndex(ms, canon, bs, ids)
  <1>1. canon2 = [k \in Users \X Hashes |->
           IF MembersOf(removed, k) = {} THEN canon[k]
           ELSE IF canon[k] # NoBook /\ canon[k] \notin MembersOf(removed, k) THEN canon[k]
           ELSE IF MembersOf(left, k) # {} THEN First(MembersOf(left, k))
           ELSE NoBook]
    BY DEF removeBookFromContentIndex
  <1> HIDE DEF removed, canon2
  <1>2. \A k : MembersOf(left, k) = MembersOf(ms, k) \ MembersOf(removed, k)
    BY DEF MembersOf
  <1> HIDE DEF left
  <1>3. \A k : MembersOf(left, k) # {} => First(MembersOf(left, k)) \in MembersOf(left, k)
    BY FirstMember
  <1>4. \A m, k : MembersOf(m, k) \subseteq Books /\ NoBook \notin MembersOf(m, k)
    BY IdAssumption DEF MembersOf
  <1>5. \A k \in Users \X Hashes : canon2[k] \in Books \cup {NoBook}
    BY <1>1, <1>3, <1>4 DEF CanonicalValid
  <1>6. ASSUME NEW k \in Users \X Hashes
        PROVE  IF MembersOf(left, k) = {}
               THEN canon2[k] = NoBook ELSE canon2[k] \in MembersOf(left, k)
    <2>1. IF MembersOf(ms, k) = {} THEN canon[k] = NoBook ELSE canon[k] \in MembersOf(ms, k)
      BY DEF CanonicalValid
    <2>2. canon2[k] = IF MembersOf(removed, k) = {} THEN canon[k]
           ELSE IF canon[k] # NoBook /\ canon[k] \notin MembersOf(removed, k) THEN canon[k]
           ELSE IF MembersOf(left, k) # {} THEN First(MembersOf(left, k))
           ELSE NoBook
      BY <1>1
    <2> QED BY <1>2, <1>3, <1>4, <2>1, <2>2
  <1>7. canon2 \in [Users \X Hashes -> Books \cup {NoBook}]
    BY <1>1, <1>5
  <1> QED BY <1>6, <1>7 DEF CanonicalValid, removed, left, canon2

LEMMA CanonicalEmpty == CanonicalValid([k \in Users \X Hashes |-> NoBook], {})
  BY DEF CanonicalValid, MembersOf

-----------------------------------------------------------------------------
(* Counters. *)

(* Only keys really present are removed and only new ones are inserted, so *)
(* the per-gram counts follow the keys of the changed books exactly.       *)
LEMMA GramsTouched ==
    ASSUME NEW bs, NEW bs2, NEW ids \in SUBSET Books
    PROVE  LET all     == AllGramKeys(bs, Books)
               removed == AllGramKeys(bs, ids) \cap all
               added   == AllGramKeys(bs2, ids) \ (all \ removed)
           IN  removed = AllGramKeys(bs, ids) /\ added = AllGramKeys(bs2, ids)
  <1>1. \A f, W, x : x \in AllGramKeys(f, W) <=> \E i \in W : x \in GramKeys(i, f[i])
    BY DEF AllGramKeys
  <1>2. \A i, j, b, c, x : x \in GramKeys(i, b) /\ x \in GramKeys(j, c) => i = j
    BY DEF GramKeys
  <1>3. AllGramKeys(bs, ids) \cap AllGramKeys(bs, Books) = AllGramKeys(bs, ids)
    BY <1>1
  <1>4. AllGramKeys(bs2, ids) \ (AllGramKeys(bs, Books) \ AllGramKeys(bs, ids)) = AllGramKeys(bs2, ids)
    BY <1>1, <1>2
  <1> QED BY <1>3, <1>4

LEMMA GramRecount ==
    ASSUME NEW bs, NEW bs2, NEW ids \in SUBSET Books, \A i \in Books \ ids : bs2[i] = bs[i],
           NEW k \in Users \X Grams
    PROVE  Minus(CountGram(AllGramKeys(bs, Books), k), CountGram(AllGramKeys(bs, ids), k))
             + CountGram(AllGramKeys(bs2, ids), k)
           = CountGram(AllGramKeys(bs2, Books), k)
  <1> DEFINE In(f, W) == {i \in Books : <<k[1], k[2], i>> \in AllGramKeys(f, W)}
  <1>1. \A f, W, x : x \in AllGramKeys(f, W) <=> \E i \in W : x \in GramKeys(i, f[i])
    BY DEF AllGramKeys
  <1>2. \A i, j, b : <<k[1], k[2], i>> \in GramKeys(j, b) => i = j
    BY DEF GramKeys
  <1>3. \A f : \A W \in SUBSET Books :
          In(f, W) = {i \in W : <<k[1], k[2], i>> \in GramKeys(i, f[i])}
    BY <1>1, <1>2
  <1>4. In(bs, ids) \subseteq In(bs, Books) /\ In(bs2, ids) \subseteq In(bs2, Books)
    BY <1>3
  <1>5. In(bs, Books) \ In(bs, ids) = In(bs2, Books) \ In(bs2, ids)
    BY <1>3
  <1>6. IsFiniteSet(In(bs, Books)) /\ IsFiniteSet(In(bs2, Books))
    BY FiniteBooks, FS_Subset
  <1>7. \A f, W : CountGram(AllGramKeys(f, W), k) = Cardinality(In(f, W))
    BY DEF CountGram
  <1> HIDE DEF In
  <1> QED BY <1>4, <1>5, <1>6, <1>7, CountReplace

LEMMA SummaryRecount ==
    ASSUME NEW bs, NEW bs2, NEW ids \in SUBSET Books, \A i \in Books \ ids : bs2[i] = bs[i],
           NEW u, NEW c
    PROVE  /\ Minus(CountOwned(bs, Books, u), CountOwned(bs, ids, u)) + CountOwned(bs2, ids, u)
                = CountOwned(bs2, Books, u)
           /\ Minus(CountIn(bs, Books, u, c), CountIn(bs, ids, u, c)) + CountIn(bs2, ids, u, c)
                = CountIn(bs2, Books, u, c)
  <1> DEFINE Own(f, W) == {i \in W : f[i] # NoBook /\ f[i].owner = u}
             Cat(f, W) == {i \in W : f[i] # NoBook /\ f[i].owner = u /\ f[i].category = c}
  <1>1. /\ Own(bs, ids) \subseteq Own(bs, Books) /\ Own(bs2, ids) \subseteq Own(bs2, Books)
        /\ Cat(bs, ids) \subseteq Cat(bs, Books) /\ Cat(bs2, ids) \subseteq Cat(bs2, Books)
    OBVIOUS
  <1>2. /\ Own(bs, Books) \ Own(bs, ids) = Own(bs2, Books) \ Own(bs2, ids)
        /\ Cat(bs, Books) \ Cat(bs, ids) = Cat(bs2, Books) \ Cat(bs2, ids)
    OBVIOUS
  <1>3. /\ IsFiniteSet(Own(bs, Books)) /\ IsFiniteSet(Own(bs2, Books))
        /\ IsFiniteSet(Cat(bs, Books)) /\ IsFiniteSet(Cat(bs2, Books))
    BY FiniteBooks, FS_Subset
  <1>4. \A f, W : /\ CountOwned(f, W, u) = Cardinality(Own(f, W))
                  /\ CountIn(f, W, u, c) = Cardinality(Cat(f, W))
    BY DEF CountOwned, CountIn
  <1> HIDE DEF Own, Cat
  <1> QED BY <1>1, <1>2, <1>3, <1>4, CountReplace

LEMMA CountTypes ==
    ASSUME NEW bs, NEW u, NEW c, NEW keys, NEW k
    PROVE  /\ CountOwned(bs, Books, u) \in Nat
           /\ CountIn(bs, Books, u, c) \in Nat
           /\ CountGram(keys, k) \in Nat
  <1>1. ASSUME NEW S \in SUBSET Books PROVE Cardinality(S) \in Nat
    BY FiniteBooks, FS_Subset, FS_CardinalityType
  <1> QED BY <1>1 DEF CountOwned, CountIn, CountGram

-----------------------------------------------------------------------------
(* The update helpers keep their indexes exact when only ids change. *)

LEMMA UserIndexStep ==
    ASSUME LibraryInv, NEW ids \in SUBSET Books, \A i \in Books \ ids : books'[i] = books[i],
           ReplaceUserKeys(books, books', ids)
    PROVE  userBooks' = AllUserKeys(books', Books)
  BY ReplaceUser DEF LibraryInv, ReplaceUserKeys

LEMMA SortIndexStep ==
    ASSUME LibraryInv, NEW ids \in SUBSET Books, \A i \in Books \ ids : books'[i] = books[i],
           ReplaceSortKeys(books, books', ids)
    PROVE  /\ sortIndex' = AllSortKeys(books', Books)
           /\ categorySort' = AllCategorySortKeys(books', Books)
  BY ReplaceSort, ReplaceCategorySort DEF LibraryInv, ReplaceSortKeys

LEMMA ContentIndexStep ==
    ASSUME LibraryInv, NEW ids \in SUBSET Books, \A i \in Books \ ids : books'[i] = books[i],
           ReplaceContent(books, books', ids)
    PROVE  /\ members' = AllMemberKeys(books', Books)
           /\ CanonicalValid(canonical', members')
           /\ missing' = AllMissingKeys(books', Books)
  <1>1. members' = AllMemberKeys(books', Books)
    BY ReplaceMember DEF LibraryInv, ReplaceContent
  <1>2. missing' = AllMissingKeys(books', Books)
    BY ReplaceMissing DEF LibraryInv, ReplaceContent
  <1>3. CanonicalValid(removeBookFromContentIndex(members, canonical, books, ids),
                       members \ AllMemberKeys(books, ids))
    BY CanonicalRemove DEF LibraryInv
  <1>4. CanonicalValid(
          addBookToContentIndex(removeBookFromContentIndex(members, canonical, books, ids), books', ids),
          (members \ AllMemberKeys(books, ids)) \cup AllMemberKeys(books', ids))
    BY <1>3, CanonicalAdd
  <1> QED BY <1>1, <1>2, <1>4 DEF ReplaceContent

LEMMA GramIndexStep ==
    ASSUME LibraryInv, NEW ids \in SUBSET Books, \A i \in Books \ ids : books'[i] = books[i],
           ReplaceGrams(books, books', ids)
    PROVE  /\ gramIndex' = AllGramKeys(books', Books)
           /\ gramCounts' = [k \in Users \X Grams |-> CountGram(AllGramKeys(books', Books), k)]
  <1> DEFINE removed == AllGramKeys(books, ids) \cap gramIndex
             added == AllGramKeys(books', ids) \ (gramIndex \ removed)
  <1>1. gramIndex = AllGramKeys(books, Books) BY DEF LibraryInv
  <1>2. removed = AllGramKeys(books, ids) /\ added = AllGramKeys(books', ids)
    BY <1>1, GramsTouched
  <1>3. /\ gramIndex' = (gramIndex \ removed) \cup added
        /\ gramCounts' = adjustBookSearchGramCount(removed, added)
    BY DEF ReplaceGrams
  <1> HIDE DEF removed, added
  <1>4. gramIndex' = AllGramKeys(books', Books)
    BY <1>1, <1>2, <1>3, ReplaceGram
  <1>5. \A k \in Users \X Grams : gramCounts[k] = CountGram(AllGramKeys(books, Books), k)
    BY DEF LibraryInv, CountersExact
  <1>6. \A k \in Users \X Grams :
          Minus(gramCounts[k], CountGram(removed, k)) + CountGram(added, k)
            = CountGram(AllGramKeys(books', Books), k)
    BY <1>2, <1>5, GramRecount
  <1>7. gramCounts' = [k \in Users \X Grams |->
                         Minus(gramCounts[k], CountGram(removed, k)) + CountGram(added, k)]
    BY <1>3 DEF adjustBookSearchGramCount
  <1> QED BY <1>4, <1>6, <1>7

LEMMA SummaryStep ==
    ASSUME LibraryInv, NEW ids \in SUBSET Books, \A i \in Books \ ids : books'[i] = books[i],
           summary' = adjustLibrarySummary(books, ids, books', ids)
    PROVE  summary' = LibrarySummaryOf(books')
  <1>1. \A u \in Users : /\ summary[u].total = CountOwned(books, Books, u)
                         /\ \A c \in Categories \cup {NoCategory} :
                              summary[u].categories[c] = CountIn(books, Books, u, c)
    BY DEF LibraryInv, CountersExact, LibrarySummaryOf
  <1>2. \A u \in Users :
          /\ Minus(summary[u].total, CountOwned(books, ids, u)) + CountOwned(books', ids, u)
               = CountOwned(books', Books, u)
          /\ \A c \in Categories \cup {NoCategory} :
               Minus(summary[u].categories[c], CountIn(books, ids, u, c)) + CountIn(books', ids, u, c)
                 = CountIn(books', Books, u, c)
    BY <1>1, SummaryRecount
  <1>3. \A u \in Users :
          [c \in Categories \cup {NoCategory} |->
             Minus(summary[u].categories[c], CountIn(books, ids, u, c)) + CountIn(books', ids, u, c)]
          = [c \in Categories \cup {NoCategory} |-> CountIn(books', Books, u, c)]
    BY <1>2
  <1> QED BY <1>2, <1>3 DEF adjustLibrarySummary, LibrarySummaryOf

LEMMA SearchTextStep ==
    ASSUME LibraryInv, NEW ids \in SUBSET Books, \A i \in Books \ ids : books'[i] = books[i],
           ReplaceSearchText(books, books', ids)
    PROVE  searchIndex' = AddSearchText(NoText, books', Books)
  <1>1. \A k \in Users \X Books :
          searchIndex[k] = IF books[k[2]] # NoBook /\ books[k[2]].owner = k[1]
                           THEN SearchText(books[k[2]]) ELSE NoBook
    BY DEF LibraryInv, AddSearchText, NoText
  <1>2. \A k \in Users \X Books :
          RemoveSearchText(books, ids)[k]
            = IF k[2] \notin ids /\ books[k[2]] # NoBook /\ books[k[2]].owner = k[1]
              THEN SearchText(books[k[2]]) ELSE NoBook
    BY <1>1 DEF RemoveSearchText
  <1>3. \A k \in Users \X Books :
          AddSearchText(RemoveSearchText(books, ids), books', ids)[k]
            = IF books'[k[2]] # NoBook /\ books'[k[2]].owner = k[1]
              THEN SearchText(books'[k[2]]) ELSE NoBook
    BY <1>2 DEF AddSearchText
  <1>4. \A k \in Users \X Books :
          AddSearchText(NoText, books', Books)[k]
            = IF books'[k[2]] # NoBook /\ books'[k[2]].owner = k[1]
              THEN SearchText(books'[k[2]]) ELSE NoBook
    BY DEF AddSearchText, NoText
  <1>5. \A k \in Users \X Books :
          AddSearchText(RemoveSearchText(books, ids), books', ids)[k]
            = AddSearchText(NoText, books', Books)[k]
    BY <1>3, <1>4
  <1> QED BY <1>5 DEF ReplaceSearchText, AddSearchText

-----------------------------------------------------------------------------
(* Every transaction is a step that BookStore allows. *)

(* The canonical key decides a duplicate as a scan of the records would. *)
LEMMA CreateRefines ==
    ASSUME LibraryInv, NEW i \in Books, NEW b \in RawBook, CreateBook(i, b)
    PROVE  Create(i, b)
  <1>1. SUFFICES ASSUME b.hash # NoHash, NEW j \in Books \ {i},
                        OwnedBy(j, b.owner), books[j].hash = b.hash
                 PROVE  FALSE
    BY DEF CreateBook, PutBook, Create
  <1> DEFINE k == <<b.owner, b.hash>>
  <1>2. k \in Users \X Hashes /\ b.owner # NoUser
    BY <1>1, OwnerAssumption DEF CreateBook, RawBook
  <1>3. <<b.owner, b.hash, j>> \in MemberKeys(j, books[j])
    BY <1>1, <1>2 DEF MemberKeys, HasOwner, OwnedBy
  <1>4. <<b.owner, b.hash, j>> \in members
    BY <1>3 DEF LibraryInv, AllMemberKeys
  <1>5. canonical[k] \in MembersOf(members, k)
    <2>1. j \in MembersOf(members, k) BY <1>4 DEF MembersOf
    <2> QED BY <1>2, <2>1 DEF LibraryInv, CanonicalValid
  <1>6. canonical[k] = i
    <2>1. canonical[k] \in {NoBook, i} BY <1>1 DEF CreateBook
    <2> QED BY <1>5, <2>1, IdAssumption DEF MembersOf
  <1>7. <<b.owner, b.hash, i>> \in AllMemberKeys(books, Books)
    BY <1>5, <1>6 DEF MembersOf, LibraryInv
  <1>8. PICK n \in Books : <<b.owner, b.hash, i>> \in MemberKeys(n, books[n])
    BY <1>7 DEF AllMemberKeys
  <1>9. n = i /\ books[n] # NoBook
    BY <1>8 DEF MemberKeys, HasOwner
  <1> QED BY <1>9 DEF CreateBook, LibraryInv, StoreInv, IssuedCovers

LEMMA DeleteRefines ==
    ASSUME LibraryInv, NEW ids \in SUBSET Books, NEW u \in Users, DeleteBooksData(ids, u)
    PROVE  Delete(ids, u)
  <1>1. \A k \in Owners \X Books : k \in {u} \X ids <=> k[1] = u /\ k[2] \in ids
    OBVIOUS
  <1>2. progress' = [k \in Owners \X Books |->
                       IF k[1] = u /\ k[2] \in ids THEN NoTime ELSE progress[k]]
    BY <1>1 DEF DeleteBooksData
  <1>3. bookmarks' = {m \in bookmarks : ~ (m[1] = u /\ m[2] \in ids)}
    BY DEF DeleteBooksData
  <1> QED BY <1>2, <1>3 DEF DeleteBooksData, Delete

(* The books a rename finds through the sort index are those of the category. *)
LEMMA CategoryMembers ==
    ASSUME LibraryInv, NEW u \in Users, NEW from \in Categories
    PROVE  {i \in Books : \E v \in Infos : <<"title", u, from, v, i>> \in categorySort}
             = {i \in Books : OwnedBy(i, u) /\ books[i].category = from}
  <1>1. \A x : x \in categorySort <=> \E j \in Books : x \in CategorySortKeys(j, books[j])
    BY DEF LibraryInv, AllCategorySortKeys
  <1>2. ASSUME NEW i \in Books, NEW v \in Infos, <<"title", u, from, v, i>> \in categorySort
        PROVE  OwnedBy(i, u) /\ books[i].category = from
    <2>1. PICK j \in Books : <<"title", u, from, v, i>> \in CategorySortKeys(j, books[j])
      BY <1>1, <1>2
    <2>2. HasOwner(books[j]) /\ <<"title", u, from, v, i>>
            \in {<<"title", books[j].owner, books[j].category, books[j].info, j>>,
                 <<"recent_read", books[j].owner, books[j].category, books[j].lastRead, j>>}
      BY <2>1 DEF CategorySortKeys, CategoryRecentKey
    <2>3. <<"title", u, from, v, i>> = <<"title", books[j].owner, books[j].category, books[j].info, j>>
      BY <2>2
    <2>4. i = j /\ u = books[j].owner /\ from = books[j].category
      BY <2>3
    <2> QED BY <2>2, <2>4 DEF OwnedBy, HasOwner
  <1>3. ASSUME NEW i \in Books, OwnedBy(i, u), books[i].category = from
        PROVE  \E v \in Infos : <<"title", u, from, v, i>> \in categorySort
    <2>1. books[i] \in Book BY <1>3 DEF OwnedBy, LibraryInv, StoreInv, StoreTypeOK
    <2>2. HasOwner(books[i]) BY <1>3, OwnerAssumption DEF OwnedBy, HasOwner
    <2>3. <<"title", u, from, books[i].info, i>> \in CategorySortKeys(i, books[i])
      BY <1>3, <2>2 DEF CategorySortKeys, OwnedBy
    <2> QED BY <1>1, <2>1, <2>3 DEF Book
  <1> QED BY <1>2, <1>3

LEMMA RenameRefines ==
    ASSUME LibraryInv, NEW u \in Users, NEW from \in Categories, NEW raw \in RawCategories,
           RenameBookCategory(u, from, raw)
    PROVE  RenameCategory(u, from, raw)
  BY CategoryMembers DEF RenameBookCategory, updateBooksCategoryInTx, RenameCategory

LEMMA AdoptRefines ==
    ASSUME LibraryInv, NEW u \in Users, AssignUnownedDataToUser(u)
    PROVE  AdoptUnowned(u)
  <1>1. books' = [i \in Books |-> IF OwnedBy(i, NoUser) THEN [books[i] EXCEPT !.owner = u]
                                                        ELSE books[i]]
    BY DEF AssignUnownedDataToUser
  <1>2. u # NoUser BY OwnerAssumption
  <1>3. progress' = [k \in Owners \X Books |->
                      CASE k[1] = NoUser -> NoTime
                        [] k[1] = u /\ progress[<<NoUser, k[2]>>] # NoTime
                             -> progress[<<NoUser, k[2]>>]
                        [] OTHER -> progress[k]]
    BY <1>2 DEF AssignUnownedDataToUser
  <1> QED BY <1>1, <1>3 DEF AssignUnownedDataToUser, AdoptUnowned

LEMMA StepRefines ==
    ASSUME LibraryInv, [Next]_vars
    PROVE  [StoreNext]_storeVars
  <1>1. ASSUME NEW i \in Books, NEW b \in RawBook, CreateBook(i, b) PROVE StoreNext
    BY <1>1, CreateRefines DEF StoreNext
  <1>2. ASSUME NEW i \in Books, NEW b \in RawBook, SaveBook(i, b) PROVE StoreNext
    <2>1. Save(i, b) BY <1>2 DEF SaveBook, PutBook, Save
    <2> QED BY <2>1 DEF StoreNext
  <1>3. ASSUME NEW ids \in SUBSET Books, NEW u \in Users, DeleteBooksData(ids, u)
        PROVE  StoreNext
    BY <1>3, DeleteRefines DEF StoreNext
  <1>4. ASSUME NEW ids \in SUBSET Books, NEW u \in Users, NEW raw \in RawCategories,
               UpdateBooksCategory(ids, u, raw)
        PROVE  StoreNext
    <2>1. Recategorize(ids, u, raw)
      BY <1>4 DEF UpdateBooksCategory, updateBooksCategoryInTx, Recategorize
    <2> QED BY <2>1 DEF StoreNext
  <1>5. ASSUME NEW u \in Users, NEW from \in Categories, NEW raw \in RawCategories,
               RenameBookCategory(u, from, raw)
        PROVE  StoreNext
    BY <1>5, RenameRefines DEF StoreNext
  <1>6. ASSUME NEW ids \in SUBSET Books, NEW hashes \in [ids -> Snapshots],
               BackfillBookContentHashes(hashes)
        PROVE  StoreNext
    <2>1. Backfill(hashes) BY <1>6 DEF BackfillBookContentHashes, Backfill
    <2> QED BY <2>1 DEF StoreNext
  <1>7. ASSUME NEW i \in Books, NEW u \in Users, NEW t \in Times,
               NEW expected \in Times \cup {NoTime}, SaveProgressIfCurrent(i, u, t, expected)
        PROVE  StoreNext
    <2>1. RecordProgress(i, u, t, expected)
      BY <1>7 DEF SaveProgressIfCurrent, RecordProgress
    <2> QED BY <2>1 DEF StoreNext
  <1>8. ASSUME NEW i \in Books, NEW u \in Users, NEW m \in Marks, SaveBookmark(i, u, m)
        PROVE  StoreNext
    <2>1. AddBookmark(i, u, m) BY <1>8 DEF SaveBookmark, AddBookmark
    <2> QED BY <2>1 DEF StoreNext
  <1>9. ASSUME NEW i \in Books, NEW u \in Users, NEW m \in Marks, DeleteBookmark(i, u, m)
        PROVE  StoreNext
    <2>1. RemoveBookmark(i, u, m) BY <1>9 DEF DeleteBookmark, RemoveBookmark
    <2> QED BY <2>1 DEF StoreNext
  <1>10. ASSUME NEW u \in Users, AssignUnownedDataToUser(u) PROVE StoreNext
    BY <1>10, AdoptRefines DEF StoreNext
  <1>11. CASE UNCHANGED vars BY <1>11 DEF vars, storeVars
  <1> QED BY <1>1, <1>2, <1>3, <1>4, <1>5, <1>6, <1>7, <1>8, <1>9, <1>10, <1>11 DEF Next

-----------------------------------------------------------------------------
(* Every transaction keeps every index exact. *)

LEMMA StoreInvStep ==
    ASSUME LibraryInv, [Next]_vars
    PROVE  StoreInv'
  BY StepRefines, StoreStepInv DEF LibraryInv

(* Creating and saving: the eight indexes move from old keys to new ones. *)
LEMMA PutBookStep ==
    ASSUME LibraryInv, StoreInv', NEW i \in Books, NEW b \in RawBook, PutBook(i, b)
    PROVE  LibraryInv'
  <1>1. \A j \in Books \ {i} : books'[j] = books[j]
    BY DEF PutBook, LibraryInv, StoreInv, StoreTypeOK
  <1>2. {i} \in SUBSET Books OBVIOUS
  <1>3. userBooks' = AllUserKeys(books', Books)
    BY <1>1, <1>2, UserIndexStep DEF PutBook
  <1>4. sortIndex' = AllSortKeys(books', Books) /\ categorySort' = AllCategorySortKeys(books', Books)
    BY <1>1, <1>2, SortIndexStep DEF PutBook
  <1>5. /\ members' = AllMemberKeys(books', Books) /\ CanonicalValid(canonical', members')
        /\ missing' = AllMissingKeys(books', Books)
    BY <1>1, <1>2, ContentIndexStep DEF PutBook
  <1>6. /\ gramIndex' = AllGramKeys(books', Books)
        /\ gramCounts' = [k \in Users \X Grams |-> CountGram(AllGramKeys(books', Books), k)]
    BY <1>1, <1>2, GramIndexStep DEF PutBook
  <1>7. summary' = LibrarySummaryOf(books')
    BY <1>1, <1>2, SummaryStep DEF PutBook
  <1>8. searchIndex' = AddSearchText(NoText, books', Books)
    BY <1>1, <1>2, SearchTextStep DEF PutBook
  <1>9. progressTime' = ProgressTimeKeys(progress', Users \X Books)
    BY DEF PutBook, LibraryInv
  <1>10. NoText' = NoText BY DEF NoText
  <1>11. CountersExact' BY <1>6, <1>7 DEF CountersExact
  <1> QED BY <1>3, <1>4, <1>5, <1>6, <1>8, <1>9, <1>10, <1>11 DEF LibraryInv

LEMMA TimeKeyMembers ==
    ASSUME NEW p, NEW keys, NEW x
    PROVE  x \in ProgressTimeKeys(p, keys)
             <=> \E k \in keys : p[k] # NoTime /\ x = <<k[1], p[k], k[2]>>
  BY DEF ProgressTimeKeys

LEMMA DeleteStep ==
    ASSUME LibraryInv, StoreInv', NEW ids \in SUBSET Books, NEW u \in Users,
           DeleteBooksData(ids, u)
    PROVE  LibraryInv'
  <1>1. /\ \A j \in Books \ ids : books'[j] = books[j]
        /\ \A j \in ids : books'[j] = NoBook
    BY DEF DeleteBooksData
  <1>2. userBooks' = AllUserKeys(books', Books)
    BY <1>1, UserIndexStep DEF DeleteBooksData
  <1>3. sortIndex' = AllSortKeys(books', Books) /\ categorySort' = AllCategorySortKeys(books', Books)
    BY <1>1, SortIndexStep DEF DeleteBooksData
  <1>4. /\ members' = AllMemberKeys(books', Books) /\ CanonicalValid(canonical', members')
        /\ missing' = AllMissingKeys(books', Books)
    BY <1>1, ContentIndexStep DEF DeleteBooksData
  <1>5. /\ gramIndex' = AllGramKeys(books', Books)
        /\ gramCounts' = [k \in Users \X Grams |-> CountGram(AllGramKeys(books', Books), k)]
    BY <1>1, GramIndexStep DEF DeleteBooksData
  <1>6. summary' = LibrarySummaryOf(books')
    <2>1. \A v, c : /\ CountOwned(books', {}, v) = CountOwned(books', ids, v)
                    /\ CountIn(books', {}, v, c) = CountIn(books', ids, v, c)
      BY <1>1 DEF CountOwned, CountIn
    <2>2. summary' = adjustLibrarySummary(books, ids, books', ids)
      BY <2>1 DEF DeleteBooksData, adjustLibrarySummary
    <2> QED BY <1>1, <2>2, SummaryStep
  <1>7. searchIndex' = AddSearchText(NoText, books', Books)
    <2>1. AddSearchText(RemoveSearchText(books, ids), books', ids) = RemoveSearchText(books, ids)
      BY <1>1 DEF AddSearchText, RemoveSearchText
    <2> QED BY <1>1, <2>1, SearchTextStep DEF DeleteBooksData, ReplaceSearchText
  <1>8. progressTime' = ProgressTimeKeys(progress', Users \X Books)
    <2>1. \A k \in Users \X Books : progress'[k] = IF k \in {u} \X ids THEN NoTime ELSE progress[k]
      BY DEF DeleteBooksData, Owners
    <2>2. progressTime' = ProgressTimeKeys(progress, Users \X Books)
                            \ ProgressTimeKeys(progress, {u} \X ids)
      BY DEF DeleteBooksData, LibraryInv
    <2>3. ASSUME NEW x \in progressTime' PROVE x \in ProgressTimeKeys(progress', Users \X Books)
      <3>1. PICK k \in Users \X Books : progress[k] # NoTime /\ x = <<k[1], progress[k], k[2]>>
        BY <2>2, <2>3, TimeKeyMembers
      <3>2. k \notin {u} \X ids
        BY <2>2, <2>3, <3>1, TimeKeyMembers
      <3>3. progress'[k] = progress[k] BY <2>1, <3>2
      <3> QED BY <3>1, <3>3, TimeKeyMembers
    <2>4. ASSUME NEW x \in ProgressTimeKeys(progress', Users \X Books) PROVE x \in progressTime'
      <3>1. PICK k \in Users \X Books : progress'[k] # NoTime /\ x = <<k[1], progress'[k], k[2]>>
        BY <2>4, TimeKeyMembers
      <3>2. k \notin {u} \X ids /\ progress'[k] = progress[k]
        BY <2>1, <3>1
      <3>3. x \in ProgressTimeKeys(progress, Users \X Books)
        BY <3>1, <3>2, TimeKeyMembers
      <3>4. \A n \in {u} \X ids : x # <<n[1], progress[n], n[2]>>
        BY <3>1, <3>2
      <3> QED BY <2>2, <3>3, <3>4, TimeKeyMembers
    <2> QED BY <2>3, <2>4
  <1>9. NoText' = NoText BY DEF NoText
  <1>10. CountersExact' BY <1>5, <1>6 DEF CountersExact
  <1> QED BY <1>2, <1>3, <1>4, <1>5, <1>7, <1>8, <1>9, <1>10 DEF LibraryInv

(* An index whose keys do not change record by record does not change. *)
LEMMA SameKeys ==
    ASSUME NEW bs, NEW bs2
    PROVE  /\ (\A i \in Books : UserKeys(i, bs2[i]) = UserKeys(i, bs[i]))
                => AllUserKeys(bs2, Books) = AllUserKeys(bs, Books)
           /\ (\A i \in Books : MemberKeys(i, bs2[i]) = MemberKeys(i, bs[i]))
                => AllMemberKeys(bs2, Books) = AllMemberKeys(bs, Books)
           /\ (\A i \in Books : MissingKeys(i, bs2[i]) = MissingKeys(i, bs[i]))
                => AllMissingKeys(bs2, Books) = AllMissingKeys(bs, Books)
           /\ (\A i \in Books : SortKeys(i, bs2[i]) = SortKeys(i, bs[i]))
                => AllSortKeys(bs2, Books) = AllSortKeys(bs, Books)
           /\ (\A i \in Books : CategorySortKeys(i, bs2[i]) = CategorySortKeys(i, bs[i]))
                => AllCategorySortKeys(bs2, Books) = AllCategorySortKeys(bs, Books)
           /\ (\A i \in Books : GramKeys(i, bs2[i]) = GramKeys(i, bs[i]))
                => AllGramKeys(bs2, Books) = AllGramKeys(bs, Books)
  <1>1. ASSUME \A i \in Books : UserKeys(i, bs2[i]) = UserKeys(i, bs[i])
        PROVE  AllUserKeys(bs2, Books) = AllUserKeys(bs, Books)
    BY <1>1 DEF AllUserKeys
  <1>2. ASSUME \A i \in Books : MemberKeys(i, bs2[i]) = MemberKeys(i, bs[i])
        PROVE  AllMemberKeys(bs2, Books) = AllMemberKeys(bs, Books)
    BY <1>2 DEF AllMemberKeys
  <1>3. ASSUME \A i \in Books : MissingKeys(i, bs2[i]) = MissingKeys(i, bs[i])
        PROVE  AllMissingKeys(bs2, Books) = AllMissingKeys(bs, Books)
    BY <1>3 DEF AllMissingKeys
  <1>4. ASSUME \A i \in Books : SortKeys(i, bs2[i]) = SortKeys(i, bs[i])
        PROVE  AllSortKeys(bs2, Books) = AllSortKeys(bs, Books)
    BY <1>4 DEF AllSortKeys
  <1>5. ASSUME \A i \in Books : CategorySortKeys(i, bs2[i]) = CategorySortKeys(i, bs[i])
        PROVE  AllCategorySortKeys(bs2, Books) = AllCategorySortKeys(bs, Books)
    BY <1>5 DEF AllCategorySortKeys
  <1>6. ASSUME \A i \in Books : GramKeys(i, bs2[i]) = GramKeys(i, bs[i])
        PROVE  AllGramKeys(bs2, Books) = AllGramKeys(bs, Books)
    BY <1>6 DEF AllGramKeys
  <1> QED BY <1>1, <1>2, <1>3, <1>4, <1>5, <1>6

(* The content index, the backlog and the user index ignore the category. *)
LEMMA CategoryStep ==
    ASSUME LibraryInv, StoreInv', NEW ids \in SUBSET Books, NEW u \in Users,
           NEW raw \in RawCategories, updateBooksCategoryInTx(ids, u, raw)
    PROVE  LibraryInv'
  <1> DEFINE c == Trim[raw]
  <1>1. /\ \A j \in Books \ ids : books'[j] = books[j]
        /\ \A j \in ids : books'[j] = [books[j] EXCEPT !.category = c]
    BY DEF updateBooksCategoryInTx, WithCategory
  <1>2. \A j \in ids : /\ books[j] \in Book /\ books[j] # NoBook
                       /\ books[j].owner = u
    BY DEF updateBooksCategoryInTx, OwnedBy, LibraryInv, StoreInv, StoreTypeOK
  <1>3. \A j \in ids : /\ books'[j] # NoBook /\ books'[j].owner = books[j].owner
                       /\ books'[j].hash = books[j].hash
    <2>1. c \in Categories \cup {NoCategory} BY TrimType
    <2>2. \A j \in ids : books'[j] \in Book /\ books'[j].owner = books[j].owner
      <3> SUFFICES ASSUME NEW j \in ids
                   PROVE  books'[j] \in Book /\ books'[j].owner = books[j].owner
        OBVIOUS
      <3>1. books[j] \in Book /\ books'[j] = [books[j] EXCEPT !.category = c]
        BY <1>1, <1>2
      <3> HIDE DEF c
      <3> QED BY <2>1, <3>1 DEF Book
    <2>3. \A j \in ids : books'[j].hash = books[j].hash
      BY <1>1, <1>2 DEF Book
    <2> QED BY <2>2, <2>3, RecordAssumption
  <1>4. userBooks' = AllUserKeys(books', Books)
    <2>1. \A i \in Books : UserKeys(i, books'[i]) = UserKeys(i, books[i])
      BY <1>1, <1>2, <1>3 DEF UserKeys, HasOwner
    <2> QED BY <2>1, SameKeys DEF updateBooksCategoryInTx, LibraryInv
  <1>5. /\ members' = AllMemberKeys(books', Books) /\ CanonicalValid(canonical', members')
        /\ missing' = AllMissingKeys(books', Books)
    <2>1. \A i \in Books : /\ MemberKeys(i, books'[i]) = MemberKeys(i, books[i])
                           /\ MissingKeys(i, books'[i]) = MissingKeys(i, books[i])
      BY <1>1, <1>2, <1>3 DEF MemberKeys, MissingKeys, HasOwner
    <2> QED BY <2>1, SameKeys DEF updateBooksCategoryInTx, LibraryInv, contentVars
  <1>6. sortIndex' = AllSortKeys(books', Books) /\ categorySort' = AllCategorySortKeys(books', Books)
    BY <1>1, SortIndexStep DEF updateBooksCategoryInTx
  <1>7. /\ gramIndex' = AllGramKeys(books', Books)
        /\ gramCounts' = [k \in Users \X Grams |-> CountGram(AllGramKeys(books', Books), k)]
    BY <1>1, GramIndexStep DEF updateBooksCategoryInTx
  <1>8. summary' = LibrarySummaryOf(books')
    BY <1>1, SummaryStep DEF updateBooksCategoryInTx
  <1>9. searchIndex' = AddSearchText(NoText, books', Books)
    <2>1. \A k \in Users \X Books :
            AddSearchText(searchIndex, books', ids)[k]
              = AddSearchText(RemoveSearchText(books, ids), books', ids)[k]
      BY <1>2, <1>3 DEF AddSearchText, RemoveSearchText
    <2>2. AddSearchText(searchIndex, books', ids)
            = AddSearchText(RemoveSearchText(books, ids), books', ids)
      BY <2>1 DEF AddSearchText
    <2> QED BY <1>1, <2>2, SearchTextStep DEF updateBooksCategoryInTx, ReplaceSearchText
  <1>10. progressTime' = ProgressTimeKeys(progress', Users \X Books)
    BY DEF updateBooksCategoryInTx, LibraryInv
  <1>11. NoText' = NoText BY DEF NoText
  <1>12. CountersExact' BY <1>7, <1>8 DEF CountersExact
  <1> QED BY <1>4, <1>5, <1>6, <1>7, <1>9, <1>10, <1>11, <1>12 DEF LibraryInv

(* The user index, the search index and the counters depend on nothing but *)
(* the owner, the text and the category of the records.                    *)
LEMMA UntouchedIndexes ==
    ASSUME LibraryInv,
           \A j \in Books : /\ books'[j] # NoBook <=> books[j] # NoBook
                            /\ books'[j].owner = books[j].owner
                            /\ books'[j].info = books[j].info
                            /\ books'[j].category = books[j].category,
           UNCHANGED <<userBooks, searchVars, summary>>
    PROVE  /\ userBooks' = AllUserKeys(books', Books)
           /\ gramIndex' = AllGramKeys(books', Books)
           /\ searchIndex' = AddSearchText(NoText, books', Books)
           /\ CountersExact'
  <1>1. userBooks' = AllUserKeys(books', Books)
    <2>1. \A i \in Books : UserKeys(i, books'[i]) = UserKeys(i, books[i])
      BY DEF UserKeys, HasOwner
    <2> QED BY <2>1, SameKeys DEF LibraryInv
  <1>2. gramIndex' = AllGramKeys(books', Books) /\ AllGramKeys(books', Books) = AllGramKeys(books, Books)
    <2>1. ASSUME NEW i \in Books PROVE GramKeys(i, books'[i]) = GramKeys(i, books[i])
      <3>1. GramsOf(books'[i]) = GramsOf(books[i]) BY DEF GramsOf
      <3>2. HasOwner(books'[i]) <=> HasOwner(books[i]) BY DEF HasOwner
      <3> QED BY <3>1, <3>2 DEF GramKeys
    <2> QED BY <2>1, SameKeys DEF LibraryInv, searchVars
  <1>3. searchIndex' = AddSearchText(NoText, books', Books)
    <2>1. AddSearchText(NoText, books', Books) = AddSearchText(NoText, books, Books)
      BY DEF AddSearchText, SearchText
    <2> QED BY <2>1 DEF LibraryInv, searchVars
  <1>4. CountersExact'
    <2>1. \A u, c : /\ CountOwned(books', Books, u) = CountOwned(books, Books, u)
                    /\ CountIn(books', Books, u, c) = CountIn(books, Books, u, c)
      BY DEF CountOwned, CountIn
    <2>2. LibrarySummaryOf(books') = LibrarySummaryOf(books)
      BY <2>1 DEF LibrarySummaryOf
    <2> QED BY <1>2, <2>2 DEF LibraryInv, CountersExact, searchVars
  <1> QED BY <1>1, <1>2, <1>3, <1>4

(* The shelf, the search index and the counters ignore the hash. *)
LEMMA BackfillStep ==
    ASSUME LibraryInv, StoreInv', NEW dom \in SUBSET Books, NEW hashes \in [dom -> Snapshots],
           BackfillBookContentHashes(hashes)
    PROVE  LibraryInv'
  <1> DEFINE ids == Refreshable(hashes)
  <1>1. ids \in SUBSET Books BY DEF Refreshable
  <1>2. /\ \A j \in Books \ ids : books'[j] = books[j]
        /\ \A j \in ids : books'[j] = [books[j] EXCEPT !.hash = hashes[j].hash]
    BY <1>1 DEF BackfillBookContentHashes
  <1>3. \A j \in ids : books[j] \in Book /\ books[j] # NoBook /\ books[j].hash = NoHash
    BY DEF Refreshable, OwnedBy, LibraryInv, StoreInv, StoreTypeOK
  <1>4. \A j \in ids : /\ books'[j].owner = books[j].owner
                       /\ books'[j].info = books[j].info
                       /\ books'[j].category = books[j].category
                       /\ books'[j].lastRead = books[j].lastRead
    BY <1>2, <1>3 DEF Book
  <1>5. \A j \in ids : books'[j] # NoBook
    <2>1. \A j \in ids : hashes[j].hash \in Hashes BY DEF Refreshable, Snapshots
    <2>2. ASSUME NEW j \in ids PROVE books'[j] \in Book
      BY <1>2, <1>3, <2>1 DEF Book
    <2> QED BY <2>2, RecordAssumption
  <1> HIDE DEF ids
  <1>6. /\ userBooks' = AllUserKeys(books', Books)
        /\ gramIndex' = AllGramKeys(books', Books)
        /\ searchIndex' = AddSearchText(NoText, books', Books)
        /\ CountersExact'
    <2>1. \A j \in Books : /\ books'[j] # NoBook <=> books[j] # NoBook
                           /\ books'[j].owner = books[j].owner
                           /\ books'[j].info = books[j].info
                           /\ books'[j].category = books[j].category
      BY <1>2, <1>3, <1>4, <1>5
    <2> QED BY <2>1, UntouchedIndexes DEF BackfillBookContentHashes
  <1>7. sortIndex' = AllSortKeys(books', Books) /\ categorySort' = AllCategorySortKeys(books', Books)
    <2>1. \A i \in Books : /\ SortKeys(i, books'[i]) = SortKeys(i, books[i])
                           /\ CategorySortKeys(i, books'[i]) = CategorySortKeys(i, books[i])
      BY <1>2, <1>3, <1>4, <1>5
         DEF SortKeys, CategorySortKeys, RecentKey, CategoryRecentKey, HasOwner
    <2> QED BY <2>1, SameKeys DEF BackfillBookContentHashes, LibraryInv, sortVars
  <1>8. AllMemberKeys(books, ids) = {}
    BY <1>1, <1>3 DEF AllMemberKeys, MemberKeys
  <1>9. members' = AllMemberKeys(books', Books)
    <2>1. members' = members \cup AllMemberKeys(books', ids)
      BY DEF BackfillBookContentHashes, ids
    <2>2. (members \ AllMemberKeys(books, ids)) \cup AllMemberKeys(books', ids) = AllMemberKeys(books', Books)
      BY <1>1, <1>2, ReplaceMember DEF LibraryInv
    <2> QED BY <1>8, <2>1, <2>2
  <1>10. CanonicalValid(canonical', members')
    BY CanonicalAdd DEF BackfillBookContentHashes, LibraryInv
  <1>11. missing' = AllMissingKeys(books', Books)
    <2>1. AllBacklogKeys(books', ids) = AllBacklogKeys(books, ids)
      <3>1. \A i \in ids : BacklogKeys(i, books'[i]) = BacklogKeys(i, books[i])
        BY <1>3, <1>4, <1>5 DEF BacklogKeys
      <3> QED BY <3>1 DEF AllBacklogKeys
    <2>2. missing' = trackMissingBookHash(missing \ AllBacklogKeys(books, ids), books', ids)
      BY <2>1 DEF BackfillBookContentHashes, trackMissingBookHash, ids
    <2> QED BY <1>1, <1>2, <2>2, ReplaceMissing DEF LibraryInv
  <1>12. progressTime' = ProgressTimeKeys(progress', Users \X Books)
    BY DEF BackfillBookContentHashes, LibraryInv
  <1>13. NoText' = NoText BY DEF NoText
  <1> QED BY <1>6, <1>7, <1>9, <1>10, <1>11, <1>12, <1>13 DEF LibraryInv

(* Progress moves the book in the two time orders and nowhere else. *)
LEMMA ProgressStep ==
    ASSUME LibraryInv, StoreInv', NEW i \in Books, NEW u \in Users, NEW t \in Times,
           NEW expected \in Times \cup {NoTime}, SaveProgressIfCurrent(i, u, t, expected)
    PROVE  LibraryInv'
  <1>1. books[i] \in Book /\ books[i] # NoBook /\ books[i].owner = u /\ books[i].owner # NoUser
    BY OwnerAssumption
       DEF SaveProgressIfCurrent, OwnedBy, LibraryInv, StoreInv, StoreTypeOK
  <1>2. /\ \A j \in Books \ {i} : books'[j] = books[j]
        /\ books'[i] = [books[i] EXCEPT !.lastRead = t]
    BY DEF SaveProgressIfCurrent, LibraryInv, StoreInv, StoreTypeOK
  <1>3. /\ books'[i].owner = books[i].owner
        /\ books'[i].info = books[i].info
        /\ books'[i].category = books[i].category
        /\ books'[i].hash = books[i].hash
        /\ books'[i].lastRead = t
        /\ books[i].lastRead = t => books'[i] = books[i]
        /\ books'[i] \in Book
    BY <1>1, <1>2 DEF Book
  <1>4. books'[i] # NoBook BY <1>3, RecordAssumption
  <1>5. HasOwner(books[i]) /\ HasOwner(books'[i]) BY <1>1, <1>3, <1>4 DEF HasOwner
  <1>6. /\ userBooks' = AllUserKeys(books', Books)
        /\ gramIndex' = AllGramKeys(books', Books)
        /\ searchIndex' = AddSearchText(NoText, books', Books)
        /\ CountersExact'
    <2>1. \A j \in Books : /\ books'[j] # NoBook <=> books[j] # NoBook
                           /\ books'[j].owner = books[j].owner
                           /\ books'[j].info = books[j].info
                           /\ books'[j].category = books[j].category
      BY <1>1, <1>2, <1>3, <1>4
    <2> QED BY <2>1, UntouchedIndexes DEF SaveProgressIfCurrent
  <1>7. /\ members' = AllMemberKeys(books', Books) /\ CanonicalValid(canonical', members')
        /\ missing' = AllMissingKeys(books', Books)
    <2>1. \A j \in Books : /\ MemberKeys(j, books'[j]) = MemberKeys(j, books[j])
                           /\ MissingKeys(j, books'[j]) = MissingKeys(j, books[j])
      BY <1>1, <1>2, <1>3, <1>4 DEF MemberKeys, MissingKeys, HasOwner
    <2> QED BY <2>1, SameKeys DEF SaveProgressIfCurrent, LibraryInv, contentVars
  <1>8. sortIndex' = AllSortKeys(books', Books) /\ categorySort' = AllCategorySortKeys(books', Books)
    <2>1. CASE books[i].lastRead = t
      <3>1. \A j \in Books : books'[j] = books[j] BY <1>2, <1>3, <2>1
      <3> QED BY <2>1, <3>1, SameKeys DEF SaveProgressIfCurrent, LibraryInv, sortVars
    <2>2. CASE books[i].lastRead # t
      <3> DEFINE T  == <<"title", u, books[i].info, i>>
                 R  == RecentKey(i, books[i])
                 R2 == RecentKey(i, books'[i])
                 CT == <<"title", u, books[i].category, books[i].info, i>>
                 CR  == CategoryRecentKey(i, books[i])
                 CR2 == CategoryRecentKey(i, books'[i])
      <3>1. /\ AllSortKeys(books, {i}) = {T, R}
            /\ AllSortKeys(books', {i}) = {T, R2}
        BY <1>1, <1>3, <1>5 DEF AllSortKeys, SortKeys
      <3>2. /\ AllCategorySortKeys(books, {i}) = {CT, CR}
            /\ AllCategorySortKeys(books', {i}) = {CT, CR2}
        BY <1>1, <1>3, <1>5 DEF AllCategorySortKeys, CategorySortKeys
      <3>3. T # R /\ CT # CR BY DEF RecentKey, CategoryRecentKey
      <3>4. T \in sortIndex /\ CT \in categorySort
        <4>1. T \in SortKeys(i, books[i]) /\ CT \in CategorySortKeys(i, books[i])
          BY <1>1, <1>5 DEF SortKeys, CategorySortKeys
        <4> QED BY <4>1 DEF LibraryInv, AllSortKeys, AllCategorySortKeys
      <3>5. /\ sortIndex' = (sortIndex \ {R}) \cup {R2}
            /\ categorySort' = (categorySort \ {CR}) \cup {CR2}
        BY <2>2 DEF SaveProgressIfCurrent
      <3> HIDE DEF T, R, R2, CT, CR, CR2
      <3>6. /\ sortIndex' = (sortIndex \ {T, R}) \cup {T, R2}
            /\ categorySort' = (categorySort \ {CT, CR}) \cup {CT, CR2}
        BY <3>3, <3>4, <3>5
      <3>7. ReplaceSortKeys(books, books', {i})
        BY <3>1, <3>2, <3>6 DEF ReplaceSortKeys
      <3> QED BY <1>2, <3>7, SortIndexStep
    <2> QED BY <2>1, <2>2
  <1>9. progressTime' = ProgressTimeKeys(progress', Users \X Books)
    <2> DEFINE previous == progress[<<u, i>>]
    <2>1. /\ progress'[<<u, i>>] = t /\ t # NoTime
          /\ \A k \in Users \X Books : k # <<u, i>> => progress'[k] = progress[k]
      BY TimeAssumption DEF SaveProgressIfCurrent, LibraryInv, StoreInv, StoreTypeOK, Owners
    <2>2. progressTime' = (IF previous \in {NoTime, t} THEN progressTime
                                                       ELSE progressTime \ {<<u, previous, i>>})
                            \cup {<<u, t, i>>}
      BY DEF SaveProgressIfCurrent, MoveTimeKey
    <2>3. progressTime = ProgressTimeKeys(progress, Users \X Books) BY DEF LibraryInv
    <2>4. <<u, i>> \in Users \X Books OBVIOUS
    <2>5. <<u, t, i>> \in ProgressTimeKeys(progress', Users \X Books)
      BY <2>1, <2>4, TimeKeyMembers
    <2>6. ASSUME NEW x \in progressTime', x # <<u, t, i>>
          PROVE  x \in ProgressTimeKeys(progress', Users \X Books)
      <3>1. x \in progressTime BY <2>2, <2>6
      <3>2. PICK k \in Users \X Books : progress[k] # NoTime /\ x = <<k[1], progress[k], k[2]>>
        BY <2>3, <3>1, TimeKeyMembers
      <3>3. k # <<u, i>>
        <4>1. SUFFICES ASSUME k = <<u, i>> PROVE FALSE OBVIOUS
        <4>2. x = <<u, previous, i>> /\ previous # NoTime BY <3>2, <4>1
        <4>3. previous # t BY <2>6, <4>2
        <4> QED BY <2>2, <2>6, <4>2, <4>3
      <3> QED BY <2>1, <3>2, <3>3, TimeKeyMembers
    <2>7. ASSUME NEW x \in ProgressTimeKeys(progress', Users \X Books) PROVE x \in progressTime'
      <3>1. PICK k \in Users \X Books : progress'[k] # NoTime /\ x = <<k[1], progress'[k], k[2]>>
        BY <2>7, TimeKeyMembers
      <3>2. CASE k = <<u, i>> BY <2>1, <2>2, <3>1, <3>2
      <3>3. CASE k # <<u, i>>
        <4>1. x \in progressTime BY <2>1, <2>3, <3>1, <3>3, TimeKeyMembers
        <4>2. x # <<u, previous, i>> BY <3>1, <3>3
        <4> QED BY <2>2, <4>1, <4>2
      <3> QED BY <3>2, <3>3
    <2> QED BY <2>5, <2>6, <2>7
  <1>10. NoText' = NoText BY DEF NoText
  <1> QED BY <1>6, <1>7, <1>8, <1>9, <1>10 DEF LibraryInv

(* Adoption extends the user index in place and rebuilds the others. *)
LEMMA AdoptStep ==
    ASSUME LibraryInv, StoreInv', NEW u \in Users, AssignUnownedDataToUser(u)
    PROVE  LibraryInv'
  <1> DEFINE adopted == {i \in Books : OwnedBy(i, NoUser)}
  <1>1. \A i \in adopted : /\ books[i] \in Book /\ books[i].owner = NoUser
                           /\ books'[i] = [books[i] EXCEPT !.owner = u]
    BY DEF AssignUnownedDataToUser, OwnedBy, LibraryInv, StoreInv, StoreTypeOK
  <1>2. \A i \in adopted : HasOwner(books'[i]) /\ books'[i].owner = u
    <2>1. \A i \in adopted : books'[i] \in Book /\ books'[i].owner = u
      BY <1>1 DEF Book, Owners
    <2> QED BY <2>1, OwnerAssumption, RecordAssumption DEF HasOwner
  <1>3. \A i \in Books \ adopted : books'[i] = books[i]
    BY DEF AssignUnownedDataToUser
  <1>4. userBooks' = userBooks \cup ({u} \X adopted)
    BY DEF AssignUnownedDataToUser
  <1> HIDE DEF adopted
  <1>5. userBooks' = AllUserKeys(books', Books)
    <2>1. adopted \subseteq Books BY DEF adopted
    <2>2. \A f, W, x : x \in AllUserKeys(f, W) <=> \E i \in W : x \in UserKeys(i, f[i])
      BY DEF AllUserKeys
    <2>3. \A i \in adopted : /\ UserKeys(i, books[i]) = {}
                             /\ UserKeys(i, books'[i]) = {<<u, i>>}
      BY <1>1, <1>2 DEF UserKeys, HasOwner
    <2>4. AllUserKeys(books, adopted) = {}
      BY <2>2, <2>3
    <2>5. AllUserKeys(books', adopted) = {u} \X adopted
      BY <2>2, <2>3
    <2>6. (AllUserKeys(books, Books) \ AllUserKeys(books, adopted)) \cup AllUserKeys(books', adopted)
            = AllUserKeys(books', Books)
      BY <1>3, <2>1, ReplaceUser
    <2> QED BY <1>4, <2>4, <2>5, <2>6 DEF LibraryInv
  <1>6. CanonicalValid(canonical', members')
    <2>1. CanonicalValid(addBookToContentIndex([k \in Users \X Hashes |-> NoBook], books', Books),
                         {} \cup AllMemberKeys(books', Books))
      BY CanonicalEmpty, CanonicalAdd
    <2> QED BY <2>1 DEF AssignUnownedDataToUser, rebuildBookContentIndex
  <1>7. NoText' = NoText BY DEF NoText
  <1>8. searchIndex' = AddSearchText(NoText, books', Books)
    BY DEF AssignUnownedDataToUser, rebuildBookSearchIndex, NoText
  <1>9. /\ sortIndex' = AllSortKeys(books', Books)
        /\ categorySort' = AllCategorySortKeys(books', Books)
        /\ missing' = AllMissingKeys(books', Books)
        /\ members' = AllMemberKeys(books', Books)
        /\ gramIndex' = AllGramKeys(books', Books)
        /\ progressTime' = ProgressTimeKeys(progress', Users \X Books)
        /\ CountersExact'
    BY DEF AssignUnownedDataToUser, rebuildBookSortIndex, rebuildMissingBookHashIndex,
           rebuildBookContentIndex, rebuildBookSearchGramIndex, rebuildProgressTimeIndex,
           rebuildLibrarySummaryIndex, CountersExact
  <1> QED BY <1>5, <1>6, <1>7, <1>8, <1>9 DEF LibraryInv

LEMMA LibraryInitInv == Init => LibraryInv
  <1> SUFFICES ASSUME Init PROVE LibraryInv
    OBVIOUS
  <1>1. StoreInv BY StoreInitInv DEF Init
  <1>2. CanonicalValid(canonical, members)
    <2>1. CanonicalValid(addBookToContentIndex([k \in Users \X Hashes |-> NoBook], books, Books),
                         {} \cup AllMemberKeys(books, Books))
      BY CanonicalEmpty, CanonicalAdd
    <2> QED BY <2>1 DEF Init
  <1>3. searchIndex = AddSearchText(NoText, books, Books) BY DEF Init, NoText
  <1>4. CountersExact BY DEF Init, CountersExact
  <1> QED BY <1>1, <1>2, <1>3, <1>4 DEF Init, LibraryInv

LEMMA LibraryStepInv == LibraryInv /\ [Next]_vars => LibraryInv'
  <1> SUFFICES ASSUME LibraryInv, [Next]_vars PROVE LibraryInv'
    OBVIOUS
  <1>0. StoreInv' BY StoreInvStep
  <1>1. ASSUME NEW i \in Books, NEW b \in RawBook, CreateBook(i, b) PROVE LibraryInv'
    BY <1>0, <1>1, PutBookStep DEF CreateBook
  <1>2. ASSUME NEW i \in Books, NEW b \in RawBook, SaveBook(i, b) PROVE LibraryInv'
    BY <1>0, <1>2, PutBookStep DEF SaveBook
  <1>3. ASSUME NEW ids \in SUBSET Books, NEW u \in Users, DeleteBooksData(ids, u)
        PROVE  LibraryInv'
    BY <1>0, <1>3, DeleteStep
  <1>4. ASSUME NEW ids \in SUBSET Books, NEW u \in Users, NEW raw \in RawCategories,
               UpdateBooksCategory(ids, u, raw)
        PROVE  LibraryInv'
    BY <1>0, <1>4, CategoryStep DEF UpdateBooksCategory
  <1>5. ASSUME NEW u \in Users, NEW from \in Categories, NEW raw \in RawCategories,
               RenameBookCategory(u, from, raw)
        PROVE  LibraryInv'
    <2> DEFINE ids == {i \in Books : \E v \in Infos : <<"title", u, from, v, i>> \in categorySort}
    <2>1. ids \in SUBSET Books /\ updateBooksCategoryInTx(ids, u, raw)
      BY <1>5 DEF RenameBookCategory
    <2> HIDE DEF ids
    <2> QED BY <1>0, <2>1, CategoryStep
  <1>6. ASSUME NEW ids \in SUBSET Books, NEW hashes \in [ids -> Snapshots],
               BackfillBookContentHashes(hashes)
        PROVE  LibraryInv'
    BY <1>0, <1>6, BackfillStep
  <1>7. ASSUME NEW i \in Books, NEW u \in Users, NEW t \in Times,
               NEW expected \in Times \cup {NoTime}, SaveProgressIfCurrent(i, u, t, expected)
        PROVE  LibraryInv'
    BY <1>0, <1>7, ProgressStep
  <1>8. ASSUME UNCHANGED <<books, progress, indexVars>> PROVE LibraryInv'
    <2>1. /\ userBooks' = userBooks /\ sortIndex' = sortIndex /\ categorySort' = categorySort
          /\ missing' = missing /\ members' = members /\ canonical' = canonical
          /\ gramIndex' = gramIndex /\ gramCounts' = gramCounts /\ searchIndex' = searchIndex
          /\ summary' = summary /\ progressTime' = progressTime
          /\ books' = books /\ progress' = progress
      BY <1>8 DEF indexVars, contentVars, sortVars, searchVars
    <2>2. CountersExact' BY <2>1 DEF LibraryInv, CountersExact
    <2>3. NoText' = NoText BY DEF NoText
    <2> QED BY <1>0, <2>1, <2>2, <2>3 DEF LibraryInv
  <1>9. ASSUME NEW i \in Books, NEW u \in Users, NEW m \in Marks,
               SaveBookmark(i, u, m) \/ DeleteBookmark(i, u, m)
        PROVE  LibraryInv'
    BY <1>8, <1>9 DEF SaveBookmark, DeleteBookmark
  <1>10. ASSUME NEW u \in Users, AssignUnownedDataToUser(u) PROVE LibraryInv'
    BY <1>0, <1>10, AdoptStep
  <1>11. CASE UNCHANGED vars
    BY <1>8, <1>11 DEF vars, storeVars
  <1> QED BY <1>1, <1>2, <1>3, <1>4, <1>5, <1>6, <1>7, <1>9, <1>10, <1>11 DEF Next

-----------------------------------------------------------------------------

LEMMA LibraryInvariant == Spec => []LibraryInv
  BY LibraryInitInv, LibraryStepInv, PTL DEF Spec

LEMMA InvTypeOK == LibraryInv => TypeOK
  <1> SUFFICES ASSUME LibraryInv PROVE TypeOK
    OBVIOUS
  <1>1. StoreTypeOK BY DEF LibraryInv, StoreInv
  <1>2. ASSUME NEW i \in Books
        PROVE  /\ UserKeys(i, books[i]) \subseteq Users \X Books
               /\ MemberKeys(i, books[i]) \subseteq Users \X Hashes \X Books
               /\ MissingKeys(i, books[i]) \subseteq Owners \X Books
               /\ GramKeys(i, books[i]) \subseteq Users \X Grams \X Books
    <2>1. CASE books[i] = NoBook
      BY <2>1 DEF UserKeys, MemberKeys, MissingKeys, GramKeys, HasOwner
    <2>2. CASE books[i] # NoBook
      <3>1. /\ books[i].owner \in Owners /\ books[i].hash \in Hashes \cup {NoHash}
            /\ books[i].info \in Infos /\ books[i].category \in Categories \cup {NoCategory}
        BY <1>1, <2>2 DEF StoreTypeOK, Book
      <3>2. GramsOf(books[i]) \subseteq Grams
        BY <3>1, GramAssumption, CategoryAssumption DEF GramsOf
      <3> QED BY <3>1, <3>2 DEF UserKeys, MemberKeys, MissingKeys, GramKeys, HasOwner, Owners
    <2> QED BY <2>1, <2>2
  <1>3. userBooks \subseteq Users \X Books
    BY <1>2 DEF LibraryInv, AllUserKeys
  <1>4. members \subseteq Users \X Hashes \X Books
    BY <1>2 DEF LibraryInv, AllMemberKeys
  <1>5. missing \subseteq Owners \X Books
    BY <1>2 DEF LibraryInv, AllMissingKeys
  <1>6. gramIndex \subseteq Users \X Grams \X Books
    BY <1>2 DEF LibraryInv, AllGramKeys
  <1>7. canonical \in [Users \X Hashes -> Books \cup {NoBook}]
    BY DEF LibraryInv, CanonicalValid
  <1>8. gramCounts \in [Users \X Grams -> Nat]
    BY CountTypes DEF LibraryInv, CountersExact
  <1>9. summary \in [Users -> [total : Nat, categories : [Categories \cup {NoCategory} -> Nat]]]
    BY CountTypes DEF LibraryInv, CountersExact, LibrarySummaryOf
  <1>10. progressTime \subseteq Users \X Times \X Books
    <2>1. \A k \in Users \X Books : progress[k] # NoTime => progress[k] \in Times
      BY <1>1 DEF StoreTypeOK, Owners
    <2> QED BY <2>1 DEF LibraryInv, ProgressTimeKeys
  <1> QED BY <1>1, <1>3, <1>4, <1>5, <1>6, <1>7, <1>8, <1>9, <1>10 DEF TypeOK

LEMMA InvDuplicateLookup == LibraryInv => DuplicateLookupExact
  <1> SUFFICES ASSUME LibraryInv, NEW u \in Users, NEW h \in Hashes
               PROVE  LET same == {i \in Books : OwnedBy(i, u) /\ books[i].hash = h}
                      IN  IF same = {} THEN FindBookByContentHash(u, h) = NoBook
                                       ELSE FindBookByContentHash(u, h) \in same
    BY DEF DuplicateLookupExact, LibraryInv
  <1> DEFINE same == {i \in Books : OwnedBy(i, u) /\ books[i].hash = h}
             k == <<u, h>>
  <1>1. MembersOf(members, k) = same
    <2>1. \A x : x \in members <=> \E j \in Books : x \in MemberKeys(j, books[j])
      BY DEF LibraryInv, AllMemberKeys
    <2>2. \A i, j \in Books : <<u, h, i>> \in MemberKeys(j, books[j])
                                <=> i = j /\ OwnedBy(j, u) /\ books[j].hash = h
      BY OwnerAssumption, HashAssumption DEF MemberKeys, HasOwner, OwnedBy
    <2> QED BY <2>1, <2>2 DEF MembersOf
  <1>2. k \in Users \X Hashes OBVIOUS
  <1>3. IF same = {} THEN canonical[k] = NoBook ELSE canonical[k] \in same
    BY <1>1, <1>2 DEF LibraryInv, CanonicalValid
  <1>4. NoBook \notin Books BY IdAssumption
  <1> QED BY <1>3, <1>4 DEF FindBookByContentHash

LEMMA InvSync == LibraryInv => SyncExact
  <1> SUFFICES ASSUME LibraryInv, NEW u \in Users, NEW since \in Times
               PROVE  ListProgressUpdatedSince(u, since) =
                        {<<u, progress[<<u, i>>], i>> :
                           i \in {j \in Books : progress[<<u, j>>] # NoTime /\ progress[<<u, j>>] >= since}}
    BY DEF SyncExact
  <1> DEFINE Listed == ListProgressUpdatedSince(u, since)
             Wanted == {<<u, progress[<<u, i>>], i>> :
                           i \in {j \in Books : progress[<<u, j>>] # NoTime /\ progress[<<u, j>>] >= since}}
  <1>1. \A x : x \in progressTime <=>
          \E k \in Users \X Books : progress[k] # NoTime /\ x = <<k[1], progress[k], k[2]>>
    BY TimeKeyMembers DEF LibraryInv
  <1>2. ASSUME NEW x \in Listed PROVE x \in Wanted
    <2>1. x \in progressTime /\ x[1] = u /\ progress[<<u, x[3]>>] >= since
      BY <1>2 DEF ListProgressUpdatedSince
    <2>2. PICK k \in Users \X Books : progress[k] # NoTime /\ x = <<k[1], progress[k], k[2]>>
      BY <1>1, <2>1
    <2>3. k = <<u, x[3]>> /\ x[3] \in Books BY <2>1, <2>2
    <2>4. x = <<u, progress[<<u, x[3]>>], x[3]>> BY <2>2, <2>3
    <2> QED BY <2>1, <2>2, <2>3, <2>4
  <1>3. ASSUME NEW x \in Wanted PROVE x \in Listed
    <2>1. PICK i \in Books : /\ progress[<<u, i>>] # NoTime /\ progress[<<u, i>>] >= since
                             /\ x = <<u, progress[<<u, i>>], i>>
      BY <1>3
    <2>2. x \in progressTime
      <3>1. <<u, i>> \in Users \X Books OBVIOUS
      <3> QED BY <1>1, <2>1, <3>1
    <2> QED BY <2>1, <2>2 DEF ListProgressUpdatedSince
  <1> QED BY <1>2, <1>3

(* Every bucket keeps its shape. *)
THEOREM LibraryTypeCorrect == Spec => []TypeOK
  BY LibraryInvariant, InvTypeOK, PTL

(* The shelf is exact in every order and category, whatever the sequence   *)
(* of transactions (SaveBook, deleteBookDataInTx, updateBooksCategoryInTx, *)
(* updateBookSortKey).                                                     *)
THEOREM LibraryShelfExact == Spec => []ShelfExact
  <1>1. LibraryInv => ShelfExact BY DEF LibraryInv, ShelfExact
  <1> QED BY <1>1, LibraryInvariant, PTL

(* Search finds the current text of the owner's books and nothing else. *)
THEOREM LibrarySearchExact == Spec => []SearchExact
  <1>1. LibraryInv => SearchExact BY DEF LibraryInv, SearchExact, NoText
  <1> QED BY <1>1, LibraryInvariant, PTL

(* The hash backlog lists exactly the records without a hash. *)
THEOREM LibraryBacklogExact == Spec => []BacklogExact
  <1>1. LibraryInv => BacklogExact BY DEF LibraryInv, BacklogExact
  <1> QED BY <1>1, LibraryInvariant, PTL

(* One lookup of the canonical key finds a duplicate whenever a scan of    *)
(* the library would.                                                      *)
THEOREM LibraryDuplicateLookup == Spec => []DuplicateLookupExact
  BY LibraryInvariant, InvDuplicateLookup, PTL

(* The maintained totals, category counts and gram counts equal a recount, *)
(* so the clamp at zero in adjustLibrarySummary never hides a lost update. *)
THEOREM LibraryCountersExact == Spec => []CountersExact
  <1>1. LibraryInv => CountersExact BY DEF LibraryInv
  <1> QED BY <1>1, LibraryInvariant, PTL

(* Shelf, search, backlog and counters agree with the records at once, after *)
(* any sequence of transactions (SaveBook, CreateBook, deleteBookDataInTx,   *)
(* updateBooksCategoryInTx, the hash backfill and the adoption).             *)
THEOREM LibraryIndexesExact == Spec => []IndexesExact
  <1>1. ShelfExact /\ SearchExact /\ BacklogExact /\ CountersExact => IndexesExact
    BY DEF IndexesExact
  <1> QED BY <1>1, LibraryShelfExact, LibrarySearchExact, LibraryBacklogExact,
             LibraryCountersExact, PTL

(* Incremental sync returns each position written since the given time, once. *)
THEOREM LibrarySyncExact == Spec => []SyncExact
  BY LibraryInvariant, InvSync, PTL

(* The storage engine with its eleven index buckets implements the library *)
(* of plain records: the initial states agree and every transaction is a   *)
(* step of BookStore or leaves the records alone.                          *)
THEOREM LibraryImplementsStore == Spec => StoreSpec
  <1>1. Init => StoreInit BY DEF Init
  <1>2. LibraryInv /\ [Next]_vars => [StoreNext]_storeVars BY StepRefines
  <1> QED BY <1>1, <1>2, LibraryInvariant, PTL DEF Spec, StoreSpec

(* Reading state never outlives its book, in the engine too. *)
THEOREM LibraryNoOrphans == Spec => []NoOrphans
  BY LibraryImplementsStore, StoreNoOrphans, PTL
=============================================================================
