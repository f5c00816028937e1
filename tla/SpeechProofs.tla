----------------------------- MODULE SpeechProofs ----------------------------
(***************************************************************************)
(* Reading aloud: the player speaks only what is wanted, in the order of   *)
(* the book.  A call of the code is an operator on the whole state, so the *)
(* invariant is a predicate on a state (Sane), each operator has a lemma   *)
(* that says what it keeps, and each step has one that says it keeps Sane  *)
(* and makes a step of Narration or none (Fine).  The invariant is that at *)
(* most one task is to play (Main): it fits what the element does, reads   *)
(* from where the narration is, and alone may still be answered.           *)
(***************************************************************************)
EXTENDS MCReader, SequenceTheorems, FiniteSetTheorems, WellFoundedInduction, TLAPS

(***************************************************************************)
(* The pool of prefetches                                                  *)
(***************************************************************************)

Runs == [chunk : Int, aborted : BOOLEAN]
Stores == [ready : Seq(Int), cache : Seq(Int), waiting : Seq(Int), running : Seq(Runs),
           active : Nat, cooling : BOOLEAN]

(* The pool counts what runs, within its limits. *)
Tallied(q) ==
    /\ q \in Stores /\ q.active = Len(q.running) /\ q.active <= MaxConcurrency
    /\ Len(q.ready) <= MaxPreload

(* No slot is idle while a task waits. *)
StoreOK(q) == Tallied(q) /\ (q.waiting # <<>> => q.active = MaxConcurrency)

(* The larger and the smaller of two numbers. *)
LEMMA MaxOfTwo ==
  ASSUME NEW a \in Int, NEW b \in Int
  PROVE  /\ Max({a, b}) = IF a >= b THEN a ELSE b
         /\ Min({a, b}) = IF a <= b THEN a ELSE b
<1>1. ASSUME NEW x \in {a, b}, \A y \in {a, b} : x >= y
      PROVE  x = IF a >= b THEN a ELSE b
  BY <1>1
<1>2. \E x \in {a, b} : \A y \in {a, b} : x >= y
  OBVIOUS
<1>3. Max({a, b}) \in {a, b} /\ \A y \in {a, b} : Max({a, b}) >= y
  BY <1>2 DEF Max
<1>4. \E x \in {a, b} : \A y \in {a, b} : x <= y
  OBVIOUS
<1>5. Min({a, b}) \in {a, b} /\ \A y \in {a, b} : Min({a, b}) <= y
  BY <1>4 DEF Min
<1> QED BY <1>3, <1>5

(* What is left of a sequence without its first n elements. *)
LEMMA AfterFacts ==
  ASSUME NEW X, NEW s \in Seq(X), NEW n \in 0 .. Len(s)
  PROVE  After(s, n) \in Seq(X) /\ Len(After(s, n)) = Len(s) - n
BY DEF After

(* Two sequences one after the other. *)
LEMMA ConcatFacts ==
  ASSUME NEW X, NEW a \in Seq(X), NEW b \in Seq(X)
  PROVE  a \o b \in Seq(X) /\ Len(a \o b) = Len(a) + Len(b)
OBVIOUS

(* A sequence without its ith element. *)
LEMMA RemoveAtFacts ==
  ASSUME NEW S, NEW s \in Seq(S), NEW i \in 1 .. Len(s)
  PROVE  /\ RemoveAt(s, i) \in Seq(S)
         /\ Len(RemoveAt(s, i)) = Len(s) - 1
         /\ \A j \in 1 .. Len(s) - 1 : RemoveAt(s, i)[j] = IF j < i THEN s[j] ELSE s[j + 1]
<1> DEFINE a == SubSeq(s, 1, i - 1)
           b == SubSeq(s, i + 1, Len(s))
<1>1. a \in Seq(S) /\ Len(a) = i - 1 /\ \A j \in 1 .. i - 1 : a[j] = s[j]
  OBVIOUS
<1>2. b \in Seq(S) /\ Len(b) = Len(s) - i /\ \A j \in 1 .. Len(s) - i : b[j] = s[j + i]
  OBVIOUS
<1>3. RemoveAt(s, i) = a \o b
  BY DEF RemoveAt
<1> HIDE DEF a, b
<1>4. /\ a \o b \in Seq(S) /\ Len(a \o b) = Len(s) - 1
      /\ \A j \in 1 .. Len(s) - 1 : (a \o b)[j] = IF j <= Len(a) THEN a[j] ELSE b[j - Len(a)]
  <2>1. a \o b \in Seq(S) /\ Len(a \o b) = Len(a) + Len(b)
    BY <1>1, <1>2, ConcatProperties
  <2>2. Len(a) + Len(b) = Len(s) - 1
    BY <1>1, <1>2
  <2>3. \A j \in 1 .. Len(a) + Len(b) : (a \o b)[j] = IF j <= Len(a) THEN a[j] ELSE b[j - Len(a)]
    BY <1>1, <1>2
  <2>4. QED
    BY <2>1, <2>2, <2>3
<1>5. ASSUME NEW j \in 1 .. Len(s) - 1
      PROVE  (a \o b)[j] = IF j < i THEN s[j] ELSE s[j + 1]
  <2>1. CASE j < i
    BY <2>1, <1>1, <1>4
  <2>2. CASE ~(j < i)
    <3>1. (a \o b)[j] = b[j - (i - 1)]
      BY <2>2, <1>1, <1>4
    <3>2. j - (i - 1) \in 1 .. Len(s) - i /\ (j - (i - 1)) + i = j + 1
      BY <2>2
    <3>3. QED
      BY <3>1, <3>2, <2>2, <1>2
  <2>3. QED
    BY <2>1, <2>2
<1>6. QED
  BY <1>3, <1>4, <1>5

(* A set of numbers that is not empty has a least one. *)
LEMMA LeastNumber ==
  ASSUME NEW I \in SUBSET Nat, I # {}
  PROVE  Min(I) \in I /\ \A j \in I : Min(I) <= j
<1>1. PICK i \in I : \A j \in I : ~ (<<j, i>> \in OpToRel(<, Nat))
  BY NatLessThanWellFounded, WFMin
<1>2. \A j \in I : ~ (j < i)
  BY <1>1 DEF OpToRel
<1>3. \E x \in I : \A j \in I : x <= j
  BY <1>2
<1> QED BY <1>3 DEF Min

(* A sequence without the first e in it is no longer than before. *)
LEMMA RemoveFirstFacts ==
  ASSUME NEW X, NEW s \in Seq(X), NEW e
  PROVE  RemoveFirst(s, e) \in Seq(X) /\ Len(RemoveFirst(s, e)) <= Len(s)
<1>1. CASE \E i \in 1 .. Len(s) : s[i] = e
  <2>1. PICK I : I = {i \in 1 .. Len(s) : s[i] = e}
    OBVIOUS
  <2>2. I \in SUBSET Nat /\ I # {}
    BY <1>1, <2>1
  <2>3. Min(I) \in 1 .. Len(s)
    BY <2>1, <2>2, LeastNumber
  <2>4. SelectInSeq(s, LAMBDA v : v = e) = Min(I)
    BY <2>1, <2>2 DEF SelectInSeq
  <2> QED BY <1>1, <2>3, <2>4, RemoveAtFacts DEF RemoveFirst
<1>2. CASE ~\E i \in 1 .. Len(s) : s[i] = e
  BY <1>2 DEF RemoveFirst
<1> QED BY <1>1, <1>2
(* A least counterexample: what holds at 0 and goes on holds up to n. *)
LEMMA UpTo ==
  ASSUME NEW n \in Nat, NEW G \in SUBSET Nat, 0 \in G, \A i \in 1 .. n : i - 1 \in G => i \in G
  PROVE  n \in G
<1> DEFINE B == {i \in 0 .. n : i \notin G}
<1>1. SUFFICES ASSUME n \notin G PROVE FALSE
  OBVIOUS
<1>2. B \in SUBSET Nat /\ B # {}
  BY <1>1
<1>3. PICK m : m = Min(B)
  OBVIOUS
<1>4. m \in B /\ \A j \in B : m <= j
  BY <1>2, <1>3, LeastNumber
<1>5. m \in 1 .. n /\ m - 1 \in 0 .. n /\ m - 1 < m
  BY <1>4
<1>6. m - 1 \in G
  BY <1>4, <1>5
<1> QED BY <1>4, <1>5, <1>6

(* Filling the free slots. *)
LEMMA PumpOK ==
  ASSUME NEW q, Tallied(q)
  PROVE  StoreOK(PumpPreloadQueue(q))
<1>1. /\ q \in Stores /\ q.active \in Nat /\ q.active = Len(q.running) /\ q.active <= MaxConcurrency
      /\ q.waiting \in Seq(Int) /\ q.running \in Seq(Runs) /\ Len(q.waiting) \in Nat /\ MaxConcurrency \in Nat
  BY PoolAssumption DEF Tallied, Stores
<1>2. PICK n : n = Max({0, Min({MaxConcurrency - q.active, Len(q.waiting)})})
  OBVIOUS
<1>18. q.active \in Nat /\ MaxConcurrency \in Nat /\ q.active <= MaxConcurrency
  BY <1>1
<1>19. MaxConcurrency - q.active \in Nat
  BY <1>18
<1>3. PICK f \in Nat, l \in Nat : f = MaxConcurrency - q.active /\ l = Len(q.waiting)
  BY <1>1, <1>19
<1>4. n \in 0 .. Len(q.waiting) /\ n <= f /\ (n # Len(q.waiting) => n = f)
  <2>1. PICK m : m = Min({f, l})
    OBVIOUS
  <2>2. m = IF f <= l THEN f ELSE l
    BY <2>1, MaxOfTwo
  <2>3. m \in Nat
    BY <2>2
  <2>4. Max({0, m}) = m
    BY <2>3, MaxOfTwo
  <2>5. n = m
    BY <1>2, <1>3, <2>1, <2>4
  <2> QED BY <1>3, <2>2, <2>5
<1>5. PICK w, r : w = After(q.waiting, n)
               /\ r = [i \in 1 .. n |-> [chunk |-> q.waiting[i], aborted |-> HasAudio(q, q.waiting[i])]]
  OBVIOUS
<1>6. w \in Seq(Int) /\ Len(w) = Len(q.waiting) - n
  BY <1>1, <1>4, <1>5, AfterFacts
<1>7. \A i \in 1 .. n : HasAudio(q, q.waiting[i]) \in BOOLEAN
  BY DEF HasAudio, Contains
<1>8. r \in Seq(Runs) /\ Len(r) = n
  BY <1>1, <1>4, <1>5, <1>7 DEF Runs
<1>9. PICK s : s = q.running \o r
  OBVIOUS
<1>10. s \in Seq(Runs) /\ Len(s) = q.active + n
  <2>1. s \in Seq(Runs) /\ Len(s) = Len(q.running) + Len(r)
    BY <1>1, <1>8, <1>9, ConcatFacts
  <2> QED BY <1>1, <1>8, <2>1
<1>11. PICK z : z = PumpPreloadQueue(q)
  OBVIOUS
<1>16. PICK a \in Nat : a = q.active + n
  BY <1>1, <1>4
<1>12. z = [q EXCEPT !.waiting = w, !.active = a, !.running = s]
  BY <1>2, <1>5, <1>9, <1>11, <1>16 DEF PumpPreloadQueue
<1>13. /\ z \in Stores /\ z.waiting = w /\ z.active = a /\ z.running = s /\ z.ready = q.ready
  BY <1>1, <1>6, <1>10, <1>12 DEF Stores
<1>14. w # <<>> => Len(w) # 0
  BY <1>6
<1>15. a <= MaxConcurrency /\ (w # <<>> => a = MaxConcurrency)
  BY <1>1, <1>3, <1>4, <1>6, <1>14, <1>16
<1>17. a = Len(s)
  BY <1>10, <1>16
<1> QED BY <1>11, <1>13, <1>15, <1>17 DEF StoreOK, Tallied

(* preload asks for one chunk, if nobody did. *)
LEMMA PreloadOK ==
  ASSUME NEW q, StoreOK(q), NEW c \in Int
  PROVE  StoreOK(Preload(q, c))
<1>1. PICK z : z = [q EXCEPT !.waiting = Append(q.waiting, c)]
  OBVIOUS
<1>2. Append(q.waiting, c) \in Seq(Int)
  BY DEF StoreOK, Tallied, Stores
<1>3. Tallied(z)
  BY <1>1, <1>2 DEF StoreOK, Tallied, Stores
<1>4. StoreOK(PumpPreloadQueue(z))
  BY <1>3, PumpOK
<1> QED BY <1>1, <1>4 DEF Preload

(* What preloadMultiple does, one chunk after the other. *)
ToPreload(q, chunks, n) ==
    /\ n \in {i \in 1 .. n : ~HasAudio(q, chunks[i])}
    /\ Cardinality({i \in 1 .. n : ~HasAudio(q, chunks[i])}) <= MaxPreload - Len(q.ready)
PreloadTurn(q, chunks, f, n) ==
    IF n = 0 THEN q
    ELSE IF ToPreload(q, chunks, n) THEN Preload(f[n - 1], chunks[n]) ELSE f[n - 1]
IsTurns(q, chunks, m, f) == f = [n \in 0 .. m |-> PreloadTurn(q, chunks, f, n)]

(* The recursive function of preloadMultiple exists: from the least n up to which it would not. *)
LEMMA TurnsExist ==
  ASSUME NEW q, NEW chunks, NEW m \in Nat
  PROVE  \E f : IsTurns(q, chunks, m, f)
<1> DEFINE G == {k \in Nat : \E f : IsTurns(q, chunks, k, f)}
<1>1. 0 \in G
  <2>1. PICK f : f = [n \in 0 .. 0 |-> q]
    OBVIOUS
  <2>2. IsTurns(q, chunks, 0, f)
    BY <2>1 DEF IsTurns, PreloadTurn
  <2> QED BY <2>2
<1>2. ASSUME NEW i \in 1 .. m, i - 1 \in G PROVE i \in G
  <2>1. PICK f : IsTurns(q, chunks, i - 1, f)
    BY <1>2
  <2>2. PICK g : g = [n \in 0 .. i |-> IF n < i THEN f[n] ELSE PreloadTurn(q, chunks, f, i)]
    OBVIOUS
  <2>3. \A n \in 0 .. i - 1 : f[n] = PreloadTurn(q, chunks, f, n)
    BY <2>1 DEF IsTurns
  <2>4. \A n \in 0 .. i : g[n] = PreloadTurn(q, chunks, f, n)
    BY <2>2, <2>3
  <2>5. \A n \in 0 .. i : n # 0 => n - 1 \in 0 .. i /\ n - 1 < i /\ g[n - 1] = f[n - 1]
    BY <2>2
  <2>6. \A n \in 0 .. i : PreloadTurn(q, chunks, f, n) = PreloadTurn(q, chunks, g, n)
    BY <2>5 DEF PreloadTurn
  <2>7. g = [n \in 0 .. i |-> PreloadTurn(q, chunks, g, n)]
    BY <2>2, <2>4, <2>6
  <2> QED BY <2>7 DEF IsTurns
<1>3. m \in G
  BY <1>1, <1>2, UpTo
<1> QED BY <1>3

(* preloadMultiple keeps the pool balanced, whatever chunks it is given. *)
LEMMA PreloadMultipleOK ==
  ASSUME NEW q, StoreOK(q), NEW chunks \in Seq(Int)
  PROVE  StoreOK(PreloadMultiple(q, chunks))
<1>1. PICK f : f = CHOOSE g : IsTurns(q, chunks, Len(chunks), g)
  OBVIOUS
<1>2. PreloadMultiple(q, chunks) = f[Len(chunks)]
  BY <1>1 DEF PreloadMultiple, IsTurns, PreloadTurn, ToPreload
<1>3. IsTurns(q, chunks, Len(chunks), f)
  <2>1. Len(chunks) \in Nat
    OBVIOUS
  <2>2. \E g : IsTurns(q, chunks, Len(chunks), g)
    BY <2>1, TurnsExist
  <2> QED BY <1>1, <2>2
<1>4. \A n \in 0 .. Len(chunks) : f[n] = PreloadTurn(q, chunks, f, n)
  BY <1>3 DEF IsTurns
<1> DEFINE G == {n \in 0 .. Len(chunks) : StoreOK(f[n])}
<1>5. 0 \in G
  BY <1>4 DEF PreloadTurn
<1>6. ASSUME NEW i \in 1 .. Len(chunks), i - 1 \in G PROVE i \in G
  <2>1. i \in 0 .. Len(chunks) /\ i # 0 /\ StoreOK(f[i - 1]) /\ chunks[i] \in Int
    BY <1>6
  <2>2. f[i] = Preload(f[i - 1], chunks[i]) \/ f[i] = f[i - 1]
    BY <1>4, <2>1 DEF PreloadTurn
  <2>3. StoreOK(Preload(f[i - 1], chunks[i]))
    BY <2>1, PreloadOK
  <2> QED BY <2>1, <2>2, <2>3
<1>8. G \in SUBSET Nat /\ Len(chunks) \in Nat
  OBVIOUS
<1>9. \A i \in 1 .. Len(chunks) : i - 1 \in G => i \in G
  BY <1>6
<1> HIDE DEF G
<1>7. Len(chunks) \in G
  BY <1>5, <1>8, <1>9, UpTo
<1> USE DEF G
<1> QED BY <1>2, <1>7

(* A prefetch ends: its slot goes to the next one that waits. *)
LEMMA PreloadEndsOK ==
  ASSUME NEW q, StoreOK(q), NEW i \in DOMAIN q.running, NEW ok \in BOOLEAN
  PROVE  StoreOK(PreloadEnds(q, i, ok))
<1>1. /\ q \in Stores /\ q.ready \in Seq(Int) /\ q.running \in Seq(Runs) /\ q.active = Len(q.running)
      /\ q.active \in Nat /\ q.active <= MaxConcurrency /\ MaxPreload \in Nat
  BY PoolAssumption DEF StoreOK, Tallied, Stores
<1>12. i \in 1 .. Len(q.running) /\ q.running[i] \in Runs
  BY <1>1
<1>13. q.running[i].chunk \in Int
  BY <1>12 DEF Runs
<1>2. PICK k : k = IF ok /\ ~q.running[i].aborted THEN Append(q.ready, q.running[i].chunk) ELSE q.ready
  OBVIOUS
<1>3. k \in Seq(Int) /\ Len(k) \in Nat
  BY <1>1, <1>2, <1>13
<1>4. PICK n : n = Max({0, Len(k) - MaxPreload})
  OBVIOUS
<1>5. n \in 0 .. Len(k) /\ Len(k) - n <= MaxPreload
  BY <1>1, <1>3, <1>4, MaxOfTwo
<1>6. After(k, n) \in Seq(Int) /\ Len(After(k, n)) <= MaxPreload
  BY <1>3, <1>5, AfterFacts
<1>7. Max({0, q.active - 1}) = q.active - 1
  BY <1>1, <1>12, MaxOfTwo
<1>8. RemoveAt(q.running, i) \in Seq(Runs) /\ Len(RemoveAt(q.running, i)) = q.active - 1
  BY <1>1, <1>12, RemoveAtFacts
<1>14. PICK r \in Seq(Int), s \in Seq(Runs), a \in Nat :
          r = After(k, n) /\ s = RemoveAt(q.running, i) /\ a = q.active - 1
  BY <1>1, <1>6, <1>8, <1>12
<1>9. PICK z : z = [q EXCEPT !.ready = r, !.running = s, !.active = a]
  OBVIOUS
<1>15. z \in Stores /\ z.ready = r /\ z.running = s /\ z.active = a
  BY <1>1, <1>9 DEF Stores
<1>10. Tallied(z)
  <2>1. a <= MaxConcurrency
    BY <1>1, <1>14, PoolAssumption
  <2> QED BY <1>6, <1>8, <1>14, <1>15, <2>1 DEF Tallied
<1>11. StoreOK(PumpPreloadQueue(z))
  BY <1>10, PumpOK
<1> QED BY <1>2, <1>4, <1>7, <1>9, <1>11, <1>14 DEF PreloadEnds

(* Cancelled prefetches keep their slots until they end. *)
LEMMA ClearOK ==
  ASSUME NEW q, StoreOK(q)
  PROVE  StoreOK(ClearPreloadQueueOnly(q)) /\ StoreOK(ClearPreload(q))
<1>1. PICK r : r = [i \in DOMAIN q.running |-> [q.running[i] EXCEPT !.aborted = TRUE]]
  OBVIOUS
<1>2. q \in Stores /\ q.running \in Seq(Runs) /\ MaxPreload \in Nat
  BY PoolAssumption DEF StoreOK, Tallied, Stores
<1>3. \A x \in Runs : [x EXCEPT !.aborted = TRUE] \in Runs
  BY DEF Runs
<1>4. r \in Seq(Runs) /\ Len(r) = Len(q.running)
  <2>1. DOMAIN q.running = 1 .. Len(q.running) /\ Len(q.running) \in Nat
    BY <1>2
  <2>2. \A i \in 1 .. Len(q.running) : q.running[i] \in Runs
    BY <1>2
  <2>3. r = [i \in 1 .. Len(q.running) |-> [q.running[i] EXCEPT !.aborted = TRUE]]
    BY <1>1, <2>1
  <2>4. r \in [1 .. Len(q.running) -> Runs]
    BY <1>3, <2>2, <2>3
  <2> QED BY <2>1, <2>4
<1>14. <<>> \in Seq(Int) /\ Len(<<>>) = 0
  OBVIOUS
<1>5. PICK e : e = <<>>
  OBVIOUS
<1>15. e \in Seq(Int) /\ Len(e) = 0
  BY <1>5, <1>14
<1>6. PICK z : z = [q EXCEPT !.waiting = e, !.running = r]
  OBVIOUS
<1>7. z \in Stores /\ z.waiting = e /\ z.running = r /\ z.active = q.active /\ z.ready = q.ready
  BY <1>2, <1>4, <1>6, <1>15 DEF Stores
<1>8. PICK y : y = [z EXCEPT !.ready = e]
  OBVIOUS
<1>9. y \in Stores /\ y.waiting = e /\ y.running = r /\ y.active = q.active /\ y.ready = e
  BY <1>7, <1>8, <1>15 DEF Stores
<1>10. PICK x : x = [y EXCEPT !.cache = e]
  OBVIOUS
<1>11. x \in Stores /\ x.waiting = e /\ x.running = r /\ x.active = q.active /\ x.ready = e
  BY <1>9, <1>10, <1>15 DEF Stores
<1>12. StoreOK(y) /\ StoreOK(x)
  BY <1>2, <1>4, <1>5, <1>9, <1>11, <1>15 DEF StoreOK, Tallied
<1>13. ClearPreloadQueueOnly(q) = y
  BY <1>1, <1>5, <1>6, <1>8 DEF ClearPreloadQueueOnly, CancelAllPreloads
<1> QED BY <1>5, <1>10, <1>12, <1>13 DEF ClearPreload

(* Played audio goes to the cache. *)
LEMMA CacheSetOK ==
  ASSUME NEW q, StoreOK(q), NEW c \in Int
  PROVE  StoreOK(CacheSet(q, c))
<1>1. PICK g : g = Append(RemoveFirst(q.cache, c), c)
  OBVIOUS
<1>2. q.cache \in Seq(Int)
  BY DEF StoreOK, Tallied, Stores
<1>3. g \in Seq(Int) /\ Len(g) \in Nat /\ CacheSize \in Nat
  BY <1>1, <1>2, RemoveFirstFacts, PoolAssumption
<1>4. Max({0, Len(g) - CacheSize}) \in 0 .. Len(g)
  BY <1>3, MaxOfTwo
<1>5. After(g, Max({0, Len(g) - CacheSize})) \in Seq(Int)
  BY <1>3, <1>4, AfterFacts
<1>6. PICK e \in Seq(Int) : e = After(g, Max({0, Len(g) - CacheSize}))
  BY <1>5
<1>7. PICK z : z = [q EXCEPT !.cache = e]
  OBVIOUS
<1>8. /\ z \in Stores /\ z.waiting = q.waiting /\ z.running = q.running /\ z.active = q.active
      /\ z.ready = q.ready
  BY <1>7 DEF StoreOK, Tallied, Stores
<1>9. StoreOK(z)
  BY <1>8 DEF StoreOK, Tallied
<1> QED BY <1>1, <1>6, <1>7, <1>9 DEF CacheSet

(* Prefetched audio is taken. *)
LEMMA TakeReadyOK ==
  ASSUME NEW q, StoreOK(q), NEW c \in Int
  PROVE  StoreOK([q EXCEPT !.ready = RemoveFirst(q.ready, c)])
<1>1. PICK r : r = RemoveFirst(q.ready, c)
  OBVIOUS
<1>2. q.ready \in Seq(Int) /\ Len(q.ready) \in Nat
  BY DEF StoreOK, Tallied, Stores
<1>3. r \in Seq(Int) /\ Len(r) \in Nat /\ Len(r) <= Len(q.ready)
  BY <1>1, <1>2, RemoveFirstFacts
<1>4. PICK z : z = [q EXCEPT !.ready = r]
  OBVIOUS
<1>5. /\ z \in Stores /\ z.waiting = q.waiting /\ z.running = q.running /\ z.active = q.active
      /\ z.ready = r
  BY <1>3, <1>4 DEF StoreOK, Tallied, Stores
<1>6. Len(r) <= MaxPreload
  BY <1>2, <1>3, PoolAssumption DEF StoreOK, Tallied
<1>7. StoreOK(z)
  BY <1>5, <1>6 DEF StoreOK, Tallied
<1> QED BY <1>1, <1>4, <1>7

(* The provider asks to wait, or has waited. *)
LEMMA CoolingOK ==
  ASSUME NEW q, StoreOK(q), NEW c \in BOOLEAN
  PROVE  StoreOK([q EXCEPT !.cooling = c])
BY DEF StoreOK, Tallied, Stores

(***************************************************************************)
(* The invariant of the player, as a predicate on a state                  *)
(***************************************************************************)

Players ==
    [state : {"stopped", "playing", "paused"}, wants : BOOLEAN, replacing : BOOLEAN, triggered : BOOLEAN,
     element : {"none", "starting", "sounding", "paused", "ended", "error"}, chunk : 0 .. ChunkCount,
     fresh : BOOLEAN, endEvent : BOOLEAN, focus : {"none", "narration", "preview"}]
Hooks ==
    [intent : BOOLEAN, base : 0 .. ChunkCount + 1, end : 0 .. ChunkCount, current : 0 .. ChunkCount,
     pending : Seq(Chunks), preparing : BOOLEAN, prompt : BOOLEAN, mark : 0 .. ChunkCount,
     saved : 0 .. ChunkCount + 1, view : 1 .. ChunkCount + 1, sleep : {"off", "armed", "due"}]
States == [player : Players, hook : Hooks, tasks : SUBSET Task, pool : Stores]

Audible == {"starting", "sounding"}
SeekSteps == {"read", "fillWait", "previous", "adjacent"}

(* A task whose answer the player would take. *)
Requested(t) == t.req /\ t.at \in {"prefetch", "fetch", "start", "unpause"}
(* A task that would go on to play: only one at a time. *)
Main(t) == t.live /\ t.kind # "fill" /\ t.at \notin {"inner", "lock"}
Fills(t) == t.live /\ t.kind = "fill"

ShapeOK(t) ==
    /\ t \in Task
    /\ t.kind = "fill" => t.at = "read"
    /\ t.at = "fillWait" => t.kind = "advance"
    /\ t.at \in {"previous", "adjacent"} => t.kind = "jump"
    /\ t.at \in {"unpause", "inner", "lock"} => t.kind = "resume"
    /\ t.at = "read" => t.kind # "resume" /\ t.chunk # 0
    /\ t.at \in PlaySteps => t.chunk \in Chunks
    /\ t.kind = "jump" /\ t.at = "read" => t.chunk \in Chunks

PlayerOK(p) ==
    /\ p.endEvent => p.element = "ended"
    /\ p.element \in Audible => p.fresh /\ p.wants /\ p.focus = "narration"

Ensuing(h, c) == \A i \in 1 .. Len(h.pending) : h.pending[i] = c + i

HookOK(p, h) ==
    /\ p.element \in Audible => h.intent
    /\ p.fresh => h.current # 0
    /\ Ensuing(h, h.current)

SeekOK(p, h, t) ==
    /\ p.element \notin Audible
    /\ t.at # "fillWait" => h.pending = <<>>
    /\ t.kind = "advance" => HasEnded(p)
    /\ t.kind = "advance" /\ t.at = "read" => t.chunk = h.current + 1
    /\ t.kind = "jump" => h.base # 0 /\ h.current # 0

(* The event of an audio that has ended is for an advance. *)
EndFor(p, t) == p.endEvent /\ p.state = "playing" => t.kind = "advance" /\ t.holds

AnswerOK(p, t) ==
    /\ p.wants /\ p.focus = "narration"
    /\ t.at \in {"start", "unpause"} => p.element = "starting"
    /\ t.at \in {"prefetch", "fetch"} => ~p.fresh /\ p.element \notin Audible

MainOK(p, h, t) ==
    /\ p.element # "sounding"
    /\ p.element = "starting" => t.req /\ t.at \in {"start", "unpause"}
    /\ EndFor(p, t)
    /\ Requested(t) => AnswerOK(p, t)
    /\ t.at \in SeekSteps => SeekOK(p, h, t)
    /\ t.at \in PlaySteps => ~HasEnded(p) /\ t.chunk = h.current

(* What holds of every task, and what holds of one that is not to play. *)
SideOK(h, t) ==
    /\ ShapeOK(t)
    /\ t.live /\ t.kind # "fill" => h.intent
    /\ Requested(t) => t.live
    /\ Fills(t) => t.chunk = h.current + Len(h.pending) + 1

WorkOK(p, h, t) == SideOK(h, t) /\ (Main(t) => MainOK(p, h, t))

Waits(t) == Main(t) /\ t.at \in SeekSteps \ {"fillWait"}
PairsOK(T) ==
    /\ \A t, u \in T : Main(t) /\ Main(u) => t = u
    /\ \A t, u \in T : Fills(t) /\ Fills(u) => t = u
    /\ \A t, u \in T : Waits(t) => ~Fills(u)

Sane(S) ==
    /\ S \in States /\ StoreOK(S.pool) /\ PlayerOK(S.player) /\ HookOK(S.player, S.hook)
    /\ \A t \in S.tasks : WorkOK(S.player, S.hook, t)
    /\ PairsOK(S.tasks)

NoMain(T) == \A t \in T : ~Main(t)
NoFill(T) == \A t \in T : ~Fills(t)
OneFill(T) == \A t, u \in T : Fills(t) /\ Fills(u) => t = u

(* The queued event of the audio's end is not for audio that has been given up. *)
EndOK(p, T) ==
    p.endEvent /\ p.state = "playing" /\ ~p.fresh =>
        \E t \in T : Requested(t) /\ t.kind = "advance" /\ t.holds

-----------------------------------------------------------------------------
(* The types of the parts of a state. *)
LEMMA StateFields ==
  ASSUME NEW S \in States
  PROVE  S.player \in Players /\ S.hook \in Hooks /\ S.tasks \in SUBSET Task /\ S.pool \in Stores
BY DEF States

(* A state in which no task is to play and nobody waits for an answer. *)
LEMMA RestIntro ==
  ASSUME NEW S \in States, StoreOK(S.pool), PlayerOK(S.player), HookOK(S.player, S.hook),
         \A t \in S.tasks : SideOK(S.hook, t), NoMain(S.tasks), OneFill(S.tasks)
  PROVE  Sane(S)
<1>1. \A t \in S.tasks : WorkOK(S.player, S.hook, t)
  BY DEF WorkOK, NoMain
<1>2. PairsOK(S.tasks)
  BY DEF PairsOK, NoMain, OneFill, Waits
<1> QED BY <1>1, <1>2 DEF Sane

(* What holds of every task, whatever it is to do. *)
LEMMA RestElim ==
  ASSUME NEW S, Sane(S)
  PROVE  /\ S \in States /\ StoreOK(S.pool) /\ PlayerOK(S.player) /\ HookOK(S.player, S.hook)
         /\ \A t \in S.tasks : SideOK(S.hook, t) /\ ShapeOK(t)
         /\ OneFill(S.tasks)
BY DEF Sane, WorkOK, PairsOK, OneFill, SideOK

(* One task more that is to play. *)
LEMMA AddMain ==
  ASSUME NEW S, Sane(S), NoMain(S.tasks), NEW t, WorkOK(S.player, S.hook, t), Waits(t) => NoFill(S.tasks),
         ~Fills(t),
         NEW R \in States, R.player = S.player, R.hook = S.hook, StoreOK(R.pool), R.tasks = S.tasks \cup {t}
  PROVE  Sane(R)
<1>1. \A u \in R.tasks : WorkOK(R.player, R.hook, u)
  BY DEF Sane
<1>2. \A u, v \in R.tasks : Main(u) /\ Main(v) => u = v
  BY DEF NoMain
<1>3. \A u, v \in R.tasks : Fills(u) /\ Fills(v) => u = v
  BY DEF Sane, PairsOK
<1>4. \A u, v \in R.tasks : Waits(u) => ~Fills(v)
  BY DEF NoMain, NoFill, Waits
<1> QED BY <1>1, <1>2, <1>3, <1>4 DEF Sane, PairsOK

(* One task more that is not to play. *)
LEMMA AddSide ==
  ASSUME NEW S, Sane(S), NEW t, SideOK(S.hook, t), ~Main(t),
         Fills(t) => NoFill(S.tasks) /\ (\A u \in S.tasks : ~Waits(u)),
         NEW R \in States, R.player = S.player, R.hook = S.hook, StoreOK(R.pool), R.tasks = S.tasks \cup {t}
  PROVE  Sane(R)
<1>1. \A u \in R.tasks : WorkOK(R.player, R.hook, u)
  BY DEF Sane, WorkOK
<1>2. \A u, v \in R.tasks : Main(u) /\ Main(v) => u = v
  BY DEF Sane, PairsOK
<1>3. \A u, v \in R.tasks : Fills(u) /\ Fills(v) => u = v
  BY DEF Sane, PairsOK, NoFill
<1>4. \A u, v \in R.tasks : Waits(u) => ~Fills(v)
  BY DEF Sane, PairsOK, Waits
<1> QED BY <1>1, <1>2, <1>3, <1>4 DEF Sane, PairsOK

(* One task less. *)
LEMMA TakeGood ==
  ASSUME NEW S, Sane(S), NEW t, NEW R, R = [S EXCEPT !.tasks = @ \ {t}]
  PROVE  /\ Sane(R) /\ R.player = S.player /\ R.hook = S.hook /\ R.pool = S.pool /\ R.tasks = S.tasks \ {t}
         /\ t \in S.tasks /\ Main(t) => NoMain(R.tasks)
         /\ t \in S.tasks /\ Waits(t) => NoFill(R.tasks)
         /\ t \in S.tasks /\ Fills(t) => NoFill(R.tasks) /\ \A u \in R.tasks : ~Waits(u)
<1>1. R \in States /\ R.player = S.player /\ R.hook = S.hook /\ R.pool = S.pool /\ R.tasks = S.tasks \ {t}
  BY DEF Sane, States
<1>2. Sane(R)
  BY <1>1 DEF Sane, PairsOK
<1>3. /\ t \in S.tasks /\ Main(t) => NoMain(R.tasks)
      /\ t \in S.tasks /\ Waits(t) => NoFill(R.tasks)
      /\ t \in S.tasks /\ Fills(t) => NoFill(R.tasks) /\ \A u \in R.tasks : ~Waits(u)
  BY <1>1 DEF Sane, PairsOK, NoMain, NoFill
<1> QED BY <1>1, <1>2, <1>3

-----------------------------------------------------------------------------
(* The counters are raised. *)
LEMMA NewPlaybackFacts ==
  ASSUME NEW T \in SUBSET Task, NEW t \in NewPlayback(T)
  PROVE  \E u \in T : /\ t \in Task /\ t.req = FALSE /\ t.kind = u.kind /\ t.at = u.at /\ t.chunk = u.chunk
                      /\ t.live = u.live /\ t.holds = u.holds /\ t = [u EXCEPT !.req = FALSE]
BY DEF NewPlayback, Task

(* What ++operationRef does to a task. *)
LEMMA NewOperationFacts ==
  ASSUME NEW T \in SUBSET Task, NEW t \in NewOperation(T)
  PROVE  \E u \in T : /\ t \in Task /\ t.req = u.req /\ t.kind = u.kind /\ t.at = u.at /\ t.chunk = u.chunk
                      /\ t.live = (u.live /\ u.kind = "fill") /\ t.holds = u.holds
                      /\ u.kind = "fill" => t = u
BY DEF NewOperation, Task

(* What ++generationRef does to a task. *)
LEMMA NewGenerationFacts ==
  ASSUME NEW T \in SUBSET Task, NEW t \in NewGeneration(T)
  PROVE  \E u \in T : /\ t \in Task /\ t.req = u.req /\ t.kind = u.kind /\ t.at = u.at /\ t.chunk = u.chunk
                      /\ t.live = (u.live /\ u.kind # "fill") /\ t.holds = u.holds
BY DEF NewGeneration, Task

(* What releasing advancingRef and resumingRef does to a task. *)
LEMMA ReleaseFacts ==
  ASSUME NEW T \in SUBSET Task, NEW t \in Release(T)
  PROVE  \E u \in T : /\ t \in Task /\ t.req = u.req /\ t.kind = u.kind /\ t.at = u.at /\ t.chunk = u.chunk
                      /\ t.live = u.live /\ t.holds = FALSE /\ t = [u EXCEPT !.holds = FALSE]
BY DEF Release, Task

(* What the loss of its source does to a task. *)
LEMMA NewSourceFacts ==
  ASSUME NEW T \in SUBSET Task, NEW t \in NewSource(T)
  PROVE  \E u \in T : /\ t \in Task /\ t.req = u.req /\ t.kind = u.kind /\ t.at = u.at /\ t.chunk = u.chunk
                      /\ t.live = u.live
BY DEF NewSource, Task

(* Kind, step and chunk give a task its shape. *)
LEMMA ShapeSame ==
  ASSUME NEW u, ShapeOK(u), NEW t \in Task, t.kind = u.kind, t.at = u.at, t.chunk = u.chunk
  PROVE  ShapeOK(t)
BY DEF ShapeOK

(* ++playbackRequestId in a player that falls silent leaves every task as it is, but for its answer. *)
LEMMA NewPlaybackKeeps ==
  ASSUME NEW T \in SUBSET Task, NEW p, NEW h, \A t \in T : WorkOK(p, h, t), PairsOK(T),
         NEW r, HasEnded(r) <=> HasEnded(p), r.element \notin Audible, r.state = "paused",
         NEW N, N = NewPlayback(T)
  PROVE  /\ N \in SUBSET Task /\ PairsOK(N)
         /\ \A t \in N : WorkOK(r, h, t) /\ ~Requested(t)
         /\ NoMain(T) => NoMain(N)
         /\ NoFill(T) => NoFill(N)
         /\ (\A u \in T : ~Waits(u)) => \A u \in N : ~Waits(u)
<1>1. ASSUME NEW t \in N
      PROVE  \E u \in T : /\ t = [u EXCEPT !.req = FALSE] /\ t \in Task /\ ~Requested(t) /\ WorkOK(r, h, t)
                          /\ (Main(t) <=> Main(u)) /\ (Fills(t) <=> Fills(u)) /\ (Waits(t) <=> Waits(u))
  <2>1. PICK u \in T : /\ t \in Task /\ t.req = FALSE /\ t.kind = u.kind /\ t.at = u.at /\ t.chunk = u.chunk
                       /\ t.live = u.live /\ t.holds = u.holds /\ t = [u EXCEPT !.req = FALSE]
    BY NewPlaybackFacts
  <2>2. ~Requested(t)
    BY <2>1 DEF Requested
  <2>3. (Main(t) <=> Main(u)) /\ (Fills(t) <=> Fills(u)) /\ (Waits(t) <=> Waits(u))
    BY <2>1 DEF Main, Fills, Waits
  <2>4. ShapeOK(t)
    BY <2>1, ShapeSame DEF WorkOK, SideOK
  <2>5. SideOK(h, t)
    BY <2>1, <2>2, <2>3, <2>4 DEF WorkOK, SideOK
  <2>6. Main(t) => MainOK(r, h, t)
    BY <2>1, <2>2, <2>3 DEF WorkOK, MainOK, SeekOK, EndFor, Audible
  <2> QED BY <2>1, <2>2, <2>3, <2>5, <2>6 DEF WorkOK
<1>2. \A t \in N : t \in Task /\ WorkOK(r, h, t) /\ ~Requested(t)
  BY <1>1
<1>3. \A t, v \in N : Main(t) /\ Main(v) => t = v
  BY <1>1 DEF PairsOK
<1>4. \A t, v \in N : Fills(t) /\ Fills(v) => t = v
  BY <1>1 DEF PairsOK
<1>5. \A t, v \in N : Waits(t) => ~Fills(v)
  BY <1>1 DEF PairsOK
<1>6. /\ NoMain(T) => NoMain(N)
      /\ NoFill(T) => NoFill(N)
      /\ (\A u \in T : ~Waits(u)) => \A u \in N : ~Waits(u)
  BY <1>1 DEF NoMain, NoFill
<1>7. N \in SUBSET Task
  BY <1>2
<1> QED BY <1>2, <1>3, <1>4, <1>5, <1>6, <1>7 DEF PairsOK

(* What ++operationRef, with the refs released, leaves of tasks that have no request. *)
LEMMA VoidedTasks ==
  ASSUME NEW T \in SUBSET Task, \A t \in T : ShapeOK(t) /\ ~Requested(t), OneFill(T)
  PROVE  /\ \A N \in {NewOperation(T), Release(NewOperation(T))} :
              /\ N \in SUBSET Task /\ NoMain(N) /\ OneFill(N)
              /\ \A t \in N : /\ ShapeOK(t) /\ ~Requested(t) /\ (t.live => t.kind = "fill")
                              /\ Fills(t) => \E u \in T : Fills(u) /\ t.chunk = u.chunk
         /\ LET N == Release(NewGeneration(NewOperation(T)))
            IN  /\ N \in SUBSET Task /\ NoMain(N) /\ NoFill(N)
                /\ \A t \in N : ShapeOK(t) /\ ~Requested(t) /\ ~t.live
<1> DEFINE O == NewOperation(T)
           G == NewGeneration(O)
<1>1. ASSUME NEW t \in O
      PROVE  /\ t \in Task /\ ShapeOK(t) /\ ~Requested(t) /\ (t.live => t.kind = "fill") /\ ~Main(t)
             /\ Fills(t) => t \in T
  <2>1. PICK u \in T : /\ t \in Task /\ t.req = u.req /\ t.kind = u.kind /\ t.at = u.at /\ t.chunk = u.chunk
                       /\ t.live = (u.live /\ u.kind = "fill") /\ t.holds = u.holds
                       /\ u.kind = "fill" => t = u
    BY NewOperationFacts
  <2>2. ShapeOK(t)
    BY <2>1, ShapeSame
  <2> QED BY <2>1, <2>2 DEF Requested, Main, Fills
<1>2. O \in SUBSET Task /\ NoMain(O) /\ OneFill(O)
  BY <1>1 DEF NoMain, OneFill
<1>3. ASSUME NEW t \in Release(O)
      PROVE  /\ t \in Task /\ ShapeOK(t) /\ ~Requested(t) /\ (t.live => t.kind = "fill") /\ ~Main(t)
             /\ Fills(t) => \E u \in T : Fills(u) /\ t.chunk = u.chunk /\ t = [u EXCEPT !.holds = FALSE]
  <2>1. PICK u \in O : /\ t \in Task /\ t.req = u.req /\ t.kind = u.kind /\ t.at = u.at /\ t.chunk = u.chunk
                       /\ t.live = u.live /\ t.holds = FALSE /\ t = [u EXCEPT !.holds = FALSE]
    BY <1>2, ReleaseFacts
  <2>2. ShapeOK(t)
    BY <1>1, <2>1, ShapeSame
  <2>3. ~Requested(t) /\ (t.live => t.kind = "fill") /\ ~Main(t) /\ (Fills(t) => Fills(u))
    BY <1>1, <2>1 DEF Requested, Main, Fills
  <2> QED BY <1>1, <2>1, <2>2, <2>3
<1>4. Release(O) \in SUBSET Task /\ NoMain(Release(O)) /\ OneFill(Release(O))
  BY <1>3 DEF NoMain, OneFill
<1>5. ASSUME NEW t \in G
      PROVE  t \in Task /\ ShapeOK(t) /\ ~Requested(t) /\ ~t.live
  <2>1. PICK u \in O : /\ t \in Task /\ t.req = u.req /\ t.kind = u.kind /\ t.at = u.at /\ t.chunk = u.chunk
                       /\ t.live = (u.live /\ u.kind # "fill") /\ t.holds = u.holds
    BY <1>2, NewGenerationFacts
  <2>2. ShapeOK(t)
    BY <1>1, <2>1, ShapeSame
  <2> QED BY <1>1, <2>1, <2>2 DEF Requested
<1>6. ASSUME NEW t \in Release(G)
      PROVE  t \in Task /\ ShapeOK(t) /\ ~Requested(t) /\ ~t.live
  <2>0. G \in SUBSET Task
    BY <1>5
  <2>1. PICK u \in G : /\ t \in Task /\ t.req = u.req /\ t.kind = u.kind /\ t.at = u.at /\ t.chunk = u.chunk
                       /\ t.live = u.live /\ t.holds = FALSE /\ t = [u EXCEPT !.holds = FALSE]
    BY <2>0, ReleaseFacts
  <2>2. ShapeOK(t)
    BY <1>5, <2>1, ShapeSame
  <2> QED BY <1>5, <2>1, <2>2 DEF Requested
<1>7. Release(G) \in SUBSET Task /\ NoMain(Release(G)) /\ NoFill(Release(G))
  BY <1>6 DEF NoMain, NoFill, Main, Fills
<1> HIDE DEF G
<1>8. \A N \in {O, Release(O)} :
              /\ N \in SUBSET Task /\ NoMain(N) /\ OneFill(N)
              /\ \A t \in N : /\ ShapeOK(t) /\ ~Requested(t) /\ (t.live => t.kind = "fill")
                              /\ Fills(t) => \E u \in T : Fills(u) /\ t.chunk = u.chunk
  <2>1. \A t \in O : Fills(t) => \E u \in T : Fills(u) /\ t.chunk = u.chunk
    BY <1>1
  <2>2. \A t \in Release(O) : Fills(t) => \E u \in T : Fills(u) /\ t.chunk = u.chunk
    BY <1>3
  <2> HIDE DEF O
  <2> QED BY <1>1, <1>2, <1>3, <1>4, <2>1, <2>2
<1> QED BY <1>6, <1>7, <1>8 DEF G

(* The hook changes where no task looks. *)
LEMMA HookGood ==
  ASSUME NEW S, Sane(S), NEW h \in Hooks, h.intent = S.hook.intent, h.base = S.hook.base,
         h.current = S.hook.current, h.pending = S.hook.pending,
         NEW R, R = [S EXCEPT !.hook = h]
  PROVE  /\ Sane(R) /\ R.player = S.player /\ R.hook = h /\ R.pool = S.pool /\ R.tasks = S.tasks
<1>1. R \in States /\ R.player = S.player /\ R.hook = h /\ R.pool = S.pool /\ R.tasks = S.tasks
  BY DEF Sane, States
<1>2. HookOK(R.player, R.hook)
  BY <1>1 DEF Sane, HookOK, Ensuing
<1>3. \A t \in R.tasks : WorkOK(R.player, R.hook, t)
  BY <1>1 DEF Sane, WorkOK, SideOK, MainOK, SeekOK
<1> QED BY <1>1, <1>2, <1>3 DEF Sane

(***************************************************************************)
(* Playing one chunk                                                       *)
(***************************************************************************)

(* A start or a jump has been asked for. *)
Asks(t) == t.live /\ t.kind \in {"begin", "jump"} /\ t.at \notin PlaySteps
AskedIn(T) == \E t \in T : Asks(t)

(* The place of the narration: what has been heard to its end is behind it. *)
PlaceOf(p, h) == IF HasEnded(p) THEN h.current + 1 ELSE h.current

(* The narration is at chunk c, not heard yet or no more, and nothing else is asked for. *)
Voiced(R, c) ==
    /\ Sane(R) /\ EndOK(R.player, R.tasks)
    /\ PlaceOf(R.player, R.hook) = c /\ R.player.element # "sounding" /\ ~AskedIn(R.tasks)

(* Who asks for a place is to play. *)
LEMMA AskedIsMain ==
  ASSUME NEW T, NoMain(T), \A t \in T : ShapeOK(t)
  PROVE  ~AskedIn(T)
BY DEF NoMain, AskedIn, Asks, Main, ShapeOK

(* The name of an audio. *)
LEMMA KeyIsInt ==
  ASSUME NEW t \in Task
  PROVE  Key(t) \in Int
BY PlayerAssumption DEF Key, Task

(* A call of audio.play() *)
LEMMA PlayAudioGood ==
  ASSUME NEW S, Sane(S), NoMain(S.tasks), S.hook.intent, S.player.wants, S.player.focus = "narration",
         NEW t \in Task, t.live, t.req, t.kind # "fill", t.chunk = S.hook.current, t.chunk \in Chunks,
         NEW R, R = PlayAudio(S, t)
  PROVE  Voiced(R, S.hook.current)
<1>1. S \in States /\ S.player \in Players /\ S.tasks \in SUBSET Task /\ StoreOK(S.pool)
  BY StateFields DEF Sane
<1>2. PICK p : p = [S.player EXCEPT !.chunk = t.chunk, !.fresh = TRUE, !.element = "starting", !.endEvent = FALSE]
  OBVIOUS
<1>20. t.chunk \in 0 .. ChunkCount
  BY PlayerAssumption DEF Chunks
<1>3. /\ p \in Players /\ p.wants = S.player.wants /\ p.focus = S.player.focus /\ p.fresh
      /\ p.element = "starting" /\ ~p.endEvent
  BY <1>1, <1>2, <1>20 DEF Players
<1>4. PICK q : q = CacheSet(S.pool, Key(t))
  OBVIOUS
<1>5. StoreOK(q) /\ q \in Stores
  BY <1>1, <1>4, KeyIsInt, CacheSetOK DEF StoreOK, Tallied
<1>6. PICK v : v = [t EXCEPT !.at = "start"]
  OBVIOUS
<1>7. /\ v \in Task /\ v.at = "start" /\ v.live /\ v.kind = t.kind /\ v.chunk = t.chunk
      /\ v.req = t.req /\ v.holds = t.holds
  BY <1>6 DEF Task, PlaySteps
<1>21. PICK N : N = S.tasks \cup {v}
  OBVIOUS
<1>22. N \in SUBSET Task
  BY <1>1, <1>7, <1>21
<1>8. R = [S EXCEPT !.player = p, !.pool = q, !.tasks = N]
  BY <1>2, <1>4, <1>6, <1>21 DEF PlayAudio
<1>23. R \in States /\ R.player = p /\ R.hook = S.hook /\ R.pool = q /\ R.tasks = N
  BY <1>1, <1>3, <1>5, <1>8, <1>22 DEF States
<1>9. R \in States /\ R.player = p /\ R.hook = S.hook /\ R.pool = q /\ R.tasks = S.tasks \cup {v}
  BY <1>21, <1>23
<1>10. PICK B : B = [S EXCEPT !.player = p]
  OBVIOUS
<1>11. B \in States /\ B.player = p /\ B.hook = S.hook /\ B.pool = S.pool /\ B.tasks = S.tasks
  BY <1>1, <1>3, <1>10 DEF States
<1>12. PlayerOK(p)
  BY <1>3 DEF PlayerOK
<1>13. HookOK(p, S.hook)
  BY RestElim, <1>3 DEF HookOK, Chunks
<1>14. Sane(B)
  BY <1>1, <1>11, <1>12, <1>13, RestElim, RestIntro
<1>15. ShapeOK(v)
  BY <1>7 DEF ShapeOK, PlaySteps
<1>16. SideOK(S.hook, v)
  BY <1>7, <1>15 DEF SideOK, Fills
<1>17. MainOK(p, S.hook, v)
  BY <1>3, <1>7 DEF MainOK, EndFor, AnswerOK, SeekSteps, HasEnded
<1>18. Sane(R)
  BY <1>5, <1>7, <1>9, <1>11, <1>14, <1>16, <1>17, AddMain DEF WorkOK, Waits, SeekSteps, Fills
<1>19. ~AskedIn(R.tasks)
  <2>1. ~AskedIn(S.tasks)
    BY AskedIsMain, RestElim
  <2> QED BY <1>7, <1>9, <2>1 DEF AskedIn, Asks, PlaySteps
<1> QED BY <1>3, <1>9, <1>18, <1>19 DEF Voiced, EndOK, HasEnded, PlaceOf

(* A task that is to play the current chunk. *)
ToPlay(h, t) == t \in Task /\ t.live /\ t.kind # "fill" /\ t.chunk = h.current /\ t.chunk \in Chunks

(* A task that is to play the current chunk, at any of its steps. *)
LEMMA ToPlayAt ==
  ASSUME NEW p, NEW h, h.intent, NEW t, ToPlay(h, t), EndFor(p, t), ~HasEnded(p), p.element \notin Audible,
         NEW at \in PlaySteps, NEW v, v = [t EXCEPT !.at = at], Requested(v) => AnswerOK(p, v)
  PROVE  /\ WorkOK(p, h, v) /\ ~Fills(v) /\ ~Waits(v) /\ ~Asks(v) /\ v \in Task
         /\ v.at = at /\ v.req = t.req /\ v.kind = t.kind /\ v.holds = t.holds
<1>1. /\ v \in Task /\ v.at = at /\ v.live /\ v.kind = t.kind /\ v.chunk = t.chunk
      /\ v.req = t.req /\ v.holds = t.holds
  BY DEF Task, PlaySteps, ToPlay
<1>2. ShapeOK(v)
  BY <1>1 DEF ShapeOK, PlaySteps, ToPlay
<1>3. SideOK(h, v)
  BY <1>1, <1>2 DEF SideOK, Fills, ToPlay
<1>4. MainOK(p, h, v)
  BY <1>1 DEF MainOK, EndFor, PlaySteps, SeekSteps, ToPlay, Audible
<1> QED BY <1>1, <1>3, <1>4 DEF WorkOK, Fills, Waits, SeekSteps, PlaySteps, Asks, ToPlay

(* A request of its own is under way. *)
LEMMA AwaitsGood ==
  ASSUME NEW S, Sane(S), NoMain(S.tasks), S.hook.intent, NEW t, ToPlay(S.hook, t), EndFor(S.player, t),
         ~HasEnded(S.player), S.player.element \notin Audible,
         NEW at \in PlaySteps, NEW v, v = [t EXCEPT !.at = at], Requested(v) => AnswerOK(S.player, v),
         (S.player.endEvent /\ S.player.state = "playing") => Requested(v),
         NEW R, R = [S EXCEPT !.tasks = S.tasks \cup {v}]
  PROVE  Voiced(R, S.hook.current)
<1>1. /\ WorkOK(S.player, S.hook, v) /\ ~Fills(v) /\ ~Waits(v) /\ ~Asks(v) /\ v \in Task
      /\ v.at = at /\ v.req = t.req /\ v.kind = t.kind /\ v.holds = t.holds
  BY ToPlayAt
<1>2. /\ S \in States /\ R \in States /\ R.player = S.player /\ R.hook = S.hook /\ R.pool = S.pool
      /\ R.tasks = S.tasks \cup {v}
  BY <1>1 DEF Sane, States
<1>7. StoreOK(R.pool)
  BY <1>2 DEF Sane
<1>3. Sane(R)
  BY <1>1, <1>2, <1>7, AddMain
<1>4. ~AskedIn(S.tasks)
  BY AskedIsMain, RestElim
<1>5. ~AskedIn(R.tasks)
  BY <1>1, <1>2, <1>4 DEF AskedIn
<1>6. EndOK(R.player, R.tasks)
  BY <1>1, <1>2 DEF EndOK, EndFor
<1> QED BY <1>2, <1>3, <1>5, <1>6 DEF Voiced, PlaceOf, Audible

(* speak finds its audio or asks for it. *)
LEMMA TakeAudioGood ==
  ASSUME NEW S, Sane(S), NoMain(S.tasks), S.hook.intent, S.player.wants, S.player.focus = "narration",
         ~S.player.fresh, S.player.element \notin Audible,
         NEW t, ToPlay(S.hook, t), t.req, EndFor(S.player, t),
         NEW R, R = TakeAudio(S, t)
  PROVE  Voiced(R, S.hook.current)
<1>1. S \in States /\ StoreOK(S.pool) /\ t \in Task
  BY DEF Sane, ToPlay
<1>2. CASE HasAudio(S.pool, Key(t))
  <2>1. PICK q : q = [S.pool EXCEPT !.ready = RemoveFirst(S.pool.ready, Key(t))]
    OBVIOUS
  <2>2. StoreOK(q) /\ q \in Stores
    BY <1>1, <2>1, KeyIsInt, TakeReadyOK DEF StoreOK, Tallied
  <2>3. PICK T : T = [S EXCEPT !.pool = [S.pool EXCEPT !.ready = RemoveFirst(@, Key(t))]]
    OBVIOUS
  <2>7. T = [S EXCEPT !.pool = q]
    BY <1>1, <2>1, <2>3 DEF States
  <2>4. T \in States /\ T.player = S.player /\ T.hook = S.hook /\ T.pool = q /\ T.tasks = S.tasks
    BY <1>1, <2>2, <2>7 DEF States
  <2>5. Sane(T)
    BY <2>2, <2>4 DEF Sane
  <2>6. R = PlayAudio(T, t)
    BY <1>2, <2>3, Zenon DEF TakeAudio
  <2> QED BY <2>4, <2>5, <2>6, PlayAudioGood DEF ToPlay
<1>3. CASE ~HasAudio(S.pool, Key(t))
  <2>1. PICK v : v = [t EXCEPT !.at = "fetch"]
    OBVIOUS
  <2>2. R = [S EXCEPT !.tasks = S.tasks \cup {v}]
    BY <1>3, <2>1 DEF TakeAudio
  <2>3. v.at = "fetch" /\ v.req
    BY <1>1, <2>1 DEF Task
  <2>4. AnswerOK(S.player, v) /\ Requested(v) /\ "fetch" \in PlaySteps
    BY <2>3 DEF AnswerOK, Requested, PlaySteps
  <2>5. ~HasEnded(S.player) /\ S.player.element # "sounding"
    BY DEF HasEnded, Audible
  <2> QED BY <2>1, <2>2, <2>4, <2>5, AwaitsGood
<1> QED BY <1>2, <1>3

(* Before ++playbackRequestId there may be requests of operations that are over. *)
LooseOK(h, t) ==
    /\ ShapeOK(t)
    /\ t.live /\ t.kind # "fill" => h.intent
    /\ Fills(t) => t.chunk = h.current + Len(h.pending) + 1
Loose(S) ==
    /\ S \in States /\ StoreOK(S.pool) /\ PlayerOK(S.player) /\ HookOK(S.player, S.hook)
    /\ \A t \in S.tasks : LooseOK(S.hook, t)
    /\ NoMain(S.tasks) /\ OneFill(S.tasks)

(* The invariant without a task that is to play is more than speak needs. *)
LEMMA GoodLoose ==
  ASSUME NEW S, Sane(S), NoMain(S.tasks)
  PROVE  Loose(S)
BY RestElim DEF Loose, LooseOK, SideOK

(* After ++playbackRequestId nobody is waited for. *)
LEMMA LooseReplayed ==
  ASSUME NEW h, NEW T \in SUBSET Task, \A t \in T : LooseOK(h, t), NoMain(T), OneFill(T), NEW N, N = NewPlayback(T)
  PROVE  /\ N \in SUBSET Task /\ NoMain(N) /\ OneFill(N)
         /\ \A t \in N : SideOK(h, t) /\ ~Requested(t)
         /\ NoFill(T) => NoFill(N)
<1>1. ASSUME NEW t \in N
      PROVE  \E u \in T : /\ t = [u EXCEPT !.req = FALSE] /\ t \in Task /\ ~Requested(t) /\ SideOK(h, t)
                          /\ ~Main(t) /\ (Fills(t) <=> Fills(u))
  <2>1. PICK u \in T : /\ t \in Task /\ t.req = FALSE /\ t.kind = u.kind /\ t.at = u.at /\ t.chunk = u.chunk
                       /\ t.live = u.live /\ t.holds = u.holds /\ t = [u EXCEPT !.req = FALSE]
    BY NewPlaybackFacts
  <2>2. ~Requested(t)
    BY <2>1 DEF Requested
  <2>3. ~Main(t) /\ (Fills(t) <=> Fills(u))
    BY <2>1 DEF Main, Fills, NoMain
  <2>4. ShapeOK(t)
    BY <2>1, ShapeSame DEF LooseOK
  <2>5. SideOK(h, t)
    BY <2>1, <2>2, <2>3, <2>4 DEF LooseOK, SideOK
  <2> QED BY <2>1, <2>2, <2>3, <2>5
<1>2. NoMain(N) /\ \A t \in N : t \in Task /\ SideOK(h, t) /\ ~Requested(t)
  BY <1>1 DEF NoMain
<1>3. OneFill(N) /\ (NoFill(T) => NoFill(N))
  BY <1>1 DEF OneFill, NoFill
<1>4. N \in SUBSET Task
  BY <1>2
<1> QED BY <1>2, <1>3, <1>4

(* speak: the one task that plays is the new one. *)
LEMMA SpeakGood ==
  ASSUME NEW S, Loose(S), S.hook.intent, NEW t, ToPlay(S.hook, t), EndFor(S.player, t),
         NEW R, R = Speak(S, t)
  PROVE  Voiced(R, S.hook.current)
<1>1. S \in States /\ S.player \in Players /\ S.tasks \in SUBSET Task /\ StoreOK(S.pool) /\ t \in Task
  BY StateFields DEF Loose, ToPlay
<1>2. PICK u : u = [t EXCEPT !.req = TRUE]
  OBVIOUS
<1>3. ToPlay(S.hook, u) /\ u.req /\ u.kind = t.kind /\ u.holds = t.holds /\ Key(u) = Key(t)
  BY <1>1, <1>2 DEF ToPlay, Task, Key
<1>4. PICK p : p = [S.player EXCEPT !.focus = "narration", !.wants = TRUE, !.fresh = FALSE, !.triggered = FALSE,
                                    !.replacing = TRUE, !.element = Silenced(S.player.element)]
  OBVIOUS
<1>5. /\ p \in Players /\ p.wants /\ p.focus = "narration" /\ ~p.fresh /\ p.element \notin Audible
      /\ p.endEvent = S.player.endEvent /\ p.state = S.player.state /\ p.element # "sounding"
      /\ S.player.element = "ended" => p.element = "ended"
  BY <1>1, <1>4 DEF Players, Silenced, Audible
<1>6. PICK N : N = NewPlayback(S.tasks)
  OBVIOUS
<1>15. PICK B : B = [S EXCEPT !.player = [S.player EXCEPT !.focus = "narration", !.wants = TRUE, !.fresh = FALSE,
                                                  !.triggered = FALSE, !.replacing = TRUE,
                                                  !.element = Silenced(@)],
                             !.tasks = NewPlayback(@)]
  OBVIOUS
<1>7. B = [S EXCEPT !.player = p, !.tasks = N]
  BY <1>1, <1>4, <1>6, <1>15 DEF States
<1>8. N \in SUBSET Task /\ NoMain(N) /\ OneFill(N) /\ \A v \in N : SideOK(S.hook, v)
  BY <1>1, <1>6, LooseReplayed DEF Loose
<1>9. B \in States /\ B.player = p /\ B.hook = S.hook /\ B.pool = S.pool /\ B.tasks = N
  BY <1>1, <1>5, <1>7, <1>8 DEF States
<1>10. PlayerOK(p) /\ HookOK(p, S.hook)
  BY <1>5 DEF Loose, PlayerOK, HookOK
<1>11. Sane(B) /\ NoMain(B.tasks)
  BY <1>1, <1>8, <1>9, <1>10, RestIntro
<1>12. EndFor(p, u) /\ ~HasEnded(p)
  BY <1>3, <1>5 DEF EndFor, HasEnded
<1>13. CASE ~Contains(S.pool.cache, Key(t)) /\ Key(t) \in Promised(S.pool)
  <2>1. PICK v : v = [u EXCEPT !.at = "prefetch"]
    OBVIOUS
  <2>2. R = [B EXCEPT !.tasks = @ \cup {v}]
    BY <1>2, <1>13, <1>15, <2>1, Zenon DEF Speak
  <2>3. v.at = "prefetch" /\ v.req
    BY <1>3, <2>1 DEF Task, ToPlay
  <2>4. AnswerOK(p, v) /\ Requested(v) /\ "prefetch" \in PlaySteps
    BY <1>5, <2>3 DEF AnswerOK, Requested, PlaySteps
  <2> QED BY <1>3, <1>5, <1>9, <1>11, <1>12, <2>1, <2>2, <2>4, AwaitsGood
<1>14. CASE ~(~Contains(S.pool.cache, Key(t)) /\ Key(t) \in Promised(S.pool))
  <2>1. R = TakeAudio(B, u)
    BY <1>2, <1>14, <1>15, Zenon DEF Speak
  <2> QED BY <1>3, <1>5, <1>9, <1>11, <1>12, <2>1, TakeAudioGood
<1> QED BY <1>13, <1>14

(***************************************************************************)
(* Pausing and stopping                                                    *)
(***************************************************************************)

(* ++playbackRequestId drops nothing the user asked for. *)
LEMMA ReplayedAsks ==
  ASSUME NEW T \in SUBSET Task
  PROVE  AskedIn(NewPlayback(T)) <=> AskedIn(T)
<1>1. ASSUME NEW t \in NewPlayback(T) PROVE \E u \in T : Asks(t) <=> Asks(u)
  <2>1. PICK u \in T : t.kind = u.kind /\ t.at = u.at /\ t.live = u.live
    BY NewPlaybackFacts
  <2> QED BY <2>1 DEF Asks
<1>2. \A u \in T : [u EXCEPT !.req = FALSE] \in NewPlayback(T) /\ (Asks([u EXCEPT !.req = FALSE]) <=> Asks(u))
  BY DEF NewPlayback, Asks, Task
<1> QED BY <1>1, <1>2 DEF AskedIn

(* backendTTS.pause: silent, nobody is waited for, the place is the same. *)
LEMMA BackendPauseGood ==
  ASSUME NEW S, Sane(S), NEW R, R = BackendPause(S)
  PROVE  /\ Sane(R) /\ EndOK(R.player, R.tasks)
         /\ R.hook = S.hook /\ R.pool = S.pool /\ R.tasks = NewPlayback(S.tasks)
         /\ \A t \in R.tasks : ~Requested(t)
         /\ NoMain(S.tasks) => NoMain(R.tasks)
         /\ R.player.state = "paused" /\ R.player.element \notin Audible /\ R.player.fresh = S.player.fresh
         /\ HasEnded(R.player) <=> HasEnded(S.player)
         /\ AskedIn(R.tasks) <=> AskedIn(S.tasks)
         /\ R.player.chunk = S.player.chunk /\ R.player.endEvent = S.player.endEvent
         /\ R.player.focus # "narration"
<1>1. S \in States /\ S.player \in Players /\ S.tasks \in SUBSET Task
  BY StateFields DEF Sane
<1>2. PICK p : p = [S.player EXCEPT !.wants = FALSE, !.replacing = FALSE, !.state = "paused",
                                    !.element = Silenced(@), !.focus = IF @ = "narration" THEN "none" ELSE @]
  OBVIOUS
<1>3. /\ p \in Players /\ p.state = "paused" /\ p.element = Silenced(S.player.element) /\ p.fresh = S.player.fresh
      /\ p.endEvent = S.player.endEvent /\ p.chunk = S.player.chunk /\ p.focus # "narration"
  BY <1>1, <1>2 DEF Players, Silenced
<1>4. PICK N : N = NewPlayback(S.tasks)
  OBVIOUS
<1>8. /\ p.element \notin Audible /\ (p.element = "ended" <=> S.player.element = "ended")
  BY <1>1, <1>3 DEF Silenced, Audible, Players
<1>5. /\ N \in SUBSET Task /\ PairsOK(N) /\ (NoMain(S.tasks) => NoMain(N))
      /\ \A t \in N : WorkOK(p, S.hook, t) /\ ~Requested(t)
  <2>1. HasEnded(p) <=> HasEnded(S.player)
    BY <1>3, <1>8 DEF HasEnded
  <2> QED BY <1>1, <1>3, <1>4, <1>8, <2>1, NewPlaybackKeeps DEF Sane
<1>6. R = [S EXCEPT !.player = p, !.tasks = N]
  BY <1>2, <1>4 DEF BackendPause
<1>7. R \in States /\ R.player = p /\ R.hook = S.hook /\ R.pool = S.pool /\ R.tasks = N
  BY <1>1, <1>3, <1>5, <1>6 DEF States
<1>9. PlayerOK(p) /\ HookOK(p, S.hook)
  BY <1>3, <1>8 DEF Sane, PlayerOK, HookOK
<1>10. \A t \in N : WorkOK(p, S.hook, t)
  BY <1>5
<1>11. Sane(R)
  BY <1>5, <1>7, <1>9, <1>10 DEF Sane
<1>12. EndOK(R.player, R.tasks)
  BY <1>3, <1>7 DEF EndOK
<1>13. AskedIn(R.tasks) <=> AskedIn(S.tasks)
  BY <1>1, <1>4, <1>7, ReplayedAsks
<1> QED BY <1>3, <1>4, <1>5, <1>7, <1>8, <1>11, <1>12, <1>13 DEF HasEnded

SameHook(g, h) ==
    g.intent = h.intent /\ g.base = h.base /\ g.current = h.current /\ g.pending = h.pending

(* The calls that change the hook only where no task looks. *)
LEMMA FlushGood ==
  ASSUME NEW S, Sane(S), NEW R, R = FlushSession(S)
  PROVE  /\ Sane(R) /\ R.player = S.player /\ R.pool = S.pool /\ R.tasks = S.tasks
         /\ SameHook(R.hook, S.hook) /\ R.hook.mark = S.hook.mark
<1>1. S.hook \in Hooks
  BY StateFields DEF Sane
<1>2. PICK h : h = [S.hook EXCEPT !.saved = IF S.hook.mark # 0 THEN S.hook.mark ELSE S.hook.view]
  OBVIOUS
<1>4. (IF S.hook.mark # 0 THEN S.hook.mark ELSE S.hook.view) \in 0 .. ChunkCount + 1
  BY <1>1, PlayerAssumption DEF Hooks
<1>3. h \in Hooks /\ SameHook(h, S.hook) /\ h.mark = S.hook.mark
  BY <1>1, <1>2, <1>4 DEF Hooks, SameHook
<1>5. R = [S EXCEPT !.hook = h]
  BY <1>2 DEF FlushSession
<1> QED BY <1>3, <1>5, HookGood DEF SameHook

(* The finally of playChunk. *)
LEMMA LeaveGood ==
  ASSUME NEW S, Sane(S), NEW t \in Task, NEW R, R = Leave(S, t)
  PROVE  /\ Sane(R) /\ R.player = S.player /\ R.pool = S.pool /\ R.tasks = S.tasks
         /\ SameHook(R.hook, S.hook)
<1>1. S.hook \in Hooks
  BY StateFields DEF Sane
<1>2. PICK b : b = (S.hook.preparing /\ ~t.live)
  OBVIOUS
<1>3. b \in BOOLEAN
  BY <1>2
<1>4. PICK h : h = [S.hook EXCEPT !.preparing = b]
  OBVIOUS
<1>5. h \in Hooks /\ SameHook(h, S.hook)
  BY <1>1, <1>3, <1>4 DEF Hooks, SameHook
<1>6. R = [S EXCEPT !.hook = h]
  BY <1>2, <1>4 DEF Leave
<1> QED BY <1>5, <1>6, HookGood DEF SameHook

(* How every failed operation ends: silent, at the place where it was. *)
LEMMA InterruptGood ==
  ASSUME NEW S, Sane(S), NEW R, R = Interrupt(S)
  PROVE  /\ Sane(R) /\ EndOK(R.player, R.tasks) /\ SameHook(R.hook, S.hook)
         /\ PlaceOf(R.player, R.hook) = PlaceOf(S.player, S.hook) /\ R.player.element \notin Audible
         /\ AskedIn(R.tasks) <=> AskedIn(S.tasks)
<1>1. PICK B : B = BackendPause(S)
  OBVIOUS
<1>2. /\ Sane(B) /\ EndOK(B.player, B.tasks) /\ B.hook = S.hook /\ B.player.element \notin Audible
      /\ HasEnded(B.player) <=> HasEnded(S.player)
      /\ AskedIn(B.tasks) <=> AskedIn(S.tasks)
  BY <1>1, BackendPauseGood
<1>3. B.hook \in Hooks
  BY <1>2, StateFields DEF Sane
<1>4. PICK h : h = [B.hook EXCEPT !.prompt = TRUE]
  OBVIOUS
<1>5. h \in Hooks /\ SameHook(h, B.hook)
  BY <1>3, <1>4 DEF Hooks, SameHook
<1>6. R = [B EXCEPT !.hook = h]
  BY <1>1, <1>4 DEF Interrupt
<1>7. Sane(R) /\ R.player = B.player /\ R.hook = h /\ R.tasks = B.tasks
  BY <1>2, <1>5, <1>6, HookGood DEF SameHook
<1> QED BY <1>2, <1>5, <1>7 DEF SameHook, PlaceOf

(* Nothing goes on. *)
Dead(T) == \A t \in T : ShapeOK(t) /\ ~Requested(t) /\ ~t.live

(* With only dead tasks the player and the hook have to be right, nothing else. *)
LEMMA DeadGood ==
  ASSUME NEW S \in States, StoreOK(S.pool), PlayerOK(S.player), HookOK(S.player, S.hook), Dead(S.tasks)
  PROVE  Sane(S) /\ NoMain(S.tasks) /\ NoFill(S.tasks) /\ ~AskedIn(S.tasks)
<1>1. NoMain(S.tasks) /\ NoFill(S.tasks) /\ ~AskedIn(S.tasks) /\ OneFill(S.tasks)
  BY DEF Dead, NoMain, NoFill, AskedIn, Asks, OneFill, Main, Fills
<1>2. \A t \in S.tasks : SideOK(S.hook, t)
  BY DEF Dead, SideOK, Fills
<1> QED BY <1>1, <1>2, RestIntro

(* resetBuffer leaves no task that goes on. *)
LEMMA ResetBufferGood ==
  ASSUME NEW S \in States, StoreOK(S.pool), \A t \in S.tasks : ShapeOK(t), OneFill(S.tasks), NEW R, R = ResetBuffer(S)
  PROVE  /\ R \in States /\ StoreOK(R.pool) /\ PlayerOK(R.player) /\ HookOK(R.player, R.hook) /\ Dead(R.tasks)
         /\ R.player.element = "none" /\ ~R.player.fresh /\ ~R.player.endEvent
         /\ R.player.state = "stopped"
         /\ R.hook.current = 0 /\ R.hook.pending = <<>> /\ R.hook.intent = S.hook.intent
         /\ R.hook.saved = S.hook.saved /\ R.hook.view = S.hook.view
<1>1. S.player \in Players /\ S.tasks \in SUBSET Task /\ S.hook \in Hooks
  BY StateFields
<1>2. PICK p : p = [state |-> "stopped", wants |-> FALSE, replacing |-> FALSE, triggered |-> FALSE,
                    element |-> "none", chunk |-> 0, fresh |-> FALSE, endEvent |-> FALSE,
                    focus |-> IF S.player.focus = "narration" THEN "none" ELSE S.player.focus]
  OBVIOUS
<1>3. /\ p \in Players /\ p.element = "none" /\ ~p.fresh /\ ~p.endEvent /\ p.state = "stopped"
  <2>1. 0 \in 0 .. ChunkCount
    BY PlayerAssumption
  <2> QED BY <1>1, <1>2, <2>1 DEF Players
<1>4. PICK N : N = NewPlayback(S.tasks)
  OBVIOUS
<1>5. N \in SUBSET Task /\ OneFill(N) /\ \A t \in N : ShapeOK(t) /\ ~Requested(t)
  <2>1. ASSUME NEW t \in N
        PROVE  \E u \in S.tasks : /\ t = [u EXCEPT !.req = FALSE] /\ t \in Task /\ ~Requested(t) /\ ShapeOK(t)
                                  /\ (Fills(t) <=> Fills(u))
    <3>1. PICK u \in S.tasks : /\ t \in Task /\ t.req = FALSE /\ t.kind = u.kind /\ t.at = u.at /\ t.chunk = u.chunk
                               /\ t.live = u.live /\ t.holds = u.holds /\ t = [u EXCEPT !.req = FALSE]
      BY <1>1, <1>4, NewPlaybackFacts
    <3>2. ShapeOK(t)
      BY <3>1, ShapeSame
    <3> QED BY <3>1, <3>2 DEF Requested, Fills
  <2>2. \A t \in N : t \in Task /\ ShapeOK(t) /\ ~Requested(t)
    BY <2>1
  <2>3. OneFill(N)
    BY <2>1 DEF OneFill
  <2> QED BY <2>2, <2>3
<1>6. PICK M : M = NewSource(Release(NewGeneration(NewOperation(N))))
  OBVIOUS
<1>7. M \in SUBSET Task /\ Dead(M)
  <2>1. PICK V : V = Release(NewGeneration(NewOperation(N)))
    OBVIOUS
  <2>2. V \in SUBSET Task /\ \A t \in V : ShapeOK(t) /\ ~Requested(t) /\ ~t.live
    BY <1>5, <2>1, VoidedTasks
  <2>3. ASSUME NEW t \in M PROVE t \in Task /\ ShapeOK(t) /\ ~Requested(t) /\ ~t.live
    <3>1. PICK u \in V : /\ t \in Task /\ t.req = u.req /\ t.kind = u.kind /\ t.at = u.at /\ t.chunk = u.chunk
                         /\ t.live = u.live
      BY <1>6, <2>1, <2>2, NewSourceFacts
    <3>2. ShapeOK(t)
      BY <2>2, <3>1, ShapeSame
    <3> QED BY <2>2, <3>1, <3>2 DEF Requested
  <2> QED BY <2>3 DEF Dead
<1>8. PICK q : q = ClearPreloadQueueOnly(S.pool)
  OBVIOUS
<1>9. StoreOK(q) /\ q \in Stores
  BY <1>8, ClearOK DEF StoreOK, Tallied
<1>10. PICK e : e = <<>>
  OBVIOUS
<1>11. <<>> \in Seq(Chunks) /\ Len(<<>>) = 0
  OBVIOUS
<1>12. e \in Seq(Chunks) /\ Len(e) = 0
  BY <1>10, <1>11
<1>13. PICK B : B = BackendStop(S)
  OBVIOUS
<1>14. B = [S EXCEPT !.player = p, !.tasks = N]
  BY <1>2, <1>4, <1>13 DEF BackendStop
<1>15. B \in States /\ B.player = p /\ B.hook = S.hook /\ B.tasks = N /\ B.pool = S.pool
  BY <1>1, <1>3, <1>5, <1>14 DEF States
<1>16. PICK h : h = [B.hook EXCEPT !.preparing = FALSE, !.base = 0, !.current = 0, !.pending = e]
  OBVIOUS
<1>17. /\ h \in Hooks /\ h.current = 0 /\ h.pending = e /\ h.intent = S.hook.intent
       /\ h.saved = S.hook.saved /\ h.view = S.hook.view
  <2>1. 0 \in 0 .. ChunkCount /\ 0 \in 0 .. ChunkCount + 1
    BY PlayerAssumption
  <2> QED BY <1>1, <1>12, <1>15, <1>16, <2>1 DEF Hooks
<1>18. R = [B EXCEPT !.hook = h, !.tasks = M, !.pool = q]
  BY <1>6, <1>8, <1>10, <1>13, <1>15, <1>16 DEF ResetBuffer
<1>19. R \in States /\ R.player = p /\ R.hook = h /\ R.tasks = M /\ R.pool = q
  BY <1>7, <1>9, <1>15, <1>17, <1>18 DEF States
<1>20. PlayerOK(p) /\ HookOK(p, h)
  BY <1>3, <1>12, <1>17 DEF PlayerOK, HookOK, Audible, Ensuing
<1> QED BY <1>3, <1>7, <1>9, <1>10, <1>17, <1>19, <1>20

(***************************************************************************)
(* playChunk, from stop to the answers that fail                           *)
(***************************************************************************)

(* Everything stops. *)
LEMMA StopGood ==
  ASSUME NEW S \in States, StoreOK(S.pool), \A t \in S.tasks : ShapeOK(t), OneFill(S.tasks), NEW R, R = Stop(S)
  PROVE  Voiced(R, 0)
<1>1. PICK B : B = ResetBuffer(S)
  OBVIOUS
<1>2. /\ B \in States /\ StoreOK(B.pool) /\ PlayerOK(B.player) /\ HookOK(B.player, B.hook) /\ Dead(B.tasks)
      /\ B.player.element = "none" /\ ~B.player.fresh /\ ~B.player.endEvent
      /\ B.hook.current = 0 /\ B.hook.pending = <<>>
  BY <1>1, ResetBufferGood
<1>3. B.hook \in Hooks
  BY <1>2, StateFields
<1>4. PICK h : h = [B.hook EXCEPT !.intent = FALSE, !.sleep = "off", !.saved = 0, !.prompt = FALSE, !.mark = 0]
  OBVIOUS
<1>5. h \in Hooks /\ h.current = 0 /\ h.pending = B.hook.pending
  <2>1. 0 \in 0 .. ChunkCount /\ 0 \in 0 .. ChunkCount + 1
    BY PlayerAssumption
  <2> QED BY <1>2, <1>3, <1>4, <2>1 DEF Hooks
<1>6. R = [B EXCEPT !.hook = h]
  BY <1>1, <1>4 DEF Stop
<1>7. R \in States /\ R.player = B.player /\ R.hook = h /\ R.tasks = B.tasks /\ R.pool = B.pool
  BY <1>2, <1>5, <1>6 DEF States
<1>8. HookOK(R.player, R.hook)
  BY <1>2, <1>5, <1>7 DEF HookOK, Ensuing, Audible
<1>9. Sane(R) /\ ~AskedIn(R.tasks)
  BY <1>2, <1>7, <1>8, DeadGood
<1> QED BY <1>2, <1>5, <1>7, <1>9 DEF Voiced, EndOK, PlaceOf, HasEnded

(* stop, from any state of the invariant. *)
LEMMA StopOfGood ==
  ASSUME NEW S, Sane(S), NEW R, R = Stop(S)
  PROVE  Voiced(R, 0)
BY StopGood, RestElim

(* What playChunk needs of the state: the place is about to change. *)
Unplaced(S) ==
    /\ S \in States /\ StoreOK(S.pool) /\ PlayerOK(S.player) /\ S.hook.intent
    /\ \A t \in S.tasks : ShapeOK(t)
    /\ NoMain(S.tasks) /\ OneFill(S.tasks)

(* The next chunk to play is c. *)
LEMMA PlayChunkGood ==
  ASSUME NEW S, Unplaced(S), NEW c \in Chunks,
         NEW t \in Task, t.live, t.kind # "fill", EndFor(S.player, t), Ensuing(S.hook, c),
         \A u \in S.tasks : Fills(u) => u.chunk = c + Len(S.hook.pending) + 1,
         NEW R, R = PlayChunk(S, t, c)
  PROVE  Voiced(R, c) \/ Voiced(R, 0)
<1>1. S \in States /\ S.hook \in Hooks
  BY StateFields DEF Unplaced
<1>2. PICK h : h = [S.hook EXCEPT !.current = c, !.preparing = TRUE]
  OBVIOUS
<1>3. /\ h \in Hooks /\ h.current = c /\ h.pending = S.hook.pending /\ h.intent = S.hook.intent
  <2>1. c \in 0 .. ChunkCount
    BY PlayerAssumption DEF Chunks
  <2> QED BY <1>1, <1>2, <2>1 DEF Hooks
<1>4. PICK P : P = [S EXCEPT !.hook = [@ EXCEPT !.current = c, !.preparing = TRUE]]
  OBVIOUS
<1>5. P = [S EXCEPT !.hook = h]
  BY <1>2, <1>4
<1>6. P \in States /\ P.player = S.player /\ P.hook = h /\ P.tasks = S.tasks /\ P.pool = S.pool
  BY <1>1, <1>3, <1>5 DEF States
<1>7. HookOK(P.player, P.hook)
  <2>1. c # 0
    BY PlayerAssumption DEF Chunks
  <2> QED BY <1>3, <1>6, <2>1 DEF Unplaced, HookOK, Ensuing
<1>8. \A u \in P.tasks : LooseOK(P.hook, u)
  BY <1>3, <1>6 DEF Unplaced, LooseOK
<1>9. Loose(P)
  BY <1>6, <1>7, <1>8 DEF Loose, Unplaced
<1>10. CASE S.hook.sleep = "due"
  <2>1. R = Stop(P)
    BY <1>4, <1>10, Zenon DEF PlayChunk
  <2> QED BY <1>9, <2>1, StopGood DEF Loose, LooseOK
<1>11. CASE S.hook.sleep # "due"
  <2>1. PICK u : u = [t EXCEPT !.chunk = c, !.tries = 0, !.plain = FALSE]
    OBVIOUS
  <2>2. R = Speak(P, u)
    BY <1>4, <1>11, <2>1, Zenon DEF PlayChunk
  <2>3. /\ u \in Task /\ u.live = t.live /\ u.kind = t.kind /\ u.chunk = c /\ u.holds = t.holds
    <3>1. c \in 0 .. ChunkCount + 1 /\ 0 \in 0 .. MaxRetries
      BY PlayerAssumption DEF Chunks
    <3> QED BY <2>1, <3>1 DEF Task
  <2>4. ToPlay(P.hook, u) /\ EndFor(P.player, u)
    BY <1>3, <1>6, <2>3 DEF ToPlay, EndFor
  <2> QED BY <1>3, <1>6, <1>9, <2>2, <2>4, SpeakGood DEF Unplaced
<1> QED BY <1>10, <1>11

(* speak's catch and what follows it. *)
LEMMA SpeakFailsGood ==
  ASSUME NEW S, Sane(S), NoMain(S.tasks), S.hook.intent, S.player.element \notin Audible,
         NEW t, ToPlay(S.hook, t), ~HasEnded(S.player), NEW kind,
         NEW R, R = SpeakFails(S, t, kind)
  PROVE  Voiced(R, S.hook.current) \/ Voiced(R, 0)
<1>1. S \in States /\ S.player \in Players /\ t \in Task
  BY StateFields DEF Sane, ToPlay
<1>2. PICK p : p = [S.player EXCEPT !.replacing = FALSE, !.state = "paused"]
  OBVIOUS
<1>3. /\ p \in Players /\ p.state = "paused" /\ p.element = S.player.element /\ p.fresh = S.player.fresh
      /\ p.endEvent = S.player.endEvent /\ p.wants = S.player.wants /\ p.focus = S.player.focus
  BY <1>1, <1>2 DEF Players
<1>4. PICK F : F = [S EXCEPT !.player = [@ EXCEPT !.replacing = FALSE, !.state = "paused"]]
  OBVIOUS
<1>5. F = [S EXCEPT !.player = p]
  BY <1>2, <1>4
<1>6. F \in States /\ F.player = p /\ F.hook = S.hook /\ F.tasks = S.tasks /\ F.pool = S.pool
  BY <1>1, <1>3, <1>5 DEF States
<1>7. PlayerOK(p) /\ HookOK(p, S.hook)
  BY <1>3 DEF Sane, PlayerOK, HookOK
<1>8. Sane(F) /\ NoMain(F.tasks)
  BY <1>6, <1>7, RestElim, RestIntro
<1>9. /\ ~HasEnded(F.player) /\ F.player.element # "sounding" /\ F.player.element \notin Audible
      /\ \A u : EndFor(F.player, u)
  BY <1>3, <1>6 DEF HasEnded, Audible, EndFor
<1>10. CASE kind = "retry" /\ t.tries < MaxRetries
  <2>1. PICK w : w = [t EXCEPT !.tries = t.tries + 1]
    OBVIOUS
  <2>2. /\ ToPlay(F.hook, w) /\ w.req = t.req
    <3>1. t.tries + 1 \in 0 .. MaxRetries
      BY <1>1, <1>10, PlayerAssumption DEF Task
    <3> QED BY <1>1, <1>6, <2>1, <3>1 DEF ToPlay, Task
  <2>3. PICK v : v = [w EXCEPT !.at = "retry"]
    OBVIOUS
  <2>4. v = [t EXCEPT !.at = "retry", !.tries = t.tries + 1]
    BY <1>1, <2>1, <2>3 DEF Task
  <2>5. R = [F EXCEPT !.tasks = F.tasks \cup {v}]
    BY <1>4, <1>10, <2>4 DEF SpeakFails
  <2>6. v.at = "retry" /\ "retry" \in PlaySteps
    BY <1>1, <2>4 DEF Task, PlaySteps
  <2>7. ~Requested(v)
    BY <2>6 DEF Requested
  <2>8. ~(F.player.endEvent /\ F.player.state = "playing")
    BY <1>3, <1>6
  <2> QED BY <1>6, <1>8, <1>9, <2>2, <2>3, <2>5, <2>6, <2>7, <2>8, AwaitsGood
<1>11. CASE kind = "invalid" /\ ~t.plain
  <2>1. CASE F.hook.sleep = "due"
    <3>1. R = Stop(F)
      BY <1>4, <1>11, <2>1, Zenon DEF SpeakFails
    <3> QED BY <1>8, <3>1, StopOfGood
  <2>2. CASE F.hook.sleep # "due"
    <3>1. PICK u : u = [t EXCEPT !.plain = TRUE, !.tries = 0]
      OBVIOUS
    <3>2. R = Speak(F, u)
      BY <1>4, <1>11, <2>2, <3>1, Zenon DEF SpeakFails
    <3>3. ToPlay(F.hook, u)
      <4>1. 0 \in 0 .. MaxRetries
        BY PlayerAssumption
      <4> QED BY <1>1, <1>6, <3>1, <4>1 DEF ToPlay, Task
    <3> QED BY <1>6, <1>8, <1>9, <3>2, <3>3, SpeakGood, GoodLoose
  <2> QED BY <2>1, <2>2
<1>12. CASE ~(kind = "retry" /\ t.tries < MaxRetries) /\ ~(kind = "invalid" /\ ~t.plain)
  <2>1. PICK A : A = FlushSession(F)
    OBVIOUS
  <2>2. PICK I : I = Interrupt(A)
    OBVIOUS
  <2>3. R = Leave(I, t)
    BY <1>4, <1>12, <2>1, <2>2, Zenon DEF SpeakFails
  <2>4. Sane(A) /\ A.player = F.player /\ A.tasks = F.tasks /\ SameHook(A.hook, F.hook)
    BY <1>8, <2>1, FlushGood
  <2>5. /\ Sane(I) /\ EndOK(I.player, I.tasks) /\ SameHook(I.hook, A.hook)
        /\ PlaceOf(I.player, I.hook) = PlaceOf(A.player, A.hook) /\ I.player.element \notin Audible
        /\ AskedIn(I.tasks) <=> AskedIn(A.tasks)
    BY <2>2, <2>4, InterruptGood
  <2>6. /\ Sane(R) /\ R.player = I.player /\ R.tasks = I.tasks /\ SameHook(R.hook, I.hook)
    BY <1>1, <2>3, <2>5, LeaveGood
  <2>7. ~AskedIn(F.tasks)
    BY <1>8, AskedIsMain, RestElim
  <2>8. PlaceOf(R.player, R.hook) = PlaceOf(I.player, I.hook)
    BY <2>6 DEF PlaceOf, SameHook
  <2>9. PlaceOf(A.player, A.hook) = S.hook.current
    BY <1>6, <1>9, <2>4 DEF PlaceOf, SameHook
  <2> QED BY <2>4, <2>5, <2>6, <2>7, <2>8, <2>9 DEF Voiced, Audible
<1> QED BY <1>10, <1>11, <1>12

(***************************************************************************)
(* Reading ahead, starting and pausing                                     *)
(***************************************************************************)

(* Chunks are names of audio. *)
LEMMA ChunksAreInts ==
  ASSUME NEW s \in Seq(Chunks)
  PROVE  s \in Seq(Int)
<1>1. Chunks \subseteq Int
  BY DEF Chunks
<1> QED BY <1>1, SeqMonotonic

(* The chunk after the buffered ones. *)
LEMMA FollowingIs ==
  ASSUME NEW h \in Hooks, Ensuing(h, h.current)
  PROVE  /\ FollowingChunk(h) = h.current + Len(h.pending) + 1
         /\ FollowingChunk(h) \in 1 .. ChunkCount + 1
<1>1. h.pending \in Seq(Chunks) /\ h.current \in 0 .. ChunkCount /\ ChunkCount \in Nat
  BY PlayerAssumption DEF Hooks
<1>2. Len(h.pending) \in Nat /\ (h.pending = <<>> => Len(h.pending) = 0) /\ (h.pending # <<>> => Len(h.pending) # 0)
  BY <1>1
<1>3. CASE h.pending = <<>>
  BY <1>1, <1>2, <1>3 DEF FollowingChunk
<1>4. CASE h.pending # <<>>
  <2>1. PICK n \in Nat : n = Len(h.pending) /\ n # 0
    BY <1>2, <1>4
  <2>2. h.pending[n] \in Chunks /\ h.pending[n] = h.current + n
    BY <1>1, <2>1 DEF Ensuing
  <2>3. FollowingChunk(h) = h.pending[n] + 1
    BY <1>4, <2>1 DEF FollowingChunk, Last
  <2> QED BY <1>1, <2>1, <2>2, <2>3 DEF Chunks
<1> QED BY <1>3, <1>4

(* More to read ahead, or the pool is asked for what is there. *)
LEMMA FillTurnGood ==
  ASSUME NEW S, Sane(S), NoFill(S.tasks), \A u \in S.tasks : ~Waits(u), NEW R, R = FillTurn(S)
  PROVE  /\ Sane(R) /\ R.player = S.player /\ R.hook = S.hook
         /\ EndOK(S.player, S.tasks) => EndOK(R.player, R.tasks)
         /\ AskedIn(R.tasks) <=> AskedIn(S.tasks)
<1>1. S \in States /\ S.hook \in Hooks /\ S.tasks \in SUBSET Task /\ StoreOK(S.pool) /\ Ensuing(S.hook, S.hook.current)
  BY StateFields DEF Sane, HookOK
<1>2. CASE Len(S.hook.pending) < BufferChunks
  <2>1. PICK t : t = NewTask("fill", "read", FollowingChunk(S.hook))
    OBVIOUS
  <2>2. /\ t.kind = "fill" /\ t.at = "read" /\ t.live /\ t.chunk = FollowingChunk(S.hook)
    BY <2>1 DEF NewTask
  <2>3. /\ FollowingChunk(S.hook) = S.hook.current + Len(S.hook.pending) + 1
        /\ FollowingChunk(S.hook) \in 1 .. ChunkCount + 1
    BY <1>1, FollowingIs
  <2>4. t \in Task
    <3>1. 0 \in 0 .. MaxRetries /\ FollowingChunk(S.hook) \in 0 .. ChunkCount + 1
      BY <2>3, PlayerAssumption
    <3> QED BY <2>1, <3>1 DEF NewTask, Task
  <2>5. ShapeOK(t)
    <3>1. t.chunk # 0
      BY <2>2, <2>3
    <3> QED BY <2>2, <2>4, <3>1 DEF ShapeOK, PlaySteps
  <2>6. SideOK(S.hook, t) /\ ~Main(t)
    BY <2>2, <2>3, <2>5 DEF SideOK, Main, Requested
  <2>7. PICK N : N = S.tasks \cup {t}
    OBVIOUS
  <2>8. N \in SUBSET Task
    BY <1>1, <2>4, <2>7
  <2>9. R = [S EXCEPT !.tasks = N]
    BY <1>2, <2>1, <2>7 DEF FillTurn
  <2>10. R \in States /\ R.player = S.player /\ R.hook = S.hook /\ R.pool = S.pool /\ R.tasks = N
    BY <1>1, <2>8, <2>9 DEF States
  <2>11. Sane(R)
    BY <1>1, <2>6, <2>7, <2>10, AddSide
  <2>12. EndOK(S.player, S.tasks) => EndOK(R.player, R.tasks)
    BY <2>7, <2>10 DEF EndOK
  <2>13. AskedIn(R.tasks) <=> AskedIn(S.tasks)
    BY <2>2, <2>7, <2>10 DEF AskedIn, Asks
  <2> QED BY <2>10, <2>11, <2>12, <2>13
<1>3. CASE ~(Len(S.hook.pending) < BufferChunks)
  <2>1. PICK q : q = PreloadMultiple(S.pool, S.hook.pending)
    OBVIOUS
  <2>2. S.hook.pending \in Seq(Int)
    BY <1>1, ChunksAreInts DEF Hooks
  <2>3. StoreOK(q) /\ q \in Stores
    BY <1>1, <2>1, <2>2, PreloadMultipleOK DEF StoreOK, Tallied
  <2>4. R = [S EXCEPT !.pool = q]
    BY <1>3, <2>1 DEF FillTurn
  <2>5. R \in States /\ R.player = S.player /\ R.hook = S.hook /\ R.pool = q /\ R.tasks = S.tasks
    BY <1>1, <2>3, <2>4 DEF States
  <2>6. Sane(R)
    BY <2>3, <2>5 DEF Sane
  <2> QED BY <2>5, <2>6
<1> QED BY <1>2, <1>3

(* preloadBuffer: at most one fill reads ahead. *)
LEMMA PreloadBufferGood ==
  ASSUME NEW S, Sane(S), \A u \in S.tasks : ~Waits(u), NEW R, R = PreloadBuffer(S)
  PROVE  /\ Sane(R) /\ R.player = S.player /\ R.hook = S.hook
         /\ EndOK(S.player, S.tasks) => EndOK(R.player, R.tasks)
         /\ AskedIn(R.tasks) <=> AskedIn(S.tasks)
<1>1. ~Filling(S.tasks) => NoFill(S.tasks)
  BY DEF Filling, NoFill, Fills
<1>2. R = S \/ (~Filling(S.tasks) /\ R = FillTurn(S))
  BY DEF PreloadBuffer
<1> QED BY <1>1, <1>2, FillTurnGood

(* A new source from chunk c. *)
LEMMA BeginGood ==
  ASSUME NEW S, Sane(S), NEW c \in 1 .. ChunkCount + 1, NEW R, R = Begin(S, c)
  PROVE  /\ Sane(R) /\ EndOK(R.player, R.tasks) /\ PlaceOf(R.player, R.hook) = 0
         /\ R.player.element # "sounding" /\ AskedIn(R.tasks)
<1>1. PICK B : B = ResetBuffer(S)
  OBVIOUS
<1>2. /\ B \in States /\ StoreOK(B.pool) /\ PlayerOK(B.player) /\ HookOK(B.player, B.hook) /\ Dead(B.tasks)
      /\ B.player.element = "none" /\ ~B.player.fresh /\ ~B.player.endEvent
      /\ B.hook.current = 0 /\ B.hook.pending = <<>>
  BY <1>1, ResetBufferGood, RestElim
<1>3. B.hook \in Hooks /\ B.tasks \in SUBSET Task
  BY <1>2, StateFields
<1>4. PICK h : h = [B.hook EXCEPT !.intent = TRUE, !.base = c, !.end = ChunkCount, !.preparing = TRUE]
  OBVIOUS
<1>5. h \in Hooks /\ h.current = 0 /\ h.pending = <<>> /\ h.intent /\ h.base = c
  <2>1. ChunkCount \in 0 .. ChunkCount /\ c \in 0 .. ChunkCount + 1
    BY PlayerAssumption
  <2> QED BY <1>2, <1>3, <1>4, <2>1 DEF Hooks
<1>6. PICK t : t = NewTask("begin", "read", c)
  OBVIOUS
<1>7. t \in Task /\ t.kind = "begin" /\ t.at = "read" /\ t.live /\ t.chunk = c /\ t.chunk # 0
  <2>1. 0 \in 0 .. MaxRetries /\ c \in 0 .. ChunkCount + 1 /\ c # 0
    BY PlayerAssumption
  <2> QED BY <1>6, <2>1 DEF NewTask, Task
<1>8. PICK A : A = [B EXCEPT !.hook = h]
  OBVIOUS
<1>9. A \in States /\ A.player = B.player /\ A.hook = h /\ A.tasks = B.tasks /\ A.pool = B.pool
  BY <1>2, <1>5, <1>8 DEF States
<1>10. HookOK(A.player, A.hook)
  BY <1>2, <1>5, <1>9 DEF HookOK, Ensuing, Audible
<1>11. Sane(A) /\ NoMain(A.tasks) /\ NoFill(A.tasks)
  BY <1>2, <1>9, <1>10, DeadGood
<1>12. PICK N : N = B.tasks \cup {t}
  OBVIOUS
<1>13. N \in SUBSET Task
  BY <1>3, <1>7, <1>12
<1>14. R = [B EXCEPT !.hook = h, !.tasks = N]
  BY <1>1, <1>4, <1>6, <1>12 DEF Begin
<1>15. R \in States /\ R.player = B.player /\ R.hook = h /\ R.tasks = N /\ R.pool = B.pool
  BY <1>2, <1>5, <1>13, <1>14 DEF States
<1>16. ShapeOK(t)
  BY <1>7 DEF ShapeOK, PlaySteps
<1>17. SideOK(h, t) /\ ~Fills(t)
  BY <1>5, <1>7, <1>16 DEF SideOK, Fills, Requested
<1>18. MainOK(B.player, h, t)
  BY <1>2, <1>5, <1>7 DEF MainOK, EndFor, Requested, SeekSteps, SeekOK, PlaySteps, Audible
<1>19. Sane(R)
  BY <1>2, <1>9, <1>11, <1>12, <1>15, <1>17, <1>18, AddMain DEF WorkOK
<1>20. AskedIn(R.tasks)
  BY <1>7, <1>12, <1>15 DEF AskedIn, Asks, PlaySteps
<1> QED BY <1>2, <1>5, <1>15, <1>19, <1>20 DEF EndOK, PlaceOf, HasEnded

(* Pausing: nobody goes on but the fill. *)
LEMMA PauseGood ==
  ASSUME NEW S, Sane(S), NEW R, R = Pause(S)
  PROVE  Voiced(R, PlaceOf(S.player, S.hook))
<1>1. PICK B : B = BackendPause(S)
  OBVIOUS
<1>2. /\ Sane(B) /\ B.hook = S.hook /\ B.player.element \notin Audible /\ B.player.state = "paused"
      /\ HasEnded(B.player) <=> HasEnded(S.player)
      /\ \A t \in B.tasks : ~Requested(t)
  BY <1>1, BackendPauseGood
<1>3. /\ B \in States /\ B.hook \in Hooks /\ B.tasks \in SUBSET Task /\ StoreOK(B.pool) /\ PlayerOK(B.player)
      /\ HookOK(B.player, B.hook) /\ OneFill(B.tasks) /\ \A t \in B.tasks : SideOK(B.hook, t) /\ ShapeOK(t)
  BY <1>2, RestElim, StateFields
<1>4. PICK h : h = [B.hook EXCEPT !.preparing = FALSE, !.intent = FALSE, !.prompt = FALSE]
  OBVIOUS
<1>5. h \in Hooks /\ h.current = B.hook.current /\ h.pending = B.hook.pending
  BY <1>3, <1>4 DEF Hooks
<1>6. PICK N : N = Release(NewOperation(B.tasks))
  OBVIOUS
<1>7. /\ N \in SUBSET Task /\ NoMain(N) /\ OneFill(N)
      /\ \A t \in N : /\ ShapeOK(t) /\ ~Requested(t) /\ (t.live => t.kind = "fill")
                      /\ Fills(t) => \E u \in B.tasks : Fills(u) /\ t.chunk = u.chunk
  BY <1>2, <1>3, <1>6, VoidedTasks
<1>8. PICK H : H = [B EXCEPT !.hook = [@ EXCEPT !.preparing = FALSE, !.intent = FALSE, !.prompt = FALSE],
                             !.tasks = Release(NewOperation(@))]
  OBVIOUS
<1>9. H = [B EXCEPT !.hook = h, !.tasks = N]
  BY <1>4, <1>6, <1>8
<1>10. H \in States /\ H.player = B.player /\ H.hook = h /\ H.tasks = N /\ H.pool = B.pool
  BY <1>3, <1>5, <1>7, <1>9 DEF States
<1>11. HookOK(H.player, H.hook)
  BY <1>2, <1>3, <1>5, <1>10 DEF HookOK, Ensuing
<1>12. \A t \in H.tasks : SideOK(H.hook, t)
  BY <1>3, <1>5, <1>7, <1>10 DEF SideOK
<1>13. Sane(H)
  BY <1>3, <1>7, <1>10, <1>11, <1>12, RestIntro
<1>14. R = FlushSession(H)
  BY <1>1, <1>8, Zenon DEF Pause
<1>15. Sane(R) /\ R.player = H.player /\ R.tasks = H.tasks /\ SameHook(R.hook, H.hook)
  BY <1>13, <1>14, FlushGood
<1>16. ~AskedIn(R.tasks)
  BY <1>7, <1>10, <1>15, AskedIsMain
<1> QED BY <1>2, <1>5, <1>10, <1>15, <1>16 DEF Voiced, EndOK, PlaceOf, SameHook, Audible

(***************************************************************************)
(* Moving on                                                               *)
(***************************************************************************)

(* advance takes the next chunk, from the buffer or from the source. *)
LEMMA AdvanceTakeGood ==
  ASSUME NEW S, Sane(S), NoMain(S.tasks), S.hook.intent, HasEnded(S.player),
         S.hook.pending = <<>> => NoFill(S.tasks),
         NEW t \in Task, t.live, t.kind = "advance", EndFor(S.player, t),
         NEW R, R = AdvanceTake(S, t)
  PROVE  Voiced(R, S.hook.current + 1) \/ Voiced(R, 0)
<1>1. /\ S \in States /\ S.hook \in Hooks /\ S.tasks \in SUBSET Task /\ StoreOK(S.pool) /\ PlayerOK(S.player)
      /\ HookOK(S.player, S.hook) /\ OneFill(S.tasks) /\ \A u \in S.tasks : SideOK(S.hook, u) /\ ShapeOK(u)
  BY RestElim, StateFields
<1>2. S.hook.pending \in Seq(Chunks) /\ S.hook.current \in 0 .. ChunkCount /\ ChunkCount \in Nat
  BY <1>1, PlayerAssumption DEF Hooks
<1>3. CASE S.hook.pending # <<>>
  <2>1. PICK s \in Seq(Chunks) : s = S.hook.pending
    BY <1>2
  <2>2. PICK e : e = Tail(s)
    OBVIOUS
  <2>3. PICK c : c = Head(s)
    OBVIOUS
  <2>4. /\ e \in Seq(Chunks) /\ Len(e) = Len(s) - 1 /\ \A i \in 1 .. Len(e) : e[i] = s[i + 1]
        /\ c \in Chunks /\ c = s[1] /\ Len(s) \in Nat \ {0}
    BY <1>3, <2>1, <2>2, <2>3
  <2>5. \A i \in 1 .. Len(s) : s[i] = S.hook.current + i
    BY <1>1, <2>1 DEF HookOK, Ensuing
  <2>6. c = S.hook.current + 1
    BY <2>4, <2>5
  <2>7. \A i \in 1 .. Len(e) : e[i] = c + i
    <3>1. ASSUME NEW i \in 1 .. Len(e) PROVE e[i] = c + i
      <4>1. i + 1 \in 1 .. Len(s)
        BY <2>4
      <4>2. e[i] = S.hook.current + (i + 1)
        BY <2>4, <2>5, <4>1
      <4> QED BY <1>2, <2>6, <4>2
    <3> QED BY <3>1
  <2>8. PICK h : h = [S.hook EXCEPT !.pending = e]
    OBVIOUS
  <2>9. h \in Hooks /\ h.pending = e /\ h.current = S.hook.current /\ h.intent = S.hook.intent
    BY <1>1, <2>4, <2>8 DEF Hooks
  <2>10. PICK B : B = [S EXCEPT !.hook = [S.hook EXCEPT !.pending = Tail(@)]]
    OBVIOUS
  <2>11. B = [S EXCEPT !.hook = h]
    BY <1>1, <2>1, <2>2, <2>8, <2>10 DEF Hooks
  <2>12. B \in States /\ B.player = S.player /\ B.hook = h /\ B.tasks = S.tasks /\ B.pool = S.pool
    BY <1>1, <2>9, <2>11 DEF States
  <2>13. R = PlayChunk(B, t, c)
    BY <1>3, <2>1, <2>3, <2>10, Zenon DEF AdvanceTake
  <2>14. Unplaced(B)
    BY <1>1, <2>9, <2>12 DEF Unplaced
  <2>15. \A u \in B.tasks : Fills(u) => u.chunk = c + Len(B.hook.pending) + 1
    <3>1. ASSUME NEW u \in S.tasks, Fills(u) PROVE u.chunk = c + Len(e) + 1
      <4>1. u.chunk = S.hook.current + Len(s) + 1
        BY <1>1, <2>1, <3>1 DEF SideOK
      <4> QED BY <1>2, <2>4, <2>6, <4>1
    <3> QED BY <2>9, <2>12, <3>1
  <2>16. Ensuing(B.hook, c)
    BY <2>7, <2>9, <2>12 DEF Ensuing
  <2> QED BY <2>4, <2>6, <2>12, <2>13, <2>14, <2>15, <2>16, PlayChunkGood
<1>4. CASE S.hook.pending = <<>>
  <2>1. PICK v : v = [t EXCEPT !.at = "read", !.chunk = S.hook.current + 1]
    OBVIOUS
  <2>2. S.hook.current + 1 \in 0 .. ChunkCount + 1 /\ S.hook.current + 1 # 0
    BY <1>2
  <2>3. /\ v \in Task /\ v.at = "read" /\ v.chunk = S.hook.current + 1 /\ v.kind = "advance" /\ v.live
        /\ v.holds = t.holds
    BY <2>1, <2>2 DEF Task
  <2>4. ShapeOK(v)
    BY <2>2, <2>3 DEF ShapeOK, PlaySteps
  <2>5. SideOK(S.hook, v) /\ ~Fills(v) /\ ~Asks(v)
    BY <2>3, <2>4 DEF SideOK, Fills, Requested, Asks
  <2>6. SeekOK(S.player, S.hook, v) /\ S.player.element # "sounding" /\ S.player.element # "starting"
    BY <1>4, <2>3 DEF SeekOK, HasEnded, Audible
  <2>7. MainOK(S.player, S.hook, v)
    BY <2>3, <2>6 DEF MainOK, EndFor, Requested, PlaySteps
  <2>8. PICK N : N = S.tasks \cup {v}
    OBVIOUS
  <2>9. N \in SUBSET Task
    BY <1>1, <2>3, <2>8
  <2>10. R = [S EXCEPT !.tasks = N]
    BY <1>4, <2>1, <2>8 DEF AdvanceTake
  <2>11. R \in States /\ R.player = S.player /\ R.hook = S.hook /\ R.tasks = N /\ R.pool = S.pool
    BY <1>1, <2>9, <2>10 DEF States
  <2>12. Sane(R)
    BY <1>1, <1>4, <2>5, <2>7, <2>8, <2>11, AddMain DEF WorkOK
  <2>13. ~AskedIn(S.tasks)
    BY <1>1, AskedIsMain
  <2>14. ~AskedIn(R.tasks)
    BY <2>5, <2>8, <2>11, <2>13 DEF AskedIn
  <2> QED BY <2>6, <2>11, <2>12, <2>14 DEF Voiced, EndOK, PlaceOf, HasEnded
<1> QED BY <1>3, <1>4

(* The end of the audio: the narration moves on, once. *)
LEMMA AdvanceGood ==
  ASSUME NEW S, Sane(S), Advancing(S.tasks) \/ (HasEnded(S.player) /\ NoMain(S.tasks)),
         NEW inner \in BOOLEAN, NEW R, R = Advance(S, inner)
  PROVE  R = S \/ Voiced(R, S.hook.current + 1) \/ Voiced(R, 0)
<1>1. PICK t : t = [NewTask("advance", "fillWait", 0) EXCEPT !.inner = inner, !.holds = TRUE]
  OBVIOUS
<1>2. /\ t \in Task /\ t.kind = "advance" /\ t.at = "fillWait" /\ t.live /\ t.holds
  <2>1. 0 \in 0 .. MaxRetries /\ 0 \in 0 .. ChunkCount + 1
    BY PlayerAssumption
  <2> QED BY <1>1, <2>1 DEF NewTask, Task
<1>3. CASE Advancing(S.tasks) \/ ~S.hook.intent
  BY <1>3 DEF Advance
<1>4. CASE ~(Advancing(S.tasks) \/ ~S.hook.intent) /\ S.hook.sleep = "due"
  <2>1. R = Stop(S)
    BY <1>4 DEF Advance
  <2> QED BY <2>1, StopOfGood
<1>5. CASE ~(Advancing(S.tasks) \/ ~S.hook.intent) /\ S.hook.sleep # "due" /\ S.hook.pending = <<>> /\ Filling(S.tasks)
  <2>1. PICK N : N = S.tasks \cup {t}
    OBVIOUS
  <2>2. S \in States /\ S.tasks \in SUBSET Task /\ StoreOK(S.pool)
    BY StateFields DEF Sane
  <2>3. N \in SUBSET Task
    BY <1>2, <2>1, <2>2
  <2>4. R = [S EXCEPT !.tasks = N]
    BY <1>1, <1>5, <2>1 DEF Advance
  <2>5. R \in States /\ R.player = S.player /\ R.hook = S.hook /\ R.tasks = N /\ R.pool = S.pool
    BY <2>2, <2>3, <2>4 DEF States
  <2>6. ShapeOK(t)
    BY <1>2 DEF ShapeOK, PlaySteps
  <2>7. SideOK(S.hook, t) /\ ~Fills(t) /\ ~Waits(t) /\ ~Asks(t)
    BY <1>2, <1>5, <2>6 DEF SideOK, Fills, Requested, Asks, Waits
  <2>8. SeekOK(S.player, S.hook, t) /\ S.player.element # "sounding" /\ S.player.element # "starting"
    BY <1>2, <1>5 DEF SeekOK, HasEnded, Audible
  <2>9. MainOK(S.player, S.hook, t)
    BY <1>2, <2>8 DEF MainOK, EndFor, Requested, PlaySteps
  <2>10. Sane(R)
    BY <1>5, <2>1, <2>2, <2>5, <2>7, <2>9, AddMain DEF WorkOK
  <2>11. ~AskedIn(S.tasks)
    BY <1>5, AskedIsMain, RestElim
  <2>12. ~AskedIn(R.tasks)
    BY <2>1, <2>5, <2>7, <2>11 DEF AskedIn
  <2> QED BY <1>5, <2>5, <2>8, <2>10, <2>12 DEF Voiced, EndOK, PlaceOf, HasEnded
<1>6. CASE /\ ~(Advancing(S.tasks) \/ ~S.hook.intent) /\ S.hook.sleep # "due"
           /\ ~(S.hook.pending = <<>> /\ Filling(S.tasks))
  <2>1. R = AdvanceTake(S, t)
    BY <1>1, <1>6 DEF Advance
  <2>2. S.hook.pending = <<>> => NoFill(S.tasks)
    BY <1>6 DEF Filling, NoFill, Fills
  <2>3. EndFor(S.player, t)
    BY <1>2 DEF EndFor
  <2> QED BY <1>2, <1>6, <2>1, <2>2, <2>3, AdvanceTakeGood
<1> QED BY <1>3, <1>4, <1>5, <1>6

(***************************************************************************)
(* What a step may do, and resuming                                        *)
(***************************************************************************)

Sounds(S) == S.player.element = "sounding"
PlaceIn(S) == PlaceOf(S.player, S.hook)

(* From S to R the narration does what Narration allows: the steps of its Next, or none. *)
Moves(S, R) ==
    \/ PlaceIn(S) # 0 /\ Sounds(R) /\ ~AskedIn(R.tasks) /\ PlaceIn(R) = PlaceIn(S)
    \/ ~Sounds(R) /\ PlaceIn(R) = PlaceIn(S) /\ (AskedIn(R.tasks) <=> AskedIn(S.tasks))
    \/ Sounds(S) /\ ~Sounds(R) /\ PlaceIn(R) = PlaceIn(S) + 1 /\ (AskedIn(R.tasks) <=> AskedIn(S.tasks))
    \/ AskedIn(R.tasks) /\ ~Sounds(R) /\ PlaceIn(R) \in {0, PlaceIn(S)}
    \/ AskedIn(S.tasks) /\ ~AskedIn(R.tasks) /\ ~Sounds(R) /\ PlaceIn(R) \in Chunks
    \/ ~AskedIn(R.tasks) /\ ~Sounds(R) /\ PlaceIn(R) \in {0, PlaceIn(S)}
    \/ PlaceIn(R) = PlaceIn(S) /\ (Sounds(R) <=> Sounds(S)) /\ (AskedIn(R.tasks) <=> AskedIn(S.tasks))

(* A step from S to R keeps the invariant and the promise. *)
Fine(S, R) == Sane(R) /\ EndOK(R.player, R.tasks) /\ Moves(S, R)

(* Landing where the narration was, at the start, or where somebody asked. *)
LEMMA LandedFine ==
  ASSUME NEW S, NEW R, NEW c, Voiced(R, c), c \in {0, PlaceIn(S)} \/ (AskedIn(S.tasks) /\ c \in Chunks)
  PROVE  Fine(S, R)
BY DEF Voiced, Fine, Moves, PlaceIn, Sounds

(* A state that looks the same from outside. *)
LEMMA SameFine ==
  ASSUME NEW S, NEW R, Sane(R), EndOK(R.player, R.tasks), PlaceIn(R) = PlaceIn(S), Sounds(R) <=> Sounds(S),
         AskedIn(R.tasks) <=> AskedIn(S.tasks)
  PROVE  Fine(S, R)
BY DEF Fine, Moves

(* The user wants to hear it. *)
LEMMA IntentGood ==
  ASSUME NEW S, Sane(S), NEW h \in Hooks, h.intent, h.base = S.hook.base, h.current = S.hook.current,
         h.pending = S.hook.pending, NEW R, R = [S EXCEPT !.hook = h]
  PROVE  /\ Sane(R) /\ R.player = S.player /\ R.hook = h /\ R.pool = S.pool /\ R.tasks = S.tasks
<1>1. S \in States /\ S.hook \in Hooks
  BY StateFields DEF Sane
<1>2. h.intent /\ h.base = S.hook.base /\ h.current = S.hook.current /\ h.pending = S.hook.pending
  OBVIOUS
<1>3. R \in States /\ R.player = S.player /\ R.hook = h /\ R.pool = S.pool /\ R.tasks = S.tasks
  BY <1>1, <1>2 DEF States
<1>4. HookOK(R.player, R.hook)
  <2>1. HookOK(S.player, S.hook)
    BY DEF Sane
  <2>2. Ensuing(h, h.current)
    BY <1>2, <2>1 DEF HookOK, Ensuing
  <2> QED BY <1>2, <1>3, <2>1, <2>2, Zenon DEF HookOK
<1>5. \A t \in R.tasks : WorkOK(R.player, R.hook, t)
  <2>1. ASSUME NEW t \in S.tasks PROVE WorkOK(S.player, h, t)
    <3>1. WorkOK(S.player, S.hook, t)
      BY DEF Sane
    <3>2. SideOK(h, t)
      <4>1. Fills(t) => t.chunk = h.current + Len(h.pending) + 1
        BY <1>2, <3>1 DEF WorkOK, SideOK
      <4> QED BY <1>2, <3>1, <4>1, Zenon DEF WorkOK, SideOK
    <3>3. Main(t) => MainOK(S.player, h, t)
      BY <1>2, <3>1 DEF WorkOK, MainOK, SeekOK
    <3> QED BY <3>2, <3>3 DEF WorkOK
  <2> QED BY <1>3, <2>1
<1>6. Sane(R)
  BY <1>3, <1>4, <1>5 DEF Sane
<1> QED BY <1>2, <1>3, <1>6

(* What resume does after its await. *)
LEMMA AfterResumeGood ==
  ASSUME NEW S, Sane(S), NEW t \in Task, t.kind = "resume", t.live => S.hook.intent, NEW R, R = AfterResume(S, t)
  PROVE  /\ Sane(R) /\ R.player = S.player /\ SameHook(R.hook, S.hook)
         /\ EndOK(S.player, S.tasks) => EndOK(R.player, R.tasks)
         /\ AskedIn(R.tasks) <=> AskedIn(S.tasks)
<1>1. S \in States /\ S.hook \in Hooks /\ S.tasks \in SUBSET Task /\ StoreOK(S.pool)
  BY StateFields DEF Sane
<1>2. CASE t.live /\ S.player.state = "playing"
  <2>1. PICK h : h = [S.hook EXCEPT !.prompt = FALSE]
    OBVIOUS
  <2>2. h \in Hooks /\ SameHook(h, S.hook)
    BY <1>1, <2>1 DEF Hooks, SameHook
  <2>3. PICK B : B = [S EXCEPT !.hook = h]
    OBVIOUS
  <2>4. Sane(B) /\ B.player = S.player /\ B.hook = h /\ B.pool = S.pool /\ B.tasks = S.tasks
    BY <2>2, <2>3, HookGood DEF SameHook
  <2>5. PICK v : v = [t EXCEPT !.at = "lock"]
    OBVIOUS
  <2>6. v \in Task /\ v.at = "lock" /\ v.kind = "resume" /\ v.live = t.live
    BY <2>5 DEF Task
  <2>7. ShapeOK(v)
    BY <2>6 DEF ShapeOK, PlaySteps
  <2>8. SideOK(h, v) /\ ~Main(v) /\ ~Fills(v) /\ ~Asks(v)
    BY <2>2, <2>6, <2>7 DEF SideOK, Requested, Main, Fills, Asks, SameHook
  <2>9. PICK N : N = S.tasks \cup {v}
    OBVIOUS
  <2>10. N \in SUBSET Task
    BY <1>1, <2>6, <2>9
  <2>11. R = [S EXCEPT !.hook = h, !.tasks = N]
    BY <1>2, <2>1, <2>5, <2>9 DEF AfterResume
  <2>12. R \in States /\ R.player = S.player /\ R.hook = h /\ R.tasks = N /\ R.pool = S.pool
    BY <1>1, <2>2, <2>10, <2>11 DEF States
  <2>13. Sane(R)
    BY <1>1, <2>4, <2>8, <2>9, <2>12, AddSide
  <2>14. EndOK(S.player, S.tasks) => EndOK(R.player, R.tasks)
    BY <2>9, <2>12 DEF EndOK
  <2>15. AskedIn(R.tasks) <=> AskedIn(S.tasks)
    BY <2>8, <2>9, <2>12 DEF AskedIn
  <2> QED BY <2>2, <2>12, <2>13, <2>14, <2>15
<1>3. CASE ~(t.live /\ S.player.state = "playing")
  <2>1. R = S
    BY <1>3 DEF AfterResume
  <2> QED BY <2>1 DEF SameHook
<1> QED BY <1>2, <1>3

(* The resume task as resume makes it. *)
Resumes(t) == t \in Task /\ t.kind = "resume" /\ t.at = "inner" /\ t.live /\ t.req

(* The audio at hand goes on. *)
LEMMA BackendResumeGood ==
  ASSUME NEW S, Loose(S), HasCurrentAudio(S.player), S.hook.intent, NEW t, Resumes(t), NEW R, R = BackendResume(S, t)
  PROVE  /\ Sane(R) /\ EndOK(R.player, R.tasks) /\ ~AskedIn(R.tasks)
         /\ Sounds(R) <=> Sounds(S)
         /\ PlaceIn(R) = S.hook.current
<1>1. /\ S \in States /\ S.player \in Players /\ S.hook \in Hooks /\ S.tasks \in SUBSET Task /\ StoreOK(S.pool)
      /\ HookOK(S.player, S.hook) /\ PlayerOK(S.player)
  BY StateFields DEF Loose
<1>2. S.player.fresh /\ S.player.element \in {"starting", "sounding", "paused"} /\ ~S.player.endEvent
  BY <1>1 DEF HasCurrentAudio, PlayerOK
<1>3. PICK N : N = NewPlayback(S.tasks)
  OBVIOUS
<1>4. N \in SUBSET Task /\ NoMain(N) /\ OneFill(N) /\ \A v \in N : SideOK(S.hook, v) /\ ~Requested(v)
  BY <1>1, <1>3, LooseReplayed DEF Loose
<1>5. ~AskedIn(N)
  BY <1>4, AskedIsMain DEF SideOK
<1>6. PICK p : p = [S.player EXCEPT !.focus = "narration", !.wants = TRUE]
  OBVIOUS
<1>7. /\ p \in Players /\ p.focus = "narration" /\ p.wants /\ p.fresh /\ p.element = S.player.element /\ ~p.endEvent
      /\ p.state = S.player.state
  BY <1>1, <1>2, <1>6 DEF Players
<1>8. PICK B : B = [S EXCEPT !.player = [@ EXCEPT !.focus = "narration", !.wants = TRUE], !.tasks = NewPlayback(@)]
  OBVIOUS
<1>9. B = [S EXCEPT !.player = p, !.tasks = N]
  BY <1>3, <1>6, <1>8
<1>10. B \in States /\ B.player = p /\ B.hook = S.hook /\ B.tasks = N /\ B.pool = S.pool
  BY <1>1, <1>4, <1>7, <1>9 DEF States
<1>11. ASSUME NEW q \in Players, q.focus = "narration", q.wants, q.fresh, ~q.endEvent, NEW A,
              A = [B EXCEPT !.player = q]
       PROVE  /\ Sane(A) /\ NoMain(A.tasks) /\ A.player = q /\ A.hook = S.hook /\ A.tasks = N /\ A.pool = S.pool
              /\ A \in States /\ EndOK(q, A.tasks)
  <2>1. A \in States /\ A.player = q /\ A.hook = S.hook /\ A.tasks = N /\ A.pool = S.pool
    BY <1>10, <1>11 DEF States
  <2>2. PlayerOK(q) /\ HookOK(q, S.hook)
    BY <1>1, <1>2, <1>11 DEF PlayerOK, HookOK
  <2>3. Sane(A)
    BY <1>1, <1>4, <2>1, <2>2, RestIntro
  <2> QED BY <1>4, <1>11, <2>1, <2>3 DEF EndOK
<1>12. CASE S.player.element = "paused"
  <2>1. PICK q : q = [p EXCEPT !.element = "starting"]
    OBVIOUS
  <2>2. q \in Players /\ q.focus = "narration" /\ q.wants /\ q.fresh /\ ~q.endEvent /\ q.element = "starting"
    BY <1>7, <2>1 DEF Players
  <2>3. PICK A : A = [B EXCEPT !.player = q]
    OBVIOUS
  <2>4. /\ Sane(A) /\ NoMain(A.tasks) /\ A.player = q /\ A.hook = S.hook /\ A.tasks = N /\ A.pool = S.pool
        /\ A \in States
    BY <1>11, <2>2, <2>3
  <2>5. PICK v : v = [t EXCEPT !.at = "unpause"]
    OBVIOUS
  <2>6. v \in Task /\ v.at = "unpause" /\ v.kind = "resume" /\ v.live /\ v.req
    BY <2>5 DEF Task, Resumes
  <2>7. ShapeOK(v)
    BY <2>6 DEF ShapeOK, PlaySteps
  <2>8. SideOK(S.hook, v) /\ ~Fills(v) /\ ~Waits(v) /\ ~Asks(v)
    BY <2>6, <2>7 DEF SideOK, Fills, Waits, Asks, SeekSteps
  <2>9. MainOK(q, S.hook, v)
    BY <2>2, <2>6 DEF MainOK, EndFor, AnswerOK, SeekSteps, PlaySteps
  <2>10. PICK M : M = N \cup {v}
    OBVIOUS
  <2>11. M \in SUBSET Task
    BY <1>4, <2>6, <2>10
  <2>12. R = [B EXCEPT !.player = q, !.tasks = M]
    <3>1. R = [B EXCEPT !.player = [@ EXCEPT !.element = "starting"], !.tasks = @ \cup {[t EXCEPT !.at = "unpause"]}]
      BY <1>8, <1>12, Zenon DEF BackendResume
    <3> QED BY <1>10, <2>1, <2>5, <2>10, <3>1
  <2>13. R \in States /\ R.player = q /\ R.hook = S.hook /\ R.tasks = M /\ R.pool = S.pool
    BY <1>10, <2>2, <2>11, <2>12 DEF States
  <2>14. Sane(R)
    BY <1>1, <2>4, <2>8, <2>9, <2>10, <2>13, AddMain DEF WorkOK
  <2>15. ~AskedIn(R.tasks)
    BY <1>5, <2>8, <2>10, <2>13 DEF AskedIn
  <2> QED BY <1>12, <2>2, <2>13, <2>14, <2>15 DEF EndOK, Sounds, PlaceIn, PlaceOf, HasEnded
<1>13. CASE S.player.element # "paused"
  <2>1. PICK q : q = [p EXCEPT !.state = "playing"]
    OBVIOUS
  <2>2. /\ q \in Players /\ q.focus = "narration" /\ q.wants /\ q.fresh /\ ~q.endEvent
        /\ q.element = S.player.element
    BY <1>7, <2>1 DEF Players
  <2>3. PICK A : A = [B EXCEPT !.player = [@ EXCEPT !.state = "playing"]]
    OBVIOUS
  <2>4. A = [B EXCEPT !.player = q]
    BY <1>10, <2>1, <2>3
  <2>5. Sane(A) /\ A.player = q /\ A.hook = S.hook /\ A.tasks = N /\ EndOK(A.player, A.tasks)
    BY <1>11, <2>2, <2>4
  <2>6. R = AfterResume(A, t)
    BY <1>8, <1>13, <2>3, Zenon DEF BackendResume
  <2>7. /\ Sane(R) /\ R.player = A.player /\ SameHook(R.hook, A.hook) /\ EndOK(R.player, R.tasks)
        /\ AskedIn(R.tasks) <=> AskedIn(A.tasks)
    BY <2>5, <2>6, AfterResumeGood DEF Resumes
  <2> QED BY <1>2, <1>5, <2>2, <2>5, <2>7 DEF Sounds, PlaceIn, PlaceOf, HasEnded, SameHook
<1> QED BY <1>12, <1>13

(* A start is always somewhere in the book, or at its end. *)
LEMMA StartPlace ==
  ASSUME NEW h \in Hooks
  PROVE  StartLocation(h) \in 1 .. ChunkCount + 1
<1>1. h.saved \in 0 .. ChunkCount + 1 /\ h.view \in 1 .. ChunkCount + 1
  BY DEF Hooks
<1> QED BY <1>1, PlayerAssumption DEF StartLocation

(* What is left of the tasks when the operation changes: fills, and requests that nobody waits for. *)
LEMMA OvertakenTasks ==
  ASSUME NEW T \in SUBSET Task, \A t \in T : ShapeOK(t), OneFill(T), NEW N, N = NewOperation(T)
  PROVE  /\ N \in SUBSET Task /\ NoMain(N) /\ OneFill(N)
         /\ \A t \in N : ShapeOK(t) /\ (t.live => t.kind = "fill") /\ (Fills(t) => t \in T)
<1>1. ASSUME NEW t \in N
      PROVE  t \in Task /\ ShapeOK(t) /\ (t.live => t.kind = "fill") /\ ~Main(t) /\ (Fills(t) => t \in T)
  <2>1. PICK u \in T : /\ t \in Task /\ t.req = u.req /\ t.kind = u.kind /\ t.at = u.at /\ t.chunk = u.chunk
                       /\ t.live = (u.live /\ u.kind = "fill") /\ t.holds = u.holds
                       /\ u.kind = "fill" => t = u
    BY NewOperationFacts
  <2>2. ShapeOK(t)
    BY <2>1, ShapeSame
  <2> QED BY <2>1, <2>2 DEF Main, Fills
<1>2. N \in SUBSET Task /\ NoMain(N) /\ OneFill(N)
  BY <1>1 DEF NoMain, OneFill
<1> QED BY <1>1, <1>2

(* Whatever there is to go on with is gone on with, and nothing else. *)
LEMMA ResumeGood ==
  ASSUME NEW S, Sane(S), EndOK(S.player, S.tasks), NEW R, R = Resume(S)
  PROVE  Fine(S, R)
<1>1. /\ S \in States /\ S.player \in Players /\ S.hook \in Hooks /\ S.tasks \in SUBSET Task /\ StoreOK(S.pool)
      /\ HookOK(S.player, S.hook) /\ PlayerOK(S.player) /\ OneFill(S.tasks)
      /\ \A t \in S.tasks : ShapeOK(t) /\ SideOK(S.hook, t)
  BY RestElim, StateFields
<1>2. PICK W : W = [S EXCEPT !.hook = [@ EXCEPT !.intent = TRUE]]
  OBVIOUS
<1>3. PICK h : h = [S.hook EXCEPT !.intent = TRUE]
  OBVIOUS
<1>4. W = [S EXCEPT !.hook = h]
  BY <1>2, <1>3
<1>5. /\ Sane(W) /\ W.player = S.player /\ W.hook = h /\ W.pool = S.pool /\ W.tasks = S.tasks
      /\ h \in Hooks /\ h.intent /\ h.current = S.hook.current /\ h.pending = S.hook.pending
  <2>1. h \in Hooks /\ h.intent /\ h.base = S.hook.base /\ h.current = S.hook.current /\ h.pending = S.hook.pending
    BY <1>1, <1>3 DEF Hooks
  <2> QED BY <1>4, <2>1, IntentGood
<1>6. PICK N : N = NewOperation(S.tasks)
  OBVIOUS
<1>7. /\ N \in SUBSET Task /\ NoMain(N) /\ OneFill(N)
      /\ \A t \in N : ShapeOK(t) /\ (t.live => t.kind = "fill") /\ (Fills(t) => t \in S.tasks)
  BY <1>1, <1>6, OvertakenTasks
<1>8. PICK O : O = [W EXCEPT !.tasks = NewOperation(@)]
  OBVIOUS
<1>9. /\ O \in States /\ O.player = S.player /\ O.hook = h /\ O.tasks = N /\ O.pool = S.pool
  <2>1. W \in States
    BY <1>5 DEF Sane
  <2>2. O = [W EXCEPT !.tasks = N]
    BY <1>5, <1>6, <1>8
  <2> QED BY <1>5, <1>7, <2>1, <2>2 DEF States
<1>10. HookOK(O.player, O.hook)
  BY <1>5, <1>9 DEF Sane
<1>11. \A t \in O.tasks : LooseOK(O.hook, t)
  <2>1. ASSUME NEW t \in N PROVE LooseOK(h, t)
    <3>1. Fills(t) => t.chunk = h.current + Len(h.pending) + 1
      BY <1>1, <1>5, <1>7 DEF SideOK
    <3> QED BY <1>7, <3>1 DEF LooseOK
  <2> QED BY <1>9, <2>1
<1>12. Loose(O)
  BY <1>1, <1>7, <1>9, <1>10, <1>11 DEF Loose
<1>13. PICK t : t = [NewTask("resume", "inner", 0) EXCEPT !.holds = TRUE]
  OBVIOUS
<1>14. t \in Task /\ t.kind = "resume" /\ t.at = "inner" /\ t.live /\ t.req
  <2>1. 0 \in 0 .. MaxRetries /\ 0 \in 0 .. ChunkCount + 1
    BY PlayerAssumption
  <2> QED BY <1>13, <2>1 DEF NewTask, Task
<1> DEFINE p == S.player
           Case1 == Resuming(S.tasks)
           Case2 == S.hook.sleep = "due"
           Case3 == p.state = "playing" /\ ~NeedsResume(p) /\ ~HasEnded(p)
<1>15. CASE Case1
  <2>1. R = S
    BY <1>15 DEF Resume
  <2> QED BY <2>1, SameFine
<1>16. CASE ~Case1 /\ Case2
  <2>1. R = Stop(S)
    BY <1>16 DEF Resume
  <2> QED BY <2>1, StopOfGood, LandedFine
<1>17. CASE ~Case1 /\ ~Case2 /\ Case3
  <2>1. R = W
    BY <1>2, <1>17, Zenon DEF Resume
  <2>2. PlaceIn(R) = PlaceIn(S) /\ (Sounds(R) <=> Sounds(S))
    BY <1>5, <2>1 DEF PlaceIn, PlaceOf, Sounds
  <2> QED BY <1>5, <2>1, <2>2, SameFine
<1>18. CASE ~Case1 /\ ~Case2 /\ ~Case3 /\ HasCurrentAudio(p)
  <2>1. R = BackendResume(O, t)
    BY <1>2, <1>8, <1>13, <1>18, Zenon DEF Resume
  <2>2. /\ Sane(R) /\ EndOK(R.player, R.tasks) /\ ~AskedIn(R.tasks)
        /\ Sounds(R) <=> Sounds(O)
        /\ PlaceIn(R) = O.hook.current
    BY <1>5, <1>9, <1>12, <1>14, <1>18, <2>1, BackendResumeGood DEF Resumes
  <2>3. PlaceIn(R) = PlaceIn(S) /\ (Sounds(R) <=> Sounds(S))
    BY <1>5, <1>9, <1>18, <2>2 DEF PlaceIn, PlaceOf, Sounds, HasEnded, HasCurrentAudio
  <2>4. Sounds(S) => PlaceIn(S) # 0
    BY <1>1, <1>5, <1>9, <2>2, <2>3 DEF Sounds, HookOK, PlayerOK, Audible
  <2> QED BY <2>2, <2>3, <2>4 DEF Fine, Moves
<1>19. CASE ~Case1 /\ ~Case2 /\ ~Case3 /\ ~HasCurrentAudio(p) /\ HasEnded(p)
  <2>1. \A u \in S.tasks : ~Requested(u)
    <3>1. ASSUME NEW u \in S.tasks, Requested(u) PROVE FALSE
      <4>1. u.live /\ ShapeOK(u) /\ WorkOK(S.player, S.hook, u)
        BY <1>1, <3>1 DEF SideOK, Sane
      <4>2. Main(u)
        BY <3>1, <4>1 DEF Main, Requested, ShapeOK
      <4>3. AnswerOK(S.player, u)
        BY <3>1, <4>1, <4>2 DEF WorkOK, MainOK
      <4> QED BY <1>19, <3>1, <4>3 DEF AnswerOK, Requested, HasEnded
    <3> QED BY <3>1
  <2>2. \A u \in N : ~Requested(u)
    BY <1>1, <1>6, <2>1, VoidedTasks
  <2>3. \A u \in O.tasks : SideOK(O.hook, u)
    BY <1>9, <1>11, <2>2 DEF SideOK, LooseOK
  <2>4. Sane(O)
    BY <1>12, <2>3, RestIntro DEF Loose
  <2>5. PICK A : A = [O EXCEPT !.tasks = @ \cup {t}]
    OBVIOUS
  <2>6. PICK M : M = N \cup {t}
    OBVIOUS
  <2>7. M \in SUBSET Task
    BY <1>7, <1>14, <2>6
  <2>8. A = [O EXCEPT !.tasks = M]
    BY <1>9, <2>5, <2>6
  <2>9. A \in States /\ A.player = S.player /\ A.hook = h /\ A.tasks = M /\ A.pool = S.pool
    BY <1>9, <2>7, <2>8 DEF States
  <2>10. ShapeOK(t)
    BY <1>14 DEF ShapeOK, PlaySteps
  <2>11. SideOK(h, t) /\ ~Main(t) /\ ~Fills(t) /\ ~Asks(t)
    BY <1>5, <1>14, <2>10, Zenon DEF SideOK, Main, Fills, Asks, Requested
  <2>12. Sane(A)
    BY <1>1, <1>9, <2>4, <2>6, <2>9, <2>11, AddSide
  <2>13. NoMain(A.tasks)
    BY <1>7, <2>6, <2>9, <2>11 DEF NoMain
  <2>14. R = Advance(A, TRUE)
    BY <1>2, <1>8, <1>13, <1>19, <2>5, Zenon DEF Resume
  <2>15. R = A \/ Voiced(R, A.hook.current + 1) \/ Voiced(R, 0)
    BY <1>19, <2>9, <2>12, <2>13, <2>14, AdvanceGood
  <2>16. PlaceIn(S) = A.hook.current + 1 /\ PlaceIn(A) = PlaceIn(S) /\ ~Sounds(A)
    BY <1>5, <1>19, <2>9 DEF PlaceIn, PlaceOf, Sounds, HasEnded
  <2>17. ~AskedIn(A.tasks)
    BY <2>12, <2>13, AskedIsMain, RestElim
  <2>18. Voiced(A, PlaceIn(S))
    BY <1>19, <2>9, <2>12, <2>16, <2>17 DEF Voiced, PlaceIn, Sounds, EndOK, HasEnded
  <2> QED BY <2>15, <2>16, <2>18, LandedFine
<1>20. CASE ~Case1 /\ ~Case2 /\ ~Case3 /\ ~HasCurrentAudio(p) /\ ~HasEnded(p) /\ S.hook.current # 0
  <2>1. PICK c : c = S.hook.current
    OBVIOUS
  <2>2. c \in Chunks
    BY <1>1, <1>20, <2>1, PlayerAssumption DEF Hooks, Chunks
  <2>3. R = PlayChunk(O, t, c)
    BY <1>2, <1>8, <1>13, <1>20, <2>1, Zenon DEF Resume
  <2>4. Unplaced(O)
    BY <1>1, <1>5, <1>7, <1>9, <1>12 DEF Unplaced, Loose
  <2>5. S.player.state # "playing"
    BY <1>20 DEF NeedsResume, HasCurrentAudio
  <2>6. EndFor(O.player, t)
    BY <1>9, <2>5 DEF EndFor
  <2>7. Ensuing(O.hook, c) /\ \A u \in O.tasks : Fills(u) => u.chunk = c + Len(O.hook.pending) + 1
    BY <1>5, <1>9, <1>10, <1>11, <2>1 DEF HookOK, LooseOK
  <2>8. Voiced(R, c) \/ Voiced(R, 0)
    BY <1>14, <2>2, <2>3, <2>4, <2>6, <2>7, PlayChunkGood
  <2>9. c = PlaceIn(S)
    BY <1>20, <2>1 DEF PlaceIn, PlaceOf
  <2> QED BY <2>8, <2>9, LandedFine
<1>21. CASE ~Case1 /\ ~Case2 /\ ~Case3 /\ ~HasCurrentAudio(p) /\ ~HasEnded(p) /\ ~(S.hook.current # 0)
  <2>1. PICK c : c = StartLocation(S.hook)
    OBVIOUS
  <2>2. R = Begin(W, c)
    BY <1>2, <1>8, <1>13, <1>21, <2>1, Zenon DEF Resume
  <2>3. c \in 1 .. ChunkCount + 1
    BY <1>1, <2>1, StartPlace
  <2> QED BY <1>5, <2>2, <2>3, BeginGood DEF Fine, Moves, PlaceIn, Sounds
<1> QED BY <1>15, <1>16, <1>17, <1>18, <1>19, <1>20, <1>21

(***************************************************************************)
(* Steps                                                                   *)
(***************************************************************************)

(* What sounds is alone: no task is to play. *)
LEMMA SoundsAlone ==
  ASSUME NEW S, Sane(S), Sounds(S)
  PROVE  /\ NoMain(S.tasks) /\ ~AskedIn(S.tasks) /\ S.hook.current # 0 /\ PlaceIn(S) = S.hook.current
         /\ S.player.fresh /\ S.player.wants /\ S.player.focus = "narration" /\ S.hook.intent /\ ~S.player.endEvent
<1>1. NoMain(S.tasks)
  BY DEF Sane, WorkOK, MainOK, NoMain, Sounds
<1>2. ~AskedIn(S.tasks)
  BY <1>1, AskedIsMain, RestElim
<1>3. PlayerOK(S.player) /\ HookOK(S.player, S.hook) /\ S.player.element = "sounding"
  BY DEF Sane, Sounds
<1>4. S.player.fresh /\ S.player.wants /\ S.player.focus = "narration" /\ S.hook.intent /\ ~S.player.endEvent
  BY <1>3 DEF PlayerOK, HookOK, Audible
<1>5. S.hook.current # 0 /\ PlaceIn(S) = S.hook.current
  BY <1>3, <1>4 DEF HookOK, PlaceIn, PlaceOf, HasEnded
<1> QED BY <1>1, <1>2, <1>4, <1>5

(* A call changes the player where no task looks. *)
LEMMA PlayerGood ==
  ASSUME NEW S, Sane(S), NEW p \in Players, p.wants = S.player.wants, p.fresh = S.player.fresh,
         p.element = S.player.element, p.focus = S.player.focus,
         p.endEvent => S.player.endEvent,
         p.endEvent /\ p.state = "playing" => S.player.state = "playing",
         NEW R, R = [S EXCEPT !.player = p]
  PROVE  /\ Sane(R) /\ R.player = p /\ R.hook = S.hook /\ R.pool = S.pool /\ R.tasks = S.tasks
         /\ PlaceIn(R) = PlaceIn(S) /\ (Sounds(R) <=> Sounds(S))
         /\ EndOK(S.player, S.tasks) => EndOK(R.player, R.tasks)
<1>1. S \in States
  BY DEF Sane
<1>2. R \in States /\ R.player = p /\ R.hook = S.hook /\ R.pool = S.pool /\ R.tasks = S.tasks
  BY <1>1 DEF States
<1>3. PlayerOK(p) /\ HookOK(p, S.hook)
  BY DEF Sane, PlayerOK, HookOK
<1>4. HasEnded(p) <=> HasEnded(S.player)
  BY DEF HasEnded
<1>5. ASSUME NEW t \in S.tasks PROVE WorkOK(p, S.hook, t)
  <2>1. WorkOK(S.player, S.hook, t)
    BY DEF Sane
  <2>2. AnswerOK(S.player, t) => AnswerOK(p, t)
    BY DEF AnswerOK
  <2>3. SeekOK(S.player, S.hook, t) => SeekOK(p, S.hook, t)
    BY <1>4 DEF SeekOK
  <2>4. EndFor(S.player, t) => EndFor(p, t)
    BY DEF EndFor
  <2> QED BY <1>4, <2>1, <2>2, <2>3, <2>4 DEF WorkOK, MainOK
<1>6. Sane(R)
  BY <1>2, <1>3, <1>5 DEF Sane
<1>7. EndOK(S.player, S.tasks) => EndOK(R.player, R.tasks)
  BY <1>2 DEF EndOK
<1> QED BY <1>2, <1>4, <1>6, <1>7 DEF PlaceIn, PlaceOf, Sounds

(* With nobody to play, the player may do what keeps its own promises. *)
LEMMA AlonePlayerGood ==
  ASSUME NEW S, Sane(S), NoMain(S.tasks), NEW p \in Players, PlayerOK(p), HookOK(p, S.hook),
         NEW R, R = [S EXCEPT !.player = p]
  PROVE  Sane(R) /\ R.player = p /\ R.hook = S.hook /\ R.pool = S.pool /\ R.tasks = S.tasks
<1>1. R \in States /\ R.player = p /\ R.hook = S.hook /\ R.pool = S.pool /\ R.tasks = S.tasks
  BY DEF Sane, States
<1> QED BY <1>1, RestElim, RestIntro

(* The pool is no concern of the player. *)
LEMMA PoolGood ==
  ASSUME NEW S, Sane(S), NEW q, StoreOK(q), NEW R, R = [S EXCEPT !.pool = q]
  PROVE  Sane(R) /\ R.player = S.player /\ R.hook = S.hook /\ R.pool = q /\ R.tasks = S.tasks
<1>1. R \in States /\ R.player = S.player /\ R.hook = S.hook /\ R.pool = q /\ R.tasks = S.tasks
  BY DEF Sane, States, StoreOK, Tallied
<1> QED BY <1>1 DEF Sane

(* A task that nobody waits for ends. *)
LEMMA DropFine ==
  ASSUME NEW S, Sane(S), EndOK(S.player, S.tasks), NEW t \in S.tasks, ~Requested(t),
         NEW R, Sane(R), R.player = S.player, SameHook(R.hook, S.hook), R.tasks = S.tasks \ {t}
  PROVE  Fine(S, R)
<1>1. EndOK(R.player, R.tasks)
  BY DEF EndOK
<1>2. PlaceIn(R) = PlaceIn(S) /\ (Sounds(R) <=> Sounds(S))
  BY DEF PlaceIn, PlaceOf, Sounds, SameHook
<1>3. CASE AskedIn(R.tasks) <=> AskedIn(S.tasks)
  BY <1>1, <1>2, <1>3, SameFine
<1>4. CASE ~(AskedIn(R.tasks) <=> AskedIn(S.tasks))
  <2>1. ~AskedIn(R.tasks) /\ AskedIn(S.tasks)
    BY <1>4 DEF AskedIn
  <2>2. ~Sounds(S)
    BY <2>1, SoundsAlone
  <2> QED BY <1>1, <1>2, <2>1, <2>2 DEF Fine, Moves
<1> QED BY <1>3, <1>4

(* The state without one of its tasks. *)
Without(S, t) == [S EXCEPT !.tasks = @ \ {t}]

(* What is known of a task that is taken up. *)
LEMMA TakenGood ==
  ASSUME NEW S, Sane(S), NEW t \in S.tasks, NEW T, T = Without(S, t)
  PROVE  /\ Sane(T) /\ T.player = S.player /\ T.hook = S.hook /\ T.pool = S.pool /\ T.tasks = S.tasks \ {t}
         /\ WorkOK(S.player, S.hook, t) /\ ShapeOK(t) /\ t \in Task
         /\ Main(t) => NoMain(T.tasks) /\ ~AskedIn(T.tasks) /\ Unplaced(T) /\ S.hook.intent
         /\ Waits(t) => NoFill(T.tasks) /\ S.hook.pending = <<>>
         /\ Requested(t) => Main(t)
<1>1. /\ Sane(T) /\ T.player = S.player /\ T.hook = S.hook /\ T.pool = S.pool /\ T.tasks = S.tasks \ {t}
      /\ Main(t) => NoMain(T.tasks)
      /\ Waits(t) => NoFill(T.tasks)
  BY TakeGood DEF Without
<1>2. WorkOK(S.player, S.hook, t) /\ ShapeOK(t) /\ t \in Task /\ SideOK(S.hook, t)
  BY DEF Sane, WorkOK, SideOK, ShapeOK
<1>3. Main(t) => ~AskedIn(T.tasks)
  BY <1>1, AskedIsMain, RestElim
<1>4. Main(t) => S.hook.intent
  BY <1>2 DEF SideOK, Main
<1>5. Main(t) => Unplaced(T)
  BY <1>1, <1>4, RestElim DEF Unplaced
<1>6. Waits(t) => S.hook.pending = <<>>
  BY <1>2 DEF Waits, WorkOK, MainOK, SeekOK
<1>7. Requested(t) => Main(t)
  BY <1>2 DEF SideOK, Requested, Main, ShapeOK
<1> QED BY <1>1, <1>2, <1>3, <1>4, <1>5, <1>6, <1>7

(* What follows playChunk: the chunk sounds, the next ones are prefetched. *)
LEMMA PlayDoneGood ==
  ASSUME NEW S, Sane(S), Sounds(S), NEW t \in Task, t.live, NEW R, R = PlayDone(S, t)
  PROVE  /\ Sane(R) /\ EndOK(R.player, R.tasks) /\ R.player = S.player /\ SameHook(R.hook, S.hook) /\ ~AskedIn(R.tasks)
<1>1. /\ NoMain(S.tasks) /\ ~AskedIn(S.tasks) /\ S.hook.intent /\ S.hook \in Hooks /\ ~S.player.endEvent
  BY SoundsAlone, StateFields DEF Sane
<1>2. PICK h : h = [S.hook EXCEPT !.prompt = FALSE, !.preparing = FALSE]
  OBVIOUS
<1>3. h \in Hooks /\ SameHook(h, S.hook)
  BY <1>1, <1>2 DEF Hooks, SameHook
<1>4. PICK B : B = [S EXCEPT !.hook = [@ EXCEPT !.prompt = FALSE, !.preparing = FALSE]]
  OBVIOUS
<1>5. B = [S EXCEPT !.hook = h]
  BY <1>2, <1>4
<1>6. Sane(B) /\ B.player = S.player /\ B.hook = h /\ B.tasks = S.tasks
  BY <1>3, <1>5, HookGood DEF SameHook
<1>7. PICK P : P = PreloadBuffer(B)
  OBVIOUS
<1>8. \A u \in B.tasks : ~Waits(u)
  BY <1>1, <1>6 DEF NoMain, Waits
<1>9. EndOK(B.player, B.tasks)
  BY <1>1, <1>6 DEF EndOK
<1>10. /\ Sane(P) /\ P.player = S.player /\ P.hook = h /\ EndOK(P.player, P.tasks) /\ ~AskedIn(P.tasks)
  BY <1>1, <1>6, <1>7, <1>8, <1>9, PreloadBufferGood
<1>11. CASE t.kind = "resume"
  <2>1. R = AfterResume(P, t)
    BY <1>1, <1>4, <1>7, <1>11, Zenon DEF PlayDone
  <2>2. P.hook.intent
    BY <1>1, <1>3, <1>10 DEF SameHook
  <2>3. /\ Sane(R) /\ R.player = P.player /\ SameHook(R.hook, P.hook) /\ EndOK(R.player, R.tasks)
        /\ AskedIn(R.tasks) <=> AskedIn(P.tasks)
    BY <1>10, <1>11, <2>1, <2>2, AfterResumeGood
  <2> QED BY <1>3, <1>10, <2>3 DEF SameHook
<1>12. CASE t.kind # "resume"
  <2>1. R = P
    BY <1>1, <1>4, <1>7, <1>12, Zenon DEF PlayDone
  <2> QED BY <1>3, <1>10, <2>1
<1> QED BY <1>11, <1>12

-----------------------------------------------------------------------------
(* The state after a step. *)
Then == [player |-> player', hook |-> hook', tasks |-> tasks', pool |-> pool']

Healthy == Sane(Now) /\ EndOK(player, tasks)

(* A step to the state that a call gives. *)
LEMMA Becomes ==
  ASSUME NEW R \in States, Become(R)
  PROVE  Then = R
BY DEF States, Become, Then

(* A step to a state that is fine. *)
LEMMA BecomesFine ==
  ASSUME NEW S, S = Now, NEW R, Fine(S, R), Become(R)
  PROVE  Fine(Now, Then)
<1>1. R \in States
  BY DEF Fine, Sane
<1> QED BY <1>1, Becomes

(* The parts of the state. *)
LEMMA NowFields ==
  ASSUME NEW S, S = Now
  PROVE  S.player = player /\ S.hook = hook /\ S.tasks = tasks /\ S.pool = pool
BY DEF Now

(***************************************************************************)
(* The answers that the tasks wait for                                     *)
(***************************************************************************)

(* A task is taken up. *)
LEMMA TakenUp ==
  ASSUME Healthy, NEW t \in tasks, NEW S, S = Now, NEW T, T = Take(t)
  PROVE  /\ Sane(S) /\ EndOK(S.player, S.tasks) /\ t \in S.tasks
         /\ S.player = player /\ S.hook = hook /\ S.tasks = tasks /\ S.pool = pool
         /\ Sane(T) /\ T.player = S.player /\ T.hook = S.hook /\ T.pool = S.pool /\ T.tasks = S.tasks \ {t}
         /\ WorkOK(S.player, S.hook, t) /\ ShapeOK(t) /\ t \in Task
         /\ Main(t) => NoMain(T.tasks) /\ ~AskedIn(T.tasks) /\ Unplaced(T) /\ S.hook.intent
         /\ Waits(t) => NoFill(T.tasks) /\ S.hook.pending = <<>>
         /\ Requested(t) => Main(t)
<1>1. S.player = player /\ S.hook = hook /\ S.tasks = tasks /\ S.pool = pool
  BY NowFields
<1>2. Sane(S) /\ EndOK(S.player, S.tasks) /\ t \in S.tasks
  BY <1>1 DEF Healthy
<1>3. T = Without(S, t)
  BY DEF Take, Without
<1> QED BY <1>1, <1>2, <1>3, TakenGood

(* playChunk of a task that waited for the source: there is no buffer, and no fill. *)
LEMMA ReadPlays ==
  ASSUME NEW S, Sane(S), NEW t \in S.tasks, Waits(t), t.kind # "fill", t.chunk \in Chunks,
         NEW T, T = Without(S, t), NEW R, R = PlayChunk(T, t, t.chunk)
  PROVE  Voiced(R, t.chunk) \/ Voiced(R, 0)
<1>1. /\ T.player = S.player /\ T.hook = S.hook /\ WorkOK(S.player, S.hook, t) /\ t \in Task
      /\ Unplaced(T) /\ NoFill(T.tasks) /\ S.hook.pending = <<>>
  BY TakenGood DEF Waits
<1>2. PICK c : c = t.chunk
  OBVIOUS
<1>3. R = PlayChunk(T, t, c)
  BY <1>2
<1>4. EndFor(T.player, t) /\ t.live
  BY <1>1 DEF WorkOK, MainOK, Waits, Main
<1>5. Ensuing(T.hook, c)
  <2>1. Len(T.hook.pending) = 0
    BY <1>1
  <2> QED BY <2>1 DEF Ensuing
<1>6. \A u \in T.tasks : Fills(u) => u.chunk = c + Len(T.hook.pending) + 1
  BY <1>1 DEF NoFill
<1> QED BY <1>1, <1>2, <1>3, <1>4, <1>5, <1>6, PlayChunkGood

(* What the source can still give is a chunk of the book. *)
LEMMA ChunkInBook ==
  ASSUME NEW h \in Hooks, NEW c \in 0 .. ChunkCount + 1, c # 0, ~(c > h.end)
  PROVE  c \in Chunks
<1>1. h.end \in 0 .. ChunkCount
  BY DEF Hooks
<1> QED BY <1>1, PlayerAssumption DEF Chunks

(* The first chunk of begin has been read. *)
LEMMA BeginReadFine ==
  ASSUME Healthy, NEW t \in tasks, BeginRead(t)
  PROVE  Fine(Now, Then)
<1>1. PICK S : S = Now
  OBVIOUS
<1>2. PICK T : T = Take(t)
  OBVIOUS
<1>3. /\ Sane(S) /\ EndOK(S.player, S.tasks) /\ t \in S.tasks /\ S.hook = hook
      /\ Sane(T) /\ T.player = S.player /\ T.hook = S.hook /\ T.tasks = S.tasks \ {t} /\ t \in Task /\ ShapeOK(t)
  BY <1>1, <1>2, TakenUp
<1>4. t.kind = "begin" /\ t.at = "read" /\ ~Requested(t)
  BY DEF BeginRead, Requested
<1>5. CASE ~t.live \/ ~hook.intent
  <2>1. PICK R : R = Leave(T, t)
    OBVIOUS
  <2>2. Become(R)
    BY <1>2, <1>5, <2>1, Zenon DEF BeginRead
  <2>3. Sane(R) /\ R.player = S.player /\ R.tasks = S.tasks \ {t} /\ SameHook(R.hook, S.hook)
    BY <1>3, <2>1, LeaveGood
  <2> QED BY <1>1, <1>3, <1>4, <2>2, <2>3, DropFine, BecomesFine
<1>6. CASE ~(~t.live \/ ~hook.intent) /\ t.chunk > hook.end
  <2>1. PICK R : R = Stop(T)
    OBVIOUS
  <2>2. Become(R)
    BY <1>2, <1>6, <2>1, Zenon DEF BeginRead
  <2> QED BY <1>1, <1>3, <2>1, <2>2, StopOfGood, LandedFine, BecomesFine
<1>7. CASE ~(~t.live \/ ~hook.intent) /\ ~(t.chunk > hook.end)
  <2>1. PICK R : R = PlayChunk(T, t, t.chunk)
    OBVIOUS
  <2>2. Become(R)
    BY <1>2, <1>7, <2>1, Zenon DEF BeginRead
  <2>3. Waits(t) /\ Asks(t)
    BY <1>4, <1>7 DEF Waits, Main, SeekSteps, Asks, PlaySteps
  <2>4. t.chunk \in Chunks
    <3>1. hook \in Hooks /\ t.chunk \in 0 .. ChunkCount + 1 /\ t.chunk # 0
      BY <1>3, <1>4, StateFields DEF Sane, Task, ShapeOK
    <3> QED BY <1>7, <3>1, ChunkInBook
  <2>5. T = Without(S, t)
    BY <1>1, <1>2 DEF Take, Without
  <2>6. Voiced(R, t.chunk) \/ Voiced(R, 0)
    BY <1>3, <1>4, <2>1, <2>3, <2>4, <2>5, ReadPlays
  <2>7. AskedIn(S.tasks)
    BY <1>3, <2>3 DEF AskedIn
  <2> QED BY <1>1, <2>2, <2>4, <2>6, <2>7, LandedFine, BecomesFine
<1> QED BY <1>5, <1>6, <1>7

(* The fill that an advance waited for is over. *)
LEMMA FillWaitEndsFine ==
  ASSUME Healthy, NEW t \in tasks, FillWaitEnds(t)
  PROVE  Fine(Now, Then)
<1>1. PICK S : S = Now
  OBVIOUS
<1>2. PICK T : T = Take(t)
  OBVIOUS
<1>3. /\ Sane(S) /\ EndOK(S.player, S.tasks) /\ t \in S.tasks /\ S.hook = hook /\ S.tasks = tasks
      /\ Sane(T) /\ T.player = S.player /\ T.hook = S.hook /\ T.tasks = S.tasks \ {t} /\ t \in Task /\ ShapeOK(t)
      /\ WorkOK(S.player, S.hook, t) /\ (Main(t) => NoMain(T.tasks))
  BY <1>1, <1>2, TakenUp
<1>4. t.at = "fillWait" /\ ~Requested(t) /\ t.kind = "advance"
  BY <1>3 DEF FillWaitEnds, Requested, ShapeOK
<1>5. CASE t.live /\ hook.intent
  <2>1. PICK R : R = AdvanceTake(T, t)
    OBVIOUS
  <2>2. Become(R)
    BY <1>2, <1>5, <2>1, Zenon DEF FillWaitEnds
  <2>3. Main(t)
    BY <1>4, <1>5 DEF Main
  <2>4. EndFor(S.player, t) /\ HasEnded(S.player)
    BY <1>3, <1>4, <2>3 DEF WorkOK, MainOK, SeekOK, SeekSteps
  <2>5. NoFill(T.tasks)
    BY <1>3 DEF FillWaitEnds, Filling, NoFill, Fills
  <2>6. Voiced(R, S.hook.current + 1) \/ Voiced(R, 0)
    BY <1>3, <1>4, <1>5, <2>1, <2>3, <2>4, <2>5, AdvanceTakeGood
  <2>7. PlaceIn(S) = S.hook.current + 1
    BY <2>4 DEF PlaceIn, PlaceOf
  <2> QED BY <1>1, <2>2, <2>6, <2>7, LandedFine, BecomesFine
<1>6. CASE ~(t.live /\ hook.intent)
  <2>1. Become(T)
    BY <1>2, <1>6, Zenon DEF FillWaitEnds
  <2>2. SameHook(T.hook, S.hook)
    BY <1>3 DEF SameHook
  <2> QED BY <1>1, <1>3, <1>4, <2>1, <2>2, DropFine, BecomesFine
<1> QED BY <1>5, <1>6

(* advance has read the next chunk itself. *)
LEMMA AdvanceReadFine ==
  ASSUME Healthy, NEW t \in tasks, AdvanceRead(t)
  PROVE  Fine(Now, Then)
<1>1. PICK S : S = Now
  OBVIOUS
<1>2. PICK T : T = Take(t)
  OBVIOUS
<1>3. /\ Sane(S) /\ EndOK(S.player, S.tasks) /\ t \in S.tasks /\ S.hook = hook
      /\ Sane(T) /\ T.player = S.player /\ T.hook = S.hook /\ T.tasks = S.tasks \ {t} /\ t \in Task /\ ShapeOK(t)
      /\ WorkOK(S.player, S.hook, t)
  BY <1>1, <1>2, TakenUp
<1>4. t.kind = "advance" /\ t.at = "read" /\ ~Requested(t)
  BY DEF AdvanceRead, Requested
<1>5. CASE ~t.live \/ ~hook.intent
  <2>1. Become(T)
    BY <1>2, <1>5, Zenon DEF AdvanceRead
  <2>2. SameHook(T.hook, S.hook)
    BY <1>3 DEF SameHook
  <2> QED BY <1>1, <1>3, <1>4, <2>1, <2>2, DropFine, BecomesFine
<1>6. CASE ~(~t.live \/ ~hook.intent) /\ t.chunk > hook.end
  <2>1. PICK R : R = Stop(T)
    OBVIOUS
  <2>2. Become(R)
    BY <1>2, <1>6, <2>1, Zenon DEF AdvanceRead
  <2> QED BY <1>1, <1>3, <2>1, <2>2, StopOfGood, LandedFine, BecomesFine
<1>7. CASE ~(~t.live \/ ~hook.intent) /\ ~(t.chunk > hook.end)
  <2>1. PICK R : R = PlayChunk(T, t, t.chunk)
    OBVIOUS
  <2>2. Become(R)
    BY <1>2, <1>7, <2>1, Zenon DEF AdvanceRead
  <2>3. Waits(t) /\ Main(t)
    BY <1>4, <1>7 DEF Waits, Main, SeekSteps
  <2>4. t.chunk \in Chunks
    <3>1. hook \in Hooks /\ t.chunk \in 0 .. ChunkCount + 1 /\ t.chunk # 0
      BY <1>3, <1>4, StateFields DEF Sane, Task, ShapeOK
    <3> QED BY <1>7, <3>1, ChunkInBook
  <2>5. T = Without(S, t)
    BY <1>1, <1>2 DEF Take, Without
  <2>6. Voiced(R, t.chunk) \/ Voiced(R, 0)
    BY <1>3, <1>4, <2>1, <2>3, <2>4, <2>5, ReadPlays
  <2>7. HasEnded(S.player) /\ t.chunk = S.hook.current + 1
    BY <1>3, <1>4, <2>3 DEF WorkOK, MainOK, SeekOK, SeekSteps
  <2>8. PlaceIn(S) = t.chunk
    BY <2>7 DEF PlaceIn, PlaceOf
  <2> QED BY <1>1, <2>2, <2>6, <2>8, LandedFine, BecomesFine
<1> QED BY <1>5, <1>6, <1>7

(* jump has read its chunk. *)
LEMMA JumpReadFine ==
  ASSUME Healthy, NEW t \in tasks, JumpRead(t)
  PROVE  Fine(Now, Then)
<1>1. PICK S : S = Now
  OBVIOUS
<1>2. PICK T : T = Take(t)
  OBVIOUS
<1>3. /\ Sane(S) /\ EndOK(S.player, S.tasks) /\ t \in S.tasks
      /\ Sane(T) /\ T.player = S.player /\ T.hook = S.hook /\ T.tasks = S.tasks \ {t} /\ t \in Task /\ ShapeOK(t)
  BY <1>1, <1>2, TakenUp
<1>4. t.kind = "jump" /\ t.at = "read" /\ ~Requested(t)
  BY DEF JumpRead, Requested
<1>5. CASE ~t.live
  <2>1. Become(T)
    BY <1>2, <1>5, Zenon DEF JumpRead
  <2>2. SameHook(T.hook, S.hook)
    BY <1>3 DEF SameHook
  <2> QED BY <1>1, <1>3, <1>4, <2>1, <2>2, DropFine, BecomesFine
<1>7. CASE t.live /\ t.chunk > hook.end
  <2>1. PICK R : R = Stop(T)
    OBVIOUS
  <2>2. Become(R)
    BY <1>2, <1>7, <2>1, Zenon DEF JumpRead
  <2> QED BY <1>1, <1>3, <2>1, <2>2, StopOfGood, LandedFine, BecomesFine
<1>6. CASE t.live /\ ~(t.chunk > hook.end)
  <2>1. PICK R : R = PlayChunk(T, t, t.chunk)
    OBVIOUS
  <2>2. Become(R)
    BY <1>2, <1>6, <2>1, Zenon DEF JumpRead
  <2>3. Waits(t) /\ Asks(t)
    BY <1>4, <1>6 DEF Waits, Main, SeekSteps, Asks, PlaySteps
  <2>4. t.chunk \in Chunks
    BY <1>3, <1>4 DEF ShapeOK
  <2>5. T = Without(S, t)
    BY <1>1, <1>2 DEF Take, Without
  <2>6. Voiced(R, t.chunk) \/ Voiced(R, 0)
    BY <1>3, <1>4, <2>1, <2>3, <2>4, <2>5, ReadPlays
  <2>7. AskedIn(S.tasks)
    BY <1>3, <2>3 DEF AskedIn
  <2> QED BY <1>1, <2>2, <2>4, <2>6, <2>7, LandedFine, BecomesFine
<1> QED BY <1>5, <1>6, <1>7

(* A failed operation of the one that is to play. *)
LEMMA InterruptFine ==
  ASSUME NEW S, NEW F, Sane(F), NoMain(F.tasks), F.player = S.player, SameHook(F.hook, S.hook),
         NEW R, R = Interrupt(F)
  PROVE  Voiced(R, PlaceIn(S)) /\ Fine(S, R)
<1>1. /\ Sane(R) /\ EndOK(R.player, R.tasks) /\ SameHook(R.hook, F.hook)
      /\ PlaceOf(R.player, R.hook) = PlaceOf(F.player, F.hook) /\ R.player.element \notin Audible
      /\ AskedIn(R.tasks) <=> AskedIn(F.tasks)
  BY InterruptGood
<1>2. ~AskedIn(F.tasks)
  BY AskedIsMain, RestElim
<1>3. PlaceOf(F.player, F.hook) = PlaceIn(S)
  BY DEF PlaceIn, PlaceOf, SameHook
<1>4. Voiced(R, PlaceIn(S))
  BY <1>1, <1>2, <1>3 DEF Voiced, Audible
<1> QED BY <1>4, LandedFine

(* The finally of playChunk does not move the narration. *)
LEMMA LeaveLanded ==
  ASSUME NEW S, NEW c, Voiced(S, c), NEW t \in Task, NEW R, R = Leave(S, t)
  PROVE  Voiced(R, c)
<1>1. Sane(R) /\ R.player = S.player /\ R.tasks = S.tasks /\ SameHook(R.hook, S.hook)
  BY LeaveGood DEF Voiced
<1> QED BY <1>1 DEF Voiced, PlaceOf, SameHook

(* The source throws: the narration stays where it is. *)
LEMMA ReadFailsFine ==
  ASSUME Healthy, NEW t \in tasks, ReadFails(t)
  PROVE  Fine(Now, Then)
<1>1. PICK S : S = Now
  OBVIOUS
<1>2. PICK T : T = Take(t)
  OBVIOUS
<1>3. /\ Sane(S) /\ EndOK(S.player, S.tasks) /\ t \in S.tasks /\ S.hook = hook
      /\ Sane(T) /\ T.player = S.player /\ T.hook = S.hook /\ T.tasks = S.tasks \ {t} /\ t \in Task /\ ShapeOK(t)
      /\ Main(t) => NoMain(T.tasks)
  BY <1>1, <1>2, TakenUp
<1>4. t.at \in {"read", "previous", "adjacent"} /\ ~Requested(t)
  BY DEF ReadFails, Requested
<1>5. PICK missing : missing = CASE t.at = "read" -> t.chunk
                                 [] t.at = "adjacent" -> hook.current + 1
                                 [] OTHER -> hook.end + 1
  OBVIOUS
<1>6. PICK e : e = IF ~t.own THEN hook.end ELSE IF missing > hook.current THEN missing - 1 ELSE hook.current
  OBVIOUS
<1>7. hook \in Hooks /\ hook.current \in 0 .. ChunkCount /\ hook.end \in 0 .. ChunkCount /\ ChunkCount \in Nat
  BY <1>3, StateFields, PlayerAssumption DEF Sane, Hooks
<1>8. e \in 0 .. ChunkCount
  <2>1. t.chunk \in 0 .. ChunkCount + 1
    BY <1>3 DEF Task
  <2>2. missing \in 0 .. ChunkCount + 1
    BY <1>4, <1>5, <1>7, <2>1
  <2> QED BY <1>6, <1>7, <2>2
<1>9. PICK h : h = [T.hook EXCEPT !.end = e]
  OBVIOUS
<1>10. h \in Hooks /\ SameHook(h, S.hook)
  BY <1>3, <1>7, <1>8, <1>9 DEF Hooks, SameHook
<1>11. PICK F : F = [T EXCEPT !.hook = [@ EXCEPT !.end = IF ~t.own THEN hook.end
                                                         ELSE IF missing > hook.current THEN missing - 1
                                                         ELSE hook.current]]
  OBVIOUS
<1>12. F = [T EXCEPT !.hook = h]
  BY <1>6, <1>9, <1>11
<1>13. Sane(F) /\ F.player = S.player /\ F.hook = h /\ F.tasks = S.tasks \ {t}
  BY <1>3, <1>10, <1>12, HookGood DEF SameHook
<1>14. Become(IF ~t.live \/ t.kind = "fill" THEN F
              ELSE IF t.kind = "jump" THEN [F EXCEPT !.hook = [@ EXCEPT !.prompt = TRUE]]
              ELSE IF t.kind = "begin" THEN Leave(Interrupt(F), t)
              ELSE Interrupt(F))
  BY <1>2, <1>5, <1>11, Zenon DEF ReadFails
<1>16. CASE ~t.live \/ t.kind = "fill"
  <2>1. Become(F)
    BY <1>14, <1>16, Zenon
  <2> QED BY <1>1, <1>3, <1>4, <1>10, <1>13, <2>1, DropFine, BecomesFine
<1>17. CASE t.live /\ t.kind = "jump"
  <2>1. PICK R : R = [F EXCEPT !.hook = [@ EXCEPT !.prompt = TRUE]]
    OBVIOUS
  <2>2. Become(R)
    <3>1. t.kind # "fill"
      BY <1>17
    <3> QED BY <1>14, <1>17, <2>1, <3>1, Zenon
  <2>3. PICK g : g = [F.hook EXCEPT !.prompt = TRUE]
    OBVIOUS
  <2>4. g \in Hooks /\ SameHook(g, S.hook) /\ SameHook(g, F.hook)
    BY <1>10, <1>13, <2>3 DEF Hooks, SameHook
  <2>5. R = [F EXCEPT !.hook = g]
    BY <2>1, <2>3
  <2>6. Sane(R) /\ R.player = S.player /\ R.hook = g /\ R.tasks = S.tasks \ {t}
    BY <1>13, <2>4, <2>5, HookGood DEF SameHook
  <2> QED BY <1>1, <1>3, <1>4, <2>2, <2>4, <2>6, DropFine, BecomesFine
<1>18. CASE t.live /\ t.kind \notin {"fill", "jump"}
  <2>1. Main(t)
    BY <1>4, <1>18 DEF Main
  <2>2. NoMain(F.tasks)
    BY <1>3, <1>13, <2>1
  <2>3. PICK I : I = Interrupt(F)
    OBVIOUS
  <2>4. Voiced(I, PlaceIn(S)) /\ Fine(S, I)
    BY <1>10, <1>13, <2>2, <2>3, InterruptFine
  <2>5. t.kind # "fill" /\ t.kind # "jump"
    BY <1>18
  <2>6. CASE t.kind = "begin"
    <3>1. PICK R : R = Leave(I, t)
      OBVIOUS
    <3>2. Become(R)
      BY <1>14, <1>18, <2>3, <2>5, <2>6, <3>1, Zenon
    <3>3. Voiced(R, PlaceIn(S))
      BY <1>3, <2>4, <3>1, LeaveLanded
    <3> QED BY <1>1, <3>2, <3>3, LandedFine, BecomesFine
  <2>7. CASE t.kind # "begin"
    <3>1. Become(I)
      BY <1>14, <1>18, <2>3, <2>5, <2>7, Zenon
    <3> QED BY <1>1, <2>4, <3>1, BecomesFine
  <2> QED BY <2>6, <2>7
<1> QED BY <1>16, <1>17, <1>18

(* One more chunk in the buffer. *)
LEMMA AppendFollows ==
  ASSUME NEW s \in Seq(Chunks), NEW n \in Nat, NEW c \in Chunks, c = n + Len(s) + 1,
         \A i \in 1 .. Len(s) : s[i] = n + i
  PROVE  Append(s, c) \in Seq(Chunks) /\ \A i \in 1 .. Len(Append(s, c)) : Append(s, c)[i] = n + i
<1>1. PICK e : e = Append(s, c)
  OBVIOUS
<1>2. /\ e \in Seq(Chunks) /\ Len(e) = Len(s) + 1 /\ Len(s) \in Nat
      /\ \A i \in 1 .. Len(e) : e[i] = IF i = Len(s) + 1 THEN c ELSE s[i]
  BY <1>1
<1>3. ASSUME NEW i \in 1 .. Len(e) PROVE e[i] = n + i
  <2>1. CASE i = Len(s) + 1
    <3>1. e[i] = c
      BY <1>2, <2>1
    <3> QED BY <1>2, <2>1, <3>1
  <2>2. CASE i # Len(s) + 1
    <3>1. i \in 1 .. Len(s) /\ e[i] = s[i]
      BY <1>2, <2>2
    <3> QED BY <3>1
  <2> QED BY <2>1, <2>2
<1> QED BY <1>1, <1>2, <1>3

(* The buffer changes, while the fill is between two reads and nobody waits for the source. *)
LEMMA BufferGood ==
  ASSUME NEW S, Sane(S), NoFill(S.tasks), \A u \in S.tasks : ~Waits(u),
         NEW h \in Hooks, Ensuing(h, h.current), h.current = S.hook.current,
         h.intent = S.hook.intent, h.base = S.hook.base,
         NEW R, R = [S EXCEPT !.hook = h]
  PROVE  Sane(R) /\ R.player = S.player /\ R.hook = h /\ R.tasks = S.tasks
<1>1. S \in States /\ S.hook \in Hooks /\ HookOK(S.player, S.hook)
  BY StateFields DEF Sane
<1>5. h.current = S.hook.current /\ h.intent = S.hook.intent /\ h.base = S.hook.base /\ Ensuing(h, h.current)
  OBVIOUS
<1>6. R \in States /\ R.player = S.player /\ R.hook = h /\ R.tasks = S.tasks /\ R.pool = S.pool
  BY <1>1 DEF States
<1>8. HookOK(R.player, R.hook)
  BY <1>1, <1>5, <1>6 DEF HookOK
<1>9. ASSUME NEW u \in S.tasks PROVE WorkOK(S.player, h, u)
  <2>1. WorkOK(S.player, S.hook, u) /\ ~Fills(u) /\ ~Waits(u)
    BY DEF Sane, NoFill
  <2>2. SideOK(h, u)
    BY <1>5, <2>1 DEF WorkOK, SideOK
  <2>3. Main(u) => MainOK(S.player, h, u)
    BY <1>5, <2>1 DEF WorkOK, MainOK, SeekOK, Waits
  <2> QED BY <2>2, <2>3 DEF WorkOK
<1>10. Sane(R)
  BY <1>6, <1>8, <1>9 DEF Sane
<1> QED BY <1>5, <1>6, <1>10

(* fill has read a chunk ahead. *)
LEMMA FillReadFine ==
  ASSUME Healthy, NEW t \in tasks, FillRead(t)
  PROVE  Fine(Now, Then)
<1>1. PICK S : S = Now
  OBVIOUS
<1>2. PICK T : T = Take(t)
  OBVIOUS
<1>3. /\ Sane(S) /\ EndOK(S.player, S.tasks) /\ t \in S.tasks /\ S.hook = hook /\ S.pool = pool
      /\ Sane(T) /\ T.player = S.player /\ T.hook = S.hook /\ T.tasks = S.tasks \ {t} /\ T.pool = S.pool
      /\ t \in Task /\ ShapeOK(t) /\ WorkOK(S.player, S.hook, t)
  BY <1>1, <1>2, TakenUp
<1>4. t.kind = "fill" /\ t.at = "read" /\ ~Requested(t)
  BY <1>3 DEF FillRead, Requested, ShapeOK
<1>5. CASE ~t.live
  <2>1. Become(T)
    BY <1>2, <1>5, Zenon DEF FillRead
  <2>2. SameHook(T.hook, S.hook)
    BY <1>3 DEF SameHook
  <2> QED BY <1>1, <1>3, <1>4, <2>1, <2>2, DropFine, BecomesFine
<1>6. CASE t.live /\ t.chunk > hook.end
  <2>1. PICK R : R = [T EXCEPT !.pool = PreloadMultiple(@, hook.pending)]
    OBVIOUS
  <2>2. Become(R)
    BY <1>2, <1>6, <2>1, Zenon DEF FillRead
  <2>3. PICK q : q = PreloadMultiple(T.pool, hook.pending)
    OBVIOUS
  <2>4. StoreOK(q)
    <3>1. StoreOK(T.pool) /\ hook.pending \in Seq(Int)
      BY <1>3, StateFields, ChunksAreInts DEF Sane, Hooks
    <3> QED BY <2>3, <3>1, PreloadMultipleOK
  <2>5. R = [T EXCEPT !.pool = q]
    BY <2>1, <2>3
  <2>6. Sane(R) /\ R.player = S.player /\ R.hook = S.hook /\ R.tasks = S.tasks \ {t}
    BY <1>3, <2>4, <2>5, PoolGood
  <2>7. SameHook(R.hook, S.hook)
    BY <2>6 DEF SameHook
  <2> QED BY <1>1, <1>3, <1>4, <2>2, <2>6, <2>7, DropFine, BecomesFine
<1>7. CASE t.live /\ ~(t.chunk > hook.end)
  <2>1. PICK B : B = [T EXCEPT !.hook = [hook EXCEPT !.pending = Append(@, t.chunk)]]
    OBVIOUS
  <2>2. PICK R : R = FillTurn(B)
    OBVIOUS
  <2>3. Become(R)
    BY <1>2, <1>7, <2>1, <2>2, Zenon DEF FillRead
  <2>4. PICK c : c = t.chunk
    OBVIOUS
  <2>5. Fills(t) /\ c = S.hook.current + Len(S.hook.pending) + 1
    BY <1>3, <1>4, <1>7, <2>4 DEF WorkOK, SideOK, Fills
  <2>6. c \in Chunks
    <3>1. hook \in Hooks /\ t.chunk \in 0 .. ChunkCount + 1 /\ t.chunk # 0
      BY <1>3, <1>4, StateFields DEF Sane, Task, ShapeOK
    <3> QED BY <1>7, <2>4, <3>1, ChunkInBook
  <2>7. NoFill(T.tasks) /\ \A u \in T.tasks : ~Waits(u)
    <3>1. T = [S EXCEPT !.tasks = @ \ {t}]
      BY <1>1, <1>2 DEF Take
    <3> QED BY <1>3, <2>5, <3>1, TakeGood
  <2>8. PICK h : h = [T.hook EXCEPT !.pending = Append(T.hook.pending, c)]
    OBVIOUS
  <2>17. c = T.hook.current + Len(T.hook.pending) + 1
    BY <1>3, <2>5
  <2>9. B = [T EXCEPT !.hook = h]
    BY <1>3, <2>1, <2>4, <2>8
  <2>10. /\ Sane(B) /\ B.player = S.player /\ B.hook = h /\ B.tasks = S.tasks \ {t} /\ h.current = S.hook.current
    <3>1. PICK s \in Seq(Chunks) : s = T.hook.pending
      BY <1>3, StateFields DEF Sane, Hooks
    <3>2. PICK n \in Nat : n = T.hook.current
      BY <1>3, StateFields, PlayerAssumption DEF Sane, Hooks
    <3>3. \A i \in 1 .. Len(s) : s[i] = n + i
      BY <1>3, <3>1, <3>2 DEF Sane, HookOK, Ensuing
    <3>4. PICK e : e = Append(s, c)
      OBVIOUS
    <3>5. e \in Seq(Chunks) /\ \A i \in 1 .. Len(e) : e[i] = n + i
      BY <2>6, <2>17, <3>1, <3>2, <3>3, <3>4, AppendFollows
    <3>6. T.hook \in Hooks
      BY <1>3, StateFields DEF Sane
    <3>7. h = [T.hook EXCEPT !.pending = e]
      BY <2>8, <3>1, <3>4
    <3>8. /\ h \in Hooks /\ h.pending = e /\ h.current = T.hook.current
          /\ h.intent = T.hook.intent /\ h.base = T.hook.base
      BY <3>5, <3>6, <3>7 DEF Hooks
    <3>9. Ensuing(h, h.current)
      BY <3>2, <3>5, <3>8 DEF Ensuing
    <3>10. Sane(B) /\ B.player = T.player /\ B.hook = h /\ B.tasks = T.tasks
      <4>1. Sane(T)
        BY <1>3
      <4> QED BY <2>7, <2>9, <3>8, <3>9, <4>1, BufferGood, SMTT(60)
    <3> QED BY <1>3, <3>8, <3>10
  <2>11. NoFill(B.tasks) /\ \A u \in B.tasks : ~Waits(u)
    BY <1>3, <2>7, <2>10
  <2>12. EndOK(B.player, B.tasks)
    BY <1>3, <1>4, <2>10 DEF EndOK
  <2>13. /\ Sane(R) /\ R.player = B.player /\ R.hook = B.hook /\ EndOK(R.player, R.tasks)
         /\ AskedIn(R.tasks) <=> AskedIn(B.tasks)
    BY <2>2, <2>10, <2>11, <2>12, FillTurnGood
  <2>14. AskedIn(B.tasks) <=> AskedIn(S.tasks)
    BY <1>4, <2>10 DEF AskedIn, Asks
  <2>15. PlaceIn(R) = PlaceIn(S) /\ (Sounds(R) <=> Sounds(S))
    BY <2>10, <2>13 DEF PlaceIn, PlaceOf, Sounds
  <2>16. Fine(S, R)
    BY <2>13, <2>14, <2>15, SameFine
  <2> QED BY <1>1, <2>3, <2>16, BecomesFine
<1> QED BY <1>5, <1>6, <1>7

(* A task whose answer the player takes. *)
LEMMA RequestedFacts ==
  ASSUME NEW S, Sane(S), NEW t \in S.tasks, Requested(t)
  PROVE  /\ Main(t) /\ t.live /\ t.kind # "fill" /\ t.req /\ S.hook.intent
         /\ S.player.wants /\ S.player.focus = "narration"
         /\ t.at \in {"start", "unpause"} => S.player.element = "starting" /\ S.player.fresh /\ ~S.player.endEvent
         /\ t.at \in {"prefetch", "fetch"} => ~S.player.fresh /\ S.player.element \notin Audible
         /\ t.at \in PlaySteps => ToPlay(S.hook, t) /\ ~HasEnded(S.player)
         /\ EndFor(S.player, t) /\ PlaceIn(S) = S.hook.current
<1>1. WorkOK(S.player, S.hook, t) /\ SideOK(S.hook, t) /\ ShapeOK(t) /\ t \in Task /\ PlayerOK(S.player)
  BY DEF Sane, WorkOK, SideOK, ShapeOK
<1>2. Main(t) /\ t.live /\ t.kind # "fill" /\ t.req
  BY <1>1 DEF SideOK, Requested, Main, ShapeOK
<1>3. S.hook.intent
  BY <1>1, <1>2 DEF SideOK
<1>4. MainOK(S.player, S.hook, t) /\ AnswerOK(S.player, t)
  BY <1>1, <1>2 DEF WorkOK, MainOK
<1>5. /\ S.player.wants /\ S.player.focus = "narration"
      /\ t.at \in {"start", "unpause"} => S.player.element = "starting" /\ S.player.fresh /\ ~S.player.endEvent
      /\ t.at \in {"prefetch", "fetch"} => ~S.player.fresh /\ S.player.element \notin Audible
  BY <1>1, <1>4 DEF AnswerOK, PlayerOK, Audible
<1>6. t.at \in PlaySteps => ToPlay(S.hook, t) /\ ~HasEnded(S.player)
  BY <1>1, <1>2, <1>4 DEF MainOK, ToPlay, ShapeOK
<1>7. EndFor(S.player, t)
  BY <1>4 DEF MainOK
<1>8. PlaceIn(S) = S.hook.current
  <2>1. ~HasEnded(S.player)
    BY <1>5 DEF HasEnded, Requested
  <2> QED BY <2>1 DEF PlaceIn, PlaceOf
<1> QED BY <1>2, <1>3, <1>5, <1>6, <1>7, <1>8

(* An answer that nobody waits for. *)
LEMMA LeaveFine ==
  ASSUME NEW S, Sane(S), EndOK(S.player, S.tasks), NEW t \in S.tasks, ~Requested(t),
         NEW T, T = Without(S, t), NEW R, R = Leave(T, t)
  PROVE  Fine(S, R)
<1>1. Sane(T) /\ T.player = S.player /\ T.hook = S.hook /\ T.tasks = S.tasks \ {t} /\ t \in Task
  BY TakenGood
<1>2. Sane(R) /\ R.player = T.player /\ R.tasks = T.tasks /\ SameHook(R.hook, T.hook)
  BY <1>1, LeaveGood
<1> QED BY <1>1, <1>2, DropFine

(* The prefetch that speak waited for has ended. *)
LEMMA PrefetchSettlesFine ==
  ASSUME Healthy, NEW t \in tasks, PrefetchSettles(t)
  PROVE  Fine(Now, Then)
<1>1. PICK S : S = Now
  OBVIOUS
<1>2. PICK T : T = Take(t)
  OBVIOUS
<1>3. /\ Sane(S) /\ EndOK(S.player, S.tasks) /\ t \in S.tasks
      /\ Sane(T) /\ T.player = S.player /\ T.hook = S.hook /\ (Main(t) => NoMain(T.tasks))
  BY <1>1, <1>2, TakenUp
<1>4. t.at = "prefetch" /\ T = Without(S, t)
  BY <1>1, <1>2 DEF PrefetchSettles, Take, Without
<1>5. CASE t.req
  <2>1. PICK R : R = TakeAudio(T, t)
    OBVIOUS
  <2>2. Become(R)
    BY <1>2, <1>5, <2>1, Zenon DEF PrefetchSettles
  <2>3. Requested(t) /\ t.at \in PlaySteps
    BY <1>4, <1>5 DEF Requested, PlaySteps
  <2>4. /\ Main(t) /\ S.hook.intent /\ S.player.wants /\ S.player.focus = "narration" /\ ~S.player.fresh
        /\ S.player.element \notin Audible /\ ToPlay(S.hook, t) /\ EndFor(S.player, t) /\ PlaceIn(S) = S.hook.current
    BY <1>3, <1>4, <2>3, RequestedFacts
  <2>5. Voiced(R, S.hook.current)
    BY <1>3, <1>5, <2>1, <2>4, TakeAudioGood
  <2> QED BY <1>1, <2>2, <2>4, <2>5, LandedFine, BecomesFine
<1>6. CASE ~t.req
  <2>1. PICK R : R = Leave(T, t)
    OBVIOUS
  <2>2. Become(R)
    BY <1>2, <1>6, <2>1, Zenon DEF PrefetchSettles
  <2>3. ~Requested(t)
    BY <1>6 DEF Requested
  <2> QED BY <1>1, <1>3, <1>4, <2>1, <2>2, <2>3, LeaveFine, BecomesFine
<1> QED BY <1>5, <1>6

(* The audio has come: played if it is still wanted, dropped if not. *)
LEMMA FetchAnswersFine ==
  ASSUME Healthy, NEW t \in tasks, FetchAnswers(t)
  PROVE  Fine(Now, Then)
<1>1. PICK S : S = Now
  OBVIOUS
<1>2. PICK T : T = Take(t)
  OBVIOUS
<1>3. /\ Sane(S) /\ EndOK(S.player, S.tasks) /\ t \in S.tasks
      /\ Sane(T) /\ T.player = S.player /\ T.hook = S.hook /\ (Main(t) => NoMain(T.tasks))
  BY <1>1, <1>2, TakenUp
<1>4. t.at = "fetch" /\ T = Without(S, t)
  BY <1>1, <1>2 DEF FetchAnswers, Take, Without
<1>5. CASE t.req
  <2>1. PICK R : R = PlayAudio(T, t)
    OBVIOUS
  <2>2. Become(R)
    BY <1>2, <1>5, <2>1, Zenon DEF FetchAnswers
  <2>3. Requested(t) /\ t.at \in PlaySteps
    BY <1>4, <1>5 DEF Requested, PlaySteps
  <2>4. /\ Main(t) /\ S.hook.intent /\ S.player.wants /\ S.player.focus = "narration"
        /\ ToPlay(S.hook, t) /\ PlaceIn(S) = S.hook.current
    BY <1>3, <1>4, <2>3, RequestedFacts
  <2>5. Voiced(R, S.hook.current)
    BY <1>3, <1>5, <2>1, <2>4, PlayAudioGood DEF ToPlay
  <2> QED BY <1>1, <2>2, <2>4, <2>5, LandedFine, BecomesFine
<1>6. CASE ~t.req
  <2>1. PICK R : R = Leave(T, t)
    OBVIOUS
  <2>2. Become(R)
    BY <1>2, <1>6, <2>1, Zenon DEF FetchAnswers
  <2>3. ~Requested(t)
    BY <1>6 DEF Requested
  <2> QED BY <1>1, <1>3, <1>4, <2>1, <2>2, <2>3, LeaveFine, BecomesFine
<1> QED BY <1>5, <1>6

(* The request has failed: retried, tried as plain text or given up. *)
LEMMA FetchFailsFine ==
  ASSUME Healthy, NEW t \in tasks, FetchFails(t)
  PROVE  Fine(Now, Then)
<1>1. PICK S : S = Now
  OBVIOUS
<1>2. PICK T : T = Take(t)
  OBVIOUS
<1>3. /\ Sane(S) /\ EndOK(S.player, S.tasks) /\ t \in S.tasks
      /\ Sane(T) /\ T.player = S.player /\ T.hook = S.hook /\ (Main(t) => NoMain(T.tasks))
  BY <1>1, <1>2, TakenUp
<1>4. t.at = "fetch" /\ t.req
  BY DEF FetchFails
<1>5. PICK kind \in {"retry", "invalid", "permanent"}, cooling \in BOOLEAN :
         Become(SpeakFails([Take(t) EXCEPT !.pool = [@ EXCEPT !.cooling = cooling]], t, kind))
  BY Zenon DEF FetchFails
<1>6. PICK B : B = [Take(t) EXCEPT !.pool = [@ EXCEPT !.cooling = cooling]]
  OBVIOUS
<1>7. PICK R : R = SpeakFails(B, t, kind)
  OBVIOUS
<1>8. Become(R)
  BY <1>5, <1>6, <1>7, Zenon
<1>9. PICK q : q = [T.pool EXCEPT !.cooling = cooling]
  OBVIOUS
<1>10. StoreOK(q)
  <2>1. StoreOK(T.pool)
    BY <1>3 DEF Sane
  <2> QED BY <1>9, <2>1, CoolingOK
<1>11. B = [T EXCEPT !.pool = q]
  BY <1>2, <1>6, <1>9
<1>12. Sane(B) /\ B.player = S.player /\ B.hook = S.hook /\ B.tasks = T.tasks
  BY <1>3, <1>10, <1>11, PoolGood
<1>13. Requested(t) /\ t.at \in PlaySteps
  BY <1>4 DEF Requested, PlaySteps
<1>14. /\ Main(t) /\ S.hook.intent /\ S.player.element \notin Audible /\ ~HasEnded(S.player)
       /\ ToPlay(S.hook, t) /\ PlaceIn(S) = S.hook.current
  BY <1>3, <1>4, <1>13, RequestedFacts
<1>15. Voiced(R, S.hook.current) \/ Voiced(R, 0)
  BY <1>3, <1>7, <1>12, <1>14, SpeakFailsGood
<1> QED BY <1>1, <1>8, <1>14, <1>15, LandedFine, BecomesFine

(* audio.play() has resolved: the only step at which a sound begins with a chunk. *)
LEMMA PlayStartsFine ==
  ASSUME Healthy, NEW t \in tasks, PlayStarts(t)
  PROVE  Fine(Now, Then)
<1>1. PICK S : S = Now
  OBVIOUS
<1>2. PICK T : T = Take(t)
  OBVIOUS
<1>3. /\ Sane(S) /\ EndOK(S.player, S.tasks) /\ t \in S.tasks /\ S.player = player /\ S.hook = hook
      /\ Sane(T) /\ T.player = S.player /\ T.hook = S.hook /\ (Main(t) => NoMain(T.tasks)) /\ t \in Task
  BY <1>1, <1>2, TakenUp
<1>4. t.at = "start" /\ T = Without(S, t)
  BY <1>1, <1>2 DEF PlayStarts, Take, Without
<1>5. CASE t.req
  <2>1. PICK B : B = [Take(t) EXCEPT
                       !.player = [@ EXCEPT !.element = "sounding", !.replacing = FALSE, !.state = "playing"],
                       !.hook = [@ EXCEPT !.mark = player.chunk, !.saved = player.chunk]]
    OBVIOUS
  <2>2. PICK R : R = PlayDone(B, t)
    OBVIOUS
  <2>3. Become(R)
    BY <1>5, <2>1, <2>2, Zenon DEF PlayStarts
  <2>4. Requested(t) /\ t.at \in PlaySteps
    BY <1>4, <1>5 DEF Requested, PlaySteps
  <2>5. /\ Main(t) /\ t.live /\ S.hook.intent /\ S.player.wants /\ S.player.focus = "narration"
        /\ S.player.fresh /\ ~S.player.endEvent /\ PlaceIn(S) = S.hook.current
    BY <1>3, <1>4, <2>4, RequestedFacts
  <2>6. PICK p : p = [T.player EXCEPT !.element = "sounding", !.replacing = FALSE, !.state = "playing"]
    OBVIOUS
  <2>7. PICK h : h = [T.hook EXCEPT !.mark = player.chunk, !.saved = player.chunk]
    OBVIOUS
  <2>8. B = [T EXCEPT !.player = p, !.hook = h]
    BY <1>2, <2>1, <2>6, <2>7
  <2>9. T \in States /\ T.player \in Players /\ T.hook \in Hooks
    BY <1>3, StateFields DEF Sane
  <2>10. /\ p \in Players /\ p.element = "sounding" /\ p.wants = S.player.wants /\ p.focus = S.player.focus
         /\ p.fresh = S.player.fresh /\ p.endEvent = S.player.endEvent
    BY <1>3, <2>6, <2>9 DEF Players
  <2>11. h \in Hooks /\ SameHook(h, S.hook)
    <3>1. player.chunk \in 0 .. ChunkCount /\ player.chunk \in 0 .. ChunkCount + 1
      BY <1>3, <2>9, PlayerAssumption DEF Players
    <3> QED BY <1>3, <2>7, <2>9, <3>1 DEF Hooks, SameHook
  <2>12. PICK A : A = [T EXCEPT !.player = p]
    OBVIOUS
  <2>13. PlayerOK(p) /\ HookOK(p, T.hook)
    <3>1. HookOK(S.player, S.hook)
      BY <1>3 DEF Sane
    <3> QED BY <1>3, <2>5, <2>10, <3>1 DEF PlayerOK, HookOK
  <2>14. Sane(A) /\ A.player = p /\ A.hook = S.hook /\ A.tasks = T.tasks
    BY <1>3, <2>5, <2>10, <2>12, <2>13, AlonePlayerGood
  <2>15. B = [A EXCEPT !.hook = h]
    BY <2>8, <2>9, <2>12 DEF States
  <2>16. Sane(B) /\ B.player = p /\ B.hook = h
    BY <2>11, <2>14, <2>15, HookGood DEF SameHook
  <2>17. Sounds(B)
    BY <2>10, <2>16 DEF Sounds
  <2>18. /\ Sane(R) /\ EndOK(R.player, R.tasks) /\ R.player = B.player /\ SameHook(R.hook, B.hook) /\ ~AskedIn(R.tasks)
    BY <1>3, <2>2, <2>5, <2>16, <2>17, PlayDoneGood
  <2>19. PlaceIn(S) # 0
    BY <1>3, <2>5 DEF Sane, HookOK
  <2>20. PlaceIn(R) = PlaceIn(S) /\ Sounds(R)
    BY <2>5, <2>10, <2>11, <2>16, <2>18 DEF PlaceIn, PlaceOf, HasEnded, Sounds, SameHook
  <2>21. Fine(S, R)
    BY <2>18, <2>19, <2>20 DEF Fine, Moves
  <2> QED BY <1>1, <2>3, <2>21, BecomesFine
<1>6. CASE ~t.req
  <2>1. PICK R : R = Leave(T, t)
    OBVIOUS
  <2>2. Become(R)
    BY <1>2, <1>6, <2>1, Zenon DEF PlayStarts
  <2>3. ~Requested(t)
    BY <1>6 DEF Requested
  <2> QED BY <1>1, <1>3, <1>4, <2>1, <2>2, <2>3, LeaveFine, BecomesFine
<1> QED BY <1>5, <1>6

(* audio.play() is answered for the task whose answer counts: the element sounds, or is silent again. *)
LEMMA StartAnswered ==
  ASSUME NEW S, Sane(S), NEW t \in S.tasks, Requested(t), t.at \in {"start", "unpause"},
         NEW T, T = Without(S, t),
         NEW p \in Players, p.wants = S.player.wants, p.focus = S.player.focus, p.fresh = S.player.fresh,
         p.endEvent = S.player.endEvent, p.element # "ended",
         NEW A, A = [T EXCEPT !.player = p]
  PROVE  /\ Sane(A) /\ A.player = p /\ A.hook = S.hook /\ A.tasks = T.tasks /\ NoMain(A.tasks) /\ ~AskedIn(A.tasks)
         /\ EndOK(p, A.tasks) /\ PlaceIn(A) = PlaceIn(S) /\ PlaceIn(S) # 0
<1>1. /\ Main(t) /\ S.hook.intent /\ S.player.wants /\ S.player.focus = "narration"
      /\ S.player.fresh /\ ~S.player.endEvent /\ PlaceIn(S) = S.hook.current
  BY RequestedFacts
<1>2. Sane(T) /\ T.player = S.player /\ T.hook = S.hook /\ NoMain(T.tasks) /\ ~AskedIn(T.tasks)
  BY <1>1, TakenGood
<1>3. PlayerOK(p) /\ HookOK(p, T.hook)
  <2>1. HookOK(S.player, S.hook)
    BY DEF Sane
  <2> QED BY <1>1, <1>2, <2>1 DEF PlayerOK, HookOK
<1>4. Sane(A) /\ A.player = p /\ A.hook = S.hook /\ A.tasks = T.tasks
  BY <1>2, <1>3, AlonePlayerGood
<1>5. EndOK(p, A.tasks)
  BY <1>1 DEF EndOK
<1>6. PlaceIn(A) = PlaceIn(S) /\ PlaceIn(S) # 0
  BY <1>1, <1>4 DEF PlaceIn, PlaceOf, HasEnded, Sane, HookOK
<1> QED BY <1>2, <1>4, <1>5, <1>6

(* audio.play() has been refused. *)
LEMMA PlayRefusedFine ==
  ASSUME Healthy, NEW t \in tasks, PlayRefused(t)
  PROVE  Fine(Now, Then)
<1>1. PICK S : S = Now
  OBVIOUS
<1>2. PICK T : T = Take(t)
  OBVIOUS
<1>3. /\ Sane(S) /\ t \in S.tasks /\ Sane(T) /\ T.player = S.player /\ T.hook = S.hook
  BY <1>1, <1>2, TakenUp
<1>4. t.at = "start" /\ t.req /\ T = Without(S, t)
  BY <1>1, <1>2 DEF PlayRefused, Take, Without
<1>5. PICK e \in {"paused", "error"} :
         Become(SpeakFails([Take(t) EXCEPT !.player = [@ EXCEPT !.element = e]], t, "permanent"))
  BY Zenon DEF PlayRefused
<1>6. PICK A : A = [Take(t) EXCEPT !.player = [@ EXCEPT !.element = e]]
  OBVIOUS
<1>7. PICK R : R = SpeakFails(A, t, "permanent")
  OBVIOUS
<1>8. Become(R)
  BY <1>5, <1>6, <1>7, Zenon
<1>9. PICK p : p = [T.player EXCEPT !.element = e]
  OBVIOUS
<1>10. /\ p \in Players /\ p.wants = S.player.wants /\ p.focus = S.player.focus /\ p.fresh = S.player.fresh
       /\ p.endEvent = S.player.endEvent /\ p.element \in {"paused", "error"}
  BY <1>3, <1>5, <1>9, StateFields DEF Sane, Players
<1>11. A = [T EXCEPT !.player = p]
  BY <1>2, <1>6, <1>9
<1>12. Requested(t) /\ t.at \in PlaySteps
  BY <1>4 DEF Requested, PlaySteps
<1>13. /\ Sane(A) /\ A.player = p /\ A.hook = S.hook /\ NoMain(A.tasks)
  <2>1. p.element # "ended" /\ t.at \in {"start", "unpause"}
    BY <1>4, <1>10
  <2>2. Sane(A)
    BY <1>3, <1>4, <1>10, <1>11, <1>12, <2>1, StartAnswered
  <2>3. A.player = p /\ A.hook = T.hook
    BY <1>3, <1>11 DEF Sane, States
  <2>4. NoMain(A.tasks)
    BY <1>3, <1>4, <1>10, <1>11, <1>12, <2>1, StartAnswered
  <2> QED BY <1>3, <2>2, <2>3, <2>4
<1>14. /\ S.hook.intent /\ ToPlay(S.hook, t) /\ PlaceIn(S) = S.hook.current
  BY <1>3, <1>12, RequestedFacts
<1>15. A.player.element \notin Audible /\ ~HasEnded(A.player)
  BY <1>10, <1>13 DEF Audible, HasEnded
<1>16. Voiced(R, S.hook.current) \/ Voiced(R, 0)
  BY <1>7, <1>13, <1>14, <1>15, SpeakFailsGood
<1> QED BY <1>1, <1>8, <1>14, <1>16, LandedFine, BecomesFine

(* The back-off is over. *)
LEMMA RetryElapsesFine ==
  ASSUME Healthy, NEW t \in tasks, RetryElapses(t)
  PROVE  Fine(Now, Then)
<1>1. PICK S : S = Now
  OBVIOUS
<1>2. PICK T : T = Take(t)
  OBVIOUS
<1>3. /\ Sane(S) /\ EndOK(S.player, S.tasks) /\ t \in S.tasks /\ t \in Task /\ ShapeOK(t)
      /\ Sane(T) /\ T.player = S.player /\ T.hook = S.hook
      /\ Main(t) => NoMain(T.tasks) /\ S.hook.intent
      /\ WorkOK(S.player, S.hook, t)
  BY <1>1, <1>2, TakenUp
<1>4. t.at = "retry" /\ T = Without(S, t) /\ ~Requested(t) /\ t.at \in PlaySteps
  BY <1>1, <1>2 DEF RetryElapses, Take, Without, Requested, PlaySteps
<1>5. CASE t.live
  <2>1. PICK R : R = Speak(T, t)
    OBVIOUS
  <2>2. Become(R)
    BY <1>2, <1>5, <2>1, Zenon DEF RetryElapses
  <2>3. Main(t) /\ t.kind # "fill"
    BY <1>3, <1>4, <1>5 DEF Main, ShapeOK
  <2>4. MainOK(S.player, S.hook, t)
    BY <1>3, <2>3 DEF WorkOK
  <2>5. EndFor(S.player, t) /\ ~HasEnded(S.player) /\ ToPlay(S.hook, t)
    BY <1>3, <1>4, <1>5, <2>3, <2>4 DEF MainOK, ToPlay, ShapeOK
  <2>6. Loose(T)
    BY <1>3, <2>3, GoodLoose
  <2>7. Voiced(R, S.hook.current)
    BY <1>3, <2>1, <2>3, <2>5, <2>6, SpeakGood
  <2>8. PlaceIn(S) = S.hook.current
    BY <2>5 DEF PlaceIn, PlaceOf
  <2> QED BY <1>1, <2>2, <2>7, <2>8, LandedFine, BecomesFine
<1>6. CASE ~t.live
  <2>1. PICK R : R = Leave(T, t)
    OBVIOUS
  <2>2. Become(R)
    BY <1>2, <1>6, <2>1, Zenon DEF RetryElapses
  <2> QED BY <1>1, <1>3, <1>4, <2>1, <2>2, LeaveFine, BecomesFine
<1> QED BY <1>5, <1>6

(* The audio goes on after a pause. *)
LEMMA UnpausesFine ==
  ASSUME Healthy, NEW t \in tasks, Unpauses(t)
  PROVE  Fine(Now, Then)
<1>1. PICK S : S = Now
  OBVIOUS
<1>2. PICK T : T = Take(t)
  OBVIOUS
<1>3. /\ Sane(S) /\ EndOK(S.player, S.tasks) /\ t \in S.tasks /\ t \in Task /\ ShapeOK(t)
      /\ Sane(T) /\ T.player = S.player /\ T.hook = S.hook /\ T.tasks = S.tasks \ {t}
      /\ Main(t) => NoMain(T.tasks)
  BY <1>1, <1>2, TakenUp
<1>4. t.at = "unpause" /\ T = Without(S, t) /\ t.kind = "resume"
  BY <1>1, <1>2, <1>3 DEF Unpauses, Take, Without, ShapeOK
<1>5. SameHook(T.hook, S.hook)
  BY <1>3 DEF SameHook
<1>6. CASE t.req
  <2>1. PICK A : A = [Take(t) EXCEPT !.player = [@ EXCEPT !.element = "sounding", !.state = "playing"]]
    OBVIOUS
  <2>2. PICK R : R = AfterResume(A, t)
    OBVIOUS
  <2>3. Become(R)
    BY <1>6, <2>1, <2>2, Zenon DEF Unpauses
  <2>4. PICK p : p = [T.player EXCEPT !.element = "sounding", !.state = "playing"]
    OBVIOUS
  <2>5. /\ p \in Players /\ p.wants = S.player.wants /\ p.focus = S.player.focus /\ p.fresh = S.player.fresh
        /\ p.endEvent = S.player.endEvent /\ p.element = "sounding"
    BY <1>3, <2>4, StateFields DEF Sane, Players
  <2>6. A = [T EXCEPT !.player = p]
    BY <1>2, <2>1, <2>4
  <2>7. Requested(t)
    BY <1>4, <1>6 DEF Requested
  <2>8. /\ Sane(A) /\ A.player = p /\ A.hook = S.hook /\ ~AskedIn(A.tasks)
        /\ EndOK(A.player, A.tasks) /\ PlaceIn(A) = PlaceIn(S) /\ PlaceIn(S) # 0
    BY <1>3, <1>4, <2>5, <2>6, <2>7, StartAnswered
  <2>9. A.hook.intent
    BY <1>3, <2>7, <2>8, RequestedFacts
  <2>10. /\ Sane(R) /\ R.player = A.player /\ SameHook(R.hook, A.hook) /\ EndOK(R.player, R.tasks)
         /\ AskedIn(R.tasks) <=> AskedIn(A.tasks)
    BY <1>3, <1>4, <2>2, <2>8, <2>9, AfterResumeGood
  <2>11. PlaceIn(R) = PlaceIn(S) /\ Sounds(R)
    BY <2>5, <2>8, <2>10 DEF PlaceIn, PlaceOf, Sounds, SameHook
  <2>12. Fine(S, R)
    BY <2>8, <2>10, <2>11 DEF Fine, Moves
  <2> QED BY <1>1, <2>3, <2>12, BecomesFine
<1>7. CASE ~t.req /\ t.live
  <2>1. PICK R : R = Interrupt(T)
    OBVIOUS
  <2>2. Become(R)
    BY <1>2, <1>7, <2>1, Zenon DEF Unpauses
  <2>3. Main(t)
    BY <1>4, <1>7 DEF Main
  <2> QED BY <1>1, <1>3, <1>5, <2>1, <2>2, <2>3, InterruptFine, BecomesFine
<1>8. CASE ~t.req /\ ~t.live
  <2>1. Become(T)
    BY <1>2, <1>8, Zenon DEF Unpauses
  <2>2. ~Requested(t)
    BY <1>8 DEF Requested
  <2> QED BY <1>1, <1>3, <1>5, <2>1, <2>2, DropFine, BecomesFine
<1> QED BY <1>6, <1>7, <1>8

(* The audio cannot go on. *)
LEMMA UnpauseRefusedFine ==
  ASSUME Healthy, NEW t \in tasks, UnpauseRefused(t)
  PROVE  Fine(Now, Then)
<1>1. PICK S : S = Now
  OBVIOUS
<1>2. PICK T : T = Take(t)
  OBVIOUS
<1>3. /\ Sane(S) /\ t \in S.tasks /\ Sane(T) /\ T.player = S.player
  BY <1>1, <1>2, TakenUp
<1>4. t.at = "unpause" /\ t.req /\ T = Without(S, t)
  BY <1>1, <1>2 DEF UnpauseRefused, Take, Without
<1>5. Requested(t)
  BY <1>4 DEF Requested
<1>6. t.live
  BY <1>3, <1>5, RequestedFacts
<1>7. PICK A : A = [Take(t) EXCEPT !.player = [@ EXCEPT !.element = "paused"]]
  OBVIOUS
<1>8. PICK R : R = Interrupt(A)
  OBVIOUS
<1>9. Become(R)
  BY <1>6, <1>7, <1>8, Zenon DEF UnpauseRefused
<1>10. PICK p : p = [T.player EXCEPT !.element = "paused"]
  OBVIOUS
<1>11. /\ p \in Players /\ p.wants = S.player.wants /\ p.focus = S.player.focus /\ p.fresh = S.player.fresh
       /\ p.endEvent = S.player.endEvent /\ p.element = "paused"
  BY <1>3, <1>10, StateFields DEF Sane, Players
<1>12. A = [T EXCEPT !.player = p]
  BY <1>2, <1>7, <1>10
<1>13. Sane(A) /\ NoMain(A.tasks) /\ PlaceIn(A) = PlaceIn(S)
  BY <1>3, <1>4, <1>5, <1>11, <1>12, StartAnswered
<1>14. SameHook(A.hook, A.hook)
  BY DEF SameHook
<1>15. Voiced(R, PlaceIn(A))
  BY <1>8, <1>13, <1>14, InterruptFine
<1> QED BY <1>1, <1>9, <1>13, <1>15, LandedFine, BecomesFine

(* The advance that a resume waited for is over. *)
LEMMA ResumeAfterAdvanceFine ==
  ASSUME Healthy, NEW t \in tasks, ResumeAfterAdvance(t)
  PROVE  Fine(Now, Then)
<1>1. PICK S : S = Now
  OBVIOUS
<1>2. PICK T : T = Take(t)
  OBVIOUS
<1>3. /\ Sane(S) /\ EndOK(S.player, S.tasks) /\ t \in S.tasks /\ t \in Task /\ ShapeOK(t)
      /\ Sane(T) /\ T.player = S.player /\ T.hook = S.hook /\ T.tasks = S.tasks \ {t} /\ WorkOK(S.player, S.hook, t)
  BY <1>1, <1>2, TakenUp
<1>4. t.at = "inner" /\ t.kind = "resume" /\ ~Requested(t) /\ ~Asks(t)
  BY <1>3 DEF ResumeAfterAdvance, ShapeOK, Requested, Asks
<1>5. PICK R : R = AfterResume(T, t)
  OBVIOUS
<1>6. Become(R)
  BY <1>2, <1>5, Zenon DEF ResumeAfterAdvance
<1>7. t.live => T.hook.intent
  BY <1>3, <1>4 DEF WorkOK, SideOK
<1>8. EndOK(T.player, T.tasks) /\ (AskedIn(T.tasks) <=> AskedIn(S.tasks))
  BY <1>3, <1>4 DEF EndOK, AskedIn
<1>9. /\ Sane(R) /\ R.player = T.player /\ SameHook(R.hook, T.hook) /\ EndOK(R.player, R.tasks)
      /\ AskedIn(R.tasks) <=> AskedIn(T.tasks)
  BY <1>3, <1>4, <1>5, <1>7, <1>8, AfterResumeGood
<1>10. PlaceIn(R) = PlaceIn(S) /\ (Sounds(R) <=> Sounds(S))
  BY <1>3, <1>9 DEF PlaceIn, PlaceOf, Sounds, SameHook
<1>11. Fine(S, R)
  BY <1>8, <1>9, <1>10, SameFine
<1> QED BY <1>1, <1>6, <1>11, BecomesFine

(* The wake lock has been given or refused. *)
LEMMA LockSettlesFine ==
  ASSUME Healthy, NEW t \in tasks, LockSettles(t)
  PROVE  Fine(Now, Then)
<1>1. PICK S : S = Now
  OBVIOUS
<1>2. PICK T : T = Take(t)
  OBVIOUS
<1>3. /\ Sane(S) /\ EndOK(S.player, S.tasks) /\ t \in S.tasks
      /\ Sane(T) /\ T.player = S.player /\ T.hook = S.hook /\ T.tasks = S.tasks \ {t}
  BY <1>1, <1>2, TakenUp
<1>4. ~Requested(t) /\ Become(T)
  BY <1>2 DEF LockSettles, Requested
<1>5. SameHook(T.hook, S.hook)
  BY <1>3 DEF SameHook
<1> QED BY <1>1, <1>3, <1>4, <1>5, DropFine, BecomesFine

(* The jump goes on to its next await. *)
LEMMA JumpGoesOn ==
  ASSUME NEW S, Sane(S), NEW t \in S.tasks, Waits(t), t.kind = "jump", NEW T, T = Without(S, t),
         NEW v \in Task, ShapeOK(v), v.kind = "jump", v.live = t.live, v.at \in {"adjacent", "read"},
         NEW R, R = [T EXCEPT !.tasks = @ \cup {v}]
  PROVE  Fine(S, R)
<1>1. /\ Sane(T) /\ T.player = S.player /\ T.hook = S.hook /\ T.pool = S.pool
      /\ WorkOK(S.player, S.hook, t) /\ NoMain(T.tasks) /\ NoFill(T.tasks) /\ S.hook.intent /\ S.hook.pending = <<>>
  BY TakenGood DEF Waits
<1>2. t.live /\ MainOK(S.player, S.hook, t) /\ SeekOK(S.player, S.hook, t)
  BY <1>1 DEF Waits, Main, WorkOK, MainOK
<1>3. PICK N : N = T.tasks \cup {v}
  OBVIOUS
<1>4. T \in States /\ N \in SUBSET Task /\ StoreOK(T.pool)
  BY <1>1, <1>3, StateFields DEF Sane
<1>5. R = [T EXCEPT !.tasks = N]
  BY <1>3
<1>6. R \in States /\ R.player = S.player /\ R.hook = S.hook /\ R.pool = T.pool /\ R.tasks = N
  BY <1>1, <1>4, <1>5 DEF States
<1>7. SideOK(S.hook, v) /\ ~Fills(v) /\ Asks(v) /\ ~Requested(v)
  BY <1>1, <1>2 DEF SideOK, Fills, Requested, Asks, PlaySteps
<1>8. SeekOK(S.player, S.hook, v) /\ S.player.element # "sounding" /\ S.player.element # "starting"
  BY <1>1, <1>2 DEF SeekOK, MainOK, Audible
<1>9. EndFor(S.player, v)
  BY <1>2 DEF MainOK, EndFor
<1>10. MainOK(S.player, S.hook, v)
  BY <1>7, <1>8, <1>9 DEF MainOK, PlaySteps
<1>11. WorkOK(S.player, S.hook, v)
  BY <1>7, <1>10 DEF WorkOK
<1>12. Sane(R)
  BY <1>1, <1>3, <1>4, <1>6, <1>7, <1>11, AddMain
<1>13. ~(S.player.endEvent /\ S.player.state = "playing")
  BY <1>2 DEF MainOK, EndFor
<1>14. EndOK(R.player, R.tasks)
  BY <1>6, <1>13 DEF EndOK
<1>15. AskedIn(R.tasks)
  BY <1>3, <1>6, <1>7 DEF AskedIn
<1>16. PlaceIn(R) = PlaceIn(S) /\ ~Sounds(R)
  BY <1>6, <1>8 DEF PlaceIn, PlaceOf, Sounds
<1> QED BY <1>12, <1>14, <1>15, <1>16 DEF Fine, Moves

(* The jump back has looked for a sentence before the source's first. *)
LEMMA JumpPreviousFine ==
  ASSUME Healthy, NEW t \in tasks, JumpPrevious(t)
  PROVE  Fine(Now, Then)
<1>1. PICK S : S = Now
  OBVIOUS
<1>2. PICK T : T = Take(t)
  OBVIOUS
<1>3. /\ Sane(S) /\ EndOK(S.player, S.tasks) /\ t \in S.tasks /\ S.hook = hook
      /\ Sane(T) /\ T.player = S.player /\ T.hook = S.hook /\ T.tasks = S.tasks \ {t} /\ t \in Task /\ ShapeOK(t)
  BY <1>1, <1>2, TakenUp
<1>4. t.kind = "jump" /\ t.at = "previous" /\ ~Requested(t) /\ T = Without(S, t)
  BY <1>1, <1>2, <1>3 DEF JumpPrevious, Requested, ShapeOK, Take, Without
<1>5. CASE ~t.live
  <2>1. Become(T)
    BY <1>2, <1>5, Zenon DEF JumpPrevious
  <2>2. SameHook(T.hook, S.hook)
    BY <1>3 DEF SameHook
  <2> QED BY <1>1, <1>3, <1>4, <2>1, <2>2, DropFine, BecomesFine
<1>6. CASE t.live /\ hook.mark > 1
  <2>1. PICK c : c = hook.mark - 1
    OBVIOUS
  <2>2. PICK R : R = Begin(T, c)
    OBVIOUS
  <2>3. Become(R)
    BY <1>2, <1>6, <2>1, <2>2, Zenon DEF JumpPrevious
  <2>4. c \in 1 .. ChunkCount + 1
    <3>1. hook.mark \in 0 .. ChunkCount
      BY <1>3, StateFields DEF Sane, Hooks
    <3> QED BY <1>6, <2>1, <3>1, PlayerAssumption
  <2>5. Fine(S, R)
    BY <1>3, <2>2, <2>4, BeginGood DEF Fine, Moves, PlaceIn, Sounds
  <2> QED BY <1>1, <2>3, <2>5, BecomesFine
<1>7. CASE t.live /\ ~(hook.mark > 1)
  <2>1. PICK v : v = [t EXCEPT !.at = "adjacent"]
    OBVIOUS
  <2>2. PICK R : R = [T EXCEPT !.tasks = @ \cup {v}]
    OBVIOUS
  <2>3. Become(R)
    BY <1>2, <1>7, <2>1, <2>2, Zenon DEF JumpPrevious
  <2>4. v \in Task /\ v.kind = "jump" /\ v.live = t.live /\ v.at = "adjacent"
    BY <1>3, <1>4, <2>1 DEF Task
  <2>5. ShapeOK(v)
    BY <2>4 DEF ShapeOK, PlaySteps
  <2>6. Waits(t)
    BY <1>4, <1>7 DEF Waits, Main, SeekSteps
  <2>7. Fine(S, R)
    BY <1>3, <1>4, <2>2, <2>4, <2>5, <2>6, JumpGoesOn
  <2> QED BY <1>1, <2>3, <2>7, BecomesFine
<1> QED BY <1>5, <1>6, <1>7

(* The jump knows its target. *)
LEMMA JumpAdjacentFine ==
  ASSUME Healthy, NEW t \in tasks, JumpAdjacent(t)
  PROVE  Fine(Now, Then)
<1>1. PICK S : S = Now
  OBVIOUS
<1>2. PICK T : T = Take(t)
  OBVIOUS
<1>3. /\ Sane(S) /\ EndOK(S.player, S.tasks) /\ t \in S.tasks /\ S.hook = hook /\ WorkOK(S.player, S.hook, t)
      /\ Sane(T) /\ T.player = S.player /\ T.hook = S.hook /\ T.tasks = S.tasks \ {t} /\ t \in Task /\ ShapeOK(t)
  BY <1>1, <1>2, TakenUp
<1>4. t.kind = "jump" /\ t.at = "adjacent" /\ ~Requested(t) /\ T = Without(S, t)
  BY <1>1, <1>2, <1>3 DEF JumpAdjacent, Requested, ShapeOK, Take, Without
<1>5. PICK index : index = IF hook.mark # 0 THEN hook.mark ELSE hook.current
  OBVIOUS
<1>6. PICK target : target = IF ~t.back THEN index + 1 ELSE IF index > hook.base THEN index - 1 ELSE index
  OBVIOUS
<1>7. Become(IF ~t.live THEN T
             ELSE IF target > hook.end /\ ~t.back THEN Stop(T)
             ELSE [T EXCEPT !.tasks = @ \cup {[t EXCEPT !.at = "read", !.chunk = target]}])
  BY <1>2, <1>5, <1>6, Zenon DEF JumpAdjacent
<1>8. CASE ~t.live
  <2>1. Become(T)
    BY <1>7, <1>8, Zenon
  <2>2. SameHook(T.hook, S.hook)
    BY <1>3 DEF SameHook
  <2> QED BY <1>1, <1>3, <1>4, <2>1, <2>2, DropFine, BecomesFine
<1>9. CASE t.live /\ target > hook.end /\ ~t.back
  <2>1. PICK R : R = Stop(T)
    OBVIOUS
  <2>2. Become(R)
    BY <1>7, <1>9, <2>1, Zenon
  <2> QED BY <1>1, <1>3, <2>1, <2>2, StopOfGood, LandedFine, BecomesFine
<1>10. CASE t.live /\ ~(target > hook.end /\ ~t.back)
  <2>1. Waits(t) /\ Main(t) /\ t.at \in SeekSteps
    BY <1>4, <1>10 DEF Waits, Main, SeekSteps
  <2>2. hook.base # 0 /\ hook.current # 0
    BY <1>3, <1>4, <2>1 DEF WorkOK, MainOK, SeekOK
  <2>3. /\ hook.mark \in 0 .. ChunkCount /\ hook.current \in 0 .. ChunkCount /\ hook.end \in 0 .. ChunkCount
        /\ hook.base \in 0 .. ChunkCount + 1 /\ ChunkCount \in Nat
    BY <1>3, StateFields, PlayerAssumption DEF Sane, Hooks
  <2>4. index \in 1 .. ChunkCount
    BY <1>5, <2>2, <2>3
  <2>5. target \in Chunks
    <3>1. CASE t.back
      BY <1>6, <2>2, <2>3, <2>4, <3>1 DEF Chunks
    <3>2. CASE ~t.back
      BY <1>6, <1>10, <2>3, <2>4, <3>2 DEF Chunks
    <3> QED BY <3>1, <3>2
  <2>6. PICK v : v = [t EXCEPT !.at = "read", !.chunk = target]
    OBVIOUS
  <2>7. PICK R : R = [T EXCEPT !.tasks = @ \cup {v}]
    OBVIOUS
  <2>8. Become(R)
    BY <1>7, <1>10, <2>6, <2>7, Zenon
  <2>9. v \in Task /\ v.kind = "jump" /\ v.live = t.live /\ v.at = "read" /\ v.chunk = target
    <3>1. target \in 0 .. ChunkCount + 1
      BY <2>3, <2>5 DEF Chunks
    <3> QED BY <1>3, <1>4, <2>6, <3>1 DEF Task
  <2>10. ShapeOK(v)
    <3>1. target # 0
      BY <2>5 DEF Chunks
    <3> QED BY <2>5, <2>9, <3>1 DEF ShapeOK, PlaySteps
  <2>11. Fine(S, R)
    BY <1>3, <1>4, <2>1, <2>7, <2>9, <2>10, JumpGoesOn
  <2> QED BY <1>1, <2>8, <2>11, BecomesFine
<1> QED BY <1>8, <1>9, <1>10

-----------------------------------------------------------------------------
(* Nothing but the pool or the player changes. *)
LEMMA NowHealthy ==
  ASSUME Healthy, NEW S, S = Now
  PROVE  /\ Sane(S) /\ EndOK(S.player, S.tasks) /\ S \in States /\ S.player \in Players /\ S.hook \in Hooks
         /\ S.player = player /\ S.hook = hook /\ S.tasks = tasks /\ S.pool = pool
         /\ PlayerOK(S.player) /\ HookOK(S.player, S.hook)
<1>1. S.player = player /\ S.hook = hook /\ S.tasks = tasks /\ S.pool = pool
  BY NowFields
<1>2. Sane(S) /\ EndOK(S.player, S.tasks)
  BY <1>1 DEF Healthy
<1> QED BY <1>1, <1>2, StateFields DEF Sane

(* A step of the player alone. *)
LEMMA ThenPlayer ==
  ASSUME NEW S \in States, S = Now, NEW p \in Players, p = player', UNCHANGED <<hook, tasks, pool>>
  PROVE  Then = [S EXCEPT !.player = p]
<1>1. S.player = player /\ S.hook = hook /\ S.tasks = tasks /\ S.pool = pool
  BY NowFields
<1> QED BY <1>1 DEF Then, States

(* A step of the hook alone. *)
LEMMA ThenHook ==
  ASSUME NEW S \in States, S = Now, NEW h \in Hooks, h = hook', UNCHANGED <<player, tasks, pool>>
  PROVE  Then = [S EXCEPT !.hook = h]
<1>1. S.player = player /\ S.hook = hook /\ S.tasks = tasks /\ S.pool = pool
  BY NowFields
<1> QED BY <1>1 DEF Then, States

(* A step of the pool alone. *)
LEMMA ThenPool ==
  ASSUME NEW S \in States, S = Now, NEW q \in Stores, q = pool', UNCHANGED <<player, tasks, hook>>
  PROVE  Then = [S EXCEPT !.pool = q]
<1>1. S.player = player /\ S.hook = hook /\ S.tasks = tasks /\ S.pool = pool
  BY NowFields
<1> QED BY <1>1 DEF Then, States

(***************************************************************************)
(* The events of the media element                                         *)
(***************************************************************************)

(* The onplay event, which may come before play() resolves. *)
LEMMA OnPlayFine ==
  ASSUME Healthy, OnPlay
  PROVE  Fine(Now, Then)
<1>1. PICK S : S = Now
  OBVIOUS
<1>2. /\ Sane(S) /\ EndOK(S.player, S.tasks) /\ S \in States /\ S.player \in Players /\ S.hook \in Hooks
      /\ S.player = player /\ S.hook = hook /\ PlayerOK(S.player)
  BY <1>1, NowHealthy
<1>3. PICK p : p = [S.player EXCEPT !.replacing = FALSE, !.state = "playing"]
  OBVIOUS
<1>4. /\ p \in Players /\ p.wants = S.player.wants /\ p.fresh = S.player.fresh /\ p.element = S.player.element
      /\ p.focus = S.player.focus /\ p.endEvent = S.player.endEvent
  BY <1>2, <1>3 DEF Players
<1>5. ~S.player.endEvent
  BY <1>2 DEF OnPlay, PlayerOK
<1>6. PICK A : A = [S EXCEPT !.player = p]
  OBVIOUS
<1>7. /\ Sane(A) /\ A.player = p /\ A.hook = S.hook /\ A.tasks = S.tasks
      /\ PlaceIn(A) = PlaceIn(S) /\ (Sounds(A) <=> Sounds(S)) /\ EndOK(A.player, A.tasks)
  BY <1>2, <1>4, <1>5, <1>6, PlayerGood
<1>8. PICK h : h = [S.hook EXCEPT !.mark = player.chunk, !.saved = player.chunk]
  OBVIOUS
<1>9. h \in Hooks /\ SameHook(h, S.hook)
  <2>1. player.chunk \in 0 .. ChunkCount /\ player.chunk \in 0 .. ChunkCount + 1
    BY <1>2, PlayerAssumption DEF Players
  <2> QED BY <1>2, <1>8, <2>1 DEF Hooks, SameHook
<1>10. PICK R : R = [Now EXCEPT !.player = [@ EXCEPT !.replacing = FALSE, !.state = "playing"],
                                !.hook = [@ EXCEPT !.mark = player.chunk, !.saved = player.chunk]]
  OBVIOUS
<1>11. Become(R)
  BY <1>10, Zenon DEF OnPlay
<1>12. R = [S EXCEPT !.player = p, !.hook = h]
  BY <1>1, <1>3, <1>8, <1>10
<1>13. R = [A EXCEPT !.hook = h]
  BY <1>2, <1>6, <1>12 DEF States
<1>14. Sane(R) /\ R.player = A.player /\ R.hook = h /\ R.tasks = A.tasks
  BY <1>7, <1>9, <1>13, HookGood DEF SameHook
<1>15. PlaceIn(R) = PlaceIn(S) /\ (Sounds(R) <=> Sounds(S)) /\ EndOK(R.player, R.tasks)
       /\ (AskedIn(R.tasks) <=> AskedIn(S.tasks))
  BY <1>7, <1>9, <1>14 DEF PlaceIn, PlaceOf, Sounds, SameHook
<1>16. Fine(S, R)
  BY <1>14, <1>15, SameFine
<1> QED BY <1>1, <1>11, <1>16, BecomesFine

(* An element that starts with nobody to await it has no task to play, as one that sounds has none. *)
LEMMA StartsAlonely ==
  ASSUME NEW S, Sane(S), S.player.element \in Audible,
         S.player.element = "starting" => ~\E t \in S.tasks : t.req /\ t.at \in {"start", "unpause"}
  PROVE  /\ NoMain(S.tasks) /\ ~AskedIn(S.tasks) /\ S.hook.current # 0 /\ PlaceIn(S) = S.hook.current
         /\ S.player.fresh /\ S.player.wants /\ S.player.focus = "narration" /\ S.hook.intent /\ ~S.player.endEvent
<1>1. NoMain(S.tasks)
  BY DEF Sane, WorkOK, MainOK, NoMain, Audible
<1>2. ~AskedIn(S.tasks)
  BY <1>1, AskedIsMain, RestElim
<1>3. PlayerOK(S.player) /\ HookOK(S.player, S.hook) /\ S.player.element # "ended"
  BY DEF Sane, Audible
<1>4. S.player.fresh /\ S.player.wants /\ S.player.focus = "narration" /\ S.hook.intent /\ ~S.player.endEvent
  BY <1>3 DEF PlayerOK, HookOK
<1>5. S.hook.current # 0 /\ PlaceIn(S) = S.hook.current
  BY <1>3, <1>4 DEF HookOK, PlaceIn, PlaceOf, HasEnded
<1> QED BY <1>1, <1>2, <1>4, <1>5

(* The element starts to sound although nobody waits for it: a resume took the place of who did. *)
LEMMA PlaysOnFine ==
  ASSUME Healthy, PlaysOn
  PROVE  Fine(Now, Then)
<1>1. PICK S : S = Now
  OBVIOUS
<1>2. /\ Sane(S) /\ EndOK(S.player, S.tasks) /\ S \in States /\ S.player \in Players /\ S.hook \in Hooks
      /\ S.player = player /\ S.hook = hook /\ S.tasks = tasks /\ PlayerOK(S.player) /\ HookOK(S.player, S.hook)
  BY <1>1, NowHealthy
<1>3. S.player.element = "starting" /\ ~\E t \in S.tasks : t.req /\ t.at \in {"start", "unpause"}
  BY <1>2 DEF PlaysOn, StartsAlone
<1>4. /\ NoMain(S.tasks) /\ ~AskedIn(S.tasks) /\ S.hook.current # 0 /\ PlaceIn(S) = S.hook.current
      /\ S.player.fresh /\ S.player.wants /\ S.player.focus = "narration" /\ S.hook.intent /\ ~S.player.endEvent
  <2>1. S.player.element \in Audible
    BY <1>3 DEF Audible
  <2> QED BY <1>2, <1>3, <2>1, StartsAlonely
<1>5. PICK p : p = [S.player EXCEPT !.element = "sounding", !.replacing = FALSE, !.state = "playing"]
  OBVIOUS
<1>6. /\ p \in Players /\ p.wants = S.player.wants /\ p.fresh = S.player.fresh /\ p.element = "sounding"
      /\ p.focus = S.player.focus /\ p.endEvent = S.player.endEvent
  BY <1>2, <1>5 DEF Players
<1>7. PlayerOK(p) /\ HookOK(p, S.hook)
  BY <1>2, <1>4, <1>6 DEF PlayerOK, HookOK
<1>8. PICK A : A = [S EXCEPT !.player = p]
  OBVIOUS
<1>9. Sane(A) /\ A.player = p /\ A.hook = S.hook /\ A.tasks = S.tasks
  BY <1>2, <1>4, <1>6, <1>7, <1>8, AlonePlayerGood
<1>10. PICK h : h = [S.hook EXCEPT !.mark = player.chunk, !.saved = player.chunk]
  OBVIOUS
<1>11. h \in Hooks /\ SameHook(h, S.hook)
  <2>1. player.chunk \in 0 .. ChunkCount /\ player.chunk \in 0 .. ChunkCount + 1
    BY <1>2, PlayerAssumption DEF Players
  <2> QED BY <1>2, <1>10, <2>1 DEF Hooks, SameHook
<1>12. PICK R : R = [Now EXCEPT !.player = [@ EXCEPT !.element = "sounding", !.replacing = FALSE, !.state = "playing"],
                                !.hook = [@ EXCEPT !.mark = player.chunk, !.saved = player.chunk]]
  OBVIOUS
<1>13. Become(R)
  BY <1>12, Zenon DEF PlaysOn
<1>14. R = [S EXCEPT !.player = p, !.hook = h]
  BY <1>1, <1>5, <1>10, <1>12
<1>15. R = [A EXCEPT !.hook = h]
  BY <1>2, <1>8, <1>14 DEF States
<1>16. Sane(R) /\ R.player = p /\ R.hook = h /\ R.tasks = S.tasks
  BY <1>9, <1>11, <1>15, HookGood DEF SameHook
<1>17. EndOK(R.player, R.tasks) /\ Sounds(R) /\ ~AskedIn(R.tasks)
  BY <1>4, <1>6, <1>16 DEF EndOK, Sounds
<1>18. PlaceIn(R) = PlaceIn(S)
  BY <1>4, <1>6, <1>11, <1>16 DEF PlaceIn, PlaceOf, HasEnded, SameHook
<1>19. Fine(S, R)
  BY <1>4, <1>16, <1>17, <1>18 DEF Fine, Moves
<1> QED BY <1>1, <1>13, <1>19, BecomesFine

(* The element falls silent by itself: it has ended, failed, or been paused by the system. *)
LEMMA FallsSilent ==
  ASSUME Healthy, player.element = "sounding" \/ StartsAlone, NEW p, p = player', p \in Players,
         p.wants = player.wants, p.focus = player.focus, p.fresh = player.fresh,
         p.element \in {"ended", "paused", "error"}, p.endEvent => p.element = "ended",
         p.element = "ended" => player.element = "sounding",
         UNCHANGED <<hook, tasks, pool>>
  PROVE  Fine(Now, Then)
<1>1. PICK S : S = Now
  OBVIOUS
<1>2. /\ Sane(S) /\ S \in States /\ S.player = player /\ S.hook = hook /\ S.tasks = tasks /\ HookOK(S.player, S.hook)
  BY <1>1, NowHealthy
<1>4. /\ NoMain(S.tasks) /\ ~AskedIn(S.tasks) /\ S.hook.current # 0 /\ PlaceIn(S) = S.hook.current
      /\ S.player.fresh
  <2>1. /\ S.player.element \in Audible
        /\ S.player.element = "starting" => ~\E t \in S.tasks : t.req /\ t.at \in {"start", "unpause"}
    BY <1>2 DEF Audible, StartsAlone
  <2> QED BY <1>2, <2>1, StartsAlonely
<1>5. PlayerOK(p) /\ HookOK(p, S.hook)
  BY <1>2, <1>4 DEF PlayerOK, HookOK, Audible
<1>6. PICK R : R = [S EXCEPT !.player = p]
  OBVIOUS
<1>7. Then = R
  BY <1>1, <1>2, <1>6, ThenPlayer
<1>8. Sane(R) /\ R.player = p /\ R.hook = S.hook /\ R.tasks = S.tasks
  BY <1>2, <1>4, <1>5, <1>6, AlonePlayerGood
<1>9. EndOK(R.player, R.tasks)
  BY <1>2, <1>4, <1>8 DEF EndOK
<1>10. ~Sounds(R) /\ ~AskedIn(R.tasks) /\ (p.element = "ended" => Sounds(S))
  BY <1>2, <1>4, <1>8 DEF Sounds
<1>11. PlaceIn(R) = IF p.element = "ended" THEN PlaceIn(S) + 1 ELSE PlaceIn(S)
  BY <1>2, <1>4, <1>8 DEF PlaceIn, PlaceOf, HasEnded
<1>12. Fine(S, R)
  BY <1>4, <1>8, <1>9, <1>10, <1>11 DEF Fine, Moves
<1> QED BY <1>1, <1>7, <1>12

(* The element ends, fails or is paused by the system. *)
LEMMA SilencesFine ==
  ASSUME Healthy, AudioEnds \/ OnError \/ SystemPauses
  PROVE  Fine(Now, Then)
<1>0. PICK S : S = Now
  OBVIOUS
<1>1. player \in Players /\ PlayerOK(player)
  BY <1>0, NowHealthy
<1>2. (player.element = "sounding" \/ StartsAlone) /\ UNCHANGED <<hook, tasks, pool>>
  BY DEF AudioEnds, OnError, SystemPauses
<1>3. PICK p : p = player'
  OBVIOUS
<1>4. \/ player.element = "sounding" /\ p = [player EXCEPT !.element = "ended", !.endEvent = TRUE]
      \/ p = [player EXCEPT !.element = "error", !.replacing = FALSE, !.state = "paused"]
      \/ p = [player EXCEPT !.element = "paused"]
  BY <1>3 DEF AudioEnds, OnError, SystemPauses
<1>5. ~player.endEvent
  BY <1>1, <1>2 DEF PlayerOK, StartsAlone
<1>6. /\ p \in Players /\ p.wants = player.wants /\ p.focus = player.focus /\ p.fresh = player.fresh
      /\ p.element \in {"ended", "paused", "error"} /\ (p.element = "ended" => player.element = "sounding")
  BY <1>1, <1>4 DEF Players
<1>7. p.endEvent => p.element = "ended"
  BY <1>1, <1>4, <1>5 DEF Players
<1> QED BY <1>2, <1>3, <1>6, <1>7, FallsSilent

(* The pause event of a pause the system made. *)
LEMMA OnPauseFine ==
  ASSUME Healthy, OnPause
  PROVE  Fine(Now, Then)
<1>1. PICK S : S = Now
  OBVIOUS
<1>2. /\ Sane(S) /\ EndOK(S.player, S.tasks) /\ S \in States /\ S.player \in Players /\ S.player = player
  BY <1>1, NowHealthy
<1>3. PICK p : p = [player EXCEPT !.state = "paused"]
  OBVIOUS
<1>4. /\ p \in Players /\ p.wants = S.player.wants /\ p.fresh = S.player.fresh /\ p.element = S.player.element
      /\ p.focus = S.player.focus /\ p.endEvent = S.player.endEvent /\ p.state = "paused"
  BY <1>2, <1>3 DEF Players
<1>5. PICK R : R = [S EXCEPT !.player = p]
  OBVIOUS
<1>6. Then = R
  BY <1>1, <1>2, <1>3, <1>4, <1>5, ThenPlayer DEF OnPause
<1>7. /\ Sane(R) /\ R.tasks = S.tasks /\ PlaceIn(R) = PlaceIn(S) /\ (Sounds(R) <=> Sounds(S)) /\ EndOK(R.player, R.tasks)
  BY <1>2, <1>4, <1>5, PlayerGood
<1>8. Fine(S, R)
  BY <1>7, SameFine
<1> QED BY <1>1, <1>6, <1>8

(* The ended event: the narration moves on once, or somebody already moves it on. *)
LEMMA OnEndedFine ==
  ASSUME Healthy, OnEnded
  PROVE  Fine(Now, Then)
<1>1. PICK S : S = Now
  OBVIOUS
<1>2. /\ Sane(S) /\ EndOK(S.player, S.tasks) /\ S \in States /\ S.player \in Players /\ S.player = player
      /\ PlayerOK(S.player)
  BY <1>1, NowHealthy
<1>3. PICK p : p = [S.player EXCEPT !.endEvent = FALSE, !.triggered = FALSE]
  OBVIOUS
<1>4. /\ p \in Players /\ p.wants = S.player.wants /\ p.fresh = S.player.fresh /\ p.element = S.player.element
      /\ p.focus = S.player.focus /\ ~p.endEvent
  BY <1>2, <1>3 DEF Players
<1>5. PICK E : E = [Now EXCEPT !.player = [@ EXCEPT !.endEvent = FALSE, !.triggered = FALSE]]
  OBVIOUS
<1>6. E = [S EXCEPT !.player = p]
  BY <1>1, <1>3, <1>5
<1>7. /\ Sane(E) /\ E.player = p /\ E.hook = S.hook /\ E.tasks = S.tasks
      /\ PlaceIn(E) = PlaceIn(S) /\ (Sounds(E) <=> Sounds(S)) /\ EndOK(E.player, E.tasks)
  BY <1>2, <1>4, <1>6, PlayerGood
<1>8. Fine(S, E)
  BY <1>7, SameFine
<1>9. CASE player.state = "playing"
  <2>1. PICK R : R = Advance(E, FALSE)
    OBVIOUS
  <2>2. Become(R)
    BY <1>5, <1>9, <2>1, Zenon DEF OnEnded
  <2>3. player.endEvent /\ player.element = "ended"
    BY <1>2 DEF OnEnded, PlayerOK
  <2>4. Advancing(E.tasks) \/ (HasEnded(E.player) /\ NoMain(E.tasks))
    <3>1. ASSUME NEW t \in S.tasks, Main(t) PROVE Advancing(S.tasks)
      <4>1. WorkOK(S.player, S.hook, t)
        BY <1>2 DEF Sane
      <4>2. t.kind = "advance" /\ t.holds
        BY <1>2, <1>9, <2>3, <3>1, <4>1 DEF WorkOK, MainOK, EndFor
      <4> QED BY <4>2 DEF Advancing
    <3>2. CASE player.fresh
      <4>1. HasEnded(E.player)
        BY <1>2, <1>4, <1>7, <2>3, <3>2 DEF HasEnded
      <4> QED BY <1>7, <3>1, <4>1 DEF NoMain
    <3>3. CASE ~player.fresh
      <4>1. \E t \in S.tasks : Requested(t) /\ t.kind = "advance" /\ t.holds
        BY <1>2, <1>9, <2>3, <3>3 DEF EndOK
      <4> QED BY <1>7, <4>1 DEF Advancing
    <3> QED BY <3>2, <3>3
  <2>5. R = E \/ Voiced(R, E.hook.current + 1) \/ Voiced(R, 0)
    BY <1>7, <2>1, <2>4, AdvanceGood
  <2>6. CASE R = E
    BY <1>1, <1>8, <2>2, <2>6, BecomesFine
  <2>7. CASE R # E
    <3>1. ~Advancing(E.tasks) \/ R = E
      BY <2>1 DEF Advance
    <3>2. HasEnded(S.player)
      BY <1>4, <1>7, <2>4, <2>7, <3>1 DEF HasEnded
    <3>3. PlaceIn(S) = E.hook.current + 1
      BY <1>7, <3>2 DEF PlaceIn, PlaceOf
    <3> QED BY <1>1, <2>2, <2>5, <2>7, <3>3, LandedFine, BecomesFine
  <2> QED BY <2>6, <2>7
<1>10. CASE player.state # "playing"
  <2>1. Become(E)
    BY <1>5, <1>10, Zenon DEF OnEnded
  <2> QED BY <1>1, <1>8, <2>1, BecomesFine
<1> QED BY <1>9, <1>10

(* The time goes on: the sleep timer, and the prefetch near the end. *)
LEMMA OnTimeUpdateFine ==
  ASSUME Healthy, OnTimeUpdate
  PROVE  Fine(Now, Then)
<1>1. PICK S : S = Now
  OBVIOUS
<1>2. /\ Sane(S) /\ EndOK(S.player, S.tasks) /\ S \in States /\ S.player \in Players /\ S.player = player
  BY <1>1, NowHealthy
<1>3. CASE hook.sleep = "due"
  <2>1. PICK R : R = Stop(S)
    OBVIOUS
  <2>2. Become(R)
    BY <1>1, <1>3, <2>1, Zenon DEF OnTimeUpdate
  <2> QED BY <1>1, <1>2, <2>1, <2>2, StopOfGood, LandedFine, BecomesFine
<1>4. CASE hook.sleep # "due"
  <2>1. PICK A : A = [Now EXCEPT !.player = [@ EXCEPT !.triggered = TRUE]]
    OBVIOUS
  <2>2. PICK R : R = PreloadBuffer(A)
    OBVIOUS
  <2>3. Become(R)
    BY <1>4, <2>1, <2>2, Zenon DEF OnTimeUpdate
  <2>4. PICK p : p = [S.player EXCEPT !.triggered = TRUE]
    OBVIOUS
  <2>5. /\ p \in Players /\ p.wants = S.player.wants /\ p.fresh = S.player.fresh /\ p.element = S.player.element
        /\ p.focus = S.player.focus /\ p.endEvent = S.player.endEvent /\ p.state = S.player.state
    BY <1>2, <2>4 DEF Players
  <2>6. A = [S EXCEPT !.player = p]
    BY <1>1, <2>1, <2>4
  <2>7. /\ Sane(A) /\ A.player = p /\ A.hook = S.hook /\ A.tasks = S.tasks
        /\ PlaceIn(A) = PlaceIn(S) /\ (Sounds(A) <=> Sounds(S)) /\ EndOK(A.player, A.tasks)
    BY <1>2, <2>5, <2>6, PlayerGood
  <2>8. Sounds(S)
    BY <1>2 DEF OnTimeUpdate, Sounds
  <2>9. \A u \in A.tasks : ~Waits(u)
    BY <1>2, <2>7, <2>8, SoundsAlone DEF NoMain, Waits
  <2>10. /\ Sane(R) /\ R.player = A.player /\ R.hook = A.hook /\ EndOK(R.player, R.tasks)
         /\ AskedIn(R.tasks) <=> AskedIn(A.tasks)
    BY <2>2, <2>7, <2>9, PreloadBufferGood
  <2>11. PlaceIn(R) = PlaceIn(S) /\ (Sounds(R) <=> Sounds(S)) /\ (AskedIn(R.tasks) <=> AskedIn(S.tasks))
    BY <2>7, <2>10 DEF PlaceIn, Sounds
  <2>12. Fine(S, R)
    BY <2>10, <2>11, SameFine
  <2> QED BY <1>1, <2>3, <2>12, BecomesFine
<1> QED BY <1>3, <1>4

(***************************************************************************)
(* The page and the user                                                   *)
(***************************************************************************)

(* A start has been asked for. *)
LEMMA AskFine ==
  ASSUME NEW S, NEW R, Sane(R), EndOK(R.player, R.tasks), PlaceIn(R) \in {0, PlaceIn(S)}, ~Sounds(R), AskedIn(R.tasks)
  PROVE  Fine(S, R)
BY DEF Fine, Moves

(* What is stored of the session is not seen from outside. *)
LEMMA FlushedFine ==
  ASSUME NEW S, Sane(S), NEW F, F = FlushSession(S), NEW R, Fine(F, R)
  PROVE  Fine(S, R)
<1>1. F.player = S.player /\ F.tasks = S.tasks /\ SameHook(F.hook, S.hook)
  BY FlushGood
<1>2. PlaceIn(F) = PlaceIn(S) /\ (Sounds(F) <=> Sounds(S)) /\ (AskedIn(F.tasks) <=> AskedIn(S.tasks))
  BY <1>1 DEF PlaceIn, PlaceOf, Sounds, SameHook
<1> QED BY <1>2 DEF Fine, Moves

(* The audio focus goes from one owner to another, neither the narration. *)
LEMMA FocusGood ==
  ASSUME NEW S, Sane(S), EndOK(S.player, S.tasks), S.player.focus # "narration",
         NEW p \in Players, p.wants = S.player.wants, p.fresh = S.player.fresh, p.element = S.player.element,
         p.endEvent = S.player.endEvent, p.state = S.player.state, NEW R, R = [S EXCEPT !.player = p]
  PROVE  /\ Sane(R) /\ EndOK(R.player, R.tasks) /\ R.tasks = S.tasks
         /\ PlaceIn(R) = PlaceIn(S) /\ (Sounds(R) <=> Sounds(S))
<1>1. S \in States /\ S.player \in Players /\ PlayerOK(S.player) /\ HookOK(S.player, S.hook)
  BY StateFields DEF Sane
<1>2. /\ p \in Players /\ p.wants = S.player.wants /\ p.fresh = S.player.fresh /\ p.element = S.player.element
      /\ p.endEvent = S.player.endEvent /\ p.state = S.player.state
  OBVIOUS
<1>3. R \in States /\ R.player = p /\ R.hook = S.hook /\ R.pool = S.pool /\ R.tasks = S.tasks
  BY <1>1, <1>2 DEF States
<1>4. S.player.element \notin Audible
  BY <1>1 DEF PlayerOK
<1>5. PlayerOK(p) /\ HookOK(p, S.hook)
  BY <1>1, <1>2, <1>4 DEF PlayerOK, HookOK
<1>6. HasEnded(p) <=> HasEnded(S.player)
  BY <1>2 DEF HasEnded
<1>7. ASSUME NEW t \in S.tasks PROVE WorkOK(p, S.hook, t)
  <2>1. WorkOK(S.player, S.hook, t)
    BY DEF Sane
  <2>2. ~Requested(t)
    BY RequestedFacts
  <2>3. SeekOK(S.player, S.hook, t) => SeekOK(p, S.hook, t)
    BY <1>2, <1>6 DEF SeekOK
  <2>4. EndFor(S.player, t) => EndFor(p, t)
    BY <1>2 DEF EndFor
  <2> QED BY <1>2, <1>6, <2>1, <2>2, <2>3, <2>4 DEF WorkOK, MainOK
<1>8. Sane(R)
  BY <1>3, <1>5, <1>7 DEF Sane
<1>9. EndOK(R.player, R.tasks)
  BY <1>2, <1>3 DEF EndOK
<1>10. PlaceIn(R) = PlaceIn(S)
  BY <1>3, <1>6 DEF PlaceIn, PlaceOf
<1>11. Sounds(R) <=> Sounds(S)
  BY <1>2, <1>3 DEF Sounds
<1> QED BY <1>3, <1>8, <1>9, <1>10, <1>11

(* The page comes back to the foreground. *)
LEMMA ForegroundResumeFine ==
  ASSUME Healthy, ForegroundResume
  PROVE  Fine(Now, Then)
<1>1. PICK S : S = Now
  OBVIOUS
<1>2. Sane(S) /\ EndOK(S.player, S.tasks)
  BY <1>1, NowHealthy
<1>3. PICK written \in BOOLEAN :
        Become(IF hook.sleep = "due" THEN Stop(S)
               ELSE Resume(IF written THEN FlushSession(S) ELSE S))
  BY <1>1, Zenon DEF ForegroundResume
<1>4. CASE hook.sleep = "due"
  <2>1. PICK R : R = Stop(S)
    OBVIOUS
  <2>2. Become(R)
    BY <1>3, <1>4, <2>1, Zenon
  <2> QED BY <1>1, <1>2, <2>1, <2>2, StopOfGood, LandedFine, BecomesFine
<1>5. CASE hook.sleep # "due" /\ ~written
  <2>1. PICK R : R = Resume(S)
    OBVIOUS
  <2>2. Become(R)
    BY <1>3, <1>5, <2>1, Zenon
  <2> QED BY <1>1, <1>2, <2>1, <2>2, ResumeGood, BecomesFine
<1>6. CASE hook.sleep # "due" /\ written
  <2>1. PICK F : F = FlushSession(S)
    OBVIOUS
  <2>2. PICK R : R = Resume(F)
    OBVIOUS
  <2>3. Become(R)
    BY <1>3, <1>6, <2>1, <2>2, Zenon
  <2>4. Sane(F) /\ F.player = S.player /\ F.tasks = S.tasks
    BY <1>2, <2>1, FlushGood
  <2>5. Fine(F, R)
    BY <1>2, <2>2, <2>4, ResumeGood
  <2>6. Fine(S, R)
    BY <1>2, <2>1, <2>5, FlushedFine
  <2> QED BY <1>1, <2>3, <2>6, BecomesFine
<1> QED BY <1>4, <1>5, <1>6

(* A preview takes the audio focus. *)
LEMMA PreviewPlaysFine ==
  ASSUME Healthy, PreviewPlays
  PROVE  Fine(Now, Then)
<1>1. PICK S : S = Now
  OBVIOUS
<1>2. Sane(S) /\ EndOK(S.player, S.tasks) /\ S.player = player
  BY <1>1, NowHealthy
<1>3. PICK P : P = IF player.focus = "narration" THEN BackendPause(Now) ELSE Now
  OBVIOUS
<1>4. PICK p : p = [P.player EXCEPT !.focus = "preview"]
  OBVIOUS
<1>5. PICK R : R = [P EXCEPT !.player = [@ EXCEPT !.focus = "preview"]]
  OBVIOUS
<1>6. Become(R)
  BY <1>3, <1>5, Zenon DEF PreviewPlays
<1>7. R = [P EXCEPT !.player = p]
  BY <1>4, <1>5
<1>8. CASE player.focus = "narration"
  <2>1. P = BackendPause(S)
    BY <1>1, <1>3, <1>8
  <2>2. /\ Sane(P) /\ EndOK(P.player, P.tasks) /\ P.player.focus # "narration" /\ P.hook = S.hook
        /\ P.player.element \notin Audible
        /\ (HasEnded(P.player) <=> HasEnded(S.player)) /\ (AskedIn(P.tasks) <=> AskedIn(S.tasks))
    BY <1>2, <2>1, BackendPauseGood
  <2>6. /\ p \in Players /\ p.wants = P.player.wants /\ p.fresh = P.player.fresh /\ p.element = P.player.element
        /\ p.endEvent = P.player.endEvent /\ p.state = P.player.state
    <3>1. P.player \in Players
      BY <2>2, StateFields DEF Sane
    <3> QED BY <1>4, <3>1 DEF Players
  <2>3. /\ Sane(R) /\ EndOK(R.player, R.tasks) /\ R.tasks = P.tasks /\ PlaceIn(R) = PlaceIn(P) /\ (Sounds(R) <=> Sounds(P))
    BY <1>7, <2>2, <2>6, FocusGood
  <2>4. ~Sounds(R) /\ PlaceIn(R) = PlaceIn(S) /\ (AskedIn(R.tasks) <=> AskedIn(S.tasks))
    BY <2>2, <2>3 DEF Sounds, Audible, PlaceIn, PlaceOf
  <2>5. Fine(S, R)
    BY <2>3, <2>4 DEF Fine, Moves
  <2> QED BY <1>1, <1>6, <2>5, BecomesFine
<1>9. CASE player.focus # "narration"
  <2>1. P = S
    BY <1>1, <1>3, <1>9
  <2>6. /\ p \in Players /\ p.wants = P.player.wants /\ p.fresh = P.player.fresh /\ p.element = P.player.element
        /\ p.endEvent = P.player.endEvent /\ p.state = P.player.state
    <3>1. P.player \in Players
      BY <1>2, <2>1, StateFields DEF Sane
    <3> QED BY <1>4, <3>1 DEF Players
  <2>2. /\ Sane(R) /\ EndOK(R.player, R.tasks) /\ R.tasks = S.tasks /\ PlaceIn(R) = PlaceIn(S) /\ (Sounds(R) <=> Sounds(S))
    BY <1>2, <1>7, <1>9, <2>1, <2>6, FocusGood
  <2>3. Fine(S, R)
    BY <2>2, SameFine
  <2> QED BY <1>1, <1>6, <2>3, BecomesFine
<1> QED BY <1>8, <1>9

(* A preview gives the audio focus back. *)
LEMMA PreviewEndsFine ==
  ASSUME Healthy, PreviewEnds
  PROVE  Fine(Now, Then)
<1>1. PICK S : S = Now
  OBVIOUS
<1>2. Sane(S) /\ EndOK(S.player, S.tasks) /\ S.player = player /\ S \in States /\ S.player \in Players
  BY <1>1, NowHealthy
<1>3. PICK p : p = [S.player EXCEPT !.focus = "none"]
  OBVIOUS
<1>4. p \in Players /\ p = player' /\ UNCHANGED <<hook, tasks, pool>> /\ S.player.focus # "narration"
  BY <1>2, <1>3 DEF Players, PreviewEnds
<1>5. PICK R : R = [S EXCEPT !.player = p]
  OBVIOUS
<1>6. Then = R
  BY <1>1, <1>2, <1>4, <1>5, ThenPlayer
<1>9. /\ p.wants = S.player.wants /\ p.fresh = S.player.fresh /\ p.element = S.player.element
      /\ p.endEvent = S.player.endEvent /\ p.state = S.player.state
  BY <1>2, <1>3 DEF Players
<1>7. /\ Sane(R) /\ EndOK(R.player, R.tasks) /\ R.tasks = S.tasks /\ PlaceIn(R) = PlaceIn(S) /\ (Sounds(R) <=> Sounds(S))
  BY <1>2, <1>4, <1>5, <1>9, FocusGood
<1>8. Fine(S, R)
  BY <1>7, SameFine
<1> QED BY <1>1, <1>6, <1>8

(* The sleep timer is set, or is over. *)
LEMMA SleepFine ==
  ASSUME Healthy, SleepDue \/ SetSleepTimer
  PROVE  Fine(Now, Then)
<1>1. PICK S : S = Now
  OBVIOUS
<1>2. Sane(S) /\ EndOK(S.player, S.tasks) /\ S.hook = hook /\ S \in States /\ S.hook \in Hooks
  BY <1>1, NowHealthy
<1>3. PICK h : h = hook'
  OBVIOUS
<1>4. h \in Hooks /\ SameHook(h, S.hook)
  BY <1>2, <1>3 DEF Hooks, SameHook, SleepDue, SetSleepTimer
<1>5. UNCHANGED <<player, tasks, pool>>
  BY DEF SleepDue, SetSleepTimer
<1>6. PICK R : R = [S EXCEPT !.hook = h]
  OBVIOUS
<1>7. Then = R
  BY <1>1, <1>2, <1>3, <1>4, <1>5, <1>6, ThenHook
<1>8. Sane(R) /\ R.player = S.player /\ R.hook = h /\ R.tasks = S.tasks
  BY <1>2, <1>4, <1>6, HookGood DEF SameHook
<1>9. PlaceIn(R) = PlaceIn(S) /\ (Sounds(R) <=> Sounds(S)) /\ EndOK(R.player, R.tasks)
  BY <1>2, <1>4, <1>8 DEF PlaceIn, PlaceOf, Sounds, SameHook
<1>10. Fine(S, R)
  BY <1>8, <1>9, SameFine
<1> QED BY <1>1, <1>7, <1>10

(* The pool does its work beside the player. *)
LEMMA PoolFine ==
  ASSUME Healthy, CooldownEnds \/ PreloadTaskEnds
  PROVE  Fine(Now, Then)
<1>1. PICK S : S = Now
  OBVIOUS
<1>2. Sane(S) /\ EndOK(S.player, S.tasks) /\ S.pool = pool /\ S \in States /\ StoreOK(pool)
  BY <1>1, NowHealthy DEF Sane
<1>3. PICK q : q = pool'
  OBVIOUS
<1>4. StoreOK(q)
  <2>1. CASE CooldownEnds
    <3>1. q = [pool EXCEPT !.cooling = FALSE]
      BY <1>3, <2>1 DEF CooldownEnds
    <3> QED BY <1>2, <3>1, CoolingOK
  <2>2. CASE PreloadTaskEnds
    <3>1. PICK i \in DOMAIN pool.running, ok \in BOOLEAN : q = PreloadEnds(pool, i, ok)
      BY <1>3, <2>2 DEF PreloadTaskEnds
    <3> QED BY <1>2, <3>1, PreloadEndsOK
  <2> QED BY <2>1, <2>2
<1>5. UNCHANGED <<player, hook, tasks>>
  BY DEF CooldownEnds, PreloadTaskEnds
<1>6. PICK R : R = [S EXCEPT !.pool = q]
  OBVIOUS
<1>7. Then = R
  BY <1>1, <1>2, <1>3, <1>4, <1>5, <1>6, ThenPool DEF StoreOK, Tallied
<1>8. Sane(R) /\ R.player = S.player /\ R.hook = S.hook /\ R.tasks = S.tasks
  BY <1>2, <1>4, <1>6, PoolGood
<1>9. PlaceIn(R) = PlaceIn(S) /\ (Sounds(R) <=> Sounds(S)) /\ EndOK(R.player, R.tasks)
  BY <1>2, <1>8 DEF PlaceIn, PlaceOf, Sounds
<1>10. Fine(S, R)
  BY <1>8, <1>9, SameFine
<1> QED BY <1>1, <1>7, <1>10

(* Play, pause and stop. *)
LEMMA ButtonFine ==
  ASSUME Healthy, StartPressed \/ MediaPlay \/ MediaPause \/ StopPressed \/ SleepFires
  PROVE  Fine(Now, Then)
<1>1. PICK S : S = Now
  OBVIOUS
<1>2. Sane(S) /\ EndOK(S.player, S.tasks) /\ S.hook = hook /\ S.hook \in Hooks
  BY <1>1, NowHealthy
<1>3. PICK c : c = StartLocation(S.hook)
  OBVIOUS
<1>4. \/ Become(Pause(S)) \/ Become(Resume(S)) \/ Become(Stop(S)) \/ Become(Begin(S, c))
  BY <1>1, <1>2, <1>3, Zenon DEF StartPressed, MediaPlay, MediaPause, StopPressed, SleepFires
<1>5. CASE Become(Pause(S))
  <2>1. PICK R : R = Pause(S)
    OBVIOUS
  <2>2. Voiced(R, PlaceIn(S))
    BY <1>2, <2>1, PauseGood DEF PlaceIn
  <2> QED BY <1>1, <1>5, <2>1, <2>2, LandedFine, BecomesFine
<1>6. CASE Become(Resume(S))
  <2>1. PICK R : R = Resume(S)
    OBVIOUS
  <2> QED BY <1>1, <1>2, <1>6, <2>1, ResumeGood, BecomesFine
<1>7. CASE Become(Stop(S))
  <2>1. PICK R : R = Stop(S)
    OBVIOUS
  <2> QED BY <1>1, <1>2, <1>7, <2>1, StopOfGood, LandedFine, BecomesFine
<1>8. CASE Become(Begin(S, c))
  <2>1. PICK R : R = Begin(S, c)
    OBVIOUS
  <2>2. c \in 1 .. ChunkCount + 1
    BY <1>2, <1>3, StartPlace
  <2>3. Fine(S, R)
    BY <1>2, <2>1, <2>2, BeginGood, AskFine DEF PlaceIn, Sounds
  <2> QED BY <1>1, <1>8, <2>1, <2>3, BecomesFine
<1> QED BY <1>4, <1>5, <1>6, <1>7, <1>8

(* A jump silences the player where it is and leaves one task, the jump itself. *)
LEMMA JumpFine ==
  ASSUME Healthy, NEW back \in BOOLEAN, Jump(back)
  PROVE  Fine(Now, Then)
<1>1. PICK S : S = Now
  OBVIOUS
<1>2. Sane(S) /\ S.hook = hook
  BY <1>1, NowHealthy
<1>3. PICK P : P = BackendPause(S)
  OBVIOUS
<1>4. /\ Sane(P) /\ P.hook = S.hook /\ (\A t \in P.tasks : ~Requested(t))
      /\ P.player.state = "paused" /\ P.player.element \notin Audible
      /\ (HasEnded(P.player) <=> HasEnded(S.player))
  BY <1>2, <1>3, BackendPauseGood
<1>5. PICK B : B = FlushSession(P)
  OBVIOUS
<1>6. Sane(B) /\ B.player = P.player /\ B.tasks = P.tasks /\ SameHook(B.hook, P.hook)
  BY <1>4, <1>5, FlushGood
<1>7. /\ B \in States /\ B.player \in Players /\ B.hook \in Hooks /\ B.tasks \in SUBSET Task /\ StoreOK(B.pool)
      /\ PlayerOK(B.player) /\ HookOK(B.player, B.hook)
  BY <1>6, StateFields DEF Sane
<1>8. PICK e : e = <<>>
  OBVIOUS
<1>9. e \in Seq(Chunks) /\ Len(e) = 0
  <2>1. <<>> \in Seq(Chunks) /\ Len(<<>>) = 0
    OBVIOUS
  <2> QED BY <1>8, <2>1
<1>10. PICK h : h = [B.hook EXCEPT !.intent = TRUE, !.pending = e]
  OBVIOUS
<1>11. h \in Hooks /\ h.intent /\ h.pending = e /\ h.base = B.hook.base /\ h.current = B.hook.current
  BY <1>7, <1>9, <1>10 DEF Hooks
<1>12. h.base # 0 /\ h.current # 0 /\ h.current = S.hook.current
  BY <1>2, <1>4, <1>6, <1>11 DEF SameHook, Jump
<1>13. PICK N : N = Release(NewGeneration(NewOperation(B.tasks)))
  OBVIOUS
<1>14. N \in SUBSET Task /\ Dead(N)
  <2>1. (\A t \in B.tasks : ShapeOK(t)) /\ OneFill(B.tasks)
    BY <1>6, RestElim
  <2> QED BY <1>4, <1>6, <1>7, <1>13, <2>1, VoidedTasks DEF Dead
<1>15. PICK q : q = ClearPreloadQueueOnly(B.pool)
  OBVIOUS
<1>16. StoreOK(q) /\ q \in Stores
  BY <1>7, <1>15, ClearOK DEF StoreOK, Tallied
<1>17. PICK A : A = [B EXCEPT !.hook = h, !.tasks = N, !.pool = q]
  OBVIOUS
<1>18. A \in States /\ A.player = B.player /\ A.hook = h /\ A.tasks = N /\ A.pool = q
  BY <1>7, <1>11, <1>14, <1>16, <1>17 DEF States
<1>19. HookOK(B.player, h)
  BY <1>4, <1>6, <1>9, <1>11, <1>12 DEF HookOK, Ensuing
<1>20. Sane(A) /\ NoMain(A.tasks) /\ NoFill(A.tasks)
  BY <1>7, <1>14, <1>16, <1>18, <1>19, DeadGood
<1>21. PICK at : at = IF back /\ hook.mark # 0 /\ hook.mark <= hook.base THEN "previous" ELSE "adjacent"
  OBVIOUS
<1>22. PICK n : n = NewTask("jump", at, 0)
  OBVIOUS
<1>23. PICK t : t = [n EXCEPT !.back = back]
  OBVIOUS
<1>24. t \in Task /\ t.kind = "jump" /\ t.at = at /\ at \in {"previous", "adjacent"} /\ t.live
  <2>1. 0 \in 0 .. MaxRetries /\ 0 \in 0 .. ChunkCount + 1
    BY PlayerAssumption
  <2>2. at \in {"previous", "adjacent"}
    BY <1>21
  <2>3. n \in Task /\ n.kind = "jump" /\ n.at = at /\ n.live
    BY <1>22, <2>1, <2>2 DEF NewTask, Task
  <2> QED BY <1>23, <2>2, <2>3 DEF Task
<1>25. ShapeOK(t)
  BY <1>24 DEF ShapeOK, PlaySteps
<1>26. SideOK(h, t) /\ ~Fills(t)
  BY <1>11, <1>24, <1>25 DEF SideOK, Fills, Requested
<1>27. MainOK(B.player, h, t)
  <2>1. B.player.element # "sounding" /\ B.player.element # "starting" /\ B.player.element \notin Audible
    BY <1>4, <1>6 DEF Audible
  <2>2. EndFor(B.player, t) /\ ~Requested(t) /\ t.at \notin PlaySteps
    BY <1>4, <1>6, <1>24 DEF EndFor, Requested, PlaySteps
  <2>3. SeekOK(B.player, h, t)
    BY <1>8, <1>11, <1>12, <1>24, <2>1 DEF SeekOK
  <2> QED BY <2>1, <2>2, <2>3 DEF MainOK
<1>28. PICK M : M = N \cup {t}
  OBVIOUS
<1>29. M \in SUBSET Task
  BY <1>14, <1>24, <1>28
<1>30. PICK R : R = [B EXCEPT !.hook = [@ EXCEPT !.intent = TRUE, !.pending = <<>>],
                              !.tasks = Release(NewGeneration(NewOperation(@))) \cup {t},
                              !.pool = ClearPreloadQueueOnly(@)]
  OBVIOUS
<1>31. Become(R)
  BY <1>1, <1>3, <1>5, <1>21, <1>22, <1>23, <1>30, Zenon DEF Jump
<1>32. R = [B EXCEPT !.hook = h, !.tasks = M, !.pool = q]
  BY <1>8, <1>10, <1>13, <1>15, <1>28, <1>30
<1>33. R \in States /\ R.player = B.player /\ R.hook = h /\ R.tasks = M /\ R.pool = q
  BY <1>7, <1>11, <1>16, <1>29, <1>32 DEF States
<1>34. Sane(R)
  BY <1>16, <1>18, <1>20, <1>26, <1>27, <1>28, <1>33, AddMain DEF WorkOK
<1>35. EndOK(R.player, R.tasks)
  BY <1>4, <1>6, <1>33 DEF EndOK
<1>36. AskedIn(R.tasks)
  BY <1>24, <1>28, <1>33 DEF AskedIn, Asks, PlaySteps
<1>37. ~Sounds(R)
  BY <1>4, <1>6, <1>33 DEF Sounds, Audible
<1>38. PlaceIn(R) = PlaceIn(S)
  BY <1>4, <1>6, <1>12, <1>33 DEF PlaceIn, PlaceOf
<1>39. Fine(S, R)
  BY <1>34, <1>35, <1>36, <1>37, <1>38, AskFine
<1> QED BY <1>1, <1>31, <1>39, BecomesFine

(* Another voice: the audio at hand is dropped, the reading starts again where it was. *)
LEMMA ChangeVoiceFine ==
  ASSUME Healthy, ChangeVoice
  PROVE  Fine(Now, Then)
<1>1. PICK S : S = Now
  OBVIOUS
<1>2. Sane(S) /\ EndOK(S.player, S.tasks)
  BY <1>1, NowHealthy
<1>3. PICK G : G = FlushSession(S)
  OBVIOUS
<1>4. Sane(G) /\ G.player = S.player /\ G.tasks = S.tasks /\ SameHook(G.hook, S.hook)
  BY <1>2, <1>3, FlushGood
<1>5. PICK q : q = ClearPreload(G.pool)
  OBVIOUS
<1>6. StoreOK(q)
  BY <1>4, <1>5, ClearOK DEF Sane
<1>7. PICK F : F = [FlushSession(Now) EXCEPT !.pool = ClearPreload(@)]
  OBVIOUS
<1>8. F = [G EXCEPT !.pool = q]
  BY <1>1, <1>3, <1>5, <1>7
<1>9. Sane(F) /\ F.player = S.player /\ F.tasks = S.tasks /\ F.hook = G.hook
  BY <1>4, <1>6, <1>8, PoolGood
<1>10. CASE hook.intent
  <2>1. PICK c : c = StartLocation(F.hook)
    OBVIOUS
  <2>2. PICK R : R = Begin(F, c)
    OBVIOUS
  <2>3. Become(R)
    BY <1>7, <1>10, <2>1, <2>2, Zenon DEF ChangeVoice
  <2>4. F.hook \in Hooks
    BY <1>9, StateFields DEF Sane
  <2>5. c \in 1 .. ChunkCount + 1
    BY <2>1, <2>4, StartPlace
  <2>6. Fine(S, R)
    BY <1>9, <2>2, <2>5, BeginGood, AskFine DEF PlaceIn, Sounds
  <2> QED BY <1>1, <2>3, <2>6, BecomesFine
<1>11. CASE ~hook.intent /\ player.state = "paused"
  <2>1. PICK X : X = ResetBuffer(F)
    OBVIOUS
  <2>2. PICK R : R = BackendPause(X)
    OBVIOUS
  <2>3. Become(R)
    BY <1>7, <1>11, <2>1, <2>2, Zenon DEF ChangeVoice
  <2>4. /\ X \in States /\ StoreOK(X.pool) /\ PlayerOK(X.player) /\ HookOK(X.player, X.hook) /\ Dead(X.tasks)
        /\ ~X.player.fresh /\ X.hook.current = 0
    BY <1>9, <2>1, ResetBufferGood, RestElim
  <2>5. Sane(X) /\ ~AskedIn(X.tasks)
    BY <2>4, DeadGood
  <2>6. /\ Sane(R) /\ EndOK(R.player, R.tasks) /\ R.hook = X.hook /\ R.player.element \notin Audible
        /\ R.player.fresh = X.player.fresh /\ (AskedIn(R.tasks) <=> AskedIn(X.tasks))
    BY <2>2, <2>5, BackendPauseGood
  <2>7. Voiced(R, 0)
    BY <2>4, <2>5, <2>6 DEF Voiced, PlaceOf, HasEnded, Audible
  <2> QED BY <1>1, <2>3, <2>7, LandedFine, BecomesFine
<1>12. CASE ~hook.intent /\ player.state # "paused"
  <2>1. Become(F)
    BY <1>7, <1>12, Zenon DEF ChangeVoice
  <2>2. PlaceIn(F) = PlaceIn(S) /\ (Sounds(F) <=> Sounds(S)) /\ EndOK(F.player, F.tasks)
    BY <1>2, <1>4, <1>9 DEF PlaceIn, PlaceOf, Sounds, SameHook
  <2>3. Fine(S, F)
    BY <1>9, <2>2, SameFine
  <2> QED BY <1>1, <2>1, <2>3, BecomesFine
<1> QED BY <1>10, <1>11, <1>12

(* The reader closes. *)
LEMMA CloseReaderFine ==
  ASSUME Healthy, CloseReader
  PROVE  Fine(Now, Then)
<1>1. PICK S : S = Now
  OBVIOUS
<1>2. Sane(S)
  BY <1>1, NowHealthy
<1>3. PICK G : G = FlushSession(S)
  OBVIOUS
<1>4. Sane(G)
  BY <1>2, <1>3, FlushGood
<1>5. PICK X : X = ResetBuffer(G)
  OBVIOUS
<1>6. /\ X \in States /\ StoreOK(X.pool) /\ Dead(X.tasks) /\ X.tasks \in SUBSET Task
  BY <1>4, <1>5, ResetBufferGood, RestElim, StateFields
<1>7. PICK q : q = ClearPreload(X.pool)
  OBVIOUS
<1>8. StoreOK(q) /\ q \in Stores
  BY <1>6, <1>7, ClearOK DEF StoreOK, Tallied
<1>9. PICK Y : Y = [X EXCEPT !.pool = ClearPreload(@)]
  OBVIOUS
<1>10. Y = [X EXCEPT !.pool = q]
  BY <1>7, <1>9
<1>11. Y \in States /\ Y.tasks = X.tasks /\ Y.pool = q
  BY <1>6, <1>8, <1>10 DEF States
<1>12. PICK R : R = Stop(Y)
  OBVIOUS
<1>13. (\A t \in Y.tasks : ShapeOK(t)) /\ OneFill(Y.tasks)
  BY <1>6, <1>11 DEF Dead, OneFill, Fills
<1>14. Voiced(R, 0)
  BY <1>8, <1>11, <1>12, <1>13, StopGood
<1>15. Become(R)
  BY <1>1, <1>3, <1>5, <1>9, <1>12, Zenon DEF CloseReader
<1> QED BY <1>1, <1>14, <1>15, LandedFine, BecomesFine

(***************************************************************************)
(* The specification                                                       *)
(***************************************************************************)

(* Every step keeps the invariant and makes a step of Narration, or none. *)
LEMMA SpeechStep ==
  ASSUME Healthy, SpeechNext
  PROVE  Fine(Now, Then)
<1>1. ASSUME NEW t \in tasks, TaskStep(t) PROVE Fine(Now, Then)
  BY <1>1, BeginReadFine, FillWaitEndsFine, AdvanceReadFine, FillReadFine, PrefetchSettlesFine, FetchAnswersFine,
     PlayStartsFine, RetryElapsesFine, UnpausesFine, ResumeAfterAdvanceFine, LockSettlesFine, JumpPreviousFine,
     JumpAdjacentFine, JumpReadFine, Zenon DEF TaskStep
<1>2. ASSUME NEW t \in tasks, TaskFails(t) PROVE Fine(Now, Then)
  BY <1>2, ReadFailsFine, FetchFailsFine, PlayRefusedFine, UnpauseRefusedFine, Zenon DEF TaskFails
<1>3. ASSUME ElementEvent PROVE Fine(Now, Then)
  BY <1>3, OnPlayFine, PlaysOnFine, SilencesFine, OnEndedFine, OnPauseFine, OnTimeUpdateFine, Zenon DEF ElementEvent
<1>4. ASSUME CooldownEnds \/ PreloadTaskEnds PROVE Fine(Now, Then)
  BY <1>4, PoolFine
<1>5. ASSUME Command PROVE Fine(Now, Then)
  <2>1. TRUE \in BOOLEAN /\ FALSE \in BOOLEAN
    OBVIOUS
  <2> QED BY <1>5, <2>1, ButtonFine, JumpFine, ChangeVoiceFine, SleepFine, CloseReaderFine, Zenon DEF Command
<1>6. ASSUME PageEvent PROVE Fine(Now, Then)
  BY <1>6, SilencesFine, ForegroundResumeFine, PreviewPlaysFine, PreviewEndsFine, SleepFine, ButtonFine, Zenon
     DEF PageEvent
<1> QED BY <1>1, <1>2, <1>3, <1>4, <1>5, <1>6 DEF SpeechNext

(* The page has just been opened. *)
LEMMA SpeechStarts ==
  ASSUME SpeechInit
  PROVE  Healthy
<1>1. PICK e : e = <<>>
  OBVIOUS
<1>2. e \in Seq(Chunks) /\ Len(e) = 0 /\ e \in Seq(Int) /\ e \in Seq(Runs)
  BY <1>1
<1>3. /\ 0 \in 0 .. ChunkCount /\ 0 \in 0 .. ChunkCount + 1 /\ ChunkCount \in 0 .. ChunkCount
      /\ 1 \in 1 .. ChunkCount + 1 /\ ChunkCount + 1 \in 1 .. ChunkCount + 1
  BY PlayerAssumption
<1>4. player \in Players /\ ~player.fresh /\ ~player.endEvent /\ player.element = "none"
  BY <1>3 DEF SpeechInit, Players
<1>5. hook \in Hooks /\ hook.pending = e /\ hook.current = 0
  <2>1. PICK v \in {1, ChunkCount + 1} :
          hook = [intent |-> FALSE, base |-> 0, end |-> ChunkCount, current |-> 0, pending |-> e,
                  preparing |-> FALSE, prompt |-> FALSE, mark |-> 0, saved |-> 0, view |-> v, sleep |-> "off"]
    BY <1>1 DEF SpeechInit
  <2>2. v \in 1 .. ChunkCount + 1
    BY <1>3, <2>1
  <2> QED BY <1>2, <1>3, <2>1, <2>2 DEF Hooks
<1>6. StoreOK(pool) /\ pool \in Stores
  <2>1. pool = [ready |-> e, cache |-> e, waiting |-> e, running |-> e, active |-> 0, cooling |-> FALSE]
    BY <1>1 DEF SpeechInit, EmptyStore
  <2>2. pool \in Stores
    BY <1>2, <2>1 DEF Stores
  <2>3. 0 <= MaxConcurrency /\ 0 <= MaxPreload
    BY PoolAssumption
  <2> QED BY <1>1, <1>2, <2>1, <2>2, <2>3 DEF StoreOK, Tallied
<1>7. tasks = {}
  BY DEF SpeechInit
<1>8. PICK S : S = Now
  OBVIOUS
<1>9. S \in States /\ S.player = player /\ S.hook = hook /\ S.tasks = tasks /\ S.pool = pool
  BY <1>4, <1>5, <1>6, <1>7, <1>8 DEF States, Now
<1>10. PlayerOK(player) /\ HookOK(player, hook)
  BY <1>2, <1>4, <1>5 DEF PlayerOK, HookOK, Ensuing, Audible
<1>11. Dead(tasks)
  BY <1>7 DEF Dead
<1>12. Sane(S)
  BY <1>6, <1>9, <1>10, <1>11, DeadGood
<1>13. EndOK(player, tasks)
  BY <1>4 DEF EndOK
<1> QED BY <1>8, <1>12, <1>13 DEF Healthy

(* The invariant is inductive; the history of events is no part of it. *)
LEMMA SpeechKeeps ==
  ASSUME Healthy, SpeechNext \/ UNCHANGED <<player, hook, tasks, pool>>
  PROVE  Healthy'
<1>1. CASE SpeechNext
  <2>1. Fine(Now, Then)
    BY <1>1, SpeechStep
  <2>2. Then = Now' /\ Then.player = player' /\ Then.tasks = tasks'
    BY DEF Then, Now
  <2> QED BY <2>1, <2>2 DEF Fine, Healthy
<1>2. CASE UNCHANGED <<player, hook, tasks, pool>>
  <2>1. Now' = Now
    BY <1>2 DEF Now
  <2> QED BY <1>2, <2>1 DEF Healthy
<1> QED BY <1>1, <1>2

(* What the invariant says of the player and of the pool. *)
LEMMA SpeechSafe ==
  ASSUME Healthy
  PROVE  PlayerSafe /\ PoolBalanced
<1>1. PICK S : S = Now
  OBVIOUS
<1>2. /\ Sane(S) /\ S \in States /\ S.player \in Players /\ S.hook \in Hooks
      /\ S.player = player /\ S.hook = hook /\ S.tasks = tasks /\ S.pool = pool
      /\ PlayerOK(S.player) /\ HookOK(S.player, S.hook)
  BY <1>1, NowHealthy
<1>3. StoreOK(pool) /\ tasks \in SUBSET Task
  BY <1>2, StateFields DEF Sane
<1>4. pool.active \in 0 .. MaxConcurrency
  BY <1>3, PoolAssumption DEF StoreOK, Tallied, Stores
<1>5. SpeechTypeOK
  BY <1>2, <1>3, <1>4 DEF SpeechTypeOK, Players, Hooks
<1>6. NoGhostSpeech
  BY <1>2 DEF NoGhostSpeech, PlayerOK, HookOK, Audible
<1>7. BufferFollows
  BY <1>2 DEF BufferFollows, HookOK, Ensuing, Hooks
<1>8. PoolBalanced
  BY <1>3 DEF PoolBalanced, StoreOK, Tallied
<1> QED BY <1>5, <1>6, <1>7, <1>8 DEF PlayerSafe

(* A step of the player is a step of Narration, or none, under the refinement mapping. *)
LEMMA SpeechMoves ==
  ASSUME Healthy, SpeechNext \/ UNCHANGED <<player, hook, tasks, pool>>
  PROVE  [Narrated!Next]_<<IF HasEnded(player) THEN hook.current + 1 ELSE hook.current,
                          player.element = "sounding",
                          \E t \in tasks : t.live /\ t.kind \in {"begin", "jump"} /\ t.at \notin PlaySteps>>
<1> DEFINE here == IF HasEnded(player) THEN hook.current + 1 ELSE hook.current
           heard == player.element = "sounding"
           sought == \E t \in tasks : t.live /\ t.kind \in {"begin", "jump"} /\ t.at \notin PlaySteps
<1>1. CASE SpeechNext
  <2>1. Moves(Now, Then)
    BY <1>1, SpeechStep DEF Fine
  <2>2. /\ PlaceIn(Now) = here /\ (Sounds(Now) <=> heard) /\ (AskedIn(Now.tasks) <=> sought)
    BY DEF PlaceIn, PlaceOf, Sounds, AskedIn, Asks, Now
  <2>3. /\ PlaceIn(Then) = here' /\ (Sounds(Then) <=> heard') /\ (AskedIn(Then.tasks) <=> sought')
    BY DEF PlaceIn, PlaceOf, Sounds, AskedIn, Asks, Then
  <2>4. \/ here # 0 /\ heard' /\ ~sought' /\ here' = here
        \/ ~heard' /\ here' = here /\ (sought' <=> sought)
        \/ heard /\ ~heard' /\ here' = here + 1 /\ (sought' <=> sought)
        \/ sought' /\ ~heard' /\ here' \in {0, here}
        \/ sought /\ ~sought' /\ ~heard' /\ here' \in Chunks
        \/ ~sought' /\ ~heard' /\ here' \in {0, here}
        \/ here' = here /\ (heard' <=> heard) /\ (sought' <=> sought)
    BY <2>1, <2>2, <2>3 DEF Moves
  <2> QED BY <2>4 DEF Narrated!Next, Narrated!Sound, Narrated!Halt, Narrated!Finish, Narrated!Ask, Narrated!Land,
                      Narrated!Drop, Narrated!Quit, Chunks
<1>2. CASE UNCHANGED <<player, hook, tasks, pool>>
  BY <1>2 DEF HasEnded
<1> QED BY <1>1, <1>2

(* The narration has not begun. *)
LEMMA SpeechBegins == SpeechInit => Narrated!Init
BY DEF SpeechInit, Narrated!Init, HasEnded

(***************************************************************************)
(* The specification of the reader                                         *)
(***************************************************************************)

(* A step of the reader is a step of the player, or leaves it alone. *)
LEMMA ReaderSpeaks ==
  ASSUME [Next]_vars
  PROVE  SpeechNext \/ UNCHANGED <<player, hook, tasks, pool>>
BY Zenon DEF Next, BookNext, vars, playerVars

(* For any book and any order in which answers, events of the element and       *)
(* commands come: nothing sounds that is not wanted or does not own the audio   *)
(* focus, and what is buffered comes next (useTTS.ts, tts.ts).                  *)
THEOREM SpeechPlayerSafe == Spec => []PlayerSafe
<1>1. Init => Healthy
  BY SpeechStarts DEF Init
<1>2. Healthy /\ [Next]_vars => Healthy'
  BY ReaderSpeaks, SpeechKeeps
<1>3. Healthy => PlayerSafe
  BY SpeechSafe
<1>4. QED
  BY <1>1, <1>2, <1>3, PTL DEF Spec

(* For any limits of the pool: it counts exactly the prefetches that run, the   *)
(* aborted ones that have not ended included, keeps to its limits, and leaves   *)
(* no slot idle while a task waits (tts.ts).                                    *)
THEOREM SpeechPoolBalanced == Spec => []PoolBalanced
<1>1. Init => Healthy
  BY SpeechStarts DEF Init
<1>2. Healthy /\ [Next]_vars => Healthy'
  BY ReaderSpeaks, SpeechKeeps
<1>3. Healthy => PoolBalanced
  BY SpeechSafe
<1>4. QED
  BY <1>1, <1>2, <1>3, PTL DEF Spec

(* Reading aloud implements Narration: no chunk is skipped or repeated unless   *)
(* the user asked for it, for any book and any interleaving (useTTS.ts).        *)
THEOREM SpeechReadsInOrder == Spec => ReadsInOrder
<1>1. Init => Healthy /\ Narrated!Init
  BY SpeechStarts, SpeechBegins DEF Init
<1>2. Healthy /\ [Next]_vars => Healthy'
  BY ReaderSpeaks, SpeechKeeps
<1>3. Healthy /\ [Next]_vars =>
        [Narrated!Next]_<<IF HasEnded(player) THEN hook.current + 1 ELSE hook.current,
                          player.element = "sounding",
                          \E t \in tasks : t.live /\ t.kind \in {"begin", "jump"} /\ t.at \notin PlaySteps>>
  BY ReaderSpeaks, SpeechMoves
<1>4. QED
  BY <1>1, <1>2, <1>3, PTL DEF Spec, ReadsInOrder, Narrated!Spec
=============================================================================
