--------------------------- MODULE ServiceProofs ---------------------------
(***************************************************************************)
(* The server beside the library, for every number of clients and every    *)
(* limit.  Speech synthesis on demand: one synthesis for each key that is  *)
(* still wanted, no caller answered with somebody else's cancellation, no  *)
(* token lost.  The limiter, accounts and sessions, and backups: their     *)
(* safety properties, each from an inductive invariant of its own.         *)
(***************************************************************************)
EXTENDS MCService, FiniteSetTheorems, TLAPS

(* Who waits for call c, and who ever joined it, with callers in state cs. *)
Waiting(cs, c) == {p \in Callers : cs[p].step = "waiting" /\ cs[p].call = c}
Joined(cs, c) == {p \in Callers : cs[p].call = c}

(* A call exists before anybody joins it, and a caller begins at most one. *)
CallsExist ==
    /\ \A p \in Callers :
         /\ caller[p].step \in {"idle", "missed"} => caller[p].call = NoCall /\ stage[p] = "unused"
         /\ caller[p].step = "waiting" => caller[p].call \in Callers
         /\ caller[p].call \in Callers => stage[caller[p].call] # "unused"
    /\ \A k \in Keys : inflight[k] # NoCall => stage[inflight[k]] # "unused"
    /\ \A c \in Callers : stage[c] = "unused" => ctx[c] = "live" /\ outcome[c] = "none"

(* The counter is not the number of those who wait: who is answered does   *)
(* not count down.  It lies between them and all who ever joined.          *)
WaitersCounted ==
    \A c \in Callers : /\ Cardinality(Waiting(caller, c)) <= waiters[c]
                       /\ waiters[c] <= Cardinality(Joined(caller, c))

(* Work is cancelled when nobody waits for it, and nobody joins it then. *)
CancelledIsAlone ==
    \A c \in Callers :
      /\ outcome[c] = "cancelled" => ctx[c] = "cancelled" /\ Waiting(caller, c) = {}
      /\ ctx[c] = "cancelled" /\ stage[c] # "done" => Waiting(caller, c) = {}

CancelledIsGone == \A p \in Callers : caller[p].answer = "cancelled" => p \in gone

(* The inductive invariant.  Who is still waiting could be cancelled if    *)
(* the counter ever fell below the number of waiters.                      *)
CallsInv ==
    /\ TypeOK /\ CallsExist /\ WaitersCounted /\ CancelledIsAlone /\ CancelledIsGone
    /\ SlotsBalanced /\ SingleFlight

-----------------------------------------------------------------------------

Caller == [step : {"idle", "missed", "waiting", "answered"}, key : Keys,
           call : Callers \cup {NoCall}, answer : Answers]

(* A caller that moves on keeps its key. *)
LEMMA CallerMoves ==
    ASSUME TypeOK, NEW p \in Callers, NEW st \in {"idle", "missed", "waiting", "answered"},
           NEW c \in Callers \cup {NoCall}, NEW a \in Answers,
           \/ caller' = [caller EXCEPT ![p].step = st, ![p].call = c]
           \/ caller' = [caller EXCEPT ![p].step = st, ![p].answer = a]
    PROVE  caller' \in [Callers -> Caller]
  <1>1. caller \in [Callers -> Caller] BY DEF TypeOK, Caller
  <1>2. /\ [caller[p] EXCEPT !.step = st, !.call = c] \in Caller
        /\ [caller[p] EXCEPT !.step = st, !.answer = a] \in Caller
    BY <1>1 DEF Caller
  <1> QED BY <1>1, <1>2

LEMMA CallersFinite ==
    ASSUME NEW S \in SUBSET Callers
    PROVE  IsFiniteSet(S) /\ Cardinality(S) \in Nat /\ Cardinality(S) <= Cardinality(Callers)
  BY CallAssumption, FS_Subset, FS_CardinalityType

LEMMA OneMore ==
    ASSUME NEW S \in SUBSET Callers, NEW c \in Callers \ S
    PROVE  Cardinality(S \cup {c}) = Cardinality(S) + 1
  BY CallersFinite, FS_AddElement

LEMMA OneLess ==
    ASSUME NEW S \in SUBSET Callers, NEW c \in S
    PROVE  Cardinality(S \ {c}) = Cardinality(S) - 1 /\ Cardinality(S) >= 1
  <1>1. Cardinality(S \ {c}) = Cardinality(S) - 1
    BY CallersFinite, FS_RemoveElement
  <1>2. Cardinality(S \ {c}) \in Nat BY CallersFinite
  <1> QED BY <1>1, <1>2, CallersFinite

(* A sole waiter is the only one waiting. *)
LEMMA SoleMember ==
    ASSUME NEW S \in SUBSET Callers, NEW p \in S, Cardinality(S) <= 1
    PROVE  S = {p}
  <1>1. Cardinality(S \ {p}) = 0 BY OneLess, CallersFinite
  <1>2. S \ {p} = {} BY <1>1, CallersFinite, FS_EmptySet
  <1> QED BY <1>2

-----------------------------------------------------------------------------

(* Tokens by who holds them. *)
InQueue == {c \in Callers : stage[c] \in {"queued", "running", "release", "dequeue"}}
InSemaphore == {c \in Callers : stage[c] \in {"running", "release"}}

LEMMA SlotsCounted ==
    /\ SlotsBalanced <=> /\ queue = Cardinality(InQueue) /\ queue <= MaxConcurrent + MaxQueued
                         /\ semaphore = Cardinality(InSemaphore) /\ semaphore <= MaxConcurrent
    /\ SlotsBalanced' <=> /\ queue' = Cardinality(InQueue') /\ queue' <= MaxConcurrent + MaxQueued
                          /\ semaphore' = Cardinality(InSemaphore') /\ semaphore' <= MaxConcurrent
  BY DEF SlotsBalanced, InQueue, InSemaphore

LEMMA CallsInit == Init => CallsInv
  <1> SUFFICES ASSUME Init PROVE CallsInv OBVIOUS
  <1>1. TypeOK
    <2>1. Cardinality(Callers) \in Nat BY CallersFinite
    <2> QED BY <2>1 DEF Init, TypeOK, Answers, Stages
  <1>2. \A p \in Callers : /\ caller[p].step = "idle" /\ caller[p].call = NoCall
                           /\ caller[p].answer = "none"
    BY DEF Init
  <1>3. \A c \in Callers : Waiting(caller, c) = {} /\ Joined(caller, c) = {}
    BY <1>2, CallAssumption DEF Waiting, Joined
  <1>4. CallsExist BY <1>2, CallAssumption DEF CallsExist, Init
  <1>5. WaitersCounted
    <2>1. Cardinality({}) = 0 BY FS_EmptySet
    <2>2. \A c \in Callers : waiters[c] = 0 BY DEF Init
    <2> QED BY <1>3, <2>1, <2>2 DEF WaitersCounted
  <1>6. CancelledIsAlone BY <1>3 DEF CancelledIsAlone, Init
  <1>7. CancelledIsGone BY <1>2 DEF CancelledIsGone
  <1>8. SlotsBalanced
    <2>1. InQueue = {} /\ InSemaphore = {} BY DEF Init, InQueue, InSemaphore
    <2> QED BY <2>1, FS_EmptySet, LimitAssumption, SlotsCounted DEF Init
  <1>9. SingleFlight BY DEF SingleFlight, Working, Init
  <1> QED BY <1>1, <1>4, <1>5, <1>6, <1>7, <1>8, <1>9 DEF CallsInv

-----------------------------------------------------------------------------
(* Steps of callers. *)

LEMMA LookupInv ==
    ASSUME CallsInv, NEW p \in Callers, Lookup(p)
    PROVE  CallsInv'
  <1> USE DEF CallsInv
  <1>1. /\ \A q \in Callers : /\ caller'[q].call = caller[q].call /\ caller'[q].key = caller[q].key
                              /\ caller'[q].step = "waiting" <=> caller[q].step = "waiting"
                              /\ caller'[q].step \in {"idle", "missed"} => caller[q].step \in {"idle", "missed"}
                              /\ caller'[q].answer = "cancelled" => caller[q].answer = "cancelled" \/ q \in gone
    BY DEF Lookup, Answer, TypeOK
  <1>2. UNCHANGED <<gone, inflight, stage, ctx, waiters, outcome, queue, semaphore, cached>>
    BY DEF Lookup, slotVars
  <1>3. \A c \in Callers : Waiting(caller', c) = Waiting(caller, c) /\ Joined(caller', c) = Joined(caller, c)
    BY <1>1 DEF Waiting, Joined
  <1>0. TypeOK'
    <2>1. caller' \in [Callers -> Caller]
      BY DEF Lookup, Answer, TypeOK, Answers, Caller
    <2> QED BY <1>2, <2>1 DEF TypeOK, Caller
  <1>4. CallsExist' BY <1>1, <1>2 DEF CallsExist
  <1>5. WaitersCounted' BY <1>2, <1>3 DEF WaitersCounted
  <1>6. CancelledIsAlone' BY <1>2, <1>3 DEF CancelledIsAlone
  <1>7. CancelledIsGone' BY <1>1, <1>2 DEF CancelledIsGone
  <1>8. SlotsBalanced' BY <1>2 DEF SlotsBalanced
  <1>9. SingleFlight' BY <1>1, <1>2 DEF SingleFlight, Working
  <1> QED BY <1>0, <1>4, <1>5, <1>6, <1>7, <1>8, <1>9

LEMMA JoinInv ==
    ASSUME CallsInv, NEW p \in Callers, Join(p)
    PROVE  CallsInv'
  <1> USE DEF CallsInv
  <1> DEFINE c == inflight[caller[p].key]
  <1>1. /\ c \in Callers /\ ctx[c] = "live" /\ stage[c] # "unused"
        /\ caller[p].step = "missed" /\ caller[p].call = NoCall
    BY DEF Join, Joinable, TypeOK, CallsExist
  <1>2. /\ \A q \in Callers : q # p => caller'[q] = caller[q]
        /\ caller'[p].step = "waiting" /\ caller'[p].call = c
        /\ caller'[p].key = caller[p].key /\ caller'[p].answer = caller[p].answer
        /\ waiters' = [waiters EXCEPT ![c] = @ + 1]
    BY DEF Join, TypeOK
  <1>3. UNCHANGED <<gone, inflight, stage, ctx, outcome, queue, semaphore, cached>>
    BY DEF Join, slotVars
  <1>4. /\ Waiting(caller', c) = Waiting(caller, c) \cup {p} /\ Joined(caller', c) = Joined(caller, c) \cup {p}
        /\ p \notin Joined(caller, c) /\ p \notin Waiting(caller, c)
        /\ \A d \in Callers \ {c} : Waiting(caller', d) = Waiting(caller, d) /\ Joined(caller', d) = Joined(caller, d)
    BY <1>1, <1>2, CallAssumption DEF Waiting, Joined
  <1>5. CallsExist' BY <1>1, <1>2, <1>3 DEF CallsExist, TypeOK
  <1>6. /\ Cardinality(Waiting(caller', c)) = Cardinality(Waiting(caller, c)) + 1
        /\ Cardinality(Joined(caller', c)) = Cardinality(Joined(caller, c)) + 1
    <2>1. Waiting(caller, c) \in SUBSET Callers /\ Joined(caller, c) \in SUBSET Callers BY DEF Waiting, Joined
    <2> QED BY <1>4, <2>1, OneMore
  <1>7. /\ Cardinality(Waiting(caller, c)) \in Nat /\ Cardinality(Joined(caller, c)) \in Nat /\ waiters[c] \in Nat
        /\ Cardinality(Joined(caller', c)) <= Cardinality(Callers)
        /\ Cardinality(Callers) \in Nat
    <2>1. Waiting(caller, c) \in SUBSET Callers /\ Joined(caller, c) \in SUBSET Callers /\ Joined(caller', c) \in SUBSET Callers
      BY DEF Waiting, Joined
    <2>2. Cardinality(Callers) \in Nat BY CallersFinite
    <2> QED BY <1>1, <2>1, <2>2, CallersFinite DEF TypeOK
  <1>8. WaitersCounted'
    <2>1. /\ waiters'[c] = waiters[c] + 1
          /\ \A d \in Callers \ {c} : waiters'[d] = waiters[d]
      BY <1>1, <1>2 DEF TypeOK
    <2>2. /\ Cardinality(Waiting(caller', c)) <= waiters'[c]
          /\ waiters'[c] <= Cardinality(Joined(caller', c))
      BY <1>1, <1>6, <1>7, <2>1 DEF WaitersCounted
    <2>3. \A d \in Callers \ {c} : /\ Cardinality(Waiting(caller', d)) <= waiters'[d]
                                   /\ waiters'[d] <= Cardinality(Joined(caller', d))
      BY <1>4, <2>1 DEF WaitersCounted
    <2> QED BY <2>2, <2>3 DEF WaitersCounted
  <1>9. TypeOK'
    <2>1. waiters[c] + 1 \in 0 .. Cardinality(Callers)
      BY <1>1, <1>6, <1>7 DEF WaitersCounted
    <2>2. waiters' \in [Callers -> 0 .. Cardinality(Callers)]
      BY <1>2, <2>1 DEF TypeOK
    <2>3. caller' \in [Callers -> Caller]
      <3>1. caller' = [caller EXCEPT ![p].step = "waiting", ![p].call = c] BY DEF Join
      <3>2. caller[p].answer \in Answers BY DEF TypeOK
      <3> QED BY <1>1, <3>1, <3>2, CallerMoves
    <2> QED BY <1>3, <2>2, <2>3 DEF TypeOK, Caller
  <1>10. CancelledIsAlone' BY <1>1, <1>3, <1>4 DEF CancelledIsAlone
  <1>11. CancelledIsGone' BY <1>2, <1>3 DEF CancelledIsGone
  <1>12. SlotsBalanced' BY <1>3 DEF SlotsBalanced
  <1>13. SingleFlight' BY <1>2, <1>3 DEF SingleFlight, Working
  <1> QED BY <1>5, <1>8, <1>9, <1>10, <1>11, <1>12, <1>13

LEMMA BeginInv ==
    ASSUME CallsInv, NEW p \in Callers, Begin(p)
    PROVE  CallsInv'
  <1> USE DEF CallsInv
  <1>1. caller[p].step = "missed" /\ caller[p].call = NoCall /\ stage[p] = "unused"
    BY DEF Begin, CallsExist
  <1>2. /\ \A q \in Callers : q # p => caller'[q] = caller[q] /\ stage'[q] = stage[q]
                                       /\ waiters'[q] = waiters[q]
        /\ caller'[p].step = "waiting" /\ caller'[p].call = p
        /\ caller'[p].key = caller[p].key /\ caller'[p].answer = caller[p].answer
        /\ stage'[p] = "new" /\ waiters'[p] = 1
        /\ \A k \in Keys : inflight'[k] = IF k = caller[p].key THEN p ELSE inflight[k]
    BY DEF Begin, TypeOK
  <1>3. UNCHANGED <<gone, ctx, outcome, queue, semaphore, cached>>
    BY DEF Begin, slotVars
  <1>4. Waiting(caller, p) = {} /\ Joined(caller, p) = {}
    BY <1>1 DEF Waiting, Joined, CallsExist
  <1>5. /\ Waiting(caller', p) = {p} /\ Joined(caller', p) = {p}
        /\ \A d \in Callers \ {p} : Waiting(caller', d) = Waiting(caller, d) /\ Joined(caller', d) = Joined(caller, d)
    BY <1>1, <1>2, <1>4, CallAssumption DEF Waiting, Joined
  <1>6. CallsExist'
    <2>1. ASSUME NEW q \in Callers
          PROVE  /\ caller'[q].step \in {"idle", "missed"} => caller'[q].call = NoCall /\ stage'[q] = "unused"
                 /\ caller'[q].step = "waiting" => caller'[q].call \in Callers
                 /\ caller'[q].call \in Callers => stage'[caller'[q].call] # "unused"
      BY <1>2 DEF CallsExist
    <2>2. \A k \in Keys : inflight'[k] # NoCall => stage'[inflight'[k]] # "unused"
      BY <1>2 DEF CallsExist, TypeOK
    <2>3. \A c \in Callers : stage'[c] = "unused" => ctx'[c] = "live" /\ outcome'[c] = "none"
      BY <1>2, <1>3 DEF CallsExist
    <2> QED BY <2>1, <2>2, <2>3 DEF CallsExist
  <1>7. Cardinality({p}) = 1 BY FS_Singleton
  <1>8. WaitersCounted' BY <1>2, <1>5, <1>7 DEF WaitersCounted
  <1>9. TypeOK'
    <2>1. 1 \in 0 .. Cardinality(Callers)
      <3>1. Cardinality(Callers) \in Nat BY CallersFinite
      <3>2. Cardinality(Callers) >= 1 BY OneLess
      <3> QED BY <3>1, <3>2
    <2>2. caller' \in [Callers -> Caller]
      <3>1. caller' = [caller EXCEPT ![p].step = "waiting", ![p].call = p] BY DEF Begin
      <3>2. caller[p].answer \in Answers BY DEF TypeOK
      <3> QED BY <3>1, <3>2, CallerMoves
    <2>3. /\ stage' \in [Callers -> Stages] /\ inflight' \in [Keys -> Callers \cup {NoCall}]
          /\ waiters' \in [Callers -> 0 .. Cardinality(Callers)]
      BY <2>1 DEF Begin, TypeOK, Stages
    <2> QED BY <1>3, <2>2, <2>3 DEF TypeOK, Caller
  <1>10. CancelledIsAlone'
    <2>1. ASSUME NEW c \in Callers \ {p} PROVE stage'[c] = stage[c] /\ Waiting(caller', c) = Waiting(caller, c)
      BY <1>2, <1>5
    <2>2. outcome[p] # "cancelled" /\ ctx[p] # "cancelled"
      BY <1>1 DEF CallsExist
    <2> QED BY <1>3, <2>1, <2>2 DEF CancelledIsAlone
  <1>11. CancelledIsGone' BY <1>2, <1>3 DEF CancelledIsGone
  <1>12. SlotsBalanced'
    <2>1. InQueue' = InQueue /\ InSemaphore' = InSemaphore
      BY <1>1, <1>2 DEF InQueue, InSemaphore
    <2> QED BY <1>3, <2>1, SlotsCounted
  <1>13. SingleFlight'
    <2>1. ASSUME NEW c \in Callers \ {p}, Working(c), caller[c].key = caller[p].key
          PROVE  FALSE
      BY <2>1 DEF SingleFlight, Working, Begin, Joinable, CallsExist, TypeOK
    <2> QED BY <1>2, <1>3, <2>1 DEF SingleFlight, Working, TypeOK
  <1> QED BY <1>6, <1>8, <1>9, <1>10, <1>11, <1>12, <1>13

(* An answered caller no longer waits; the call it waited for stays counted. *)
LEMMA AnswerInv ==
    ASSUME CallsInv, NEW p \in Callers, NEW a \in Answers, Answer(p, a),
           caller[p].step = "waiting", a = "cancelled" => p \in gone,
           UNCHANGED <<gone, stage, outcome>>
    PROVE  /\ caller' \in [Callers -> Caller]
           /\ \A q \in Callers : caller'[q].call = caller[q].call /\ caller'[q].key = caller[q].key
           /\ \A c \in Callers : /\ Joined(caller', c) = Joined(caller, c)
                                 /\ Waiting(caller', c) = Waiting(caller, c) \ {p}
           /\ CancelledIsGone'
           /\ \A q \in Callers :
                /\ caller'[q].step \in {"idle", "missed"} => caller'[q].call = NoCall /\ stage'[q] = "unused"
                /\ caller'[q].step = "waiting" => caller'[q].call \in Callers
                /\ caller'[q].call \in Callers => stage'[caller'[q].call] # "unused"
  <1> USE DEF CallsInv
  <1>1. \A q \in Callers : q # p => caller'[q] = caller[q]
    BY DEF Answer, TypeOK
  <1>2. /\ caller'[p].step = "answered" /\ caller'[p].answer = a
        /\ caller'[p].call = caller[p].call /\ caller'[p].key = caller[p].key
    BY DEF Answer, TypeOK
  <1>3. caller' \in [Callers -> Caller]
    <2>1. caller' = [caller EXCEPT ![p].step = "answered", ![p].answer = a] BY DEF Answer
    <2>2. caller[p].call \in Callers \cup {NoCall} BY DEF TypeOK
    <2> QED BY <2>1, <2>2, CallerMoves
  <1>4. \A c \in Callers : Joined(caller', c) = Joined(caller, c) /\ Waiting(caller', c) = Waiting(caller, c) \ {p}
    BY <1>1, <1>2 DEF Joined, Waiting
  <1>5. CancelledIsGone' BY <1>1, <1>2 DEF CancelledIsGone
  <1> QED BY <1>1, <1>2, <1>3, <1>4, <1>5 DEF CallsExist

LEMMA ReceiveInv ==
    ASSUME CallsInv, NEW p \in Callers, Receive(p)
    PROVE  CallsInv'
  <1> USE DEF CallsInv
  <1> DEFINE c == caller[p].call
  <1>1. c \in Callers /\ p \in Waiting(caller, c) BY DEF Receive, CallsExist, Waiting
  <1>2. outcome[c] \in Answers /\ outcome[c] # "cancelled"
    BY <1>1 DEF TypeOK, CancelledIsAlone
  <1>3. UNCHANGED <<gone, inflight, stage, ctx, waiters, outcome, queue, semaphore, cached>>
    BY DEF Receive, slotVars
  <1>4. caller[p].step = "waiting" /\ Answer(p, outcome[c]) BY DEF Receive
  <1>5. \A q \in Callers : caller'[q].call = caller[q].call /\ caller'[q].key = caller[q].key
    BY <1>2, <1>3, <1>4, AnswerInv
  <1>6. \A d \in Callers : Joined(caller', d) = Joined(caller, d) /\ Waiting(caller', d) = Waiting(caller, d) \ {p}
    BY <1>2, <1>3, <1>4, AnswerInv
  <1>7. TypeOK'
    <2>1. caller' \in [Callers -> Caller]
      BY <1>2, <1>3, <1>4, AnswerInv
    <2> QED BY <1>3, <2>1 DEF TypeOK, Caller
  <1>8. CallsExist' BY <1>2, <1>3, <1>4, AnswerInv DEF CallsExist
  <1>9. WaitersCounted'
    <2>1. ASSUME NEW d \in Callers PROVE Cardinality(Waiting(caller', d)) <= Cardinality(Waiting(caller, d))
      <3>1. Waiting(caller, d) \in SUBSET Callers /\ Waiting(caller', d) \in SUBSET Waiting(caller, d)
        BY <1>6 DEF Waiting
      <3> QED BY <3>1, CallersFinite, FS_Subset
    <2>2. ASSUME NEW d \in Callers
          PROVE  /\ Cardinality(Waiting(caller', d)) \in Nat /\ Cardinality(Waiting(caller, d)) \in Nat
                 /\ waiters[d] \in Nat
      <3>1. Waiting(caller, d) \in SUBSET Callers /\ Waiting(caller', d) \in SUBSET Callers
        BY DEF Waiting
      <3>2. Cardinality(Callers) \in Nat BY CallersFinite
      <3> QED BY <3>1, <3>2, CallersFinite DEF TypeOK
    <2> QED BY <1>3, <1>6, <2>1, <2>2 DEF WaitersCounted
  <1>10. CancelledIsAlone' BY <1>3, <1>6 DEF CancelledIsAlone
  <1>11. CancelledIsGone' BY <1>2, <1>3, <1>4, AnswerInv
  <1>12. SlotsBalanced' BY <1>3 DEF SlotsBalanced
  <1>13. SingleFlight' BY <1>3, <1>5 DEF SingleFlight, Working
  <1> QED BY <1>7, <1>8, <1>9, <1>10, <1>11, <1>12, <1>13

LEMMA LeaveInv ==
    ASSUME CallsInv, NEW p \in Callers, Leave(p)
    PROVE  CallsInv'
  <1> USE DEF CallsInv
  <1> DEFINE c == caller[p].call
  <1>1. c \in Callers /\ p \in Waiting(caller, c) /\ Waiting(caller, c) \in SUBSET Callers
    BY DEF Leave, CallsExist, Waiting
  <1>2. p \in gone /\ caller[p].step = "waiting" /\ Answer(p, "cancelled") /\ "cancelled" \in Answers
    BY DEF Leave, Answers
  <1>3. UNCHANGED <<gone, stage, outcome, queue, semaphore, cached>>
    BY DEF Leave, slotVars
  <1>4. \A q \in Callers : caller'[q].call = caller[q].call /\ caller'[q].key = caller[q].key
    BY <1>2, <1>3, AnswerInv
  <1>5. \A d \in Callers : Joined(caller', d) = Joined(caller, d) /\ Waiting(caller', d) = Waiting(caller, d) \ {p}
    BY <1>2, <1>3, AnswerInv
  <1>6. \A d \in Callers : d # c => Waiting(caller', d) = Waiting(caller, d)
    BY <1>5 DEF Waiting
  <1>7. /\ waiters'[c] = waiters[c] - 1 /\ \A d \in Callers : d # c => waiters'[d] = waiters[d]
        /\ \A d \in Callers : d # c => ctx'[d] = ctx[d]
        /\ ctx'[c] = ctx[c] \/ (waiters[c] = 1 /\ ctx'[c] = "cancelled")
        /\ \A k \in Keys : inflight'[k] = IF waiters[c] = 1 /\ inflight[k] = c THEN NoCall ELSE inflight[k]
        /\ waiters[c] = 1 => ctx'[c] # "live"
    BY <1>1 DEF Leave, TypeOK
  <1>8. /\ Cardinality(Waiting(caller', c)) = Cardinality(Waiting(caller, c)) - 1 /\ Cardinality(Waiting(caller, c)) >= 1
        /\ Cardinality(Waiting(caller, c)) \in Nat /\ waiters[c] \in Nat /\ waiters[c] >= 1
        /\ Cardinality(Joined(caller, c)) \in Nat /\ Cardinality(Callers) \in Nat
        /\ waiters[c] <= Cardinality(Callers)
    <2>1. Cardinality(Waiting(caller', c)) = Cardinality(Waiting(caller, c)) - 1 /\ Cardinality(Waiting(caller, c)) >= 1
      BY <1>1, <1>5, OneLess
    <2>2. Joined(caller, c) \in SUBSET Callers BY DEF Joined
    <2>3. Cardinality(Callers) \in Nat BY CallersFinite
    <2>4. Cardinality(Waiting(caller, c)) \in Nat /\ Cardinality(Joined(caller, c)) \in Nat
      BY <1>1, <2>2, CallersFinite
    <2> QED BY <1>1, <2>1, <2>3, <2>4 DEF WaitersCounted, TypeOK
  <1>9. TypeOK'
    <2>1. caller' \in [Callers -> Caller]
      BY <1>2, <1>3, AnswerInv
    <2>2. waiters' \in [Callers -> 0 .. Cardinality(Callers)]
      BY <1>1, <1>8 DEF Leave, TypeOK
    <2> QED BY <1>3, <2>1, <2>2 DEF Leave, TypeOK, Caller
  <1>10. CallsExist'
    <2>1. \A d \in Callers : stage[d] = "unused" => d # c
      BY <1>1 DEF CallsExist
    <2> QED BY <1>2, <1>3, <1>7, <2>1, AnswerInv DEF CallsExist
  <1>11. WaitersCounted'
    <2>1. /\ Cardinality(Waiting(caller', c)) <= waiters'[c]
          /\ waiters'[c] <= Cardinality(Joined(caller', c))
      BY <1>1, <1>5, <1>7, <1>8 DEF WaitersCounted
    <2> QED BY <1>5, <1>6, <1>7, <2>1 DEF WaitersCounted
  <1>12. CancelledIsAlone'
    <2>1. waiters[c] = 1 => Waiting(caller', c) = {}
      <3>1. waiters[c] = 1 => Cardinality(Waiting(caller, c)) <= 1 BY <1>1 DEF WaitersCounted
      <3>2. waiters[c] = 1 => Waiting(caller, c) = {p} BY <1>1, <3>1, SoleMember
      <3>3. Waiting(caller', c) = Waiting(caller, c) \ {p} BY <1>1, <1>5
      <3> QED BY <3>2, <3>3
    <2>2. Waiting(caller', c) \subseteq Waiting(caller, c) BY <1>1, <1>5
    <2> QED BY <1>1, <1>3, <1>6, <1>7, <2>1, <2>2 DEF CancelledIsAlone
  <1>13. CancelledIsGone' BY <1>2, <1>3, AnswerInv
  <1>14. SlotsBalanced' BY <1>3 DEF SlotsBalanced
  <1>15. SingleFlight'
    BY <1>1, <1>3, <1>4, <1>7 DEF SingleFlight, Working, TypeOK
  <1> QED BY <1>9, <1>10, <1>11, <1>12, <1>13, <1>14, <1>15

-----------------------------------------------------------------------------
(* Steps of calls. *)

(* What a step of a goroutine leaves of the invariant, whatever it does to  *)
(* the tokens and the map: an outcome is written while the call runs, and   *)
(* a cancellation only if its context is cancelled.                         *)
LEMMA CallFrame ==
    ASSUME CallsInv, NEW c \in Callers, NEW s \in Stages \ {"unused"}, NEW e \in Answers,
           stage[c] \notin {"unused", "done"},
           UNCHANGED <<callerVars, waiters>>,
           stage' = [stage EXCEPT ![c] = s],
           outcome' = [outcome EXCEPT ![c] = e],
           e = "cancelled" => e = outcome[c] \/ ctx[c] = "cancelled",
           \/ UNCHANGED ctx
           \/ s = "done" /\ ctx' = [ctx EXCEPT ![c] = IF @ = "live" THEN "cancelled" ELSE @],
           \A k \in Keys : inflight'[k] \in {inflight[k], NoCall}
    PROVE  CallsExist' /\ WaitersCounted' /\ CancelledIsAlone' /\ CancelledIsGone'
  <1> USE DEF CallsInv, callerVars
  <1>1. \A d \in Callers : Waiting(caller', d) = Waiting(caller, d) /\ Joined(caller', d) = Joined(caller, d)
    BY DEF Waiting, Joined
  <1>2. /\ \A d \in Callers : d # c => stage'[d] = stage[d] /\ ctx'[d] = ctx[d] /\ outcome'[d] = outcome[d]
        /\ stage'[c] = s /\ outcome'[c] = e
        /\ ctx'[c] = ctx[c] \/ (s = "done" /\ ctx'[c] = "cancelled")
        /\ ctx[c] # "live" => ctx'[c] = ctx[c]
    BY DEF TypeOK
  <1>3. CallsExist' BY <1>2 DEF CallsExist
  <1>4. WaitersCounted' BY <1>1 DEF WaitersCounted
  <1>5. CancelledIsAlone' BY <1>1, <1>2 DEF CancelledIsAlone
  <1>6. CancelledIsGone' BY DEF CancelledIsGone
  <1> QED BY <1>3, <1>4, <1>5, <1>6

(* The stages in which a call holds a token. *)
Queueing == {"queued", "running", "release", "dequeue"}
Holding == {"running", "release"}

TokensFollow(c, s) ==
    /\ queue' = queue + (IF s \in Queueing THEN 1 ELSE 0) - (IF stage[c] \in Queueing THEN 1 ELSE 0)
    /\ semaphore' = semaphore + (IF s \in Holding THEN 1 ELSE 0) - (IF stage[c] \in Holding THEN 1 ELSE 0)
    /\ queue' <= MaxConcurrent + MaxQueued /\ semaphore' <= MaxConcurrent

(* A call that moves into or out of these stages takes or returns a token. *)
LEMMA TokensMove ==
    ASSUME CallsInv, NEW c \in Callers, NEW s \in Stages, stage' = [stage EXCEPT ![c] = s],
           TokensFollow(c, s)
    PROVE  SlotsBalanced' /\ queue' \in Nat /\ semaphore' \in Nat
  <1> USE DEF CallsInv, TokensFollow
  <1>1. InQueue' = IF s \in Queueing THEN InQueue \cup {c} ELSE InQueue \ {c}
    BY DEF InQueue, Queueing, TypeOK
  <1>2. InSemaphore' = IF s \in Holding THEN InSemaphore \cup {c} ELSE InSemaphore \ {c}
    BY DEF InSemaphore, Holding, TypeOK
  <1>3. /\ InQueue \in SUBSET Callers /\ InSemaphore \in SUBSET Callers
        /\ c \in InQueue <=> stage[c] \in Queueing
        /\ c \in InSemaphore <=> stage[c] \in Holding
    BY DEF InQueue, InSemaphore, Queueing, Holding
  <1>4. queue = Cardinality(InQueue) /\ semaphore = Cardinality(InSemaphore)
    BY SlotsCounted
  <1>5. queue' = Cardinality(InQueue')
    <2>1. CASE s \in Queueing /\ c \in InQueue
      <3>1. InQueue' = InQueue BY <1>1, <2>1
      <3> QED BY <1>3, <1>4, <2>1, <3>1 DEF TypeOK
    <2>2. CASE s \in Queueing /\ c \notin InQueue
      <3>1. Cardinality(InQueue \cup {c}) = Cardinality(InQueue) + 1 BY <1>3, <2>2, OneMore
      <3> QED BY <1>1, <1>3, <1>4, <2>2, <3>1 DEF TypeOK
    <2>3. CASE s \notin Queueing /\ c \in InQueue
      <3>1. Cardinality(InQueue \ {c}) = Cardinality(InQueue) - 1 BY <1>3, <2>3, OneLess
      <3> QED BY <1>1, <1>3, <1>4, <2>3, <3>1 DEF TypeOK
    <2>4. CASE s \notin Queueing /\ c \notin InQueue
      <3>1. InQueue' = InQueue BY <1>1, <2>4
      <3> QED BY <1>3, <1>4, <2>4, <3>1 DEF TypeOK
    <2> QED BY <2>1, <2>2, <2>3, <2>4
  <1>6. semaphore' = Cardinality(InSemaphore')
    <2>1. CASE s \in Holding /\ c \in InSemaphore
      <3>1. InSemaphore' = InSemaphore BY <1>2, <2>1
      <3> QED BY <1>3, <1>4, <2>1, <3>1 DEF TypeOK
    <2>2. CASE s \in Holding /\ c \notin InSemaphore
      <3>1. Cardinality(InSemaphore \cup {c}) = Cardinality(InSemaphore) + 1 BY <1>3, <2>2, OneMore
      <3> QED BY <1>2, <1>3, <1>4, <2>2, <3>1 DEF TypeOK
    <2>3. CASE s \notin Holding /\ c \in InSemaphore
      <3>1. Cardinality(InSemaphore \ {c}) = Cardinality(InSemaphore) - 1 BY <1>3, <2>3, OneLess
      <3> QED BY <1>2, <1>3, <1>4, <2>3, <3>1 DEF TypeOK
    <2>4. CASE s \notin Holding /\ c \notin InSemaphore
      <3>1. InSemaphore' = InSemaphore BY <1>2, <2>4
      <3> QED BY <1>3, <1>4, <2>4, <3>1 DEF TypeOK
    <2> QED BY <2>1, <2>2, <2>3, <2>4
  <1>7. InQueue' \in SUBSET Callers /\ InSemaphore' \in SUBSET Callers
    BY DEF InQueue, InSemaphore
  <1> QED BY <1>5, <1>6, <1>7, CallersFinite, SlotsCounted

(* A goroutine that goes on keeps its registration until it unregisters. *)
LEMMA StillRegistered ==
    ASSUME CallsInv, NEW c \in Callers, NEW s \in Stages, stage' = [stage EXCEPT ![c] = s],
           stage[c] \notin {"unused", "close", "done"},
           UNCHANGED <<callerVars, inflight, ctx>>
    PROVE  SingleFlight'
  BY DEF CallsInv, SingleFlight, Working, callerVars, TypeOK

(* One step of a call: where it goes, what it writes, what it does to the tokens. *)
LEMMA CallStepInv ==
    ASSUME CallsInv, NEW c \in Callers, CallStep(c)
    PROVE  CallsInv'
  <1> USE DEF CallsInv
  <1>a. /\ queue <= MaxConcurrent + MaxQueued /\ semaphore <= MaxConcurrent
        /\ queue \in Nat /\ semaphore \in Nat /\ MaxConcurrent \in Nat /\ MaxQueued \in Nat
    BY LimitAssumption DEF SlotsBalanced, TypeOK
  <1>b. outcome[c] \in Answers /\ ctx[c] \in {"live", "cancelled", "expired"}
    BY DEF TypeOK
  <1>c. outcome = [outcome EXCEPT ![c] = outcome[c]] BY DEF TypeOK
  <1>d. ASSUME NEW s \in Stages \ {"unused"}, NEW e \in Answers,
               stage[c] \notin {"unused", "close", "done"},
               stage' = [stage EXCEPT ![c] = s], outcome' = [outcome EXCEPT ![c] = e],
               e = "cancelled" => e = outcome[c] \/ ctx[c] = "cancelled",
               UNCHANGED <<callerVars, inflight, ctx, waiters>>, cached' \subseteq Keys,
               SlotsBalanced' /\ queue' \in Nat /\ semaphore' \in Nat
        PROVE  CallsInv'
    <2>1. CallsExist' /\ WaitersCounted' /\ CancelledIsAlone' /\ CancelledIsGone'
      BY <1>d, CallFrame
    <2>2. SingleFlight' BY <1>d, StillRegistered
    <2>3. TypeOK' BY <1>d DEF TypeOK, callerVars
    <2> QED BY <1>d, <2>1, <2>2, <2>3
  <1>1. CASE Enqueue(c)
    <2>1. /\ stage[c] = "new" /\ UNCHANGED <<callerVars, inflight, ctx, waiters, semaphore, cached>>
      BY <1>1 DEF Enqueue
    <2>2. CASE queue < MaxConcurrent + MaxQueued /\ queue' = queue + 1 /\ MoveTo(c, "queued") /\ UNCHANGED outcome
      <3>1. stage' = [stage EXCEPT ![c] = "queued"] BY <2>2 DEF MoveTo
      <3>2. SlotsBalanced' /\ queue' \in Nat /\ semaphore' \in Nat
        <4>1. TokensFollow(c, "queued") BY <1>a, <2>1, <2>2, <3>1 DEF TokensFollow, Queueing, Holding
        <4> QED BY <1>a, <2>1, <2>2, <3>1, <4>1, TokensMove DEF Stages
      <3> QED BY <1>b, <1>c, <1>d, <2>1, <2>2, <3>1, <3>2 DEF Stages, TypeOK
    <2>3. ASSUME NEW e \in Answers, Fail(c, e, "unregister"), UNCHANGED queue,
                 e = "cancelled" => ctx[c] = "cancelled"
          PROVE  CallsInv'
      <3>1. stage' = [stage EXCEPT ![c] = "unregister"] /\ outcome' = [outcome EXCEPT ![c] = e]
        BY <2>3 DEF Fail, MoveTo
      <3>2. SlotsBalanced' /\ queue' \in Nat /\ semaphore' \in Nat
        <4>1. TokensFollow(c, "unregister") BY <1>a, <2>1, <2>3, <3>1 DEF TokensFollow, Queueing, Holding
        <4> QED BY <1>a, <2>1, <2>3, <3>1, <4>1, TokensMove DEF Stages
      <3> QED BY <1>d, <2>1, <2>3, <3>1, <3>2 DEF Stages, TypeOK
    <2> QED BY <1>1, <1>b, <2>2, <2>3 DEF Enqueue, Answers
  <1>2. CASE Acquire(c)
    <2>1. /\ stage[c] = "queued" /\ stage' = [stage EXCEPT ![c] = "running"]
          /\ semaphore' = semaphore + 1 /\ semaphore < MaxConcurrent
          /\ UNCHANGED <<callerVars, inflight, ctx, waiters, outcome, queue, cached>>
      BY <1>2 DEF Acquire, MoveTo
    <2>2. SlotsBalanced' /\ queue' \in Nat /\ semaphore' \in Nat
      <3>1. TokensFollow(c, "running") BY <1>a, <2>1 DEF TokensFollow, Queueing, Holding
      <3> QED BY <1>a, <2>1, <3>1, TokensMove DEF Stages
    <2> QED BY <1>b, <1>c, <1>d, <2>1, <2>2 DEF Stages, TypeOK
  <1>3. CASE GiveUp(c)
    <2>1. PICK e \in Answers : Fail(c, e, "unregister") /\ (e = "cancelled" => ctx[c] = "cancelled")
      BY <1>3, <1>b DEF GiveUp, Answers
    <2>2. /\ stage[c] = "queued" /\ stage' = [stage EXCEPT ![c] = "unregister"]
          /\ outcome' = [outcome EXCEPT ![c] = e] /\ queue' = queue - 1
          /\ UNCHANGED <<callerVars, inflight, ctx, waiters, semaphore, cached>>
      BY <1>3, <2>1 DEF GiveUp, Fail, MoveTo
    <2>3. SlotsBalanced' /\ queue' \in Nat /\ semaphore' \in Nat
      <3>1. TokensFollow(c, "unregister") BY <1>a, <2>2 DEF TokensFollow, Queueing, Holding
      <3> QED BY <1>a, <2>2, <3>1, TokensMove DEF Stages
    <2> QED BY <1>d, <2>1, <2>2, <2>3 DEF Stages, TypeOK
  <1>4. CASE Synthesize(c)
    <2>1. PICK e \in Answers : Fail(c, e, "release") /\ (e = "cancelled" => ctx[c] = "cancelled")
      BY <1>4, <1>b DEF Synthesize, Answers
    <2>2. /\ stage[c] = "running" /\ stage' = [stage EXCEPT ![c] = "release"]
          /\ outcome' = [outcome EXCEPT ![c] = e]
          /\ UNCHANGED <<callerVars, inflight, ctx, waiters, queue, semaphore, cached>>
      BY <1>4, <2>1 DEF Synthesize, Fail, MoveTo, slotVars
    <2>3. SlotsBalanced' /\ queue' \in Nat /\ semaphore' \in Nat
      <3>1. TokensFollow(c, "release") BY <1>a, <2>2 DEF TokensFollow, Queueing, Holding
      <3> QED BY <1>a, <2>2, <3>1, TokensMove DEF Stages
    <2> QED BY <1>d, <2>1, <2>2, <2>3 DEF Stages, TypeOK
  <1>5. CASE ReleaseSemaphore(c)
    <2>1. /\ stage[c] = "release" /\ stage' = [stage EXCEPT ![c] = "dequeue"]
          /\ semaphore' = semaphore - 1
          /\ UNCHANGED <<callerVars, inflight, ctx, waiters, outcome, queue, cached>>
      BY <1>5 DEF ReleaseSemaphore, MoveTo
    <2>2. SlotsBalanced' /\ queue' \in Nat /\ semaphore' \in Nat
      <3>1. TokensFollow(c, "dequeue") BY <1>a, <2>1 DEF TokensFollow, Queueing, Holding
      <3> QED BY <1>a, <2>1, <3>1, TokensMove DEF Stages
    <2> QED BY <1>b, <1>c, <1>d, <2>1, <2>2 DEF Stages, TypeOK
  <1>6. CASE ReleaseQueue(c)
    <2>1. /\ stage[c] = "dequeue" /\ stage' = [stage EXCEPT ![c] = "publish"]
          /\ queue' = queue - 1
          /\ UNCHANGED <<callerVars, inflight, ctx, waiters, outcome, semaphore, cached>>
      BY <1>6 DEF ReleaseQueue, MoveTo
    <2>2. SlotsBalanced' /\ queue' \in Nat /\ semaphore' \in Nat
      <3>1. TokensFollow(c, "publish") BY <1>a, <2>1 DEF TokensFollow, Queueing, Holding
      <3> QED BY <1>a, <2>1, <3>1, TokensMove DEF Stages
    <2> QED BY <1>b, <1>c, <1>d, <2>1, <2>2 DEF Stages, TypeOK
  <1>7. CASE Publish(c)
    <2>1. /\ stage[c] = "publish" /\ stage' = [stage EXCEPT ![c] = "unregister"]
          /\ UNCHANGED <<callerVars, inflight, ctx, waiters, outcome, queue, semaphore>>
      BY <1>7 DEF Publish, MoveTo, slotVars
    <2>2. cached' \subseteq Keys
      BY <1>7 DEF Publish, TypeOK
    <2>3. SlotsBalanced' /\ queue' \in Nat /\ semaphore' \in Nat
      <3>1. TokensFollow(c, "unregister") BY <1>a, <2>1 DEF TokensFollow, Queueing, Holding
      <3> QED BY <1>a, <2>1, <3>1, TokensMove DEF Stages
    <2> QED BY <1>b, <1>c, <1>d, <2>1, <2>2, <2>3 DEF Stages
  <1>8. CASE Unregister(c)
    <2>1. /\ stage[c] = "unregister" /\ stage' = [stage EXCEPT ![c] = "close"]
          /\ UNCHANGED <<callerVars, ctx, waiters, outcome, queue, semaphore, cached>>
          /\ inflight' = [k \in Keys |-> IF inflight[k] = c THEN NoCall ELSE inflight[k]]
      BY <1>8 DEF Unregister, MoveTo, slotVars
    <2>2. CallsExist' /\ WaitersCounted' /\ CancelledIsAlone' /\ CancelledIsGone'
      BY <1>b, <1>c, <2>1, CallFrame DEF Stages
    <2>3. SlotsBalanced'
      <3>1. TokensFollow(c, "close") BY <1>a, <2>1 DEF TokensFollow, Queueing, Holding
      <3> QED BY <1>a, <2>1, <3>1, TokensMove DEF Stages
    <2>4. TypeOK' BY <2>1 DEF TypeOK, Stages, callerVars
    <2>5. SingleFlight'
      BY <2>1, CallAssumption DEF SingleFlight, Working, callerVars, TypeOK
    <2> QED BY <2>2, <2>3, <2>4, <2>5
  <1>9. CASE Close(c)
    <2>1. /\ stage[c] = "close" /\ stage' = [stage EXCEPT ![c] = "done"]
          /\ UNCHANGED <<callerVars, inflight, waiters, outcome, queue, semaphore, cached>>
          /\ ctx' = [ctx EXCEPT ![c] = IF @ = "live" THEN "cancelled" ELSE @]
      BY <1>9 DEF Close, MoveTo, slotVars
    <2>2. CallsExist' /\ WaitersCounted' /\ CancelledIsAlone' /\ CancelledIsGone'
      BY <1>b, <1>c, <2>1, CallFrame DEF Stages
    <2>3. SlotsBalanced'
      <3>1. TokensFollow(c, "done") BY <1>a, <2>1 DEF TokensFollow, Queueing, Holding
      <3> QED BY <1>a, <2>1, <3>1, TokensMove DEF Stages
    <2>4. TypeOK' BY <2>1 DEF TypeOK, Stages, callerVars
    <2>5. SingleFlight' BY <2>1 DEF SingleFlight, Working, callerVars, TypeOK
    <2> QED BY <2>2, <2>3, <2>4, <2>5
  <1> QED BY <1>1, <1>2, <1>3, <1>4, <1>5, <1>6, <1>7, <1>8, <1>9 DEF CallStep

-----------------------------------------------------------------------------

LEMMA CallsStep == CallsInv /\ [Next]_vars => CallsInv'
  <1> SUFFICES ASSUME CallsInv, [Next]_vars PROVE CallsInv' OBVIOUS
  <1> USE DEF CallsInv
  <1>1. ASSUME NEW p \in Callers, Disconnect(p) PROVE CallsInv'
    <2>1. /\ UNCHANGED <<caller, inflight, stage, ctx, waiters, outcome, queue, semaphore, cached>>
          /\ gone' = gone \cup {p}
      BY <1>1 DEF Disconnect, slotVars
    <2>2. TypeOK' BY <2>1 DEF TypeOK
    <2>3. CallsExist' /\ WaitersCounted' /\ CancelledIsAlone'
      BY <2>1 DEF CallsExist, WaitersCounted, CancelledIsAlone
    <2>4. CancelledIsGone' /\ SlotsBalanced' /\ SingleFlight'
      BY <2>1 DEF CancelledIsGone, SlotsBalanced, SingleFlight, Working
    <2> QED BY <2>2, <2>3, <2>4
  <1>2. ASSUME NEW p \in Callers, CallerStep(p) PROVE CallsInv'
    BY <1>2, LookupInv, JoinInv, BeginInv, ReceiveInv, LeaveInv DEF CallerStep
  <1>3. ASSUME NEW c \in Callers, CallStep(c) PROVE CallsInv'
    BY <1>3, CallStepInv
  <1>4. ASSUME NEW c \in Callers, Expire(c) PROVE CallsInv'
    <2>1. /\ UNCHANGED <<caller, gone, inflight, stage, waiters, outcome, queue, semaphore, cached>>
          /\ stage[c] # "unused" /\ ctx[c] = "live" /\ ctx' = [ctx EXCEPT ![c] = "expired"]
      BY <1>4 DEF Expire, callerVars, slotVars
    <2>2. TypeOK' BY <2>1 DEF TypeOK
    <2>3. CallsExist' BY <2>1 DEF CallsExist, TypeOK
    <2>4. CancelledIsAlone' BY <2>1 DEF CancelledIsAlone, TypeOK
    <2>5. SingleFlight' BY <2>1 DEF SingleFlight, Working, TypeOK
    <2>6. WaitersCounted' /\ CancelledIsGone' /\ SlotsBalanced'
      BY <2>1 DEF WaitersCounted, CancelledIsGone, SlotsBalanced
    <2> QED BY <2>2, <2>3, <2>4, <2>5, <2>6
  <1>5. ASSUME NEW k \in Keys, Evict(k) PROVE CallsInv'
    <2>1. /\ UNCHANGED <<caller, gone, inflight, stage, ctx, waiters, outcome, queue, semaphore>>
          /\ cached' \subseteq cached
      BY <1>5 DEF Evict, callerVars, slotVars
    <2>2. TypeOK' BY <2>1 DEF TypeOK
    <2>3. CallsExist' /\ WaitersCounted' /\ CancelledIsAlone' /\ CancelledIsGone'
      BY <2>1 DEF CallsExist, WaitersCounted, CancelledIsAlone, CancelledIsGone
    <2>4. SlotsBalanced' /\ SingleFlight'
      BY <2>1 DEF SlotsBalanced, SingleFlight, Working
    <2> QED BY <2>2, <2>3, <2>4
  <1>6. CASE UNCHANGED vars
    <2>1. UNCHANGED <<caller, gone, inflight, stage, ctx, waiters, outcome, queue, semaphore, cached>>
      BY <1>6 DEF vars
    <2>2. TypeOK' BY <2>1 DEF TypeOK
    <2>3. CallsExist' /\ WaitersCounted' /\ CancelledIsAlone' /\ CancelledIsGone'
      BY <2>1 DEF CallsExist, WaitersCounted, CancelledIsAlone, CancelledIsGone
    <2>4. SlotsBalanced' /\ SingleFlight'
      BY <2>1 DEF SlotsBalanced, SingleFlight, Working
    <2> QED BY <2>2, <2>3, <2>4
  <1> QED BY <1>1, <1>2, <1>3, <1>4, <1>5, <1>6 DEF Next

LEMMA CallsCorrect == Spec => []CallsInv
  BY CallsInit, CallsStep, PTL DEF Spec

(* Work that is still wanted is registered under its key, so nobody starts *)
(* the same synthesis again (callTTSAPIWithCacheContext, waitForTTSCall).  *)
THEOREM CallsSingleFlight == Spec => []SingleFlight
  <1>1. CallsInv => SingleFlight BY DEF CallsInv
  <1> QED BY <1>1, CallsCorrect, PTL

(* No caller that is still there is answered, or is about to be answered,  *)
(* with a cancellation, however those that share its call come and go.     *)
THEOREM CallsNoForeignCancel == Spec => []NoForeignCancel
  <1>1. CallsInv => NoForeignCancel
    <2> SUFFICES ASSUME CallsInv, NEW p \in Callers
                 PROVE  /\ caller[p].answer = "cancelled" => p \in gone
                        /\ caller[p].step = "waiting" /\ p \notin gone =>
                             outcome[caller[p].call] # "cancelled"
      BY DEF NoForeignCancel
    <2>1. caller[p].step = "waiting" => caller[p].call \in Callers /\ p \in Waiting(caller, caller[p].call)
      BY DEF CallsInv, CallsExist, Waiting
    <2> QED BY <2>1 DEF CallsInv, CancelledIsGone, CancelledIsAlone
  <1> QED BY <1>1, CallsCorrect, PTL

(* Types hold and every token of queue and semaphore belongs to a call in  *)
(* the stage that holds it, within both limits (acquireTTSSlotContext).    *)
THEOREM CallsSlotsSafe == Spec => []SlotsSafe
  <1>1. CallsInv => SlotsSafe BY DEF CallsInv, SlotsSafe
  <1> QED BY <1>1, CallsCorrect, PTL

(***************************************************************************)
(* The rate limiter                                                        *)
(***************************************************************************)

Visitor == [count : Nat, start : Int]
Pass == [at : Seq(Nat), newest : Int, prior : Int]

(* How many of the newest passes may lie in the newest window of a key. *)
Used(v) == IF v.count \in 1 .. MaxReqs - 1 THEN v.count ELSE MaxReqs

(* Where the passes p of a key with table entry v lie: not after its newest *)
(* window; all but the newest Used not after the window before; all but     *)
(* those and a window's worth before even that.                             *)
KeyTraced(v, p) ==
    LET n == Len(p.at)
    IN  /\ v.count > 0 => v.start = p.newest /\ Used(v) <= n
        /\ v.count = 0 => time - p.newest > Window
        /\ p.newest <= time /\ p.newest - p.prior > Window
        /\ \A i \in 1 .. n : /\ p.at[i] <= time /\ p.at[i] <= p.newest + Window
                             /\ v.count > 0 /\ i > n - Used(v) => p.at[i] >= p.newest
                             /\ i <= n - Used(v) => p.at[i] <= p.prior + Window
                             /\ i <= n - Used(v) - MaxReqs => p.at[i] < p.prior

(* A key in the table came since the clean-up before last. *)
KeySwept(v, swept) == v.count > 0 => swept # Never /\ swept - v.start <= Window

TableOK(l) ==
    /\ l \in [visitors : [Clients -> Visitor], swept : Int]
    /\ l.swept <= time /\ (l.swept # Never => l.swept >= 0)
    /\ \A k \in Clients : KeyTraced(l.visitors[k], passes[k]) /\ KeySwept(l.visitors[k], l.swept)
    /\ MaxVisitors > 0 => Cardinality(Present(l.visitors)) <= MaxVisitors

RateInv ==
    /\ time \in Nat /\ passes \in [Clients -> Pass]
    /\ verdict \in [key : Clients, at : Nat, allowed : BOOLEAN, full : BOOLEAN]
    /\ TableOK(limiter) /\ RateBounded /\ RefusedRightly

-----------------------------------------------------------------------------

LEMMA RateNumbers ==
    /\ MaxReqs \in Nat /\ MaxReqs > 0 /\ Window \in Nat /\ CleanupInterval \in Nat /\ MaxVisitors \in Nat
    /\ IsFiniteSet(Clients)
  BY RateAssumption

LEMMA UsedBounds ==
    ASSUME NEW v \in Visitor
    PROVE  /\ Used(v) \in 1 .. MaxReqs
           /\ v.count \in 1 .. MaxReqs => Used(v) = v.count
           /\ v.count = 0 \/ v.count >= MaxReqs => Used(v) = MaxReqs
  BY RateNumbers DEF Used, Visitor

LEMMA NoVisitorType == NoVisitor \in Visitor /\ NoVisitor.count = 0 /\ NoVisitor.start = 0
  BY DEF NoVisitor, Visitor

LEMMA RateStart == RateInit => RateInv
  <1> SUFFICES ASSUME RateInit PROVE RateInv
    OBVIOUS
  <1> USE RateNumbers, NoVisitorType
  <1> DEFINE p == [at |-> <<>>, newest |-> -(Window + 1), prior |-> -2 * (Window + 1)]
  <1>1. p \in Pass /\ p.at = <<>> /\ p.newest = -(Window + 1) /\ p.prior = -2 * (Window + 1) BY DEF Pass
  <1> HIDE DEF p
  <1>2. \A k \in Clients : limiter.visitors[k] = NoVisitor /\ passes[k] = p BY DEF RateInit, p
  <1>3. time = 0 /\ passes \in [Clients -> Pass] /\ limiter \in [visitors : [Clients -> Visitor], swept : Int]
    BY <1>1 DEF RateInit, Never, p
  <1>4. limiter.swept = Never BY DEF RateInit
  <1>5. KeyTraced(NoVisitor, p) BY <1>1, <1>3 DEF KeyTraced
  <1>6. \A k \in Clients : KeySwept(limiter.visitors[k], limiter.swept) BY <1>2 DEF KeySwept
  <1>7. Present(limiter.visitors) = {} BY <1>2 DEF Present
  <1>8. TableOK(limiter) BY <1>2, <1>3, <1>4, <1>5, <1>6, <1>7, FS_EmptySet DEF TableOK, Never
  <1>9. RateBounded BY <1>1, <1>2 DEF RateBounded
  <1>10. verdict \in [key : Clients, at : Nat, allowed : BOOLEAN, full : BOOLEAN] /\ verdict.allowed
    <2>1. verdict \in [key : Clients, at : {0}, allowed : {TRUE}, full : {FALSE}] BY DEF RateInit
    <2>2. /\ verdict.key \in Clients /\ verdict.at = 0 /\ verdict.allowed = TRUE /\ verdict.full = FALSE
          /\ verdict = [key |-> verdict.key, at |-> verdict.at, allowed |-> verdict.allowed, full |-> verdict.full]
      BY <2>1, Zenon
    <2>3. verdict.at \in Nat BY <2>2
    <2>4. verdict.allowed \in BOOLEAN /\ verdict.full \in BOOLEAN BY <2>2, Zenon
    <2> QED BY <2>2, <2>3, <2>4, Zenon
  <1> QED BY <1>3, <1>8, <1>9, <1>10 DEF RateInv, RefusedRightly

LEMMA TickInv ==
    ASSUME RateInv, Tick
    PROVE  RateInv'
  <1> USE DEF Tick
  <1>1. time \in Nat /\ time' = time + 1 /\ limiter \in [visitors : [Clients -> Visitor], swept : Int]
        /\ passes \in [Clients -> Pass]
    BY DEF RateInv, TableOK
  <1>2. \A k \in Clients : KeyTraced(limiter.visitors[k], passes[k])'
    <2> SUFFICES ASSUME NEW k \in Clients PROVE KeyTraced(limiter.visitors[k], passes[k])'
      OBVIOUS
    <2>1. PICK v, p : v = limiter.visitors[k] /\ p = passes[k] OBVIOUS
    <2>2. v \in Visitor /\ p \in Pass /\ KeyTraced(v, p) BY <1>1, <2>1 DEF RateInv, TableOK
    <2>3. p.newest \in Int /\ \A i \in 1 .. Len(p.at) : p.at[i] \in Nat BY <2>2 DEF Pass
    <2>4. KeyTraced(v, p)' BY <1>1, <2>2, <2>3, RateNumbers, SMTT(20) DEF KeyTraced
    <2> QED BY <2>1, <2>4 DEF KeyTraced
  <1>3. TableOK(limiter)' BY <1>1, <1>2 DEF RateInv, TableOK
  <1> QED BY <1>1, <1>3 DEF RateInv, RateBounded, RefusedRightly

(* The clean-up leaves every trace right: an entry it removes has expired. *)
LEMMA CleanedTable ==
    ASSUME RateInv, NEW l, l = CleanupExpired(limiter)
    PROVE  /\ TableOK(l) /\ l.swept # Never
           /\ \A k \in Clients : l.visitors[k].count > 0 => time - l.visitors[k].start <= Window + CleanupInterval
  <1> USE RateNumbers, NoVisitorType
  <1>1. /\ time \in Nat /\ limiter \in [visitors : [Clients -> Visitor], swept : Int] /\ TableOK(limiter)
        /\ passes \in [Clients -> Pass]
    BY DEF RateInv, TableOK
  <1>2. CASE limiter.swept = Never
    <2>1. l \in [visitors : [Clients -> Visitor], swept : Int] /\ l.visitors = limiter.visitors /\ l.swept = time
      BY <1>1, <1>2 DEF CleanupExpired
    <2>2. \A k \in Clients : ~(limiter.visitors[k].count > 0) BY <1>1, <1>2 DEF TableOK, KeySwept
    <2>3. time # Never BY <1>1 DEF Never
    <2> QED BY <1>1, <2>1, <2>2, <2>3 DEF TableOK, KeySwept
  <1>3. CASE limiter.swept # Never /\ time - limiter.swept < CleanupInterval
    <2>1. l = limiter BY <1>3 DEF CleanupExpired
    <2>2. ASSUME NEW k \in Clients, limiter.visitors[k].count > 0
          PROVE  time - limiter.visitors[k].start <= Window + CleanupInterval
      <3>1. limiter.visitors[k].start \in Int /\ limiter.swept \in Int /\ limiter.swept - limiter.visitors[k].start <= Window
        BY <1>1, <2>2 DEF TableOK, KeySwept, Visitor
      <3> QED BY <3>1, <1>1, <1>3
    <2> QED BY <1>1, <1>3, <2>1, <2>2
  <1>4. CASE limiter.swept # Never /\ ~(time - limiter.swept < CleanupInterval)
    <2>1. l = [visitors |-> [k \in Clients |-> IF time - limiter.visitors[k].start > Window THEN NoVisitor
                                               ELSE limiter.visitors[k]],
               swept |-> time]
      BY <1>4 DEF CleanupExpired
    <2>2. /\ l \in [visitors : [Clients -> Visitor], swept : Int] /\ l.swept = time
          /\ \A k \in Clients : l.visitors[k] = IF time - limiter.visitors[k].start > Window THEN NoVisitor
                                                ELSE limiter.visitors[k]
      BY <1>1, <2>1
    <2>3. ASSUME NEW k \in Clients
          PROVE  /\ KeyTraced(l.visitors[k], passes[k])
                 /\ l.visitors[k].count > 0 => time - l.visitors[k].start <= Window
      <3>1. PICK v, w, p : v = limiter.visitors[k] /\ w = l.visitors[k] /\ p = passes[k] OBVIOUS
      <3>2. v \in Visitor /\ p \in Pass /\ KeyTraced(v, p) BY <1>1, <3>1 DEF TableOK
      <3>3. v.start \in Int /\ v.count \in Nat /\ p.newest \in Int /\ Len(p.at) \in Nat
        BY <3>2 DEF Visitor, Pass
      <3>4. CASE ~(time - v.start > Window) BY <3>1, <3>2, <3>3, <3>4, <2>2, <1>1
      <3>5. CASE time - v.start > Window
        <4>1. w = NoVisitor BY <3>1, <3>5, <2>2
        <4>2. Used(w) = MaxReqs /\ Used(v) \in 1 .. MaxReqs BY <4>1, <3>2, UsedBounds
        <4>3. time - p.newest > Window BY <3>2, <3>3, <3>5 DEF KeyTraced
        <4>4. KeyTraced(w, p) BY <4>1, <4>2, <4>3, <3>2, <3>3 DEF KeyTraced
        <4> QED BY <4>1, <4>4, <3>1
      <3> QED BY <3>4, <3>5
    <2>4. \A k \in Clients : l.visitors[k].count > 0 => limiter.visitors[k].count > 0 BY <2>2
    <2>5. MaxVisitors > 0 => Cardinality(Present(l.visitors)) <= MaxVisitors
      <3>1. /\ Present(l.visitors) \subseteq Present(limiter.visitors)
            /\ Present(limiter.visitors) \subseteq Clients
        BY <2>4 DEF Present
      <3>2. IsFiniteSet(Present(limiter.visitors)) BY <3>1, FS_Subset
      <3>3. /\ Cardinality(Present(l.visitors)) \in Nat /\ Cardinality(Present(limiter.visitors)) \in Nat
            /\ Cardinality(Present(l.visitors)) <= Cardinality(Present(limiter.visitors))
        BY <3>1, <3>2, FS_Subset, FS_CardinalityType
      <3> QED BY <3>3, <1>1 DEF TableOK
    <2>6. \A k \in Clients : l.visitors[k].start \in Int BY <2>2 DEF Visitor
    <2>7. l.swept # Never BY <1>1, <2>2 DEF Never
    <2> QED BY <1>1, <2>2, <2>3, <2>5, <2>6, <2>7 DEF TableOK, KeySwept
  <1> QED BY <1>2, <1>3, <1>4

Spread(p) == \A i, j \in DOMAIN p.at : j >= i + 2 * MaxReqs => p.at[j] - p.at[i] > Window

LEMMA AppendPass ==
    ASSUME NEW s \in Seq(Nat), NEW t \in Nat, NEW n, n = Len(s)
    PROVE  /\ Append(s, t) \in Seq(Nat) /\ n \in Nat /\ Len(Append(s, t)) = n + 1 /\ DOMAIN Append(s, t) = 1 .. n + 1
           /\ DOMAIN s = 1 .. n
           /\ \A i \in 1 .. n : Append(s, t)[i] = s[i] /\ s[i] \in Nat
           /\ Append(s, t)[n + 1] = t
  OBVIOUS

LEMMA Counting ==
    ASSUME NEW n \in Nat, NEW c \in Nat, c <= n
    PROVE  n + 1 - (c + 1) = n - c /\ c + 1 <= n + 1
  OBVIOUS

LEMMA Further ==
    ASSUME NEW t \in Int, NEW a \in Int, NEW b \in Int, NEW c \in Int, t - b > c, a < b
    PROVE  t - a > c
  OBVIOUS

(* A key opens a window: what it passed before lies in its earlier ones. *)
LEMMA WindowOpens ==
    ASSUME time \in Nat, NEW v \in Visitor, NEW p \in Pass, KeyTraced(v, p), Spread(p),
           v.count > 0 => time - v.start > Window,
           NEW w \in Visitor, w.count = 1, w.start = time,
           NEW q \in Pass, q.at = Append(p.at, time), q.newest = time, q.prior = p.newest
    PROVE  KeyTraced(w, q) /\ Spread(q)
  <1> USE RateNumbers
  <1>0. PICK n : n = Len(p.at) OBVIOUS
  <1>1. p.at \in Seq(Nat) /\ p.newest \in Int /\ p.prior \in Int /\ v.count \in Nat /\ v.start \in Int
    BY DEF Pass, Visitor
  <1>2. /\ n \in Nat /\ Len(q.at) = n + 1 /\ DOMAIN q.at = 1 .. n + 1 /\ DOMAIN p.at = 1 .. n
        /\ \A i \in 1 .. n : q.at[i] = p.at[i] /\ p.at[i] \in Nat
        /\ q.at[n + 1] = time
    BY <1>0, <1>1, AppendPass
  <1>3. Used(w) = 1 /\ Used(v) \in 1 .. MaxReqs BY UsedBounds
  <1>4. time - p.newest > Window BY <1>1 DEF KeyTraced
  <1>5. /\ p.newest - p.prior > Window
        /\ \A i \in 1 .. n : /\ p.at[i] <= time /\ p.at[i] <= p.newest + Window
                             /\ i <= n - Used(v) => p.at[i] <= p.prior + Window
    BY <1>0 DEF KeyTraced
  <1>6. ASSUME NEW i \in 1 .. n, i <= n - MaxReqs PROVE p.at[i] < p.newest
    <2>1. i <= n - Used(v) BY <1>2, <1>3, <1>6
    <2>2. p.at[i] \in Nat /\ p.at[i] <= p.prior + Window BY <2>1, <1>2, <1>5
    <2> QED BY <2>2, <1>1, <1>5, SMTT(20)
  <1>7. KeyTraced(w, q)
    <2>1. ASSUME NEW i \in 1 .. n + 1
          PROVE  /\ q.at[i] <= time /\ q.at[i] <= time + Window
                 /\ i > n => q.at[i] >= time
                 /\ i <= n => q.at[i] <= p.newest + Window
                 /\ i <= n - MaxReqs => q.at[i] < p.newest
      <3>1. CASE i \in 1 .. n
        <4>1. /\ q.at[i] = p.at[i] /\ p.at[i] \in Nat /\ p.at[i] <= time /\ p.at[i] <= p.newest + Window
              /\ i <= n - MaxReqs => p.at[i] < p.newest
          BY <3>1, <1>2, <1>5, <1>6
        <4> QED BY <4>1, <3>1, <1>2
      <3>2. CASE i = n + 1
        <4>1. q.at[i] = time BY <3>2, <1>2
        <4> QED BY <4>1, <3>2, <1>2
      <3> QED BY <3>1, <3>2, <1>2
    <2>2. n + 1 - 1 = n /\ n + 1 - 1 - MaxReqs = n - MaxReqs /\ 1 <= n + 1 BY <1>2
    <2>3. ~(w.count = 0) /\ time <= time BY <1>1
    <2> QED BY <2>1, <2>2, <2>3, <1>2, <1>3, <1>4 DEF KeyTraced
  <1>8. Spread(q)
    <2> SUFFICES ASSUME NEW i \in 1 .. n + 1, NEW j \in 1 .. n + 1, j >= i + 2 * MaxReqs
                 PROVE  q.at[j] - q.at[i] > Window
      BY <1>2 DEF Spread
    <2>1. i \in 1 .. n /\ i <= j - MaxReqs BY <1>2
    <2>2. CASE j \in 1 .. n BY <1>2, <2>1, <2>2 DEF Spread
    <2>3. CASE j = n + 1
      <3>1. i <= n - MaxReqs BY <1>2, <2>3
      <3>2. p.at[i] < p.newest BY <2>1, <3>1, <1>6
      <3>3. q.at[j] = time /\ q.at[i] = p.at[i] /\ p.at[i] \in Nat BY <1>2, <2>1, <2>3
      <3>4. PICK a, b : a = p.at[i] /\ b = p.newest OBVIOUS
      <3>5. time - a > Window BY <1>1, <1>4, <3>2, <3>3, <3>4, Further, SMTT(20)
      <3> QED BY <3>3, <3>4, <3>5, Zenon
    <2> QED BY <2>2, <2>3, <1>2
  <1> QED BY <1>7, <1>8

(* A key passes within its window. *)
LEMMA WindowHolds ==
    ASSUME time \in Nat, NEW v \in Visitor, NEW p \in Pass, KeyTraced(v, p), Spread(p),
           v.count > 0, time - v.start <= Window, v.count < MaxReqs,
           NEW w \in Visitor, w.count = v.count + 1, w.start = v.start,
           NEW q \in Pass, q.at = Append(p.at, time), q.newest = p.newest, q.prior = p.prior
    PROVE  KeyTraced(w, q) /\ Spread(q)
  <1> USE RateNumbers
  <1>0. PICK n : n = Len(p.at) OBVIOUS
  <1>1. p.at \in Seq(Nat) /\ p.newest \in Int /\ p.prior \in Int /\ v.count \in Nat /\ v.start \in Int
    BY DEF Pass, Visitor
  <1>2. /\ n \in Nat /\ Len(q.at) = n + 1 /\ DOMAIN q.at = 1 .. n + 1 /\ DOMAIN p.at = 1 .. n
        /\ \A i \in 1 .. n : q.at[i] = p.at[i] /\ p.at[i] \in Nat
        /\ q.at[n + 1] = time
    BY <1>0, <1>1, AppendPass
  <1>3. Used(v) = v.count /\ Used(w) = v.count + 1
    <2>1. v.count \in 1 .. MaxReqs /\ w.count \in 1 .. MaxReqs BY <1>1, SMTT(20)
    <2> QED BY <2>1, UsedBounds
  <1>4. v.start = p.newest /\ p.newest <= time /\ p.newest - p.prior > Window BY DEF KeyTraced
  <1>5. \A i \in 1 .. n : i <= n - v.count - MaxReqs => p.at[i] < p.prior
    BY <1>0, <1>3 DEF KeyTraced
  <1>6. KeyTraced(w, q)
    <2>0. v.count <= n /\ v.count \in Nat /\ n \in Nat BY <1>0, <1>1, <1>2, <1>3 DEF KeyTraced
    <2>1. \A i \in 1 .. n : /\ p.at[i] <= time /\ p.at[i] <= p.newest + Window
                            /\ i > n - v.count => p.at[i] >= p.newest
                            /\ i <= n - v.count => p.at[i] <= p.prior + Window
      BY <1>0, <1>3 DEF KeyTraced
    <2>2. ASSUME NEW i \in 1 .. n + 1
          PROVE  /\ q.at[i] <= time /\ q.at[i] <= p.newest + Window
                 /\ i > n - v.count => q.at[i] >= p.newest
                 /\ i <= n - v.count => q.at[i] <= p.prior + Window
                 /\ i <= n - v.count - MaxReqs => q.at[i] < p.prior
      <3>1. CASE i \in 1 .. n
        <4>1. q.at[i] = p.at[i] BY <3>1, <1>2
        <4>2. /\ p.at[i] <= time /\ p.at[i] <= p.newest + Window
              /\ i > n - v.count => p.at[i] >= p.newest
              /\ i <= n - v.count => p.at[i] <= p.prior + Window
          BY <3>1, <2>1
        <4>3. i <= n - v.count - MaxReqs => p.at[i] < p.prior BY <3>1, <1>5
        <4> QED BY <4>1, <4>2, <4>3
      <3>2. CASE i = n + 1
        <4>1. q.at[i] = time BY <3>2, <1>2
        <4> QED BY <4>1, <3>2, <1>1, <1>2, <1>4, SMTT(20)
      <3> QED BY <3>1, <3>2, <1>2
    <2>4. ~(w.count = 0) BY <1>1
    <2>5. Len(q.at) = n + 1 /\ Used(w) = v.count + 1 /\ q.newest = p.newest /\ q.prior = p.prior /\ w.start = v.start
      BY <1>2, <1>3
    <2>6. ASSUME NEW m, m = Len(q.at), NEW u, u = Used(w), m = n + 1, m - u = n - v.count, u <= m
          PROVE  KeyTraced(w, q)
      <3>1. w.count > 0 => w.start = q.newest /\ u <= m BY <2>5, <2>6, <1>4
      <3>2. q.newest <= time /\ q.newest - q.prior > Window BY <2>5, <1>4
      <3>3. \A i \in 1 .. m : /\ q.at[i] <= time /\ q.at[i] <= q.newest + Window
                              /\ w.count > 0 /\ i > m - u => q.at[i] >= q.newest
                              /\ i <= m - u => q.at[i] <= q.prior + Window
                              /\ i <= m - u - MaxReqs => q.at[i] < q.prior
        BY <2>2, <2>5, <2>6
      <3> QED BY <2>4, <2>6, <3>1, <3>2, <3>3 DEF KeyTraced
    <2>7. PICK m, u : m = Len(q.at) /\ u = Used(w) OBVIOUS
    <2>8. m = n + 1 /\ u = v.count + 1 BY <2>5, <2>7, Zenon
    <2>9. m - u = n - v.count /\ u <= m
      <3>1. PICK c : c = v.count OBVIOUS
      <3>2. c \in Nat /\ n \in Nat /\ c <= n /\ m = n + 1 /\ u = c + 1 BY <3>1, <2>0, <2>8, Zenon
      <3>3. m - u = n - c /\ u <= m
        <4>1. n + 1 - (c + 1) = n - c /\ c + 1 <= n + 1 BY <3>2, Counting
        <4> QED BY <4>1, <3>2
      <3> QED BY <3>1, <3>3, Zenon
    <2> QED BY <2>6, <2>7, <2>8, <2>9
  <1>7. Spread(q)
    <2> SUFFICES ASSUME NEW i \in 1 .. n + 1, NEW j \in 1 .. n + 1, j >= i + 2 * MaxReqs
                 PROVE  q.at[j] - q.at[i] > Window
      BY <1>2 DEF Spread
    <2>1. i \in 1 .. n BY <1>2
    <2>2. CASE j \in 1 .. n BY <1>2, <2>1, <2>2 DEF Spread
    <2>3. CASE j = n + 1
      <3>1. i <= n - v.count - MaxReqs BY <1>1, <1>2, <2>3, SMTT(20)
      <3>2. p.at[i] < p.prior BY <2>1, <3>1, <1>5
      <3>3. q.at[j] = time /\ q.at[i] = p.at[i] /\ p.at[i] \in Nat BY <1>2, <2>1, <2>3
      <3>4. time - p.prior > Window BY <1>1, <1>4
      <3>5. PICK a, b : a = p.at[i] /\ b = p.prior OBVIOUS
      <3>6. time - a > Window BY <1>1, <3>2, <3>3, <3>4, <3>5, Further
      <3> QED BY <3>3, <3>5, <3>6, Zenon
    <2> QED BY <2>2, <2>3, <1>2
  <1> QED BY <1>6, <1>7

(* A key is turned away: the count goes on, nothing else changes. *)
LEMMA WindowFull ==
    ASSUME time \in Nat, NEW v \in Visitor, NEW p \in Pass, KeyTraced(v, p),
           v.count >= MaxReqs,
           NEW w \in Visitor, w.count = v.count + 1, w.start = v.start
    PROVE  KeyTraced(w, p)
  <1>1. Used(v) = MaxReqs /\ Used(w) = MaxReqs BY RateNumbers, UsedBounds DEF Visitor
  <1>2. v.count \in Nat /\ v.count > 0 BY RateNumbers DEF Visitor
  <1> QED BY <1>1, <1>2 DEF KeyTraced

LEMMA AllowInv ==
    ASSUME RateInv, NEW k \in Clients, Allow(k)
    PROVE  RateInv'
  <1> USE RateNumbers
  <1>1. PICK l : l = CleanupExpired(limiter) OBVIOUS
  <1>2. PICK v, p : v = l.visitors[k] /\ p = passes[k] OBVIOUS
  <1>3. /\ TableOK(l) /\ l.swept # Never
        /\ \A m \in Clients : l.visitors[m].count > 0 => time - l.visitors[m].start <= Window + CleanupInterval
    BY <1>1, CleanedTable
  <1>4. /\ time \in Nat /\ l \in [visitors : [Clients -> Visitor], swept : Int] /\ passes \in [Clients -> Pass]
        /\ v \in Visitor /\ p \in Pass /\ v.count \in Nat /\ v.start \in Int
        /\ KeyTraced(v, p)
    BY <1>2, <1>3 DEF RateInv, TableOK, Visitor
  <1>5. \A m \in Clients : Spread(passes[m]) BY DEF RateInv, RateBounded, Spread
  <1>6. PICK full \in BOOLEAN :
          full = (v.count = 0 /\ MaxVisitors > 0 /\ Cardinality(Present(l.visitors)) >= MaxVisitors)
    OBVIOUS
  <1>7. PICK opens \in BOOLEAN : opens = ((v.count > 0 /\ time - v.start > Window) \/ (~(v.count > 0) /\ ~full)) OBVIOUS
  <1>8. PICK allowed \in BOOLEAN : allowed = (opens \/ (v.count > 0 /\ v.count < MaxReqs)) OBVIOUS
  <1>9. PICK w : w = IF opens THEN [count |-> 1, start |-> time]
                     ELSE IF v.count > 0 THEN [v EXCEPT !.count = @ + 1] ELSE v
    OBVIOUS
  <1>10. PICK q : q = [at |-> IF allowed THEN Append(p.at, time) ELSE p.at,
                       newest |-> IF opens THEN time ELSE p.newest,
                       prior |-> IF opens THEN p.newest ELSE p.prior]
    OBVIOUS
  <1>11. (v.count > 0) <=> ~(v.count = 0) BY <1>4
  <1>12. /\ limiter' = [l EXCEPT !.visitors[k] = w] /\ passes' = [passes EXCEPT ![k] = q]
         /\ verdict' = [key |-> k, at |-> time, allowed |-> allowed, full |-> full]
         /\ time' = time
    BY <1>1, <1>2, <1>6, <1>7, <1>8, <1>9, <1>10, <1>11 DEF Allow
  <1>13. /\ w \in Visitor
         /\ opens => w.count = 1 /\ w.start = time
         /\ ~opens /\ v.count > 0 => w.count = v.count + 1 /\ w.start = v.start
         /\ ~opens /\ v.count = 0 => w = v
    BY <1>4, <1>9 DEF Visitor
  <1>14. /\ q \in Pass /\ q.at = (IF allowed THEN Append(p.at, time) ELSE p.at)
         /\ q.newest = (IF opens THEN time ELSE p.newest) /\ q.prior = (IF opens THEN p.newest ELSE p.prior)
    <2>1. p.at \in Seq(Nat) /\ p.newest \in Int /\ p.prior \in Int BY <1>4 DEF Pass
    <2>2. Append(p.at, time) \in Seq(Nat) /\ time \in Int BY <2>1, <1>4
    <2> QED BY <2>1, <2>2, <1>10 DEF Pass
  <1>15. KeyTraced(w, q) /\ Spread(q)
    <2>1. Spread(p) BY <1>2, <1>5
    <2>2. CASE opens
      <3>1. allowed /\ (v.count > 0 => time - v.start > Window) BY <2>2, <1>7, <1>8
      <3> QED BY <2>1, <2>2, <3>1, <1>4, <1>13, <1>14, WindowOpens
    <2>3. CASE ~opens /\ v.count > 0 /\ v.count < MaxReqs
      <3>0. ~(v.count > 0 /\ time - v.start > Window) BY <2>3, <1>7, Zenon
      <3>1. time - v.start <= Window BY <2>3, <3>0, <1>4
      <3>2. allowed BY <2>3, <1>8, Zenon
      <3> QED BY <2>1, <2>3, <3>1, <3>2, <1>4, <1>13, <1>14, WindowHolds
    <2>4. CASE ~opens /\ ~(v.count > 0 /\ v.count < MaxReqs)
      <3>1. ~allowed BY <2>4, <1>8
      <3>2. q = p
        <4>1. p = [at |-> p.at, newest |-> p.newest, prior |-> p.prior] BY <1>4 DEF Pass
        <4> QED BY <4>1, <2>4, <3>1, <1>10
      <3>3. CASE v.count = 0 BY <2>1, <2>4, <3>2, <3>3, <1>4, <1>13
      <3>4. CASE v.count > 0 BY <2>1, <2>4, <3>2, <3>4, <1>4, <1>13, WindowFull
      <3> QED BY <3>3, <3>4, <1>4
    <2> QED BY <2>2, <2>3, <2>4
  <1>16. /\ limiter' \in [visitors : [Clients -> Visitor], swept : Int] /\ limiter'.swept = l.swept
         /\ \A m \in Clients : limiter'.visitors[m] = IF m = k THEN w ELSE l.visitors[m]
         /\ passes' \in [Clients -> Pass]
         /\ \A m \in Clients : passes'[m] = IF m = k THEN q ELSE passes[m]
    BY <1>4, <1>12, <1>13, <1>14
  <1>17. RateBounded'
    <2>1. \A m \in Clients : Spread(passes'[m]) BY <1>5, <1>15, <1>16
    <2> QED BY <2>1 DEF RateBounded, Spread
  <1>18. TableOK(limiter)'
    <2>1. l.swept <= time /\ (l.swept # Never => l.swept >= 0) BY <1>3 DEF TableOK
    <2>2. ASSUME NEW m \in Clients
          PROVE  KeyTraced(limiter.visitors[m], passes[m])' /\ KeySwept(limiter.visitors[m], limiter.swept)'
      <3>1. PICK v2, p2 : v2 = limiter'.visitors[m] /\ p2 = passes'[m] OBVIOUS
      <3>2. KeyTraced(v2, p2) BY <3>1, <1>3, <1>15, <1>16 DEF TableOK
      <3>3. KeyTraced(v2, p2)' BY <3>2, <1>12 DEF KeyTraced
      <3>4. KeySwept(v2, l.swept)
        <4>1. CASE m # k BY <4>1, <3>1, <1>3, <1>16 DEF TableOK
        <4>2. CASE m = k
          <5>1. v2 = w /\ KeySwept(v, l.swept) BY <4>2, <3>1, <1>2, <1>3, <1>16 DEF TableOK
          <5>2. CASE opens BY <5>1, <5>2, <2>1, <1>3, <1>4, <1>13 DEF KeySwept
          <5>3. CASE ~opens BY <5>1, <5>3, <1>4, <1>13 DEF KeySwept
          <5> QED BY <5>2, <5>3
        <4> QED BY <4>1, <4>2
      <3> QED BY <3>1, <3>3, <3>4, <1>16 DEF KeyTraced, KeySwept
    <2>3. MaxVisitors > 0 => Cardinality(Present(limiter'.visitors)) <= MaxVisitors
      <3> DEFINE P == Present(l.visitors)
      <3>1. P \subseteq Clients /\ IsFiniteSet(P) /\ Cardinality(P) \in Nat
        BY FS_Subset, FS_CardinalityType DEF Present
      <3>2. MaxVisitors > 0 => Cardinality(P) <= MaxVisitors BY <1>3 DEF TableOK
      <3>3. k \in P <=> v.count > 0 BY <1>2 DEF Present
      <3>4. Present(limiter'.visitors) = IF w.count > 0 THEN P \cup {k} ELSE P \ {k}
        BY <1>16 DEF Present
      <3>5. CASE v.count > 0
        <4>1. w.count > 0 BY <3>5, <1>4, <1>13
        <4>2. Present(limiter'.visitors) = P BY <3>3, <3>4, <3>5, <4>1
        <4> QED BY <4>2, <3>2
      <3>6. CASE v.count = 0 /\ opens
        <4>0. k \notin P BY <3>3, <3>6
        <4>1. Cardinality(P \cup {k}) = Cardinality(P) + 1 BY <4>0, <3>1, FS_AddElement
        <4>2. MaxVisitors > 0 => ~(Cardinality(P) >= MaxVisitors)
          <5>0. ~(v.count > 0) BY <3>6
          <5>1. ~full BY <5>0, <3>6, <1>7, Zenon
          <5> QED BY <5>1, <3>6, <1>6
        <4>3. w.count > 0 BY <3>6, <1>13
        <4> QED BY <4>1, <4>2, <4>3, <3>1, <3>4
      <3>7. CASE v.count = 0 /\ ~opens
        <4>1. Present(limiter'.visitors) = P BY <3>3, <3>4, <3>7, <1>13
        <4> QED BY <4>1, <3>2
      <3> QED BY <3>5, <3>6, <3>7, <1>4
    <2> QED BY <2>1, <2>2, <2>3, <1>12, <1>16 DEF TableOK
  <1>19. RefusedRightly'
    <2> SUFFICES ASSUME ~allowed
                 PROVE  IF full
                        THEN \A m \in Present(limiter'.visitors) :
                               time - limiter'.visitors[m].start <= Window + CleanupInterval
                        ELSE /\ Len(passes'[k].at) >= MaxReqs
                             /\ time - passes'[k].at[Len(passes'[k].at) - MaxReqs + 1] <= Window
      BY <1>12 DEF RefusedRightly
    <2>1. ~opens /\ ~(v.count > 0 /\ v.count < MaxReqs) BY <1>8
    <2>2. CASE full
      <3>1. v.count = 0 /\ w = v BY <2>1, <2>2, <1>6, <1>13
      <3>2. \A m \in Clients : limiter'.visitors[m] = l.visitors[m] BY <3>1, <1>2, <1>16
      <3> QED BY <2>2, <3>2, <1>3 DEF Present
    <2>3. CASE ~full
      <3>1. v.count > 0 /\ v.count >= MaxReqs /\ time - v.start <= Window
        <4>1. v.count > 0 /\ ~(time - v.start > Window) BY <2>1, <2>3, <1>7, Zenon
        <4> QED BY <4>1, <2>1, <1>4
      <3>2. passes'[k].at = p.at /\ p.at \in Seq(Nat) BY <1>4, <1>14, <1>16 DEF Pass
      <3>3. Used(v) = MaxReqs BY <3>1, <1>4, UsedBounds
      <3>4. Len(p.at) \in Nat /\ MaxReqs <= Len(p.at) /\ v.start = p.newest
        BY <3>1, <3>2, <3>3, <1>4 DEF KeyTraced
      <3>5. Len(p.at) - MaxReqs + 1 \in 1 .. Len(p.at) /\ Len(p.at) - MaxReqs + 1 > Len(p.at) - MaxReqs BY <3>4
      <3>6. p.at[Len(p.at) - MaxReqs + 1] >= p.newest BY <3>1, <3>3, <3>5, <1>4 DEF KeyTraced
      <3>7. p.at[Len(p.at) - MaxReqs + 1] \in Nat BY <3>2, <3>5
      <3>8. PICK m, a : m = Len(p.at) /\ a = p.at[Len(p.at) - MaxReqs + 1] OBVIOUS
      <3>9. time - a <= Window BY <3>1, <3>4, <3>6, <3>7, <3>8, <1>4
      <3>10. m >= MaxReqs BY <3>4, <3>8
      <3> QED BY <2>3, <3>2, <3>8, <3>9, <3>10, Zenon
    <2> QED BY <2>2, <2>3
  <1>20. verdict' \in [key : Clients, at : Nat, allowed : BOOLEAN, full : BOOLEAN]
    BY <1>4, <1>12
  <1> QED BY <1>4, <1>12, <1>16, <1>17, <1>18, <1>19, <1>20 DEF RateInv

(* The limiter holds for any clients, limits, intervals and timing: twice  *)
(* the limit is the most that passes in the length of a window, who is     *)
(* turned away used a window up or met a table of recent keys, and the     *)
(* table stays within its size.                                            *)
THEOREM ServiceRateSafe == ServiceSpec => []RateSafe
  <1>1. ServiceInit => RateInv BY RateStart DEF ServiceInit
  <1>2. RateInv /\ UNCHANGED ratesVars => RateInv'
    BY DEF ratesVars, RateInv, TableOK, KeyTraced, RateBounded, RefusedRightly
  <1>3. RateInv /\ RateNext => RateInv' BY TickInv, AllowInv DEF RateNext
  <1>4. RateInv /\ [ServiceNext]_serviceVars => RateInv'
    BY <1>2, <1>3 DEF ServiceNext, serviceVars
  <1>5. RateInv => RateSafe BY DEF RateInv, RateSafe, TableOK, TableBounded
  <1> QED BY <1>1, <1>4, <1>5, PTL DEF ServiceSpec

(***************************************************************************)
(* Accounts and sessions                                                   *)
(***************************************************************************)

Cores == {p.core : p \in Passwords}
Request ==
    [op : {"none", "register", "login", "logout", "enter"},
     step : {"idle", "lookup", "list", "save", "claim", "session", "check", "token", "account", "done"},
     name : Names \cup {Nobody}, core : Cores \cup {Nobody}, pad : Nat,
     user : Requests \cup {Nobody}, token : Requests \cup {Nobody}, first : BOOLEAN,
     seen : SUBSET Requests, stale : BOOLEAN,
     answer : {"none", "invalid", "conflict", "denied", "error", "lost", "ok"}]
User == [name : Names \cup {Nobody}, core : Cores \cup {Nobody}]
Session == [user : Requests \cup {Nobody}, expires : Nat]

AccountsTypeOK ==
    /\ req \in [Requests -> Request]
    /\ users \in [Requests -> User]
    /\ usernames \in [Names -> Requests \cup {Nobody}]
    /\ owner \in [LegacyBooks -> Requests \cup {Nobody}]
    /\ sessions \in [Requests -> Session]
    /\ hour \in Nat
    /\ past \in [issued : [Requests -> Session], ended : SUBSET Requests, interrupted : BOOLEAN]

Issued(t) == past.issued[t] # NoSession

(* What a request knows still holds while others change the stores. *)
Registers(r, q) ==
    /\ q.step \in {"lookup", "list", "save", "claim"} => q.op = "register" /\ q.name \in Names
    /\ q.step \in {"list", "save"} => q.seen \subseteq ListUsers /\ usernames[q.name] \notin q.seen
    /\ q.step = "save" => q.first \/ ListUsers # {}
    /\ q.step = "claim" => q.user = r /\ r \in ListUsers
    /\ r \in ListUsers => /\ q.step \in {"claim", "session", "done"} /\ q.name \in Names
                          /\ users[r] = [name |-> q.name, core |-> q.core]

SignsIn(r, q) ==
    /\ q.step = "check" => q.op = "login" /\ q.name \in Names
    /\ q.step = "session" => /\ q.op \in {"register", "login"}
                             /\ q.user \in ListUsers
                             /\ users[q.user] = [name |-> q.name, core |-> q.core]
    /\ q.answer # "none" <=> q.step = "done"
    /\ Issued(r) => q.answer = "ok"

Enters(q) ==
    /\ q.step \in {"token", "account"} => q.op = "enter"
    /\ q.op = "enter" /\ (q.step # "done" \/ q.answer = "ok") => q.token \in Requests /\ Issued(q.token)
    /\ q.op = "enter" /\ q.step = "token" /\ q.stale =>
         q.token \in past.ended \/ Expired(past.issued[q.token])
    /\ q.op = "enter" /\ (q.step = "account" \/ q.answer = "ok") =>
         ~q.stale /\ q.user = past.issued[q.token].user

RequestsKnow == \A r \in Requests : Registers(r, req[r]) /\ SignsIn(r, req[r]) /\ Enters(req[r])

EndedWereIssued == \A t \in past.ended : Issued(t)

AccountsInv ==
    /\ AccountsTypeOK /\ RequestsKnow /\ EndedWereIssued
    /\ NamesLeadHome /\ SessionsExact /\ LegacyClaimed

-----------------------------------------------------------------------------

LEMMA NobodyIsNew == Nobody \notin Requests /\ Nobody \notin Names
  BY AccountsAssumption DEF Names

LEMMA SentinelTypes == Idle \in Request /\ NoUser \in User /\ NoSession \in Session
  BY DEF Idle, Request, NoUser, User, NoSession, Session

LEMMA AccountsStart == AccountsInit => AccountsInv
  <1> SUFFICES ASSUME AccountsInit PROVE AccountsInv
    OBVIOUS
  <1> USE NobodyIsNew, SentinelTypes
  <1>1. AccountsTypeOK BY DEF AccountsInit, AccountsTypeOK
  <1>2. ListUsers = {} BY DEF AccountsInit, ListUsers
  <1>3. \A t \in Requests : ~Issued(t) BY DEF AccountsInit, Issued
  <1>4. RequestsKnow BY <1>2, <1>3 DEF AccountsInit, RequestsKnow, Registers, SignsIn, Enters, Idle
  <1>5. EndedWereIssued BY DEF AccountsInit, EndedWereIssued
  <1>6. NamesLeadHome BY <1>2 DEF AccountsInit, NamesLeadHome
  <1>7. SessionsExact BY DEF AccountsInit, SessionsExact, SessionExact
  <1>8. LegacyClaimed BY <1>2 DEF AccountsInit, LegacyClaimed
  <1> QED BY <1>1, <1>4, <1>5, <1>6, <1>7, <1>8 DEF AccountsInv

(* A request that is not done takes a step of its own, and no store changes. *)
LEMMA RequestMoves ==
    ASSUME AccountsInv, NEW r \in Requests, NEW q \in Request, req[r].step # "done",
           req' = [req EXCEPT ![r] = q],
           UNCHANGED <<storeVars, hour>>,
           past' \in [issued : [Requests -> Session], ended : SUBSET Requests, interrupted : BOOLEAN],
           past'.issued = past.issued, past'.ended = past.ended, past.interrupted => past'.interrupted,
           Registers(r, q), SignsIn(r, q), Enters(q),
           req[r].step = "claim" => past'.interrupted
    PROVE  AccountsInv'
  <1> USE DEF storeVars
  <1>1. AccountsTypeOK' BY DEF AccountsInv, AccountsTypeOK
  <1>2. ListUsers' = ListUsers BY DEF ListUsers
  <1>3. \A t : Issued(t)' <=> Issued(t) BY DEF Issued
  <1>4. \A s : Expired(s)' <=> Expired(s) BY DEF Expired
  <1>5. \A s \in Requests : req'[s] = IF s = r THEN q ELSE req[s]
    BY DEF AccountsInv, AccountsTypeOK
  <1>6. RequestsKnow'
    <2> SUFFICES ASSUME NEW s \in Requests
                 PROVE  (Registers(s, req[s]) /\ SignsIn(s, req[s]) /\ Enters(req[s]))'
      BY DEF RequestsKnow
    <2>1. PICK p : p = req'[s] OBVIOUS
    <2>2. Registers(s, p) /\ SignsIn(s, p) /\ Enters(p)
      BY <2>1, <1>5 DEF AccountsInv, RequestsKnow
    <2>3. Registers(s, p)' BY <2>2, <1>2 DEF Registers
    <2>4. SignsIn(s, p)' BY <2>2, <1>2, <1>3 DEF SignsIn
    <2>5. Enters(p)' BY <2>2, <1>3, <1>4 DEF Enters
    <2> QED BY <2>1, <2>3, <2>4, <2>5 DEF Registers, SignsIn, Enters
  <1>7. EndedWereIssued' BY <1>3 DEF AccountsInv, EndedWereIssued
  <1>8. NamesLeadHome' BY <1>2 DEF AccountsInv, NamesLeadHome
  <1>9. SessionsExact'
    <2>1. ~Issued(r) BY DEF AccountsInv, RequestsKnow, SignsIn
    <2> SUFFICES ASSUME NEW t \in Requests PROVE SessionExact(t, past.issued[t])'
      BY DEF SessionsExact
    <2>2. PICK s : s = past.issued[t] OBVIOUS
    <2>3. SessionExact(t, s) BY <2>2 DEF AccountsInv, SessionsExact
    <2>4. Issued(t) => req'[t] = req[t] BY <2>1, <1>5
    <2>5. SessionExact(t, s)' BY <2>2, <2>3, <2>4, <1>2, <1>4 DEF SessionExact, Issued
    <2> QED BY <2>2, <2>5 DEF SessionExact
  <1>10. LegacyClaimed' BY <1>2, <1>5 DEF AccountsInv, LegacyClaimed, At
  <1> QED BY <1>1, <1>6, <1>7, <1>8, <1>9, <1>10 DEF AccountsInv

(* The same, when the whole past stays. *)
LEMMA RequestSteps ==
    ASSUME AccountsInv, NEW r \in Requests, NEW q \in Request, req[r].step \notin {"done", "claim"},
           Sets(r, q), UNCHANGED <<storeVars, hour, past>>,
           Registers(r, q), SignsIn(r, q), Enters(q)
    PROVE  AccountsInv'
  <1>1. past' \in [issued : [Requests -> Session], ended : SUBSET Requests, interrupted : BOOLEAN]
    BY DEF AccountsInv, AccountsTypeOK
  <1> QED BY <1>1, RequestMoves DEF Sets

(* A request that is still to ask has left nothing in the stores. *)
LEMMA IdleIsFresh ==
    ASSUME AccountsInv, NEW r \in Requests, req[r].step = "idle"
    PROVE  r \notin ListUsers /\ ~Issued(r)
  BY DEF AccountsInv, RequestsKnow, Registers, SignsIn

LEMMA AsksFields ==
    ASSUME NEW op \in {"register", "login"}, NEW n \in UserNames, NEW p \in Passwords
    PROVE  LET q == Asks(op, n, p)
           IN  q \in Request /\ q.op = op /\ q.name \in Names /\ q.step = "idle" /\ q.answer = "none"
  <1>1. n.norm \in Names /\ p.core \in Cores /\ p.pad \in Nat
    BY AccountsAssumption DEF Names, Cores
  <1> QED BY <1>1 DEF Asks, Idle, Request

LEMMA RegisterInv ==
    ASSUME AccountsInv, NEW r \in Requests, NEW n \in UserNames, NEW p \in Passwords, Register(r, n, p)
    PROVE  AccountsInv'
  <1> DEFINE asked == Asks("register", n, p)
  <1>1. PICK q : /\ Sets(r, q)
                 /\ \/ q = [asked EXCEPT !.step = "lookup"]
                    \/ q = Answered(asked, "invalid")
    BY DEF Register
  <1>4. asked \in Request /\ asked.op = "register" /\ asked.name \in Names /\ asked.answer = "none"
    BY AsksFields
  <1> HIDE DEF asked
  <1>2. /\ q \in Request /\ q.op = "register" /\ q.name \in Names
        /\ \/ q.step = "lookup" /\ q.answer = "none"
           \/ q.step = "done" /\ q.answer = "invalid"
    BY <1>1, <1>4 DEF Answered, Request
  <1>3. Registers(r, q) /\ SignsIn(r, q) /\ Enters(q)
    BY <1>2, IdleIsFresh DEF Register, At, Registers, SignsIn, Enters
  <1> QED BY <1>1, <1>2, <1>3, RequestSteps DEF Register, At

LEMMA LoginInv ==
    ASSUME AccountsInv, NEW r \in Requests, NEW n \in UserNames, NEW p \in Passwords, Login(r, n, p)
    PROVE  AccountsInv'
  <1> DEFINE asked == Asks("login", n, p)
  <1>1. PICK q : /\ Sets(r, q)
                 /\ \/ q = [asked EXCEPT !.step = "check"]
                    \/ q = Answered(asked, "invalid")
                    \/ q = Answered(asked, "denied")
    BY DEF Login
  <1>4. asked \in Request /\ asked.op = "login" /\ asked.name \in Names /\ asked.answer = "none"
    BY AsksFields
  <1> HIDE DEF asked
  <1>2. /\ q \in Request /\ q.op = "login" /\ q.name \in Names
        /\ \/ q.step = "check" /\ q.answer = "none"
           \/ q.step = "done" /\ q.answer \in {"invalid", "denied"}
    BY <1>1, <1>4 DEF Answered, Request
  <1>3. Registers(r, q) /\ SignsIn(r, q) /\ Enters(q)
    BY <1>2, IdleIsFresh DEF Login, At, Registers, SignsIn, Enters
  <1> QED BY <1>1, <1>2, <1>3, RequestSteps DEF Login, At

LEMMA LogoutFailsInv ==
    ASSUME AccountsInv, NEW r \in Requests, NEW t \in Requests \cup {Nobody}, LogoutFails(r, t)
    PROVE  AccountsInv'
  <1>1. PICK q : q = Answered([Idle EXCEPT !.op = "logout", !.token = t], "error") OBVIOUS
  <1>2. q \in Request /\ q.op = "logout" /\ q.step = "done" /\ q.answer = "error"
    BY <1>1 DEF Answered, Idle, Request
  <1>3. Registers(r, q) /\ SignsIn(r, q) /\ Enters(q)
    BY <1>2, IdleIsFresh DEF LogoutFails, At, Registers, SignsIn, Enters
  <1> QED BY <1>1, <1>2, <1>3, RequestSteps DEF LogoutFails, At

LEMMA AuthRequiredInv ==
    ASSUME AccountsInv, NEW r \in Requests, NEW t \in Requests \cup {Nobody}, AuthRequired(r, t)
    PROVE  AccountsInv'
  <1> DEFINE asked == [Idle EXCEPT !.op = "enter", !.token = t]
  <1>1. PICK q : /\ Sets(r, q)
                 /\ \/ q = Answered(asked, "denied")
                    \/ /\ t # Nobody
                       /\ q = [asked EXCEPT !.step = "token",
                                 !.stale = t # Nobody /\ (t \in past.ended \/ Expired(past.issued[t]))]
    BY DEF AuthRequired
  <1>5. asked \in Request /\ asked.op = "enter" /\ asked.token = t /\ asked.answer = "none"
    BY DEF Idle, Request
  <1>6. (t # Nobody /\ (t \in past.ended \/ Expired(past.issued[t]))) \in BOOLEAN OBVIOUS
  <1> HIDE DEF asked
  <1>2. /\ q \in Request /\ q.op = "enter" /\ q.token = t
        /\ \/ q.step = "done" /\ q.answer = "denied"
           \/ /\ q.step = "token" /\ q.answer = "none" /\ t # Nobody
              /\ q.stale => t \in past.ended \/ Expired(past.issued[t])
    BY <1>1, <1>5, <1>6 DEF Answered, Request
  <1>3. t # Nobody => Issued(t) BY DEF AuthRequired, Known, Issued
  <1>4. Registers(r, q) /\ SignsIn(r, q) /\ Enters(q)
    BY <1>2, <1>3, IdleIsFresh DEF AuthRequired, At, Registers, SignsIn, Enters
  <1> QED BY <1>1, <1>2, <1>4, RequestSteps DEF AuthRequired, At

-----------------------------------------------------------------------------

LEMMA RegisterLooksInv ==
    ASSUME AccountsInv, NEW r \in Requests, RegisterLooks(r)
    PROVE  AccountsInv'
  <1>1. req[r] \in Request /\ req[r].step = "lookup" /\ Registers(r, req[r]) /\ SignsIn(r, req[r]) /\ Enters(req[r])
    BY DEF AccountsInv, AccountsTypeOK, RequestsKnow, RegisterLooks, At
  <1>2. PICK q : /\ Sets(r, q)
                 /\ \/ q = Answered(req[r], "conflict")
                    \/ /\ GetUserByUsername(req[r].name) = Nobody
                       /\ q = [req[r] EXCEPT !.step = "list", !.seen = ListUsers]
    BY DEF RegisterLooks
  <1>3. /\ q \in Request /\ q.op = req[r].op /\ q.name = req[r].name
        /\ \/ q.step = "done" /\ q.answer = "conflict"
           \/ /\ q.step = "list" /\ q.answer = req[r].answer /\ q.seen = ListUsers
              /\ GetUserByUsername(req[r].name) = Nobody
    <2>1. CASE q = Answered(req[r], "conflict") BY <2>1, <1>1 DEF Answered, Request
    <2>2. CASE GetUserByUsername(req[r].name) = Nobody /\ q = [req[r] EXCEPT !.step = "list", !.seen = ListUsers]
      <3>1. ListUsers \in SUBSET Requests BY DEF ListUsers
      <3>2. /\ q \in Request /\ q.op = req[r].op /\ q.name = req[r].name
            /\ q.step = "list" /\ q.answer = req[r].answer /\ q.seen = ListUsers
        BY <2>2, <3>1, <1>1 DEF Request
      <3> QED BY <2>2, <3>2
    <2> QED BY <2>1, <2>2, <1>2
  <1>4. GetUserByUsername(req[r].name) = Nobody => usernames[req[r].name] \notin ListUsers
    BY <1>1, NobodyIsNew DEF Registers, GetUserByUsername, ListUsers
  <1>5. Registers(r, q) /\ SignsIn(r, q) /\ Enters(q)
    BY <1>1, <1>3, <1>4 DEF Registers, SignsIn, Enters
  <1> QED BY <1>1, <1>2, <1>3, <1>5, RequestSteps DEF RegisterLooks

LEMMA RegisterListsInv ==
    ASSUME AccountsInv, NEW r \in Requests, RegisterLists(r)
    PROVE  AccountsInv'
  <1>1. req[r] \in Request /\ req[r].step = "list" /\ Registers(r, req[r]) /\ SignsIn(r, req[r]) /\ Enters(req[r])
    BY DEF AccountsInv, AccountsTypeOK, RequestsKnow, RegisterLists, At
  <1>2. PICK q : q = [req[r] EXCEPT !.step = "save", !.first = (ListUsers = {})] OBVIOUS
  <1>3. /\ q \in Request /\ q.step = "save" /\ (q.first <=> ListUsers = {})
        /\ q.op = req[r].op /\ q.name = req[r].name /\ q.seen = req[r].seen /\ q.answer = req[r].answer
    BY <1>1, <1>2 DEF Request
  <1>4. Registers(r, q) /\ SignsIn(r, q) /\ Enters(q)
    BY <1>1, <1>3 DEF Registers, SignsIn, Enters
  <1> QED BY <1>1, <1>2, <1>3, <1>4, RequestSteps DEF RegisterLists

LEMMA LoginChecksInv ==
    ASSUME AccountsInv, NEW r \in Requests, LoginChecks(r)
    PROVE  AccountsInv'
  <1>1. req[r] \in Request /\ req[r].step = "check" /\ Registers(r, req[r]) /\ SignsIn(r, req[r]) /\ Enters(req[r])
    BY DEF AccountsInv, AccountsTypeOK, RequestsKnow, LoginChecks, At
  <1>2. PICK q, u : /\ Sets(r, q) /\ u = GetUserByUsername(req[r].name)
                    /\ \/ q = Answered(req[r], "denied")
                       \/ /\ u # Nobody /\ CheckPassword(u, req[r].core, req[r].pad)
                          /\ q = [req[r] EXCEPT !.step = "session", !.user = u]
    BY DEF LoginChecks
  <1>3. u \in Requests \cup {Nobody} /\ (u # Nobody => u \in ListUsers /\ users[u].name = req[r].name)
    BY <1>1, <1>2 DEF GetUserByUsername, ListUsers, AccountsInv, NamesLeadHome, SignsIn
  <1>4. /\ q \in Request /\ q.op = req[r].op /\ q.name = req[r].name /\ q.core = req[r].core
        /\ \/ q.step = "done" /\ q.answer = "denied"
           \/ /\ q.step = "session" /\ q.answer = req[r].answer /\ q.user = u
              /\ u # Nobody /\ users[u].core = req[r].core
    <2>1. CASE q = Answered(req[r], "denied") BY <2>1, <1>1 DEF Answered, Request
    <2>2. CASE /\ u # Nobody /\ CheckPassword(u, req[r].core, req[r].pad)
               /\ q = [req[r] EXCEPT !.step = "session", !.user = u]
      <3>1. users[u].core = req[r].core BY <2>2 DEF CheckPassword
      <3>2. /\ q \in Request /\ q.op = req[r].op /\ q.name = req[r].name /\ q.core = req[r].core
            /\ q.step = "session" /\ q.answer = req[r].answer /\ q.user = u
        BY <2>2, <1>1, <1>3 DEF Request
      <3> QED BY <2>2, <3>1, <3>2
    <2> QED BY <2>1, <2>2, <1>2
  <1>5. q.step = "session" => users[u] = [name |-> q.name, core |-> q.core]
    <2>1. \A v \in User : v = [name |-> v.name, core |-> v.core] BY DEF User
    <2> QED BY <2>1, <1>3, <1>4 DEF AccountsInv, AccountsTypeOK, ListUsers
  <1>6. Registers(r, q) /\ SignsIn(r, q) /\ Enters(q)
    BY <1>1, <1>3, <1>4, <1>5 DEF Registers, SignsIn, Enters
  <1> QED BY <1>1, <1>2, <1>4, <1>6, RequestSteps DEF LoginChecks

LEMMA GetSessionInv ==
    ASSUME AccountsInv, NEW r \in Requests, GetSession(r)
    PROVE  AccountsInv'
  <1>1. req[r] \in Request /\ req[r].step = "token" /\ Registers(r, req[r]) /\ SignsIn(r, req[r]) /\ Enters(req[r])
    BY DEF AccountsInv, AccountsTypeOK, RequestsKnow, GetSession, At
  <1>2. PICK q, s : /\ Sets(r, q) /\ s = sessions[req[r].token]
                    /\ \/ q = Answered(req[r], "denied")
                       \/ s # NoSession /\ ~Expired(s) /\ q = [req[r] EXCEPT !.step = "account", !.user = s.user]
    BY DEF GetSession
  <1>3. /\ req[r].token \in Requests /\ Issued(req[r].token)
        /\ s \in Session /\ SessionExact(req[r].token, past.issued[req[r].token])
    BY <1>1, <1>2 DEF Enters, AccountsInv, AccountsTypeOK, SessionsExact
  <1>4. /\ q \in Request /\ q.op = req[r].op /\ q.token = req[r].token /\ q.stale = req[r].stale
        /\ \/ q.step = "done" /\ q.answer = "denied"
           \/ /\ q.step = "account" /\ q.answer = req[r].answer /\ q.user = s.user
              /\ s # NoSession /\ ~Expired(s)
    <2>1. CASE q = Answered(req[r], "denied") BY <2>1, <1>1 DEF Answered, Request
    <2>2. CASE s # NoSession /\ ~Expired(s) /\ q = [req[r] EXCEPT !.step = "account", !.user = s.user]
      <3>1. s.user \in Requests \cup {Nobody} BY <1>3 DEF Session
      <3>2. /\ q \in Request /\ q.op = req[r].op /\ q.token = req[r].token /\ q.stale = req[r].stale
            /\ q.step = "account" /\ q.answer = req[r].answer /\ q.user = s.user
        BY <2>2, <3>1, <1>1 DEF Request
      <3> QED BY <2>2, <3>2
    <2> QED BY <2>1, <2>2, <1>2
  <1>5. q.step = "account" => ~q.stale /\ s = past.issued[q.token]
    BY <1>1, <1>2, <1>3, <1>4 DEF SessionExact, Enters, Issued
  <1>6. Registers(r, q) /\ SignsIn(r, q) /\ Enters(q)
    BY <1>1, <1>3, <1>4, <1>5 DEF Registers, SignsIn, Enters
  <1> QED BY <1>1, <1>2, <1>4, <1>6, RequestSteps DEF GetSession

LEMMA GetUserBySessionTokenInv ==
    ASSUME AccountsInv, NEW r \in Requests, GetUserBySessionToken(r)
    PROVE  AccountsInv'
  <1>1. req[r] \in Request /\ req[r].step = "account" /\ Registers(r, req[r]) /\ SignsIn(r, req[r]) /\ Enters(req[r])
    BY DEF AccountsInv, AccountsTypeOK, RequestsKnow, GetUserBySessionToken, At
  <1>2. PICK q : Sets(r, q) /\ (q = Answered(req[r], "ok") \/ q = Answered(req[r], "denied"))
    BY DEF GetUserBySessionToken
  <1>3. /\ q \in Request /\ q.op = req[r].op /\ q.token = req[r].token /\ q.stale = req[r].stale
        /\ q.user = req[r].user /\ q.step = "done" /\ q.answer \in {"ok", "denied"}
    <2>1. CASE q = Answered(req[r], "ok") BY <2>1, <1>1 DEF Answered, Request
    <2>2. CASE q = Answered(req[r], "denied") BY <2>2, <1>1 DEF Answered, Request
    <2> QED BY <2>1, <2>2, <1>2
  <1>4. Registers(r, q) /\ SignsIn(r, q) /\ Enters(q)
    BY <1>1, <1>3 DEF Registers, SignsIn, Enters
  <1> QED BY <1>1, <1>2, <1>3, <1>4, RequestSteps DEF GetUserBySessionToken

LEMMA StoreFailsInv ==
    ASSUME AccountsInv, NEW r \in Requests, StoreFails(r)
    PROVE  AccountsInv'
  <1>1. /\ req[r] \in Request /\ req[r].step \notin {"idle", "done"}
        /\ Registers(r, req[r]) /\ SignsIn(r, req[r]) /\ Enters(req[r])
    BY DEF AccountsInv, AccountsTypeOK, RequestsKnow, StoreFails
  <1>2. PICK q : q = Answered(req[r], "error") OBVIOUS
  <1>3. /\ q \in Request /\ q.op = req[r].op /\ q.step = "done" /\ q.answer = "error"
        /\ q.name = req[r].name /\ q.core = req[r].core
    BY <1>1, <1>2 DEF Answered, Request
  <1>4. Registers(r, q) /\ SignsIn(r, q) /\ Enters(q)
    BY <1>1, <1>3 DEF Registers, SignsIn, Enters
  <1>5. /\ past' \in [issued : [Requests -> Session], ended : SUBSET Requests, interrupted : BOOLEAN]
        /\ past'.issued = past.issued /\ past'.ended = past.ended
        /\ past'.interrupted <=> past.interrupted \/ At(r, "claim")
    BY DEF StoreFails, AccountsInv, AccountsTypeOK
  <1> QED BY <1>1, <1>2, <1>3, <1>4, <1>5, RequestMoves DEF StoreFails, Sets, At

LEMMA CrashInv ==
    ASSUME AccountsInv, Crash
    PROVE  AccountsInv'
  <1> USE DEF storeVars
  <1> DEFINE Open(r) == req[r].step \notin {"idle", "done"}
  <1>1. /\ past' \in [issued : [Requests -> Session], ended : SUBSET Requests, interrupted : BOOLEAN]
        /\ past'.issued = past.issued /\ past'.ended = past.ended
        /\ past'.interrupted <=> past.interrupted \/ \E r \in Requests : At(r, "claim")
    BY DEF Crash, AccountsInv, AccountsTypeOK
  <1>2. \A r \in Requests : req'[r] = IF Open(r) THEN Answered(req[r], "lost") ELSE req[r]
    BY DEF Crash
  <1>3. \A r \in Requests :
          /\ req'[r] \in Request
          /\ Open(r) => /\ req'[r].op = req[r].op /\ req'[r].step = "done" /\ req'[r].answer = "lost"
                        /\ req'[r].name = req[r].name /\ req'[r].core = req[r].core
          /\ ~Open(r) => req'[r] = req[r]
    <2> SUFFICES ASSUME NEW r \in Requests
                 PROVE  /\ req'[r] \in Request
                        /\ Open(r) => /\ req'[r].op = req[r].op /\ req'[r].step = "done" /\ req'[r].answer = "lost"
                                      /\ req'[r].name = req[r].name /\ req'[r].core = req[r].core
                        /\ ~Open(r) => req'[r] = req[r]
      OBVIOUS
    <2>1. req[r] \in Request BY DEF AccountsInv, AccountsTypeOK
    <2>2. PICK q : q = Answered(req[r], "lost") OBVIOUS
    <2>3. /\ q \in Request /\ q.op = req[r].op /\ q.step = "done" /\ q.answer = "lost"
          /\ q.name = req[r].name /\ q.core = req[r].core
      BY <2>1, <2>2 DEF Answered, Request
    <2> QED BY <2>1, <2>2, <2>3, <1>2
  <1>4. AccountsTypeOK' BY <1>1, <1>3 DEF Crash, AccountsInv, AccountsTypeOK
  <1>5. ListUsers' = ListUsers BY DEF ListUsers, Crash
  <1>6. \A t : Issued(t)' <=> Issued(t) BY <1>1 DEF Issued
  <1>7. \A s : Expired(s)' <=> Expired(s) BY DEF Expired, Crash
  <1>8. \A r \in Requests : Issued(r) => ~Open(r)
    BY DEF AccountsInv, RequestsKnow, SignsIn
  <1>9. RequestsKnow'
    <2> SUFFICES ASSUME NEW s \in Requests
                 PROVE  (Registers(s, req[s]) /\ SignsIn(s, req[s]) /\ Enters(req[s]))'
      BY DEF RequestsKnow
    <2>1. PICK p : p = req'[s] OBVIOUS
    <2>2. Registers(s, req[s]) /\ SignsIn(s, req[s]) /\ Enters(req[s])
      BY DEF AccountsInv, RequestsKnow
    <2>3. Registers(s, p) /\ SignsIn(s, p) /\ Enters(p)
      BY <2>1, <2>2, <1>3, <1>8 DEF Registers, SignsIn, Enters
    <2>4. Registers(s, p)' BY <2>3, <1>5 DEF Registers, Crash
    <2>5. SignsIn(s, p)' BY <2>3, <1>5, <1>6 DEF SignsIn, Crash
    <2>6. Enters(p)' BY <2>3, <1>1, <1>6, <1>7 DEF Enters
    <2> QED BY <2>1, <2>4, <2>5, <2>6 DEF Registers, SignsIn, Enters
  <1>10. EndedWereIssued' BY <1>1, <1>6 DEF AccountsInv, EndedWereIssued
  <1>11. NamesLeadHome' BY <1>5 DEF AccountsInv, NamesLeadHome, Crash
  <1>12. SessionsExact'
    <2> SUFFICES ASSUME NEW t \in Requests PROVE SessionExact(t, past.issued[t])'
      BY DEF SessionsExact
    <2>2. PICK s : s = past.issued[t] OBVIOUS
    <2>3. SessionExact(t, s) BY <2>2 DEF AccountsInv, SessionsExact
    <2>4. Issued(t) => req'[t] = req[t] BY <1>3, <1>8
    <2>5. SessionExact(t, s)' BY <2>2, <2>3, <2>4, <1>1, <1>5, <1>7 DEF SessionExact, Issued, Crash
    <2> QED BY <2>2, <2>5, <1>1 DEF SessionExact
  <1>13. LegacyClaimed' BY <1>1, <1>5 DEF AccountsInv, LegacyClaimed, Crash
  <1> QED BY <1>4, <1>9, <1>10, <1>11, <1>12, <1>13 DEF AccountsInv

LEMMA SaveUserInv ==
    ASSUME AccountsInv, NEW r \in Requests, SaveUser(r)
    PROVE  /\ AccountsInv'
           /\ \A n \in Names : usernames[n] \notin {Nobody, usernames'[n]} => usernames[n] \notin req[usernames'[n]].seen
  <1>1. /\ req[r] \in Request /\ req[r].step = "save" /\ req[r].name \in Names /\ req[r].core \in Cores \cup {Nobody}
        /\ Registers(r, req[r]) /\ SignsIn(r, req[r]) /\ Enters(req[r])
    BY DEF AccountsInv, AccountsTypeOK, RequestsKnow, SaveUser, At, Registers, Request
  <1>2. PICK q : q = [req[r] EXCEPT !.step = IF req[r].first THEN "claim" ELSE "session", !.user = r] OBVIOUS
  <1>3. /\ q \in Request /\ q.op = req[r].op /\ q.name = req[r].name /\ q.core = req[r].core
        /\ q.answer = req[r].answer /\ q.user = r
        /\ q.step = IF req[r].first THEN "claim" ELSE "session"
    BY <1>1, <1>2 DEF Request
  <1>4. \A s \in Requests : req'[s] = IF s = r THEN q ELSE req[s]
    BY <1>2 DEF SaveUser, Sets, AccountsInv, AccountsTypeOK
  <1>5. PICK u : u = [name |-> req[r].name, core |-> req[r].core] OBVIOUS
  <1>6. u \in User /\ u # NoUser BY <1>1, <1>5, NobodyIsNew DEF User, NoUser
  <1>7. /\ users' = [users EXCEPT ![r] = u] /\ usernames' = [usernames EXCEPT ![req[r].name] = r]
        /\ UNCHANGED <<owner, sessions, hour, past>>
    BY <1>5 DEF SaveUser
  <1>8. AccountsTypeOK'
    BY <1>1, <1>3, <1>6, <1>7, <1>2 DEF AccountsInv, AccountsTypeOK, SaveUser, Sets
  <1>9. /\ ListUsers' = ListUsers \cup {r} /\ r \notin ListUsers
        /\ \A s \in Requests : users'[s] = IF s = r THEN u ELSE users[s]
    <2>1. \A s \in Requests : users'[s] = IF s = r THEN u ELSE users[s]
      BY <1>7 DEF AccountsInv, AccountsTypeOK
    <2> QED BY <2>1, <1>1, <1>6 DEF ListUsers, Registers
  <1>10. \A n \in Names : usernames'[n] = IF n = req[r].name THEN r ELSE usernames[n]
    BY <1>7 DEF AccountsInv, AccountsTypeOK
  <1>11. \A t : Issued(t)' <=> Issued(t) BY <1>7 DEF Issued
  <1>12. \A s : Expired(s)' <=> Expired(s) BY <1>7 DEF Expired
  <1>13. RequestsKnow'
    <2> SUFFICES ASSUME NEW s \in Requests
                 PROVE  (Registers(s, req[s]) /\ SignsIn(s, req[s]) /\ Enters(req[s]))'
      BY DEF RequestsKnow
    <2>1. PICK p : p = req'[s] OBVIOUS
    <2>2. Registers(s, req[s]) /\ SignsIn(s, req[s]) /\ Enters(req[s])
      BY DEF AccountsInv, RequestsKnow
    <2>3. Registers(s, p)'
      <3>1. CASE s = r BY <3>1, <2>1, <1>1, <1>3, <1>4, <1>5, <1>9 DEF Registers
      <3>2. CASE s # r
        <4>1. p = req[s] BY <3>2, <2>1, <1>4
        <4>2. /\ users'[s] = users[s] /\ (s \in ListUsers' <=> s \in ListUsers)
              /\ ListUsers \subseteq ListUsers' /\ ListUsers' # {}
          BY <3>2, <1>9
        <4>3. p.step \in {"list", "save"} => p.seen \subseteq ListUsers' /\ usernames'[p.name] \notin p.seen
          BY <4>1, <2>2, <1>9, <1>10 DEF Registers
        <4> QED BY <4>1, <4>2, <4>3, <2>2 DEF Registers
      <3> QED BY <3>1, <3>2
    <2>4. SignsIn(s, p)'
      BY <2>1, <2>2, <1>1, <1>3, <1>4, <1>5, <1>9, <1>11 DEF SignsIn, Registers, ListUsers
    <2>5. Enters(p)' BY <2>1, <2>2, <1>1, <1>3, <1>4, <1>7, <1>11, <1>12 DEF Enters, Registers
    <2> QED BY <2>1, <2>3, <2>4, <2>5 DEF Registers, SignsIn, Enters
  <1>14. EndedWereIssued' BY <1>7, <1>11 DEF AccountsInv, EndedWereIssued
  <1>15. NamesLeadHome'
    <2>1. \A v \in ListUsers : v \in Requests /\ users[v].name \in Names
      <3> SUFFICES ASSUME NEW v \in ListUsers PROVE v \in Requests /\ users[v].name \in Names
        OBVIOUS
      <3>1. v \in Requests BY DEF ListUsers
      <3>2. Registers(v, req[v]) BY <3>1 DEF AccountsInv, RequestsKnow
      <3> QED BY <3>1, <3>2 DEF Registers
    <2>2. u.name = req[r].name BY <1>5
    <2>3. \A v \in ListUsers' : usernames'[users'[v].name] # Nobody
      BY <2>1, <2>2, <1>1, <1>9, <1>10, NobodyIsNew DEF AccountsInv, NamesLeadHome
    <2>4. \A n \in Names : usernames'[n] # Nobody =>
            usernames'[n] \in ListUsers' /\ users'[usernames'[n]].name = n
      BY <2>1, <2>2, <1>9, <1>10 DEF AccountsInv, NamesLeadHome
    <2> QED BY <2>3, <2>4 DEF NamesLeadHome
  <1>16. SessionsExact'
    <2> SUFFICES ASSUME NEW t \in Requests PROVE SessionExact(t, past.issued[t])'
      BY DEF SessionsExact
    <2>1. PICK s : s = past.issued[t] OBVIOUS
    <2>2. SessionExact(t, s) BY <2>1 DEF AccountsInv, SessionsExact
    <2>3. Issued(t) => t # r BY <1>1 DEF SignsIn
    <2>4. SessionExact(t, s)' BY <2>1, <2>2, <2>3, <1>4, <1>7, <1>9, <1>12 DEF SessionExact, Issued, ListUsers
    <2> QED BY <2>1, <2>4, <1>7 DEF SessionExact
  <1>17. LegacyClaimed'
    <2>1. req[r].first => At(r, "claim")' BY <1>3, <1>4 DEF At
    <2>2. \A s \in Requests : At(s, "claim") => At(s, "claim")' BY <1>1, <1>4 DEF At
    <2>3. req[r].first \/ ListUsers # {} BY <1>1 DEF Registers
    <2> QED BY <2>1, <2>2, <2>3, <1>7, <1>9 DEF AccountsInv, LegacyClaimed
  <1>18. \A n \in Names : usernames[n] \notin {Nobody, usernames'[n]} => usernames[n] \notin req[usernames'[n]].seen
    BY <1>1, <1>10 DEF Registers
  <1> QED BY <1>8, <1>13, <1>14, <1>15, <1>16, <1>17, <1>18 DEF AccountsInv

LEMMA AssignInv ==
    ASSUME AccountsInv, NEW r \in Requests, AssignUnownedDataToUser(r)
    PROVE  AccountsInv' /\ \A b \in LegacyBooks : owner[b] # Nobody => owner'[b] = owner[b]
  <1>1. /\ req[r] \in Request /\ req[r].step = "claim"
        /\ Registers(r, req[r]) /\ SignsIn(r, req[r]) /\ Enters(req[r])
    BY DEF AccountsInv, AccountsTypeOK, RequestsKnow, AssignUnownedDataToUser, At
  <1>2. PICK q : q = [req[r] EXCEPT !.step = "session"] OBVIOUS
  <1>3. /\ q \in Request /\ q.op = req[r].op /\ q.name = req[r].name /\ q.core = req[r].core
        /\ q.answer = req[r].answer /\ q.user = req[r].user /\ q.step = "session"
    BY <1>1, <1>2 DEF Request
  <1>4. \A s \in Requests : req'[s] = IF s = r THEN q ELSE req[s]
    BY <1>2 DEF AssignUnownedDataToUser, Sets, AccountsInv, AccountsTypeOK
  <1>5. UNCHANGED <<users, usernames, sessions, hour, past>> BY DEF AssignUnownedDataToUser
  <1>6. \A b \in LegacyBooks : owner'[b] = IF owner[b] = Nobody THEN r ELSE owner[b]
    BY DEF AssignUnownedDataToUser
  <1>7. AccountsTypeOK'
    BY <1>2, <1>3, <1>5 DEF AccountsInv, AccountsTypeOK, AssignUnownedDataToUser, Sets
  <1>8. ListUsers' = ListUsers BY <1>5 DEF ListUsers
  <1>9. \A t : Issued(t)' <=> Issued(t) BY <1>5 DEF Issued
  <1>10. \A s : Expired(s)' <=> Expired(s) BY <1>5 DEF Expired
  <1>11. RequestsKnow'
    <2> SUFFICES ASSUME NEW s \in Requests
                 PROVE  (Registers(s, req[s]) /\ SignsIn(s, req[s]) /\ Enters(req[s]))'
      BY DEF RequestsKnow
    <2>1. PICK p : p = req'[s] OBVIOUS
    <2>2. Registers(s, req[s]) /\ SignsIn(s, req[s]) /\ Enters(req[s])
      BY DEF AccountsInv, RequestsKnow
    <2>3. Registers(s, p) /\ SignsIn(s, p) /\ Enters(p)
      BY <2>1, <2>2, <1>1, <1>3, <1>4 DEF Registers, SignsIn, Enters
    <2>4. Registers(s, p)' BY <2>3, <1>5, <1>8 DEF Registers
    <2>5. SignsIn(s, p)' BY <2>3, <1>5, <1>8, <1>9 DEF SignsIn
    <2>6. Enters(p)' BY <2>3, <1>5, <1>9, <1>10 DEF Enters
    <2> QED BY <2>1, <2>4, <2>5, <2>6 DEF Registers, SignsIn, Enters
  <1>12. EndedWereIssued' BY <1>5, <1>9 DEF AccountsInv, EndedWereIssued
  <1>13. NamesLeadHome' BY <1>5, <1>8 DEF AccountsInv, NamesLeadHome
  <1>14. SessionsExact'
    <2> SUFFICES ASSUME NEW t \in Requests PROVE SessionExact(t, past.issued[t])'
      BY DEF SessionsExact
    <2>1. PICK s : s = past.issued[t] OBVIOUS
    <2>2. SessionExact(t, s) BY <2>1 DEF AccountsInv, SessionsExact
    <2>3. Issued(t) => t # r BY <1>1 DEF SignsIn
    <2>4. SessionExact(t, s)' BY <2>1, <2>2, <2>3, <1>4, <1>5, <1>8, <1>10 DEF SessionExact, Issued
    <2> QED BY <2>1, <2>4, <1>5 DEF SessionExact
  <1>15. LegacyClaimed' BY <1>1, <1>6, <1>8, NobodyIsNew DEF AccountsInv, LegacyClaimed, Registers
  <1> QED BY <1>6, <1>7, <1>11, <1>12, <1>13, <1>14, <1>15 DEF AccountsInv

LEMMA SaveSessionInv ==
    ASSUME AccountsInv, NEW r \in Requests, SaveSession(r)
    PROVE  AccountsInv'
  <1>1. /\ req[r] \in Request /\ req[r].step = "session"
        /\ Registers(r, req[r]) /\ SignsIn(r, req[r]) /\ Enters(req[r])
    BY DEF AccountsInv, AccountsTypeOK, RequestsKnow, SaveSession, At
  <1>2. PICK q : q = Answered(req[r], "ok") OBVIOUS
  <1>3. /\ q \in Request /\ q.op = req[r].op /\ q.name = req[r].name /\ q.core = req[r].core
        /\ q.answer = "ok" /\ q.user = req[r].user /\ q.step = "done"
    BY <1>1, <1>2 DEF Request, Answered
  <1>4. \A s \in Requests : req'[s] = IF s = r THEN q ELSE req[s]
    BY <1>2 DEF SaveSession, Sets, AccountsInv, AccountsTypeOK
  <1>5. PICK s : s = [user |-> req[r].user, expires |-> hour + SessionDuration] OBVIOUS
  <1>6. s \in Session /\ s.user = req[r].user /\ s # NoSession
    <2>1. hour + SessionDuration \in Nat /\ req[r].user \in Requests
      BY <1>1, AccountsAssumption DEF AccountsInv, AccountsTypeOK, SignsIn, ListUsers
    <2> QED BY <2>1, <1>5, NobodyIsNew DEF Session, NoSession
  <1>7. /\ UNCHANGED <<users, usernames, owner, hour>>
        /\ sessions' = [sessions EXCEPT ![r] = s]
        /\ past' = [past EXCEPT !.issued[r] = s]
    BY <1>5 DEF SaveSession
  <1>8. /\ past' \in [issued : [Requests -> Session], ended : SUBSET Requests, interrupted : BOOLEAN]
        /\ past'.ended = past.ended /\ past'.interrupted = past.interrupted
        /\ \A t \in Requests : past'.issued[t] = IF t = r THEN s ELSE past.issued[t]
        /\ \A t \in Requests : sessions'[t] = IF t = r THEN s ELSE sessions[t]
    BY <1>6, <1>7 DEF AccountsInv, AccountsTypeOK
  <1>9. AccountsTypeOK'
    BY <1>2, <1>3, <1>6, <1>7, <1>8 DEF AccountsInv, AccountsTypeOK, SaveSession, Sets
  <1>10. ListUsers' = ListUsers BY <1>7 DEF ListUsers
  <1>11. \A t \in Requests : Issued(t)' <=> t = r \/ Issued(t) BY <1>6, <1>8 DEF Issued
  <1>12. \A v : Expired(v)' <=> Expired(v) BY <1>7 DEF Expired
  <1>13. ~Issued(r) BY <1>1 DEF SignsIn
  <1>14. RequestsKnow'
    <2> SUFFICES ASSUME NEW v \in Requests
                 PROVE  (Registers(v, req[v]) /\ SignsIn(v, req[v]) /\ Enters(req[v]))'
      BY DEF RequestsKnow
    <2>1. PICK p : p = req'[v] OBVIOUS
    <2>2. Registers(v, req[v]) /\ SignsIn(v, req[v]) /\ Enters(req[v])
      BY DEF AccountsInv, RequestsKnow
    <2>3. Registers(v, p)' BY <2>1, <2>2, <1>3, <1>4, <1>7, <1>10 DEF Registers
    <2>4. SignsIn(v, p)' BY <2>1, <2>2, <1>3, <1>4, <1>7, <1>10, <1>11 DEF SignsIn
    <2>5. Enters(p)' BY <2>1, <2>2, <1>1, <1>3, <1>4, <1>8, <1>11, <1>12, <1>13 DEF Enters, SignsIn
    <2> QED BY <2>1, <2>3, <2>4, <2>5 DEF Registers, SignsIn, Enters
  <1>15. EndedWereIssued'
    BY <1>8, <1>11 DEF AccountsInv, AccountsTypeOK, EndedWereIssued
  <1>16. NamesLeadHome' BY <1>7, <1>10 DEF AccountsInv, NamesLeadHome
  <1>17. SessionsExact'
    <2> SUFFICES ASSUME NEW t \in Requests PROVE SessionExact(t, past.issued[t])'
      BY DEF SessionsExact
    <2>1. PICK v : v = past'.issued[t] OBVIOUS
    <2>2. CASE t = r
      <3>1. v = s /\ sessions'[t] = s /\ req'[t] = q BY <2>1, <2>2, <1>4, <1>8
      <3>2. t \notin past'.ended
        BY <2>2, <1>8, <1>13 DEF AccountsInv, EndedWereIssued
      <3>3. SessionExact(t, v)'
        BY <3>1, <3>2, <1>1, <1>3, <1>6, <1>7, <1>10 DEF SessionExact, SignsIn
      <3> QED BY <3>3, <2>1 DEF SessionExact
    <2>3. CASE t # r
      <3>1. v = past.issued[t] /\ sessions'[t] = sessions[t] /\ req'[t] = req[t]
        BY <2>1, <2>3, <1>4, <1>8
      <3>2. SessionExact(t, v) BY <3>1 DEF AccountsInv, SessionsExact
      <3>3. SessionExact(t, v)' BY <3>1, <3>2, <1>7, <1>8, <1>10, <1>12 DEF SessionExact
      <3> QED BY <3>3, <2>1 DEF SessionExact
    <2> QED BY <2>2, <2>3
  <1>18. LegacyClaimed'
    <2>1. \A v \in Requests : At(v, "claim") => At(v, "claim")' BY <1>1, <1>4 DEF At
    <2> QED BY <2>1, <1>7, <1>8, <1>10 DEF AccountsInv, LegacyClaimed
  <1> QED BY <1>9, <1>14, <1>15, <1>16, <1>17, <1>18 DEF AccountsInv

(* Sessions end, one by name or all that have expired, as the past says they may. *)
LEMMA SessionsEnd ==
    ASSUME AccountsInv, NEW e \in SUBSET Requests,
           UNCHANGED <<users, usernames, owner, hour>>,
           \A t \in Requests : sessions'[t] = IF t \in e THEN NoSession ELSE sessions[t],
           sessions' \in [Requests -> Session],
           past' \in [issued : [Requests -> Session], ended : SUBSET Requests, interrupted : BOOLEAN],
           past'.issued = past.issued, past'.interrupted = past.interrupted,
           past.ended \subseteq past'.ended,
           \A t \in past'.ended : t \in past.ended \/ (t \in e /\ Issued(t)),
           \A t \in e : t \in past'.ended \/ Expired(sessions[t]) \/ ~Issued(t),
           NEW r \in Requests, NEW q \in Request, req' = [req EXCEPT ![r] = q],
           q = req[r] \/ (req[r].step = "idle" /\ q.op = "logout" /\ q.step = "done" /\ q.answer # "none")
    PROVE  AccountsInv'
  <1>1. \A s \in Requests : req'[s] = IF s = r THEN q ELSE req[s]
    BY DEF AccountsInv, AccountsTypeOK
  <1>2. AccountsTypeOK' BY DEF AccountsInv, AccountsTypeOK
  <1>3. ListUsers' = ListUsers BY DEF ListUsers
  <1>4. \A t : Issued(t)' <=> Issued(t) BY DEF Issued
  <1>5. \A s : Expired(s)' <=> Expired(s) BY DEF Expired
  <1>6. RequestsKnow'
    <2> SUFFICES ASSUME NEW s \in Requests
                 PROVE  (Registers(s, req[s]) /\ SignsIn(s, req[s]) /\ Enters(req[s]))'
      BY DEF RequestsKnow
    <2>1. PICK p : p = req'[s] OBVIOUS
    <2>2. Registers(s, req[s]) /\ SignsIn(s, req[s]) /\ Enters(req[s])
      BY DEF AccountsInv, RequestsKnow
    <2>3. Registers(s, p) /\ SignsIn(s, p) /\ Enters(p)
      BY <2>1, <2>2, <1>1 DEF Registers, SignsIn, Enters
    <2>4. Registers(s, p)' BY <2>3, <1>3 DEF Registers
    <2>5. SignsIn(s, p)' BY <2>3, <1>3, <1>4 DEF SignsIn
    <2>6. Enters(p)' BY <2>3, <1>4, <1>5 DEF Enters
    <2> QED BY <2>1, <2>4, <2>5, <2>6 DEF Registers, SignsIn, Enters
  <1>7. EndedWereIssued' BY <1>4 DEF AccountsInv, EndedWereIssued
  <1>8. NamesLeadHome' BY <1>3 DEF AccountsInv, NamesLeadHome
  <1>9. SessionsExact'
    <2> SUFFICES ASSUME NEW t \in Requests PROVE SessionExact(t, past.issued[t])'
      BY DEF SessionsExact
    <2>1. PICK s : s = past.issued[t] OBVIOUS
    <2>2. SessionExact(t, s) BY <2>1 DEF AccountsInv, SessionsExact
    <2>3. Issued(t) => req'[t] = req[t] BY <1>1, IdleIsFresh
    <2>4. Issued(t) /\ t \in past'.ended => sessions'[t] = NoSession
      BY <2>1, <2>2 DEF SessionExact, Issued
    <2>5. Issued(t) /\ t \notin past'.ended => Expired(s) \/ sessions'[t] = s
      BY <2>1, <2>2 DEF SessionExact, Issued
    <2>6. sessions'[t] \in {NoSession, s} BY <2>1, <2>2 DEF SessionExact
    <2>7. SessionExact(t, s)'
      BY <2>1, <2>2, <2>3, <2>4, <2>5, <2>6, <1>3, <1>5 DEF SessionExact, Issued
    <2> QED BY <2>1, <2>7 DEF SessionExact
  <1>10. LegacyClaimed'
    <2>1. \A v \in Requests : At(v, "claim") => At(v, "claim")' BY <1>1 DEF At
    <2> QED BY <2>1, <1>3 DEF AccountsInv, LegacyClaimed
  <1> QED BY <1>2, <1>6, <1>7, <1>8, <1>9, <1>10 DEF AccountsInv

LEMMA LogoutInv ==
    ASSUME AccountsInv, NEW r \in Requests, NEW t \in Requests \cup {Nobody}, Logout(r, t)
    PROVE  AccountsInv'
  <1> DEFINE asked == [Idle EXCEPT !.op = "logout", !.token = t]
  <1>1. PICK q : Sets(r, q) /\ (q = Answered(asked, "invalid") \/ q = Answered(asked, "ok"))
    BY DEF Logout
  <1>9. asked \in Request /\ asked.op = "logout" BY DEF Idle, Request
  <1> HIDE DEF asked
  <1>2. q \in Request /\ q.op = "logout" /\ q.step = "done" /\ q.answer # "none"
    BY <1>1, <1>9 DEF Answered, Request
  <1>3. PICK e : e = {t} \ {Nobody} OBVIOUS
  <1>4. e \in SUBSET Requests BY <1>3
  <1>5. /\ past' \in [issued : [Requests -> Session], ended : SUBSET Requests, interrupted : BOOLEAN]
        /\ past'.issued = past.issued /\ past'.interrupted = past.interrupted
        /\ past'.ended = past.ended \cup e
    BY <1>3, <1>4 DEF Logout, AccountsInv, AccountsTypeOK
  <1>6. /\ \A k \in Requests : sessions'[k] = IF k \in e THEN NoSession ELSE sessions[k]
        /\ sessions' \in [Requests -> Session]
    BY <1>3, NobodyIsNew, SentinelTypes DEF Logout, AccountsInv, AccountsTypeOK
  <1>7. \A k \in e : Issued(k) BY <1>3 DEF Logout, Known, Issued
  <1>8. req[r].step = "idle" /\ req' = [req EXCEPT ![r] = q] /\ UNCHANGED <<users, usernames, owner, hour>>
    BY <1>1 DEF Logout, At, Sets
  <1> QED BY <1>2, <1>4, <1>5, <1>6, <1>7, <1>8, SessionsEnd

LEMMA CleanInv ==
    ASSUME AccountsInv, CleanExpiredSessions
    PROVE  AccountsInv'
  <1>1. CASE Requests = {}
    <2>1. sessions' = sessions BY <1>1 DEF CleanExpiredSessions, AccountsInv, AccountsTypeOK
    <2> QED BY <1>1, <2>1 DEF CleanExpiredSessions, AccountsInv, AccountsTypeOK, RequestsKnow, EndedWereIssued,
               NamesLeadHome, SessionsExact, LegacyClaimed, ListUsers, Issued, At
  <1>2. ASSUME NEW r \in Requests PROVE AccountsInv'
    <2>1. PICK e : e = {t \in Requests : Expired(sessions[t])} OBVIOUS
    <2>2. /\ \A k \in Requests : sessions'[k] = IF k \in e THEN NoSession ELSE sessions[k]
          /\ sessions' \in [Requests -> Session]
      BY <2>1, SentinelTypes DEF CleanExpiredSessions, AccountsInv, AccountsTypeOK
    <2>3. past' \in [issued : [Requests -> Session], ended : SUBSET Requests, interrupted : BOOLEAN]
      BY DEF CleanExpiredSessions, AccountsInv, AccountsTypeOK
    <2>4. PICK q : q = req[r] OBVIOUS
    <2>5. q \in Request /\ req' = [req EXCEPT ![r] = q]
      BY <2>4 DEF CleanExpiredSessions, AccountsInv, AccountsTypeOK
    <2> QED BY <2>1, <2>2, <2>3, <2>4, <2>5, SessionsEnd DEF CleanExpiredSessions
  <1> QED BY <1>1, <1>2

LEMMA HourInv ==
    ASSUME AccountsInv, HourPasses
    PROVE  AccountsInv'
  <1> USE DEF storeVars
  <1>1. AccountsTypeOK' BY DEF HourPasses, AccountsInv, AccountsTypeOK
  <1>2. ListUsers' = ListUsers BY DEF ListUsers, HourPasses
  <1>3. \A t : Issued(t)' <=> Issued(t) BY DEF Issued, HourPasses
  <1>4. \A s \in Session : Expired(s) => Expired(s)'
    BY DEF Expired, HourPasses, AccountsInv, AccountsTypeOK, Session
  <1>5. RequestsKnow'
    <2> SUFFICES ASSUME NEW s \in Requests
                 PROVE  (Registers(s, req[s]) /\ SignsIn(s, req[s]) /\ Enters(req[s]))'
      BY DEF RequestsKnow
    <2>2. Registers(s, req[s]) /\ SignsIn(s, req[s]) /\ Enters(req[s])
      BY DEF AccountsInv, RequestsKnow
    <2>3. Registers(s, req[s])' BY <2>2, <1>2 DEF Registers, HourPasses
    <2>4. SignsIn(s, req[s])' BY <2>2, <1>2, <1>3 DEF SignsIn, HourPasses
    <2>5. Enters(req[s])' BY <2>2, <1>3, <1>4 DEF Enters, HourPasses, AccountsInv, AccountsTypeOK
    <2> QED BY <2>3, <2>4, <2>5
  <1>6. EndedWereIssued' BY <1>3 DEF AccountsInv, EndedWereIssued, HourPasses
  <1>7. NamesLeadHome' BY <1>2 DEF AccountsInv, NamesLeadHome, HourPasses
  <1>8. SessionsExact'
    BY <1>2, <1>4 DEF AccountsInv, AccountsTypeOK, SessionsExact, SessionExact, HourPasses
  <1>9. LegacyClaimed' BY <1>2 DEF AccountsInv, LegacyClaimed, HourPasses, At
  <1> QED BY <1>1, <1>5, <1>6, <1>7, <1>8, <1>9 DEF AccountsInv

NothingTakenStep ==
    /\ \A n \in Names : usernames[n] \notin {Nobody, usernames'[n]} => usernames[n] \notin req[usernames'[n]].seen
    /\ \A b \in LegacyBooks : owner[b] # Nobody => owner'[b] = owner[b]

LEMMA AccountsStep == AccountsInv /\ AccountsNext => AccountsInv' /\ NothingTakenStep
  <1> SUFFICES ASSUME AccountsInv, AccountsNext PROVE AccountsInv' /\ NothingTakenStep
    OBVIOUS
  <1>1. \/ \E r \in Requests, n \in UserNames, p \in Passwords : Register(r, n, p) \/ Login(r, n, p)
        \/ \E r \in Requests, t \in Requests \cup {Nobody} : Logout(r, t) \/ LogoutFails(r, t) \/ AuthRequired(r, t)
        \/ \E r \in Requests : \/ RegisterLooks(r) \/ RegisterLists(r) \/ SaveUser(r) \/ AssignUnownedDataToUser(r)
                               \/ SaveSession(r) \/ LoginChecks(r) \/ GetSession(r) \/ GetUserBySessionToken(r)
                               \/ StoreFails(r)
        \/ Crash \/ CleanExpiredSessions \/ HourPasses
    BY DEF AccountsNext
  <1>2. AccountsInv'
    BY <1>1, RegisterInv, LoginInv, LogoutInv, LogoutFailsInv, AuthRequiredInv, RegisterLooksInv, RegisterListsInv,
       SaveUserInv, AssignInv, SaveSessionInv, LoginChecksInv, GetSessionInv, GetUserBySessionTokenInv,
       StoreFailsInv, CrashInv, CleanInv, HourInv
  <1>3. \A n \in Names : usernames[n] \notin {Nobody, usernames'[n]} => usernames[n] \notin req[usernames'[n]].seen
    <2>1. CASE \E r \in Requests : SaveUser(r) BY <2>1, SaveUserInv
    <2>2. CASE UNCHANGED usernames BY <2>2
    <2> QED BY <1>1, <2>1, <2>2 DEF Register, Login, Logout, LogoutFails, AuthRequired, RegisterLooks, RegisterLists,
          AssignUnownedDataToUser, SaveSession, LoginChecks, GetSession, GetUserBySessionToken, StoreFails, Crash,
          CleanExpiredSessions, HourPasses, storeVars
  <1>4. \A b \in LegacyBooks : owner[b] # Nobody => owner'[b] = owner[b]
    <2>1. CASE \E r \in Requests : AssignUnownedDataToUser(r) BY <2>1, AssignInv
    <2>2. CASE UNCHANGED owner BY <2>2
    <2> QED BY <1>1, <2>1, <2>2 DEF Register, Login, Logout, LogoutFails, AuthRequired, RegisterLooks, RegisterLists,
          SaveUser, SaveSession, LoginChecks, GetSession, GetUserBySessionToken, StoreFails, Crash,
          CleanExpiredSessions, HourPasses, storeVars
  <1> QED BY <1>2, <1>3, <1>4 DEF NothingTakenStep

(* Nothing of another service touches the accounts. *)
LEMMA AccountsUntouched == AccountsInv /\ UNCHANGED signInVars => AccountsInv' /\ NothingTakenStep
  <1> SUFFICES ASSUME AccountsInv, UNCHANGED signInVars PROVE AccountsInv' /\ NothingTakenStep
    OBVIOUS
  <1> USE DEF signInVars, storeVars
  <1>1. ListUsers' = ListUsers BY DEF ListUsers
  <1>2. AccountsTypeOK' /\ EndedWereIssued' /\ NamesLeadHome' /\ LegacyClaimed'
    BY <1>1 DEF AccountsInv, AccountsTypeOK, EndedWereIssued, NamesLeadHome, LegacyClaimed, Issued, At
  <1>3. RequestsKnow'
    BY <1>1 DEF AccountsInv, RequestsKnow, Registers, SignsIn, Enters, Issued, Expired
  <1>4. SessionsExact' BY <1>1 DEF AccountsInv, SessionsExact, SessionExact, Expired
  <1> QED BY <1>2, <1>3, <1>4 DEF AccountsInv, NothingTakenStep

(* Accounts and sessions hold whatever requests run side by side, fail or  *)
(* are lost in a crash: names lead to their accounts, a session is exactly *)
(* what was opened and not yet ended, only current tokens enter, and data  *)
(* never changes hands.                                                    *)
THEOREM ServiceAccountsSafe == ServiceSpec => AccountsSafe
  <1>1. ServiceInit => AccountsInv BY AccountsStart DEF ServiceInit
  <1>2. AccountsInv /\ [ServiceNext]_serviceVars => AccountsInv' /\ NothingTakenStep
    BY AccountsStep, AccountsUntouched DEF ServiceNext, serviceVars
  <1>3. AccountsInv => NamesLeadHome /\ SessionsExact /\ AdmittedRightly /\ LegacyClaimed
    BY DEF AccountsInv, RequestsKnow, Enters, AdmittedRightly
  <1>4. ServiceSpec => []AccountsInv BY <1>1, <1>2, PTL DEF ServiceSpec
  <1>5. ServiceSpec => [](NamesLeadHome /\ SessionsExact /\ AdmittedRightly /\ LegacyClaimed)
    BY <1>3, <1>4, PTL
  <1>6. AccountsInv /\ [ServiceNext]_serviceVars => [NothingTakenStep]_accountVars BY <1>2
  <1>7. ServiceSpec => [][NothingTakenStep]_accountVars BY <1>4, <1>6, PTL DEF ServiceSpec
  <1>8. ServiceSpec => NothingTaken BY <1>7, PTL DEF NothingTaken, NothingTakenStep
  <1> QED BY <1>5, <1>8, PTL DEF AccountsSafe

(***************************************************************************)
(* Backups and restores                                                    *)
(***************************************************************************)

Numbers == 1 .. MaxBackups
Backup == [state : {"none", "temporary", "published", "crumbling", "removed"}, main : SUBSET BookIds,
           sessions : BOOLEAN, uploads : SUBSET BookIds, sealed : BOOLEAN, damaged : BOOLEAN, born : Int]
Target == [there : SUBSET {"main", "sessions", "uploads"}, main : SUBSET BookIds, uploads : SUBSET BookIds]

Creates == [step : {"idle", "main", "sessions", "walk", "copy", "publish", "remove"},
            n : 0 .. MaxBackups, left : SUBSET (BookIds \cup Numbers)]
Restores == [step : {"idle", "databases", "uploads", "renameMain", "renameSessions", "renameUploads"},
             from : 0 .. MaxBackups, main : SUBSET BookIds, uploads : SUBSET BookIds, found : Target,
             spoiled : BOOLEAN, answer : {"none", "ok", "failed", "stopped"}]

BackupsTypeOK ==
    /\ volumes \in [BookIds -> {"none", "written", "stored", "dropped", "gone"}]
    /\ backups \in [Numbers -> Backup]
    /\ create \in Creates
    /\ restore \in Restores
    /\ target \in Target
    /\ day \in Int

Removed(b) == volumes[b] \in {"dropped", "gone"}

(* What Create has done so far.  A sealed directory is whole and is not written any more. *)
MakingBackup ==
    LET n == create.n
    IN  /\ \A m \in Numbers : m > n => backups[m] = NoBackup
        /\ create.step # "idle" => n \in Numbers
        /\ create.step \notin {"idle", "remove"} => backups[n].state = "temporary"
        /\ create.step \in {"main", "sessions", "walk", "copy"} => ~backups[n].sealed
        /\ create.step \in {"walk", "copy"} => backups[n].sessions
        /\ create.step \in {"sessions", "walk"} => \A b \in backups[n].main : volumes[b] = "stored" \/ Removed(b)
        /\ create.step = "copy" =>
             \A b \in backups[n].main : b \in create.left \/ b \in backups[n].uploads \/ Removed(b)
        /\ create.step = "publish" => backups[n].sealed
        /\ create.step = "remove" => backups[n].state = "published" /\ \A m \in create.left : m \in Numbers /\ m < n

SealedWhole ==
    \A n \in Numbers :
      /\ backups[n].state = "published" => backups[n].sealed
      /\ backups[n].sealed => /\ backups[n].sessions
                              /\ \A b \in backups[n].main \ backups[n].uploads : Removed(b)

(* What Restore has copied and renamed so far. *)
Restoring ==
    LET s == restore.step
        from == backups[restore.from]
    IN  /\ s # "idle" => restore.found = NoTarget /\ restore.answer = "none"
        /\ s # "idle" \/ restore.answer = "ok" => restore.from \in Numbers /\ from.sealed
        /\ s # "idle" /\ from.state = "crumbling" => restore.spoiled
        /\ s \in {"databases", "uploads", "renameMain"} => target = NoTarget
        /\ s = "renameSessions" => target = [there |-> {"main"}, main |-> restore.main, uploads |-> {}]
        /\ s = "renameUploads" => target = [there |-> {"main", "sessions"}, main |-> restore.main, uploads |-> {}]
        /\ s \notin {"idle", "databases"} /\ ~restore.spoiled => restore.main = from.main
        /\ s \in {"renameMain", "renameSessions", "renameUploads"} /\ ~restore.spoiled => restore.uploads = from.uploads

BackupsInv == BackupsTypeOK /\ MakingBackup /\ SealedWhole /\ Restoring /\ RestoredWhole

-----------------------------------------------------------------------------

LEMMA BackupSentinels == NoBackup \in Backup /\ NoTarget \in Target
  BY DEF NoBackup, Backup, NoTarget, Target

LEMMA BackupsStart == BackupsInit => BackupsInv
  <1> SUFFICES ASSUME BackupsInit PROVE BackupsInv
    OBVIOUS
  <1> USE BackupsAssumption, BackupSentinels
  <1>1. target \in Target BY DEF BackupsInit, Target, NoTarget
  <1>2. restore \in Restores
    BY DEF BackupsInit, NoRestore, Restores
  <1>3. BackupsTypeOK BY <1>1, <1>2 DEF BackupsInit, BackupsTypeOK, Restores, Creates, Numbers
  <1>4. MakingBackup BY DEF BackupsInit, MakingBackup, Numbers
  <1>5. SealedWhole BY DEF BackupsInit, SealedWhole, Numbers, NoBackup
  <1>6. Restoring /\ RestoredWhole BY DEF BackupsInit, Restoring, RestoredWhole, NoRestore
  <1> QED BY <1>3, <1>4, <1>5, <1>6 DEF BackupsInv

(* Create does not disturb a restore: what is sealed stays as it is. *)
LEMMA RestoreUnaware ==
    ASSUME BackupsInv, UNCHANGED restoreVars,
           \A m \in Numbers : /\ backups[m].sealed => /\ backups'[m].sealed /\ backups'[m].main = backups[m].main
                                                      /\ backups'[m].uploads = backups[m].uploads
                              /\ backups'[m].state = "crumbling" => backups[m].state = "crumbling"
    PROVE  Restoring' /\ RestoredWhole'
  <1> USE DEF restoreVars
  <1>1. Restoring' BY DEF BackupsInv, Restoring
  <1>2. RestoredWhole' BY DEF BackupsInv, RestoredWhole, Restoring
  <1> QED BY <1>1, <1>2

(* A restore does not disturb Create. *)
LEMMA CreateUnaware ==
    ASSUME BackupsInv, UNCHANGED <<libraryVars, createVars>>
    PROVE  MakingBackup' /\ SealedWhole'
  BY DEF BackupsInv, MakingBackup, SealedWhole, Removed, libraryVars, createVars

LEMMA LibraryMovesInv ==
    ASSUME BackupsInv, NEW b \in BookIds, LibraryMoves(b)
    PROVE  BackupsInv'
  <1> USE DEF LibraryMoves
  <1>1. /\ volumes' \in [BookIds -> {"none", "written", "stored", "dropped", "gone"}]
        /\ \A c \in BookIds : /\ Removed(c) => Removed(c)'
                              /\ volumes[c] = "stored" => volumes'[c] = "stored" \/ Removed(c)'
    BY DEF BackupsInv, BackupsTypeOK, Removed
  <1>2. BackupsTypeOK' BY <1>1 DEF BackupsInv, BackupsTypeOK
  <1>3. \A m \in Numbers : backups[m].main \subseteq BookIds
    BY DEF BackupsInv, BackupsTypeOK, Backup
  <1>4. MakingBackup'
    <2>1. \A m \in Numbers : \A c \in backups[m].main : c \in BookIds BY <1>3
    <2> QED BY <2>1, <1>1 DEF BackupsInv, MakingBackup
  <1>5. SealedWhole' BY <1>1, <1>3 DEF BackupsInv, SealedWhole
  <1>6. Restoring' /\ RestoredWhole' BY RestoreUnaware DEF restoreVars
  <1> QED BY <1>2, <1>4, <1>5, <1>6 DEF BackupsInv

LEMMA DayInv ==
    ASSUME BackupsInv, DayPasses
    PROVE  BackupsInv'
  <1> USE DEF DayPasses
  <1>1. BackupsTypeOK' BY DEF BackupsInv, BackupsTypeOK
  <1>2. MakingBackup' BY DEF BackupsInv, MakingBackup, Removed
  <1>3. SealedWhole' BY DEF BackupsInv, SealedWhole, Removed
  <1>4. Restoring' /\ RestoredWhole' BY RestoreUnaware DEF restoreVars
  <1> QED BY <1>1, <1>2, <1>3, <1>4 DEF BackupsInv

(* Create may go on to step st with directory n as b and what is left to do: *)
(* nothing sealed changes, and b is what the step says it is.                *)
Fits(n, b, st, left) ==
    /\ n >= create.n
    /\ b.state # "crumbling"
    /\ backups[n].sealed => b.sealed /\ b.main = backups[n].main /\ b.uploads = backups[n].uploads
    /\ b.state = "published" => b.sealed
    /\ b.sealed => b.sessions /\ \A c \in b.main \ b.uploads : Removed(c)
    /\ st \notin {"idle", "remove"} => b.state = "temporary"
    /\ st \in {"main", "sessions", "walk", "copy"} => ~b.sealed
    /\ st \in {"walk", "copy"} => b.sessions
    /\ st \in {"sessions", "walk"} => \A c \in b.main : volumes[c] = "stored" \/ Removed(c)
    /\ st = "copy" => \A c \in b.main : c \in left \/ c \in b.uploads \/ Removed(c)
    /\ st = "publish" => b.sealed
    /\ st = "remove" => b.state = "published" /\ \A m \in left : m \in Numbers /\ m < n

LEMMA CreateMoves ==
    ASSUME BackupsInv, NEW n \in Numbers, NEW b \in Backup, NEW left \in SUBSET (BookIds \cup Numbers),
           NEW st \in {"idle", "main", "sessions", "walk", "copy", "publish", "remove"},
           Fits(n, b, st, left),
           create' = [step |-> st, n |-> n, left |-> left],
           backups' = [backups EXCEPT ![n] = b],
           UNCHANGED <<libraryVars, restoreVars>>
    PROVE  BackupsInv'
  <1> USE DEF Fits
  <1>1. \A m \in Numbers : backups'[m] = IF m = n THEN b ELSE backups[m]
    BY DEF BackupsInv, BackupsTypeOK
  <1>2. BackupsTypeOK'
    BY <1>1, BackupsAssumption DEF BackupsInv, BackupsTypeOK, Restores, Creates, libraryVars, restoreVars, Numbers
  <1>3. create'.step = st /\ create'.n = n /\ create'.left = left OBVIOUS
  <1>4. \A c : Removed(c)' <=> Removed(c) BY DEF Removed, libraryVars
  <1>5. MakingBackup'
    <2>1. \A m \in Numbers : m > n => backups'[m] = NoBackup
      BY <1>1, BackupsAssumption DEF BackupsInv, MakingBackup, BackupsTypeOK, Restores, Creates, Numbers
    <2> QED BY <2>1, <1>1, <1>3, <1>4 DEF MakingBackup, libraryVars
  <1>6. SealedWhole' BY <1>1, <1>4 DEF BackupsInv, SealedWhole
  <1>7. Restoring' /\ RestoredWhole' BY <1>1, RestoreUnaware
  <1> QED BY <1>2, <1>5, <1>6, <1>7 DEF BackupsInv

(* What is known of the directory Create is about. *)
LEMMA CreateKnows ==
    ASSUME BackupsInv, create.step # "idle"
    PROVE  /\ create.n \in Numbers /\ backups[create.n] \in Backup
           /\ create.left \in SUBSET (BookIds \cup Numbers)
           /\ create = [step |-> create.step, n |-> create.n, left |-> create.left]
  BY DEF BackupsInv, BackupsTypeOK, Restores, Creates, MakingBackup

LEMMA CreateStartsInv ==
    ASSUME BackupsInv, CreateStarts
    PROVE  BackupsInv'
  <1>1. PICK n, st, left : n = create.n + 1 /\ st = "main" /\ left = {} OBVIOUS
  <1>2. n \in Numbers /\ n > create.n /\ backups[n] = NoBackup
    BY <1>1, BackupsAssumption DEF CreateStarts, BackupsInv, BackupsTypeOK, Restores, Creates, MakingBackup, Numbers
  <1>3. PICK b : b = [NoBackup EXCEPT !.state = "temporary"] OBVIOUS
  <1>4. b \in Backup /\ b.state = "temporary" /\ ~b.sealed /\ b.main = {}
    <2>1. NoBackup.sealed = FALSE /\ NoBackup.main = {} BY DEF NoBackup
    <2> QED BY <1>3, <2>1, BackupSentinels DEF Backup
  <1>5. backups' = [backups EXCEPT ![n] = b]
    BY <1>1, <1>2, <1>3 DEF CreateStarts
  <1>6. ~backups[n].sealed /\ create' = [step |-> st, n |-> n, left |-> left]
    BY <1>1, <1>2 DEF NoBackup, CreateStarts
  <1>8. n >= create.n /\ UNCHANGED <<libraryVars, restoreVars>>
    BY <1>1, BackupsAssumption DEF CreateStarts, BackupsInv, BackupsTypeOK, Restores, Creates
  <1>9. Fits(n, b, st, left) BY <1>1, <1>2, <1>4, <1>5, <1>6, <1>8 DEF Fits
  <1> QED BY <1>1, <1>2, <1>4, <1>5, <1>6, <1>8, <1>9, CreateMoves

LEMMA BackupMainInv ==
    ASSUME BackupsInv, BackupMain
    PROVE  BackupsInv'
  <1>1. PICK n, st, left : n = create.n /\ st = "sessions" /\ left = create.left OBVIOUS
  <1>2. /\ n \in Numbers /\ backups[n] \in Backup /\ left \in SUBSET (BookIds \cup Numbers)
        /\ create' = [step |-> st, n |-> n, left |-> left]
        /\ backups[n].state = "temporary" /\ ~backups[n].sealed
    BY <1>1, CreateKnows DEF BackupMain, BackupsInv, BackupsTypeOK, MakingBackup
  <1>3. PICK b : b = [backups[n] EXCEPT !.main = Records] OBVIOUS
  <1>4. b \in Backup /\ b.main = Records /\ b.state = "temporary" /\ ~b.sealed
    BY <1>2, <1>3 DEF Backup, Records
  <1>5. backups' = [backups EXCEPT ![n] = b] BY <1>1, <1>3 DEF BackupMain
  <1>6. \A c \in b.main : volumes[c] = "stored" BY <1>4 DEF Records
  <1>8. n >= create.n /\ UNCHANGED <<libraryVars, restoreVars>>
    BY <1>1, BackupsAssumption DEF BackupMain, BackupsInv, BackupsTypeOK, Restores, Creates
  <1>9. Fits(n, b, st, left) BY <1>1, <1>2, <1>4, <1>5, <1>6, <1>8 DEF Fits
  <1> QED BY <1>1, <1>2, <1>4, <1>5, <1>6, <1>8, <1>9, CreateMoves

LEMMA BackupSessionsInv ==
    ASSUME BackupsInv, BackupSessions
    PROVE  BackupsInv'
  <1>1. PICK n, st, left : n = create.n /\ st = "walk" /\ left = create.left OBVIOUS
  <1>2. /\ n \in Numbers /\ backups[n] \in Backup /\ left \in SUBSET (BookIds \cup Numbers)
        /\ create' = [step |-> st, n |-> n, left |-> left]
        /\ backups[n].state = "temporary" /\ ~backups[n].sealed
        /\ \A c \in backups[n].main : volumes[c] = "stored" \/ Removed(c)
    BY <1>1, CreateKnows DEF BackupSessions, BackupsInv, BackupsTypeOK, MakingBackup
  <1>3. PICK b : b = [backups[n] EXCEPT !.sessions = TRUE] OBVIOUS
  <1>4. b \in Backup /\ b.main = backups[n].main /\ b.state = "temporary" /\ ~b.sealed /\ b.sessions
    BY <1>2, <1>3 DEF Backup
  <1>5. backups' = [backups EXCEPT ![n] = b] BY <1>1, <1>3 DEF BackupSessions
  <1>8. n >= create.n /\ UNCHANGED <<libraryVars, restoreVars>>
    BY <1>1, BackupsAssumption DEF BackupSessions, BackupsInv, BackupsTypeOK, Restores, Creates
  <1>9. Fits(n, b, st, left) BY <1>1, <1>2, <1>4, <1>5, <1>8 DEF Fits
  <1> QED BY <1>1, <1>2, <1>4, <1>5, <1>8, <1>9, CreateMoves

LEMMA WalkUploadsInv ==
    ASSUME BackupsInv, WalkUploads
    PROVE  BackupsInv'
  <1>1. PICK n, st, left : n = create.n /\ st = "copy" /\ left = Uploads OBVIOUS
  <1>2. /\ n \in Numbers /\ backups[n] \in Backup /\ left \in SUBSET (BookIds \cup Numbers)
        /\ create' = [step |-> st, n |-> n, left |-> left]
        /\ backups[n].state = "temporary" /\ ~backups[n].sealed /\ backups[n].sessions
        /\ \A c \in backups[n].main : volumes[c] = "stored" \/ Removed(c)
    BY <1>1, CreateKnows DEF WalkUploads, BackupsInv, BackupsTypeOK, MakingBackup, Uploads
  <1>3. \A c \in backups[n].main : c \in left \/ Removed(c)
    BY <1>1, <1>2 DEF Uploads, Backup
  <1>4. PICK b : b = backups[n] OBVIOUS
  <1>5. backups' = [backups EXCEPT ![n] = b] BY <1>2, <1>4 DEF WalkUploads, BackupsInv, BackupsTypeOK
  <1>8. n >= create.n /\ UNCHANGED <<libraryVars, restoreVars>>
    BY <1>1, BackupsAssumption DEF WalkUploads, BackupsInv, BackupsTypeOK, Restores, Creates
  <1>9. Fits(n, b, st, left) BY <1>1, <1>2, <1>3, <1>4, <1>5, <1>8 DEF Fits
  <1> QED BY <1>1, <1>2, <1>3, <1>4, <1>5, <1>8, <1>9, CreateMoves

LEMMA CopyUploadInv ==
    ASSUME BackupsInv, NEW f \in BookIds, CopyUpload(f)
    PROVE  BackupsInv'
  <1>1. PICK n, st, left : n = create.n /\ st = "copy" /\ left = create.left \ {f} OBVIOUS
  <1>2. /\ n \in Numbers /\ backups[n] \in Backup /\ left \in SUBSET (BookIds \cup Numbers)
        /\ create' = [step |-> st, n |-> n, left |-> left]
        /\ backups[n].state = "temporary" /\ ~backups[n].sealed /\ backups[n].sessions
        /\ \A c \in backups[n].main : c \in create.left \/ c \in backups[n].uploads \/ Removed(c)
    BY <1>1, CreateKnows DEF CopyUpload, BackupsInv, BackupsTypeOK, MakingBackup
  <1>3. PICK b : b = [backups[n] EXCEPT !.uploads = @ \cup {f}] OBVIOUS
  <1>4. /\ b \in Backup /\ b.main = backups[n].main /\ b.state = "temporary" /\ ~b.sealed /\ b.sessions
        /\ b.uploads = backups[n].uploads \cup {f}
    BY <1>2, <1>3 DEF Backup
  <1>5. backups' = [backups EXCEPT ![n] = b] BY <1>1, <1>3 DEF CopyUpload
  <1>8. n >= create.n /\ UNCHANGED <<libraryVars, restoreVars>>
    BY <1>1, BackupsAssumption DEF CopyUpload, BackupsInv, BackupsTypeOK, Restores, Creates
  <1>9. Fits(n, b, st, left) BY <1>1, <1>2, <1>4, <1>5, <1>8 DEF Fits
  <1> QED BY <1>1, <1>2, <1>4, <1>5, <1>8, <1>9, CreateMoves

LEMMA SealInv ==
    ASSUME BackupsInv, Seal
    PROVE  BackupsInv'
  <1>1. PICK n, st, left : n = create.n /\ st = "publish" /\ left = create.left OBVIOUS
  <1>2. /\ n \in Numbers /\ backups[n] \in Backup /\ left \in SUBSET (BookIds \cup Numbers)
        /\ create' = [step |-> st, n |-> n, left |-> left]
        /\ backups[n].state = "temporary" /\ ~backups[n].sealed /\ backups[n].sessions
        /\ \A c \in backups[n].main : c \in backups[n].uploads \/ Removed(c)
    BY <1>1, CreateKnows DEF Seal, BackupsInv, BackupsTypeOK, MakingBackup
  <1>3. PICK b : b = [backups[n] EXCEPT !.sealed = TRUE, !.born = day] OBVIOUS
  <1>4. /\ b \in Backup /\ b.main = backups[n].main /\ b.state = "temporary" /\ b.sealed /\ b.sessions
        /\ b.uploads = backups[n].uploads
    BY <1>2, <1>3 DEF Backup, BackupsInv, BackupsTypeOK
  <1>5. backups' = [backups EXCEPT ![n] = b] BY <1>1, <1>2, <1>3 DEF Seal, BackupsInv, BackupsTypeOK
  <1>8. n >= create.n /\ UNCHANGED <<libraryVars, restoreVars>>
    BY <1>1, BackupsAssumption DEF Seal, BackupsInv, BackupsTypeOK, Restores, Creates
  <1>9. Fits(n, b, st, left) BY <1>1, <1>2, <1>4, <1>5, <1>8 DEF Fits
  <1> QED BY <1>1, <1>2, <1>4, <1>5, <1>8, <1>9, CreateMoves

LEMMA PublishBackupInv ==
    ASSUME BackupsInv, PublishBackup
    PROVE  BackupsInv'
  <1>1. PICK n, left : n = create.n /\ left = OlderThanRetention OBVIOUS
  <1>2. PICK st : st \in {"idle", "remove"} /\ create' = [create EXCEPT !.step = st, !.left = left]
    BY <1>1 DEF PublishBackup
  <1>3. /\ n \in Numbers /\ backups[n] \in Backup /\ left \in SUBSET (BookIds \cup Numbers)
        /\ create' = [step |-> st, n |-> n, left |-> left]
        /\ backups[n].state = "temporary" /\ backups[n].sealed /\ backups[n].sessions
        /\ \A c \in backups[n].main \ backups[n].uploads : Removed(c)
    BY <1>1, <1>2, CreateKnows DEF PublishBackup, BackupsInv, BackupsTypeOK, MakingBackup, SealedWhole,
       OlderThanRetention, Numbers
  <1>4. PICK b : b = [backups[n] EXCEPT !.state = "published"] OBVIOUS
  <1>5. /\ b \in Backup /\ b.main = backups[n].main /\ b.state = "published" /\ b.sealed /\ b.sessions
        /\ b.uploads = backups[n].uploads
    BY <1>3, <1>4 DEF Backup
  <1>6. backups' = [backups EXCEPT ![n] = b] BY <1>1, <1>4 DEF PublishBackup
  <1>7. \A m \in left : m \in Numbers /\ m < n
    <2> SUFFICES ASSUME NEW m \in left PROVE m \in Numbers /\ m < n
      OBVIOUS
    <2>1. m \in Numbers /\ backups[m].state \in {"published", "crumbling"} BY <1>1 DEF OlderThanRetention, Numbers
    <2>2. m # n /\ ~(m > n) BY <2>1, <1>1, <1>3 DEF BackupsInv, MakingBackup, NoBackup
    <2> QED BY <2>1, <2>2, <1>3, BackupsAssumption DEF Numbers
  <1>8. n >= create.n /\ UNCHANGED <<libraryVars, restoreVars>>
    BY <1>1, BackupsAssumption DEF PublishBackup, BackupsInv, BackupsTypeOK, Restores, Creates
  <1>9. Fits(n, b, st, left) BY <1>1, <1>2, <1>3, <1>5, <1>6, <1>7, <1>8 DEF Fits
  <1>10. st \in {"idle", "main", "sessions", "walk", "copy", "publish", "remove"} BY <1>2
  <1> QED BY <1>3, <1>5, <1>6, <1>8, <1>9, <1>10, CreateMoves

LEMMA CreateEndsInv ==
    ASSUME BackupsInv, CreateEnds \/ ServerStops
    PROVE  BackupsInv'
  <1>1. PICK n, st, left : n = create.n /\ st = "idle" /\ left = create'.left OBVIOUS
  <1>2. /\ n \in Numbers /\ backups[n] \in Backup /\ left \in SUBSET (BookIds \cup Numbers)
        /\ create' = [step |-> st, n |-> n, left |-> left] /\ backups' = backups
    BY <1>1, CreateKnows DEF CreateEnds, ServerStops, BackupsInv, BackupsTypeOK
  <1>3. PICK b : b = backups[n] OBVIOUS
  <1>4. backups' = [backups EXCEPT ![n] = b] BY <1>2, <1>3 DEF BackupsInv, BackupsTypeOK
  <1>5. n >= create.n /\ UNCHANGED <<libraryVars, restoreVars>>
    BY <1>1, BackupsAssumption DEF CreateEnds, ServerStops, BackupsInv, BackupsTypeOK, Restores, Creates
  <1>6. b.state # "crumbling"
    BY <1>1, <1>3 DEF CreateEnds, ServerStops, BackupsInv, BackupsTypeOK, MakingBackup
  <1>7. Fits(n, b, st, left) BY <1>1, <1>2, <1>3, <1>5, <1>6 DEF Fits, BackupsInv, SealedWhole
  <1> QED BY <1>1, <1>2, <1>3, <1>4, <1>5, <1>7, CreateMoves

LEMMA CreateFailsInv ==
    ASSUME BackupsInv, CreateFails
    PROVE  BackupsInv'
  <1>1. PICK n, st, left : n = create.n /\ st = "idle" /\ left = {} OBVIOUS
  <1>2. /\ n \in Numbers /\ backups[n] \in Backup /\ left \in SUBSET (BookIds \cup Numbers)
        /\ create' = [step |-> st, n |-> n, left |-> left]
    BY <1>1, CreateKnows DEF CreateFails, BackupsInv, BackupsTypeOK
  <1>3. PICK b : b = [backups[n] EXCEPT !.state = IF @ = "temporary" THEN "removed" ELSE @] OBVIOUS
  <1>4. /\ b \in Backup /\ b.sealed = backups[n].sealed /\ b.main = backups[n].main /\ b.uploads = backups[n].uploads
        /\ b.sessions = backups[n].sessions /\ b.state \in {"removed", backups[n].state}
    BY <1>2, <1>3 DEF Backup
  <1>5. backups' = [backups EXCEPT ![n] = b] BY <1>1, <1>2, <1>3 DEF CreateFails, BackupsInv, BackupsTypeOK
  <1>6. n >= create.n /\ UNCHANGED <<libraryVars, restoreVars>>
    BY <1>1, BackupsAssumption DEF CreateFails, BackupsInv, BackupsTypeOK, Restores, Creates
  <1>7. b.state # "crumbling"
    BY <1>1, <1>4 DEF CreateFails, BackupsInv, BackupsTypeOK, MakingBackup
  <1>8. Fits(n, b, st, left) BY <1>1, <1>2, <1>4, <1>6, <1>7 DEF Fits, BackupsInv, SealedWhole
  <1> QED BY <1>1, <1>2, <1>4, <1>5, <1>6, <1>8, CreateMoves

(* A backup other than the one being made loses files or is damaged: a restore from it is spoiled. *)
LEMMA BackupWorsens ==
    ASSUME BackupsInv, NEW n \in Numbers, NEW b \in Backup,
           backups' = [backups EXCEPT ![n] = b],
           UNCHANGED <<libraryVars, target>>,
           create'.step = create.step, create'.n = create.n, create'.left \subseteq create.left,
           create' \in Creates,
           create'.left = create.left \/ create.step = "remove",
           b.sealed = backups[n].sealed, b.main = backups[n].main, b.uploads = backups[n].uploads,
           b.sessions = backups[n].sessions,
           b.state # "published" => n < create.n, b.state = "published" => backups[n].state = "published",
           create.step \notin {"idle", "remove"} => n # create.n,
           n <= create.n,
           restore' \in Restores,
           restore'.step = restore.step, restore'.from = restore.from, restore'.main = restore.main,
           restore'.uploads = restore.uploads, restore'.found = restore.found, restore'.answer = restore.answer,
           restore.spoiled => restore'.spoiled,
           b.state = "crumbling" /\ restore.from = n => restore'.spoiled
    PROVE  BackupsInv'
  <1>1. \A m \in Numbers : backups'[m] = IF m = n THEN b ELSE backups[m]
    BY DEF BackupsInv, BackupsTypeOK
  <1>2. BackupsTypeOK' BY DEF BackupsInv, BackupsTypeOK, libraryVars
  <1>3. \A c : Removed(c)' <=> Removed(c) BY DEF Removed, libraryVars
  <1>4. MakingBackup'
    <2>1. \A m \in Numbers : m > create.n => backups'[m] = NoBackup
      BY <1>1, BackupsAssumption DEF BackupsInv, BackupsTypeOK, Restores, Creates, MakingBackup, Numbers
    <2>2. create.step # "idle" => create.n \in Numbers BY DEF BackupsInv, MakingBackup
    <2>3. create.step = "remove" => backups'[create.n].state = "published"
      BY <1>1, <2>2, BackupsAssumption DEF BackupsInv, MakingBackup, Numbers
    <2>4. create.step \notin {"idle", "remove"} => backups'[create.n] = backups[create.n] /\ create'.left = create.left
      BY <1>1, <2>2
    <2> QED BY <2>1, <2>2, <2>3, <2>4, <1>3 DEF BackupsInv, MakingBackup, libraryVars
  <1>5. SealedWhole' BY <1>1, <1>3 DEF BackupsInv, SealedWhole
  <1>6. Restoring' BY <1>1 DEF BackupsInv, Restoring
  <1>7. RestoredWhole' BY <1>1 DEF BackupsInv, RestoredWhole, Restoring
  <1> QED BY <1>2, <1>4, <1>5, <1>6, <1>7 DEF BackupsInv

LEMMA SpoilsFields ==
    ASSUME BackupsInv, NEW n \in Numbers, restore' = [restore EXCEPT !.spoiled = @ \/ restore.from = n]
    PROVE  /\ restore' \in Restores
           /\ restore'.step = restore.step /\ restore'.from = restore.from /\ restore'.main = restore.main
           /\ restore'.uploads = restore.uploads /\ restore'.found = restore.found
           /\ restore'.answer = restore.answer
           /\ restore'.spoiled <=> restore.spoiled \/ restore.from = n
  BY DEF BackupsInv, BackupsTypeOK, Restores, Creates

LEMMA DamageInv ==
    ASSUME BackupsInv, NEW n \in Numbers, Damage(n)
    PROVE  BackupsInv'
  <1>1. PICK b : b = [backups[n] EXCEPT !.damaged = TRUE] OBVIOUS
  <1>2. backups[n] \in Backup /\ backups[n].state = "published"
    BY DEF Damage, BackupsInv, BackupsTypeOK
  <1>3. /\ b \in Backup /\ b.state = "published" /\ b.sealed = backups[n].sealed /\ b.main = backups[n].main
        /\ b.uploads = backups[n].uploads /\ b.sessions = backups[n].sessions
    BY <1>1, <1>2 DEF Backup
  <1>4. backups' = [backups EXCEPT ![n] = b] BY <1>1 DEF Damage
  <1>5. n <= create.n
    BY <1>2, BackupsAssumption DEF BackupsInv, BackupsTypeOK, Restores, Creates, MakingBackup, NoBackup, Numbers
  <1>6. create.step \notin {"idle", "remove"} => n # create.n
    BY <1>2 DEF BackupsInv, MakingBackup
  <1>7. create \in Creates
    BY DEF BackupsInv, BackupsTypeOK
  <1>8. restore' = [restore EXCEPT !.spoiled = @ \/ restore.from = n]
    BY DEF Damage
  <1>9. UNCHANGED <<libraryVars, target>> /\ create' = create BY DEF Damage
  <1> QED BY <1>2, <1>3, <1>4, <1>5, <1>6, <1>7, <1>8, <1>9, SpoilsFields, BackupWorsens

LEMMA RemoveExpiredInv ==
    ASSUME BackupsInv, NEW n \in Numbers, RemoveExpired(n)
    PROVE  BackupsInv' /\ n < create.n /\ backups[create.n].state = "published" /\ backups'[create.n].state = "published"
  <1>1. /\ create.step = "remove" /\ n \in create.left /\ create.n \in Numbers /\ n < create.n
        /\ backups[n] \in Backup /\ backups[create.n].state = "published"
        /\ create \in Creates
    BY DEF RemoveExpired, BackupsInv, BackupsTypeOK, MakingBackup
  <1>2. n <= create.n /\ n # create.n BY <1>1, BackupsAssumption DEF Numbers
  <1>3. UNCHANGED <<libraryVars, target>> BY DEF RemoveExpired
  <1>4. CASE backups[n].state = "published"
    <2>1. PICK b : b = [backups[n] EXCEPT !.state = "crumbling", !.born = day] OBVIOUS
    <2>2. /\ b \in Backup /\ b.state = "crumbling" /\ b.sealed = backups[n].sealed /\ b.main = backups[n].main
          /\ b.uploads = backups[n].uploads /\ b.sessions = backups[n].sessions
      BY <1>1, <2>1 DEF Backup, BackupsInv, BackupsTypeOK
    <2>3. backups' = [backups EXCEPT ![n] = b]
      BY <1>4, <2>1 DEF RemoveExpired, BackupsInv, BackupsTypeOK
    <2>4. restore' = [restore EXCEPT !.spoiled = @ \/ restore.from = n] /\ create' = create
      BY <1>4 DEF RemoveExpired
    <2>5. BackupsInv' BY <1>1, <1>2, <1>3, <2>2, <2>3, <2>4, SpoilsFields, BackupWorsens
    <2>6. backups'[create.n] = backups[create.n] BY <1>1, <1>2, <2>3 DEF BackupsInv, BackupsTypeOK
    <2> QED BY <2>5, <2>6, <1>1
  <1>5. CASE backups[n].state # "published"
    <2>1. PICK b : b = [backups[n] EXCEPT !.state = "removed"] OBVIOUS
    <2>2. /\ b \in Backup /\ b.state = "removed" /\ b.sealed = backups[n].sealed /\ b.main = backups[n].main
          /\ b.uploads = backups[n].uploads /\ b.sessions = backups[n].sessions
      BY <1>1, <2>1 DEF Backup
    <2>3. backups' = [backups EXCEPT ![n] = b] BY <1>5, <2>1 DEF RemoveExpired
    <2>4. /\ create'.step = create.step /\ create'.n = create.n /\ create'.left \subseteq create.left
          /\ create' \in Creates
      BY <1>1, <1>5 DEF RemoveExpired, Creates
    <2>5. /\ restore' = restore
          /\ restore \in Restores
      BY <1>5 DEF RemoveExpired, BackupsInv, BackupsTypeOK
    <2>6. BackupsInv' BY <1>1, <1>2, <1>3, <2>2, <2>3, <2>4, <2>5, BackupWorsens
    <2>7. backups'[create.n] = backups[create.n] BY <1>1, <1>2, <2>3 DEF BackupsInv, BackupsTypeOK
    <2> QED BY <2>6, <2>7, <1>1
  <1> QED BY <1>4, <1>5

-----------------------------------------------------------------------------

(* A step of Restore: types, and what it has done so far. *)
LEMMA RestoreMoves ==
    ASSUME BackupsInv, UNCHANGED <<libraryVars, createVars>>, restore' \in Restores, target' \in Target,
           Restoring', RestoredWhole'
    PROVE  BackupsInv'
  <1>1. BackupsTypeOK' BY DEF BackupsInv, BackupsTypeOK, Creates, Restores, libraryVars, createVars
  <1> QED BY <1>1, CreateUnaware DEF BackupsInv

LEMMA RestoreStartsInv ==
    ASSUME BackupsInv, NEW n \in Numbers, RestoreStarts(n)
    PROVE  BackupsInv'
  <1>1. PICK goes \in BOOLEAN : goes = (Verify(n) /\ target = NoTarget) BY DEF Verify
  <1>2. restore' = [NoRestore EXCEPT !.from = n, !.found = target, !.step = IF goes THEN "databases" ELSE "idle",
                                     !.answer = IF goes THEN "none" ELSE "failed"]
    BY <1>1 DEF RestoreStarts
  <1>3. target \in Target /\ n \in 0 .. MaxBackups BY BackupsAssumption DEF BackupsInv, BackupsTypeOK, Numbers
  <1>4. NoRestore \in Restores
    BY BackupSentinels, BackupsAssumption DEF NoRestore, Restores
  <1>5. /\ restore' \in Restores /\ restore'.from = n /\ restore'.found = target
        /\ restore'.step = IF goes THEN "databases" ELSE "idle"
        /\ restore'.answer = IF goes THEN "none" ELSE "failed"
    BY <1>2, <1>3, <1>4 DEF Restores
  <1>6. goes => target = NoTarget /\ backups[n].sealed /\ backups[n].state # "crumbling" BY <1>1 DEF Verify
  <1>7. UNCHANGED <<libraryVars, createVars, target>> BY DEF RestoreStarts
  <1>8. Restoring' BY <1>5, <1>6, <1>7 DEF Restoring, createVars
  <1>9. RestoredWhole' BY <1>5, <1>6, <1>7 DEF RestoredWhole
  <1> QED BY <1>3, <1>5, <1>7, <1>8, <1>9, RestoreMoves

(* Restore reads a database or the files, or renames one of its copies. *)
LEMMA RestoreReadsInv ==
    ASSUME BackupsInv, RestoreDatabases \/ RestoreUploads
    PROVE  BackupsInv'
  <1> USE DEF Restores
  <1>1. restore \in Restores /\ restore.step # "idle" /\ restore.from \in Numbers
    BY DEF BackupsInv, BackupsTypeOK, Restoring, RestoreDatabases, RestoreUploads
  <1>2. backups[restore.from] \in Backup BY <1>1 DEF BackupsInv, BackupsTypeOK
  <1>3. PICK some \in SUBSET BookIds :
          \/ /\ restore.step = "databases" /\ some = backups[restore.from].main
             /\ restore' = [restore EXCEPT !.step = "uploads", !.main = some]
          \/ /\ restore.step = "uploads" /\ (backups[restore.from].state # "crumbling" => some = backups[restore.from].uploads)
             /\ restore' = [restore EXCEPT !.step = "renameMain", !.uploads = some]
    BY <1>2 DEF RestoreDatabases, RestoreUploads, Backup
  <1>4. /\ restore' \in Restores /\ restore'.from = restore.from /\ restore'.found = restore.found
        /\ restore'.spoiled = restore.spoiled /\ restore'.answer = restore.answer
        /\ \/ /\ restore.step = "databases" /\ some = backups[restore.from].main
              /\ restore'.step = "uploads" /\ restore'.main = some
           \/ /\ restore.step = "uploads" /\ (backups[restore.from].state # "crumbling" => some = backups[restore.from].uploads)
              /\ restore'.step = "renameMain" /\ restore'.main = restore.main /\ restore'.uploads = some
    BY <1>1, <1>3
  <1>5. UNCHANGED <<libraryVars, createVars, target>> BY DEF RestoreDatabases, RestoreUploads
  <1>6. target' \in Target BY <1>5 DEF BackupsInv, BackupsTypeOK
  <1>7. Restoring' BY <1>1, <1>4, <1>5 DEF BackupsInv, Restoring, createVars
  <1>8. RestoredWhole' BY <1>1, <1>4, <1>5 DEF BackupsInv, Restoring, RestoredWhole
  <1> QED BY <1>4, <1>5, <1>6, <1>7, <1>8, RestoreMoves

LEMMA RestoreRenamesInv ==
    ASSUME BackupsInv, RenameMain \/ RenameSessions \/ RenameUploads
    PROVE  BackupsInv'
  <1>1. restore \in Restores /\ target \in Target /\ restore.main \in SUBSET BookIds /\ restore.uploads \in SUBSET BookIds
    BY DEF BackupsInv, BackupsTypeOK, Creates, Restores
  <1>2. UNCHANGED <<libraryVars, createVars>> BY DEF RenameMain, RenameSessions, RenameUploads
  <1>3. CASE RenameMain
    <2>1. /\ restore' \in Restores /\ restore'.step = "renameSessions" /\ restore'.from = restore.from
          /\ restore'.found = restore.found /\ restore'.spoiled = restore.spoiled /\ restore'.answer = restore.answer
          /\ restore'.main = restore.main /\ restore'.uploads = restore.uploads
      BY <1>1, <1>3 DEF RenameMain, Restores
    <2>2. restore.step = "renameMain" /\ target = NoTarget BY <1>3 DEF RenameMain, BackupsInv, Restoring
    <2>3. target' = [there |-> {"main"}, main |-> restore.main, uploads |-> {}] /\ target' \in Target
      BY <1>1, <1>3, <2>2 DEF RenameMain, NoTarget, Target
    <2>4. Restoring' BY <1>2, <2>1, <2>2, <2>3 DEF BackupsInv, Restoring, createVars
    <2>5. RestoredWhole' BY <2>1, <2>2 DEF BackupsInv, Restoring, RestoredWhole
    <2> QED BY <1>2, <2>1, <2>3, <2>4, <2>5, RestoreMoves
  <1>4. CASE RenameSessions
    <2>1. /\ restore' \in Restores /\ restore'.step = "renameUploads" /\ restore'.from = restore.from
          /\ restore'.found = restore.found /\ restore'.spoiled = restore.spoiled /\ restore'.answer = restore.answer
          /\ restore'.main = restore.main /\ restore'.uploads = restore.uploads
      BY <1>1, <1>4 DEF RenameSessions, Restores
    <2>2. /\ restore.step = "renameSessions"
          /\ target = [there |-> {"main"}, main |-> restore.main, uploads |-> {}]
      BY <1>4 DEF RenameSessions, BackupsInv, Restoring
    <2>3. target' = [there |-> {"main", "sessions"}, main |-> restore.main, uploads |-> {}] /\ target' \in Target
      BY <1>1, <1>4, <2>2 DEF RenameSessions, Target
    <2>4. Restoring' BY <1>2, <2>1, <2>2, <2>3 DEF BackupsInv, Restoring, createVars
    <2>5. RestoredWhole' BY <2>1, <2>2 DEF BackupsInv, Restoring, RestoredWhole
    <2> QED BY <1>2, <2>1, <2>3, <2>4, <2>5, RestoreMoves
  <1>5. CASE RenameUploads
    <2>1. /\ restore' \in Restores /\ restore'.step = "idle" /\ restore'.from = restore.from
          /\ restore'.found = restore.found /\ restore'.spoiled = restore.spoiled /\ restore'.answer = "ok"
          /\ restore'.main = restore.main /\ restore'.uploads = restore.uploads
      BY <1>1, <1>5 DEF RenameUploads, Restores
    <2>2. /\ restore.step = "renameUploads"
          /\ target = [there |-> {"main", "sessions"}, main |-> restore.main, uploads |-> {}]
      BY <1>5 DEF RenameUploads, BackupsInv, Restoring
    <2>3. /\ target' = [there |-> {"main", "sessions", "uploads"}, main |-> restore.main, uploads |-> restore.uploads]
          /\ target' \in Target
      BY <1>1, <1>5, <2>2 DEF RenameUploads, Target
    <2>4. Restoring' BY <1>2, <2>1, <2>2 DEF BackupsInv, Restoring, createVars
    <2>5. RestoredWhole' BY <1>2, <2>1, <2>2, <2>3 DEF BackupsInv, Restoring, RestoredWhole, createVars
    <2> QED BY <1>2, <2>1, <2>3, <2>4, <2>5, RestoreMoves
  <1> QED BY <1>3, <1>4, <1>5

LEMMA RestoreGivesUpInv ==
    ASSUME BackupsInv, RestoreFails \/ RestoreStops
    PROVE  BackupsInv'
  <1>1. restore \in Restores /\ restore.step # "idle" /\ restore.found = NoTarget
    BY DEF RestoreFails, RestoreStops, BackupsInv, BackupsTypeOK, Creates, Restoring, Restores
  <1>2. PICK a \in {"failed", "stopped"} :
          /\ restore' = [restore EXCEPT !.step = "idle", !.answer = a]
          /\ target' = IF a = "failed" THEN NoTarget ELSE target
    BY DEF RestoreFails, RestoreStops
  <1>3. /\ restore' \in Restores /\ restore'.step = "idle" /\ restore'.answer = a /\ restore'.found = NoTarget
    BY <1>1, <1>2 DEF Restores
  <1>4. target' \in Target BY <1>2, BackupSentinels DEF BackupsInv, BackupsTypeOK
  <1>5. UNCHANGED <<libraryVars, createVars>> BY DEF RestoreFails, RestoreStops
  <1>6. Restoring' BY <1>3 DEF Restoring
  <1>7. RestoredWhole' BY <1>2, <1>3 DEF RestoredWhole
  <1> QED BY <1>3, <1>4, <1>5, <1>6, <1>7, RestoreMoves

LEMMA ClearTargetInv ==
    ASSUME BackupsInv, ClearTarget
    PROVE  BackupsInv'
  <1>1. restore' \in Restores /\ restore'.step = "idle" /\ restore'.answer = "none" /\ restore'.found = NoTarget
    BY BackupSentinels, BackupsAssumption DEF ClearTarget, NoRestore, Restores
  <1>2. target' \in Target BY BackupSentinels DEF ClearTarget
  <1>3. Restoring' /\ RestoredWhole' BY <1>1 DEF Restoring, RestoredWhole
  <1> QED BY <1>1, <1>2, <1>3, RestoreMoves DEF ClearTarget

NewestStaysStep ==
    \A n \in 1 .. MaxBackups : backups[n].state = "published" /\ backups'[n].state # "published" =>
      \E m \in 1 .. MaxBackups : m > n /\ backups'[m].state = "published"

(* Only the sweep takes a backup away, and the one just made is newer. *)
LEMMA NewestKept == BackupsInv /\ BackupsNext => NewestStaysStep
  <1> SUFFICES ASSUME BackupsInv, BackupsNext, NEW n \in Numbers, backups[n].state = "published",
                      backups'[n].state # "published"
               PROVE  \E m \in Numbers : m > n /\ backups'[m].state = "published"
    BY DEF NewestStaysStep, Numbers
  <1>1. backups \in [Numbers -> Backup] /\ n \in Numbers BY DEF BackupsInv, BackupsTypeOK
  <1>2. backups' # backups OBVIOUS
  <1>9. ~CreateStarts
    <2>1. n # create.n + 1
      BY BackupsAssumption DEF BackupsInv, BackupsTypeOK, Restores, Creates, MakingBackup, NoBackup, Numbers
    <2> QED BY <1>1, <2>1 DEF CreateStarts
  <1>3. ~(CreateStarts \/ BackupMain \/ BackupSessions \/ \E b \in BookIds : CopyUpload(b))
    <2>1. ASSUME NEW b \in BookIds, CopyUpload(b) PROVE FALSE
      <3>1. backups' = [backups EXCEPT ![create.n] = [backups[create.n] EXCEPT !.uploads = @ \cup {b}]]
        BY <2>1 DEF CopyUpload
      <3> QED BY <3>1, <1>1 DEF Backup
    <2>2. ~BackupMain BY <1>1 DEF BackupMain, Backup
    <2>3. ~BackupSessions BY <1>1 DEF BackupSessions, Backup
    <2> QED BY <2>1, <2>2, <2>3, <1>9
  <1>4. ~(Seal \/ PublishBackup \/ CreateFails)
    BY <1>1 DEF Seal, PublishBackup, CreateFails, Backup, BackupsInv, MakingBackup
  <1>5. ~(\E m \in Numbers : Damage(m)) BY <1>1 DEF Damage, Backup
  <1>6. PICK m \in Numbers : RemoveExpired(m)
    BY <1>2, <1>3, <1>4, <1>5 DEF BackupsNext, LibraryMoves, DayPasses, WalkUploads, CreateEnds, ServerStops,
       RestoreStarts, RestoreDatabases, RestoreUploads, RenameMain, RenameSessions, RenameUploads, RestoreFails,
       RestoreStops, ClearTarget, createVars, Numbers
  <1>7. m = n BY <1>1, <1>6 DEF RemoveExpired
  <1>8. create.n \in Numbers /\ create.n > n /\ backups'[create.n].state = "published"
    BY <1>6, <1>7, RemoveExpiredInv, BackupsAssumption DEF RemoveExpired, BackupsInv, MakingBackup, Numbers
  <1> QED BY <1>8

LEMMA BackupsStep == BackupsInv /\ BackupsNext => BackupsInv' /\ NewestStaysStep
  <1> SUFFICES ASSUME BackupsInv, BackupsNext PROVE BackupsInv'
    BY NewestKept
  <1> QED BY LibraryMovesInv, DayInv, CreateStartsInv, BackupMainInv, BackupSessionsInv, WalkUploadsInv, CopyUploadInv,
     SealInv, PublishBackupInv, RemoveExpiredInv, CreateEndsInv, CreateFailsInv, DamageInv, RestoreStartsInv,
     RestoreReadsInv, RestoreRenamesInv, RestoreGivesUpInv, ClearTargetInv DEF BackupsNext, Numbers

LEMMA BackupsUntouched == BackupsInv /\ UNCHANGED copyVars => BackupsInv' /\ NewestStaysStep
  <1> SUFFICES ASSUME BackupsInv, UNCHANGED copyVars PROVE BackupsInv' /\ NewestStaysStep
    OBVIOUS
  <1> USE DEF copyVars
  <1>1. BackupsTypeOK' BY DEF BackupsInv, BackupsTypeOK
  <1>2. MakingBackup' /\ SealedWhole' BY CreateUnaware DEF libraryVars, createVars
  <1>3. Restoring' /\ RestoredWhole' BY RestoreUnaware DEF restoreVars
  <1> QED BY <1>1, <1>2, <1>3 DEF BackupsInv, NewestStaysStep

(* Backups hold however the library changes meanwhile and wherever Create  *)
(* or Restore fails or stops: what is published is whole, a restore is all *)
(* or nothing, and a backup is removed only when a newer one is there.     *)
THEOREM ServiceBackupsSafe == ServiceSpec => BackupsSafe
  <1>1. ServiceInit => BackupsInv BY BackupsStart DEF ServiceInit
  <1>2. BackupsInv /\ [ServiceNext]_serviceVars => BackupsInv' /\ NewestStaysStep
    BY BackupsStep, BackupsUntouched DEF ServiceNext, serviceVars
  <1>3. BackupsInv => PublishedWhole /\ RestoredWhole
    BY DEF BackupsInv, SealedWhole, PublishedWhole, Removed, Numbers
  <1>4. ServiceSpec => []BackupsInv BY <1>1, <1>2, PTL DEF ServiceSpec
  <1>5. ServiceSpec => [](PublishedWhole /\ RestoredWhole) BY <1>3, <1>4, PTL
  <1>6. BackupsInv /\ [ServiceNext]_serviceVars => [NewestStaysStep]_backupVars BY <1>2
  <1>7. ServiceSpec => [][NewestStaysStep]_backupVars BY <1>4, <1>6, PTL DEF ServiceSpec
  <1>8. ServiceSpec => NewestStays BY <1>7, PTL DEF NewestStays, NewestStaysStep
  <1> QED BY <1>5, <1>8, PTL DEF BackupsSafe
=============================================================================
