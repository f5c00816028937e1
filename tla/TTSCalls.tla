----------------------------- MODULE TTSCalls ------------------------------
(***************************************************************************)
(* Speech synthesis on demand (backend/services/tts_cache.go).  Callers    *)
(* that want the same audio share one call to the speech service; a        *)
(* bounded queue and a semaphore limit the calls that run at once.         *)
(*                                                                         *)
(* A caller runs in its HTTP request, a call in a goroutine of its own     *)
(* that outlives the caller which began it.  The map of calls in flight    *)
(* is read and written under one mutex, so each critical section is one    *)
(* action; everything between two of them can be interleaved.  A caller    *)
(* begins at most one call, so a call is named after its first caller.     *)
(***************************************************************************)
EXTENDS Naturals, FiniteSets, TLC

CONSTANTS
    Callers,        \* requests for audio
    NoCall,         \* no entry in the map of calls in flight
    Keys,           \* cache keys: hash of text, voice and format
    MaxConcurrent,  \* TTS_MAX_CONCURRENCY
    MaxQueued       \* TTS_MAX_QUEUED

ASSUME CallAssumption == NoCall \notin Callers /\ IsFiniteSet(Callers)
ASSUME LimitAssumption == MaxConcurrent \in Nat \ {0} /\ MaxQueued \in Nat \ {0}

VARIABLES
    caller,     \* where a caller is: its step, its key, the call it waits for, its answer
    gone,       \* callers whose request context is done
    inflight,   \* ttsInflight.calls: key -> call or NoCall
    stage,      \* where the goroutine of a call is
    ctx,        \* the work context of a call: "live", "cancelled" or "expired"
    waiters,    \* ttsInflightCall.waiters
    outcome,    \* ttsInflightCall.err: "none" before, "ok" for nil
    queue,      \* tokens in runtime.queue
    semaphore,  \* tokens in runtime.semaphore
    cached      \* keys with audio in the memory or disk cache

callerVars == <<caller, gone>>
slotVars == <<queue, semaphore>>
vars == <<caller, gone, inflight, stage, ctx, waiters, outcome, queue, semaphore, cached>>

Answers == {"none", "ok", "failed", "busy", "cancelled", "expired"}
Stages == {"unused", "new", "queued", "running", "release", "dequeue", "publish",
           "unregister", "close", "done"}

(* Caller and call states have their types. *)
TypeOK ==
    /\ caller \in [Callers -> [step : {"idle", "missed", "waiting", "answered"},
                               key : Keys, call : Callers \cup {NoCall}, answer : Answers]]
    /\ gone \subseteq Callers
    /\ inflight \in [Keys -> Callers \cup {NoCall}]
    /\ stage \in [Callers -> Stages]
    /\ ctx \in [Callers -> {"live", "cancelled", "expired"}]
    /\ waiters \in [Callers -> 0 .. Cardinality(Callers)]
    /\ outcome \in [Callers -> Answers]
    /\ queue \in Nat /\ semaphore \in Nat
    /\ cached \subseteq Keys

Init ==
    /\ caller \in [Callers -> [step : {"idle"}, key : Keys, call : {NoCall}, answer : {"none"}]]
    /\ gone = {}
    /\ inflight = [k \in Keys |-> NoCall]
    /\ stage = [c \in Callers |-> "unused"]
    /\ ctx = [c \in Callers |-> "live"]
    /\ waiters = [c \in Callers |-> 0]
    /\ outcome = [c \in Callers |-> "none"]
    /\ queue = 0
    /\ semaphore = 0
    /\ cached = {}

-----------------------------------------------------------------------------
(* Callers: callTTSAPIWithCacheContext and waitForTTSCall. *)

Answer(p, a) == caller' = [caller EXCEPT ![p].step = "answered", ![p].answer = a]

(* The client disconnects or gives up, at any time. *)
Disconnect(p) ==
    /\ p \notin gone
    /\ gone' = gone \cup {p}
    /\ UNCHANGED <<caller, inflight, stage, ctx, waiters, outcome, slotVars, cached>>

(* Both caches are consulted before, and outside, the critical section. *)
Lookup(p) ==
    /\ caller[p].step = "idle"
    /\ \/ p \in gone /\ Answer(p, "cancelled")
       \/ p \notin gone /\ caller[p].key \in cached /\ Answer(p, "ok")
       \/ /\ p \notin gone /\ caller[p].key \notin cached
          /\ caller' = [caller EXCEPT ![p].step = "missed"]
    /\ UNCHANGED <<gone, inflight, stage, ctx, waiters, outcome, slotVars, cached>>

Joinable(k) == inflight[k] # NoCall /\ ctx[inflight[k]] = "live"

Join(p) ==
    LET c == inflight[caller[p].key]
    IN  /\ caller[p].step = "missed"
        /\ Joinable(caller[p].key)
        /\ waiters' = [waiters EXCEPT ![c] = @ + 1]
        /\ caller' = [caller EXCEPT ![p].step = "waiting", ![p].call = c]
        /\ UNCHANGED <<gone, inflight, stage, ctx, outcome, slotVars, cached>>

(* A dead entry is replaced: its own goroutine will notice. *)
Begin(p) ==
    /\ caller[p].step = "missed"
    /\ ~ Joinable(caller[p].key)
    /\ inflight' = [inflight EXCEPT ![caller[p].key] = p]
    /\ waiters' = [waiters EXCEPT ![p] = 1]
    /\ stage' = [stage EXCEPT ![p] = "new"]
    /\ caller' = [caller EXCEPT ![p].step = "waiting", ![p].call = p]
    /\ UNCHANGED <<gone, ctx, outcome, slotVars, cached>>

Receive(p) ==
    /\ caller[p].step = "waiting"
    /\ stage[caller[p].call] = "done"
    /\ Answer(p, outcome[caller[p].call])
    /\ UNCHANGED <<gone, inflight, stage, ctx, waiters, outcome, slotVars, cached>>

\* Mutant: whoever leaves cancels the work.
LeaveAndCancel(p) ==
    LET c == caller[p].call
    IN  /\ caller[p].step = "waiting"
        /\ p \in gone
        /\ waiters' = [waiters EXCEPT ![c] = @ - 1]
        /\ ctx' = [ctx EXCEPT ![c] = IF @ = "live" THEN "cancelled" ELSE @]
        /\ inflight' = [k \in Keys |-> IF inflight[k] = c THEN NoCall ELSE inflight[k]]
        /\ Answer(p, "cancelled")
        /\ UNCHANGED <<gone, stage, outcome, slotVars, cached>>

(* The last one to leave stops the work; select may also pick this branch  *)
(* when the result is already there.                                       *)
Leave(p) ==
    LET c    == caller[p].call
        last == waiters[c] = 1
    IN  /\ caller[p].step = "waiting"
        /\ p \in gone
        /\ waiters' = [waiters EXCEPT ![c] = @ - 1]
        /\ ctx' = [ctx EXCEPT ![c] = IF last /\ @ = "live" THEN "cancelled" ELSE @]
        /\ inflight' = [k \in Keys |-> IF last /\ inflight[k] = c THEN NoCall ELSE inflight[k]]
        /\ Answer(p, "cancelled")
        /\ UNCHANGED <<gone, stage, outcome, slotVars, cached>>

-----------------------------------------------------------------------------
(* Calls: the goroutine, callTTSAPIThrottled and acquireTTSSlotContext. *)

MoveTo(c, s) == stage' = [stage EXCEPT ![c] = s]

Fail(c, e, s) == outcome' = [outcome EXCEPT ![c] = e] /\ MoveTo(c, s)

(* defaultTTSSynthesisTimeout passes. *)
Expire(c) ==
    /\ stage[c] \notin {"unused", "done"}
    /\ ctx[c] = "live"
    /\ ctx' = [ctx EXCEPT ![c] = "expired"]
    /\ UNCHANGED <<callerVars, inflight, stage, waiters, outcome, slotVars, cached>>

(* select with a default branch: busy only if nothing else is ready. *)
Enqueue(c) ==
    /\ stage[c] = "new"
    /\ \/ /\ queue < MaxConcurrent + MaxQueued
          /\ queue' = queue + 1
          /\ MoveTo(c, "queued")
          /\ UNCHANGED outcome
       \/ /\ ctx[c] # "live"
          /\ Fail(c, ctx[c], "unregister")
          /\ UNCHANGED queue
       \/ /\ queue = MaxConcurrent + MaxQueued /\ ctx[c] = "live"
          /\ Fail(c, "busy", "unregister")
          /\ UNCHANGED queue
    /\ UNCHANGED <<callerVars, inflight, ctx, waiters, semaphore, cached>>

Acquire(c) ==
    /\ stage[c] = "queued"
    /\ semaphore < MaxConcurrent
    /\ semaphore' = semaphore + 1
    /\ MoveTo(c, "running")
    /\ UNCHANGED <<callerVars, inflight, ctx, waiters, outcome, queue, cached>>

\* Mutant: the token of the queue is not given back.
GiveUpKeepingToken(c) ==
    /\ stage[c] = "queued"
    /\ \/ Fail(c, "busy", "unregister")
       \/ ctx[c] # "live" /\ Fail(c, ctx[c], "unregister")
    /\ UNCHANGED <<callerVars, inflight, ctx, waiters, queue, semaphore, cached>>

(* QueueWait passes, or the work context ends, before a slot is free. *)
GiveUp(c) ==
    /\ stage[c] = "queued"
    /\ queue' = queue - 1
    /\ \/ Fail(c, "busy", "unregister")
       \/ ctx[c] # "live" /\ Fail(c, ctx[c], "unregister")
    /\ UNCHANGED <<callerVars, inflight, ctx, waiters, semaphore, cached>>

(* callTTSAPI, the speech service: it may answer although the context has  *)
(* just ended, and it ends when the context does.                          *)
Synthesize(c) ==
    /\ stage[c] = "running"
    /\ \E e \in {"ok", "failed"} \cup ({ctx[c]} \ {"live"}) : Fail(c, e, "release")
    /\ UNCHANGED <<callerVars, inflight, ctx, waiters, slotVars, cached>>

(* release receives from the semaphore first and from the queue next. *)
ReleaseSemaphore(c) ==
    /\ stage[c] = "release"
    /\ semaphore' = semaphore - 1
    /\ MoveTo(c, "dequeue")
    /\ UNCHANGED <<callerVars, inflight, ctx, waiters, outcome, queue, cached>>

ReleaseQueue(c) ==
    /\ stage[c] = "dequeue"
    /\ queue' = queue - 1
    /\ MoveTo(c, "publish")
    /\ UNCHANGED <<callerVars, inflight, ctx, waiters, outcome, semaphore, cached>>

(* Audio is cached before the call leaves the map. *)
Publish(c) ==
    /\ stage[c] = "publish"
    /\ cached' = IF outcome[c] = "ok" THEN cached \cup {caller[c].key} ELSE cached
    /\ MoveTo(c, "unregister")
    /\ UNCHANGED <<callerVars, inflight, ctx, waiters, outcome, slotVars>>

\* Mutant: the entry is deleted although another call has replaced it.
UnregisterKey(c) ==
    /\ stage[c] = "unregister"
    /\ inflight' = [inflight EXCEPT ![caller[c].key] = NoCall]
    /\ MoveTo(c, "close")
    /\ UNCHANGED <<callerVars, ctx, waiters, outcome, slotVars, cached>>

\* Mutant: a call that was replaced in the map returns without closing done.
UnregisterOwnOnly(c) ==
    /\ stage[c] = "unregister"
    /\ inflight[caller[c].key] = c
    /\ inflight' = [inflight EXCEPT ![caller[c].key] = NoCall]
    /\ MoveTo(c, "close")
    /\ UNCHANGED <<callerVars, ctx, waiters, outcome, slotVars, cached>>

Unregister(c) ==
    /\ stage[c] = "unregister"
    /\ inflight' = [k \in Keys |-> IF inflight[k] = c THEN NoCall ELSE inflight[k]]
    /\ MoveTo(c, "close")
    /\ UNCHANGED <<callerVars, ctx, waiters, outcome, slotVars, cached>>

(* close(call.done); the deferred cancel comes last. *)
Close(c) ==
    /\ stage[c] = "close"
    /\ MoveTo(c, "done")
    /\ ctx' = [ctx EXCEPT ![c] = IF @ = "live" THEN "cancelled" ELSE @]
    /\ UNCHANGED <<callerVars, inflight, waiters, outcome, slotVars, cached>>

(* Expiry or eviction by size: audio may leave the caches at any time. *)
Evict(k) ==
    /\ k \in cached
    /\ cached' = cached \ {k}
    /\ UNCHANGED <<callerVars, inflight, stage, ctx, waiters, outcome, slotVars>>

CallerStep(p) == Lookup(p) \/ Join(p) \/ Begin(p) \/ Receive(p) \/ Leave(p)

CallStep(c) ==
    \/ Enqueue(c) \/ Acquire(c) \/ GiveUp(c) \/ Synthesize(c) \/ ReleaseSemaphore(c)
    \/ ReleaseQueue(c) \/ Publish(c) \/ Unregister(c) \/ Close(c)

Next ==
    \/ \E p \in Callers : Disconnect(p)
    \/ \E p \in Callers : CallerStep(p)
    \/ \E c \in Callers : CallStep(c)
    \/ \E c \in Callers : Expire(c)
    \/ \E k \in Keys : Evict(k)

Spec == Init /\ [][Next]_vars

(* Goroutines are scheduled, and the speech service answers or the context *)
(* it was given expires.  Nothing makes a client disconnect.               *)
FairSpec ==
    /\ Spec
    /\ \A p \in Callers : WF_vars(CallerStep(p)) /\ WF_vars(CallStep(p))

-----------------------------------------------------------------------------

(* Queue and semaphore hold one token for each call that is entitled to    *)
(* one, on every path out of acquireTTSSlotContext and through release: no *)
(* token is lost to a timeout or a cancellation, and the limits hold.      *)
SlotsBalanced ==
    /\ queue = Cardinality({c \in Callers : stage[c] \in {"queued", "running", "release", "dequeue"}})
    /\ semaphore = Cardinality({c \in Callers : stage[c] \in {"running", "release"}})
    /\ queue <= MaxConcurrent + MaxQueued
    /\ semaphore <= MaxConcurrent

Working(c) == ctx[c] = "live" /\ stage[c] \notin {"unused", "close", "done"}

(* Work that is still wanted is registered, so nobody starts the same      *)
(* synthesis again: neither the clean-up of an older call for the key nor  *)
(* a caller that leaves may remove or replace its entry.                   *)
SingleFlight == \A c \in Callers : Working(c) => inflight[caller[c].key] = c

(* A caller that is still there never gets somebody else's cancellation,   *)
(* however callers that share its call come and go.                        *)
NoForeignCancel ==
    \A p \in Callers :
      /\ caller[p].answer = "cancelled" => p \in gone
      /\ caller[p].step = "waiting" /\ p \notin gone =>
           outcome[caller[p].call] # "cancelled"

(* Every request for audio is answered. *)
EveryCallerAnswered == \A p \in Callers : <>(caller[p].step = "answered")

(* Together: no state is wrong in itself and no token is lost. *)
SlotsSafe == TypeOK /\ SlotsBalanced

(* Callers and keys are interchangeable: the symmetry of a finite instance. *)
AllSymmetry == Permutations(Callers) \cup Permutations(Keys)
=============================================================================
