---------------------------- MODULE RateLimiter ----------------------------
(***************************************************************************)
(* The limiter in front of sign-in, uploads and speech                     *)
(* (backend/middleware/rate_limiter.go): requests are counted by key, a    *)
(* client address or an account, in a window that starts with the first    *)
(* of them.  One mutex guards the table, so a request is one action.       *)
(***************************************************************************)
EXTENDS ClientEvents, Sequences, FiniteSets

CONSTANTS
    Clients,          \* keys: who asks
    MaxReqs,          \* maxReqs: requests in a window
    Window,           \* window
    CleanupInterval,  \* cleanupInterval
    MaxVisitors,      \* maxVisitors: keys in the table; 0 for no limit
    LastTime          \* bound: the clock stops there

ASSUME RateAssumption ==
    /\ IsFiniteSet(Clients) /\ Clients # {}
    /\ MaxReqs \in Nat \ {0} /\ Window \in Nat /\ CleanupInterval \in Nat
    /\ MaxVisitors \in Nat /\ LastTime \in Nat

VARIABLES
    limiter,  \* visitors: key -> count and start of its window; swept: lastCleanup
    time,     \* now()
    passes,   \* history: when a key was let in; when its newest window and the one before began
    verdict   \* history: the latest answer

rateVars == <<limiter, time, passes, verdict, events>>

Never == -1
NoVisitor == [count |-> 0, start |-> 0]
Present(visitors) == {k \in Clients : visitors[k].count > 0}

RateInit ==
    /\ limiter = [visitors |-> [k \in Clients |-> NoVisitor], swept |-> Never]
    /\ time = 0
    /\ passes = [k \in Clients |-> [at |-> <<>>, newest |-> -(Window + 1), prior |-> -2 * (Window + 1)]]
    /\ verdict \in [key : Clients, at : {0}, allowed : {TRUE}, full : {FALSE}]

Tick ==
    /\ time < LastTime
    /\ time' = time + 1
    /\ UNCHANGED <<limiter, passes, verdict>>

CleanupExpired(l) ==
    IF l.swept = Never THEN [l EXCEPT !.swept = time]
    ELSE IF time - l.swept < CleanupInterval THEN l
    ELSE [visitors |-> [k \in Clients |-> IF time - l.visitors[k].start > Window THEN NoVisitor ELSE l.visitors[k]],
          swept |-> time]

\* Mutant: whoever is turned away begins a new window.
AllowRestarting(k) ==
    LET l == CleanupExpired(limiter)
        v == l.visitors[k]
        known == v.count > 0
        full == ~known /\ MaxVisitors > 0 /\ Cardinality(Present(l.visitors)) >= MaxVisitors
        opens == IF known THEN time - v.start > Window ELSE ~full
        allowed == opens \/ (known /\ v.count < MaxReqs)
    IN  /\ limiter' = [l EXCEPT !.visitors[k] =
                          IF opens \/ (~allowed /\ known) THEN [count |-> 1, start |-> time]
                          ELSE IF known THEN [v EXCEPT !.count = @ + 1] ELSE v]
        /\ passes' = [passes EXCEPT ![k] =
                         [at |-> IF allowed THEN Append(@.at, time) ELSE @.at,
                          newest |-> IF opens THEN time ELSE @.newest,
                          prior |-> IF opens THEN @.newest ELSE @.prior]]
        /\ verdict' = [key |-> k, at |-> time, allowed |-> allowed, full |-> full]
        /\ UNCHANGED time

(* Allow.  A new key needs a place in the table; a request that is turned *)
(* away counts in its window and opens none.                              *)
Allow(k) ==
    LET l == CleanupExpired(limiter)
        v == l.visitors[k]
        known == v.count > 0
        full == ~known /\ MaxVisitors > 0 /\ Cardinality(Present(l.visitors)) >= MaxVisitors
        opens == IF known THEN time - v.start > Window ELSE ~full
        allowed == opens \/ (known /\ v.count < MaxReqs)
    IN  /\ limiter' = [l EXCEPT !.visitors[k] =
                          IF opens THEN [count |-> 1, start |-> time]
                          ELSE IF known THEN [v EXCEPT !.count = @ + 1] ELSE v]
        /\ passes' = [passes EXCEPT ![k] =
                         [at |-> IF allowed THEN Append(@.at, time) ELSE @.at,
                          newest |-> IF opens THEN time ELSE @.newest,
                          prior |-> IF opens THEN @.newest ELSE @.prior]]
        /\ verdict' = [key |-> k, at |-> time, allowed |-> allowed, full |-> full]
        /\ UNCHANGED time

RateNext == (Internal /\ Tick) \/ (External /\ \E k \in Clients : Allow(k))

(***************************************************************************)
(* Properties                                                              *)
(***************************************************************************)

(* However a client times its requests, twice the limit and one more never *)
(* pass within a window: two windows can touch, three cannot.  This is what *)
(* the fixed windows of Allow give; WindowBounded is what they do not.     *)
RateBounded ==
    \A k \in Clients : LET at == passes[k].at
                       IN  \A i, j \in DOMAIN at : j >= i + 2 * MaxReqs => at[j] - at[i] > Window

(* A sliding window lets a client in maxReqs times within any window       *)
(* (rate_limiter.go: the type's comment and that of maxReqs).              *)
WindowBounded ==
    \A k \in Clients : LET at == passes[k].at
                       IN  \A i, j \in DOMAIN at : j >= i + MaxReqs => at[j] - at[i] > Window

(* Nobody is locked out by asking too often: who is turned away was let in *)
(* MaxReqs times within the last window, or is new to a table whose keys   *)
(* all came since the clean-up before last.                                *)
RefusedRightly ==
    ~verdict.allowed =>
      LET at == passes[verdict.key].at
      IN  IF verdict.full
          THEN \A k \in Present(limiter.visitors) :
                 verdict.at - limiter.visitors[k].start <= Window + CleanupInterval
          ELSE /\ Len(at) >= MaxReqs
               /\ verdict.at - at[Len(at) - MaxReqs + 1] <= Window

(* The table stays within its limit, so that no flood of keys fills the memory. *)
TableBounded == MaxVisitors > 0 => Cardinality(Present(limiter.visitors)) <= MaxVisitors

RateSafe == RateBounded /\ RefusedRightly /\ TableBounded
=============================================================================
