----------------------------- MODULE MCService -----------------------------
(* Services of the server beside the library: speech synthesis on demand,   *)
(* the rate limiter, accounts and sessions, and backups.  They share no      *)
(* state, so each behaviour exercises one of them.                           *)
EXTENDS TTSCalls, RateLimiter, Accounts, Backups

VARIABLE subject

Budget == [calls |-> 0, rates |-> 7, accounts |-> 4, backups |-> 5]

(* Names: of any length that matters; passwords: with and without blanks, too long. *)
Typed(norm, length) == [norm |-> norm, length |-> length]
NamesTyped == {Typed("ann", 3), Typed("", 0)}
PasswordsTyped == {[core |-> "x", length |-> 8, pad |-> 0], [core |-> "x", length |-> 9, pad |-> 1],
                   [core |-> "y", length |-> 73, pad |-> 0]}

callsVars == vars
ratesVars == <<limiter, time, passes, verdict>>
signInVars == <<req, storeVars, hour, past>>
copyVars == <<volumes, backups, create, restore, target, day>>
serviceVars == <<callsVars, ratesVars, signInVars, copyVars, events, subject>>

(* What is not the subject stays in one initial state. *)
ServiceInit ==
    /\ subject \in DOMAIN Budget
    /\ events = MaxEvents - Budget[subject]
    /\ Init /\ RateInit /\ AccountsInit /\ BackupsInit
    /\ subject # "calls" => \A p \in Callers : caller[p].key = CHOOSE k \in Keys : TRUE
    /\ subject # "rates" => verdict.key = CHOOSE k \in Clients : TRUE
    /\ subject # "backups" => Records = {} /\ target = NoTarget

ServiceNext ==
    /\ UNCHANGED subject
    /\ \/ subject = "calls" /\ Next /\ UNCHANGED <<ratesVars, signInVars, copyVars, events>>
       \/ subject = "rates" /\ RateNext /\ UNCHANGED <<callsVars, signInVars, copyVars>>
       \/ subject = "accounts" /\ AccountsNext /\ UNCHANGED <<callsVars, ratesVars, copyVars>>
       \/ subject = "backups" /\ BackupsNext /\ UNCHANGED <<callsVars, ratesVars, signInVars>>

ServiceSpec ==
    /\ ServiceInit /\ [][ServiceNext]_serviceVars
    /\ \A p \in Callers : /\ WF_vars(subject = "calls" /\ CallerStep(p))
                          /\ WF_vars(subject = "calls" /\ CallStep(p))

(* Every request for audio is answered, whoever leaves the call it shares. *)
AudioAnswered == subject = "calls" => EveryCallerAnswered
=============================================================================
