---------------------------- MODULE ClientEvents ----------------------------
(***************************************************************************)
(* What the models of the browser client and of the smaller services share. *)
(* Everything the user or the system does to them from outside costs one    *)
(* event, and a run allows MaxEvents of them; what they themselves still    *)
(* have to do (timers, answers, continuations) is never bounded.            *)
(***************************************************************************)
EXTENDS Integers

CONSTANT MaxEvents
VARIABLE events

ASSUME EventsAssumption == MaxEvents \in Nat

External == events < MaxEvents /\ events' = events + 1
Internal == UNCHANGED events
=============================================================================
