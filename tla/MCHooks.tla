------------------------------ MODULE MCHooks ------------------------------
(* The two hooks that exchange the pages' data with the server: useShelfData  *)
(* (the shelf) and useProgress (the place in a book).  They share no state,   *)
(* so each behaviour exercises one of them, with the events that one needs.   *)
EXTENDS Shelf, ProgressSync

VARIABLE subject

Budget == [shelf |-> 2, progress |-> 3]

homeVars == <<lib, shelf, requests, edits, upload, given>>
placeVars == <<now, server, reader, staged, queue, calls, faults>>
hooksVars == <<homeVars, placeVars, events, subject>>

(* What is not the subject stays in one initial state. *)
HooksInit ==
    /\ subject \in DOMAIN Budget
    /\ events = MaxEvents - Budget[subject]
    /\ ShelfInit /\ ProgressInit
    /\ subject # "shelf" => \A b \in OldBooks : lib[b].cat = CHOOSE c \in Categories : TRUE

HooksNext ==
    /\ UNCHANGED subject
    /\ \/ subject = "shelf" /\ ShelfNext /\ UNCHANGED placeVars
       \/ subject = "progress" /\ Next /\ UNCHANGED homeVars

(* Every request of the shelf ends, if only by its timeout; the browser fires its timers. *)
ShelfFairness ==
    /\ WF_shelfVars(subject = "shelf" /\ LoadTimerFires) /\ WF_shelfVars(SearchTimerFires)
    /\ \A k \in LoadCalls \cup MoreCalls \cup SearchCalls \cup {"status", "summary"} :
         WF_shelfVars(\E c \in requests : c.kind = k /\ (CallAnswers(c) \/ CallFails(c)))
    /\ WF_shelfVars(\E e \in edits : EditAnswers(e) \/ EditFails(e))
    /\ WF_shelfVars(\E b \in NewBooks, ok \in BOOLEAN : UploadSettles(b, ok))

HooksSpec == HooksInit /\ [][HooksNext]_hooksVars /\ ShelfFairness /\ ProgressFairness

(* The shelf never stays busy, once it has been opened (useShelfData.ts). *)
ShelfAtRest == subject = "shelf" => ShelfSettles
=============================================================================
