----------------------------- MODULE Narration -----------------------------
(***************************************************************************)
(* What reading aloud promises: the narration is at one place of the book. *)
(* It moves on by one chunk when that chunk has been heard to its end, and *)
(* to anywhere else only when somebody asked for it.                       *)
(***************************************************************************)
EXTENDS Naturals

CONSTANT ChunkCount

VARIABLES
    place,      \* the chunk being read or next to be read; 0: none
    sounding,   \* it can be heard
    asked       \* a start or a jump has been asked for and has not landed

Init == place = 0 /\ sounding = FALSE /\ asked = FALSE

Sound == place # 0 /\ sounding' = TRUE /\ asked' = FALSE /\ UNCHANGED place

Halt == sounding' = FALSE /\ UNCHANGED <<place, asked>>

Finish == sounding /\ sounding' = FALSE /\ place' = place + 1 /\ UNCHANGED asked

(* A jump leaves the place until it lands, a start gives it up. *)
Ask == asked' = TRUE /\ sounding' = FALSE /\ place' \in {0, place}

Land == asked /\ asked' = FALSE /\ sounding' = FALSE /\ place' \in 1 .. ChunkCount

Drop == asked' = FALSE /\ sounding' = FALSE /\ UNCHANGED place

Quit == place' = 0 /\ sounding' = FALSE /\ asked' = FALSE

Next == Sound \/ Halt \/ Finish \/ Ask \/ Land \/ Drop \/ Quit

Spec == Init /\ [][Next]_<<place, sounding, asked>>
=============================================================================
