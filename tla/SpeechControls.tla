--------------------------- MODULE SpeechControls ---------------------------
(***************************************************************************)
(* The panels that command the narrator.  The reader page shows            *)
(* DeferredTTSControls in several places (toolbar, mobile menu, status     *)
(* bar); each becomes a TTSControls sheet when first opened, each keeps    *)
(* its own pending operation, and all of them drive the one useTTS.        *)
(*                                                                         *)
(* The narrator is reduced to what the panels see of it: its state, and    *)
(* whether it is preparing.  `held`: the operation that will lower         *)
(* preparing is still the current one; a jump or a resume overtakes it     *)
(* without lowering it.  A call of start lasts until useTTS.start          *)
(* resolves; SpeechPlayer models what happens in between.                  *)
(***************************************************************************)
EXTENDS ClientEvents, FiniteSets

CONSTANTS Panels, SleepMinutes
VARIABLES panel, narrator

controlsVars == <<panel, narrator, events>>

ControlsInit ==
    /\ panel = [p \in Panels |-> [requested |-> FALSE, expanded |-> FALSE, op |-> 0,
                                  pending |-> FALSE, calls |-> {}]]
    /\ narrator = [state |-> "stopped", preparing |-> FALSE, held |-> FALSE, jumping |-> FALSE,
                   prompt |-> FALSE, sleep |-> 0]

IsActive == narrator.state # "stopped"
IsBusy(p) == panel[p].pending \/ narrator.preparing

(* The narrator after pause, stop, begin or playChunk, and what resume makes of it: *)
(* the element plays on or is refused, or its chunk is prepared again.             *)
Idle(n, st) == [n EXCEPT !.state = st, !.preparing = FALSE, !.held = FALSE, !.jumping = FALSE]
Pause(n) == [Idle(n, "paused") EXCEPT !.prompt = FALSE]
Stop(n) == [Idle(n, "stopped") EXCEPT !.prompt = FALSE, !.sleep = 0]
Prepare(n) == [n EXCEPT !.preparing = TRUE, !.held = TRUE, !.jumping = FALSE]
Resumed(n) ==
    IF n.state = "stopped" THEN {Prepare(Idle(n, "stopped"))}
    ELSE {[n EXCEPT !.state = "playing", !.prompt = FALSE, !.held = FALSE, !.jumping = FALSE],
          [n EXCEPT !.state = "paused", !.prompt = TRUE, !.held = FALSE, !.jumping = FALSE],
          Prepare(n)}

(* jump: what was being prepared is overtaken, its flag stays as it is. *)
Jump(n) == [n EXCEPT !.state = "paused", !.held = FALSE, !.jumping = TRUE]

(* What a press can reach in the sheet of panel p. *)
Enabled(p) ==
    [prev |-> IsActive /\ ~IsBusy(p), start |-> ~IsBusy(p), next |-> IsActive /\ ~IsBusy(p),
     stop |-> IsActive \/ IsBusy(p)]

(* DeferredTTSControls: the first press loads the panel and opens it. *)
RequestPanel(p) ==
    /\ External
    /\ ~panel[p].requested
    /\ panel' = [panel EXCEPT ![p].requested = TRUE, ![p].expanded = TRUE]
    /\ UNCHANGED narrator

(* The sheet's trigger, its close button, Escape. *)
ToggleSheet(p) ==
    /\ External
    /\ panel[p].requested
    /\ panel' = [panel EXCEPT ![p].expanded = ~@]
    /\ UNCHANGED narrator

(* handleStartClick: pause, resume or begin, whichever useTTS.start does now. *)
HandleStartClick(p) ==
    /\ External
    /\ panel[p].expanded /\ Enabled(p).start
    /\ panel' = [panel EXCEPT ![p].op = @ + 1, ![p].pending = TRUE,
                              ![p].calls = @ \cup {[op |-> panel[p].op + 1,
                                                    closes |-> narrator.state # "playing"]}]
    /\ narrator' \in IF narrator.state = "playing" THEN {Pause(narrator)} ELSE Resumed(narrator)

(* Mutant: the end of a call resets the panel whichever operation it has. *)
StartSettlesUnchecked(p, c) ==
    panel' = [panel EXCEPT ![p].calls = @ \ {c}, ![p].pending = FALSE,
                           ![p].expanded = @ /\ ~c.closes]

(* Only the latest operation of the panel may close it and end its pending state. *)
StartSettles(p, c) ==
    panel' = [panel EXCEPT ![p].calls = @ \ {c},
                           ![p].pending = @ /\ c.op # panel[p].op,
                           ![p].expanded = @ /\ ~(c.closes /\ c.op = panel[p].op)]

(* useTTS.start resolves: it plays, it failed, or a later command overtook it. *)
StartResolves(p) ==
    /\ \E c \in panel[p].calls : StartSettles(p, c)
    /\ Internal
    /\ UNCHANGED narrator

(* handleStopClick and useTTS.stop. *)
HandleStopClick(p) ==
    /\ External
    /\ panel[p].expanded /\ Enabled(p).stop
    /\ panel' = [panel EXCEPT ![p].op = @ + 1, ![p].pending = FALSE]
    /\ narrator' = Stop(narrator)

(* onPrev and onNext. *)
JumpClick(p) ==
    /\ External
    /\ panel[p].expanded /\ Enabled(p).prev /\ Enabled(p).next
    /\ narrator' = Jump(narrator)
    /\ UNCHANGED panel

(* The keys of the lock screen, which no busy panel disables. *)
MediaKey ==
    /\ External
    /\ \/ narrator.state # "playing" /\ narrator' \in Resumed(narrator)
       \/ (IsActive \/ narrator.preparing) /\ narrator' \in {Jump(narrator), Pause(narrator), Stop(narrator)}
    /\ UNCHANGED panel

(* The sentence a jump looked for is read: it is prepared, there is none, or the view fails. *)
JumpReads ==
    /\ narrator.jumping
    /\ narrator' \in {Prepare(narrator), Stop(narrator), [narrator EXCEPT !.jumping = FALSE, !.prompt = TRUE]}
    /\ Internal
    /\ UNCHANGED panel

(* The chunk is over: advance prepares the next one, stops behind the last, or fails. *)
(* Nothing here relies on it: whether it comes is the question of EndGoesOn           *)
(* (SpeechPlayer).                                                                    *)
ChunkEnds ==
    /\ narrator.state = "playing"
    /\ narrator' \in {Prepare(narrator), Stop(narrator), [narrator EXCEPT !.state = "paused", !.prompt = TRUE]}
    /\ Internal
    /\ UNCHANGED panel

(* The operation that prepares ends, and is still the current one: it plays, gives up, or finds no text. *)
PreparationEnds ==
    /\ narrator.preparing /\ narrator.held
    /\ narrator' \in {[Idle(narrator, "playing") EXCEPT !.prompt = FALSE],
                      [Idle(narrator, "paused") EXCEPT !.prompt = TRUE], Stop(narrator)}
    /\ Internal
    /\ UNCHANGED panel

(* onUpdateSettings with another rate or voice: a reading that goes on begins again, *)
(* a paused one is reset.                                                           *)
SettingsClick(p) ==
    /\ External
    /\ panel[p].expanded
    /\ IsActive \/ narrator.preparing
    /\ \/ narrator' = Prepare(Idle(narrator, "stopped"))
       \/ narrator.state = "paused" /\ ~narrator.jumping /\ ~narrator.preparing
          /\ narrator' = Idle(narrator, "paused")
    /\ UNCHANGED panel

SleepTimerClick(p) ==
    /\ External
    /\ panel[p].expanded
    /\ \/ \E m \in SleepMinutes : narrator' = [narrator EXCEPT !.sleep = m]
       \/ narrator.sleep # 0 /\ narrator' = [narrator EXCEPT !.sleep = 0]
    /\ UNCHANGED panel

(* The timer set for narrator.sleep minutes: onExpire stops the reading. *)
SleepTimerEnds ==
    /\ narrator.sleep # 0
    /\ narrator' = Stop(narrator)
    /\ Internal
    /\ UNCHANGED panel

(* The system interrupts the reading: the prompt offers to go on. *)
Interrupted ==
    /\ External
    /\ narrator.state = "playing"
    /\ narrator' = [narrator EXCEPT !.state = "paused", !.prompt = TRUE]
    /\ UNCHANGED panel

(* The prompt's button, in the sheet or over the page; a gesture on the page. *)
ResumeClick ==
    /\ External
    /\ narrator.prompt
    /\ narrator' \in Resumed(narrator)
    /\ UNCHANGED panel

(* The page leaves: every panel's operation is overtaken. *)
Unmount(p) ==
    /\ External
    /\ panel[p].requested
    /\ panel' = [panel EXCEPT ![p].op = @ + 1, ![p].pending = FALSE, ![p].expanded = FALSE,
                              ![p].requested = FALSE]
    /\ UNCHANGED narrator

ControlsNext ==
    \/ \E p \in Panels :
         \/ RequestPanel(p) \/ ToggleSheet(p) \/ HandleStartClick(p) \/ HandleStopClick(p)
         \/ JumpClick(p) \/ SettingsClick(p) \/ SleepTimerClick(p) \/ Unmount(p)
         \/ StartResolves(p)
    \/ MediaKey \/ JumpReads \/ ChunkEnds \/ PreparationEnds \/ SleepTimerEnds
    \/ Interrupted \/ ResumeClick

(* Requests for audio are tried a bounded number of times, each under a timer, and  *)
(* text is read from the book in memory.                                            *)
ControlsFairness ==
    /\ \A p \in Panels : WF_controlsVars(StartResolves(p))
    /\ WF_controlsVars(PreparationEnds) /\ WF_controlsVars(JumpReads)

-----------------------------------------------------------------------------
(* A panel waits exactly for its own latest start: an older start that ends   *)
(* late, after Stop and a second start, neither unlocks nor closes it, and    *)
(* Stop leaves nothing to wait for (TTSControls.tsx handleStartClick,         *)
(* handleStopClick).                                                          *)
PendingIsLatest ==
    \A p \in Panels : panel[p].pending <=> \E c \in panel[p].calls : c.op = panel[p].op

(* No panel stays locked: whatever was pressed in whichever panel or on the    *)
(* lock screen, what a panel started ends, and what the narrator prepares ends *)
(* or is overtaken by what shows the prompt to go on, or plays: then the panel *)
(* may stay busy, for neither a jump whose read fails nor a resume that plays  *)
(* on takes back the flag of the operation it overtook (useTTS.ts jump,        *)
(* resume).                                                                    *)
BusyEnds ==
    /\ \A p \in Panels : panel[p].pending ~> ~panel[p].pending
    /\ narrator.preparing ~>
         (~narrator.preparing \/ narrator.prompt \/ (narrator.state = "playing" /\ ~narrator.held))
=============================================================================
