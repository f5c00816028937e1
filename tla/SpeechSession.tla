---------------------------- MODULE SpeechSession ---------------------------
(***************************************************************************)
(* Two hooks of the speech client that keep something outside the page:    *)
(* useTTSSession, which stores the narrated place of a book in             *)
(* localStorage with at most one write every two seconds, and useWakeLock, *)
(* which keeps the screen on while reading aloud.                          *)
(*                                                                         *)
(* A mark, and a place of the view, is a number; 0 stands for none.  The clock is reduced to  *)
(* what saveTTSSession asks of it: whether two seconds have passed since   *)
(* the last write.                                                         *)
(***************************************************************************)
EXTENDS ClientEvents, FiniteSets, Sequences

CONSTANTS Books, MaxMark, MaxLocks
VARIABLES session, wake

sessionVars == <<session, wake, events>>

ASSUME SessionAssumption == MaxMark \in Nat /\ MaxLocks \in Nat

Marks == 1 .. MaxMark

SessionInit ==
    /\ \E b \in Books : session =
            [book |-> b,                          \* bookId
             mark |-> 0,                          \* currentMarkRef
             view |-> 0,                          \* lastLocation of the view
             stored |-> [x \in Books |-> 0],      \* localStorage
             pending |-> <<>>,                    \* pendingRef: <<key, mark>>, or nothing
             timer |-> FALSE,                     \* timerRef
             recent |-> FALSE,                    \* lastWriteRef is less than two seconds old
             asked |-> [x \in Books |-> 0]]       \* what the last save or clear of a book asked for
    /\ wake = [ref |-> 0,                         \* wakeLockRef
               pending |-> FALSE,                 \* pendingRef
               held |-> {},                       \* sentinels the system has not released
               next |-> 1,
               returning |-> 0,                   \* a lock granted to a hidden page, being given back
               releasing |-> {},                  \* releaseWakeLock after its first await
               waiting |-> FALSE,                 \* releaseWakeLock waits for pendingRef
               visible |-> TRUE,
               playing |-> FALSE]

(*************************** Narration snapshots ***************************)

(* writePending, when the storage takes the write. *)
WritePending(s) ==
    IF s.pending = <<>> THEN [s EXCEPT !.timer = FALSE]
    ELSE [s EXCEPT !.timer = FALSE, !.pending = <<>>, !.recent = TRUE,
                   !.stored[s.pending[1]] = s.pending[2]]

(* A full or forbidden storage: the snapshot is dropped, narration goes on. *)
WriteRefused(s) ==
    [s EXCEPT !.timer = FALSE, !.pending = <<>>,
              !.asked = IF s.pending = <<>> THEN @
                        ELSE [@ EXCEPT ![s.pending[1]] = s.stored[s.pending[1]]]]

(* The place a snapshot is of: the sentence that is read, or else the page that is shown. *)
SnapshotPlace(s) == IF s.mark # 0 THEN s.mark ELSE s.view

(* Mutant: the snapshot waits and no timer is set for it. *)
SaveWithoutTimer(s, flush) ==
    LET put == [s EXCEPT !.pending = <<s.book, SnapshotPlace(s)>>, !.asked[s.book] = SnapshotPlace(s)]
    IN  IF SnapshotPlace(s) = 0 THEN {s}
        ELSE IF flush \/ ~s.recent THEN {WritePending(put), WriteRefused(put)} ELSE {put}

SaveTTSSession(s, flush) ==
    LET put == [s EXCEPT !.pending = <<s.book, SnapshotPlace(s)>>, !.asked[s.book] = SnapshotPlace(s)]
    IN  IF SnapshotPlace(s) = 0 THEN {s}
        ELSE IF flush \/ ~s.recent THEN {WritePending(put), WriteRefused(put)}
        ELSE {[put EXCEPT !.timer = TRUE]}

ClearTTSSession(s) ==
    [s EXCEPT !.timer = FALSE, !.pending = <<>>, !.recent = FALSE,
              !.stored[s.book] = 0, !.asked[s.book] = 0]

(* The mark callback: a new mark is saved, the first of a chunk at once. *)
MarkChanges ==
    /\ External
    /\ \E m \in Marks, first \in BOOLEAN :
         session' \in SaveTTSSession([session EXCEPT !.mark = m], first)
    /\ UNCHANGED wake

(* The reader turns to another page (lastLocation). *)
ViewMoves ==
    /\ External
    /\ \E m \in Marks : session' = [session EXCEPT !.view = m]
    /\ UNCHANGED wake

(* pause, a hidden or frozen page, a changed setting. *)
FlushTTSSession ==
    /\ External
    /\ session' \in SaveTTSSession(session, TRUE)
    /\ UNCHANGED wake

StopClearsSession ==
    /\ External
    /\ session' = [ClearTTSSession(session) EXCEPT !.mark = 0]
    /\ UNCHANGED wake

(* loadTTSSession finds a snapshot older than a week, or unreadable, and removes it. *)
LoadExpired ==
    /\ External
    /\ session.stored[session.book] # 0
    /\ session' = [session EXCEPT !.stored[session.book] = 0,
                                  !.asked[session.book] = IF session.pending = <<>> THEN 0 ELSE @]
    /\ UNCHANGED wake

(* Another book, or the reader closes: this hook's clean-up writes what is *)
(* pending, then that of useTTS flushes once more.                         *)
BookChanges ==
    /\ External
    /\ \E b \in Books \ {session.book}, written \in {WritePending(session), WriteRefused(session)} :
         \E s \in SaveTTSSession(written, TRUE) :
           session' = [s EXCEPT !.book = b, !.mark = 0, !.view = 0]
    /\ UNCHANGED wake

WriteTimerFires ==
    /\ session.timer
    /\ session' \in {[WritePending(session) EXCEPT !.recent = TRUE], WriteRefused(session)}
    /\ Internal
    /\ UNCHANGED wake

(* Two seconds pass after the last write; a timer set meanwhile fires then. *)
IntervalEnds ==
    /\ session.recent /\ ~session.timer
    /\ session' = [session EXCEPT !.recent = FALSE]
    /\ Internal
    /\ UNCHANGED wake

(******************************* Wake lock *********************************)

RequestWakeLock(w) ==
    IF w.pending \/ w.ref \in w.held \/ w.next > MaxLocks THEN w
    ELSE [w EXCEPT !.ref = 0, !.pending = TRUE]

(* Mutant: releaseWakeLock does not wait for a request under way. *)
ReleaseAtOnce(w) ==
    IF w.ref # 0 THEN [w EXCEPT !.releasing = @ \cup {w.ref}, !.held = @ \ {w.ref}] ELSE w

(* releaseWakeLock: first the request under way, then its sentinel. *)
ReleaseWakeLock(w) == [w EXCEPT !.waiting = TRUE]

Playing ==
    /\ External
    /\ wake' = RequestWakeLock([wake EXCEPT !.playing = TRUE])
    /\ UNCHANGED session

NotPlaying ==
    /\ External
    /\ wake.playing
    /\ wake' = ReleaseWakeLock([wake EXCEPT !.playing = FALSE])
    /\ UNCHANGED session

(* wakeLock.request('screen') answers: a hidden page gives the lock back. *)
LockGranted ==
    /\ wake.pending /\ wake.returning = 0
    /\ wake' = IF wake.visible
               THEN [wake EXCEPT !.pending = FALSE, !.ref = wake.next, !.next = @ + 1,
                                 !.held = @ \cup {wake.next}]
               ELSE [wake EXCEPT !.returning = wake.next, !.next = @ + 1]
    /\ Internal
    /\ UNCHANGED session

LockGivenBack ==
    /\ wake.returning # 0
    /\ wake' = [wake EXCEPT !.returning = 0, !.pending = FALSE]
    /\ Internal
    /\ UNCHANGED session

LockRefused ==
    /\ wake.pending /\ wake.returning = 0
    /\ wake' = [wake EXCEPT !.pending = FALSE]
    /\ Internal
    /\ UNCHANGED session

ReleaseContinues ==
    /\ wake.waiting /\ ~wake.pending
    /\ wake' = ReleaseAtOnce([wake EXCEPT !.waiting = FALSE])
    /\ Internal
    /\ UNCHANGED session

ReleaseEnds ==
    /\ \E l \in wake.releasing :
         wake' = [wake EXCEPT !.releasing = @ \ {l}, !.ref = IF @ = l THEN 0 ELSE @]
    /\ Internal
    /\ UNCHANGED session

(* The system releases every lock of a hidden page; handleVisibilityChange releases too. *)
PageHides ==
    /\ External
    /\ wake.visible
    /\ wake' = ReleaseWakeLock([wake EXCEPT !.visible = FALSE, !.held = {}, !.ref = 0])
    /\ UNCHANGED session

(* foregroundResume asks again while the narration still plays. *)
PageShows ==
    /\ External
    /\ ~wake.visible
    /\ LET w == [wake EXCEPT !.visible = TRUE]
       IN  wake' = IF w.playing THEN RequestWakeLock(w) ELSE w
    /\ UNCHANGED session

SessionNext ==
    \/ MarkChanges \/ ViewMoves \/ FlushTTSSession \/ StopClearsSession \/ LoadExpired \/ BookChanges
    \/ WriteTimerFires \/ IntervalEnds
    \/ Playing \/ NotPlaying \/ LockGranted \/ LockGivenBack \/ LockRefused
    \/ ReleaseContinues \/ ReleaseEnds \/ PageHides \/ PageShows

SessionFairness == WF_sessionVars(WriteTimerFires)

-----------------------------------------------------------------------------
(* The storage settles on what was asked last: with no write pending it holds *)
(* the place saved last of every book, and nothing for a book whose narration *)
(* was stopped and not saved since; no delayed write brings a cleared         *)
(* snapshot back (useTTSSession.ts writePending, clearTTSSession).            *)
StoredAsAsked ==
    \A b \in Books : session.stored[b] # session.asked[b]
                       => session.pending = <<b, session.asked[b]>>

(* A snapshot that waits is written or dropped: the timer that was set for it *)
(* is never lost to a flush, a clear or a change of book.                     *)
PendingSettles == session.pending # <<>> ~> session.pending = <<>>

(* No lock is left behind: once narration is not playing and neither a        *)
(* request nor a release is under way, the page holds no wake lock, however   *)
(* play, pause and visibility changes crossed (useWakeLock.ts).               *)
NoLeakedLock ==
    ~wake.playing /\ ~wake.pending /\ ~wake.waiting /\ wake.releasing = {} => wake.held = {}

(* Together: neither a snapshot nor a wake lock outlives the narration it is of. *)
SessionSafe == StoredAsAsked /\ NoLeakedLock
=============================================================================
