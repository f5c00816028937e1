---------------------------- MODULE ClientProofs ----------------------------
(***************************************************************************)
(* The parts of the client that MCClient puts side by side, for every      *)
(* number of panels, books, cards, base candidates, accounts, entries and  *)
(* releases, and any number of events.                                     *)
(*                                                                         *)
(* Each part has an inductive invariant over its own variables.  A step of *)
(* the client is a step of one part, or leaves its variables alone.        *)
(***************************************************************************)
EXTENDS MCClient, FiniteSetTheorems, WellFoundedInduction, TLAPS

-----------------------------------------------------------------------------
(* Panels of the speech client *)

Panel == [requested : BOOLEAN, expanded : BOOLEAN, op : Nat, pending : BOOLEAN,
          calls : SUBSET [op : Nat, closes : BOOLEAN]]

(* No call is ahead of its panel, no two have the same number: a number is *)
(* taken once, and so the end of an older call is told from the latest.    *)
CallsNumbered(q) ==
    /\ \A c \in q.calls : c.op <= q.op
    /\ \A c, d \in q.calls : c.op = d.op => c = d

WaitsForLatest(q) == q.pending <=> \E c \in q.calls : c.op = q.op

ControlsInv ==
    /\ panel \in [Panels -> Panel]
    /\ \A p \in Panels : CallsNumbered(panel[p]) /\ WaitsForLatest(panel[p])

LEMMA ControlsInitInv == ControlsInit => ControlsInv
  <1> SUFFICES ASSUME ControlsInit PROVE ControlsInv
    OBVIOUS
  <1> DEFINE q == [requested |-> FALSE, expanded |-> FALSE, op |-> 0, pending |-> FALSE, calls |-> {}]
  <1>1. q \in Panel /\ q.pending = FALSE /\ q.calls = {}
    BY DEF Panel
  <1>2. \A p \in Panels : panel[p] = q /\ panel = [r \in Panels |-> q]
    BY DEF ControlsInit
  <1> HIDE DEF q
  <1>3. panel \in [Panels -> Panel]
    BY <1>1 DEF ControlsInit, q
  <1> QED BY <1>1, <1>2, <1>3 DEF ControlsInv, CallsNumbered, WaitsForLatest

LEMMA PanelBecomes ==
    ASSUME ControlsInv, NEW p \in Panels, NEW q \in Panel, panel' = [panel EXCEPT ![p] = q],
           CallsNumbered(q), WaitsForLatest(q)
    PROVE  ControlsInv'
  BY DEF ControlsInv

(* What opens, closes or shows a panel touches neither its calls nor what it waits for. *)
LEMMA PanelShown ==
    ASSUME NEW q \in Panel, CallsNumbered(q), WaitsForLatest(q), NEW n \in Panel,
           n.op = q.op, n.pending = q.pending, n.calls = q.calls
    PROVE  CallsNumbered(n) /\ WaitsForLatest(n)
  BY DEF CallsNumbered, WaitsForLatest

(* A new number overtakes every call of the panel. *)
LEMMA PanelOvertaken ==
    ASSUME NEW q \in Panel, CallsNumbered(q), NEW n \in Panel,
           n.op = q.op + 1, n.pending = FALSE, n.calls = q.calls
    PROVE  CallsNumbered(n) /\ WaitsForLatest(n)
  BY DEF CallsNumbered, WaitsForLatest, Panel

LEMMA ControlsStepInv == ControlsInv /\ [ControlsNext]_<<panel, narrator>> => ControlsInv'
  <1> SUFFICES ASSUME ControlsInv, [ControlsNext]_<<panel, narrator>> PROVE ControlsInv'
    OBVIOUS
  <1>0. CASE UNCHANGED panel
    BY <1>0 DEF ControlsInv
  <1>t. \A p \in Panels : panel[p] \in Panel /\ CallsNumbered(panel[p]) /\ WaitsForLatest(panel[p])
    BY DEF ControlsInv
  <1>1. ASSUME NEW p \in Panels, RequestPanel(p) PROVE ControlsInv'
    <2> DEFINE q == [panel[p] EXCEPT !.requested = TRUE, !.expanded = TRUE]
    <2>1. /\ q \in Panel /\ q.op = panel[p].op /\ q.pending = panel[p].pending
          /\ q.calls = panel[p].calls
      BY <1>t DEF Panel
    <2>2. panel' = [panel EXCEPT ![p] = q]
      BY <1>1 DEF RequestPanel
    <2> QED BY <1>t, <2>1, <2>2, PanelShown, PanelBecomes
  <1>2. ASSUME NEW p \in Panels, ToggleSheet(p) PROVE ControlsInv'
    <2> DEFINE q == [panel[p] EXCEPT !.expanded = ~@]
    <2>1. /\ q \in Panel /\ q.op = panel[p].op /\ q.pending = panel[p].pending
          /\ q.calls = panel[p].calls
      BY <1>t DEF Panel
    <2>2. panel' = [panel EXCEPT ![p] = q]
      BY <1>2 DEF ToggleSheet
    <2> QED BY <1>t, <2>1, <2>2, PanelShown, PanelBecomes
  <1>3. ASSUME NEW p \in Panels, HandleStartClick(p) PROVE ControlsInv'
    <2> DEFINE c == [op |-> panel[p].op + 1, closes |-> narrator.state # "playing"]
               q == [panel[p] EXCEPT !.op = @ + 1, !.pending = TRUE, !.calls = @ \cup {c}]
    <2>a. panel[p] \in Panel /\ panel[p].op \in Nat /\ panel[p].op + 1 \in Nat
      BY <1>t DEF Panel
    <2>b. c \in [op : Nat, closes : BOOLEAN] /\ c.op = panel[p].op + 1
      BY <2>a
    <2>c. panel' = [panel EXCEPT ![p] = q]
      BY <1>3 DEF HandleStartClick
    <2> HIDE DEF c
    <2>1. /\ q \in Panel /\ q.op = panel[p].op + 1 /\ q.pending = TRUE
          /\ q.calls = panel[p].calls \cup {c}
      BY <2>a, <2>b DEF Panel
    <2>2. panel' = [panel EXCEPT ![p] = q]
      BY <2>c
    <2> HIDE DEF q
    <2>3. CallsNumbered(q) /\ WaitsForLatest(q)
      BY <1>t, <2>b, <2>1 DEF CallsNumbered, WaitsForLatest, Panel
    <2> QED BY <2>1, <2>2, <2>3, PanelBecomes
  <1>4. ASSUME NEW p \in Panels, NEW c \in panel[p].calls, StartSettles(p, c) PROVE ControlsInv'
    <2> DEFINE w == panel[p].pending /\ c.op # panel[p].op
               e == panel[p].expanded /\ ~(c.closes /\ c.op = panel[p].op)
               q == [panel[p] EXCEPT !.calls = @ \ {c}, !.pending = w, !.expanded = e]
    <2>0. w \in BOOLEAN /\ e \in BOOLEAN
      OBVIOUS
    <2>a. w <=> (panel[p].pending /\ c.op # panel[p].op)
      OBVIOUS
    <2>b. panel' = [panel EXCEPT ![p].calls = @ \ {c}, ![p].pending = w, ![p].expanded = e]
      BY <1>4 DEF StartSettles
    <2> HIDE DEF w, e
    <2>1. q \in Panel /\ q.op = panel[p].op /\ q.calls = panel[p].calls \ {c} /\ q.pending = w
      BY <1>t, <2>0 DEF Panel
    <2>2. panel' = [panel EXCEPT ![p] = q]
      BY <2>b
    <2> HIDE DEF q
    <2>3. CallsNumbered(q) /\ WaitsForLatest(q)
      BY <1>t, <2>a, <2>1 DEF CallsNumbered, WaitsForLatest, Panel
    <2> QED BY <2>1, <2>2, <2>3, PanelBecomes
  <1>5. ASSUME NEW p \in Panels, HandleStopClick(p) PROVE ControlsInv'
    <2> DEFINE q == [panel[p] EXCEPT !.op = @ + 1, !.pending = FALSE]
    <2>a. panel[p] \in Panel /\ panel[p].op \in Nat /\ panel[p].op + 1 \in Nat
      BY <1>t DEF Panel
    <2>b. q \in Panel
      BY <2>a DEF Panel
    <2>1. q.op = panel[p].op + 1 /\ q.pending = FALSE /\ q.calls = panel[p].calls
      BY <2>a DEF Panel
    <2>2. panel' = [panel EXCEPT ![p] = q]
      BY <1>5 DEF HandleStopClick
    <2> QED BY <1>t, <2>b, <2>1, <2>2, PanelOvertaken, PanelBecomes
  <1>6. ASSUME NEW p \in Panels, Unmount(p) PROVE ControlsInv'
    <2> DEFINE q == [panel[p] EXCEPT !.op = @ + 1, !.pending = FALSE, !.expanded = FALSE,
                                     !.requested = FALSE]
    <2>a. panel[p] \in Panel /\ panel[p].op \in Nat /\ panel[p].op + 1 \in Nat
      BY <1>t DEF Panel
    <2>b. q \in Panel
      BY <2>a DEF Panel
    <2>1. q.op = panel[p].op + 1 /\ q.pending = FALSE /\ q.calls = panel[p].calls
      BY <2>a DEF Panel
    <2>2. panel' = [panel EXCEPT ![p] = q]
      BY <1>6 DEF Unmount
    <2> QED BY <1>t, <2>b, <2>1, <2>2, PanelOvertaken, PanelBecomes
  <1> QED BY <1>0, <1>1, <1>2, <1>3, <1>4, <1>5, <1>6
          DEF ControlsNext, StartResolves, JumpClick, SettingsClick, SleepTimerClick, MediaKey, JumpReads,
              ChunkEnds, PreparationEnds, SleepTimerEnds, Interrupted, ResumeClick

-----------------------------------------------------------------------------
(* Narration snapshots and the wake lock *)

Snapshot == [book : Books, mark : 0 .. MaxMark, view : 0 .. MaxMark, stored : [Books -> 0 .. MaxMark],
             pending : {<<>>} \cup (Books \X (0 .. MaxMark)), timer : BOOLEAN, recent : BOOLEAN,
             asked : [Books -> 0 .. MaxMark]]

(* What waits is the last wish about the open book; every other book has what was asked. *)
SnapshotOK(s) ==
    /\ s \in Snapshot
    /\ s.pending # <<>> => s.pending = <<s.book, s.asked[s.book]>>
    /\ \A b \in Books : s.stored[b] # s.asked[b] => s.pending = <<b, s.asked[b]>>

Wake == [ref : Nat, pending : BOOLEAN, held : SUBSET Nat, next : Nat \ {0}, returning : Nat,
         releasing : SUBSET Nat, waiting : BOOLEAN, visible : BOOLEAN, playing : BOOLEAN]

(* One sentinel at most is held, the one of wakeLockRef, none of those that  *)
(* are being released, and none while a request is under way; somebody is    *)
(* there to release it.                                                      *)
WakeOK(w) ==
    /\ w.held \subseteq {w.ref} /\ 0 \notin w.held /\ w.ref < w.next
    /\ \A l \in w.releasing : l \notin w.held /\ l < w.next
    /\ w.pending => w.held = {}
    /\ w.pending \/ w.held # {} => w.playing \/ w.waiting

SessionInv == SnapshotOK(session) /\ wake \in Wake /\ WakeOK(wake)

LEMMA SessionInitInv == SessionInit => SessionInv
  <1> SUFFICES ASSUME SessionInit PROVE SessionInv
    OBVIOUS
  <1> USE SessionAssumption
  <1>1. wake \in Wake /\ WakeOK(wake)
    BY DEF SessionInit, Wake, WakeOK
  <1>2. PICK b \in Books : session =
            [book |-> b, mark |-> 0, view |-> 0, stored |-> [x \in Books |-> 0], pending |-> <<>>,
             timer |-> FALSE, recent |-> FALSE, asked |-> [x \in Books |-> 0]]
    BY DEF SessionInit
  <1>3. session \in Snapshot
    BY <1>2 DEF Snapshot
  <1>4. session.pending = <<>> /\ \A x \in Books : session.stored[x] = session.asked[x]
    BY <1>2
  <1> QED BY <1>1, <1>3, <1>4 DEF SessionInv, SnapshotOK

LEMMA OnlyOpenBookDiffers ==
    ASSUME NEW s, SnapshotOK(s), NEW b \in Books, s.stored[b] # s.asked[b]
    PROVE  b = s.book
  <1>1. s.pending = <<b, s.asked[b]>>
    BY DEF SnapshotOK
  <1>2. s.pending # <<>>
    BY <1>1
  <1>3. s.pending = <<s.book, s.asked[s.book]>>
    BY <1>2 DEF SnapshotOK
  <1> QED BY <1>1, <1>3

LEMMA WritePendingOK ==
    ASSUME NEW s, SnapshotOK(s)
    PROVE  SnapshotOK(WritePending(s)) /\ WritePending(s).pending = <<>>
  <1> DEFINE n == WritePending(s)
  <1>t. s \in Snapshot
    BY DEF SnapshotOK
  <1>1. CASE s.pending = <<>>
    <2> DEFINE q == [s EXCEPT !.timer = FALSE]
    <2>1. n = q /\ q \in Snapshot /\ q.pending = <<>> /\ q.stored = s.stored /\ q.asked = s.asked
      BY <1>1, <1>t DEF WritePending, Snapshot
    <2> HIDE DEF q
    <2> QED BY <2>1, <1>1 DEF SnapshotOK
  <1>2. CASE s.pending # <<>>
    <2> DEFINE st == [s.stored EXCEPT ![s.pending[1]] = s.pending[2]]
               q == [s EXCEPT !.timer = FALSE, !.pending = <<>>, !.recent = TRUE, !.stored = st]
    <2>1. /\ s.pending = <<s.book, s.asked[s.book]>> /\ s.pending[1] = s.book
          /\ s.pending[2] = s.asked[s.book] /\ s.book \in Books
          /\ s.stored \in [Books -> 0 .. MaxMark] /\ s.asked \in [Books -> 0 .. MaxMark]
      BY <1>2, <1>t DEF SnapshotOK, Snapshot
    <2>2. st \in [Books -> 0 .. MaxMark] /\ \A b \in Books : st[b] = IF b = s.book THEN s.asked[b] ELSE s.stored[b]
      BY <2>1
    <2>3. n = q
      BY <1>2, <1>t DEF WritePending, Snapshot
    <2> HIDE DEF st
    <2>4. q \in Snapshot /\ q.pending = <<>> /\ q.stored = st /\ q.asked = s.asked
      BY <2>2, <1>t DEF Snapshot
    <2> HIDE DEF q
    <2>5. \A b \in Books : s.stored[b] = s.asked[b] \/ b = s.book
      BY OnlyOpenBookDiffers
    <2> QED BY <2>2, <2>3, <2>4, <2>5 DEF SnapshotOK
  <1> QED BY <1>1, <1>2

LEMMA WriteRefusedOK ==
    ASSUME NEW s, SnapshotOK(s)
    PROVE  SnapshotOK(WriteRefused(s)) /\ WriteRefused(s).pending = <<>>
  <1> DEFINE n == WriteRefused(s)
  <1>t. s \in Snapshot
    BY DEF SnapshotOK
  <1> DEFINE as == IF s.pending = <<>> THEN s.asked
                   ELSE [s.asked EXCEPT ![s.pending[1]] = s.stored[s.pending[1]]]
             q == [s EXCEPT !.timer = FALSE, !.pending = <<>>, !.asked = as]
  <1>1. /\ s.stored \in [Books -> 0 .. MaxMark] /\ s.asked \in [Books -> 0 .. MaxMark] /\ s.book \in Books
        /\ s.pending # <<>> => s.pending[1] = s.book
    BY <1>t DEF SnapshotOK, Snapshot
  <1>2. as \in [Books -> 0 .. MaxMark] /\ \A b \in Books : s.stored[b] = as[b]
    <2>1. CASE s.pending = <<>>
      BY <1>1, <2>1 DEF SnapshotOK
    <2>2. CASE s.pending # <<>>
      <3>1. \A b \in Books : s.stored[b] = s.asked[b] \/ b = s.book
        BY OnlyOpenBookDiffers
      <3> QED BY <1>1, <2>2, <3>1
    <2> QED BY <2>1, <2>2
  <1>3. n = q
    BY <1>t DEF WriteRefused, Snapshot
  <1> HIDE DEF as
  <1>4. q \in Snapshot /\ q.pending = <<>> /\ q.stored = s.stored /\ q.asked = as
    BY <1>2, <1>t DEF Snapshot
  <1> HIDE DEF q
  <1> QED BY <1>2, <1>3, <1>4 DEF SnapshotOK

LEMMA SaveOK ==
    ASSUME NEW s, SnapshotOK(s), NEW flush \in BOOLEAN, NEW n \in SaveTTSSession(s, flush)
    PROVE  SnapshotOK(n) /\ (flush /\ s.pending = <<>> => n.pending = <<>>)
  <1>p. PICK m : m = SnapshotPlace(s)
    OBVIOUS
  <1> DEFINE as == [s.asked EXCEPT ![s.book] = m]
             put == [s EXCEPT !.pending = <<s.book, m>>, !.asked = as]
             wait == [put EXCEPT !.timer = TRUE]
  <1>t. s \in Snapshot
    BY DEF SnapshotOK
  <1>0. put = [s EXCEPT !.pending = <<s.book, m>>, !.asked[s.book] = m]
    BY <1>t DEF Snapshot
  <1>1. /\ s.stored \in [Books -> 0 .. MaxMark] /\ s.asked \in [Books -> 0 .. MaxMark] /\ s.book \in Books
        /\ m \in 0 .. MaxMark
    BY <1>t, <1>p DEF Snapshot, SnapshotPlace
  <1>2. as \in [Books -> 0 .. MaxMark] /\ \A b \in Books : as[b] = IF b = s.book THEN m ELSE s.asked[b]
    BY <1>1
  <1>3. <<s.book, m>> \in Books \X (0 .. MaxMark) /\ <<s.book, m>> # <<>>
    BY <1>1
  <1> HIDE DEF as
  <1>4. /\ put \in Snapshot /\ put.pending = <<s.book, m>> /\ put.asked = as
        /\ put.stored = s.stored /\ put.book = s.book
    BY <1>t, <1>2, <1>3 DEF Snapshot
  <1>5. \A b \in Books : s.stored[b] = s.asked[b] \/ b = s.book
    BY OnlyOpenBookDiffers
  <1>6. n \in {s, WritePending(put), WriteRefused(put)} \/ (~flush /\ n = wait)
    BY <1>0, <1>p DEF SaveTTSSession
  <1> HIDE DEF put
  <1>7. SnapshotOK(put)
    BY <1>1, <1>2, <1>4, <1>5 DEF SnapshotOK
  <1>8. /\ wait \in Snapshot /\ wait.pending = put.pending /\ wait.asked = put.asked
        /\ wait.stored = put.stored /\ wait.book = put.book
    BY <1>4 DEF Snapshot
  <1> HIDE DEF wait
  <1>9. SnapshotOK(wait)
    BY <1>7, <1>8 DEF SnapshotOK
  <1> QED BY <1>6, <1>7, <1>9, WritePendingOK, WriteRefusedOK

(* The place in the book, the time since the last write and, with nothing waiting, the book. *)
LEMMA SnapshotMoves ==
    ASSUME NEW s, SnapshotOK(s), NEW n \in Snapshot, n.pending = s.pending, n.stored = s.stored,
           n.asked = s.asked, n.book = s.book \/ s.pending = <<>>
    PROVE  SnapshotOK(n)
  BY DEF SnapshotOK

LEMMA RequestWakeLockOK ==
    ASSUME NEW w \in Wake, WakeOK(w), w.playing
    PROVE  RequestWakeLock(w) \in Wake /\ WakeOK(RequestWakeLock(w))
  <1> DEFINE q == [w EXCEPT !.ref = 0, !.pending = TRUE]
  <1>1. CASE w.pending \/ w.ref \in w.held \/ w.next > MaxLocks
    BY <1>1 DEF RequestWakeLock
  <1>2. CASE ~ (w.pending \/ w.ref \in w.held \/ w.next > MaxLocks)
    <2>1. RequestWakeLock(w) = q /\ w.held = {}
      BY <1>2 DEF RequestWakeLock, WakeOK
    <2>n. w.next \in Nat \ {0}
      BY DEF Wake
    <2>2. q \in Wake /\ q.ref = 0 /\ q.held = w.held /\ q.releasing = w.releasing /\ q.next = w.next /\ q.playing = w.playing
      BY DEF Wake
    <2> HIDE DEF q
    <2> QED BY <2>1, <2>2, <2>n DEF WakeOK
  <1> QED BY <1>1, <1>2

(* Every step of the two hooks keeps the invariant. *)
LEMMA SessionStepInv == SessionInv /\ [SessionNext]_<<session, wake>> => SessionInv'
  <1> SUFFICES ASSUME SessionInv, [SessionNext]_<<session, wake>> PROVE SessionInv'
    OBVIOUS
  <1> USE SessionAssumption
  <1>t. /\ SnapshotOK(session) /\ wake \in Wake /\ WakeOK(wake) /\ session \in Snapshot
        /\ session.book \in Books
        /\ session.stored \in [Books -> 0 .. MaxMark] /\ session.asked \in [Books -> 0 .. MaxMark]
    BY DEF SessionInv, SnapshotOK, Snapshot
  <1>z. 0 \in 0 .. MaxMark /\ wake.next \in Nat \ {0}
    BY <1>t DEF Wake
  <1>w. ASSUME UNCHANGED wake, SnapshotOK(session') PROVE SessionInv'
    BY <1>t, <1>w DEF SessionInv
  <1>s. ASSUME UNCHANGED session, wake' \in Wake, WakeOK(wake') PROVE SessionInv'
    BY <1>t, <1>s DEF SessionInv
  <1>0. CASE UNCHANGED <<session, wake>>
    BY <1>0, <1>t, <1>w
  <1>1. CASE MarkChanges
    <2>1. PICK m \in Marks, first \in BOOLEAN :
            session' \in SaveTTSSession([session EXCEPT !.mark = m], first)
      BY <1>1 DEF MarkChanges
    <2> DEFINE n == [session EXCEPT !.mark = m]
    <2>2. /\ n \in Snapshot /\ n.pending = session.pending /\ n.stored = session.stored
          /\ n.asked = session.asked /\ n.book = session.book
      <3>1. m \in 0 .. MaxMark
        BY <2>1 DEF Marks
      <3> QED BY <1>t, <3>1 DEF Snapshot
    <2>3. session' \in SaveTTSSession(n, first)
      BY <2>1
    <2> HIDE DEF n
    <2>4. SnapshotOK(n)
      BY <1>t, <2>2, SnapshotMoves
    <2> QED BY <1>1, <1>w, <2>3, <2>4, SaveOK DEF MarkChanges
  <1>2. CASE FlushTTSSession
    BY <1>2, <1>t, <1>w, SaveOK DEF FlushTTSSession
  <1>3. CASE StopClearsSession
    <2> DEFINE st == [session.stored EXCEPT ![session.book] = 0]
               as == [session.asked EXCEPT ![session.book] = 0]
               n == [session EXCEPT !.timer = FALSE, !.pending = <<>>, !.recent = FALSE,
                                    !.stored = st, !.asked = as, !.mark = 0]
    <2>1. \A b \in Books : st[b] = as[b]
      BY <1>t, OnlyOpenBookDiffers
    <2>2. st \in [Books -> 0 .. MaxMark] /\ as \in [Books -> 0 .. MaxMark]
      BY <1>t
    <2>3. session' = n
      BY <1>3, <1>t DEF StopClearsSession, ClearTTSSession, Snapshot
    <2> HIDE DEF st, as
    <2>4. n \in Snapshot /\ n.pending = <<>> /\ n.stored = st /\ n.asked = as
      BY <1>t, <1>z, <2>2 DEF Snapshot
    <2> HIDE DEF n
    <2>5. SnapshotOK(n)
      BY <2>1, <2>4 DEF SnapshotOK
    <2> QED BY <1>3, <1>w, <2>3, <2>5 DEF StopClearsSession
  <1>4. CASE LoadExpired
    <2> DEFINE st == [session.stored EXCEPT ![session.book] = 0]
               v == IF session.pending = <<>> THEN 0 ELSE session.asked[session.book]
               as == [session.asked EXCEPT ![session.book] = v]
               n == [session EXCEPT !.stored = st, !.asked = as]
    <2>0. v \in 0 .. MaxMark
      BY <1>t
    <2>1. session.pending = <<>> => \A b \in Books : st[b] = as[b]
      BY <1>t, OnlyOpenBookDiffers
    <2>p. session.pending # <<>> => as = session.asked /\ \A b \in Books : st[b] # as[b] => b = session.book
      BY <1>t, OnlyOpenBookDiffers
    <2>3. session' = n
      BY <1>4, <1>t DEF LoadExpired, Snapshot
    <2> HIDE DEF v
    <2>2. st \in [Books -> 0 .. MaxMark] /\ as \in [Books -> 0 .. MaxMark]
      BY <1>t, <2>0
    <2> HIDE DEF st, as
    <2>4. n \in Snapshot /\ n.pending = session.pending /\ n.stored = st /\ n.asked = as /\ n.book = session.book
      BY <1>t, <2>2 DEF Snapshot
    <2> HIDE DEF n
    <2>5. SnapshotOK(n)
      BY <1>t, <2>1, <2>p, <2>4 DEF SnapshotOK
    <2> QED BY <1>4, <1>w, <2>3, <2>5 DEF LoadExpired
  <1>5. CASE BookChanges
    <2>1. PICK b \in Books, written \in {WritePending(session), WriteRefused(session)} :
             \E s \in SaveTTSSession(written, TRUE) : session' = [s EXCEPT !.book = b, !.mark = 0, !.view = 0]
      BY <1>5 DEF BookChanges
    <2>w. SnapshotOK(written) /\ written.pending = <<>>
      BY <1>t, WritePendingOK, WriteRefusedOK
    <2>s. PICK s \in SaveTTSSession(written, TRUE) : session' = [s EXCEPT !.book = b, !.mark = 0, !.view = 0]
      BY <2>1
    <2>2. SnapshotOK(s) /\ s.pending = <<>> /\ s \in Snapshot
      BY <2>w, SaveOK DEF SnapshotOK
    <2> DEFINE n == [s EXCEPT !.book = b, !.mark = 0, !.view = 0]
    <2>3. n \in Snapshot /\ n.pending = s.pending /\ n.stored = s.stored /\ n.asked = s.asked
      BY <1>z, <2>2 DEF Snapshot
    <2>4. session' = n
      BY <2>s
    <2> HIDE DEF n
    <2>5. SnapshotOK(n)
      BY <2>2, <2>3, SnapshotMoves
    <2> QED BY <1>5, <1>w, <2>4, <2>5 DEF BookChanges
  <1>6. CASE WriteTimerFires
    <2> DEFINE s == WritePending(session)
               n == [s EXCEPT !.recent = TRUE]
    <2>1. SnapshotOK(s) /\ s \in Snapshot /\ SnapshotOK(WriteRefused(session))
      BY <1>t, WritePendingOK, WriteRefusedOK DEF SnapshotOK
    <2>2. session' = n \/ session' = WriteRefused(session)
      BY <1>6 DEF WriteTimerFires
    <2> HIDE DEF s
    <2>3. n \in Snapshot /\ n.pending = s.pending /\ n.stored = s.stored /\ n.asked = s.asked /\ n.book = s.book
      BY <2>1 DEF Snapshot
    <2> HIDE DEF n
    <2>4. SnapshotOK(n)
      BY <2>1, <2>3, SnapshotMoves
    <2> QED BY <1>6, <1>w, <2>1, <2>2, <2>4 DEF WriteTimerFires
  <1>7. CASE IntervalEnds
    <2> DEFINE n == [session EXCEPT !.recent = FALSE]
    <2>1. /\ n \in Snapshot /\ n.pending = session.pending /\ n.stored = session.stored
          /\ n.asked = session.asked /\ n.book = session.book
      BY <1>t DEF Snapshot
    <2>2. session' = n
      BY <1>7 DEF IntervalEnds
    <2> HIDE DEF n
    <2>3. SnapshotOK(n)
      BY <1>t, <2>1, SnapshotMoves
    <2> QED BY <1>7, <1>w, <2>2, <2>3 DEF IntervalEnds
  <1>v. CASE ViewMoves
    <2>1. PICK m \in Marks : session' = [session EXCEPT !.view = m]
      BY <1>v DEF ViewMoves
    <2> DEFINE n == [session EXCEPT !.view = m]
    <2>2. /\ n \in Snapshot /\ n.pending = session.pending /\ n.stored = session.stored
          /\ n.asked = session.asked /\ n.book = session.book
      BY <1>t, <2>1 DEF Snapshot, Marks
    <2>3. session' = n
      BY <2>1
    <2> HIDE DEF n
    <2>4. SnapshotOK(n)
      BY <1>t, <2>2, SnapshotMoves
    <2> QED BY <1>v, <1>w, <2>3, <2>4 DEF ViewMoves
  <1>8. CASE Playing
    <2> DEFINE w == [wake EXCEPT !.playing = TRUE]
    <2>1. w \in Wake /\ w.playing = TRUE /\ w.held = wake.held /\ w.ref = wake.ref /\ w.next = wake.next /\ w.releasing = wake.releasing /\ w.pending = wake.pending
      BY <1>t DEF Wake
    <2>2. wake' = RequestWakeLock(w)
      BY <1>8 DEF Playing
    <2> HIDE DEF w
    <2>3. WakeOK(w)
      BY <1>t, <2>1 DEF WakeOK
    <2> QED BY <1>8, <1>s, <2>1, <2>2, <2>3, RequestWakeLockOK DEF Playing
  <1>9. CASE NotPlaying
    <2> DEFINE w == [wake EXCEPT !.playing = FALSE]
               n == [w EXCEPT !.waiting = TRUE]
    <2>1. w \in Wake /\ n \in Wake
      BY <1>t DEF Wake
    <2>2. n.waiting = TRUE /\ n.held = wake.held /\ n.ref = wake.ref /\ n.next = wake.next /\ n.releasing = wake.releasing /\ n.pending = wake.pending
      BY <1>t DEF Wake
    <2>3. wake' = n
      BY <1>9 DEF NotPlaying, ReleaseWakeLock
    <2> HIDE DEF n
    <2>4. WakeOK(n)
      BY <1>t, <2>2 DEF WakeOK
    <2> QED BY <1>9, <1>s, <2>1, <2>3, <2>4 DEF NotPlaying
  <1>10. CASE LockGranted
    <2> DEFINE a == [wake EXCEPT !.pending = FALSE, !.ref = wake.next, !.next = @ + 1,
                                 !.held = @ \cup {wake.next}]
               b == [wake EXCEPT !.returning = wake.next, !.next = @ + 1]
    <2>0. wake.next \in Nat \ {0} /\ wake.next + 1 \in Nat \ {0} /\ wake.held \in SUBSET Nat /\ wake.releasing \in SUBSET Nat
      BY <1>t DEF Wake
    <2>1. wake.pending /\ wake.held = {}
      BY <1>t, <1>10 DEF LockGranted, WakeOK
    <2>2. /\ a \in Wake /\ a.pending = FALSE /\ a.ref = wake.next /\ a.next = wake.next + 1
          /\ a.held = wake.held \cup {wake.next} /\ a.releasing = wake.releasing
          /\ a.playing = wake.playing /\ a.waiting = wake.waiting
      BY <1>t, <2>0 DEF Wake
    <2>3. /\ b \in Wake /\ b.ref = wake.ref /\ b.pending = wake.pending /\ b.next = wake.next + 1 /\ b.held = wake.held
          /\ b.releasing = wake.releasing /\ b.playing = wake.playing /\ b.waiting = wake.waiting
      BY <1>t, <2>0 DEF Wake
    <2>4. wake' = a \/ wake' = b
      BY <1>10 DEF LockGranted
    <2> HIDE DEF a, b
    <2>5. WakeOK(a)
      BY <1>t, <2>0, <2>1, <2>2 DEF WakeOK
    <2>r. wake.ref \in Nat
      BY <1>t DEF Wake
    <2>6. WakeOK(b)
      BY <1>t, <2>0, <2>1, <2>3, <2>r DEF WakeOK
    <2> QED BY <1>10, <1>s, <2>2, <2>3, <2>4, <2>5, <2>6 DEF LockGranted
  <1>11. CASE LockGivenBack \/ LockRefused
    <2> DEFINE a == [wake EXCEPT !.returning = 0, !.pending = FALSE]
               b == [wake EXCEPT !.pending = FALSE]
    <2>1. /\ a \in Wake /\ a.pending = FALSE /\ a.next = wake.next /\ a.held = wake.held /\ a.ref = wake.ref
          /\ a.releasing = wake.releasing /\ a.playing = wake.playing /\ a.waiting = wake.waiting
      BY <1>t DEF Wake
    <2>2. /\ b \in Wake /\ b.pending = FALSE /\ b.next = wake.next /\ b.held = wake.held /\ b.ref = wake.ref
          /\ b.releasing = wake.releasing /\ b.playing = wake.playing /\ b.waiting = wake.waiting
      BY <1>t DEF Wake
    <2>3. wake' = a \/ wake' = b
      BY <1>11 DEF LockGivenBack, LockRefused
    <2> HIDE DEF a, b
    <2>4. WakeOK(a) /\ WakeOK(b)
      BY <1>t, <2>1, <2>2 DEF WakeOK
    <2> QED BY <1>11, <1>s, <2>1, <2>2, <2>3, <2>4 DEF LockGivenBack, LockRefused
  <1>12. CASE ReleaseContinues
    <2> DEFINE w == [wake EXCEPT !.waiting = FALSE]
               n == [w EXCEPT !.releasing = @ \cup {w.ref}, !.held = @ \ {w.ref}]
    <2>0. wake.pending = FALSE /\ wake.ref \in Nat
      BY <1>12, <1>t DEF ReleaseContinues, Wake
    <2>1. /\ w \in Wake /\ w.ref = wake.ref /\ w.held = wake.held /\ w.releasing = wake.releasing
          /\ w.pending = FALSE /\ w.next = wake.next
      BY <1>t, <2>0 DEF Wake
    <2>2. wake' = IF w.ref # 0 THEN n ELSE w
      BY <1>12 DEF ReleaseContinues, ReleaseAtOnce
    <2> HIDE DEF w
    <2>3. /\ n \in Wake /\ n.ref = w.ref /\ n.held = w.held \ {w.ref} /\ n.releasing = w.releasing \cup {w.ref}
          /\ n.pending = FALSE /\ n.next = w.next
      BY <2>0, <2>1 DEF Wake
    <2> HIDE DEF n
    <2>4. n.held = {}
      BY <1>t, <2>1, <2>3 DEF WakeOK
    <2>5. CASE w.ref # 0
      <3>1. WakeOK(n)
        BY <1>t, <2>1, <2>3, <2>4, <2>5 DEF WakeOK
      <3> QED BY <2>2, <2>3, <2>5, <3>1, <1>s, <1>12 DEF ReleaseContinues
    <2>6. CASE w.ref = 0
      <3>1. WakeOK(w)
        BY <1>t, <2>1, <2>6 DEF WakeOK
      <3> QED BY <2>1, <2>2, <2>6, <3>1, <1>s, <1>12 DEF ReleaseContinues
    <2> QED BY <2>5, <2>6
  <1>13. CASE ReleaseEnds
    <2>1. PICK l \in wake.releasing :
             wake' = [wake EXCEPT !.releasing = @ \ {l}, !.ref = IF @ = l THEN 0 ELSE @]
      BY <1>13 DEF ReleaseEnds
    <2> DEFINE r == IF wake.ref = l THEN 0 ELSE wake.ref
               n == [wake EXCEPT !.releasing = @ \ {l}, !.ref = r]
    <2>2. r \in Nat /\ wake.held \subseteq {r} /\ r < wake.next
      BY <1>t, <1>z DEF Wake, WakeOK
    <2>3. wake' = n
      BY <2>1
    <2> HIDE DEF r
    <2>4. /\ n \in Wake /\ n.ref = r /\ n.releasing = wake.releasing \ {l} /\ n.held = wake.held
          /\ n.pending = wake.pending /\ n.next = wake.next /\ n.playing = wake.playing /\ n.waiting = wake.waiting
      BY <1>t, <2>2 DEF Wake
    <2> HIDE DEF n
    <2>5. WakeOK(n)
      BY <1>t, <2>2, <2>4 DEF WakeOK
    <2> QED BY <1>13, <1>s, <2>3, <2>4, <2>5 DEF ReleaseEnds
  <1>14. CASE PageHides
    <2> DEFINE w == [wake EXCEPT !.visible = FALSE, !.held = {}, !.ref = 0]
               n == [w EXCEPT !.waiting = TRUE]
    <2>1. w \in Wake /\ n \in Wake
      BY <1>t DEF Wake
    <2>2. n.waiting = TRUE /\ n.ref = 0 /\ n.held = {} /\ n.next = wake.next /\ n.releasing = wake.releasing
      BY <1>t DEF Wake
    <2>3. wake' = n
      BY <1>14 DEF PageHides, ReleaseWakeLock
    <2> HIDE DEF n
    <2>4. WakeOK(n)
      BY <1>t, <1>z, <2>2 DEF WakeOK
    <2> QED BY <1>14, <1>s, <2>1, <2>3, <2>4 DEF PageHides
  <1>15. CASE PageShows
    <2> DEFINE w == [wake EXCEPT !.visible = TRUE]
    <2>1. /\ w \in Wake /\ w.playing = wake.playing /\ w.held = wake.held /\ w.ref = wake.ref /\ w.next = wake.next
          /\ w.releasing = wake.releasing /\ w.pending = wake.pending /\ w.waiting = wake.waiting
      BY <1>t DEF Wake
    <2>2. wake' = IF w.playing THEN RequestWakeLock(w) ELSE w
      BY <1>15 DEF PageShows
    <2> HIDE DEF w
    <2>3. WakeOK(w)
      BY <1>t, <2>1 DEF WakeOK
    <2> QED BY <1>15, <1>s, <2>1, <2>2, <2>3, RequestWakeLockOK DEF PageShows
  <1> QED BY <1>0, <1>1, <1>2, <1>3, <1>4, <1>5, <1>6, <1>7, <1>8, <1>9, <1>10, <1>11, <1>12, <1>13,
             <1>14, <1>15, <1>v DEF SessionNext

LEMMA SessionInvSafe == SessionInv => SessionSafe
  BY DEF SessionInv, SessionSafe, StoredAsAsked, NoLeakedLock, SnapshotOK, WakeOK, Wake

-----------------------------------------------------------------------------
(* The shelf page and the end of its grid *)

DeskFields == {"loaded", "visible", "category", "mode", "selected", "dialog", "batch", "uploading", "chosen"}

(* Outside selection mode nothing is selected: only then may a new filter    *)
(* leave the selection alone.                                                *)
DeskInv ==
    /\ DOMAIN desk = DeskFields /\ desk.mode \in BOOLEAN
    /\ desk.selected \subseteq desk.chosen
    /\ ~ desk.mode => desk.selected = {}

Count(n) == IF n = 0 THEN 0 ELSE 1

(* dragDepthRef counts the elements the drag is in, or has still to leave. *)
DragInv ==
    /\ drag \in [depth : Nat, shown : BOOLEAN, inside : Nat, leaving : Nat]
    /\ drag.depth = Count(drag.inside) + Count(drag.leaving)
    /\ drag.shown <=> drag.depth # 0

GridInv ==
    /\ grid \in [left : Int, loading : BOOLEAN, lock : BOOLEAN, recent : BOOLEAN, near : BOOLEAN]
    /\ LockIsLoading

LEMMA PageInitInv == (DeskInit => DeskInv /\ DragInv) /\ (GridInit => GridInv)
  <1>1. ASSUME DeskInit PROVE DeskInv /\ DragInv
    BY <1>1 DEF DeskInit, DeskInv, DragInv, DeskFields, Count
  <1>2. ASSUME GridInit PROVE GridInv
    BY <1>2, GridAssumption DEF GridInit, GridInv, LockIsLoading
  <1> QED BY <1>1, <1>2

LEMMA DeskStepInv == DeskInv /\ DragInv /\ [DeskNext]_<<desk, drag>> => DeskInv' /\ DragInv'
  <1> SUFFICES ASSUME DeskInv, DragInv, [DeskNext]_<<desk, drag>> PROVE DeskInv' /\ DragInv'
    OBVIOUS
  <1> USE DEF DeskInv, DeskFields
  <1>u. UNCHANGED drag => DragInv'
    BY DEF DragInv
  <1>v. UNCHANGED desk => DeskInv'
    OBVIOUS
  <1>0. CASE UNCHANGED <<desk, drag>>
    BY <1>0, <1>u, <1>v
  <1>1. CASE ListsChange
    BY <1>1, <1>u DEF ListsChange
  <1>2. CASE ToggleSelectionMode
    BY <1>2, <1>u DEF ToggleSelectionMode
  <1>3. CASE ToggleVisibleSelection
    BY <1>3, <1>u DEF ToggleVisibleSelection
  <1>4. CASE ChangeFilter
    BY <1>4, <1>u DEF ChangeFilter
  <1>5. ASSUME NEW b \in Shelved, ActivateCard(b) PROVE DeskInv' /\ DragInv'
    BY <1>5, <1>u DEF ActivateCard
  <1>6. ASSUME NEW d \in {"delete", "category", "manage"}, OpenBatchDialog(d) PROVE DeskInv' /\ DragInv'
    BY <1>6, <1>u DEF OpenBatchDialog
  <1>7. CASE CloseDialog \/ ConfirmBatch \/ ConfirmRename
    BY <1>7, <1>u DEF CloseDialog, ConfirmBatch, ConfirmRename
  <1>8. ASSUME NEW op \in desk.batch, NEW ok \in BOOLEAN, BatchEnds(op, ok) PROVE DeskInv' /\ DragInv'
    <2>1. CASE ok
      BY <1>8, <1>u, <2>1 DEF BatchEnds
    <2>2. CASE ~ok
      <3>1. /\ DOMAIN desk' = DeskFields /\ desk'.mode = desk.mode /\ desk'.selected = desk.selected
            /\ desk'.chosen = desk.chosen
        BY <1>8, <2>2 DEF BatchEnds
      <3> QED BY <1>8, <1>u, <3>1 DEF BatchEnds
    <2> QED BY <2>1, <2>2
  <1>9. CASE UploadPressed \/ UploadEnds
    BY <1>9, <1>u DEF UploadPressed, UploadEnds
  <1>10. ASSUME NEW n \in 1 .. 2, DragEnter(n) PROVE DeskInv' /\ DragInv'
    BY <1>10, <1>v DEF DragEnter, DragInv, Count
  <1>11. CASE DragLeave
    <2> DEFINE m == IF drag.depth = 0 THEN 0 ELSE drag.depth - 1
               s == drag.shown /\ m # 0
    <2>1. m \in Nat /\ s \in BOOLEAN /\ m = Count(drag.inside) /\ (s <=> m # 0)
      BY <1>11 DEF DragLeave, DragInv, Count
    <2>2. drag' = [drag EXCEPT !.depth = m, !.shown = s, !.leaving = 0] /\ UNCHANGED desk
      BY <1>11 DEF DragLeave
    <2> HIDE DEF m, s
    <2> DEFINE q == [drag EXCEPT !.depth = m, !.shown = s, !.leaving = 0]
    <2>3. /\ q \in [depth : Nat, shown : BOOLEAN, inside : Nat, leaving : Nat]
          /\ q.depth = m /\ q.shown = s /\ q.inside = drag.inside /\ q.leaving = 0
      BY <2>1 DEF DragInv
    <2>4. drag' = q
      BY <2>2
    <2> HIDE DEF q
    <2> QED BY <1>v, <2>1, <2>2, <2>3, <2>4 DEF DragInv, Count
  <1>12. CASE DragOut
    <2> DEFINE m == IF drag.depth = 0 THEN 0 ELSE drag.depth - 1
               s == drag.shown /\ m # 0
    <2>1. m \in Nat /\ s \in BOOLEAN /\ m = 0 /\ drag.leaving = 0 /\ (s <=> m # 0)
      BY <1>12 DEF DragOut, DragInv, Count
    <2>2. drag' = [drag EXCEPT !.depth = m, !.shown = s, !.inside = 0] /\ UNCHANGED desk
      BY <1>12 DEF DragOut
    <2> HIDE DEF m, s
    <2> DEFINE q == [drag EXCEPT !.depth = m, !.shown = s, !.inside = 0]
    <2>3. /\ q \in [depth : Nat, shown : BOOLEAN, inside : Nat, leaving : Nat]
          /\ q.depth = m /\ q.shown = s /\ q.inside = 0 /\ q.leaving = drag.leaving
      BY <2>1 DEF DragInv
    <2>4. drag' = q
      BY <2>2
    <2> HIDE DEF q
    <2> QED BY <1>v, <2>1, <2>2, <2>3, <2>4 DEF DragInv, Count
  <1>13. CASE ShelfDrop
    BY <1>13 DEF ShelfDrop, DragInv, Count
  <1>14. CASE CategoryGone
    BY <1>14, <1>u DEF CategoryGone
  <1>15. ASSUME NEW op \in desk.batch, NEW ok \in BOOLEAN, RenameEnds(op, ok) PROVE DeskInv' /\ DragInv'
    BY <1>15, <1>u DEF RenameEnds
  <1> QED BY <1>0, <1>1, <1>2, <1>3, <1>4, <1>5, <1>6, <1>7, <1>8, <1>9, <1>10, <1>11, <1>12, <1>13, <1>14, <1>15
          DEF DeskNext

LEMMA GridStepInv == GridInv /\ [GridNext]_grid => GridInv'
  <1> SUFFICES ASSUME GridInv, [GridNext]_grid PROVE GridInv'
    OBVIOUS
  <1> DEFINE Type == [left : Int, loading : BOOLEAN, lock : BOOLEAN, recent : BOOLEAN, near : BOOLEAN]
             Fine(g) == g \in Type /\ (g.lock => g.loading)
  <1>f. GridInv <=> Fine(grid)
    BY DEF GridInv, LockIsLoading
  <1>g. Fine(grid') => GridInv'
    BY DEF GridInv, LockIsLoading
  <1>r. ASSUME NEW g, Fine(g) PROVE Fine(RequestLoadMore(g))
    BY <1>r DEF RequestLoadMore
  <1>s. Fine(LoadSettles(grid))
    BY <1>f DEF LoadSettles
  <1>0. CASE UNCHANGED grid
    BY <1>0 DEF GridInv, LockIsLoading
  <1>1. CASE SentinelNear
    <2> DEFINE g == [grid EXCEPT !.near = TRUE]
    <2>1. Fine(g) /\ grid' = RequestLoadMore(g)
      BY <1>1, <1>f DEF SentinelNear
    <2> HIDE DEF g, Fine
    <2> QED BY <1>g, <1>r, <2>1
  <1>2. CASE SentinelFar \/ LoadMorePressed \/ ThrottleEnds
    BY <1>2, <1>f, <1>g DEF SentinelFar, LoadMorePressed, ThrottleEnds
  <1>3. CASE PageArrives
    <2>1. PICK near \in {FALSE, grid.near} :
             grid' = IF near THEN RequestLoadMore([LoadSettles(grid) EXCEPT !.left = @ - 1, !.near = near])
                     ELSE [LoadSettles(grid) EXCEPT !.left = @ - 1, !.near = near]
      BY <1>3 DEF PageArrives
    <2> DEFINE l == LoadSettles(grid)
               g == [l EXCEPT !.left = @ - 1, !.near = near]
    <2>2. near \in BOOLEAN
      BY <1>f
    <2>3. Fine(l) /\ grid' = IF near THEN RequestLoadMore(g) ELSE g
      BY <1>s, <2>1
    <2> HIDE DEF l
    <2>a. l \in Type /\ l.left \in Int /\ l.left - 1 \in Int
      BY <2>3
    <2>b. g \in Type /\ g.lock = l.lock /\ g.loading = l.loading
      BY <2>2, <2>a
    <2> HIDE DEF g
    <2>4. Fine(g)
      BY <2>3, <2>b
    <2> HIDE DEF g, Fine
    <2> QED BY <1>g, <1>r, <2>3, <2>4
  <1>4. CASE PageFails
    <2> HIDE DEF Fine
    <2> QED BY <1>4, <1>g, <1>r, <1>s DEF PageFails
  <1>5. CASE ResetList
    BY <1>5, <1>g, GridAssumption DEF ResetList
  <1> QED BY <1>0, <1>1, <1>2, <1>3, <1>4, <1>5 DEF GridNext

-----------------------------------------------------------------------------
(* Covers *)

CoverFields == {"queue", "running", "active", "cache", "live", "jobs"}
Urls(s) == {e.url : e \in ToSet(s)}
IsList(s) == s \in Seq(ToSet(s))
IsJob(j) == DOMAIN j = {"id", "card", "key", "instance", "aborted"} /\ j.id \in Nat

(* A job has its own number, and is in one place: waiting, or running. *)
JobsNumbered(cv) ==
    /\ \A i \in DOMAIN cv.queue : IsJob(cv.queue[i]) /\ cv.queue[i].id <= cv.jobs
    /\ \A i, k \in DOMAIN cv.queue : cv.queue[i].id = cv.queue[k].id => i = k
    /\ \A j \in cv.running : IsJob(j) /\ j.id <= cv.jobs
    /\ \A j, k \in cv.running : j.id = k.id => j = k
    /\ \A j \in cv.running, i \in DOMAIN cv.queue : cv.queue[i].id # j.id

(* As many slots are taken as downloads run. *)
SlotsCounted(cv) ==
    /\ IsFiniteSet(cv.running)
    /\ cv.active = Cardinality(cv.running) /\ cv.active <= MaxActive

CoversShape(cv) ==
    /\ DOMAIN cv = CoverFields /\ cv = [f \in CoverFields |-> cv[f]]
    /\ IsList(cv.cache) /\ IsList(cv.queue)
    /\ cv.jobs \in Nat
    /\ cv.live = Urls(cv.cache)

(* Entries of the cache differ in their book and in their URL, and a URL has *)
(* the number of a job that is over: a new one is not the URL of an old one. *)
Distinguished(s) == \A k, l \in DOMAIN s : s[k].url = s[l].url \/ s[k].key[1] = s[l].key[1] => k = l
CacheNumbered(cv) ==
    /\ Distinguished(cv.cache)
    /\ \A i \in DOMAIN cv.cache : cv.cache[i].url \in Nat /\ cv.cache[i].url <= cv.jobs
    /\ \A i \in DOMAIN cv.cache, k \in DOMAIN cv.queue : cv.cache[i].url # cv.queue[k].id
    /\ \A i \in DOMAIN cv.cache, j \in cv.running : cv.cache[i].url # j.id

CoversOK(cv) ==
    /\ CoversShape(cv) /\ JobsNumbered(cv) /\ SlotsCounted(cv) /\ CacheNumbered(cv)
    /\ cv.queue # <<>> => cv.active = MaxActive

(* The jobs of a state, and another state whose jobs are among them or new. *)
Had(cv, id) == (\E i \in DOMAIN cv.queue : cv.queue[i].id = id) \/ (\E j \in cv.running : j.id = id)

LEMMA CacheStays ==
    ASSUME NEW cv, CacheNumbered(cv), cv.jobs \in Nat, NEW q, q.cache = cv.cache, q.jobs \in Nat, cv.jobs <= q.jobs,
           \A k \in DOMAIN q.queue : q.queue[k].id \in Nat /\ (q.queue[k].id <= cv.jobs => Had(cv, q.queue[k].id)),
           \A j \in q.running : j.id \in Nat /\ (j.id <= cv.jobs => Had(cv, j.id))
    PROVE  CacheNumbered(q)
  <1>1. \A i \in DOMAIN cv.cache : /\ cv.cache[i].url \in Nat /\ cv.cache[i].url <= cv.jobs
                                   /\ \A id : Had(cv, id) => cv.cache[i].url # id
    BY DEF CacheNumbered, Had
  <1>2. \A i \in DOMAIN cv.cache : cv.cache[i].url <= q.jobs
    BY <1>1
  <1> QED BY <1>1, <1>2 DEF CacheNumbered

LEMMA ListIntro == ASSUME NEW S, NEW s \in Seq(S) PROVE IsList(s) /\ DOMAIN s = 1 .. Len(s) /\ Len(s) \in Nat
  BY DEF IsList, ToSet

LEMMA ListElim == ASSUME NEW s, IsList(s) PROVE DOMAIN s = 1 .. Len(s) /\ Len(s) \in Nat
  BY DEF IsList

LEMMA RemoveAtList ==
    ASSUME NEW s, IsList(s), NEW i \in DOMAIN s
    PROVE  /\ IsList(RemoveAt(s, i)) /\ Len(RemoveAt(s, i)) = Len(s) - 1
           /\ \A k \in 1 .. (Len(s) - 1) : RemoveAt(s, i)[k] = IF k < i THEN s[k] ELSE s[k + 1]
           /\ RemoveAt(s, i) \in Seq(ToSet(s))
  <1> DEFINE S == ToSet(s)
  <1>1. s \in Seq(S) /\ i \in 1 .. Len(s) /\ Len(s) \in Nat
    BY ListElim DEF IsList
  <1>2. \A k \in 1 .. Len(s) : s[k] \in S
    BY <1>1
  <1> HIDE DEF S
  <1> DEFINE a == SubSeq(s, 1, i - 1)
             b == SubSeq(s, i + 1, Len(s))
  <1>3. a \in Seq(S) /\ Len(a) = i - 1 /\ \A k \in 1 .. (i - 1) : a[k] = s[k]
    BY <1>1, <1>2
  <1>4. b \in Seq(S) /\ Len(b) = Len(s) - i /\ \A k \in 1 .. (Len(s) - i) : b[k] = s[k + i]
    BY <1>1, <1>2
  <1> HIDE DEF a, b
  <1>5. /\ a \o b \in Seq(S) /\ Len(a \o b) = Len(s) - 1
        /\ \A k \in 1 .. (Len(s) - 1) : (a \o b)[k] = IF k < i THEN s[k] ELSE s[k + 1]
    <2>1. a \o b \in Seq(S) /\ Len(a \o b) = Len(s) - 1
      BY <1>1, <1>3, <1>4
    <2>2. ASSUME NEW k \in 1 .. (Len(s) - 1), k < i PROVE (a \o b)[k] = s[k]
      BY <1>1, <1>3, <1>4, <2>2
    <2>3. ASSUME NEW k \in 1 .. (Len(s) - 1), ~ (k < i) PROVE (a \o b)[k] = s[k + 1]
      <3>0. /\ Len(s) \in Nat /\ i \in 1 .. Len(s) /\ Len(a) = i - 1 /\ Len(b) = Len(s) - i
            /\ k \in 1 .. (Len(s) - 1) /\ ~ (k < i)
        BY <1>1, <1>3, <1>4, <2>3
      <3>1. k - Len(a) \in 1 .. Len(b) /\ (k - Len(a)) + i = k + 1 /\ k > Len(a) /\ k <= Len(a) + Len(b)
        BY <3>0, SMT
      <3>2. (a \o b)[k] = b[k - Len(a)]
        BY <1>3, <1>4, <3>1
      <3>3. b[k - Len(a)] = s[(k - Len(a)) + i]
        BY <1>4, <3>1
      <3> QED BY <3>1, <3>2, <3>3
    <2> QED BY <2>1, <2>2, <2>3
  <1>6. RemoveAt(s, i) = a \o b
    BY DEF RemoveAt, a, b
  <1> QED BY <1>5, <1>6, ListIntro DEF S

(* An entry that is taken out and put at the end: the same entries. *)
LEMMA MovedToEnd ==
    ASSUME NEW s, IsList(s), NEW i \in DOMAIN s
    PROVE  /\ IsList(Append(RemoveAt(s, i), s[i])) /\ ToSet(Append(RemoveAt(s, i), s[i])) = ToSet(s)
           /\ Distinguished(s) => Distinguished(Append(RemoveAt(s, i), s[i]))
  <1> DEFINE r == RemoveAt(s, i)
             n == Append(r, s[i])
  <1>1. /\ r \in Seq(ToSet(s)) /\ Len(r) = Len(s) - 1 /\ DOMAIN s = 1 .. Len(s) /\ Len(s) \in Nat
        /\ \A k \in 1 .. (Len(s) - 1) : r[k] = IF k < i THEN s[k] ELSE s[k + 1]
    BY RemoveAtList, ListElim
  <1>2. s[i] \in ToSet(s)
    BY DEF ToSet
  <1> HIDE DEF r
  <1>3. /\ n \in Seq(ToSet(s)) /\ Len(n) = Len(s) /\ n[Len(s)] = s[i]
        /\ \A k \in 1 .. (Len(s) - 1) : n[k] = r[k]
    BY <1>1, <1>2
  <1> HIDE DEF n
  <1>4. DOMAIN n = 1 .. Len(s)
    BY <1>1, <1>3
  <1>5. ASSUME NEW k \in DOMAIN s PROVE \E l \in DOMAIN n : n[l] = s[k]
    <2>1. CASE k = i
      BY <2>1, <1>1, <1>3, <1>4
    <2>2. CASE k < i
      BY <2>2, <1>1, <1>3, <1>4
    <2>3. CASE k > i
      <3>1. k - 1 \in DOMAIN n /\ n[k - 1] = s[k]
        BY <2>3, <1>1, <1>3, <1>4
      <3> QED BY <3>1
    <2> QED BY <2>1, <2>2, <2>3, <1>1
  <1>6. ASSUME NEW l \in DOMAIN n PROVE n[l] \in ToSet(s)
    BY <1>3, <1>4
  <1>7. Distinguished(s) => Distinguished(n)
    <2> DEFINE at(k) == IF k = Len(s) THEN i ELSE IF k < i THEN k ELSE k + 1
    <2>1. \A k \in DOMAIN n : at(k) \in DOMAIN s /\ n[k] = s[at(k)]
      BY <1>1, <1>3, <1>4
    <2>2. \A k, l \in DOMAIN n : at(k) = at(l) => k = l
      BY <1>1, <1>4
    <2> HIDE DEF at
    <2> QED BY <2>1, <2>2 DEF Distinguished
  <1> QED BY <1>3, <1>5, <1>6, <1>7, ListIntro DEF ToSet, n, r

LEMMA MinInSet ==
    ASSUME NEW I \in SUBSET Nat, I # {}
    PROVE  Min(I) \in I
  <1>1. PICK i \in I : \A j \in I : ~ (<<j, i>> \in OpToRel(<, Nat))
    BY NatLessThanWellFounded, WFMin
  <1>2. \A j \in I : ~ (j < i)
    BY <1>1 DEF OpToRel
  <1>3. \A j \in I : i <= j
    BY <1>2
  <1> QED BY <1>3 DEF Min

(* processQueue fills the free slots with the oldest jobs, each with one. *)
LEMMA ProcessQueueOK ==
    ASSUME NEW cv, CoversShape(cv), JobsNumbered(cv), SlotsCounted(cv), CacheNumbered(cv)
    PROVE  CoversOK(ProcessQueue(cv))
  <1> DEFINE free == IF cv.active < MaxActive THEN MaxActive - cv.active ELSE 0
             n == IF Len(cv.queue) < free THEN Len(cv.queue) ELSE free
             rest == SubSeq(cv.queue, n + 1, Len(cv.queue))
             begun == {cv.queue[i] : i \in 1 .. n}
             q == [cv EXCEPT !.queue = rest, !.active = @ + n, !.running = @ \cup begun]
  <1>1. q = ProcessQueue(cv)
    BY DEF ProcessQueue
  <1>2. /\ DOMAIN cv.queue = 1 .. Len(cv.queue) /\ Len(cv.queue) \in Nat /\ cv.active \in Nat
        /\ cv.active <= MaxActive /\ MaxActive \in Nat
    BY ListElim, CoversAssumption, FS_CardinalityType DEF CoversShape, SlotsCounted
  <1>3. /\ n \in 0 .. Len(cv.queue) /\ cv.active + n <= MaxActive
        /\ n < Len(cv.queue) => cv.active + n = MaxActive
    BY <1>2
  <1> HIDE DEF free, n
  <1>4. /\ IsList(rest) /\ Len(rest) = Len(cv.queue) - n /\ DOMAIN rest = 1 .. (Len(cv.queue) - n)
        /\ \A k \in DOMAIN rest : rest[k] = cv.queue[k + n] /\ k + n \in DOMAIN cv.queue
    <2> DEFINE S == ToSet(cv.queue)
    <2>1. cv.queue \in Seq(S) /\ \A k \in 1 .. Len(cv.queue) : cv.queue[k] \in S
      BY <1>2 DEF CoversShape, IsList, ToSet
    <2> HIDE DEF S
    <2>2. rest \in Seq(S) /\ Len(rest) = Len(cv.queue) - n /\ \A k \in 1 .. (Len(cv.queue) - n) : rest[k] = cv.queue[k + n]
      BY <1>2, <1>3, <2>1
    <2> HIDE DEF rest
    <2> QED BY <1>2, <1>3, <2>2, ListIntro
  <1>5. IsFiniteSet(begun) /\ Cardinality(begun) = n
    <2> DEFINE f == [i \in 1 .. n |-> cv.queue[i]]
    <2>a. f \in [1 .. n -> begun] /\ \A j \in begun : \E i \in 1 .. n : f[i] = j
      OBVIOUS
    <2>b. \A i, k \in 1 .. n : f[i] = f[k] => i = k
      BY <1>2, <1>3 DEF JobsNumbered
    <2>1. f \in Bijection(1 .. n, begun)
      <3> HIDE DEF f
      <3> QED BY <2>a, <2>b DEF Bijection, Injection, Surjection, IsInjective
    <2>c. n \in Nat /\ n \in Int /\ 1 \in Int
      BY <1>2, <1>3
    <2>d. IsFiniteSet(1 .. n) /\ Cardinality(1 .. n) = IF 1 > n THEN 0 ELSE n - 1 + 1
      BY <2>c, FS_Interval
    <2>2. IsFiniteSet(1 .. n) /\ Cardinality(1 .. n) = n
      BY <2>c, <2>d
    <2> QED BY <2>1, <2>2, FS_Bijection DEF ExistsBijection
  <1>6. cv.running \cap begun = {}
    BY <1>2, <1>3 DEF JobsNumbered
  <1>e. \A j \in begun : \E i \in 1 .. n : j = cv.queue[i]
    OBVIOUS
  <1> HIDE DEF rest, begun
  <1>7. /\ IsFiniteSet(cv.running \cup begun)
        /\ Cardinality(cv.running \cup begun) = cv.active + n
    <2>1. Cardinality({}) = 0
      BY FS_EmptySet
    <2>2. Cardinality(cv.running) = cv.active /\ IsFiniteSet(cv.running)
      BY DEF SlotsCounted
    <2>3. /\ IsFiniteSet(cv.running \cup begun)
          /\ Cardinality(cv.running \cup begun) = cv.active + n - Cardinality(cv.running \cap begun)
      BY <2>2, <1>5, FS_Union
    <2>4. Cardinality(cv.running \cap begun) = 0
      BY <1>6, <2>1
    <2>5. cv.active + n - 0 = cv.active + n
      BY <1>2, <1>3
    <2> QED BY <2>3, <2>4, <2>5
  <1>8. /\ DOMAIN q = CoverFields /\ q = [f \in CoverFields |-> q[f]] /\ q.queue = rest
        /\ q.active = cv.active + n /\ q.running = cv.running \cup begun
        /\ q.cache = cv.cache /\ q.live = cv.live /\ q.jobs = cv.jobs
    BY DEF CoversShape, CoverFields
  <1> HIDE DEF q
  <1>9. CoversShape(q)
    BY <1>4, <1>8 DEF CoversShape
  <1>10. JobsNumbered(q)
    <2>1. \A i \in DOMAIN rest : IsJob(rest[i]) /\ rest[i].id <= cv.jobs
      BY <1>4 DEF JobsNumbered
    <2>2. \A i, k \in DOMAIN rest : rest[i].id = rest[k].id => i = k
      <3> SUFFICES ASSUME NEW i \in DOMAIN rest, NEW k \in DOMAIN rest, rest[i].id = rest[k].id PROVE i = k
        OBVIOUS
      <3>1. cv.queue[i + n].id = cv.queue[k + n].id /\ i + n \in DOMAIN cv.queue /\ k + n \in DOMAIN cv.queue
        BY <1>4
      <3>2. i + n = k + n
        BY <3>1 DEF JobsNumbered
      <3> QED BY <1>2, <1>3, <1>4, <3>2
    <2>3. \A j \in begun : IsJob(j) /\ j.id <= cv.jobs
      BY <1>2, <1>3, <1>e DEF JobsNumbered
    <2>4. \A j, k \in begun : j.id = k.id => j = k
      BY <1>2, <1>3, <1>e DEF JobsNumbered
    <2>5. \A j \in begun, k \in cv.running : j.id # k.id
      BY <1>2, <1>3, <1>e DEF JobsNumbered
    <2>6. \A j \in begun, i \in DOMAIN rest : rest[i].id # j.id
      <3> SUFFICES ASSUME NEW j \in begun, NEW i \in DOMAIN rest PROVE rest[i].id # j.id
        OBVIOUS
      <3>1. PICK k \in 1 .. n : j = cv.queue[k]
        BY <1>e
      <3>2. k \in DOMAIN cv.queue /\ i + n \in DOMAIN cv.queue /\ k # i + n /\ rest[i] = cv.queue[i + n]
        BY <1>2, <1>3, <1>4
      <3> QED BY <3>1, <3>2 DEF JobsNumbered
    <2>7. \A j \in cv.running, i \in DOMAIN rest : rest[i].id # j.id
      BY <1>4 DEF JobsNumbered
    <2> QED BY <1>8, <2>1, <2>2, <2>3, <2>4, <2>5, <2>6, <2>7 DEF JobsNumbered
  <1>11. SlotsCounted(q)
    BY <1>3, <1>7, <1>8 DEF SlotsCounted
  <1>12. rest # <<>> => q.active = MaxActive
    <2>1. rest # <<>> => Len(rest) # 0
      BY <1>4 DEF IsList
    <2> QED BY <1>2, <1>3, <1>4, <1>8, <2>1
  <1>13. CacheNumbered(q)
    <2>1. \A k \in DOMAIN rest : rest[k].id \in Nat /\ Had(cv, rest[k].id)
      BY <1>4 DEF JobsNumbered, IsJob, Had
    <2>2. \A j \in begun : j.id \in Nat /\ Had(cv, j.id)
      BY <1>2, <1>3, <1>e DEF JobsNumbered, IsJob, Had
    <2>3. \A j \in cv.running : j.id \in Nat /\ Had(cv, j.id)
      BY DEF JobsNumbered, IsJob, Had
    <2>4. cv.jobs \in Nat /\ q.jobs = cv.jobs /\ cv.jobs <= q.jobs
      BY <1>8 DEF CoversShape
    <2> QED BY <1>8, <2>1, <2>2, <2>3, <2>4, CacheStays
  <1> QED BY <1>1, <1>8, <1>9, <1>10, <1>11, <1>12, <1>13 DEF CoversOK

(* What the cache holds, in whichever order, is what is alive. *)
LEMMA CachedOK ==
    ASSUME NEW cv, CoversOK(cv), NEW key
    PROVE  CoversOK(GetCachedCoverUrl(cv, key))
  <1>1. CASE UrlOf(cv, key) = 0
    BY <1>1 DEF GetCachedCoverUrl
  <1>2. CASE UrlOf(cv, key) # 0
    <2> DEFINE i == CHOOSE k \in Hits(cv, key) : TRUE
               c == Append(RemoveAt(cv.cache, i), cv.cache[i])
               q == [cv EXCEPT !.cache = c]
    <2>1. i \in DOMAIN cv.cache
      BY <1>2 DEF UrlOf, Hits
    <2>2. GetCachedCoverUrl(cv, key) = q
      BY <1>2 DEF GetCachedCoverUrl
    <2> HIDE DEF i
    <2>3. IsList(c) /\ ToSet(c) = ToSet(cv.cache) /\ Distinguished(c)
      BY <2>1, MovedToEnd DEF CoversOK, CoversShape, CacheNumbered
    <2> HIDE DEF c
    <2>4. /\ DOMAIN q = CoverFields /\ q = [f \in CoverFields |-> q[f]] /\ q.queue = cv.queue
          /\ q.active = cv.active /\ q.running = cv.running /\ q.cache = c /\ q.live = cv.live /\ q.jobs = cv.jobs
      BY DEF CoversOK, CoversShape, CoverFields
    <2> HIDE DEF q
    <2>5. \A k \in DOMAIN c : \E l \in DOMAIN cv.cache : c[k] = cv.cache[l]
      BY <2>3 DEF ToSet
    <2>6. CacheNumbered(q)
      BY <2>3, <2>4, <2>5 DEF CoversOK, CacheNumbered
    <2> QED BY <2>2, <2>3, <2>4, <2>6 DEF CoversOK, CoversShape, JobsNumbered, SlotsCounted, Urls
  <1> QED BY <1>1, <1>2

LEMMA RemoveFirstList ==
    ASSUME NEW s, IsList(s), NEW n, n = s \/ \E i \in DOMAIN s : n = RemoveAt(s, i)
    PROVE  /\ IsList(n)
           /\ \A k \in DOMAIN n : \E l \in DOMAIN s : n[k] = s[l]
           /\ s = <<>> => n = <<>>
           /\ (\A k, l \in DOMAIN s : s[k].id = s[l].id => k = l)
                => \A k, l \in DOMAIN n : n[k].id = n[l].id => k = l
  <1>1. CASE n = s
    BY <1>1
  <1>2. ASSUME NEW i \in DOMAIN s, n = RemoveAt(s, i)
        PROVE  /\ IsList(n)
               /\ \A k \in DOMAIN n : \E l \in DOMAIN s : n[k] = s[l]
               /\ s = <<>> => n = <<>>
               /\ (\A k, l \in DOMAIN s : s[k].id = s[l].id => k = l)
                    => \A k, l \in DOMAIN n : n[k].id = n[l].id => k = l
    <2>1. /\ IsList(n) /\ Len(n) = Len(s) - 1 /\ DOMAIN n = 1 .. (Len(s) - 1)
          /\ DOMAIN s = 1 .. Len(s) /\ Len(s) \in Nat
          /\ \A k \in 1 .. (Len(s) - 1) : n[k] = IF k < i THEN s[k] ELSE s[k + 1]
      BY <1>2, RemoveAtList, ListElim
    <2> DEFINE at(k) == IF k < i THEN k ELSE k + 1
    <2>2. \A k \in DOMAIN n : at(k) \in DOMAIN s /\ n[k] = s[at(k)]
      BY <2>1
    <2>3. \A k, l \in DOMAIN n : at(k) = at(l) => k = l
      BY <2>1
    <2>4. s # <<>>
      BY <1>2
    <2> HIDE DEF at
    <2> QED BY <2>1, <2>2, <2>3, <2>4
  <1> QED BY <1>1, <1>2

(* A cancelled job leaves the queue or keeps its slot until its download ends. *)
LEMMA CancelOK ==
    ASSUME NEW cv, CoversOK(cv), NEW id
    PROVE  CoversOK(CancelFetch(cv, id))
  <1> DEFINE w == RemoveFirstMatch(cv.queue, LAMBDA j : j.id = id)
             mark(j) == IF j.id = id THEN [j EXCEPT !.aborted = TRUE] ELSE j
             run == {mark(j) : j \in cv.running}
             q == [cv EXCEPT !.queue = w, !.running = run]
  <1>1. CancelFetch(cv, id) = q
    BY DEF CancelFetch
  <1>2. w = cv.queue \/ \E i \in DOMAIN cv.queue : w = RemoveAt(cv.queue, i)
    <2> DEFINE I == {i \in 1 .. Len(cv.queue) : cv.queue[i].id = id}
    <2>0. DOMAIN cv.queue = 1 .. Len(cv.queue) /\ Len(cv.queue) \in Nat
      BY ListElim DEF CoversOK, CoversShape
    <2>1. w = IF \E i \in 1 .. Len(cv.queue) : cv.queue[i].id = id
              THEN RemoveAt(cv.queue, IF I # {} THEN Min(I) ELSE 0) ELSE cv.queue
      BY DEF RemoveFirstMatch, SelectInSeq
    <2>a. I \in SUBSET Nat
      BY <2>0
    <2>2. I # {} => Min(I) \in I
      BY <2>a, MinInSet
    <2> HIDE DEF w
    <2> QED BY <2>0, <2>1, <2>2
  <1> HIDE DEF w
  <1>3. /\ IsList(w) /\ \A k \in DOMAIN w : \E l \in DOMAIN cv.queue : w[k] = cv.queue[l]
        /\ cv.queue = <<>> => w = <<>>
        /\ \A k, l \in DOMAIN w : w[k].id = w[l].id => k = l
    BY <1>2, RemoveFirstList DEF CoversOK, CoversShape, JobsNumbered
  <1>4. \A j \in cv.running : mark(j).id = j.id /\ IsJob(mark(j))
    BY DEF CoversOK, JobsNumbered, IsJob
  <1>5. \A r \in run : \E j \in cv.running : r = mark(j)
    OBVIOUS
  <1>6. IsFiniteSet(run) /\ Cardinality(run) = Cardinality(cv.running)
    <2> DEFINE f == [j \in cv.running |-> mark(j)]
    <2>1. f \in [cv.running -> run] /\ \A r \in run : \E j \in cv.running : f[j] = r
      OBVIOUS
    <2>2. \A j, k \in cv.running : f[j] = f[k] => j = k
      <3> HIDE DEF mark
      <3> QED BY <1>4 DEF CoversOK, JobsNumbered
    <2>3. f \in Bijection(cv.running, run)
      <3> HIDE DEF f, run
      <3> QED BY <2>1, <2>2 DEF Bijection, Injection, Surjection, IsInjective
    <2> HIDE DEF f, run
    <2> QED BY <2>3, FS_Bijection DEF ExistsBijection, CoversOK, SlotsCounted
  <1> HIDE DEF mark, run
  <1>7. /\ DOMAIN q = CoverFields /\ q = [f \in CoverFields |-> q[f]] /\ q.queue = w
        /\ q.active = cv.active /\ q.running = run /\ q.cache = cv.cache /\ q.live = cv.live /\ q.jobs = cv.jobs
    BY DEF CoversOK, CoversShape, CoverFields
  <1> HIDE DEF q
  <1>8. JobsNumbered(q)
    <2>1. JobsNumbered(cv)
      BY DEF CoversOK
    <2>2. \A i \in DOMAIN w : IsJob(w[i]) /\ w[i].id <= cv.jobs
      BY <1>3, <2>1 DEF JobsNumbered
    <2>3. \A r \in run : IsJob(r) /\ r.id <= cv.jobs
      BY <1>4, <1>5, <2>1 DEF JobsNumbered
    <2>4. \A r, t \in run : r.id = t.id => r = t
      BY <1>4, <1>5, <2>1 DEF JobsNumbered
    <2>5. \A r \in run, i \in DOMAIN w : w[i].id # r.id
      BY <1>3, <1>4, <1>5, <2>1 DEF JobsNumbered
    <2> QED BY <1>3, <1>7, <2>2, <2>3, <2>4, <2>5 DEF JobsNumbered
  <1>9. CacheNumbered(q)
    <2>1. JobsNumbered(cv) /\ CacheNumbered(cv) /\ cv.jobs \in Nat /\ cv.jobs <= q.jobs
      BY <1>7 DEF CoversOK, CoversShape
    <2>2. \A k \in DOMAIN w : w[k].id \in Nat /\ Had(cv, w[k].id)
      BY <1>3, <2>1 DEF JobsNumbered, IsJob, Had
    <2>3. \A r \in run : r.id \in Nat /\ Had(cv, r.id)
      BY <1>4, <1>5, <2>1 DEF JobsNumbered, IsJob, Had
    <2> QED BY <1>7, <2>1, <2>2, <2>3, CacheStays
  <1> QED BY <1>1, <1>3, <1>6, <1>7, <1>8, <1>9 DEF CoversOK, CoversShape, SlotsCounted

(* The entries of other books: all of them, each once. *)
Others(s, b) == RemoveFirstMatch(s, LAMBDA e : e.key[1] = b)

OthersOf(o, s, b) ==
    /\ IsList(o) /\ Distinguished(o)
    /\ \A k \in DOMAIN o : \E l \in DOMAIN s : o[k] = s[l] /\ s[l].key[1] # b
    /\ \A l \in DOMAIN s : s[l].key[1] # b => \E k \in DOMAIN o : o[k] = s[l]

LEMMA OthersFacts ==
    ASSUME NEW s, IsList(s), Distinguished(s), NEW b, NEW o, o = Others(s, b)
    PROVE  OthersOf(o, s, b)
  <1> DEFINE I == {i \in 1 .. Len(s) : s[i].key[1] = b}
  <1>0. DOMAIN s = 1 .. Len(s) /\ Len(s) \in Nat
    BY ListElim
  <1>1. o = IF \E i \in 1 .. Len(s) : s[i].key[1] = b THEN RemoveAt(s, IF I # {} THEN Min(I) ELSE 0) ELSE s
    BY DEF Others, RemoveFirstMatch, SelectInSeq
  <1>2. I \in SUBSET Nat
    BY <1>0
  <1>3. I # {} => Min(I) \in I
    BY <1>2, MinInSet
  <1>4. CASE I = {}
    <2>1. o = s /\ \A l \in DOMAIN s : s[l].key[1] # b
      BY <1>0, <1>1, <1>4
    <2> QED BY <2>1 DEF OthersOf
  <1>5. CASE I # {}
    <2>1. PICK i \in DOMAIN s : o = RemoveAt(s, i) /\ s[i].key[1] = b
      BY <1>0, <1>1, <1>3, <1>5
    <2>2. /\ IsList(o) /\ Len(o) = Len(s) - 1 /\ DOMAIN o = 1 .. (Len(s) - 1)
          /\ \A k \in 1 .. (Len(s) - 1) : o[k] = IF k < i THEN s[k] ELSE s[k + 1]
      BY <2>1, RemoveAtList, ListElim
    <2> DEFINE at(k) == IF k < i THEN k ELSE k + 1
    <2>n. PICK n \in Nat : n = Len(s) /\ DOMAIN s = 1 .. n /\ i \in 1 .. n /\ DOMAIN o = 1 .. (n - 1)
      BY <1>0, <2>1, <2>2
    <2>a. /\ \A k \in 1 .. (n - 1) : at(k) \in 1 .. n /\ at(k) # i
          /\ \A k, l \in 1 .. (n - 1) : at(k) = at(l) => k = l
          /\ \A l \in 1 .. n : l < i => l \in 1 .. (n - 1) /\ at(l) = l
          /\ \A l \in 1 .. n : l > i => l - 1 \in 1 .. (n - 1) /\ at(l - 1) = l
          /\ \A l \in 1 .. n : l # i => l < i \/ l > i
      BY <2>n
    <2>3. \A k \in DOMAIN o : at(k) \in DOMAIN s /\ o[k] = s[at(k)] /\ at(k) # i
      <3>1. \A k \in 1 .. (n - 1) : o[k] = s[at(k)]
        BY <2>2, <2>n
      <3> HIDE DEF at
      <3> QED BY <2>a, <2>n, <3>1
    <2> HIDE DEF at
    <2>4. \A k, l \in DOMAIN o : at(k) = at(l) => k = l
      BY <2>a, <2>n
    <2>5. ASSUME NEW l \in DOMAIN s, l # i PROVE \E k \in DOMAIN o : at(k) = l
      BY <2>5, <2>a, <2>n
    <2>6. \A l \in DOMAIN s : s[l].key[1] = b => l = i
      BY <2>1 DEF Distinguished
    <2>7. Distinguished(o)
      <3> SUFFICES ASSUME NEW k \in DOMAIN o, NEW l \in DOMAIN o, o[k].url = o[l].url \/ o[k].key[1] = o[l].key[1]
                   PROVE  k = l
        BY DEF Distinguished
      <3>1. at(k) = at(l)
        <4>1. PICK x \in DOMAIN s : x = at(k) /\ o[k] = s[x]
          BY <2>3
        <4>2. PICK y \in DOMAIN s : y = at(l) /\ o[l] = s[y]
          BY <2>3
        <4>3. s[x].url = s[y].url \/ s[x].key[1] = s[y].key[1]
          BY <4>1, <4>2
        <4>4. x = y
          BY <4>3, Zenon DEF Distinguished
        <4> QED BY <4>1, <4>2, <4>4
      <3> QED BY <2>4, <3>1
    <2>8. \A k \in DOMAIN o : s[at(k)].key[1] # b
      BY <2>3, <2>6
    <2>9. \A l \in DOMAIN s : s[l].key[1] # b => \E k \in DOMAIN o : o[k] = s[l]
      BY <2>1, <2>3, <2>5
    <2> QED BY <2>2, <2>3, <2>7, <2>8, <2>9 DEF OthersOf
  <1> QED BY <1>4, <1>5

(* An entry more, for a book that has none and under a URL that is new. *)
NewTo(e, o) == \A k \in DOMAIN o : o[k].url # e.url /\ o[k].key[1] # e.key[1]
OneMoreThan(n, o, e) ==
    /\ IsList(n) /\ Distinguished(n) /\ DOMAIN n = 1 .. (Len(o) + 1) /\ Len(o) \in Nat /\ Len(n) = Len(o) + 1
    /\ DOMAIN o = 1 .. Len(o) /\ n[Len(o) + 1] = e /\ \A k \in DOMAIN o : n[k] = o[k]

LEMMA EntryAdded ==
    ASSUME NEW o, IsList(o), Distinguished(o), NEW e, NewTo(e, o), NEW n, n = Append(o, e)
    PROVE  OneMoreThan(n, o, e)
  <1>1. PICK S : S = ToSet(o) \cup {e}
    OBVIOUS
  <1>2. ToSet(o) \subseteq S /\ e \in S /\ o \in Seq(ToSet(o))
    BY <1>1 DEF IsList
  <1>3. o \in Seq(S)
    BY <1>2
  <1>4. n \in Seq(S) /\ Len(n) = Len(o) + 1 /\ Len(o) \in Nat /\ n[Len(o) + 1] = e /\ \A k \in 1 .. Len(o) : n[k] = o[k]
    BY <1>2, <1>3
  <1>5. IsList(n) /\ DOMAIN n = 1 .. (Len(o) + 1) /\ DOMAIN o = 1 .. Len(o)
    BY <1>4, ListIntro, ListElim
  <1>6. \A k \in DOMAIN n : k = Len(o) + 1 \/ (k \in DOMAIN o /\ k # Len(o) + 1)
    BY <1>4, <1>5
  <1>7. Distinguished(n)
    BY <1>4, <1>5, <1>6 DEF Distinguished, NewTo
  <1> QED BY <1>4, <1>5, <1>7 DEF OneMoreThan

(* The oldest entries dropped. *)
YoungOf(n, f, d) ==
    /\ IsList(n) /\ Distinguished(n)
    /\ \A k \in DOMAIN n : \E l \in DOMAIN f : n[k] = f[l] /\ l > d
    /\ \A l \in DOMAIN f : l > d => \E k \in DOMAIN n : n[k] = f[l]

LEMMA OldestDropped ==
    ASSUME NEW f, IsList(f), Distinguished(f), NEW d \in Nat, d < Len(f), NEW n, n = SubSeq(f, d + 1, Len(f))
    PROVE  YoungOf(n, f, d)
  <1>1. DOMAIN f = 1 .. Len(f) /\ Len(f) \in Nat
    BY ListElim
  <1>2. PICK S : S = ToSet(f)
    OBVIOUS
  <1>3. f \in Seq(S) /\ \A k \in 1 .. Len(f) : f[k] \in S
    BY <1>1, <1>2 DEF IsList, ToSet
  <1>a. PICK m \in Nat : m = Len(f)
    BY <1>1
  <1>4. n \in Seq(S) /\ Len(n) = Len(f) - d /\ \A k \in 1 .. (Len(f) - d) : n[k] = f[k + d]
    <2>1. d + 1 \in 1 .. m /\ m - (d + 1) + 1 = m - d /\ \A k \in 1 .. (m - d) : k + (d + 1) - 1 = k + d
      BY <1>a
    <2>2. n = SubSeq(f, d + 1, m)
      BY <1>a
    <2>3. n \in Seq(S)
      BY <1>3, <1>a, <2>1, <2>2
    <2>4. Len(n) = m - d
      BY <1>3, <1>a, <2>1, <2>2
    <2>5. \A k \in 1 .. (m - d) : n[k] = f[k + d]
      BY <1>3, <1>a, <2>1, <2>2
    <2> QED BY <1>a, <2>3, <2>4, <2>5
  <1>5. IsList(n) /\ DOMAIN n = 1 .. (Len(f) - d)
    BY <1>4, ListIntro
  <1>6. \A k \in DOMAIN n : n[k] = f[k + d] /\ k + d \in DOMAIN f /\ k + d > d
    <2>1. \A k \in 1 .. (m - d) : k + d \in 1 .. m /\ k + d > d
      BY <1>a
    <2> QED BY <1>1, <1>4, <1>5, <1>a, <2>1
  <1>7. \A k, l \in DOMAIN n : k + d = l + d => k = l
    BY <1>1, <1>5
  <1>8. Distinguished(n)
    BY <1>6, <1>7 DEF Distinguished
  <1>9. ASSUME NEW l \in DOMAIN f, l > d PROVE \E k \in DOMAIN n : n[k] = f[l]
    <2>1. l - d \in DOMAIN n /\ (l - d) + d = l
      BY <1>1, <1>5, <1>9
    <2> QED BY <1>6, <2>1
  <1> QED BY <1>5, <1>6, <1>8, <1>9 DEF YoungOf

(* A new entry: what its book had and what is too old goes, with its URL. *)
LEMMA SetCachedOK ==
    ASSUME NEW cv, CoversShape(cv), CacheNumbered(cv), NEW key, NEW url \in Nat, url <= cv.jobs, ~Had(cv, url),
           \A i \in DOMAIN cv.cache : cv.cache[i].url # url
    PROVE  LET q == SetCachedCoverUrl(cv, key, url)
           IN  /\ CoversShape(q) /\ q.queue = cv.queue /\ q.running = cv.running
               /\ q.active = cv.active /\ q.jobs = cv.jobs /\ CacheNumbered(q)
  <1>a. PICK s : s = cv.cache
    OBVIOUS
  <1>b. PICK b : b = key[1]
    OBVIOUS
  <1>c. PICK e : e = [key |-> key, url |-> url]
    OBVIOUS
  <1>d. PICK others : others = Others(s, b)
    OBVIOUS
  <1>e. PICK full : full = Append(others, e)
    OBVIOUS
  <1>f. PICK d : d = Surplus(full)
    OBVIOUS
  <1>g. PICK kept : kept = SubSeq(full, d + 1, Len(full))
    OBVIOUS
  <1>h. PICK versions : versions = {x \in ToSet(s) : x.key[1] = b /\ x.key # key}
    OBVIOUS
  <1>i. PICK earlier : earlier = {x \in ToSet(s) : x.key = key /\ x.url # url}
    OBVIOUS
  <1>j. PICK old : old = {full[i] : i \in 1 .. d}
    OBVIOUS
  <1>2. PICK gone : gone = versions \cup earlier
    OBVIOUS
  <1>k. PICK alive : alive = (cv.live \cup {url}) \ {x.url : x \in gone \cup old}
    OBVIOUS
  <1>3. PICK q : q = [cv EXCEPT !.cache = kept, !.live = alive]
    OBVIOUS
  <1>4. SetCachedCoverUrl(cv, key, url) = q
    <2>1. WithEntry(cv, key, url) = full
      BY <1>a, <1>b, <1>c, <1>d, <1>e DEF WithEntry, Others
    <2>2. SetCachedCoverUrl(cv, key, url)
          = [cv EXCEPT !.cache = SubSeq(full, Surplus(full) + 1, Len(full)),
                       !.live = (@ \cup {url}) \ {x.url : x \in {x \in ToSet(cv.cache) : x.key[1] = key[1] /\ x.key # key}
                         \cup {x \in ToSet(cv.cache) : x.key = key /\ x.url # url}
                         \cup {full[i] : i \in 1 .. Surplus(full)}}]
      BY <2>1 DEF SetCachedCoverUrl
    <2> QED BY <1>2, <1>3, <1>a, <1>b, <1>f, <1>g, <1>h, <1>i, <1>j, <1>k, <2>2
  <1>5. IsList(s) /\ Distinguished(s) /\ cv.live = Urls(s) /\ e.key = key /\ e.url = url
    BY <1>a, <1>c DEF CoversShape, CacheNumbered
  <1>6. /\ IsList(others) /\ Distinguished(others)
        /\ \A k \in DOMAIN others : \E l \in DOMAIN s : others[k] = s[l] /\ s[l].key[1] # b
        /\ \A l \in DOMAIN s : s[l].key[1] # b => \E k \in DOMAIN others : others[k] = s[l]
    <2>1. OthersOf(others, s, b)
      BY <1>5, <1>d, OthersFacts, Zenon
    <2> QED BY <2>1 DEF OthersOf
  <1>7. \A k \in DOMAIN others : others[k].url # e.url /\ others[k].key[1] # e.key[1]
    BY <1>5, <1>6, <1>a, <1>b
  <1>8. /\ IsList(full) /\ Distinguished(full) /\ DOMAIN full = 1 .. (Len(others) + 1) /\ Len(others) \in Nat
        /\ Len(full) = Len(others) + 1 /\ DOMAIN others = 1 .. Len(others)
        /\ full[Len(others) + 1] = e /\ \A k \in DOMAIN others : full[k] = others[k]
    <2>1. OneMoreThan(full, others, e)
      BY <1>6, <1>7, <1>e, EntryAdded, Zenon DEF NewTo
    <2> QED BY <2>1 DEF OneMoreThan
  <1>9. d \in Nat /\ d < Len(full)
    BY <1>8, <1>f, CoversAssumption DEF Surplus
  <1>10. /\ IsList(kept) /\ Distinguished(kept)
         /\ \A k \in DOMAIN kept : \E l \in DOMAIN full : kept[k] = full[l] /\ l > d
         /\ \A l \in DOMAIN full : l > d => \E k \in DOMAIN kept : kept[k] = full[l]
    <2>1. YoungOf(kept, full, d)
      BY <1>8, <1>9, <1>g, OldestDropped, Zenon
    <2> QED BY <2>1 DEF YoungOf
  <1>11. \A l \in DOMAIN full : full[l] = e \/ \E k \in DOMAIN s : full[l] = s[k] /\ s[k].key[1] # b
    <2>1. \A l \in DOMAIN full : l = Len(others) + 1 \/ l \in DOMAIN others
      BY <1>8
    <2> QED BY <1>6, <1>8, <2>1
  <1>12. \A x \in gone : \E k \in DOMAIN s : x = s[k] /\ s[k].key[1] = b
    BY <1>2, <1>b, <1>h, <1>i DEF ToSet
  <1>13. \A x \in old : \E i \in DOMAIN full : x = full[i] /\ i <= d
    BY <1>8, <1>9, <1>j
  <1>14. alive = Urls(kept)
    <2>1. ASSUME NEW k \in DOMAIN kept PROVE kept[k].url \in alive
      <3>1. PICK l \in DOMAIN full : kept[k] = full[l] /\ l > d
        BY <1>10
      <3>2. full[l].url \in cv.live \cup {url}
        BY <1>5, <1>11 DEF Urls, ToSet
      <3>3. ASSUME NEW x \in gone PROVE x.url # full[l].url
        <4>1. PICK m \in DOMAIN s : x = s[m] /\ s[m].key[1] = b
          BY <1>12
        <4>2. s[m].url # url
          BY <1>a
        <4>3. ASSUME NEW h \in DOMAIN s, s[h].key[1] # b PROVE s[h].url # s[m].url
          BY <1>5, <4>1, <4>3 DEF Distinguished
        <4> QED BY <1>5, <1>11, <4>1, <4>2, <4>3
      <3>4. ASSUME NEW x \in old PROVE x.url # full[l].url
        <4>1. PICK i \in DOMAIN full : x = full[i] /\ i <= d
          BY <1>13
        <4>2. i # l
          BY <1>8, <1>9, <3>1, <4>1
        <4> QED BY <1>8, <4>1, <4>2 DEF Distinguished
      <3> QED BY <1>k, <3>1, <3>2, <3>3, <3>4
    <2>2. ASSUME NEW u \in alive PROVE \E k \in DOMAIN kept : kept[k].url = u
      <3>1. u \in cv.live \cup {url} /\ \A x \in gone \cup old : x.url # u
        BY <1>k
      <3>2. PICK l \in DOMAIN full : full[l].url = u
        <4>1. CASE u = url
          BY <1>5, <1>8, <4>1
        <4>2. CASE u # url
          <5>1. PICK m \in DOMAIN s : s[m].url = u
            BY <1>5, <3>1, <4>2 DEF Urls, ToSet
          <5>2. s[m].key[1] # b
            <6>1. s[m] \in ToSet(s) /\ s[m] \notin gone
              BY <3>1, <5>1 DEF ToSet
            <6> QED BY <1>2, <1>h, <1>i, <4>2, <5>1, <6>1
          <5>3. PICK k \in DOMAIN others : others[k] = s[m]
            BY <1>6, <5>2
          <5>4. k \in DOMAIN full /\ full[k] = s[m]
            BY <1>8, <5>3
          <5> QED BY <5>1, <5>4
        <4> QED BY <4>1, <4>2
      <3>3. l > d
        <4>1. CASE l <= d
          <5>1. full[l] \in old
            BY <1>8, <1>9, <1>j, <4>1
          <5> QED BY <3>1, <3>2, <5>1
        <4> QED BY <1>8, <1>9, <4>1
      <3> QED BY <1>10, <3>2, <3>3
    <2> QED BY <2>1, <2>2 DEF Urls, ToSet
  <1>15. /\ DOMAIN q = CoverFields /\ q = [f \in CoverFields |-> q[f]] /\ q.queue = cv.queue
         /\ q.active = cv.active /\ q.running = cv.running /\ q.cache = kept /\ q.live = alive /\ q.jobs = cv.jobs
    BY <1>3 DEF CoversShape, CoverFields
  <1>16. CoversShape(q)
    BY <1>10, <1>14, <1>15 DEF CoversShape
  <1>17. \A k \in DOMAIN kept : kept[k].url = url \/ \E m \in DOMAIN s : kept[k] = s[m]
    BY <1>5, <1>10, <1>11
  <1>18. CacheNumbered(q)
    <2>1. \A k \in DOMAIN kept : kept[k].url = url \/ \E m \in DOMAIN cv.cache : kept[k].url = cv.cache[m].url
      BY <1>17, <1>a
    <2>2. \A k \in DOMAIN kept : kept[k].url \in Nat /\ kept[k].url <= cv.jobs
      BY <2>1 DEF CacheNumbered
    <2>3. \A k \in DOMAIN kept, m \in DOMAIN cv.queue : kept[k].url # cv.queue[m].id
      BY <2>1 DEF CacheNumbered, Had
    <2>4. \A k \in DOMAIN kept, j \in cv.running : kept[k].url # j.id
      BY <2>1 DEF CacheNumbered, Had
    <2> QED BY <1>10, <1>15, <2>2, <2>3, <2>4 DEF CacheNumbered
  <1> QED BY <1>4, <1>15, <1>16, <1>18

(* A new job waits behind the others under a number of its own. *)
LEMMA ScheduleOK ==
    ASSUME NEW c, CoversOK(covers)
    PROVE  CoversOK(ScheduleCoverFetch(covers, c))
  <1> DEFINE j == [id |-> covers.jobs + 1, card |-> c, key |-> Key(c),
                   instance |-> cards[c].instance, aborted |-> FALSE]
             w == Append(covers.queue, j)
             q == [covers EXCEPT !.jobs = @ + 1, !.queue = w]
  <1>1. ScheduleCoverFetch(covers, c) = ProcessQueue(q)
    BY DEF ScheduleCoverFetch
  <1>2. covers.jobs \in Nat /\ covers.queue \in Seq(ToSet(covers.queue))
    BY DEF CoversOK, CoversShape, IsList
  <1>3. IsJob(j) /\ j.id = covers.jobs + 1
    BY <1>2 DEF IsJob
  <1> HIDE DEF j
  <1>4. /\ IsList(w) /\ Len(covers.queue) \in Nat /\ DOMAIN w = 1 .. (Len(covers.queue) + 1)
        /\ DOMAIN covers.queue = 1 .. Len(covers.queue)
        /\ w[Len(covers.queue) + 1] = j /\ \A i \in DOMAIN covers.queue : w[i] = covers.queue[i]
    <2> DEFINE S == ToSet(covers.queue) \cup {j}
    <2>0. ToSet(covers.queue) \subseteq S /\ j \in S
      OBVIOUS
    <2> HIDE DEF S
    <2>1. covers.queue \in Seq(S) /\ j \in S
      BY <1>2, <2>0
    <2>2. w \in Seq(S) /\ Len(w) = Len(covers.queue) + 1 /\ Len(covers.queue) \in Nat
      BY <2>1
    <2>3. w[Len(covers.queue) + 1] = j /\ \A i \in 1 .. Len(covers.queue) : w[i] = covers.queue[i]
      BY <2>1
    <2> HIDE DEF w
    <2> QED BY <2>1, <2>2, <2>3, ListIntro
  <1> HIDE DEF w
  <1>5. /\ DOMAIN q = CoverFields /\ q = [f \in CoverFields |-> q[f]] /\ q.queue = w
        /\ q.active = covers.active /\ q.running = covers.running /\ q.cache = covers.cache
        /\ q.live = covers.live /\ q.jobs = covers.jobs + 1
    BY DEF CoversOK, CoversShape, CoverFields
  <1> HIDE DEF q
  <1>6. CoversShape(q) /\ SlotsCounted(q)
    BY <1>2, <1>4, <1>5 DEF CoversOK, CoversShape, SlotsCounted
  <1>7. JobsNumbered(q)
    <2>1. JobsNumbered(covers)
      BY DEF CoversOK
    <2>2. \A i \in DOMAIN w : i \in DOMAIN covers.queue \/ i = Len(covers.queue) + 1
      BY <1>4
    <2>3. \A i \in DOMAIN w : IsJob(w[i]) /\ w[i].id <= covers.jobs + 1
      BY <1>2, <1>3, <1>4, <2>1, <2>2 DEF JobsNumbered, IsJob
    <2>4. \A i, k \in DOMAIN w : w[i].id = w[k].id => i = k
      BY <1>2, <1>3, <1>4, <2>1, <2>2 DEF JobsNumbered, IsJob
    <2>5. \A r \in covers.running : IsJob(r) /\ r.id <= covers.jobs + 1
      BY <1>2, <2>1 DEF JobsNumbered, IsJob
    <2>6. \A r \in covers.running, i \in DOMAIN w : w[i].id # r.id
      BY <1>2, <1>3, <1>4, <2>1, <2>2 DEF JobsNumbered, IsJob
    <2>7. \A r, t \in covers.running : r.id = t.id => r = t
      BY <2>1 DEF JobsNumbered
    <2> QED BY <1>5, <2>3, <2>4, <2>5, <2>6, <2>7 DEF JobsNumbered
  <1>8. CacheNumbered(q)
    <2>1. JobsNumbered(covers) /\ CacheNumbered(covers) /\ covers.jobs <= q.jobs /\ q.jobs \in Nat
      BY <1>2, <1>5 DEF CoversOK
    <2>2. \A i \in DOMAIN covers.queue : covers.queue[i].id \in Nat /\ Had(covers, covers.queue[i].id)
      BY <2>1 DEF JobsNumbered, IsJob, Had
    <2>3. \A i \in DOMAIN w : w[i] = j \/ \E k \in DOMAIN covers.queue : w[i] = covers.queue[k]
      BY <1>4
    <2>4. j.id \in Nat /\ ~(j.id <= covers.jobs)
      BY <1>2, <1>3
    <2>5. \A k \in DOMAIN w : w[k].id \in Nat /\ (w[k].id <= covers.jobs => Had(covers, w[k].id))
      BY <2>2, <2>3, <2>4
    <2>6. \A r \in covers.running : r.id \in Nat /\ Had(covers, r.id)
      BY <2>1 DEF JobsNumbered, IsJob, Had
    <2> QED BY <1>2, <1>5, <2>1, <2>5, <2>6, CacheStays
  <1> QED BY <1>1, <1>6, <1>7, <1>8, ProcessQueueOK

LEMMA CoversInitInv == CoversInit => CoversOK(covers)
  <1> SUFFICES ASSUME CoversInit PROVE CoversOK(covers)
    OBVIOUS
  <1>1. /\ DOMAIN covers = CoverFields /\ covers = [f \in CoverFields |-> covers[f]] /\ covers.queue = <<>>
        /\ covers.active = 0 /\ covers.running = {} /\ covers.cache = <<>>
        /\ covers.live = {} /\ covers.jobs = 0
    BY DEF CoversInit, CoverFields
  <1>2. IsList(<<>>) /\ DOMAIN <<>> = {} /\ ToSet(<<>>) = {}
    BY DEF IsList, ToSet
  <1>3. IsFiniteSet({}) /\ Cardinality({}) = 0
    BY FS_EmptySet
  <1>4. 0 <= MaxActive
    BY CoversAssumption
  <1>5. Urls(<<>>) = {}
    BY <1>2 DEF Urls
  <1>6. CoversShape(covers)
    <2> DEFINE e == <<>>
    <2>0. covers.cache = e /\ covers.queue = e /\ IsList(e) /\ Urls(e) = {}
      BY <1>1, <1>2, <1>5
    <2> HIDE DEF e
    <2>1. IsList(covers.cache) /\ IsList(covers.queue) /\ covers.live = Urls(covers.cache)
      BY <1>1, <2>0
    <2>2. covers.jobs \in Nat
      BY <1>1
    <2> QED BY <1>1, <2>1, <2>2 DEF CoversShape
  <1>7. JobsNumbered(covers)
    BY <1>1, <1>2 DEF JobsNumbered
  <1>8. SlotsCounted(covers)
    BY <1>1, <1>3, <1>4 DEF SlotsCounted
  <1>9. CacheNumbered(covers)
    BY <1>1, <1>2 DEF CacheNumbered, Distinguished
  <1> QED BY <1>1, <1>6, <1>7, <1>8, <1>9 DEF CoversOK

LEMMA FetchEndsOK ==
    ASSUME CoversOK(covers), NEW j \in covers.running, NEW ok \in BOOLEAN, FetchEnds(j, ok)
    PROVE  CoversOK(covers')
  <1> DEFINE run == covers.running \ {j}
             freed == [covers EXCEPT !.running = run, !.active = @ - 1]
             stored == SetCachedCoverUrl(freed, j.key, j.id)
  <1>1. covers' = ProcessQueue(stored) \/ covers' = ProcessQueue(freed)
    BY DEF FetchEnds
  <1>2. /\ IsFiniteSet(run) /\ Cardinality(run) = covers.active - 1 /\ covers.active - 1 <= MaxActive
    <2>1. IsFiniteSet(covers.running) /\ covers.active = Cardinality(covers.running) /\ covers.active <= MaxActive
      BY DEF CoversOK, SlotsCounted
    <2>2. covers.active \in Nat
      BY <2>1, FS_CardinalityType
    <2> QED BY <2>1, <2>2, FS_RemoveElement, CoversAssumption
  <1>3. run \subseteq covers.running
    OBVIOUS
  <1> HIDE DEF run
  <1>4. /\ DOMAIN freed = CoverFields /\ freed = [f \in CoverFields |-> freed[f]] /\ freed.queue = covers.queue
        /\ freed.active = covers.active - 1 /\ freed.running = run /\ freed.cache = covers.cache
        /\ freed.live = covers.live /\ freed.jobs = covers.jobs
    BY DEF CoversOK, CoversShape, CoverFields
  <1> HIDE DEF freed
  <1>5. CoversShape(freed) /\ SlotsCounted(freed)
    BY <1>2, <1>4 DEF CoversOK, CoversShape, SlotsCounted
  <1>6. JobsNumbered(freed) /\ CacheNumbered(freed)
    BY <1>3, <1>4 DEF CoversOK, JobsNumbered, CacheNumbered
  <1>7. CoversShape(stored) /\ SlotsCounted(stored) /\ JobsNumbered(stored) /\ CacheNumbered(stored)
    <2>a. JobsNumbered(covers) /\ CacheNumbered(covers)
      BY DEF CoversOK
    <2>b. j.id \in Nat /\ j.id <= freed.jobs
      BY <1>4, <2>a DEF JobsNumbered, IsJob
    <2>c. \A r \in run : r.id # j.id
      BY <2>a DEF JobsNumbered, run
    <2>d. \A i \in DOMAIN covers.queue : covers.queue[i].id # j.id
      BY <2>a DEF JobsNumbered
    <2>e. ~Had(freed, j.id)
      BY <1>4, <2>c, <2>d DEF Had
    <2>f. \A i \in DOMAIN freed.cache : freed.cache[i].url # j.id
      BY <1>4, <2>a DEF CacheNumbered
    <2>0. /\ j.id \in Nat /\ j.id <= freed.jobs /\ ~Had(freed, j.id)
          /\ \A i \in DOMAIN freed.cache : freed.cache[i].url # j.id
      BY <2>b, <2>e, <2>f
    <2>1. /\ CoversShape(stored) /\ stored.queue = freed.queue /\ stored.running = freed.running
          /\ stored.active = freed.active /\ stored.jobs = freed.jobs /\ CacheNumbered(stored)
      BY <1>5, <1>6, <2>0, SetCachedOK
    <2> HIDE DEF stored
    <2> QED BY <1>5, <1>6, <2>1 DEF SlotsCounted, JobsNumbered
  <1> HIDE DEF stored
  <1> QED BY <1>1, <1>5, <1>6, <1>7, ProcessQueueOK

LEMMA CoversStepInv == CoversOK(covers) /\ [CoversNext]_<<covers, cards>> => CoversOK(covers')
  <1> SUFFICES ASSUME CoversOK(covers), [CoversNext]_<<covers, cards>> PROVE CoversOK(covers')
    OBVIOUS
  <1>0. CASE UNCHANGED <<covers, cards>>
    BY <1>0
  <1>1. ASSUME NEW c \in Cards, Mount(c) PROVE CoversOK(covers')
    BY <1>1, CachedOK DEF Mount
  <1>2. ASSUME NEW c \in Cards, ComesNear(c) PROVE CoversOK(covers')
    BY <1>2, CachedOK, ScheduleOK DEF ComesNear
  <1>3. ASSUME NEW c \in Cards, GoesAway(c) PROVE CoversOK(covers')
    BY <1>3, CachedOK, CancelOK DEF GoesAway
  <1>4. ASSUME NEW c \in Cards, NEW r \in BOOLEAN, Unmounts(c, r) PROVE CoversOK(covers')
    BY <1>4, CancelOK DEF Unmounts
  <1>5. ASSUME NEW j \in covers.running, NEW ok \in BOOLEAN, FetchEnds(j, ok) PROVE CoversOK(covers')
    BY <1>5, FetchEndsOK
  <1>6. CASE ClearCoverUrlCache
    <2> DEFINE alive == covers.live \ {e.url : e \in ToSet(covers.cache)}
               q == [covers EXCEPT !.cache = <<>>, !.live = alive]
    <2>1. alive = {}
      BY DEF CoversOK, CoversShape, Urls
    <2>2. covers' = q
      BY <1>6 DEF ClearCoverUrlCache
    <2> HIDE DEF alive
    <2>3. /\ DOMAIN q = CoverFields /\ q = [f \in CoverFields |-> q[f]] /\ q.queue = covers.queue
          /\ q.active = covers.active /\ q.running = covers.running /\ q.cache = <<>>
          /\ q.live = alive /\ q.jobs = covers.jobs
      BY DEF CoversOK, CoversShape, CoverFields
    <2>4. IsList(<<>>) /\ ToSet(<<>>) = {}
      BY DEF IsList, ToSet
    <2> HIDE DEF q
    <2>5. Urls(<<>>) = {}
      BY <2>4 DEF Urls
    <2>6. CoversShape(q)
      BY <2>1, <2>3, <2>4, <2>5 DEF CoversOK, CoversShape
    <2>7. JobsNumbered(q)
      BY <2>3 DEF CoversOK, JobsNumbered
    <2>8. SlotsCounted(q)
      BY <2>3 DEF CoversOK, SlotsCounted
    <2>9. CacheNumbered(q)
      BY <2>3 DEF CacheNumbered, Distinguished
    <2> QED BY <2>2, <2>3, <2>6, <2>7, <2>8, <2>9 DEF CoversOK
  <1> QED BY <1>0, <1>1, <1>2, <1>3, <1>4, <1>5, <1>6 DEF CoversNext

LEMMA ShelfPageHolds == DeskInv /\ DragInv /\ GridInv /\ CoversOK(covers) => ShelfPageSafe
  <1> SUFFICES ASSUME DeskInv, DragInv, GridInv, CoversOK(covers) PROVE ShelfPageSafe
    OBVIOUS
  <1>1. SelectedWasSeen /\ LockIsLoading
    BY DEF DeskInv, SelectedWasSeen, GridInv
  <1>2. OverlayTracksDrag
    BY DEF DragInv, OverlayTracksDrag, Count
  <1>3. LiveUrlsCached /\ SlotsMatch
    BY DEF CoversOK, CoversShape, SlotsCounted, Urls, LiveUrlsCached, SlotsMatch
  <1> QED BY <1>1, <1>2, <1>3 DEF ShelfPageSafe

-----------------------------------------------------------------------------
(* Requests *)

Call == [kind : Kinds, phase : {"idle", "waiting", "pausing", "body", "done"}, base : Nat,
         attempt : Nat, n : Nat, aborted : BOOLEAN, outcome : {"none", "ok", "refused", "failed", "aborted"}]
Request == [n : Nat, at : {"wire", "good", "duplicate", "refused", "gateway"}]
Server == [acted : Nat, has : BOOLEAN, took : Nat, refused : BOOLEAN]

(* The server spoke before an answer says so, and took a book at most once;  *)
(* only a call with the caller's signal is aborted, and only an upload waits *)
(* to be sent again.                                                         *)
ApiInv ==
    /\ call \in Call /\ request \in SUBSET Request /\ server \in Server
    /\ call.aborted => call.kind \in Signalled
    /\ call.phase = "pausing" => call.kind = "upload"
    /\ \A r \in request : r.at \in {"refused", "gateway"} => server.refused
    /\ call.kind = "upload" => \A r \in request : r.at \in {"good", "duplicate"} => server.has
    /\ call.kind = "upload" => /\ call.outcome = "refused" => server.refused
                               /\ call.outcome = "ok" => server.has
    /\ server.took = 0 \/ (server.took = 1 /\ server.has)

AbortStops == call.aborted => call'.n = call.n \/ ~ call'.aborted

LEMMA ApiInitInv == ApiInit => ApiInv
  <1> SUFFICES ASSUME ApiInit PROVE ApiInv
    OBVIOUS
  <1>1. call \in Call /\ call.kind = "read" /\ call.phase = "idle" /\ call.aborted = FALSE
    BY DEF ApiInit, NoCall, Call, Kinds
  <1>2. PICK b \in BOOLEAN : server = [acted |-> 0, has |-> b, took |-> 0, refused |-> FALSE]
    BY DEF ApiInit
  <1>3. server \in Server /\ server.took = 0
    BY <1>2 DEF Server
  <1> QED BY <1>1, <1>3 DEF ApiInit, ApiInv

(* A call goes on or ends without saying more than the server did. *)
LEMMA CallGoesOn ==
    ASSUME ApiInv, UNCHANGED server, NEW c \in Call, call' = c, c.kind = call.kind,
           c.aborted = call.aborted, c.phase = "pausing" => c.kind = "upload",
           c.outcome \in {"none", "failed", "aborted", call.outcome},
           request' \subseteq request \cup {[n |-> c.n, at |-> "wire"]}
    PROVE  ApiInv'
  <1>1. [n |-> c.n, at |-> "wire"] \in Request
    BY DEF Call, Request
  <1>2. request' \in SUBSET Request
    BY <1>1 DEF ApiInv
  <1>3. \A r \in request' : r \in request \/ r.at = "wire"
    OBVIOUS
  <1> QED BY <1>2, <1>3 DEF ApiInv

LEMMA NextBaseInv ==
    ASSUME ApiInv, NEW o \in {"none", call.outcome}, UNCHANGED server,
           \/ NextBase(call)
           \/ Gives([call EXCEPT !.outcome = o])
           \/ Ends(call, "aborted") \/ Ends(call, call.outcome)
           \/ call.phase = "pausing" /\ Fetch([call EXCEPT !.attempt = 2, !.base = 1])
    PROVE  ApiInv'
  <1>t. call \in Call /\ call.base + 1 \in Nat /\ call.n + 1 \in Nat /\ call.kind \in Kinds /\ o \in {"none", "ok", "refused", "failed", "aborted"}
    BY DEF ApiInv, Call
  <1>1. ASSUME NEW b \in Nat, NEW a \in Nat, Fetch([call EXCEPT !.attempt = a, !.base = b]) PROVE ApiInv'
    <2> DEFINE c == [call EXCEPT !.attempt = a, !.base = b, !.phase = "waiting", !.n = call.n + 1]
    <2>1. c \in Call /\ c.kind = call.kind /\ c.aborted = call.aborted /\ c.phase = "waiting" /\ c.outcome = call.outcome /\ c.n = call.n + 1
      BY <1>t DEF Call
    <2>2. call' = c /\ request' = request \cup {[n |-> c.n, at |-> "wire"]}
      BY <1>1, <1>t, <2>1 DEF Fetch, Call
    <2> HIDE DEF c
    <2> QED BY <2>1, <2>2, CallGoesOn
  <1>2. ASSUME NEW x \in {"none", call.outcome}, NEW y \in {"failed", "aborted", call.outcome},
               Ends([call EXCEPT !.outcome = x], y)
        PROVE ApiInv'
    <2> DEFINE c == [call EXCEPT !.phase = "done", !.outcome = y]
    <2>0. y \in {"none", "ok", "refused", "failed", "aborted"}
      BY <1>t DEF Call
    <2>1. c \in Call /\ c.kind = call.kind /\ c.aborted = call.aborted /\ c.phase = "done" /\ c.outcome = y
      BY <1>t, <2>0 DEF Call
    <2>2. call' = c /\ request' = request
      BY <1>2, <1>t DEF Ends, Call
    <2> HIDE DEF c
    <2> QED BY <2>1, <2>2, CallGoesOn
  <1>3. ASSUME NEW x \in {"none", call.outcome}, Gives([call EXCEPT !.outcome = x]) PROVE ApiInv'
    <2> DEFINE c == [call EXCEPT !.phase = "pausing", !.outcome = x]
    <2>0. x \in {"none", "ok", "refused", "failed", "aborted"}
      BY <1>t DEF Call
    <2>1. c \in Call /\ c.kind = call.kind /\ c.aborted = call.aborted /\ c.outcome = x
      BY <1>t, <2>0 DEF Call
    <2>2. [call EXCEPT !.outcome = x].kind = call.kind
      BY <1>t DEF Call
    <2>3. CASE Ends([call EXCEPT !.outcome = x], "failed")
      BY <1>2, <2>3
    <2>4. CASE call' = [[call EXCEPT !.outcome = x] EXCEPT !.phase = "pausing"] /\ UNCHANGED request /\ call.kind = "upload"
      <3>1. call' = c
        BY <1>t, <2>4 DEF Call
      <3> HIDE DEF c
      <3> QED BY <2>1, <2>4, <3>1, CallGoesOn
    <2> QED BY <1>3, <2>2, <2>3, <2>4 DEF Gives
  <1>4. call = [call EXCEPT !.outcome = call.outcome] /\ [call EXCEPT !.base = @ + 1] = [call EXCEPT !.attempt = call.attempt, !.base = call.base + 1] /\ call.attempt \in Nat
    BY <1>t DEF Call
  <1>5. CASE NextBase(call)
    BY <1>1, <1>3, <1>4, <1>5, <1>t DEF NextBase
  <1> QED BY <1>1, <1>2, <1>3, <1>4, <1>5

LEMMA ApiStepInv == ApiInv /\ [ApiNext]_<<call, request, server>> => ApiInv' /\ AbortStops
  <1> SUFFICES ASSUME ApiInv, [ApiNext]_<<call, request, server>> PROVE ApiInv' /\ AbortStops
    OBVIOUS
  <1>t. /\ call \in Call /\ call.n \in Nat /\ call.n + 1 \in Nat /\ call.base + 1 \in Nat /\ call.kind \in Kinds
        /\ server \in Server /\ server.has \in BOOLEAN /\ request \in SUBSET Request
        /\ call.outcome \in {"none", "ok", "refused", "failed", "aborted"}
    BY DEF ApiInv, Call, Server
  <1>0. CASE UNCHANGED <<call, request, server>>
    BY <1>0 DEF ApiInv, AbortStops
  <1>1. ASSUME NEW kind \in Kinds, BeginCall(kind) PROVE ApiInv' /\ AbortStops
    <2> DEFINE b == [NoCall EXCEPT !.kind = kind, !.base = 1, !.attempt = 1]
               c == [b EXCEPT !.phase = "waiting", !.n = b.n + 1]
               s == [server EXCEPT !.acted = 0, !.took = 0, !.refused = FALSE]
    <2>1. call' = c /\ request' = request \cup {[n |-> b.n + 1, at |-> "wire"]} /\ server' = s /\ request = {}
      BY <1>1 DEF BeginCall, Fetch
    <2>2. NoCall \in Call /\ NoCall.aborted = FALSE /\ NoCall.outcome = "none"
      BY DEF NoCall, Call, Kinds
    <2>3. b \in Call /\ b.kind = kind /\ b.aborted = FALSE /\ b.outcome = "none"
      BY <2>2 DEF Call
    <2> HIDE DEF b
    <2>4. b.n + 1 \in Nat
      BY <2>3 DEF Call
    <2>5. c \in Call /\ c.kind = kind /\ c.aborted = FALSE /\ c.outcome = "none" /\ c.phase = "waiting"
      BY <2>3, <2>4 DEF Call
    <2>6. [n |-> b.n + 1, at |-> "wire"] \in Request /\ [n |-> b.n + 1, at |-> "wire"].at = "wire"
      BY <2>4 DEF Request
    <2>7. s \in Server /\ s.took = 0
      BY <1>t DEF Server
    <2> HIDE DEF s, c
    <2> QED BY <2>1, <2>5, <2>6, <2>7 DEF ApiInv, AbortStops
  <1>2. CASE Abort
    <2> DEFINE c == [call EXCEPT !.aborted = TRUE]
    <2>1. c \in Call /\ c.kind = call.kind /\ c.phase = call.phase /\ c.outcome = call.outcome /\ c.n = call.n /\ c.aborted = TRUE
      BY <1>t DEF Call
    <2>2. call' = c /\ UNCHANGED <<request, server>> /\ call.kind \in Signalled
      BY <1>2 DEF Abort
    <2> HIDE DEF c
    <2> QED BY <2>1, <2>2 DEF ApiInv, AbortStops
  <1>3. CASE NoAnswer
    <2>1. ApiInv'
      BY <1>3, NextBaseInv DEF NoAnswer
    <2>2. AbortStops
      BY <1>3, <1>t DEF NoAnswer, AbortStops, Ends, Call
    <2> QED BY <2>1, <2>2
  <1>4. CASE BodyArrives \/ BodyBreaks
    <2> DEFINE b == [call EXCEPT !.outcome = "none"]
    <2>0. b \in Call /\ b.n = call.n
      BY <1>t DEF Call
    <2>1. UNCHANGED server /\ (Ends(call, call.outcome) \/ Gives(b))
      BY <1>4 DEF BodyArrives, BodyBreaks
    <2>2. ApiInv'
      BY <2>1, NextBaseInv
    <2> HIDE DEF b
    <2>3. call'.n = call.n
      BY <1>t, <2>0, <2>1 DEF Ends, Gives, Call
    <2> QED BY <2>2, <2>3 DEF AbortStops
  <1>5. CASE TryAgain
    <2>1. ApiInv'
      BY <1>5, NextBaseInv DEF TryAgain
    <2>2. ~ call.aborted
      BY <1>5 DEF TryAgain, ApiInv, Signalled
    <2> QED BY <2>1, <2>2 DEF AbortStops
  <1>6. ASSUME NEW r \in request, ServerActs(r) PROVE ApiInv' /\ AbortStops
    <2> DEFINE a == IF call.kind \in {"write", "upload"} THEN server.acted + 1 ELSE server.acted
               k == IF call.kind = "upload" /\ ~ server.has THEN server.took + 1 ELSE server.took
               h == server.has \/ call.kind = "upload"
               v == IF call.kind = "upload" /\ server.has THEN "duplicate" ELSE "good"
               s == [server EXCEPT !.acted = a, !.took = k, !.has = h]
               q == [r EXCEPT !.at = v]
    <2>1. call' = call /\ server' = s /\ request' = (request \ {r}) \cup {q}
      BY <1>6 DEF ServerActs
    <2>2. /\ a \in Nat /\ k \in Nat /\ h \in BOOLEAN /\ v \in {"duplicate", "good"}
          /\ server.has => h
          /\ call.kind = "upload" => h
          /\ k = 0 \/ (k = 1 /\ h)
      BY <1>t DEF ApiInv, Server
    <2> HIDE DEF a, k, h, v
    <2>3. /\ s \in Server /\ s.has = h /\ s.took = k /\ s.refused = server.refused
      BY <1>t, <2>2 DEF Server
    <2>4. q \in Request /\ q.at = v
      BY <1>t, <2>2 DEF Request
    <2> HIDE DEF s, q
    <2> QED BY <1>t, <2>1, <2>2, <2>3, <2>4 DEF ApiInv, AbortStops
  <1>7. ASSUME NEW r \in request, ServerRefuses(r) \/ GatewayFails(r) PROVE ApiInv' /\ AbortStops
    <2> PICK v \in {"refused", "gateway"} : request' = (request \ {r}) \cup {[r EXCEPT !.at = v]}
      BY <1>7 DEF ServerRefuses, GatewayFails
    <2> DEFINE s == [server EXCEPT !.refused = TRUE]
               q == [r EXCEPT !.at = v]
    <2>1. call' = call /\ server' = s /\ request' = (request \ {r}) \cup {q}
      BY <1>7 DEF ServerRefuses, GatewayFails
    <2>2. s \in Server /\ s.has = server.has /\ s.took = server.took /\ s.refused = TRUE
      BY <1>t DEF Server
    <2>3. q \in Request /\ q.at = v
      BY <1>t DEF Request
    <2> HIDE DEF s, q
    <2> QED BY <1>t, <2>1, <2>2, <2>3 DEF ApiInv, AbortStops
  <1>8. ASSUME NEW r \in request, RequestLost(r) PROVE ApiInv' /\ AbortStops
    BY <1>8 DEF RequestLost, ApiInv, AbortStops
  <1>9. ASSUME NEW r \in request, AnswerArrives(r) PROVE ApiInv' /\ AbortStops
    <2>1. ~ call.aborted /\ UNCHANGED server /\ r.at # "wire" /\ r \in Request
      BY <1>9, <1>t DEF AnswerArrives
    <2>2. CASE r.at = "gateway" /\ call.base < Bases
      <3> DEFINE c == [call EXCEPT !.base = @ + 1, !.n = @ + 1]
      <3>1. c \in Call /\ c.kind = call.kind /\ c.aborted = call.aborted /\ c.phase = call.phase /\ c.outcome = call.outcome /\ c.n = call.n + 1
        BY <1>t DEF Call
      <3>2. call' = c /\ request' = (request \ {r}) \cup {[n |-> call.n + 1, at |-> "wire"]} /\ call.phase = "waiting"
        BY <1>9, <2>2 DEF AnswerArrives
      <3> HIDE DEF c
      <3> QED BY <2>1, <3>1, <3>2, CallGoesOn DEF AbortStops
    <2>3. CASE ~ (r.at = "gateway" /\ call.base < Bases)
      <3>1. PICK p \in {"done", "body"} : call' = [call EXCEPT !.phase = p, !.outcome = Answered(r)] /\ request' = request \ {r}
        BY <1>9, <2>3 DEF AnswerArrives
      <3> DEFINE c == [call EXCEPT !.phase = p, !.outcome = Answered(r)]
      <3>2. /\ Answered(r) \in {"ok", "refused"}
            /\ call.kind = "upload" => /\ Answered(r) = "refused" => server.refused
                                       /\ Answered(r) = "ok" => server.has
        BY <2>1 DEF Answered, ApiInv, Request
      <3>3. c \in Call /\ c.kind = call.kind /\ c.aborted = call.aborted /\ c.phase = p /\ c.outcome = Answered(r) /\ c.n = call.n
        BY <1>t, <3>2 DEF Call
      <3>4. call' = c
        BY <3>1
      <3> HIDE DEF c
      <3> QED BY <2>1, <3>1, <3>2, <3>3, <3>4 DEF ApiInv, AbortStops
    <2> QED BY <2>2, <2>3
  <1> QED BY <1>0, <1>1, <1>2, <1>3, <1>4, <1>5, <1>6, <1>7, <1>8, <1>9
          DEF ApiNext, NetworkFails, TimerFires, AbortHeard

LEMMA UploadIsHonest == ApiInv => UploadHonest
  BY DEF ApiInv, UploadHonest, Server

-----------------------------------------------------------------------------
(* Offline copies *)

App == [user : Users \cup {0}, authed : BOOLEAN, checking : BOOLEAN, submitting : BOOLEAN, online : BOOLEAN,
        hash : 1 .. 2, late : SUBSET Nat, why : {"none", "logout", "expired", "unreachable", "activated"}]
Opening == [stage : {"none", "metadata", "download", "done"}, user : Users \cup {0}, cached : 0 .. 2, hash : 0 .. 2,
            from : {"none", "copy", "error", "network"}]

(* A user is signed in exactly while the page says so or asks; who signs in  *)
(* is nobody yet, and a save is known to its session or to those it outlived. *)
OfflineInv ==
    /\ app \in App /\ copies \in [Users -> 0 .. 2] /\ open \in Opening
    /\ save \in [active : BOOLEAN, user : Users \cup {0}]
    /\ app.user # 0 <=> app.authed \/ app.checking
    /\ app.submitting => app.user = 0
    /\ save.active => save.user # 0 /\ (save.user = app.user \/ save.user \in app.late)
    /\ CopyGoesWithSession

HandsOut == open.stage # "done" /\ open'.stage = "done" /\ open'.from = "copy"
              => /\ app.user = open.user
                 /\ app.online => open.cached = app.hash

LEMMA OfflineInitInv == OfflineInit => OfflineInv
  <1> SUFFICES ASSUME OfflineInit PROVE OfflineInv
    OBVIOUS
  <1>1. app \in App /\ app.user = 0 /\ app.authed = FALSE /\ app.checking = FALSE /\ app.submitting = FALSE
    BY DEF OfflineInit, App
  <1>2. copies \in [Users -> 0 .. 2] /\ \A u \in Users : copies[u] = 0
    BY DEF OfflineInit
  <1>3. open \in Opening
    BY DEF OfflineInit, NoOpen, Opening
  <1>4. save \in [active : BOOLEAN, user : Users \cup {0}] /\ save.active = FALSE
    BY DEF OfflineInit
  <1> QED BY <1>1, <1>2, <1>3, <1>4 DEF OfflineInv, CopyGoesWithSession

(* A step of the session that neither signs in nor out. *)
LEMMA SessionStays ==
    ASSUME OfflineInv, NEW a \in App, app' = a, a.user = app.user, a.authed = app.authed,
           a.checking = app.checking, a.late = app.late, a.submitting => app.user = 0,
           UNCHANGED <<copies, save, open>>
    PROVE  OfflineInv'
  BY DEF OfflineInv, CopyGoesWithSession

LEMMA RemoveTokenInv ==
    ASSUME OfflineInv, NEW why \in {"logout", "expired", "unreachable"}, RemoveToken(why), UNCHANGED <<save, open>>
    PROVE  OfflineInv'
  <1> DEFINE l == app.late \cup (IF save.active THEN {save.user} ELSE {})
             a == [app EXCEPT !.user = 0, !.authed = FALSE, !.checking = FALSE, !.why = why, !.late = l]
             c == [u \in Users |-> IF u = app.user THEN 0 ELSE copies[u]]
  <1>a. app \in App /\ app.late \in SUBSET Nat
    BY DEF OfflineInv, App
  <1>b. save.user \in Users \cup {0}
    BY DEF OfflineInv
  <1> DEFINE v == save.user
  <1>d. v \in Users \/ v = 0
    BY <1>b
  <1>e. \A u \in Users : u \in Nat
    BY UsersAssumption
  <1> HIDE DEF v
  <1>f. v \in Nat
    BY <1>d, <1>e
  <1>c. save.user \in Nat
    BY <1>f DEF v
  <1>t. app \in App /\ app.late \in SUBSET Nat /\ save.user \in Nat
    BY <1>a, <1>c
  <1>1. l \in SUBSET Nat /\ app.late \subseteq l /\ (save.active => save.user \in l)
    BY <1>t
  <1>2. app' = a /\ copies' = c
    BY DEF RemoveToken
  <1>3. c \in [Users -> 0 .. 2] /\ \A u \in Users : c[u] # 0 => u # app.user /\ copies[u] # 0
    BY DEF OfflineInv
  <1> HIDE DEF l, c
  <1>4. a \in App /\ a.user = 0 /\ a.authed = FALSE /\ a.checking = FALSE /\ a.late = l /\ a.submitting = app.submitting
    BY <1>t, <1>1 DEF App
  <1> HIDE DEF a
  <1>5. CopyGoesWithSession'
    BY <1>1, <1>2, <1>3, <1>4 DEF OfflineInv, CopyGoesWithSession
  <1> QED BY <1>1, <1>2, <1>3, <1>4, <1>5 DEF OfflineInv

LEMMA OfflineStepInv == OfflineInv /\ [OfflineNext]_<<app, copies, save, open>> => OfflineInv' /\ HandsOut
  <1> SUFFICES ASSUME OfflineInv, [OfflineNext]_<<app, copies, save, open>> PROVE OfflineInv' /\ HandsOut
    OBVIOUS
  <1>t. /\ app \in App /\ copies \in [Users -> 0 .. 2] /\ open \in Opening
        /\ save \in [active : BOOLEAN, user : Users \cup {0}]
        /\ app.user \in Users \cup {0} /\ app.hash \in 1 .. 2
    BY DEF OfflineInv, App
  <1>h. open' = open => HandsOut
    BY DEF HandsOut
  <1>o. ASSUME UNCHANGED <<app, copies, save>>, open' \in Opening PROVE OfflineInv'
    BY <1>o DEF OfflineInv, CopyGoesWithSession
  <1>0. CASE UNCHANGED <<app, copies, save, open>>
    BY <1>0, <1>h, <1>o, <1>t
  <1>1. CASE HandleSubmit
    <2> DEFINE a == [app EXCEPT !.submitting = TRUE, !.why = "none"]
    <2>1. a \in App /\ a.user = app.user /\ a.authed = app.authed /\ a.checking = app.checking /\ a.late = app.late
      BY <1>t DEF App
    <2>2. app' = a /\ app.user = 0 /\ UNCHANGED <<copies, save, open>>
      BY <1>1, <1>t DEF HandleSubmit, OfflineInv
    <2> HIDE DEF a
    <2> QED BY <1>h, <2>1, <2>2, SessionStays
  <1>2. CASE SubmitEnds
    <2>0. UNCHANGED <<copies, save, open>> /\ app.user = 0 /\ app.submitting
      BY <1>2 DEF SubmitEnds, OfflineInv
    <2>1. CASE app' = [app EXCEPT !.submitting = FALSE]
      <3> DEFINE a == [app EXCEPT !.submitting = FALSE]
      <3>1. a \in App /\ a.user = app.user /\ a.authed = app.authed /\ a.checking = app.checking /\ a.late = app.late
        BY <1>t DEF App
      <3>2. app' = a
        BY <2>1
      <3> HIDE DEF a
      <3> QED BY <1>h, <2>0, <3>1, <3>2, SessionStays
    <2>2. ASSUME NEW u \in Users, app' = [app EXCEPT !.submitting = FALSE, !.user = u, !.authed = TRUE]
          PROVE OfflineInv'
      <3> DEFINE a == [app EXCEPT !.submitting = FALSE, !.user = u, !.authed = TRUE]
      <3>1. a \in App /\ a.user = u /\ a.authed = TRUE /\ a.submitting = FALSE /\ a.late = app.late
        BY <1>t DEF App
      <3>2. app' = a /\ u # 0
        BY <2>2, UsersAssumption
      <3> HIDE DEF a
      <3>3. CopyGoesWithSession'
        BY <2>0, <3>1, <3>2, UsersAssumption DEF OfflineInv, CopyGoesWithSession
      <3> QED BY <2>0, <3>1, <3>2, <3>3 DEF OfflineInv
    <2> QED BY <1>2, <1>h, <2>0, <2>1, <2>2 DEF SubmitEnds
  <1>3. CASE SignOut \/ SessionExpires
    BY <1>3, <1>h, RemoveTokenInv DEF SignOut, SessionExpires
  <1>4. CASE Reload
    <2> DEFINE a == [app EXCEPT !.authed = FALSE, !.checking = TRUE, !.why = "none"]
    <2>1. a \in App /\ a.user = app.user /\ a.checking = TRUE /\ a.submitting = app.submitting /\ a.late = app.late
      BY <1>t DEF App
    <2>2. app' = a /\ app.user # 0 /\ UNCHANGED copies /\ open' = NoOpen /\ save' = [active |-> FALSE, user |-> 0]
      BY <1>4 DEF Reload
    <2>3. NoOpen \in Opening /\ NoOpen.stage = "none"
      BY DEF NoOpen, Opening
    <2> HIDE DEF a
    <2>4. CopyGoesWithSession'
      BY <2>1, <2>2 DEF OfflineInv, CopyGoesWithSession
    <2> QED BY <2>1, <2>2, <2>3, <2>4 DEF OfflineInv, HandsOut
  <1>5. CASE CheckAuthEnds
    <2>0. UNCHANGED <<save, open>> /\ app.checking
      BY <1>5 DEF CheckAuthEnds
    <2>1. ASSUME app' = [app EXCEPT !.authed = TRUE, !.checking = FALSE], UNCHANGED copies PROVE OfflineInv'
      <3> DEFINE a == [app EXCEPT !.authed = TRUE, !.checking = FALSE]
      <3>1. a \in App /\ a.user = app.user /\ a.authed = TRUE /\ a.submitting = app.submitting /\ a.late = app.late
        BY <1>t DEF App
      <3>2. app' = a /\ app.user # 0
        BY <2>0, <2>1 DEF OfflineInv
      <3> HIDE DEF a
      <3>3. CopyGoesWithSession'
        BY <2>1, <3>1, <3>2 DEF OfflineInv, CopyGoesWithSession
      <3> QED BY <2>0, <2>1, <3>1, <3>2, <3>3 DEF OfflineInv
    <2> QED BY <1>5, <1>h, <2>0, <2>1, RemoveTokenInv DEF CheckAuthEnds
  <1>6. CASE NetworkChanges \/ BookHashed
    <2> DEFINE up == ~ app.online
               a == [app EXCEPT !.online = up, !.why = "none"]
               b == [app EXCEPT !.hash = 2, !.why = "none"]
    <2>a. up \in BOOLEAN
      OBVIOUS
    <2>b. (app' = a \/ app' = b) /\ UNCHANGED <<copies, save, open>>
      BY <1>6 DEF NetworkChanges, BookHashed
    <2> HIDE DEF up
    <2>1. a \in App /\ a.user = app.user /\ a.authed = app.authed /\ a.checking = app.checking /\ a.submitting = app.submitting /\ a.late = app.late
      BY <1>t, <2>a DEF App
    <2>c. 2 \in 1 .. 2
      OBVIOUS
    <2>2. b \in App /\ b.user = app.user /\ b.authed = app.authed /\ b.checking = app.checking /\ b.submitting = app.submitting /\ b.late = app.late
      BY <1>t, <2>c DEF App
    <2>4. app.submitting => app.user = 0
      BY DEF OfflineInv
    <2> HIDE DEF a, b
    <2> QED BY <1>h, <2>1, <2>2, <2>b, <2>4, SessionStays
  <1>7. CASE ServiceWorkerActivates
    <2> DEFINE a == [app EXCEPT !.why = "activated"]
    <2>1. a \in App /\ a.user = app.user /\ a.authed = app.authed /\ a.checking = app.checking /\ a.submitting = app.submitting /\ a.late = app.late
      BY <1>t DEF App
    <2>2. app' = a /\ copies' = [u \in Users |-> 0] /\ UNCHANGED <<save, open>>
      BY <1>7 DEF ServiceWorkerActivates
    <2>3. copies' \in [Users -> 0 .. 2] /\ \A u \in Users : copies'[u] = 0
      BY <2>2
    <2> HIDE DEF a
    <2> QED BY <1>h, <2>1, <2>2, <2>3 DEF OfflineInv, CopyGoesWithSession
  <1>8. CASE HandleSaveOffline
    <2> DEFINE a == [app EXCEPT !.why = "none"]
    <2>1. a \in App /\ a.user = app.user /\ a.authed = app.authed /\ a.checking = app.checking /\ a.submitting = app.submitting /\ a.late = app.late
      BY <1>t DEF App
    <2>2. app' = a /\ save' = [active |-> TRUE, user |-> app.user] /\ app.user # 0 /\ UNCHANGED <<copies, open>>
      BY <1>8 DEF HandleSaveOffline, OfflineInv
    <2> HIDE DEF a
    <2>3. CopyGoesWithSession'
      BY <2>1, <2>2 DEF OfflineInv, CopyGoesWithSession
    <2> QED BY <1>t, <1>h, <2>1, <2>2, <2>3 DEF OfflineInv
  <1>9. CASE SaveOfflineEnds
    <2> DEFINE a == [app EXCEPT !.why = "none"]
               c == [copies EXCEPT ![save.user] = app.hash]
    <2>1. a \in App /\ a.user = app.user /\ a.authed = app.authed /\ a.checking = app.checking /\ a.submitting = app.submitting /\ a.late = app.late
      BY <1>t DEF App
    <2>2. /\ app' = a /\ save' = [active |-> FALSE, user |-> 0] /\ UNCHANGED open
          /\ copies' = c \/ copies' = copies
          /\ save.active
      BY <1>9 DEF SaveOfflineEnds
    <2>3. /\ save.user \in Users /\ (save.user = app.user \/ save.user \in app.late)
          /\ c \in [Users -> 0 .. 2] /\ \A u \in Users : c[u] = copies[u] \/ u = save.user
      BY <1>t, <2>2 DEF OfflineInv
    <2> HIDE DEF a, c
    <2>4. CopyGoesWithSession'
      BY <2>1, <2>2, <2>3 DEF OfflineInv, CopyGoesWithSession
    <2>5. copies' \in [Users -> 0 .. 2]
      BY <1>t, <2>2, <2>3
    <2> QED BY <1>t, <1>h, <2>1, <2>2, <2>4, <2>5 DEF OfflineInv
  <1>10. CASE CreateBookFile
    <2>1. app.user \in Users
      BY <1>t, <1>10 DEF CreateBookFile, OfflineInv
    <2> DEFINE n == [stage |-> "metadata", user |-> app.user, cached |-> copies[app.user], hash |-> 0, from |-> "none"]
    <2>2. n \in Opening /\ n.stage = "metadata"
      BY <1>t, <2>1 DEF Opening
    <2>3. open' = n /\ UNCHANGED <<app, copies, save>>
      BY <1>10 DEF CreateBookFile
    <2> HIDE DEF n
    <2> QED BY <1>o, <2>2, <2>3 DEF HandsOut
  <1>11. CASE MetadataEnds
    <2> DEFINE e == [open EXCEPT !.stage = "done", !.from = "error"]
               d == [open EXCEPT !.stage = "download", !.hash = app.hash]
               k == [open EXCEPT !.stage = "done", !.hash = app.hash, !.from = "copy"]
               o == [open EXCEPT !.stage = "done", !.from = "copy"]
    <2>0. app.hash \in 0 .. 2
      BY <1>t
    <2>1. /\ e \in Opening /\ e.from = "error" /\ d \in Opening /\ d.stage = "download"
          /\ k \in Opening /\ o \in Opening
      BY <1>t, <2>0 DEF Opening
    <2>2. /\ UNCHANGED <<app, copies, save>>
          /\ \/ open' = e \/ open' = d
             \/ open' = k /\ app.user = open.user /\ open.cached = app.hash
             \/ open' = o /\ app.user = open.user /\ ~ app.online
      BY <1>11 DEF MetadataEnds, Same
    <2> HIDE DEF e, d, k, o
    <2> QED BY <1>o, <2>1, <2>2 DEF HandsOut
  <1>12. CASE DownloadEnds
    <2> DEFINE e == [open EXCEPT !.stage = "done", !.from = "error"]
               n == [open EXCEPT !.stage = "done", !.from = "network"]
               o == [open EXCEPT !.stage = "done", !.from = "copy"]
    <2>1. e \in Opening /\ e.from = "error" /\ n \in Opening /\ n.from = "network" /\ o \in Opening
      BY <1>t DEF Opening
    <2>2. /\ UNCHANGED <<app, copies, save>>
          /\ \/ open' = e \/ open' = n
             \/ open' = o /\ app.user = open.user /\ ~ app.online
      BY <1>12 DEF DownloadEnds
    <2> HIDE DEF e, n, o
    <2> QED BY <1>o, <2>1, <2>2 DEF HandsOut
  <1>13. CASE ReaderCloses
    <2>1. NoOpen \in Opening /\ NoOpen.stage = "none"
      BY DEF NoOpen, Opening
    <2> QED BY <1>13, <1>o, <2>1 DEF ReaderCloses, HandsOut
  <1> QED BY <1>0, <1>1, <1>2, <1>3, <1>4, <1>5, <1>6, <1>7, <1>8, <1>9, <1>10, <1>11, <1>12, <1>13 DEF OfflineNext

-----------------------------------------------------------------------------
(* The page cache of the service worker *)

Cache == [name : Nat, kept : [Resources -> Nat]]
Response == [what : Resources, from : {"none", "cache", "network", "unavailable", "nothing"}, release : Nat, by : Nat]
PageFetch == [what : Resources, at : {"match", "network", "put", "fallback", "home"}, release : Nat]

(* Workers come in the order of their releases. *)
WorkersOrdered(s, w) ==
    /\ s \in [release : Nat \ {0}, worker : Nat \ {0}] /\ s.worker <= s.release
    /\ w \in [active : Nat, waiting : Nat, installing : Nat, robbed : SUBSET Nat]
    /\ w.active <= s.worker /\ w.waiting <= s.worker /\ w.installing <= s.worker
    /\ w.waiting # 0 => w.active < w.waiting
    /\ w.installing # 0 => w.active < w.installing /\ w.waiting < w.installing

In(st, n) == {i \in DOMAIN st : st[i].name = n}
HasHome(st, n) == In(st, n) # {} /\ \A i \in In(st, n) : st[i].kept[Home] # 0

(* The cache of a worker is there, with the page that stands for all, unless *)
(* an older worker took it away.                                             *)
ShellKept(st, w) ==
    /\ w.active # 0 /\ w.active \notin w.robbed => HasHome(st, w.active)
    /\ w.waiting # 0 /\ w.waiting \notin w.robbed => HasHome(st, w.waiting)
    /\ w.installing # 0 /\ w.installing \notin w.robbed => In(st, w.installing) # {}

(* Only the active worker keeps engine files, those of its own time. *)
EngineKept(st, a) ==
    \A i \in DOMAIN st : st[i].kept[Engine] # 0 => st[i].name = a /\ st[i].kept[Engine] >= a

FetchesFine(fs, a) ==
    /\ fs \subseteq PageFetch
    /\ fs # {} => a # 0
    /\ \A f \in fs : /\ f.at = "put" => f.release # 0 /\ f.release >= a
                     /\ f.at = "home" => f.what \in Pages

AnswerFine(r, w) ==
    /\ r \in Response /\ r.by <= w.active
    /\ (r.what \in Pages /\ r.from \in {"nothing", "unavailable"}) => r.by \in w.robbed
    /\ (r.what = Engine /\ r.from = "cache") => r.release >= r.by

PageCacheInv ==
    /\ WorkersOrdered(site, worker)
    /\ stores \in Seq(Cache) /\ ShellKept(stores, worker) /\ EngineKept(stores, worker.active)
    /\ FetchesFine(fetches, worker.active)
    /\ AnswerFine(answer, worker)

LEMMA OneCache ==
    ASSUME NEW c \in Cache
    PROVE  /\ <<c>> \in Seq(Cache) /\ EngineKept(<<c>>, c.name) <=> (c.kept[Engine] # 0 => c.kept[Engine] >= c.name)
           /\ \A n \in Nat : In(<<c>>, n) = (IF n = c.name THEN {1} ELSE {})
           /\ HasHome(<<c>>, c.name) <=> c.kept[Home] # 0
  <1> DEFINE s == <<c>>
  <1>1. s \in Seq(Cache) /\ DOMAIN s = {1} /\ s[1] = c
    OBVIOUS
  <1> HIDE DEF s
  <1>2. \A n \in Nat : In(s, n) = (IF n = c.name THEN {1} ELSE {})
    BY <1>1 DEF In
  <1>3. HasHome(s, c.name) <=> c.kept[Home] # 0
    BY <1>1 DEF HasHome, In
  <1>4. EngineKept(s, c.name) <=> (c.kept[Engine] # 0 => c.kept[Engine] >= c.name)
    BY <1>1 DEF EngineKept
  <1> QED BY <1>1, <1>2, <1>3, <1>4 DEF s

LEMMA NoCache == <<>> \in Seq(Cache) /\ (\A a : EngineKept(<<>>, a)) /\ (\A n : In(<<>>, n) = {})
  BY DEF EngineKept, In

LEMMA EmptyCache ==
    ASSUME NEW n \in Nat
    PROVE  Store(n, Empty) \in Cache /\ Store(n, Empty).name = n /\ Store(n, Empty).kept[Engine] = 0
  BY DEF Store, Empty, Cache, Resources

LEMMA PageCacheInitInv == PageCacheInit => PageCacheInv
  <1> SUFFICES ASSUME PageCacheInit PROVE PageCacheInv
    OBVIOUS
  <1>1. site \in [release : Nat \ {0}, worker : Nat \ {0}] /\ site.worker = 1 /\ site.release = 1
    BY DEF PageCacheInit
  <1>2. FetchesFine(fetches, worker.active)
    BY DEF PageCacheInit, FetchesFine
  <1>3. answer \in Response /\ answer.by = 0 /\ answer.from = "none"
    BY DEF PageCacheInit, NoResponse, Response, Resources, Pages
  <1>4. CASE /\ worker = [active |-> 0, waiting |-> 0, installing |-> 0, robbed |-> {}]
             /\ stores = <<>>
    <2>1. /\ worker \in [active : Nat, waiting : Nat, installing : Nat, robbed : SUBSET Nat]
          /\ worker.active = 0 /\ worker.waiting = 0 /\ worker.installing = 0
      BY <1>4
    <2>2. ShellKept(stores, worker)
      BY <2>1 DEF ShellKept
    <2>3. stores \in Seq(Cache) /\ EngineKept(stores, worker.active)
      BY <1>4, NoCache
    <2> QED BY <1>1, <1>2, <1>3, <2>1, <2>2, <2>3 DEF PageCacheInv, WorkersOrdered, AnswerFine
  <1>5. CASE /\ worker = [active |-> 1, waiting |-> 0, installing |-> 0, robbed |-> {}]
             /\ stores = <<Store(1, [Empty EXCEPT ![Home] = 1])>>
    <2>1. /\ worker \in [active : Nat, waiting : Nat, installing : Nat, robbed : SUBSET Nat]
          /\ worker.active = 1 /\ worker.waiting = 0 /\ worker.installing = 0
      BY <1>5
    <2> DEFINE c == Store(1, [Empty EXCEPT ![Home] = 1])
    <2>2. c \in Cache /\ c.name = 1 /\ c.kept[Home] = 1 /\ c.kept[Engine] = 0
      BY DEF Store, Empty, Cache, Resources, Pages, Home, Engine
    <2>3. stores = <<c>>
      BY <1>5
    <2> HIDE DEF c
    <2>4. stores \in Seq(Cache) /\ EngineKept(stores, 1) /\ HasHome(stores, 1)
      BY <2>2, <2>3, OneCache
    <2> QED BY <1>1, <1>2, <1>3, <2>1, <2>4 DEF PageCacheInv, WorkersOrdered, AnswerFine, ShellKept
  <1> QED BY <1>4, <1>5 DEF PageCacheInit

(* caches.open takes nothing away. *)
LEMMA OpenedFine ==
    ASSUME stores \in Seq(Cache), NEW n \in Nat, NEW o, o = Opened(n)
    PROVE  /\ o \in Seq(Cache) /\ In(o, n) # {}
           /\ \A w : HasHome(stores, w) => HasHome(o, w)
           /\ \A w : In(stores, w) # {} => In(o, w) # {}
           /\ \A a : EngineKept(stores, a) => EngineKept(o, a)
  <1>1. CASE Named(n) # {}
    <2>1. o = stores
      BY <1>1 DEF Opened
    <2> QED BY <1>1, <2>1 DEF In, Named
  <1>2. CASE Named(n) = {}
    <2> DEFINE c == Store(n, Empty)
    <2>1. c \in Cache /\ c.name = n /\ c.kept[Engine] = 0
      BY EmptyCache
    <2>2. o = Append(stores, c)
      BY <1>2 DEF Opened
    <2> HIDE DEF c
    <2>3. /\ o \in Seq(Cache) /\ DOMAIN o = DOMAIN stores \cup {Len(stores) + 1}
          /\ o[Len(stores) + 1] = c /\ \A i \in DOMAIN stores : o[i] = stores[i]
      BY <2>1, <2>2
    <2>4. \A i \in DOMAIN stores : stores[i].name # n
      BY <1>2 DEF Named
    <2>5. In(o, n) # {}
      BY <2>1, <2>3 DEF In
    <2>6. \A w : In(stores, w) # {} => w # n /\ In(o, w) = In(stores, w)
      BY <2>1, <2>3, <2>4 DEF In
    <2>7. \A w : HasHome(stores, w) => HasHome(o, w)
      BY <2>3, <2>6 DEF HasHome, In
    <2>8. \A a : EngineKept(stores, a) => EngineKept(o, a)
      BY <2>1, <2>3 DEF EngineKept
    <2> QED BY <2>3, <2>5, <2>6, <2>7, <2>8
  <1> QED BY <1>1, <1>2

(* A put into the cache of one worker. *)
LEMMA PutFine ==
    ASSUME stores \in Seq(Cache), NEW n \in Nat, NEW r \in Resources, NEW v \in Nat \ {0}
    PROVE  /\ Put(n, r, v) \in Seq(Cache)
           /\ \A w : HasHome(stores, w) => HasHome(Put(n, r, v), w)
           /\ \A w : In(stores, w) # {} => In(Put(n, r, v), w) # {}
           /\ r = Home /\ In(stores, n) # {} => HasHome(Put(n, r, v), n)
           /\ r # Engine => \A a : EngineKept(stores, a) => EngineKept(Put(n, r, v), a)
           /\ v >= n /\ EngineKept(stores, n) => EngineKept(Put(n, r, v), n)
  <1> DEFINE p == Put(n, r, v)
  <1>0. stores \in [1 .. Len(stores) -> Cache] /\ DOMAIN stores = 1 .. Len(stores) /\ Len(stores) \in Nat
    OBVIOUS
  <1> DEFINE new(i) == IF stores[i].name = n THEN [stores[i] EXCEPT !.kept[r] = v] ELSE stores[i]
  <1>1. ASSUME NEW i \in DOMAIN stores
        PROVE  /\ new(i) \in Cache /\ new(i).name = stores[i].name
               /\ \A x \in Resources : new(i).kept[x] = IF stores[i].name = n /\ x = r THEN v ELSE stores[i].kept[x]
    <2>1. stores[i] \in Cache
      BY <1>0
    <2> DEFINE k == [stores[i].kept EXCEPT ![r] = v]
               c == [stores[i] EXCEPT !.kept = k]
    <2>2. k \in [Resources -> Nat] /\ \A x \in Resources : k[x] = IF x = r THEN v ELSE stores[i].kept[x]
      BY <2>1 DEF Cache
    <2>3. c = [stores[i] EXCEPT !.kept[r] = v]
      BY <2>1 DEF Cache
    <2> HIDE DEF k
    <2>4. c \in Cache /\ c.name = stores[i].name /\ c.kept = k
      BY <2>1, <2>2 DEF Cache
    <2> HIDE DEF c
    <2> QED BY <2>1, <2>2, <2>3, <2>4
  <1>2. p = [i \in DOMAIN stores |-> new(i)]
    BY DEF Put
  <1> HIDE DEF new, p
  <1>3. /\ p \in Seq(Cache) /\ DOMAIN p = DOMAIN stores
        /\ \A i \in DOMAIN stores : /\ p[i].name = stores[i].name
                                    /\ \A x \in Resources : p[i].kept[x] = IF stores[i].name = n /\ x = r THEN v ELSE stores[i].kept[x]
    BY <1>0, <1>1, <1>2
  <1>4. \A w : In(p, w) = In(stores, w)
    BY <1>3 DEF In
  <1>5. Home \in Resources /\ Engine \in Resources
    BY DEF Resources, Pages
  <1>6. \A w : HasHome(stores, w) => HasHome(p, w)
    BY <1>3, <1>4, <1>5 DEF HasHome, In
  <1>7. r = Home /\ In(stores, n) # {} => HasHome(p, n)
    BY <1>3, <1>4, <1>5 DEF HasHome, In
  <1>8. r # Engine => \A a : EngineKept(stores, a) => EngineKept(p, a)
    BY <1>3, <1>5 DEF EngineKept
  <1>9. v >= n /\ EngineKept(stores, n) => EngineKept(p, n)
    BY <1>3, <1>5 DEF EngineKept
  <1> QED BY <1>3, <1>4, <1>6, <1>7, <1>8, <1>9 DEF p

LEMMA MatchFine ==
    ASSUME stores \in Seq(Cache), NEW r \in Resources
    PROVE  /\ Match(r) \in Nat
           /\ Match(r) # 0 => \E i \in DOMAIN stores : Match(r) = stores[i].kept[r]
           /\ Match(r) = 0 => \A i \in DOMAIN stores : stores[i].kept[r] = 0
  <1> DEFINE I == {i \in 1 .. Len(stores) : stores[i].kept[r] # 0}
             m == SelectInSeq(stores, LAMBDA s : s.kept[r] # 0)
  <1>a. DOMAIN stores = 1 .. Len(stores) /\ Len(stores) \in Nat /\ \A i \in DOMAIN stores : stores[i] \in Cache
    OBVIOUS
  <1>b. \A c \in Cache : c.kept[r] \in Nat
    BY DEF Cache
  <1>0. DOMAIN stores = 1 .. Len(stores) /\ Len(stores) \in Nat /\ \A i \in DOMAIN stores : stores[i].kept[r] \in Nat
    BY <1>a, <1>b
  <1>1. m = IF I # {} THEN Min(I) ELSE 0
    BY DEF SelectInSeq
  <1>2. I \in SUBSET Nat /\ 0 \notin I
    BY <1>0
  <1>3. I # {} => Min(I) \in I
    BY <1>2, MinInSet
  <1>4. Match(r) = IF m = 0 THEN 0 ELSE stores[m].kept[r]
    BY DEF Match
  <1> HIDE DEF m
  <1>5. CASE I = {}
    BY <1>0, <1>1, <1>4, <1>5
  <1>6. CASE I # {}
    <2>1. m \in I /\ m # 0
      BY <1>1, <1>2, <1>3, <1>6
    <2> QED BY <1>0, <1>4, <2>1
  <1> QED BY <1>5, <1>6

LEMMA PageCacheStepInv == PageCacheInv /\ [PageCacheNext]_<<site, worker, stores, fetches, answer>> => PageCacheInv'
  <1> SUFFICES ASSUME PageCacheInv, [PageCacheNext]_<<site, worker, stores, fetches, answer>> PROVE PageCacheInv'
    OBVIOUS
  <1> DEFINE Worker == [active : Nat, waiting : Nat, installing : Nat, robbed : SUBSET Nat]
             Site == [release : Nat \ {0}, worker : Nat \ {0}]
  <1>t. /\ site \in Site /\ site.release \in Nat \ {0} /\ site.worker \in Nat \ {0} /\ site.worker <= site.release
        /\ worker \in Worker /\ worker.active \in Nat /\ worker.waiting \in Nat /\ worker.installing \in Nat
        /\ worker.robbed \in SUBSET Nat
        /\ worker.active <= site.worker /\ worker.waiting <= site.worker /\ worker.installing <= site.worker
        /\ stores \in Seq(Cache) /\ fetches \subseteq PageFetch /\ answer \in Response
    BY DEF PageCacheInv, WorkersOrdered, FetchesFine, AnswerFine
  <1>c. Home \in Resources /\ Engine \in Resources /\ Home # Engine /\ Engine \notin Pages /\ Pages \subseteq Resources
    BY DEF Resources, Pages, Home, Engine
  <1>0. CASE UNCHANGED <<site, worker, stores, fetches, answer>>
    BY <1>0 DEF PageCacheInv
  <1>1. CASE Deploy
    <2>1. PICK changed \in BOOLEAN :
             site' = [release |-> site.release + 1, worker |-> IF changed THEN site.release + 1 ELSE site.worker]
      BY <1>1 DEF Deploy
    <2>2. site' \in Site /\ site'.worker >= site.worker /\ site'.worker <= site'.release
      BY <1>t, <2>1
    <2>3. site'.worker \in Nat
      BY <2>2
    <2>4. UNCHANGED <<worker, stores, fetches, answer>>
      BY <1>1 DEF Deploy
    <2>5. WorkersOrdered(site', worker)
      BY <1>t, <2>2, <2>3 DEF PageCacheInv, WorkersOrdered
    <2> QED BY <2>4, <2>5 DEF PageCacheInv
  <1>2. CASE Register
    <2> DEFINE w == [worker EXCEPT !.installing = site.worker]
    <2>1. w \in Worker /\ w.active = worker.active /\ w.waiting = worker.waiting /\ w.installing = site.worker /\ w.robbed = worker.robbed
      BY <1>t
    <2>2. worker' = w /\ stores' = Opened(site.worker) /\ UNCHANGED <<site, fetches, answer>> /\ site.worker \notin {worker.active, worker.waiting}
      BY <1>2 DEF Register
    <2> HIDE DEF w
    <2>3. WorkersOrdered(site, w)
      BY <1>t, <2>1, <2>2 DEF PageCacheInv, WorkersOrdered
    <2>4. /\ stores' \in Seq(Cache) /\ In(stores', site.worker) # {}
          /\ \A x : HasHome(stores, x) => HasHome(stores', x)
          /\ \A a : EngineKept(stores, a) => EngineKept(stores', a)
      BY <1>t, <2>2, OpenedFine
    <2>5. ShellKept(stores', w)
      BY <2>1, <2>4 DEF PageCacheInv, ShellKept
    <2> QED BY <2>1, <2>2, <2>3, <2>4, <2>5 DEF PageCacheInv, AnswerFine
  <1>3. CASE InstallEnds
    <2>0. worker.installing # 0 /\ UNCHANGED <<site, fetches, answer>>
      BY <1>3 DEF InstallEnds
    <2>1. CASE /\ worker' = [worker EXCEPT !.installing = 0, !.waiting = worker.installing]
               /\ stores' = Put(worker.installing, Home, site.release)
      <3> DEFINE w == [worker EXCEPT !.installing = 0, !.waiting = worker.installing]
      <3>1. w \in Worker /\ w.active = worker.active /\ w.waiting = worker.installing /\ w.installing = 0 /\ w.robbed = worker.robbed
        BY <1>t
      <3>2. worker' = w
        BY <2>1
      <3> HIDE DEF w
      <3>3. /\ stores' \in Seq(Cache)
            /\ \A x : HasHome(stores, x) => HasHome(stores', x)
            /\ In(stores, worker.installing) # {} => HasHome(stores', worker.installing)
            /\ \A a : EngineKept(stores, a) => EngineKept(stores', a)
        <4>1. stores \in Seq(Cache) /\ worker.installing \in Nat /\ Home \in Resources /\ site.release \in Nat \ {0} /\ Home # Engine
          BY <1>t, <1>c
        <4> DEFINE p == Put(worker.installing, Home, site.release)
        <4>3. /\ p \in Seq(Cache)
              /\ \A x : HasHome(stores, x) => HasHome(p, x)
              /\ In(stores, worker.installing) # {} => HasHome(p, worker.installing)
              /\ \A a : EngineKept(stores, a) => EngineKept(p, a)
          BY <4>1, PutFine
        <4> HIDE DEF p
        <4> QED BY <2>1, <4>3 DEF p
      <3>4. ShellKept(stores', w)
        BY <2>0, <3>1, <3>3 DEF PageCacheInv, ShellKept
      <3>5. WorkersOrdered(site, w)
        BY <1>t, <2>0, <3>1 DEF PageCacheInv, WorkersOrdered
      <3> QED BY <2>0, <3>1, <3>2, <3>3, <3>4, <3>5 DEF PageCacheInv, AnswerFine
    <2>2. CASE worker' = [worker EXCEPT !.installing = 0, !.robbed = @ \ {worker.installing}] /\ UNCHANGED stores
      <3> DEFINE w == [worker EXCEPT !.installing = 0, !.robbed = @ \ {worker.installing}]
      <3>1. /\ w \in Worker /\ w.active = worker.active /\ w.waiting = worker.waiting /\ w.installing = 0
            /\ w.robbed = worker.robbed \ {worker.installing}
        BY <1>t
      <3>2. worker' = w
        BY <2>2
      <3> HIDE DEF w
      <3>3. worker.active < worker.installing /\ worker.waiting < worker.installing
        BY <2>0 DEF PageCacheInv, WorkersOrdered
      <3>4. ShellKept(stores, w)
        BY <1>t, <3>1, <3>3 DEF PageCacheInv, ShellKept
      <3>5. WorkersOrdered(site, w)
        BY <1>t, <2>0, <3>1 DEF PageCacheInv, WorkersOrdered
      <3>6. answer.by # worker.installing
        BY <1>t, <3>3 DEF PageCacheInv, AnswerFine, Response
      <3>7. AnswerFine(answer, w)
        BY <3>1, <3>6 DEF PageCacheInv, AnswerFine
      <3> QED BY <2>0, <2>2, <3>1, <3>2, <3>4, <3>5, <3>7 DEF PageCacheInv
    <2> QED BY <1>3, <2>1, <2>2 DEF InstallEnds
  <1>4. CASE Activate
    <2> DEFINE w == [worker EXCEPT !.active = worker.waiting, !.waiting = 0, !.robbed = @ \cup ({worker.installing} \ {0})]
    <2>1. /\ w \in Worker /\ w.active = worker.waiting /\ w.waiting = 0 /\ w.installing = worker.installing
          /\ w.robbed = worker.robbed \cup ({worker.installing} \ {0})
      BY <1>t
    <2>2. worker' = w /\ fetches' = {} /\ UNCHANGED <<site, answer>> /\ worker.waiting # 0
      BY <1>4 DEF Activate
    <2>3. worker.active < worker.waiting /\ (worker.installing # 0 => worker.waiting < worker.installing)
      BY <2>2 DEF PageCacheInv, WorkersOrdered
    <2> HIDE DEF w
    <2>4. WorkersOrdered(site, w)
      BY <1>t, <2>1, <2>3 DEF PageCacheInv, WorkersOrdered
    <2>5. AnswerFine(answer, w)
      BY <1>t, <2>1, <2>3 DEF PageCacheInv, AnswerFine, Response
    <2>6. stores' \in Seq(Cache) /\ ShellKept(stores', w) /\ EngineKept(stores', w.active)
      <3>1. CASE Named(worker.waiting) = {}
        <4>1. stores' = <<>>
          BY <1>4, <3>1 DEF Activate
        <4>2. ~ HasHome(stores, worker.waiting)
          BY <3>1 DEF HasHome, In, Named
        <4>3. worker.waiting \in worker.robbed
          BY <2>2, <4>2 DEF PageCacheInv, ShellKept
        <4>4. ShellKept(stores', w)
          BY <2>1, <4>3 DEF ShellKept
        <4> QED BY <4>1, <4>4, NoCache
      <3>2. CASE Named(worker.waiting) # {}
        <4>1. PICK i \in Named(worker.waiting) : stores' = <<stores[i]>>
          BY <1>4, <3>2 DEF Activate
        <4>2. i \in DOMAIN stores /\ stores[i].name = worker.waiting /\ i \in In(stores, worker.waiting)
          BY <4>1 DEF Named, In
        <4>3. stores[i] \in Cache
          BY <1>t, <4>2
        <4>4. stores[i].kept[Engine] = 0
          BY <1>t, <2>3, <4>2 DEF PageCacheInv, EngineKept
        <4> DEFINE c == stores[i]
        <4>5. c \in Cache /\ c.name = worker.waiting /\ c.kept[Engine] = 0 /\ stores' = <<c>>
              /\ (HasHome(stores, worker.waiting) => c.kept[Home] # 0)
          BY <4>1, <4>2, <4>3, <4>4 DEF HasHome
        <4> HIDE DEF c
        <4>6. stores' \in Seq(Cache) /\ EngineKept(stores', w.active)
          BY <2>1, <4>5, OneCache
        <4>7. HasHome(stores, worker.waiting) => HasHome(stores', worker.waiting)
          BY <4>5, OneCache
        <4>8. ShellKept(stores', w)
          BY <2>1, <2>2, <4>7 DEF PageCacheInv, ShellKept
        <4> QED BY <4>6, <4>8
      <3> QED BY <3>1, <3>2
    <2>7. FetchesFine({}, w.active)
      BY DEF FetchesFine
    <2> QED BY <2>2, <2>4, <2>5, <2>6, <2>7 DEF PageCacheInv
  <1>5. CASE HandleFetch
    <2>1. PICK r \in Resources : fetches' = fetches \cup {FetchAt(r, IF r = Engine THEN "match" ELSE "network", 0)}
      BY <1>5 DEF HandleFetch
    <2>2. UNCHANGED <<site, worker, stores, answer>> /\ worker.active # 0
      BY <1>5 DEF HandleFetch
    <2> DEFINE f == FetchAt(r, IF r = Engine THEN "match" ELSE "network", 0)
    <2>3. f \in PageFetch /\ f.at # "put" /\ f.at # "home"
      BY DEF FetchAt, PageFetch
    <2> HIDE DEF f
    <2>4. FetchesFine(fetches', worker.active)
      BY <2>1, <2>2, <2>3 DEF PageCacheInv, FetchesFine, f
    <2> QED BY <2>2, <2>4 DEF PageCacheInv
  <1>f. ASSUME NEW f \in fetches,
               CacheFirst(f) \/ NetworkAnswers(f) \/ PutEnds(f) \/ NetworkGone(f) \/ Fallback(f)
        PROVE  PageCacheInv'
    <2>t. /\ f \in PageFetch /\ f.what \in Resources /\ f.release \in Nat /\ worker.active # 0
          /\ f.at = "put" => f.release # 0 /\ f.release >= worker.active
          /\ f.at = "home" => f.what \in Pages
      <3>1. f \in PageFetch
        BY <1>t
      <3>2. f.what \in Resources /\ f.release \in Nat
        BY <3>1 DEF PageFetch
      <3>3. FetchesFine(fetches, worker.active)
        BY DEF PageCacheInv
      <3>4. worker.active # 0
        BY <3>3 DEF FetchesFine
      <3>5. f.at = "put" => f.release # 0 /\ f.release >= worker.active
        BY <3>3 DEF FetchesFine
      <3>6. f.at = "home" => f.what \in Pages
        BY <3>3 DEF FetchesFine
      <3> QED BY <3>1, <3>2, <3>4, <3>5, <3>6
    <2>u. UNCHANGED <<site, worker>>
      BY <1>f DEF CacheFirst, NetworkAnswers, PutEnds, NetworkGone, Fallback
    <2>a. ASSUME NEW at \in {"network", "fallback", "home"}, Moves(f, at), at = "home" => f.what \in Pages
          PROVE  FetchesFine(fetches', worker.active) /\ answer' = answer
      <3> DEFINE g == FetchAt(f.what, at, 0)
      <3>1. g \in PageFetch /\ g.at = at /\ g.what = f.what /\ fetches' = (fetches \ {f}) \cup {g} /\ answer' = answer
        BY <2>a, <2>t DEF FetchAt, PageFetch, Moves
      <3> HIDE DEF g
      <3> QED BY <2>a, <2>t, <3>1 DEF PageCacheInv, FetchesFine
    <2>b. fetches' = fetches \ {f} => FetchesFine(fetches', worker.active)
      BY DEF PageCacheInv, FetchesFine
    <2>c. ASSUME NEW from \in {"cache", "network", "unavailable", "nothing"}, NEW rel \in Nat, Answers(f, from, rel),
                 f.what \in Pages /\ from \in {"nothing", "unavailable"} => worker.active \in worker.robbed,
                 f.what = Engine /\ from = "cache" => rel >= worker.active
          PROVE  AnswerFine(answer', worker)
      <3> DEFINE n == [what |-> f.what, from |-> from, release |-> rel, by |-> worker.active]
      <3>1. n \in Response /\ n.what = f.what /\ n.from = from /\ n.release = rel /\ n.by = worker.active /\ answer' = n
        BY <1>t, <2>t, <2>c DEF Response, Answers
      <3> HIDE DEF n
      <3> QED BY <1>t, <2>c, <3>1 DEF AnswerFine
    <2>d. ASSUME stores' = Opened(worker.active)
          PROVE  stores' \in Seq(Cache) /\ ShellKept(stores', worker) /\ EngineKept(stores', worker.active)
      <3>1. /\ stores' \in Seq(Cache)
            /\ \A x : HasHome(stores, x) => HasHome(stores', x)
            /\ \A x : In(stores, x) # {} => In(stores', x) # {}
            /\ \A a : EngineKept(stores, a) => EngineKept(stores', a)
        BY <1>t, <2>d, OpenedFine
      <3> QED BY <3>1 DEF PageCacheInv, ShellKept
    <2>e. stores' = stores => stores' \in Seq(Cache) /\ ShellKept(stores', worker) /\ EngineKept(stores', worker.active)
      BY DEF PageCacheInv
    <2>g. answer' = answer => AnswerFine(answer', worker)
      BY DEF PageCacheInv
    <2>q. ASSUME stores' \in Seq(Cache), ShellKept(stores', worker), EngineKept(stores', worker.active),
                 FetchesFine(fetches', worker.active), AnswerFine(answer', worker)
          PROVE  PageCacheInv'
      BY <2>q, <2>u DEF PageCacheInv
    <2>m. /\ Match(f.what) \in Nat /\ Match(Home) \in Nat
          /\ f.what = Engine /\ Match(f.what) # 0 => Match(f.what) >= worker.active
          /\ Match(Home) = 0 => worker.active \in worker.robbed
      <3>1. /\ Match(f.what) \in Nat /\ Match(Home) \in Nat
            /\ Match(f.what) # 0 => \E i \in DOMAIN stores : Match(f.what) = stores[i].kept[f.what]
            /\ Match(Home) = 0 => \A i \in DOMAIN stores : stores[i].kept[Home] = 0
        BY <1>t, <1>c, <2>t, MatchFine
      <3>2. Match(Home) = 0 => ~ HasHome(stores, worker.active)
        BY <3>1 DEF HasHome, In
      <3>3. Match(Home) = 0 => worker.active \in worker.robbed
        BY <2>t, <3>2 DEF PageCacheInv, ShellKept
      <3>4. f.what = Engine /\ Match(f.what) # 0 => Match(f.what) >= worker.active
        BY <3>1 DEF PageCacheInv, EngineKept
      <3> QED BY <3>1, <3>3, <3>4
    <2>1. CASE CacheFirst(f)
      <3>1. CASE Match(f.what) # 0
        <4>1. Answers(f, "cache", Match(f.what)) /\ fetches' = fetches \ {f} /\ UNCHANGED stores
          BY <2>1, <3>1 DEF CacheFirst
        <4>2. AnswerFine(answer', worker)
          BY <2>c, <2>m, <3>1, <4>1
        <4> QED BY <2>b, <2>e, <2>q, <4>1, <4>2
      <3>2. CASE Match(f.what) = 0
        BY <2>1, <2>a, <2>d, <2>g, <2>q, <3>2 DEF CacheFirst
      <3> QED BY <3>1, <3>2
    <2>2. CASE NetworkAnswers(f)
      <3>1. PICK good \in BOOLEAN :
               fetches' = (fetches \ {f}) \cup (IF good THEN {FetchAt(f.what, "put", site.release)} ELSE {})
        BY <2>2 DEF NetworkAnswers
      <3> DEFINE g == FetchAt(f.what, "put", site.release)
      <3>2. g \in PageFetch /\ g.release = site.release /\ g.at = "put"
        BY <1>t, <2>t DEF FetchAt, PageFetch
      <3>3. fetches' \subseteq fetches \cup {g}
        BY <3>1
      <3> HIDE DEF g
      <3>4. site.release # 0 /\ site.release >= worker.active
        BY <1>t
      <3>5. FetchesFine(fetches', worker.active)
        BY <2>t, <3>2, <3>3, <3>4 DEF PageCacheInv, FetchesFine
      <3>6. Answers(f, "network", site.release) /\ stores' = Opened(worker.active)
        BY <2>2 DEF NetworkAnswers
      <3>7. AnswerFine(answer', worker)
        BY <1>t, <2>c, <3>6
      <3> QED BY <2>d, <2>q, <3>5, <3>6, <3>7
    <2>3. CASE PutEnds(f)
      <3>1. f.at = "put" /\ fetches' = fetches \ {f} /\ answer' = answer
        BY <2>3 DEF PutEnds
      <3>2. CASE stores' = Put(worker.active, f.what, f.release)
        <4>1. /\ stores' \in Seq(Cache)
              /\ \A x : HasHome(stores, x) => HasHome(stores', x)
              /\ \A x : In(stores, x) # {} => In(stores', x) # {}
              /\ EngineKept(stores, worker.active) => EngineKept(stores', worker.active)
          <5>1. stores \in Seq(Cache) /\ worker.active \in Nat /\ f.what \in Resources /\ f.release \in Nat \ {0} /\ f.release >= worker.active
            BY <1>t, <2>t, <3>1
          <5> DEFINE p == Put(worker.active, f.what, f.release)
          <5>3. /\ p \in Seq(Cache)
                /\ \A x : HasHome(stores, x) => HasHome(p, x)
                /\ \A x : In(stores, x) # {} => In(p, x) # {}
                /\ EngineKept(stores, worker.active) => EngineKept(p, worker.active)
            BY <5>1, PutFine
          <5> HIDE DEF p
          <5> QED BY <3>2, <5>3 DEF p
        <4>2. ShellKept(stores', worker) /\ EngineKept(stores', worker.active)
          BY <4>1 DEF PageCacheInv, ShellKept
        <4> QED BY <2>b, <2>g, <2>q, <3>1, <4>1, <4>2
      <3>3. CASE stores' = stores
        BY <2>b, <2>e, <2>g, <2>q, <3>1, <3>3
      <3> QED BY <2>3, <3>2, <3>3 DEF PutEnds
    <2>4. CASE NetworkGone(f)
      <3>1. stores' = Opened(worker.active)
        BY <2>4 DEF NetworkGone
      <3>2. CASE f.what = Engine
        <4>1. Answers(f, "unavailable", 0) /\ fetches' = fetches \ {f}
          BY <2>4, <3>2 DEF NetworkGone
        <4>2. AnswerFine(answer', worker)
          BY <1>c, <2>c, <3>2, <4>1
        <4> QED BY <2>b, <2>d, <2>q, <3>1, <4>1, <4>2
      <3>3. CASE f.what # Engine
        BY <2>4, <2>a, <2>d, <2>g, <2>q, <3>1, <3>3 DEF NetworkGone
      <3> QED BY <3>2, <3>3
    <2>5. CASE Fallback(f)
      <3> DEFINE found == Match(IF f.at = "home" THEN Home ELSE f.what)
                 from == IF found # 0 THEN "cache" ELSE IF f.at = "home" THEN "nothing" ELSE "unavailable"
      <3>0. UNCHANGED stores
        BY <2>5 DEF Fallback
      <3>1. CASE found = 0 /\ f.at = "fallback" /\ f.what \in Pages
        BY <2>5, <2>a, <2>e, <2>g, <2>q, <3>0, <3>1 DEF Fallback
      <3>2. CASE ~ (found = 0 /\ f.at = "fallback" /\ f.what \in Pages)
        <4>1. Answers(f, from, found) /\ fetches' = fetches \ {f} /\ f.at \in {"fallback", "home"}
          BY <2>5, <3>2 DEF Fallback
        <4>2. found \in Nat /\ from \in {"cache", "unavailable", "nothing"}
          BY <2>m
        <4>3. f.what \in Pages /\ from \in {"nothing", "unavailable"} => worker.active \in worker.robbed
          BY <2>m, <3>2, <4>1
        <4>4. f.what = Engine /\ from = "cache" => found >= worker.active
          BY <1>c, <2>t, <2>m, <4>1
        <4> HIDE DEF found, from
        <4>5. AnswerFine(answer', worker)
          BY <2>c, <4>1, <4>2, <4>3, <4>4
        <4> QED BY <2>b, <2>e, <2>q, <3>0, <4>1, <4>5
      <3> QED BY <3>1, <3>2
    <2> QED BY <1>f, <2>1, <2>2, <2>3, <2>4, <2>5
  <1> QED BY <1>0, <1>1, <1>2, <1>3, <1>4, <1>5, <1>f DEF PageCacheNext

LEMMA PageCacheHolds == PageCacheInv => ShellAlways /\ EngineNotOlder
  BY DEF PageCacheInv, AnswerFine, ShellAlways, EngineNotOlder

-----------------------------------------------------------------------------
(* The reader *)

Reader ==
    [stage : {"none", "script", "file", "progress", "open", "goTo", "over"},
     view : {"none", "made", "opened", "closed"}, late : BOOLEAN, first : BOOLEAN,
     reveal : BOOLEAN, left : BOOLEAN, loading : BOOLEAN, ready : BOOLEAN, error : BOOLEAN,
     documents : Nat, theme : Nat, applied : Nat]

EngineFine(e) ==
    /\ e \in [run : {"idle", "fetch", "register"}, script : {"none", "pending", "ran", "broken"},
              scripts : Nat, defined : BOOLEAN]
    /\ e.scripts <= 1 /\ (e.script = "none" => e.scripts = 0)

(* A document is loaded only once initReader has reached its last wait, only  *)
(* an open reader can be left, and one that was left has no document bound.   *)
ReaderFine(r) ==
    /\ r \in Reader
    /\ r.first => r.stage \in {"goTo", "over"}
    /\ r.late => r.stage = "over"
    /\ r.left => r.stage # "none" /\ r.documents = 0
    /\ r.ready /\ ~ r.left => r.applied = r.theme

(* What a step may do to the reader: SilentAfterLeaving and ErrorHidesNothing. *)
Quiet(r, n) ==
    /\ ~ r.error /\ n.error => ~ n.first
    /\ r.left => \/ n = NoReader
                 \/ /\ n.documents = 0 /\ n.loading = r.loading
                    /\ n.ready = r.ready /\ n.error = r.error

LEMMA ReaderInitInv == ReaderInit => EngineFine(engine) /\ ReaderFine(reader)
  <1> SUFFICES ASSUME ReaderInit PROVE EngineFine(engine) /\ ReaderFine(reader)
    OBVIOUS
  <1>1. EngineFine(engine)
    BY DEF ReaderInit, EngineFine
  <1>2. ReaderFine(reader)
    BY DEF ReaderInit, NoReader, ReaderFine, Reader
  <1> QED BY <1>1, <1>2

LEMMA EnsuredEngine ==
  ASSUME NEW e, EngineFine(e)
  PROVE  EngineFine(EnsureFoliateScript(e))
  <1>1. e.script = "none" => e.scripts + 1 \in Nat /\ e.scripts + 1 <= 1
    BY DEF EngineFine
  <1> QED BY <1>1 DEF EngineFine, EnsureFoliateScript

LEMMA FailedReader ==
  ASSUME NEW r, ReaderFine(r), r.first => r.left
  PROVE  ReaderFine(InitFails(r)) /\ Quiet(r, InitFails(r)) /\ InitFails(r).stage = "over"
  BY DEF ReaderFine, Reader, InitFails, Quiet

LEMMA SettledReader ==
  ASSUME NEW r, ReaderFine(r), NEW ok \in BOOLEAN
  PROVE  ReaderFine(ScriptSettles(r, ok)) /\ Quiet(r, ScriptSettles(r, ok))
  <1>1. CASE r.stage # "script"
    BY <1>1 DEF ScriptSettles, Quiet, ReaderFine
  <1>2. CASE r.stage = "script" /\ ~ ok
    <2>1. ~ r.first
      BY <1>2 DEF ReaderFine
    <2> QED BY <1>2, <2>1, FailedReader DEF ScriptSettles
  <1>3. CASE r.stage = "script" /\ ok
    BY <1>3 DEF ScriptSettles, ReaderFine, Reader, Quiet
  <1> QED BY <1>1, <1>2, <1>3

LEMMA ReadyReader ==
  ASSUME NEW r, ReaderFine(r), ~ r.left
  PROVE  ReaderFine(Ready(r)) /\ Quiet(r, Ready(r)) /\ Ready(r).first = r.first /\ ~ Ready(r).left
  BY DEF ReaderFine, Reader, Ready, Quiet

LEMMA ReaderStepInv ==
  EngineFine(engine) /\ ReaderFine(reader) /\ [ReaderViewNext]_<<engine, reader>>
    => EngineFine(engine') /\ ReaderFine(reader') /\ Quiet(reader, reader')
  <1> SUFFICES ASSUME EngineFine(engine), ReaderFine(reader), [ReaderViewNext]_<<engine, reader>>
      PROVE EngineFine(engine') /\ ReaderFine(reader') /\ Quiet(reader, reader')
    OBVIOUS
  <1>0. CASE UNCHANGED <<engine, reader>>
    BY <1>0 DEF Quiet, ReaderFine
  <1>s. Quiet(reader, reader)
    BY DEF Quiet, ReaderFine
  <1>1. CASE ScriptRuns \/ ScriptBreaks \/ ScriptTimesOut \/ RegisterEnds
    <2>1. EngineFine(engine')
      BY <1>1 DEF ScriptRuns, ScriptBreaks, ScriptTimesOut, RegisterEnds, EngineFine
    <2>2. \/ reader' = reader
          \/ reader' = ScriptSettles(reader, TRUE)
          \/ reader' = ScriptSettles(reader, FALSE)
      BY <1>1 DEF ScriptRuns, ScriptBreaks, ScriptTimesOut, RegisterEnds
    <2> QED BY <1>s, <2>1, <2>2, SettledReader
  <1>2. CASE OpenReader
    <2> DEFINE e == EnsureFoliateScript(EnsureFoliateScript(engine))
               r == [NoReader EXCEPT !.stage = "script"]
    <2>1. EngineFine(e)
      BY EnsuredEngine
    <2>2. ReaderFine(r) /\ ~ r.error /\ ~ r.first
      BY DEF ReaderFine, Reader, NoReader
    <2>3. ReaderFine(ScriptSettles(r, TRUE)) /\ Quiet(r, ScriptSettles(r, TRUE))
      BY <2>2, SettledReader
    <2>4. engine' = e /\ reader' = (IF e.defined THEN ScriptSettles(r, TRUE) ELSE r) /\ reader.stage = "none"
      BY <1>2 DEF OpenReader
    <2> QED BY <2>1, <2>2, <2>3, <2>4 DEF Quiet, ReaderFine
  <1>3. CASE FileArrives \/ ProgressWaited
    <2>1. UNCHANGED engine /\ reader.stage \in {"file", "progress"}
      BY <1>3 DEF FileArrives, ProgressWaited
    <2>2. ~ reader.first
      BY <2>1 DEF ReaderFine
    <2>3. PICK stage \in {"progress", "open", "over"} : reader' = [reader EXCEPT !.stage = stage]
      BY <1>3 DEF FileArrives, ProgressWaited, GoOn
    <2> QED BY <2>1, <2>2, <2>3 DEF ReaderFine, Reader, Quiet
  <1>4. CASE FileFails \/ OpenFails
    <2>1. UNCHANGED engine /\ reader.stage \in {"file", "open"} /\ reader' = InitFails(reader)
      BY <1>4 DEF FileFails, OpenFails
    <2>2. ~ reader.first
      BY <2>1 DEF ReaderFine
    <2> QED BY <2>1, <2>2, FailedReader
  <1>5. CASE BookOpened
    BY <1>5 DEF BookOpened, ReaderFine, Reader, Quiet
  <1>6. CASE DocumentLoads
    <2>1. reader.stage = "goTo" \/ reader.late
      BY <1>6 DEF DocumentLoads
    <2>2. CASE reader.left
      BY <1>6, <1>s, <2>2 DEF DocumentLoads
    <2>3. CASE ~ reader.left
      <3> DEFINE n == reader.documents + 1
      <3>0. n \in Nat
        BY DEF ReaderFine, Reader
      <3>1. reader' = [reader EXCEPT !.first = TRUE, !.reveal = TRUE, !.documents = n]
        BY <1>6, <2>3 DEF DocumentLoads
      <3> HIDE DEF n
      <3>2. UNCHANGED engine /\ reader.stage \in {"goTo", "over"}
        BY <1>6, <2>1 DEF DocumentLoads, ReaderFine
      <3> QED BY <2>3, <3>0, <3>1, <3>2 DEF ReaderFine, Reader, Quiet
    <2> QED BY <2>2, <2>3
  <1>7. CASE Reveal
    <2>1. CASE reader.left
      BY <1>7, <2>1 DEF Reveal, ReaderFine, Reader, Quiet
    <2>2. CASE ~ reader.left
      <3>1. ReaderFine(Ready(reader)) /\ Quiet(reader, Ready(reader))
        BY <2>2, ReadyReader
      <3>2. reader' = [Ready(reader) EXCEPT !.reveal = FALSE] /\ UNCHANGED engine
        BY <1>7, <2>2 DEF Reveal
      <3> QED BY <2>2, <3>1, <3>2 DEF ReaderFine, Reader, Quiet
    <2> QED BY <2>1, <2>2
  <1>8. CASE GoToSettles
    <2>1. CASE reader.left
      BY <1>8, <2>1 DEF GoToSettles, ReaderFine, Reader, Quiet
    <2>2. CASE ~ reader.left
      <3>1. ReaderFine(Ready(reader)) /\ Quiet(reader, Ready(reader))
        BY <2>2, ReadyReader
      <3>2. reader' = [Ready(reader) EXCEPT !.stage = "over"] /\ UNCHANGED engine
        BY <1>8, <2>2 DEF GoToSettles
      <3> QED BY <2>2, <3>1, <3>2 DEF ReaderFine, Reader, Quiet
    <2> QED BY <2>1, <2>2
  <1>9. CASE GoToTimesOut
    <2>1. CASE reader.first /\ ~ reader.left
      <3>1. ReaderFine(Ready(reader)) /\ Quiet(reader, Ready(reader))
        BY <2>1, ReadyReader
      <3>2. reader' = [Ready(reader) EXCEPT !.stage = "over", !.late = TRUE] /\ UNCHANGED engine
        BY <1>9, <2>1 DEF GoToTimesOut
      <3> QED BY <2>1, <3>1, <3>2 DEF ReaderFine, Reader, Quiet
    <2>2. CASE ~ (reader.first /\ ~ reader.left)
      <3>1. ReaderFine(InitFails(reader)) /\ Quiet(reader, InitFails(reader)) /\ InitFails(reader).stage = "over"
        BY <2>2, FailedReader DEF ReaderFine, Reader
      <3>2. reader' = [InitFails(reader) EXCEPT !.late = TRUE] /\ UNCHANGED engine
        BY <1>9, <2>2 DEF GoToTimesOut
      <3>3. reader.left \/ ~ reader.first
        BY <2>2 DEF ReaderFine, Reader
      <3> DEFINE n == InitFails(reader)
      <3>4. reader' \in Reader /\ reader'.stage = "over" /\ reader'.late
            /\ reader'.first = n.first /\ reader'.left = n.left /\ reader'.ready = n.ready
            /\ reader'.documents = n.documents /\ reader'.loading = n.loading /\ reader'.error = n.error
            /\ reader'.applied = n.applied /\ reader'.theme = n.theme
        BY <3>1, <3>2 DEF ReaderFine, Reader
      <3>5. n # NoReader
        BY <3>1 DEF NoReader
      <3> HIDE DEF n
      <3> QED BY <3>1, <3>2, <3>4, <3>5 DEF ReaderFine, Quiet, n
    <2> QED BY <2>1, <2>2
  <1>10. CASE LateGoToEnds
    BY <1>10 DEF LateGoToEnds, ReaderFine, Reader, Quiet
  <1>11. CASE ChooseTheme
    <2>1. reader.theme + 1 \in Nat /\ ~ reader.left /\ UNCHANGED engine
      BY <1>11 DEF ChooseTheme, ReaderFine, Reader
    <2>2. PICK a \in Nat : /\ reader' = [reader EXCEPT !.theme = reader.theme + 1, !.applied = a]
                           /\ reader.ready => a = reader.theme + 1
      BY <1>11, <2>1 DEF ChooseTheme, ReaderFine, Reader
    <2> QED BY <2>1, <2>2 DEF ReaderFine, Reader, Quiet
  <1>12. CASE LeaveReader
    <2>1. PICK v \in {"none", "closed"} :
            reader' = [reader EXCEPT !.left = TRUE, !.documents = 0, !.late = FALSE, !.view = v]
      BY <1>12 DEF LeaveReader
    <2>2. UNCHANGED engine /\ reader.stage # "none" /\ ~ reader.left
      BY <1>12 DEF LeaveReader
    <2>3. reader' \in Reader /\ reader'.stage = reader.stage /\ reader'.first = reader.first
          /\ reader'.left = TRUE /\ reader'.documents = 0 /\ reader'.late = FALSE /\ reader'.error = reader.error
      BY <2>1 DEF ReaderFine, Reader
    <2> QED BY <2>2, <2>3 DEF ReaderFine, Quiet
  <1>13. CASE ReaderGone
    BY <1>13 DEF ReaderGone, NoReader, ReaderFine, Reader, Quiet
  <1> QED BY <1>0, <1>1, <1>2, <1>3, <1>4, <1>5, <1>6, <1>7, <1>8, <1>9, <1>10, <1>11, <1>12, <1>13
          DEF ReaderViewNext, ReaderStep

LEMMA ReaderHolds == EngineFine(engine) /\ ReaderFine(reader) => ThemeApplied /\ OneScript
  BY DEF EngineFine, ReaderFine, ThemeApplied, OneScript

-----------------------------------------------------------------------------
(* Archives *)

Archive ==
    [mode : {"none", "starting", "worker", "direct"}, worker : BOOLEAN,
     decoder : {"none", "opening", "open", "failed", "closed"},
     timers : SUBSET (EntryIds \cup {InitRequest}), stopped : BOOLEAN]

Phases == {"idle", "asked", "waiting", "decoding", "done", "failed"}

AskedIn(l) == {r \in EntryIds : l[r] = "asked"}

TimersOf(a, l) == a.timers = AskedIn(l) \cup (IF a.mode = "starting" THEN {InitRequest} ELSE {})

(* Only a worker that runs is owed answers, and only before the archive is closed. *)
ArchiveFine(a, l) ==
    /\ a \in Archive /\ l \in [EntryIds -> Phases]
    /\ TimersOf(a, l)
    /\ a.worker => a.mode \in {"starting", "worker"} /\ ~ a.stopped
    /\ a.mode = "starting" => a.worker
    /\ AskedIn(l) # {} => a.worker /\ a.mode = "worker"
    /\ a.stopped => a.mode \in {"worker", "direct"}

(* What a step may do: ClosedIsQuiet and WorkerUnnoticed. *)
Unnoticed(a, l, b, m) ==
    /\ a.stopped => ~ b.worker /\ (b.decoder = a.decoder \/ a.decoder = "opening")
    /\ \A r \in EntryIds : l[r] # "failed" /\ m[r] = "failed"
                             => b.stopped \/ b.decoder = "failed" \/ l[r] = "decoding"

LEMMA ArchiveInitInv == ArchiveInit => ArchiveFine(archive, entryLoads)
  BY DEF ArchiveInit, ArchiveFine, Archive, Phases, TimersOf, AskedIn

LEMMA FallBackFine ==
  ASSUME ArchiveFine(archive, entryLoads), NEW rs \in SUBSET EntryIds, FallBack(rs),
         AskedIn(entryLoads) \subseteq rs, archive.mode = "worker"
  PROVE  ArchiveFine(archive', entryLoads') /\ Unnoticed(archive, entryLoads, archive', entryLoads')
  <1>1. CASE archive.stopped
    <2>1. UNCHANGED archive /\ AskedIn(entryLoads) = {}
      BY <1>1 DEF FallBack, ArchiveFine
    <2>2. entryLoads' = [r \in EntryIds |-> IF r \in rs THEN "failed" ELSE entryLoads[r]]
      BY <1>1 DEF FallBack, Becomes
    <2>3. entryLoads' \in [EntryIds -> Phases] /\ AskedIn(entryLoads') = {}
      BY <2>1, <2>2 DEF ArchiveFine, Phases, AskedIn
    <2> QED BY <1>1, <2>1, <2>2, <2>3 DEF ArchiveFine, Unnoticed, TimersOf
  <1>2. CASE ~ archive.stopped
    <2> DEFINE ph == CASE archive.decoder = "open" -> "decoding"
                       [] archive.decoder = "failed" -> "failed"
                       [] OTHER -> "waiting"
    <2>1. entryLoads' = [r \in EntryIds |-> IF r \in rs THEN ph ELSE entryLoads[r]]
      BY <1>2 DEF FallBack, Becomes
    <2>2. ph \in {"decoding", "failed", "waiting"} /\ (ph = "failed" => archive.decoder = "failed")
      OBVIOUS
    <2>3. PICK d \in {"none", "opening", "open", "failed", "closed"} :
            /\ archive' = [StopWorker(archive) EXCEPT !.decoder = d]
            /\ archive.decoder = "failed" => d = "failed"
      BY <1>2 DEF FallBack, ArchiveFine, Archive, StopWorker
    <2> HIDE DEF ph
    <2>4. /\ archive' \in Archive /\ archive'.mode = "worker" /\ ~ archive'.worker /\ archive'.timers = {}
          /\ archive'.decoder = d /\ ~ archive'.stopped
      BY <1>2, <2>3 DEF StopWorker, ArchiveFine, Archive
    <2>5. entryLoads' \in [EntryIds -> Phases] /\ AskedIn(entryLoads') = {}
      BY <2>1, <2>2 DEF ArchiveFine, Phases, AskedIn
    <2>6. Unnoticed(archive, entryLoads, archive', entryLoads')
      BY <1>2, <2>1, <2>2, <2>3, <2>4 DEF Unnoticed, ArchiveFine
    <2> QED BY <2>4, <2>5, <2>6 DEF ArchiveFine, TimersOf
  <1> QED BY <1>1, <1>2

LEMMA ArchiveStepInv ==
  ArchiveFine(archive, entryLoads) /\ [ArchiveNext]_<<archive, entryLoads>>
    => ArchiveFine(archive', entryLoads') /\ Unnoticed(archive, entryLoads, archive', entryLoads')
  <1> SUFFICES ASSUME ArchiveFine(archive, entryLoads), [ArchiveNext]_<<archive, entryLoads>>
      PROVE ArchiveFine(archive', entryLoads') /\ Unnoticed(archive, entryLoads, archive', entryLoads')
    OBVIOUS
  <1>0. CASE UNCHANGED <<archive, entryLoads>>
    BY <1>0 DEF Unnoticed, ArchiveFine
  <1>t. archive \in Archive /\ entryLoads \in [EntryIds -> Phases]
    BY DEF ArchiveFine
  <1>d. ASSUME UNCHANGED entryLoads, archive' = Direct(StopWorker(archive)), ~ archive.stopped,
               AskedIn(entryLoads) = {}
        PROVE  ArchiveFine(archive', entryLoads') /\ Unnoticed(archive, entryLoads, archive', entryLoads')
    <2>1. /\ archive' \in Archive /\ archive'.mode = "direct" /\ ~ archive'.worker
          /\ archive'.timers = {} /\ ~ archive'.stopped
      BY <1>d, <1>t DEF Direct, StopWorker, Archive
    <2> QED BY <1>d, <1>t, <2>1 DEF ArchiveFine, TimersOf, Unnoticed
  <1>g. ASSUME GiveWorkerUp, archive.worker \/ archive.timers # {}
        PROVE  ArchiveFine(archive', entryLoads') /\ Unnoticed(archive, entryLoads, archive', entryLoads')
    <2>1. archive.worker
      BY <1>g DEF ArchiveFine, TimersOf
    <2>2. archive.mode \in {"starting", "worker"} /\ ~ archive.stopped
      BY <2>1 DEF ArchiveFine
    <2>3. CASE archive.mode = "starting"
      BY <1>d, <1>g, <2>2, <2>3 DEF GiveWorkerUp, ArchiveFine
    <2>4. CASE archive.mode = "worker" /\ Asked = {}
      <3>1. UNCHANGED entryLoads /\ archive' = StopWorker(archive)
        BY <1>g, <2>4 DEF GiveWorkerUp
      <3>2. /\ archive' \in Archive /\ archive'.mode = "worker" /\ ~ archive'.worker
            /\ archive'.timers = {} /\ ~ archive'.stopped
        BY <1>t, <2>2, <2>4, <3>1 DEF StopWorker, Archive
      <3>3. AskedIn(entryLoads) = {}
        BY <2>4 DEF Asked, AskedIn
      <3> QED BY <1>t, <2>2, <3>1, <3>2, <3>3 DEF ArchiveFine, TimersOf, Unnoticed
    <2>5. CASE archive.mode = "worker" /\ Asked # {}
      <3>1. FallBack(Asked) /\ Asked \in SUBSET EntryIds /\ AskedIn(entryLoads) \subseteq Asked
        BY <1>g, <2>5 DEF GiveWorkerUp, Asked, AskedIn
      <3> QED BY <2>5, <3>1, FallBackFine
    <2> QED BY <2>2, <2>3, <2>4, <2>5
  <1>1. CASE MakeZipLoader
    <2>1. /\ archive.mode = "none" /\ UNCHANGED entryLoads /\ AskedIn(entryLoads) = {}
          /\ ~ archive.stopped /\ ~ archive.worker
      BY <1>1 DEF MakeZipLoader, ArchiveFine
    <2>2. CASE archive' = Direct(archive)
      <3>1. /\ archive' \in Archive /\ archive'.mode = "direct" /\ ~ archive'.worker
            /\ archive'.timers = archive.timers /\ ~ archive'.stopped
        BY <1>t, <2>1, <2>2 DEF Direct, Archive
      <3> QED BY <1>t, <2>1, <3>1 DEF ArchiveFine, TimersOf, Unnoticed
    <2>3. CASE archive' = [archive EXCEPT !.mode = "starting", !.worker = TRUE, !.timers = {InitRequest}]
      <3>1. /\ archive' \in Archive /\ archive'.mode = "starting" /\ archive'.worker
            /\ archive'.timers = {InitRequest} /\ ~ archive'.stopped
        BY <1>t, <2>1, <2>3 DEF Archive
      <3> QED BY <1>t, <2>1, <3>1 DEF ArchiveFine, TimersOf, Unnoticed
    <2> QED BY <1>1, <2>2, <2>3 DEF MakeZipLoader
  <1>2. ASSUME NEW ok \in BOOLEAN, WorkerReady(ok)
        PROVE  ArchiveFine(archive', entryLoads') /\ Unnoticed(archive, entryLoads, archive', entryLoads')
    <2>1. /\ archive.mode = "starting" /\ UNCHANGED entryLoads /\ AskedIn(entryLoads) = {}
          /\ ~ archive.stopped /\ archive.worker /\ archive.timers = {InitRequest}
      BY <1>2 DEF WorkerReady, ArchiveFine, TimersOf
    <2>2. CASE ok
      <3>1. archive' = [archive EXCEPT !.mode = "worker", !.timers = {}]
        BY <1>2, <1>t, <2>1, <2>2 DEF WorkerReady, Archive
      <3>2. /\ archive' \in Archive /\ archive'.mode = "worker" /\ archive'.worker
            /\ archive'.timers = {} /\ ~ archive'.stopped
        BY <1>t, <2>1, <3>1 DEF Archive
      <3> QED BY <1>t, <2>1, <3>2 DEF ArchiveFine, TimersOf, Unnoticed
    <2>3. CASE ~ ok
      BY <1>2, <1>d, <2>1, <2>3 DEF WorkerReady
    <2> QED BY <2>2, <2>3
  <1>3. ASSUME NEW r \in EntryIds, LoadEntry(r)
        PROVE  ArchiveFine(archive', entryLoads') /\ Unnoticed(archive, entryLoads, archive', entryLoads')
    <2>1. CASE archive.mode = "direct"
      <3>1. Becomes({r}, "decoding") /\ UNCHANGED archive /\ AskedIn(entryLoads) = {}
        BY <1>3, <2>1 DEF LoadEntry, ArchiveFine
      <3>2. entryLoads' \in [EntryIds -> Phases] /\ AskedIn(entryLoads') = {}
        BY <1>t, <3>1 DEF Becomes, AskedIn, Phases
      <3>3. Unnoticed(archive, entryLoads, archive', entryLoads')
        BY <1>t, <3>1 DEF Unnoticed, ArchiveFine, Becomes
      <3> QED BY <3>1, <3>2, <3>3 DEF ArchiveFine, TimersOf
    <2>2. CASE archive.mode = "worker" /\ archive.worker
      <3>1. Becomes({r}, "asked") /\ archive' = [archive EXCEPT !.timers = archive.timers \cup {r}]
        BY <1>3, <1>t, <2>2 DEF LoadEntry, Archive
      <3>2. entryLoads' \in [EntryIds -> Phases] /\ AskedIn(entryLoads') = AskedIn(entryLoads) \cup {r}
        BY <1>t, <3>1 DEF Becomes, AskedIn, Phases
      <3>3. /\ archive' \in Archive /\ archive'.mode = "worker" /\ archive'.worker
            /\ archive'.timers = archive.timers \cup {r} /\ archive'.stopped = archive.stopped
        BY <1>t, <2>2, <3>1 DEF Archive
      <3>4. Unnoticed(archive, entryLoads, archive', entryLoads')
        BY <1>t, <2>2, <3>1 DEF Unnoticed, ArchiveFine, Becomes
      <3> QED BY <2>2, <3>2, <3>3, <3>4 DEF ArchiveFine, TimersOf
    <2>3. CASE archive.mode = "worker" /\ ~ archive.worker
      <3>1. FallBack({r}) /\ {r} \in SUBSET EntryIds
        BY <1>3, <2>3 DEF LoadEntry
      <3>2. AskedIn(entryLoads) \subseteq {r}
        BY <2>3 DEF ArchiveFine
      <3> QED BY <2>3, <3>1, <3>2, FallBackFine
    <2> QED BY <1>3, <2>1, <2>2, <2>3 DEF LoadEntry
  <1>4. ASSUME NEW r \in EntryIds, NEW ok \in BOOLEAN, WorkerAnswers(r, ok)
        PROVE  ArchiveFine(archive', entryLoads') /\ Unnoticed(archive, entryLoads, archive', entryLoads')
    <2>1. r \in AskedIn(entryLoads) /\ archive.worker
      BY <1>4 DEF WorkerAnswers, AskedIn
    <2>2. archive.mode = "worker" /\ ~ archive.stopped
      BY <2>1 DEF ArchiveFine
    <2>3. CASE ok
      <3>1. Becomes({r}, "done") /\ archive' = [archive EXCEPT !.timers = archive.timers \ {r}]
        BY <1>4, <1>t, <2>3 DEF WorkerAnswers, Archive
      <3>2. entryLoads' \in [EntryIds -> Phases] /\ AskedIn(entryLoads') = AskedIn(entryLoads) \ {r}
        BY <1>t, <3>1 DEF Becomes, AskedIn, Phases
      <3>3. /\ archive' \in Archive /\ archive'.mode = "worker" /\ archive'.worker
            /\ archive'.timers = archive.timers \ {r} /\ archive'.stopped = archive.stopped
        BY <1>t, <2>1, <2>2, <3>1 DEF Archive
      <3>4. Unnoticed(archive, entryLoads, archive', entryLoads')
        BY <1>t, <2>2, <3>1 DEF Unnoticed, ArchiveFine, Becomes
      <3> QED BY <2>2, <3>2, <3>3, <3>4 DEF ArchiveFine, TimersOf
    <2>4. CASE ~ ok
      <3>1. FallBack(Asked) /\ Asked \in SUBSET EntryIds /\ AskedIn(entryLoads) \subseteq Asked
        BY <1>4, <2>4 DEF WorkerAnswers, Asked, AskedIn
      <3> QED BY <2>2, <3>1, FallBackFine
    <2> QED BY <2>3, <2>4
  <1>5. CASE WorkerBreaks \/ WorkerTimesOut
    BY <1>5, <1>g DEF WorkerBreaks, WorkerTimesOut
  <1>6. ASSUME NEW ok \in BOOLEAN, DecoderOpens(ok)
        PROVE  ArchiveFine(archive', entryLoads') /\ Unnoticed(archive, entryLoads, archive', entryLoads')
    <2>1. PICK d \in {"failed", "closed", "open"} :
            archive' = [archive EXCEPT !.decoder = d] /\ (~ ok => d = "failed")
      BY <1>6 DEF DecoderOpens
    <2> DEFINE ph == IF ok THEN "decoding" ELSE "failed"
               ws == {r \in EntryIds : entryLoads[r] = "waiting"}
    <2>2. entryLoads' = [r \in EntryIds |-> IF r \in ws THEN ph ELSE entryLoads[r]]
      BY <1>6 DEF DecoderOpens, Becomes
    <2>3. ph \in {"decoding", "failed"} /\ (ph = "failed" => ~ ok)
      OBVIOUS
    <2> HIDE DEF ph
    <2>4. entryLoads' \in [EntryIds -> Phases] /\ AskedIn(entryLoads') = AskedIn(entryLoads)
      BY <1>t, <2>2, <2>3 DEF AskedIn, Phases
    <2>5. /\ archive' \in Archive /\ archive'.mode = archive.mode /\ archive'.worker = archive.worker
          /\ archive'.timers = archive.timers /\ archive'.stopped = archive.stopped /\ archive'.decoder = d
      BY <1>t, <2>1 DEF Archive
    <2>6. archive.decoder = "opening"
      BY <1>6 DEF DecoderOpens
    <2>7. Unnoticed(archive, entryLoads, archive', entryLoads')
      BY <1>t, <2>1, <2>2, <2>3, <2>5, <2>6 DEF Unnoticed, ArchiveFine
    <2> QED BY <2>4, <2>5, <2>7 DEF ArchiveFine, TimersOf
  <1>7. ASSUME NEW r \in EntryIds, NEW ok \in BOOLEAN, EntryDecoded(r, ok)
        PROVE  ArchiveFine(archive', entryLoads') /\ Unnoticed(archive, entryLoads, archive', entryLoads')
    <2>1. UNCHANGED archive /\ entryLoads[r] = "decoding"
      BY <1>7 DEF EntryDecoded
    <2>2. PICK ph \in {"done", "failed"} :
            entryLoads' = [x \in EntryIds |-> IF x \in {r} THEN ph ELSE entryLoads[x]]
      BY <1>7 DEF EntryDecoded, Becomes
    <2>3. entryLoads' \in [EntryIds -> Phases] /\ AskedIn(entryLoads') = AskedIn(entryLoads)
      BY <1>t, <2>1, <2>2 DEF AskedIn, Phases
    <2>4. Unnoticed(archive, entryLoads, archive', entryLoads')
      BY <1>t, <2>1, <2>2 DEF Unnoticed, ArchiveFine
    <2> QED BY <2>1, <2>3, <2>4 DEF ArchiveFine, TimersOf
  <1>8. CASE DestroyArchive
    <2>1. entryLoads' = [r \in EntryIds |-> IF r \in Asked THEN "failed" ELSE entryLoads[r]]
      BY <1>8 DEF DestroyArchive, Becomes
    <2>2. PICK d \in {"none", "opening", "open", "failed", "closed"} :
            archive' = [StopWorker(archive) EXCEPT !.stopped = TRUE, !.decoder = d]
      BY <1>8, <1>t DEF DestroyArchive, StopWorker, Archive
    <2>3. ~ archive.stopped /\ archive.mode \in {"worker", "direct"}
      BY <1>8 DEF DestroyArchive
    <2>4. /\ archive' \in Archive /\ archive'.mode = archive.mode /\ ~ archive'.worker
          /\ archive'.timers = {} /\ archive'.stopped
      BY <1>t, <2>2 DEF StopWorker, Archive
    <2>5. entryLoads' \in [EntryIds -> Phases] /\ AskedIn(entryLoads') = {}
      BY <1>t, <2>1 DEF Asked, AskedIn, Phases
    <2>6. Unnoticed(archive, entryLoads, archive', entryLoads')
      BY <2>3, <2>4 DEF Unnoticed
    <2> QED BY <2>3, <2>4, <2>5, <2>6 DEF ArchiveFine, TimersOf
  <1> QED BY <1>0, <1>1, <1>2, <1>3, <1>4, <1>5, <1>6, <1>7, <1>8 DEF ArchiveNext

LEMMA ArchiveHolds == ArchiveFine(archive, entryLoads) => TimersMatch
  BY DEF ArchiveFine, TimersOf, AskedIn, TimersMatch, Asked

-----------------------------------------------------------------------------
(***************************************************************************)
(* The client: a step of it is a step of one part, and a stutter of every  *)
(* other, so the invariants of the parts hold together.                    *)
(***************************************************************************)

ClientInv ==
    /\ ControlsInv /\ SessionInv
    /\ DeskInv /\ DragInv /\ GridInv /\ CoversOK(covers)
    /\ ApiInv /\ OfflineInv /\ PageCacheInv
    /\ EngineFine(engine) /\ ReaderFine(reader)
    /\ ArchiveFine(archive, entryLoads)

LEMMA ClientInitInv == Init => ClientInv
  BY ControlsInitInv, SessionInitInv, PageInitInv, CoversInitInv, ApiInitInv, OfflineInitInv,
     PageCacheInitInv, ReaderInitInv, ArchiveInitInv DEF Init, ClientInv

LEMMA SpeechParts ==
  [Next]_vars => [ControlsNext]_<<panel, narrator>> /\ [SessionNext]_<<session, wake>>
  BY DEF Next, vars, speechVars

LEMMA ShelfParts ==
  [Next]_vars => [DeskNext]_<<desk, drag>> /\ [GridNext]_grid /\ [CoversNext]_<<covers, cards>>
  BY DEF Next, vars, shelfPageVars

LEMMA FileParts ==
  [Next]_vars => /\ [ApiNext]_<<call, request, server>> /\ [OfflineNext]_<<app, copies, save, open>>
                 /\ [ArchiveNext]_<<archive, entryLoads>>
  BY DEF Next, vars, fileVars

LEMMA BookParts ==
  [Next]_vars => /\ [PageCacheNext]_<<site, worker, stores, fetches, answer>>
                 /\ [ReaderViewNext]_<<engine, reader>>
  BY DEF Next, vars, shellVars, bookVars

LEMMA ClientStepInv ==
  ClientInv /\ [Next]_vars =>
    /\ ClientInv'
    /\ AbortStops /\ HandsOut /\ Quiet(reader, reader')
    /\ Unnoticed(archive, entryLoads, archive', entryLoads')
  <1> SUFFICES ASSUME ClientInv, [Next]_vars
      PROVE /\ ClientInv'
            /\ AbortStops /\ HandsOut /\ Quiet(reader, reader')
            /\ Unnoticed(archive, entryLoads, archive', entryLoads')
    OBVIOUS
  <1>1. ControlsInv' /\ SessionInv'
    BY SpeechParts, ControlsStepInv, SessionStepInv DEF ClientInv
  <1>2. DeskInv' /\ DragInv' /\ GridInv' /\ CoversOK(covers')
    BY ShelfParts, DeskStepInv, GridStepInv, CoversStepInv DEF ClientInv
  <1>3. ApiInv' /\ AbortStops
    BY FileParts, ApiStepInv DEF ClientInv
  <1>4. OfflineInv' /\ HandsOut
    BY FileParts, OfflineStepInv DEF ClientInv
  <1>5. ArchiveFine(archive', entryLoads') /\ Unnoticed(archive, entryLoads, archive', entryLoads')
    BY FileParts, ArchiveStepInv DEF ClientInv
  <1>6. PageCacheInv'
    BY BookParts, PageCacheStepInv DEF ClientInv
  <1>7. EngineFine(engine') /\ ReaderFine(reader') /\ Quiet(reader, reader')
    BY BookParts, ReaderStepInv DEF ClientInv
  <1> QED BY <1>1, <1>2, <1>3, <1>4, <1>5, <1>6, <1>7 DEF ClientInv

LEMMA ClientInvariant == Spec => []ClientInv
  <1>1. ClientInv /\ [Next]_vars => ClientInv'
    BY ClientStepInv
  <1> QED BY <1>1, ClientInitInv, PTL DEF Spec

(* A panel waits exactly for the operation it started last, however the       *)
(* answers of earlier ones come in (TTSControls.tsx, DeferredTTSControls).    *)
THEOREM ClientPendingIsLatest == Spec => []PendingIsLatest
  <1>1. ClientInv => PendingIsLatest
    BY DEF ClientInv, ControlsInv, WaitsForLatest, PendingIsLatest
  <1> QED BY <1>1, ClientInvariant, PTL

(* What is stored of a listening session is what the player asked for, and no *)
(* wake lock outlives its owner (lib/tts-session.ts, useWakeLock.ts).         *)
THEOREM ClientSessionSafe == Spec => []SessionSafe
  <1>1. ClientInv => SessionSafe
    BY SessionInvSafe DEF ClientInv
  <1> QED BY <1>1, ClientInvariant, PTL

(* Selection, drag overlay, grid lock and the cache of covers stay consistent *)
(* on the shelf page (page.tsx, VirtualBookGrid.tsx, useCoverUrl.ts).         *)
THEOREM ClientShelfPageSafe == Spec => []ShelfPageSafe
  <1>1. ClientInv => ShelfPageSafe
    BY ShelfPageHolds DEF ClientInv
  <1> QED BY <1>1, ClientInvariant, PTL

(* An upload is reported as the server took it, and an aborted request is not *)
(* sent again, neither by a retry nor to another base (lib/api.ts).           *)
THEOREM ClientRequestsSafe == Spec => RequestsSafe
  <1>1. ClientInv => UploadHonest
    BY UploadIsHonest DEF ClientInv
  <1>2. ClientInv /\ [Next]_vars
          => [call.aborted => call'.n = call.n \/ ~ call'.aborted]_apiVars
    BY ClientStepInv DEF AbortStops
  <1> QED BY <1>1, <1>2, ClientInvariant, PTL DEF Spec, RequestsSafe, AbortSendsNothing

(* A stored copy goes with the session of its account, is handed out only in  *)
(* that account and only if current, and offline a page is shown and an       *)
(* engine not older than its worker (lib/offline-books.ts, sw.js).            *)
THEOREM ClientOfflineSafe == Spec => OfflineSafe
  <1>1. ClientInv => CopyGoesWithSession /\ ShellAlways /\ EngineNotOlder
    BY PageCacheHolds DEF ClientInv, OfflineInv
  <1>2. ClientInv /\ [Next]_vars
          => [open.stage # "done" /\ open'.stage = "done" /\ open'.from = "copy"
                => /\ app.user = open.user
                   /\ app.online => open.cached = app.hash]_offlineVars
    BY ClientStepInv DEF HandsOut
  <1> QED BY <1>1, <1>2, ClientInvariant, PTL DEF Spec, OfflineSafe, CopiesSafe, CopyIsOwnAndCurrent

(* One engine is put into the tab, a shown page has the theme chosen last and *)
(* is not replaced by an error, and a reader that was left changes nothing    *)
(* (useFoliateView.ts).                                                       *)
LEMMA ClientReaderSafe == Spec => ReaderSafe
  <1>1. ClientInv => ThemeApplied /\ OneScript
    BY ReaderHolds DEF ClientInv
  <1>2. ClientInv /\ [Next]_vars
          => [(~reader.error /\ reader'.error) => ~reader'.first]_viewVars
    BY ClientStepInv DEF Quiet
  <1>3. ClientInv /\ [Next]_vars
          => [reader.left => \/ reader' = NoReader
                             \/ /\ reader'.documents = 0
                                /\ reader'.loading = reader.loading /\ reader'.ready = reader.ready
                                /\ reader'.error = reader.error]_viewVars
    BY ClientStepInv DEF Quiet
  <1> QED BY <1>1, <1>2, <1>3, ClientInvariant, PTL
          DEF Spec, ReaderSafe, ErrorHidesNothing, SilentAfterLeaving

(* A timer runs exactly for a pending request of the archive worker, a closed *)
(* archive starts nothing any more, and no load fails because the worker did  *)
(* (zip-loader.js).                                                           *)
LEMMA ClientArchiveSafe == Spec => ArchiveSafe
  <1>1. ClientInv => TimersMatch
    BY ArchiveHolds DEF ClientInv
  <1>2. ClientInv /\ [Next]_vars
          => [archive.stopped => /\ ~archive'.worker
                                 /\ archive'.decoder = archive.decoder \/ archive.decoder = "opening"]_archiveVars
    BY ClientStepInv DEF Unnoticed
  <1>3. ClientInv /\ [Next]_vars
          => [\A r \in EntryIds : entryLoads[r] # "failed" /\ entryLoads'[r] = "failed" =>
                archive'.stopped \/ archive'.decoder = "failed" \/ entryLoads[r] = "decoding"]_archiveVars
    BY ClientStepInv DEF Unnoticed
  <1> QED BY <1>1, <1>2, <1>3, ClientInvariant, PTL
          DEF Spec, ArchiveSafe, ClosedIsQuiet, WorkerUnnoticed

(* Opening a book, whatever comes late, fails or is given up: the reader and  *)
(* the archive behind it stay consistent (useFoliateView.ts, zip-loader.js).  *)
THEOREM ClientOpeningSafe == Spec => OpeningSafe
  BY ClientReaderSafe, ClientArchiveSafe, PTL DEF OpeningSafe
=============================================================================
