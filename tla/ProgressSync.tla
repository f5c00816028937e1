---------------------------- MODULE ProgressSync ----------------------------
(***************************************************************************)
(* Reading positions across devices: the reader's progress hook            *)
(* (frontend/src/hooks/useProgress.ts), the effects of the reader view     *)
(* that feed it (useFoliateView.ts) and the progress handlers of the       *)
(* server (backend/handlers/progress.go, storage/db.go).                   *)
(*                                                                         *)
(* A device is one browser tab.  Its code runs one callback at a time, so  *)
(* what happens between two awaits is one action; a request is a call      *)
(* record that the server and the device advance independently.  A request *)
(* the device gave up on, or whose page is gone, may still be executed.    *)
(* The device clocks and the server clock are one clock, `now`, that moves *)
(* on at every reading.                                                    *)
(***************************************************************************)
EXTENDS ClientEvents, Sequences, FiniteSetsExt

CONSTANTS
    Devices, Books,
    Positions,      \* places in a book: [cfi, percentage]
    Start,          \* where a book opens without saved progress
    OnePercent,     \* one per cent, in the unit of Positions' percentages
    NoBook, NoPosition, NoSnapshot, NoCall,
    MaxCalls,       \* bound: requests of one device outstanding at a time
    MaxFaults       \* bound: requests that fail or are refused

ASSUME PositionAssumption == Start \in Positions /\ OnePercent \in Nat \ {0}
ASSUME BoundAssumption == MaxCalls \in Nat \ {0} /\ MaxFaults \in Nat

VARIABLES
    now,        \* the last time read from a clock
    server,     \* the Progress record of a book
    reader,     \* the refs of the mounted useProgress and the state of its view
    staged,     \* localStorage z-reader-offline-progress:<book>
    queue,      \* localStorage z-reader-offline-pending-sync-books
    calls,      \* requests under way, by device and slot
    faults      \* requests failed so far

storage == <<staged, queue>>
vars == <<now, server, reader, staged, queue, calls, events, faults>>

Slots == 1 .. MaxCalls
Snapshots == [pos : Positions, time : Nat, device : Devices]
Unmounted == [book |-> NoBook, view |-> "closed", lastSaved |-> NoSnapshot,
              pending |-> NoPosition, saving |-> FALSE, timer |-> NoPosition,
              applied |-> 0, moving |-> NoPosition]

TimeOf(snap) == IF snap = NoSnapshot THEN 0 ELSE snap.time
Distance(m, n) == IF m > n THEN m - n ELSE n - m

ProgressInit ==
    /\ now = 0
    /\ server = [b \in Books |-> NoSnapshot]
    /\ reader = [d \in Devices |-> Unmounted]
    /\ staged = [d \in Devices |-> [b \in Books |-> NoSnapshot]]
    /\ queue = [d \in Devices |-> <<>>]
    /\ calls = [d \in Devices |-> [s \in Slots |-> NoCall]]
    /\ faults = 0

-----------------------------------------------------------------------------
(* Requests.  A call is read by the device while its owner is "reader"     *)
(* (the component that sent it is mounted) or "left" (unmounted, its       *)
(* promise still runs); "gone" is a request nobody hears the answer of.    *)

Gets == {"load", "refresh", "reload"}
Posts == {"save", "sync", "unload"}
Requests ==
    [kind : Gets \cup Posts, owner : {"reader", "left", "gone"}, book : Books,
     phase : {"sent", "stamped", "saved", "conflict", "read", "refused"},
     pos : Positions \cup {NoPosition}, expected : Nat, snap : Snapshots \cup {NoSnapshot},
     stamp : Nat, todo : Seq(Books)]

ASSUME SentinelAssumption ==
    NoBook \notin Books /\ NoPosition \notin Positions /\ NoSnapshot \notin Snapshots /\ NoCall \notin Requests

NewCall(kind, b, pos, expected) ==
    [kind |-> kind, owner |-> IF kind = "unload" THEN "gone" ELSE "reader", book |-> b,
     phase |-> "sent", pos |-> pos, expected |-> expected, snap |-> NoSnapshot,
     stamp |-> 0, todo |-> <<>>]

FreeSlots(cs) == {s \in Slots : cs[s] = NoCall}
HasRoom(cs, n) == Cardinality(FreeSlots(cs)) >= n
Place(cs, c) == [cs EXCEPT ![Min(FreeSlots(cs))] = c]
End(d, s, c) == calls' = [calls EXCEPT ![d][s] = c]

(* What may remain on the server of a request its device no longer awaits. *)
Remains(c) ==
    {NoCall} \cup (IF c.kind \in Posts /\ c.phase \in {"sent", "stamped"}
                   THEN {[c EXCEPT !.owner = "gone"]} ELSE {})

Event == External /\ UNCHANGED faults
Fault == faults < MaxFaults /\ faults' = faults + 1 /\ Internal
Quiet == Internal /\ UNCHANGED faults

-----------------------------------------------------------------------------
(* The server: handlers/progress.go. *)

(* Save reads the clock for updated_at before it enters the transaction. *)
Stamp(d, s) ==
    LET c == calls[d][s]
    IN  /\ c # NoCall /\ c.kind \in Posts /\ c.phase = "sent"
        /\ now' = now + 1
        /\ End(d, s, [c EXCEPT !.phase = "stamped", !.stamp = now + 1])
        /\ Quiet
        /\ UNCHANGED <<server, reader, storage>>

IsCurrent(c) == c.expected = 0 \/ TimeOf(server[c.book]) = c.expected

(* SaveProgressIfCurrent: compare and write in one transaction. *)
Commit(d, s) ==
    LET c == calls[d][s]
        snap == [pos |-> c.pos, time |-> c.stamp, device |-> d]
        answer == IF IsCurrent(c) THEN [c EXCEPT !.phase = "saved", !.snap = snap]
                                  ELSE [c EXCEPT !.phase = "conflict"]
    IN  /\ c # NoCall /\ c.phase = "stamped"
        /\ server' = IF IsCurrent(c) THEN [server EXCEPT ![c.book] = snap] ELSE server
        /\ End(d, s, IF c.owner = "gone" THEN NoCall ELSE answer)
        /\ Quiet
        /\ UNCHANGED <<now, reader, storage>>

Get(d, s) ==
    LET c == calls[d][s]
    IN  /\ c # NoCall /\ c.kind \in Gets /\ c.phase = "sent"
        /\ End(d, s, [c EXCEPT !.phase = "read", !.snap = server[c.book]])
        /\ Quiet
        /\ UNCHANGED <<now, server, reader, storage>>

(* Any other status: book deleted, session expired, rate limit, error. *)
Refuse(d, s) ==
    LET c == calls[d][s]
    IN  /\ c # NoCall /\ c.phase = "sent"
        /\ Fault
        /\ End(d, s, IF c.owner = "gone" THEN NoCall ELSE [c EXCEPT !.phase = "refused"])
        /\ UNCHANGED <<now, server, reader, storage>>

-----------------------------------------------------------------------------
(* Helpers of the hook. *)

hasMeaningfulChange(r, data) ==
    r.lastSaved # NoSnapshot =>
        \/ data.cfi # r.lastSaved.pos.cfi
        \/ Distance(data.percentage, r.lastSaved.pos.percentage) >= OnePercent

(* setProgress with remote: TRUE; a view that is ready follows it once per *)
(* updated_at.                                                             *)
applyLoadedProgress(r, snap) ==
    LET jump == r.view = "ready" /\ snap.time # r.applied
    IN  IF snap = NoSnapshot THEN r
        ELSE [r EXCEPT !.lastSaved = snap,
                       !.applied = IF jump THEN snap.time ELSE @,
                       !.moving = IF jump THEN snap.pos ELSE @]

\* Mutant: any save settles what is pending.
ClearAnyPending(r, data) == [r EXCEPT !.pending = NoPosition]

(* A save settles the pending position unless the reader moved on. *)
ClearPending(r, data) == [r EXCEPT !.pending = IF @ = data THEN NoPosition ELSE @]

(* The queue of books with staged progress holds each book once. *)
Enqueue(q, b) == IF \E i \in DOMAIN q : q[i] = b THEN q ELSE Append(q, b)

(* saveProgress up to its request; `forced` skips both early returns. *)
Sends(r, data, forced) == forced \/ (~r.saving /\ hasMeaningfulChange(r, data))
SaveCall(r, data) == NewCall("save", r.book, data, TimeOf(r.lastSaved))

SaveStarted(d, r, data, forced) ==
    IF Sends(r, data, forced)
    THEN /\ HasRoom(calls[d], 1)
         /\ calls' = [calls EXCEPT ![d] = Place(@, SaveCall(r, data))]
         /\ reader' = [reader EXCEPT ![d] = [r EXCEPT !.saving = TRUE]]
    ELSE /\ reader' = [reader EXCEPT ![d] = r]
         /\ UNCHANGED calls

(* The loop of syncOfflineProgressQueue up to its next request: it takes    *)
(* every book it has passed out of nextQueue, so that nextQueue is the book *)
(* being sent and those still to do; at the end it is written back.         *)
SyncStep(q, todo, store) ==
    LET live == {i \in DOMAIN todo : store[todo[i]] # NoSnapshot}
        i == Min(live)
    IN  IF live = {} THEN [call |-> NoCall, queue |-> <<>>]
        ELSE [call |-> [NewCall("sync", todo[i], store[todo[i]].pos, 0)
                          EXCEPT !.todo = SubSeq(todo, i + 1, Len(todo))],
              queue |-> q]

SyncBegin(d) == SyncStep(queue[d], queue[d], staged[d])

-----------------------------------------------------------------------------
(* The reader page. *)

(* Mounting hydrates from localStorage, loads and starts a queue sync. *)
Open(d, b) ==
    LET sync == SyncBegin(d)
        load == NewCall("load", b, NoPosition, 0)
    IN  /\ reader[d].view = "closed"
        /\ HasRoom(calls[d], 2)
        /\ Event
        /\ reader' = [reader EXCEPT ![d] = [Unmounted EXCEPT !.book = b, !.view = "loading",
                                                             !.lastSaved = staged[d][b]]]
        /\ calls' = [calls EXCEPT ![d] = Place(Place(@, load), sync.call)]
        /\ queue' = [queue EXCEPT ![d] = sync.queue]
        /\ UNCHANGED <<now, server, staged>>

(* The view opens where the progress known by then says; it waits at most  *)
(* 0.4 s for the load.                                                     *)
OpenView(d) ==
    LET r == reader[d]
    IN  /\ r.view = "loading"
        /\ reader' = [reader EXCEPT ![d].view = "opening",
                                    ![d].applied = TimeOf(r.lastSaved),
                                    ![d].moving = IF r.lastSaved = NoSnapshot THEN Start
                                                  ELSE r.lastSaved.pos]
        /\ Quiet
        /\ UNCHANGED <<now, server, storage, calls>>

(* A relocate event after goTo; the percentage depends on the layout. *)
Relocate(d, p) ==
    LET r == reader[d]
    IN  /\ r.moving # NoPosition /\ p.cfi = r.moving.cfi
        /\ reader' = [reader EXCEPT ![d].view = "ready", ![d].pending = p, ![d].moving = NoPosition]
        /\ Quiet
        /\ UNCHANGED <<now, server, storage, calls>>

(* A page turn: updateProgress. *)
Turn(d, p) ==
    /\ reader[d].view = "ready"
    /\ Event
    /\ reader' = [reader EXCEPT ![d].pending = p]
    /\ UNCHANGED <<now, server, storage, calls>>

\* Mutant: the autosave waits for the first load.
TickLoaded(d) ==
    LET r == reader[d]
    IN  /\ r.pending # NoPosition /\ ~r.saving /\ r.timer = NoPosition
        /\ r.lastSaved # NoSnapshot
        /\ reader' = [reader EXCEPT ![d].timer = r.pending]
        /\ Quiet
        /\ UNCHANGED <<now, server, storage, calls>>

(* The autosave interval; it is longer than the debounce delay, so the     *)
(* timer it armed last has fired.                                          *)
Tick(d) ==
    LET r == reader[d]
    IN  /\ r.pending # NoPosition /\ ~r.saving /\ r.timer = NoPosition
        /\ reader' = [reader EXCEPT ![d].timer = r.pending]
        /\ Quiet
        /\ UNCHANGED <<now, server, storage, calls>>

(* The debounce timer fires. *)
Fire(d) ==
    LET r == reader[d]
    IN  /\ r.timer # NoPosition
        /\ SaveStarted(d, [r EXCEPT !.timer = NoPosition], r.timer, FALSE)
        /\ Quiet
        /\ UNCHANGED <<now, server, storage>>

(* The page is hidden: save at once. *)
Hide(d) ==
    LET r == reader[d]
    IN  /\ r.pending # NoPosition
        /\ Event
        /\ SaveStarted(d, r, r.pending, TRUE)
        /\ UNCHANGED <<now, server, storage>>

(* The page regains focus: refreshRemoteProgress. *)
Focus(d) ==
    LET r == reader[d]
    IN  /\ r.lastSaved # NoSnapshot /\ ~r.saving /\ r.pending = NoPosition
        /\ HasRoom(calls[d], 1)
        /\ Event
        /\ calls' = [calls EXCEPT ![d] = Place(@, NewCall("refresh", r.book, NoPosition, 0))]
        /\ UNCHANGED <<now, server, reader, storage>>

(* The browser is online again. *)
Online(d) ==
    LET sync == SyncBegin(d)
    IN  /\ reader[d].view # "closed"
        /\ HasRoom(calls[d], 1)
        /\ Event
        /\ calls' = [calls EXCEPT ![d] = Place(@, sync.call)]
        /\ queue' = [queue EXCEPT ![d] = sync.queue]
        /\ UNCHANGED <<now, server, reader, staged>>

(* The component unmounts; its promises keep running. *)
LeaveBehind(cs) ==
    [s \in Slots |-> IF cs[s] = NoCall \/ cs[s].owner = "gone" THEN cs[s]
                     ELSE [cs[s] EXCEPT !.owner = "left"]]

(* The back button of the reader: saveNow, then the shelf. *)
Back(d) ==
    LET r == reader[d]
    IN  /\ r.view # "closed"
        /\ r.pending # NoPosition => HasRoom(calls[d], 1)
        /\ Event
        /\ calls' = [calls EXCEPT ![d] =
                       LeaveBehind(IF r.pending = NoPosition THEN @
                                   ELSE Place(@, SaveCall(r, r.pending)))]
        /\ reader' = [reader EXCEPT ![d] = Unmounted]
        /\ UNCHANGED <<now, server, storage>>

(* Any other navigation inside the application unmounts without saving. *)
Navigate(d) ==
    /\ reader[d].view # "closed"
    /\ Event
    /\ calls' = [calls EXCEPT ![d] = LeaveBehind(@)]
    /\ reader' = [reader EXCEPT ![d] = Unmounted]
    /\ UNCHANGED <<now, server, storage>>

(* beforeunload and pagehide: a request that outlives the page. *)
UnloadSave(d) ==
    LET r == reader[d]
    IN  /\ r.pending # NoPosition /\ hasMeaningfulChange(r, r.pending)
        /\ HasRoom(calls[d], 1)
        /\ Event
        /\ calls' = [calls EXCEPT ![d] =
                       Place(@, NewCall("unload", r.book, r.pending, TimeOf(r.lastSaved)))]
        /\ UNCHANGED <<now, server, reader, storage>>

(* The page ends, reloads or crashes: refs and promises are gone. *)
Unload(d) ==
    /\ Event
    /\ \E cs \in [Slots -> UNION {Remains(calls[d][s]) : s \in {s \in Slots : calls[d][s] # NoCall}}
                               \cup {NoCall}] :
         /\ \A s \in Slots : IF calls[d][s] = NoCall THEN cs[s] = NoCall
                             ELSE cs[s] \in Remains(calls[d][s])
         /\ calls' = [calls EXCEPT ![d] = cs]
    /\ reader' = [reader EXCEPT ![d] = Unmounted]
    /\ UNCHANGED <<now, server, storage>>

-----------------------------------------------------------------------------
(* Answers.  An unmounted hook still writes localStorage; what it does to  *)
(* its refs nobody sees.                                                   *)

Awaits(d, s, kinds) == calls[d][s] # NoCall /\ calls[d][s].kind \in kinds
                                            /\ calls[d][s].owner # "gone"
Settle(d, s, r) ==
    reader' = IF calls[d][s].owner = "reader" THEN [reader EXCEPT ![d] = r] ELSE reader
Failed(c) == c.phase = "refused"

SaveAnswered(d, s) ==
    LET c == calls[d][s]
        r == reader[d]
    IN  /\ Awaits(d, s, {"save"}) /\ c.phase = "saved"
        /\ Settle(d, s, [ClearPending(r, c.pos) EXCEPT !.lastSaved = c.snap, !.saving = FALSE])
        /\ End(d, s, NoCall)
        /\ Quiet
        /\ UNCHANGED <<now, server, storage>>

(* 409: ask for the position the server has. *)
SaveConflicted(d, s) ==
    LET c == calls[d][s]
    IN  /\ Awaits(d, s, {"save"}) /\ c.phase = "conflict"
        /\ End(d, s, [NewCall("reload", c.book, NoPosition, 0) EXCEPT !.owner = c.owner])
        /\ Quiet
        /\ UNCHANGED <<now, server, reader, storage>>

(* Another ApiError: the position stays pending for the next interval. *)
SaveRefused(d, s) ==
    /\ Awaits(d, s, {"save"}) /\ Failed(calls[d][s])
    /\ Settle(d, s, [reader[d] EXCEPT !.saving = FALSE])
    /\ End(d, s, NoCall)
    /\ Quiet
    /\ UNCHANGED <<now, server, storage>>

(* No answer within the timeout, or no connection: keep the position in    *)
(* localStorage, dated by the device.                                      *)
SaveLost(d, s) ==
    LET c == calls[d][s]
        snap == [pos |-> c.pos, time |-> now + 1, device |-> d]
    IN  /\ Awaits(d, s, {"save"})
        /\ Fault
        /\ now' = now + 1
        /\ staged' = [staged EXCEPT ![d][c.book] = snap]
        /\ queue' = [queue EXCEPT ![d] = Enqueue(@, c.book)]
        /\ Settle(d, s, [ClearPending(reader[d], c.pos) EXCEPT !.lastSaved = snap, !.saving = FALSE])
        /\ \E left \in Remains(c) : End(d, s, left)
        /\ UNCHANGED server

ReloadAnswered(d, s) ==
    LET c == calls[d][s]
    IN  /\ Awaits(d, s, {"reload"}) /\ c.phase = "read"
        /\ Settle(d, s, [applyLoadedProgress(reader[d], c.snap)
                           EXCEPT !.pending = NoPosition, !.saving = FALSE])
        /\ End(d, s, NoCall)
        /\ Quiet
        /\ UNCHANGED <<now, server, storage>>

ReloadFailed(d, s) ==
    /\ Awaits(d, s, {"reload"})
    /\ \/ Failed(calls[d][s]) /\ Quiet
       \/ Fault
    /\ Settle(d, s, [reader[d] EXCEPT !.saving = FALSE])
    /\ End(d, s, NoCall)
    /\ UNCHANGED <<now, server, storage>>

(* loadProgress: the server's position unless the staged one is newer. *)
LoadAnswered(d, s) ==
    LET c == calls[d][s]
        cached == staged[d][c.book]
    IN  /\ Awaits(d, s, {"load"}) /\ c.phase = "read"
        /\ Settle(d, s, applyLoadedProgress(reader[d],
                          IF TimeOf(cached) > TimeOf(c.snap) THEN cached ELSE c.snap))
        /\ End(d, s, NoCall)
        /\ Quiet
        /\ UNCHANGED <<now, server, storage>>

LoadFailed(d, s) ==
    /\ Awaits(d, s, {"load"})
    /\ \/ Failed(calls[d][s]) /\ Quiet
       \/ Fault
    /\ Settle(d, s, applyLoadedProgress(reader[d], staged[d][calls[d][s].book]))
    /\ End(d, s, NoCall)
    /\ UNCHANGED <<now, server, storage>>

(* Only a newer position of another device moves the reader. *)
RefreshAnswered(d, s) ==
    LET c == calls[d][s]
        r == reader[d]
        newer == /\ c.snap # NoSnapshot /\ c.snap.device # d
                 /\ c.snap.time > TimeOf(r.lastSaved)
    IN  /\ Awaits(d, s, {"refresh"}) /\ c.phase = "read"
        /\ Settle(d, s, IF newer THEN applyLoadedProgress(r, c.snap) ELSE r)
        /\ End(d, s, NoCall)
        /\ Quiet
        /\ UNCHANGED <<now, server, storage>>

RefreshFailed(d, s) ==
    /\ Awaits(d, s, {"refresh"})
    /\ \/ Failed(calls[d][s]) /\ Quiet
       \/ Fault
    /\ End(d, s, NoCall)
    /\ UNCHANGED <<now, server, reader, storage>>

(* Saved, or refused with any status: the book's staged progress goes and  *)
(* the loop moves on.                                                      *)
SyncAnswered(d, s) ==
    LET c == calls[d][s]
        store == [staged[d] EXCEPT ![c.book] = NoSnapshot]
        step == SyncStep(queue[d], c.todo, store)
    IN  /\ Awaits(d, s, {"sync"}) /\ (c.phase = "saved" \/ Failed(c))
        /\ staged' = [staged EXCEPT ![d] = store]
        /\ queue' = [queue EXCEPT ![d] = step.queue]
        /\ End(d, s, IF step.call = NoCall THEN NoCall ELSE [step.call EXCEPT !.owner = c.owner])
        /\ Quiet
        /\ UNCHANGED <<now, server, reader>>

(* No connection: the loop stops and writes its queue back. *)
SyncLost(d, s) ==
    LET c == calls[d][s]
    IN  /\ Awaits(d, s, {"sync"})
        /\ Fault
        /\ queue' = [queue EXCEPT ![d] = <<c.book>> \o c.todo]
        /\ \E left \in Remains(c) : End(d, s, left)
        /\ UNCHANGED <<now, server, reader, staged>>

-----------------------------------------------------------------------------
PageNext(d) ==
    \/ \E b \in Books : Open(d, b)
    \/ OpenView(d)
    \/ \E p \in Positions : Relocate(d, p) \/ Turn(d, p)
    \/ Tick(d) \/ Fire(d) \/ Hide(d) \/ Focus(d) \/ Online(d)
    \/ Back(d) \/ Navigate(d) \/ UnloadSave(d) \/ Unload(d)

ServerNext(d, s) == Stamp(d, s) \/ Commit(d, s) \/ Get(d, s)

AnswerNext(d, s) ==
    \/ SaveAnswered(d, s) \/ SaveConflicted(d, s) \/ SaveRefused(d, s) \/ SaveLost(d, s)
    \/ ReloadAnswered(d, s) \/ ReloadFailed(d, s)
    \/ LoadAnswered(d, s) \/ LoadFailed(d, s)
    \/ RefreshAnswered(d, s) \/ RefreshFailed(d, s)
    \/ SyncAnswered(d, s) \/ SyncLost(d, s)

Next ==
    \E d \in Devices :
        \/ PageNext(d)
        \/ \E s \in Slots :
             ServerNext(d, s) \/ Refuse(d, s) \/ AnswerNext(d, s)

(* Timers fire, the view settles after goTo, requests are executed and     *)
(* answered (or time out after 30 s); nothing makes the user act, and      *)
(* nothing makes a request fail.                                           *)
ProgressFairness ==
    \A d \in Devices :
        /\ WF_vars(OpenView(d)) /\ WF_vars(Tick(d)) /\ WF_vars(Fire(d))
        /\ WF_vars(\E p \in Positions : Relocate(d, p))
        /\ \A s \in Slots : WF_vars(ServerNext(d, s)) /\ WF_vars(AnswerNext(d, s))

Spec == ProgressInit /\ events = 0 /\ [][Next]_vars

-----------------------------------------------------------------------------
(* Types; the sync queue of a device names a book at most once             *)
(* (useProgress.ts, `!queue.includes(bookId)`).                            *)
TypeOK ==
    /\ now \in Nat
    /\ server \in [Books -> Snapshots \cup {NoSnapshot}]
    /\ reader \in [Devices ->
         [book : Books \cup {NoBook}, view : {"closed", "loading", "opening", "ready"},
          lastSaved : Snapshots \cup {NoSnapshot}, pending : Positions \cup {NoPosition},
          saving : BOOLEAN, timer : Positions \cup {NoPosition}, applied : Nat,
          moving : Positions \cup {NoPosition}]]
    /\ staged \in [Devices -> [Books -> Snapshots \cup {NoSnapshot}]]
    /\ queue \in [Devices -> Seq(Books)]
    /\ \A d \in Devices : \A i, j \in DOMAIN queue[d] : queue[d][i] = queue[d][j] => i = j
    /\ calls \in [Devices -> [Slots -> Requests \cup {NoCall}]]

(* The saving flag never outlives the saves it stands for: while it is set *)
(* the mounted reader has a save or the reload after a conflict under way. *)
(* A flag left behind would silence the autosave for the rest of the       *)
(* visit.                                                                  *)
SavingHasCall ==
    \A d \in Devices : reader[d].saving =>
        \E s \in Slots : /\ calls[d][s] # NoCall
                         /\ calls[d][s].kind \in {"save", "reload"}
                         /\ calls[d][s].owner = "reader"

(* A position the reader still has to save is dropped only when that very  *)
(* position was saved or staged, or when a conflict's reload answered:     *)
(* never because an older save, sent before the page turn, completed.      *)
PendingKept ==
    [][\A d \in Devices :
         (reader[d].view = "ready" /\ reader'[d].view = "ready"
            /\ reader[d].pending # NoPosition /\ reader'[d].pending = NoPosition)
         => \/ reader'[d].lastSaved.pos = reader[d].pending
            \/ \E s \in Slots : ReloadAnswered(d, s)]_vars

Unsaved(d) == reader[d].pending # NoPosition /\ hasMeaningfulChange(reader[d], reader[d].pending)

(* A position that differs from the saved one is saved, staged or replaced *)
(* by another device's in the end, whatever fails in between, unless the   *)
(* reader is closed first.                                                 *)
PendingSettles ==
    \A d \in Devices : Unsaved(d) ~> (~Unsaved(d) \/ reader[d].view = "closed")

(* Progress staged while offline leaves localStorage only once the server  *)
(* has answered for that position.                                         *)
StagedUntilAnswered ==
    [][\A d \in Devices, b \in Books :
         (staged[d][b] # NoSnapshot /\ staged'[d][b] = NoSnapshot)
         => \E s \in Slots : /\ calls[d][s] # NoCall
                             /\ calls[d][s].kind = "sync" /\ calls[d][s].book = b
                             /\ calls[d][s].pos = staged[d][b].pos]_vars

(* Together: the client's bookkeeping is consistent and loses no position. *)
PositionsSafe == [](TypeOK /\ SavingHasCall) /\ PendingKept

-----------------------------------------------------------------------------
(* Values for the instances that TLC checks; percentages are in half per cent. *)
MCStart == [cfi |-> 1, percentage |-> 0]

(* Two places of the text, less than one per cent apart. *)
MCNearPages == {MCStart, [cfi |-> 2, percentage |-> 1]}

(* Two places, and one of them in another layout. *)
MCPositions == {MCStart, [cfi |-> 1, percentage |-> 1], [cfi |-> 2, percentage |-> 4]}
=============================================================================
