---------------------------- MODULE SpeechPlayer ---------------------------
(***************************************************************************)
(* Reading aloud (frontend/src/hooks/useTTS.ts over class BackendTTS of    *)
(* frontend/src/lib/tts.ts).  Commands of the user, events of the one      *)
(* media element and answers of the speech service interleave; everything  *)
(* between two awaits of the JavaScript is one action.                     *)
(*                                                                         *)
(* An async function waiting at an await is a task.  The code tells a      *)
(* late answer by counters it raises on every command: operationRef,       *)
(* generationRef and playbackRequestId.  Only their equality with the      *)
(* value a task kept matters, so a task carries whether its operation (a   *)
(* fill: its generation) and its request are still current.                *)
(*                                                                         *)
(* The book is ChunkCount chunks of speech; a sentence is one slice and    *)
(* one chunk, numbered in the book and not in the source that reads it,    *)
(* and the locations the code keeps as CFIs are chunk numbers, 0 where     *)
(* there is none.                                                          *)
(***************************************************************************)
EXTENDS ClientEvents, Sequences, SequencesExt, FiniteSets

(***************************************************************************)
(* The audio store of the speech client (frontend/src/lib/tts.ts, class    *)
(* BackendTTS): prefetched audio waiting to be played, the LRU cache of    *)
(* played audio, and the pool that fetches ahead with a bounded number of  *)
(* requests.  Every operator maps a store q to the store after a call, the *)
(* way one synchronous stretch of the JavaScript does.                     *)
(*                                                                         *)
(* Audio is named by its chunk: c for the chunk's SSML, -c for the plain   *)
(* text sent when the service refuses that SSML.  Changing the voice       *)
(* changes every key; the player's model then drops the old audio.         *)
(***************************************************************************)
CONSTANTS
    CacheSize,       \* audioCache: LRUCache(10)
    MaxPreload,      \* maxPreloadCount: 6
    MaxConcurrency   \* maxPreloadConcurrency: 2

ASSUME PoolAssumption ==
    CacheSize \in Nat \ {0} /\ MaxPreload \in Nat \ {0} /\ MaxConcurrency \in Nat \ {0}

EmptyStore ==
    [ready |-> <<>>,     \* preloadedQueue, oldest first
     cache |-> <<>>,     \* audioCache, least recently used first
     waiting |-> <<>>,   \* pendingPreloadTasks
     running |-> <<>>,   \* tasks in runPreloadTask, each with its abort signal
     active |-> 0,       \* activePreloadCount
     cooling |-> FALSE]  \* the provider's Retry-After has not passed

(* Elements of s but its first n. *)
After(s, n) == SubSeq(s, n + 1, Len(s))

HasAudio(q, c) == Contains(q.cache, c) \/ Contains(q.ready, c)

(* preloadPromises: cancelling clears the map, so an aborted task has none. *)
Promised(q) ==
    Range(q.waiting) \cup {q.running[i].chunk : i \in {j \in DOMAIN q.running : ~q.running[j].aborted}}

CacheSet(q, c) ==
    LET grown == Append(RemoveFirst(q.cache, c), c)
    IN  [q EXCEPT !.cache = After(grown, Max({0, Len(grown) - CacheSize}))]

(* pumpPreloadQueue; a task that finds its audio there ends without a request. *)
PumpPreloadQueue(q) ==
    LET n == Max({0, Min({MaxConcurrency - q.active, Len(q.waiting)})})
    IN  [q EXCEPT !.waiting = After(@, n),
                  !.active = @ + n,
                  !.running = @ \o [i \in 1 .. n |-> [chunk |-> q.waiting[i],
                                                      aborted |-> HasAudio(q, q.waiting[i])]]]

Preload(q, c) ==
    IF HasAudio(q, c) \/ c \in Promised(q) THEN q
    ELSE PumpPreloadQueue([q EXCEPT !.waiting = Append(@, c)])

PreloadMultiple(q, chunks) ==
    LET valid(n) == {i \in 1 .. n : ~HasAudio(q, chunks[i])}
        toPreload(n) == n \in valid(n) /\ Cardinality(valid(n)) <= MaxPreload - Len(q.ready)
        after[n \in 0 .. Len(chunks)] ==
            IF n = 0 THEN q
            ELSE IF toPreload(n) THEN Preload(after[n - 1], chunks[n]) ELSE after[n - 1]
    IN  after[Len(chunks)]

(* runPreloadTask ends: the audio is kept unless the task was aborted or the request failed. *)
PreloadEnds(q, i, ok) ==
    LET task == q.running[i]
        kept == IF ok /\ ~task.aborted THEN Append(q.ready, task.chunk) ELSE q.ready
    IN  PumpPreloadQueue(
            [q EXCEPT !.ready = After(kept, Max({0, Len(kept) - MaxPreload})),
                      !.running = RemoveAt(@, i),
                      !.active = Max({0, @ - 1})])

(* Mutant: the pool forgets the requests it aborts. *)
CancelAllPreloadsForgets(q) ==
    [q EXCEPT !.waiting = <<>>, !.active = 0,
              !.running = [i \in DOMAIN @ |-> [@[i] EXCEPT !.aborted = TRUE]]]

CancelAllPreloads(q) ==
    [q EXCEPT !.waiting = <<>>,
              !.running = [i \in DOMAIN @ |-> [@[i] EXCEPT !.aborted = TRUE]]]

ClearPreloadQueueOnly(q) == [CancelAllPreloads(q) EXCEPT !.ready = <<>>]

ClearPreload(q) == [ClearPreloadQueueOnly(q) EXCEPT !.cache = <<>>]

-----------------------------------------------------------------------------
(* The player. *)
CONSTANTS
    ChunkCount,     \* chunks of speech in the book
    BufferChunks,   \* TTS_BUFFER_SECONDS / TTS_CHUNK_SECONDS: 2
    MaxRetries      \* retries of retryTTSRequest: 2

ASSUME PlayerAssumption ==
    ChunkCount \in Nat \ {0} /\ BufferChunks \in Nat \ {0} /\ MaxRetries \in Nat

VARIABLES
    player,   \* BackendTTS and its media element
    hook,     \* the refs and the state of useTTS
    tasks,    \* async functions waiting at an await
    pool      \* the audio store

speechVars == <<player, hook, tasks, pool, events>>

Chunks == 1 .. ChunkCount

(* Where playChunk waits: own prefetch, own request, audio.play(), the back-off. *)
PlaySteps == {"prefetch", "fetch", "start", "retry"}

Task == [kind : {"begin", "advance", "resume", "jump", "fill"},
         at : PlaySteps \cup {"read", "fillWait", "previous", "adjacent", "unpause", "inner", "lock"},
         chunk : 0 .. ChunkCount + 1,
         tries : 0 .. MaxRetries,
         plain : BOOLEAN,   \* the fallback to plain text has been used
         back : BOOLEAN,    \* a jump: to the previous sentence
         inner : BOOLEAN,   \* an advance that resume awaits
         holds : BOOLEAN,   \* advancingRef or resumingRef still names this task's operation
         live : BOOLEAN,    \* its operation (a fill: its generation) is current
         own : BOOLEAN,     \* the source it reads is sourceRef.current
         req : BOOLEAN]     \* its playbackRequestId is current

NewTask(kind, at, c) ==
    [kind |-> kind, at |-> at, chunk |-> c, tries |-> 0, plain |-> FALSE, back |-> FALSE,
     inner |-> FALSE, holds |-> FALSE, live |-> TRUE, own |-> TRUE, req |-> TRUE]

(* Player, hook, tasks and pool keep their types. *)
SpeechTypeOK ==
    /\ player \in [state : {"stopped", "playing", "paused"},
                   wants : BOOLEAN,        \* wantsPlayback
                   replacing : BOOLEAN,    \* replacingSource
                   triggered : BOOLEAN,    \* preloadTriggered
                   element : {"none", "starting", "sounding", "paused", "ended", "error"},
                   chunk : 0 .. ChunkCount,  \* the element's source
                   fresh : BOOLEAN,        \* audioSpeechId = speechId
                   endEvent : BOOLEAN,     \* an "ended" event is queued
                   focus : {"none", "narration", "preview"}]   \* owner of the audio focus lease
    /\ hook \in [intent : BOOLEAN,         \* shouldResumeOnForegroundRef
                 base : 0 .. ChunkCount + 1, \* sourceRef: its first sentence, 0 for no source
                 end : 0 .. ChunkCount,      \* the last chunk the source can give
                 current : 0 .. ChunkCount,  \* currentChunkRef
                 pending : Seq(Chunks),    \* pendingRef
                 preparing : BOOLEAN,
                 prompt : BOOLEAN,         \* resumePromptVisible
                 mark : 0 .. ChunkCount,   \* currentMarkRef
                 saved : 0 .. ChunkCount + 1, \* the stored session's location
                 view : 1 .. ChunkCount + 1,  \* the reader's location
                 sleep : {"off", "armed", "due"}]
    /\ tasks \subseteq Task
    /\ pool.active \in 0 .. MaxConcurrency

SpeechInit ==
    /\ player = [state |-> "stopped", wants |-> FALSE, replacing |-> FALSE, triggered |-> FALSE,
                 element |-> "none", chunk |-> 0, fresh |-> FALSE, endEvent |-> FALSE, focus |-> "none"]
    /\ \E v \in {1, ChunkCount + 1} :
         hook = [intent |-> FALSE, base |-> 0, end |-> ChunkCount, current |-> 0, pending |-> <<>>,
                 preparing |-> FALSE, prompt |-> FALSE, mark |-> 0, saved |-> 0, view |-> v, sleep |-> "off"]
    /\ tasks = {}
    /\ pool = EmptyStore

(***************************************************************************)
(* A call maps the whole state S to the state after it.                    *)
(***************************************************************************)
Now == [player |-> player, hook |-> hook, tasks |-> tasks, pool |-> pool]

Become(S) == player' = S.player /\ hook' = S.hook /\ tasks' = S.tasks /\ pool' = S.pool

Silenced(element) == IF element \in {"starting", "sounding"} THEN "paused" ELSE element

(* ++operationRef; a fill goes by its generation. *)
NewOperation(T) == {IF t.kind = "fill" THEN t ELSE [t EXCEPT !.live = FALSE] : t \in T}

(* ++generationRef *)
NewGeneration(T) == {IF t.kind = "fill" THEN [t EXCEPT !.live = FALSE] ELSE t : t \in T}

(* ++playbackRequestId *)
NewPlayback(T) == {[t EXCEPT !.req = FALSE] : t \in T}

(* sourceRef = null *)
NewSource(T) == {[t EXCEPT !.own = FALSE] : t \in T}

(* advancingRef = resumingRef = null *)
Release(T) == {[t EXCEPT !.holds = FALSE] : t \in T}

Advancing(T) == \E t \in T : t.kind = "advance" /\ t.holds
Resuming(T) == \E t \in T : t.kind = "resume" /\ t.holds
Filling(T) == \E t \in T : t.kind = "fill" /\ t.live
Retrying(T) == \E t \in T : t.live /\ t.at \in PlaySteps   \* retryControllerRef.current

HasCurrentAudio(p) == p.fresh /\ p.element \in {"starting", "sounding", "paused"}
HasEnded(p) == p.fresh /\ p.element = "ended"
NeedsResume(p) == p.fresh /\ p.element = "paused"

BackendPause(S) ==
    [S EXCEPT !.player = [S.player EXCEPT !.wants = FALSE, !.replacing = FALSE, !.state = "paused",
                                          !.element = Silenced(@),
                                          !.focus = IF @ = "narration" THEN "none" ELSE @],
              !.tasks = NewPlayback(@)]

BackendStop(S) ==
    [S EXCEPT !.player = [state |-> "stopped", wants |-> FALSE, replacing |-> FALSE, triggered |-> FALSE,
                          element |-> "none", chunk |-> 0, fresh |-> FALSE, endEvent |-> FALSE,
                          focus |-> IF S.player.focus = "narration" THEN "none" ELSE S.player.focus],
              !.tasks = NewPlayback(@)]

(* saveTTSSession(true): the spoken mark, else the reader's location. *)
FlushSession(S) ==
    [S EXCEPT !.hook = [@ EXCEPT !.saved = IF S.hook.mark # 0 THEN S.hook.mark ELSE S.hook.view]]

ResetBuffer(S) ==
    LET B == BackendStop(S)
    IN  [B EXCEPT !.hook = [@ EXCEPT !.preparing = FALSE, !.base = 0, !.current = 0, !.pending = <<>>],
                  !.tasks = NewSource(Release(NewGeneration(NewOperation(@)))),
                  !.pool = ClearPreloadQueueOnly(@)]

Stop(S) ==
    LET R == ResetBuffer(S)
    IN  [R EXCEPT !.hook = [@ EXCEPT !.intent = FALSE, !.sleep = "off", !.saved = 0,
                                     !.prompt = FALSE, !.mark = 0]]

Pause(S) ==
    LET B == BackendPause(S)
        H == [B EXCEPT !.hook = [@ EXCEPT !.preparing = FALSE, !.intent = FALSE, !.prompt = FALSE],
                       !.tasks = Release(NewOperation(@))]
    IN  FlushSession(H)

(* backendTTS.pause() and the resume prompt: how every failed operation ends. *)
Interrupt(S) == [BackendPause(S) EXCEPT !.hook = [@ EXCEPT !.prompt = TRUE]]

(***************************************************************************)
(* Playing one chunk.  t is the task that plays it, not in S.tasks.        *)
(***************************************************************************)
Key(t) == IF t.plain THEN - t.chunk ELSE t.chunk

PlayAudio(S, t) ==
    [S EXCEPT !.player = [@ EXCEPT !.chunk = t.chunk, !.fresh = TRUE, !.element = "starting",
                                   !.endEvent = FALSE],
              !.pool = CacheSet(@, Key(t)),
              !.tasks = @ \cup {[t EXCEPT !.at = "start"]}]

(* The prefetched or cached audio, else a request of its own. *)
TakeAudio(S, t) ==
    LET T == [S EXCEPT !.pool = [S.pool EXCEPT !.ready = RemoveFirst(@, Key(t))]]
    IN  IF HasAudio(S.pool, Key(t)) THEN PlayAudio(T, t)
        ELSE [S EXCEPT !.tasks = @ \cup {[t EXCEPT !.at = "fetch"]}]

Speak(S, t) ==
    LET u == [t EXCEPT !.req = TRUE]
        B == [S EXCEPT !.player = [S.player EXCEPT !.focus = "narration", !.wants = TRUE, !.fresh = FALSE,
                                                   !.triggered = FALSE, !.replacing = TRUE,
                                                   !.element = Silenced(@)],
                       !.tasks = NewPlayback(@)]
    IN  IF ~Contains(S.pool.cache, Key(t)) /\ Key(t) \in Promised(S.pool)
        THEN [B EXCEPT !.tasks = @ \cup {[u EXCEPT !.at = "prefetch"]}]
        ELSE TakeAudio(B, u)

PlayChunk(S, t, c) ==
    LET P == [S EXCEPT !.hook = [@ EXCEPT !.current = c, !.preparing = TRUE]]
    IN  IF S.hook.sleep = "due" THEN Stop(P)
        ELSE Speak(P, [t EXCEPT !.chunk = c, !.tries = 0, !.plain = FALSE])

(* The finally of playChunk: the task ends. *)
Leave(S, t) == [S EXCEPT !.hook = [S.hook EXCEPT !.preparing = @ /\ ~t.live]]

(* speak's catch, then retryTTSRequest and the catch of playChunk. *)
SpeakFails(S, t, kind) ==
    LET F == [S EXCEPT !.player = [@ EXCEPT !.replacing = FALSE, !.state = "paused"]]
    IN  CASE kind = "retry" /\ t.tries < MaxRetries ->
               [F EXCEPT !.tasks = @ \cup {[t EXCEPT !.at = "retry", !.tries = @ + 1]}]
          [] kind = "invalid" /\ ~t.plain ->
               IF F.hook.sleep = "due" THEN Stop(F)
               ELSE Speak(F, [t EXCEPT !.plain = TRUE, !.tries = 0])
          [] OTHER -> Leave(Interrupt(FlushSession(F)), t)

(***************************************************************************)
(* The buffer of chunks after the current one.                             *)
(***************************************************************************)
FollowingChunk(h) == (IF h.pending = <<>> THEN h.current ELSE Last(h.pending)) + 1

(* One turn of the loop in fill, up to its await or to its end. *)
FillTurn(S) ==
    IF Len(S.hook.pending) < BufferChunks
    THEN [S EXCEPT !.tasks = @ \cup {NewTask("fill", "read", FollowingChunk(S.hook))}]
    ELSE [S EXCEPT !.pool = PreloadMultiple(@, S.hook.pending)]

PreloadBuffer(S) ==
    IF S.hook.base = 0 \/ S.hook.current = 0 \/ Filling(S.tasks) THEN S ELSE FillTurn(S)

(***************************************************************************)
(* Moving on.                                                              *)
(***************************************************************************)
AdvanceTake(S, t) ==
    IF S.hook.pending # <<>>
    THEN PlayChunk([S EXCEPT !.hook = [S.hook EXCEPT !.pending = Tail(@)]], t, Head(S.hook.pending))
    ELSE [S EXCEPT !.tasks = @ \cup {[t EXCEPT !.at = "read", !.chunk = S.hook.current + 1]}]

Advance(S, inner) ==
    LET t == [NewTask("advance", "fillWait", 0) EXCEPT !.inner = inner, !.holds = TRUE]
    IN  IF Advancing(S.tasks) \/ ~S.hook.intent THEN S
        ELSE IF S.hook.sleep = "due" THEN Stop(S)
        ELSE IF S.hook.pending = <<>> /\ Filling(S.tasks) THEN [S EXCEPT !.tasks = @ \cup {t}]
        ELSE AdvanceTake(S, t)

(* A new source from chunk c: its first chunk is awaited. *)
Begin(S, c) ==
    LET R == ResetBuffer(S)
    IN  [R EXCEPT !.hook = [@ EXCEPT !.intent = TRUE, !.base = c, !.end = ChunkCount, !.preparing = TRUE],
                  !.tasks = @ \cup {NewTask("begin", "read", c)}]

StartLocation(h) == IF h.saved # 0 THEN h.saved ELSE h.view

(* resume after its await: the prompt goes, the wake lock is awaited. *)
AfterResume(S, t) ==
    IF t.live /\ S.player.state = "playing"
    THEN [S EXCEPT !.hook = [@ EXCEPT !.prompt = FALSE], !.tasks = @ \cup {[t EXCEPT !.at = "lock"]}]
    ELSE S

(* The element plays or is about to: no play() is called, and what starts it answers to nobody. *)
BackendResume(S, t) ==
    LET R == [S EXCEPT !.player = [@ EXCEPT !.focus = "narration", !.wants = TRUE],
                       !.tasks = NewPlayback(@)]
    IN  IF S.player.element = "paused"
        THEN [R EXCEPT !.player = [@ EXCEPT !.element = "starting"],
                       !.tasks = @ \cup {[t EXCEPT !.at = "unpause"]}]
        ELSE AfterResume([R EXCEPT !.player = [@ EXCEPT !.state = "playing"]], t)

(* Mutant: a resume that plays the current chunk again although it has ended. *)
ResumeReplays(S) ==
    LET O == [S EXCEPT !.hook = [@ EXCEPT !.intent = TRUE], !.tasks = NewOperation(@)]
        t == [NewTask("resume", "inner", 0) EXCEPT !.holds = TRUE]
    IN  IF Resuming(S.tasks) THEN S
        ELSE IF HasCurrentAudio(S.player) THEN BackendResume(O, t)
        ELSE IF S.hook.current # 0 THEN PlayChunk(O, t, S.hook.current)
        ELSE Begin(S, StartLocation(S.hook))

Resume(S) ==
    LET W == [S EXCEPT !.hook = [@ EXCEPT !.intent = TRUE]]
        O == [W EXCEPT !.tasks = NewOperation(@)]
        t == [NewTask("resume", "inner", 0) EXCEPT !.holds = TRUE]
        p == S.player
    IN  IF Resuming(S.tasks) THEN S
        ELSE IF S.hook.sleep = "due" THEN Stop(S)
        ELSE IF p.state = "playing" /\ ~NeedsResume(p) /\ ~HasEnded(p) THEN W
        ELSE IF HasCurrentAudio(p) THEN BackendResume(O, t)
        ELSE IF HasEnded(p) THEN Advance([O EXCEPT !.tasks = @ \cup {t}], TRUE)
        ELSE IF S.hook.current # 0 THEN PlayChunk(O, t, S.hook.current)
        ELSE Begin(W, StartLocation(S.hook))

(* What follows playChunk in the function that awaited it. *)
PlayDone(S, t) ==
    IF ~t.live \/ ~S.hook.intent THEN Leave(S, t)
    ELSE LET P == PreloadBuffer([S EXCEPT !.hook = [@ EXCEPT !.prompt = FALSE, !.preparing = FALSE]])
         IN  IF t.kind = "resume" THEN AfterResume(P, t) ELSE P

(***************************************************************************)
(* Answers the tasks wait for.                                             *)
(***************************************************************************)
Take(t) == [Now EXCEPT !.tasks = @ \ {t}]

(* source.chunk(0) of begin: nothing to read stops the narration. *)
BeginRead(t) ==
    /\ t.kind = "begin" /\ t.at = "read"
    /\ Become(IF ~t.live \/ ~hook.intent THEN Leave(Take(t), t)
              ELSE IF t.chunk > hook.end THEN Stop(Take(t))
              ELSE PlayChunk(Take(t), t, t.chunk))

FillWaitEnds(t) ==
    /\ t.at = "fillWait" /\ ~Filling(tasks)
    /\ Become(IF t.live /\ hook.intent THEN AdvanceTake(Take(t), t) ELSE Take(t))

AdvanceRead(t) ==
    /\ t.kind = "advance" /\ t.at = "read"
    /\ Become(IF ~t.live \/ ~hook.intent THEN Take(t)
              ELSE IF t.chunk > hook.end THEN Stop(Take(t))
              ELSE PlayChunk(Take(t), t, t.chunk))

(***************************************************************************)
(* The source throws, when a section cannot be opened: begin, advance and  *)
(* jump offer to go on, fill gives up, an overtaken read does nothing.     *)
(* The generator behind the source is then finished, whoever read, so the  *)
(* later reads of that source find the end of the book.                    *)
(***************************************************************************)
ReadFails(t) ==
    LET missing == CASE t.at = "read" -> t.chunk
                     [] t.at = "adjacent" -> hook.current + 1
                     [] OTHER -> hook.end + 1
        F == [Take(t) EXCEPT !.hook = [@ EXCEPT !.end = IF ~t.own THEN hook.end
                                                        ELSE IF missing > hook.current THEN missing - 1
                                                        ELSE hook.current]]
    IN  /\ t.at \in {"read", "previous", "adjacent"}
        /\ Become(IF ~t.live \/ t.kind = "fill" THEN F
                  ELSE IF t.kind = "jump" THEN [F EXCEPT !.hook = [@ EXCEPT !.prompt = TRUE]]
                  ELSE IF t.kind = "begin" THEN Leave(Interrupt(F), t)
                  ELSE Interrupt(F))

FillRead(t) ==
    /\ t.kind = "fill"
    /\ Become(IF ~t.live THEN Take(t)
              ELSE IF t.chunk > hook.end
              THEN [Take(t) EXCEPT !.pool = PreloadMultiple(@, hook.pending)]
              ELSE FillTurn([Take(t) EXCEPT !.hook = [hook EXCEPT !.pending = Append(@, t.chunk)]]))

PrefetchSettles(t) ==
    /\ t.at = "prefetch" /\ (t.req => Key(t) \notin Promised(pool))
    /\ Become(IF t.req THEN TakeAudio(Take(t), t) ELSE Leave(Take(t), t))

(* Mutant: an answer played without the check of its request. *)
FetchAnswersLate(t) ==
    /\ t.at = "fetch" /\ ~pool.cooling
    /\ Become(PlayAudio(Take(t), t))

FetchAnswers(t) ==
    /\ t.at = "fetch" /\ (t.req => ~pool.cooling)
    /\ Become(IF t.req THEN PlayAudio(Take(t), t) ELSE Leave(Take(t), t))

(* An error answer; a provider that asks to wait fails every request until then. *)
FetchFails(t) ==
    /\ t.at = "fetch" /\ t.req
    /\ \E kind \in {"retry", "invalid", "permanent"}, cooling \in BOOLEAN :
         /\ pool.cooling => kind # "invalid" /\ cooling
         /\ cooling => kind # "invalid"
         /\ Become(SpeakFails([Take(t) EXCEPT !.pool = [@ EXCEPT !.cooling = cooling]], t, kind))

(* audio.play() resolves, after the onplay event. *)
PlayStarts(t) ==
    /\ t.at = "start" /\ (t.req => player.element = "starting")
    /\ Become(IF ~t.req THEN Leave(Take(t), t)
              ELSE PlayDone([Take(t) EXCEPT
                       !.player = [@ EXCEPT !.element = "sounding", !.replacing = FALSE, !.state = "playing"],
                       !.hook = [@ EXCEPT !.mark = player.chunk, !.saved = player.chunk]], t))

(* audio.play() is refused, or the audio cannot be decoded. *)
PlayRefused(t) ==
    /\ t.at = "start" /\ t.req /\ player.element = "starting"
    /\ \E element \in {"paused", "error"} :
         Become(SpeakFails([Take(t) EXCEPT !.player = [@ EXCEPT !.element = element]], t, "permanent"))

RetryElapses(t) ==
    /\ t.at = "retry" /\ (t.live => ~pool.cooling)
    /\ Become(IF t.live THEN Speak(Take(t), t) ELSE Leave(Take(t), t))

(* The await of backendTTS.resume(); a cancelled one is reported like a failure. *)
Unpauses(t) ==
    /\ t.at = "unpause" /\ (t.req => player.element = "starting")
    /\ Become(IF t.req
              THEN AfterResume([Take(t) EXCEPT !.player = [@ EXCEPT !.element = "sounding", !.state = "playing"]], t)
              ELSE IF t.live THEN Interrupt(Take(t)) ELSE Take(t))

UnpauseRefused(t) ==
    /\ t.at = "unpause" /\ t.req /\ player.element = "starting"
    /\ LET R == [Take(t) EXCEPT !.player = [@ EXCEPT !.element = "paused"]]
       IN  Become(IF t.live THEN Interrupt(R) ELSE R)

ResumeAfterAdvance(t) ==
    /\ t.at = "inner" /\ ~\E u \in tasks : u.inner
    /\ Become(AfterResume(Take(t), t))

LockSettles(t) ==
    /\ t.at = "lock"
    /\ Become(Take(t))

(* getTTSPreviousCFI: the sentence before the source's first, if the book has one. *)
JumpPrevious(t) ==
    /\ t.at = "previous"
    /\ Become(IF ~t.live THEN Take(t)
              ELSE IF hook.mark > 1 THEN Begin(Take(t), hook.mark - 1)
              ELSE [Take(t) EXCEPT !.tasks = @ \cup {[t EXCEPT !.at = "adjacent"]}])

(* adjacentSentenceIndex; at the end of the book the narration stops.  The second lookup  *)
(* of the previous sentence is for a mark in a later slice of the source's first sentence. *)
JumpAdjacent(t) ==
    LET index == IF hook.mark # 0 THEN hook.mark ELSE hook.current
        target == IF ~t.back THEN index + 1 ELSE IF index > hook.base THEN index - 1 ELSE index
    IN  /\ t.at = "adjacent"
        /\ Become(IF ~t.live THEN Take(t)
                  ELSE IF target > hook.end /\ ~t.back THEN Stop(Take(t))
                  ELSE [Take(t) EXCEPT !.tasks = @ \cup {[t EXCEPT !.at = "read", !.chunk = target]}])

JumpRead(t) ==
    /\ t.kind = "jump" /\ t.at = "read"
    /\ Become(IF ~t.live THEN Take(t)
              ELSE IF t.chunk > hook.end THEN Stop(Take(t))
              ELSE PlayChunk(Take(t), t, t.chunk))

(***************************************************************************)
(* Events of the media element and of the page.                            *)
(***************************************************************************)
OnPlay ==
    /\ player.element = "starting" /\ player.wants /\ player.state # "playing"
    /\ Become([Now EXCEPT !.player = [@ EXCEPT !.replacing = FALSE, !.state = "playing"],
                          !.hook = [@ EXCEPT !.mark = player.chunk, !.saved = player.chunk]])

(* Nobody awaits the play() that started the element: a resume took its place. *)
StartsAlone ==
    player.element = "starting" /\ ~\E t \in tasks : t.req /\ t.at \in {"start", "unpause"}

PlaysOn ==
    /\ StartsAlone
    /\ Become([Now EXCEPT !.player = [@ EXCEPT !.element = "sounding", !.replacing = FALSE, !.state = "playing"],
                          !.hook = [@ EXCEPT !.mark = player.chunk, !.saved = player.chunk]])

AudioEnds ==
    /\ player.element = "sounding"
    /\ player' = [player EXCEPT !.element = "ended", !.endEvent = TRUE]
    /\ UNCHANGED <<hook, tasks, pool>>

OnEnded ==
    /\ player.endEvent
    /\ LET E == [Now EXCEPT !.player = [@ EXCEPT !.endEvent = FALSE, !.triggered = FALSE]]
       IN  Become(IF player.state = "playing" THEN Advance(E, FALSE) ELSE E)

OnError ==
    /\ player.element = "sounding" \/ StartsAlone
    /\ player' = [player EXCEPT !.element = "error", !.replacing = FALSE, !.state = "paused"]
    /\ UNCHANGED <<hook, tasks, pool>>

(* The system pauses the element; its event may come later. *)
SystemPauses ==
    /\ player.element = "sounding"
    /\ player' = [player EXCEPT !.element = "paused"]
    /\ UNCHANGED <<hook, tasks, pool>>

OnPause ==
    /\ player.element = "paused" /\ ~player.replacing /\ player.state = "playing"
    /\ player' = [player EXCEPT !.state = "paused"]
    /\ UNCHANGED <<hook, tasks, pool>>

OnTimeUpdate ==
    /\ player.element = "sounding"
    /\ player.triggered => hook.sleep = "due"
    /\ LET T == PreloadBuffer([Now EXCEPT !.player = [@ EXCEPT !.triggered = TRUE]])
       IN  Become(IF hook.sleep = "due" THEN Stop(Now) ELSE T)

(* visibilitychange, focus, pageshow, resume, or a touch while the prompt shows.  The place *)
(* is written at once only when the last write is two seconds old; what the timer writes    *)
(* otherwise is the place a new source would start from all the same (SpeechSession).       *)
ForegroundResume ==
    /\ hook.intent /\ ~Retrying(tasks)
    /\ hook.sleep = "due" \/ NeedsResume(player) \/ player.state = "paused" \/ HasEnded(player)
    /\ \E written \in BOOLEAN :
         Become(IF hook.sleep = "due" THEN Stop(Now)
                ELSE Resume(IF written THEN FlushSession(Now) ELSE Now))

(* Another voice is tried out: it takes the audio focus (claimTTSAudioFocus). *)
PreviewPlays ==
    /\ player.focus # "preview"
    /\ LET P == IF player.focus = "narration" THEN BackendPause(Now) ELSE Now
       IN  Become([P EXCEPT !.player = [@ EXCEPT !.focus = "preview"]])

PreviewEnds ==
    /\ player.focus = "preview"
    /\ player' = [player EXCEPT !.focus = "none"]
    /\ UNCHANGED <<hook, tasks, pool>>

SleepDue ==
    /\ hook.sleep = "armed"
    /\ hook' = [hook EXCEPT !.sleep = "due"]
    /\ UNCHANGED <<player, tasks, pool>>

SleepFires ==
    /\ hook.sleep = "due"
    /\ Become(Stop(Now))

CooldownEnds ==
    /\ pool.cooling
    /\ pool' = [pool EXCEPT !.cooling = FALSE]
    /\ UNCHANGED <<player, hook, tasks>>

PreloadTaskEnds ==
    /\ \E i \in DOMAIN pool.running, ok \in BOOLEAN :
         /\ ok => ~pool.cooling
         /\ pool' = PreloadEnds(pool, i, ok)
    /\ UNCHANGED <<player, hook, tasks>>

(***************************************************************************)
(* Commands of the user, of the panel and of the lock screen.              *)
(***************************************************************************)
(* The play button: start of useTTS. *)
StartPressed ==
    /\ Become(IF hook.preparing \/ (player.state = "playing" /\ ~NeedsResume(player)) THEN Pause(Now)
              ELSE IF player.state = "paused" \/ hook.current # 0 THEN Resume(Now)
              ELSE Begin(Now, StartLocation(hook)))

MediaPlay == Become(Resume(Now))

MediaPause == Become(Pause(Now))

StopPressed == Become(Stop(Now))

Jump(back) ==
    /\ hook.base # 0 /\ hook.current # 0
    /\ LET B == FlushSession(BackendPause(Now))
           at == IF back /\ hook.mark # 0 /\ hook.mark <= hook.base THEN "previous" ELSE "adjacent"
           t == [NewTask("jump", at, 0) EXCEPT !.back = back]
       IN  Become([B EXCEPT !.hook = [@ EXCEPT !.intent = TRUE, !.pending = <<>>],
                            !.tasks = Release(NewGeneration(NewOperation(@))) \cup {t},
                            !.pool = ClearPreloadQueueOnly(@)])

(* updateSettings with another voice, rate or style: all audio is of the old one. *)
ChangeVoice ==
    /\ LET F == [FlushSession(Now) EXCEPT !.pool = ClearPreload(@)]
       IN  Become(IF hook.intent THEN Begin(F, StartLocation(F.hook))
                  ELSE IF player.state = "paused" THEN BackendPause(ResetBuffer(F))
                  ELSE F)

SetSleepTimer ==
    /\ hook' = [hook EXCEPT !.sleep = "armed"]
    /\ UNCHANGED <<player, tasks, pool>>

(***************************************************************************)
(* The reader closes: the cleanup of useTTS, then the one of the controls, *)
(* which stops the speech and with it removes the stored session.          *)
(***************************************************************************)
CloseReader ==
    LET R == ResetBuffer(FlushSession(Now))
    IN  Become(Stop([R EXCEPT !.pool = ClearPreload(@)]))

TaskStep(t) ==
    \/ BeginRead(t) \/ FillWaitEnds(t) \/ AdvanceRead(t) \/ FillRead(t)
    \/ PrefetchSettles(t) \/ FetchAnswers(t) \/ PlayStarts(t) \/ RetryElapses(t)
    \/ Unpauses(t) \/ ResumeAfterAdvance(t) \/ LockSettles(t)
    \/ JumpPrevious(t) \/ JumpAdjacent(t) \/ JumpRead(t)

TaskFails(t) == ReadFails(t) \/ FetchFails(t) \/ PlayRefused(t) \/ UnpauseRefused(t)

Command ==
    \/ StartPressed \/ MediaPlay \/ MediaPause \/ StopPressed
    \/ Jump(TRUE) \/ Jump(FALSE) \/ ChangeVoice \/ SetSleepTimer \/ CloseReader

PageEvent ==
    \/ SystemPauses \/ OnError \/ ForegroundResume \/ PreviewPlays \/ PreviewEnds
    \/ SleepDue \/ SleepFires

ElementEvent == OnPlay \/ PlaysOn \/ AudioEnds \/ OnEnded \/ OnPause \/ OnTimeUpdate

(* The user, the service and the system act at most MaxEvents times. *)
SpeechNext ==
    \/ Internal /\ ((\E t \in tasks : TaskStep(t)) \/ ElementEvent \/ CooldownEnds \/ PreloadTaskEnds)
    \/ External /\ (Command \/ PageEvent \/ \E t \in tasks : TaskFails(t))

SpeechSpec == SpeechInit /\ events = 0 /\ [][SpeechNext]_speechVars

(* Requests are answered or time out, audio plays to its end. *)
FairSpeech ==
    /\ SpeechSpec
    /\ WF_speechVars((\E t \in tasks : TaskStep(t)) /\ Internal)
    /\ WF_speechVars((PlaysOn \/ AudioEnds \/ OnEnded) /\ Internal)
    /\ WF_speechVars((CooldownEnds \/ PreloadTaskEnds) /\ Internal)

(***************************************************************************)
(* Properties                                                              *)
(***************************************************************************)

(* Nothing is heard, or about to be heard, unless the user wants it and the *)
(* narration owns the audio focus: an answer that comes after a pause, a    *)
(* stop or a jump starts no sound (tts.ts, the checks of playbackRequestId).*)
NoGhostSpeech ==
    player.element \in {"starting", "sounding"} =>
        player.wants /\ hook.intent /\ player.focus = "narration"

(* The buffered chunks are the ones that follow the current chunk, in order: *)
(* fills, advances and jumps that interleave lose and repeat none            *)
(* (useTTS.ts, preloadBuffer, advance and jump).                             *)
BufferFollows == \A i \in DOMAIN hook.pending : hook.pending[i] = hook.current + i

(* The prefetch pool counts exactly the requests that run, aborted ones that *)
(* have not ended included, and leaves no slot idle while a task waits       *)
(* (tts.ts, pumpPreloadQueue and cancelAllPreloads).                         *)
PoolBalanced ==
    /\ pool.active = Len(pool.running)
    /\ pool.active <= MaxConcurrency
    /\ pool.waiting # <<>> => pool.active = MaxConcurrency
    /\ Len(pool.ready) <= MaxPreload

(* The player reads the book in order: it implements Narration. *)
Narrated ==
    INSTANCE Narration WITH
        place <- IF HasEnded(player) THEN hook.current + 1 ELSE hook.current,
        sounding <- (player.element = "sounding"),
        asked <- \E t \in tasks : t.live /\ t.kind \in {"begin", "jump"} /\ t.at \notin PlaySteps

(* Whatever answers, events and commands interleave, the narration skips and *)
(* repeats no chunk that the user did not ask to skip or repeat (useTTS.ts). *)
ReadsInOrder == Narrated!Spec

(* Audio that ends while reading is followed by the next chunk, by an interruption *)
(* that is shown, or by the end of the reading (useTTS.ts, advance), as            *)
(* docs/tts-background-playback.md says: "A natural end also fires a `pause`       *)
(* event. The player distinguishes it using the actual element's `ended` state,    *)
(* then continues to the next chunk."  The code does not keep it: a resume that    *)
(* comes while advance reads raises operationRef, its own advance finds the old    *)
(* one under way and does nothing, and the old one then gives up.                  *)
EndGoesOn ==
    (player.endEvent /\ player.state = "playing" /\ hook.intent)
        ~> (~HasEnded(player) \/ ~hook.intent \/ player.state # "playing")

(* Together: what sounds is wanted, and what is buffered comes next. *)
PlayerSafe == SpeechTypeOK /\ NoGhostSpeech /\ BufferFollows
=============================================================================
