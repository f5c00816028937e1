---------------------------- MODULE SpeechBuffer ----------------------------
(***************************************************************************)
(* The text queue of reading aloud: class TTSSpeechBuffer of               *)
(* frontend/src/lib/tts-batch.ts.  Sentences come from an asynchronous     *)
(* source, long ones are cut into slices, and the slices get absolute      *)
(* indexes under which chunk() and adjacentSentenceIndex() find them.  The *)
(* calls run one after the other (the promise chain `reading`); dispose()  *)
(* and a failing source may come at any await between them.                *)
(*                                                                         *)
(* Text is counted in characters and a character is one second of speech.  *)
(* A sentence is [len, skip, weight, shell, over, words, runs]: skipped if *)
(* nothing in it can be read; `weight` bytes for a character and `shell`   *)
(* bytes of markup around any slice; `over` its pronunciation overrides    *)
(* [start, end, secs]; `words` and `runs` its words and text nodes as      *)
(* [start, end] in order, the runs without gaps.                           *)
(***************************************************************************)
EXTENDS ClientEvents, Sequences, FiniteSetsExt

CONSTANTS
    Books,        \* the sequences of sentences there are to read
    MaxSlice,     \* MAX_SLICE_SECONDS
    Targets,      \* the target seconds a caller may ask for
    Window,       \* 64: where the search for the end of a slice begins
    Keep,         \* 256: slices of history
    SmallBytes,   \* 512: markup up to this size needs no slicing
    MaxBytes,     \* MAX_CHUNK_BYTES
    Envelope      \* ENVELOPE_BYTES

VARIABLES
    book,     \* what the source yields
    buffer,   \* base, slices, read (sentences taken), pending, done, dead, disposed
    calls,    \* the promise chain; its head runs
    given     \* what callers have: slices by index, where to go on, the last chunk and jump

bufferVars == <<book, buffer, calls, given, events>>

ASSUME BufferAssumption ==
    /\ MaxSlice \in Nat \ {0} /\ Window \in Nat \ {0} /\ Keep \in Nat /\ SmallBytes \in Nat
    /\ MaxBytes \in Nat /\ Envelope \in Nat /\ \A t \in Targets : t >= MaxSlice

NoPending == [src |-> 0, at |-> 0]
NoChunk == [from |-> 0, to |-> 0, target |-> 0]
NoJump == [back |-> FALSE, src |-> 0, to |-> 0]
PauseSeconds == 1   \* SENTENCE_PAUSE_SECONDS
PauseBytes == 1

BufferInit ==
    /\ book \in Books
    /\ buffer = [base |-> 0, slices |-> <<>>, read |-> 0, pending |-> NoPending, done |-> FALSE,
                 dead |-> FALSE, disposed |-> FALSE]
    /\ calls = <<>>
    /\ given = [slices |-> {}, next |-> {0}, chunk |-> NoChunk, jump |-> NoJump]

(***************************************************************************)
(* Cutting a sentence                                                      *)
(***************************************************************************)

(* The binary search of firstEndingAfter over entries in text order. *)
FirstEndingAfter(entries, offset, inclusive) ==
    LET n == Len(entries) + 1
        Search[low \in 1 .. n, high \in 1 .. n] ==
            LET middle == (low + high) \div 2
                past == IF inclusive THEN entries[middle].end >= offset ELSE entries[middle].end > offset
            IN  IF low >= high THEN low
                ELSE IF past THEN Search[low, middle] ELSE Search[middle + 1, high]
    IN  Search[1, n]

(* rangeCFI: start and end as <<text node, offset>>; <<>>: the sentence's own range. *)
RangeCFI(s, start, end) ==
    LET first == FirstEndingAfter(s.runs, start, FALSE)
        last == FirstEndingAfter(s.runs, end, TRUE)
    IN  IF first > Len(s.runs) \/ last > Len(s.runs) THEN <<>>
        ELSE << <<first, start - s.runs[first].start>>, <<last, end - s.runs[last].start>> >>

(* sliceSentence and the marks of readChunk: the words of a slice, clipped to it. *)
SliceWords(s, from, to) ==
    {[start |-> Max({from, s.words[i].start}), end |-> Min({to, s.words[i].end})] :
        i \in {j \in FirstEndingAfter(s.words, from, FALSE) .. Len(s.words) : s.words[j].start < to}}

(* slicedDuration: an override counts where it is whole and fits. *)
Seconds(s, from, to) ==
    (to - from) +
    FoldSet(LAMBDA o, sum : sum + o.secs - (o.end - o.start), 0,
            {o \in s.over : from <= o.start /\ o.end <= to /\ o.secs <= MaxSlice})

(* conservativeBytes of sliceSSML *)
Bytes(s, from, to) == s.shell + s.weight * (to - from)

(* The widening and then halving search of appendNext. *)
LongestPrefix(s, at) ==
    LET fits(to) == Seconds(s, at, to) <= MaxSlice
        Widen[h \in at .. s.len] ==
            IF h < s.len /\ fits(h) THEN Widen[Min({s.len, at + (h - at) * 2})] ELSE h
        Halve[low \in at + 1 .. s.len + 1, high \in at .. s.len, best \in at .. s.len] ==
            LET middle == (low + high) \div 2
            IN  IF low > high THEN best
                ELSE IF fits(middle) THEN Halve[middle + 1, high, middle]
                ELSE Halve[low, middle - 1, best]
    IN  Max({at + 1, Halve[at + 1, Widen[Min({s.len, at + Window})], at]})

(* A slice ends before an override it would split, if that could be read whole. *)
KeepOverride(s, at, best) ==
    LET split == {o \in s.over : at < o.start /\ o.start < best /\ best < o.end /\ o.secs <= MaxSlice}
    IN  IF split = {} THEN best ELSE Min({o.start : o \in split})

(* Halves the slice until its markup fits into a request. *)
FitBytes(s, at, best) ==
    LET Shrink[to \in at + 1 .. s.len] ==
            IF Bytes(s, at, to) > MaxBytes - Envelope /\ to > at + 1
            THEN Shrink[at + Max({1, (to - at) \div 2})] ELSE to
    IN  Shrink[best]

CutAt(s, at) == FitBytes(s, at, KeepOverride(s, at, LongestPrefix(s, at)))

(***************************************************************************)
(* ensure(index): one turn of its loop                                     *)
(***************************************************************************)
Top(b) == b.base + Len(b.slices)
At(b, i) == b.slices[i - b.base + 1]
Needs(i) == ~buffer.disposed /\ ~buffer.done /\ Top(buffer) <= i
Has(i) == ~buffer.disposed /\ buffer.base <= i /\ i < Top(buffer)

NewCall(op, i, target) == [op |-> op, index |-> i, target |-> target, at |-> i, src |-> 0]

Return == calls' = Tail(calls)

(* appendNext: a slice that no request can carry fails the call and stays pending. *)
AppendNext ==
    LET s == book[buffer.pending.src]
        from == buffer.pending.at
        to == CutAt(s, from)
    IN  /\ buffer.pending # NoPending
        /\ IF Bytes(s, from, to) > MaxBytes - Envelope
           THEN Return /\ UNCHANGED buffer
           ELSE /\ buffer' = [buffer EXCEPT
                      !.slices = Append(@, [src |-> buffer.pending.src, from |-> from, to |-> to]),
                      !.pending = IF to = s.len THEN NoPending ELSE [@ EXCEPT !.at = to]]
                /\ UNCHANGED calls

(* iterator.next(), and beginSentence: a small sentence needs no slicing. *)
ReadSentence ==
    LET n == buffer.read + 1
        s == book[n]
        whole == s.len <= MaxSlice /\ Bytes(s, 0, s.len) <= SmallBytes /\ s.over = {}
    IN  /\ buffer.pending = NoPending
        /\ buffer' =
             IF buffer.dead \/ n > Len(book) THEN [buffer EXCEPT !.done = TRUE]
             ELSE IF s.skip THEN [buffer EXCEPT !.read = n]
             ELSE IF whole
             THEN [buffer EXCEPT !.read = n,
                                 !.slices = Append(@, [src |-> n, from |-> 0, to |-> s.len])]
             ELSE [buffer EXCEPT !.read = n, !.pending = [src |-> n, at |-> 0]]
        /\ UNCHANGED calls

Ensure ==
    /\ calls # <<>> /\ Needs(Head(calls).at)
    /\ AppendNext \/ ReadSentence
    /\ UNCHANGED <<book, given>>

(* The section cannot be opened: the call fails and the generator is finished. *)
SourceFails ==
    /\ calls # <<>> /\ Needs(Head(calls).at) /\ buffer.pending = NoPending /\ ~buffer.dead
    /\ buffer' = [buffer EXCEPT !.dead = TRUE]
    /\ Return
    /\ UNCHANGED <<book, given>>

(***************************************************************************)
(* chunk(startIndex, targetSeconds): readChunk                             *)
(***************************************************************************)
Pauses(b, i, j) == Cardinality({k \in i + 1 .. j : At(b, k - 1).src # At(b, k).src})

SliceSeconds(l) == Seconds(book[l.src], l.from, l.to)
SliceBytes(l) == Bytes(book[l.src], l.from, l.to)

BatchSeconds(b, i, j) ==
    FoldSet(LAMBDA k, sum : sum + SliceSeconds(At(b, k)), 0, i .. j) + PauseSeconds * Pauses(b, i, j)

BatchBytes(b, i, j) ==
    Envelope + FoldSet(LAMBDA k, sum : sum + SliceBytes(At(b, k)), 0, i .. j) + PauseBytes * Pauses(b, i, j)

(* splice(0, keepFrom - baseIndex) *)
Forget(b, i) ==
    LET keep == Max({b.base, i - Keep})
    IN  [b EXCEPT !.base = keep, !.slices = SubSeq(@, keep - b.base + 1, Len(@))]

(* The chunk [i, j) goes to the caller, who will go on at j. *)
Give(c, j) ==
    given' = [given EXCEPT !.slices = @ \cup {[index |-> k, slice |-> At(buffer, k)] : k \in c.index .. j - 1},
                           !.next = @ \cup {j},
                           !.chunk = [from |-> c.index, to |-> j - 1, target |-> c.target]]

(* One more slice fits into the batch. *)
BatchTakes(c) ==
    /\ Has(c.at)
    /\ (c.at > c.index => /\ BatchSeconds(buffer, c.index, c.at - 1) < c.target
                          /\ BatchSeconds(buffer, c.index, c.at) <= c.target)
    /\ BatchBytes(buffer, c.index, c.at) <= MaxBytes

(* What lies far behind is forgotten before the first slice is looked at, also *)
(* when that one does not fit and the call fails.                              *)
ReadChunk ==
    LET c == Head(calls)
    IN  /\ calls # <<>> /\ c.op = "chunk" /\ ~Needs(c.at)
        /\ buffer' = IF c.at = c.index /\ Has(c.at) THEN Forget(buffer, c.index) ELSE buffer
        /\ IF BatchTakes(c)
           THEN calls' = <<[c EXCEPT !.at = @ + 1]>> \o Tail(calls) /\ UNCHANGED given
           ELSE /\ IF buffer.disposed \/ c.at = c.index THEN UNCHANGED given ELSE Give(c, c.at)
                /\ Return
        /\ UNCHANGED book

(***************************************************************************)
(* adjacentSentenceIndex(index, direction)                                 *)
(***************************************************************************)

(* The rest of the sentence is given up, its indexes are not used again. *)
Abandon(b) == [b EXCEPT !.base = Top(b), !.slices = <<>>, !.pending = NoPending]

AdjacentNext ==
    LET c == Head(calls)
    IN  /\ calls # <<>> /\ c.op = "next" /\ ~Needs(c.at)
        /\ IF ~Has(c.at) THEN Return /\ UNCHANGED <<buffer, given>>
           ELSE IF c.src = 0
           THEN LET src == At(buffer, c.at).src
                    b == IF buffer.pending.src = src THEN Abandon(buffer) ELSE buffer
                    to == IF buffer.pending.src = src THEN b.base ELSE c.at + 1
                IN  /\ buffer' = b
                    /\ calls' = <<[c EXCEPT !.at = to, !.src = src]>> \o Tail(calls)
                    /\ UNCHANGED given
           ELSE IF At(buffer, c.at).src = c.src
           THEN calls' = <<[c EXCEPT !.at = @ + 1]>> \o Tail(calls) /\ UNCHANGED <<buffer, given>>
           ELSE /\ given' = [given EXCEPT !.next = @ \cup {c.at},
                                          !.jump = [back |-> FALSE, src |-> c.src, to |-> c.at]]
                /\ Return
                /\ UNCHANGED buffer
        /\ UNCHANGED book

(* The first slice kept of the sentence before that of index i, if one is kept. *)
PreviousOf(i) ==
    LET before == {k \in buffer.base .. i - 1 : At(buffer, k).src # At(buffer, i).src}
    IN  IF before = {} THEN {}
        ELSE {Min({k \in before : At(buffer, k).src = At(buffer, Max(before)).src})}

AdjacentPrevious ==
    LET c == Head(calls)
    IN  /\ calls # <<>> /\ c.op = "previous" /\ ~Needs(c.at)
        /\ IF Has(c.at) /\ PreviousOf(c.at) # {}
           THEN LET to == Max(PreviousOf(c.at))
                IN  given' = [given EXCEPT !.next = @ \cup {to},
                                           !.jump = [back |-> TRUE, src |-> At(buffer, c.at).src, to |-> to]]
           ELSE UNCHANGED given
        /\ Return
        /\ UNCHANGED <<book, buffer>>

(***************************************************************************)
(* The callers                                                             *)
(***************************************************************************)
AskChunk ==
    /\ ~buffer.disposed
    /\ \E i \in given.next, t \in Targets : calls' = Append(calls, NewCall("chunk", i, t))
    /\ UNCHANGED <<book, buffer, given>>

AskAdjacent ==
    /\ ~buffer.disposed
    /\ \E g \in given.slices, op \in {"next", "previous"} : calls' = Append(calls, NewCall(op, g.index, MaxSlice))
    /\ UNCHANGED <<book, buffer, given>>

Dispose ==
    /\ ~buffer.disposed
    /\ buffer' = [buffer EXCEPT !.disposed = TRUE, !.slices = <<>>, !.pending = NoPending]
    /\ UNCHANGED <<book, calls, given>>

BufferNext ==
    \/ Internal /\ (Ensure \/ ReadChunk \/ AdjacentNext \/ AdjacentPrevious)
    \/ External /\ (AskChunk \/ AskAdjacent \/ Dispose \/ SourceFails)

(***************************************************************************)
(* Properties                                                              *)
(***************************************************************************)
Follows(a, b) ==
    \/ b.src = a.src /\ b.from = a.to
    \/ /\ b.src > a.src /\ a.to = book[a.src].len /\ b.from = 0
       /\ \A n \in a.src + 1 .. b.src - 1 : book[n].skip

(* "Exceptionally long sentences are split without dropping their text": the *)
(* kept slices and what is still to be cut continue each other character by  *)
(* character, whatever reads, jumps and failures came between (appendNext).  *)
TextInOrder ==
    /\ \A i \in 1 .. Len(buffer.slices) - 1 : Follows(buffer.slices[i], buffer.slices[i + 1])
    /\ (buffer.pending # NoPending /\ buffer.slices # <<>>) =>
         Follows(buffer.slices[Len(buffer.slices)],
                 [src |-> buffer.pending.src, from |-> buffer.pending.at, to |-> buffer.pending.at])

(* "Absolute indexes already issued stay stable": an index that a caller was *)
(* given never names other text later (adjacentSentenceIndex, readChunk).    *)
IndexStable ==
    /\ \A g, h \in given.slices : g.index = h.index => g.slice = h.slice
    /\ \A g \in given.slices : Has(g.index) => At(buffer, g.index) = g.slice

(* A chunk is no longer than asked for, pauses between sentences included,    *)
(* unless it is a single slice, and always fits into a request; slices are at *)
(* most MaxSlice seconds (readChunk).                                         *)
ChunkFits ==
    LET c == given.chunk
    IN  (c.target # 0 /\ \A k \in c.from .. c.to : Has(k)) =>
            /\ c.from = c.to \/ BatchSeconds(buffer, c.from, c.to) <= c.target
            /\ BatchBytes(buffer, c.from, c.to) <= MaxBytes
            /\ \A k \in c.from .. c.to : SliceSeconds(At(buffer, k)) <= MaxSlice

(* "Oversized pronunciation overrides use plain text when they must be split": *)
(* an override short enough to be read whole is split by no slice, unless the  *)
(* request would be too large (appendNext).                                    *)
OverrideKept ==
    \A i \in DOMAIN buffer.slices :
        LET l == buffer.slices[i]
            s == book[l.src]
        IN  \A o \in s.over :
                (o.start < l.to /\ l.to < o.end) =>
                    o.secs > MaxSlice \/ Bytes(s, 0, MaxSlice) > MaxBytes - Envelope

(* "Next/previous controls navigate original sentences rather than internal   *)
(* slices": a jump lands on the first slice of the sentence next to the one   *)
(* it left; only a jump back into history that was cut inside that sentence   *)
(* lands on the oldest slice kept (adjacentSentenceIndex).                    *)
LandsOnSentence ==
    LET j == given.jump
    IN  (j.src # 0 /\ Has(j.to)) =>
            LET l == At(buffer, j.to)
            IN  /\ l.from = 0 \/ (j.back /\ j.to = buffer.base)
                /\ \A n \in 1 .. Len(book) :
                     (IF j.back THEN l.src < n /\ n < j.src ELSE j.src < n /\ n < l.src) => book[n].skip

(* The ranges of a slice and of its words begin and end inside their text    *)
(* nodes, never past the end of one, and the words lie in the slice: the      *)
(* highlight is exactly the text that is read (rangeCFI, sliceSentence).      *)
RangesExact ==
    \A i \in DOMAIN buffer.slices :
        LET l == buffer.slices[i]
            s == book[l.src]
        IN  \A w \in SliceWords(s, l.from, l.to) \cup {[start |-> l.from, end |-> l.to]} :
                LET r == RangeCFI(s, w.start, w.end)
                IN  /\ l.from <= w.start /\ w.start < w.end /\ w.end <= l.to
                    /\ r # <<>>
                    /\ r[1][2] \in 0 .. s.runs[r[1][1]].end - s.runs[r[1][1]].start - 1
                    /\ r[2][2] \in 1 .. s.runs[r[2][1]].end - s.runs[r[2][1]].start

(* Together: the queue speaks the text of the source, whole and in order, in   *)
(* chunks that fit a request, and names and finds it exactly.                  *)
BufferSafe == TextInOrder /\ IndexStable /\ ChunkFits /\ OverrideKept /\ LandsOnSentence /\ RangesExact
=============================================================================
