---------------------------- MODULE SpeechSource ----------------------------
(***************************************************************************)
(* What is read of a book, and in which order: getBlocks, getSentences and *)
(* getTTSSentences of frontend/public/foliate/tts.js, getTTSSentences and  *)
(* getTTSPreviousCFI of view.js.                                           *)
(*                                                                         *)
(* A section is the sequence of its characters in document order.  Each    *)
(* tells whether it is a letter, a blank or the end of a sentence, whether *)
(* a block element opens before it and whether it is in an element that is *)
(* not read (notes, page breaks, hidden text).  A CFI is a section and two *)
(* offsets.  Where sentences end inside a block is the segmenter's         *)
(* decision; here it is after each full stop.                              *)
(***************************************************************************)
EXTENDS ClientEvents, Sequences, FiniteSets, SequencesExt

CONSTANT Volumes   \* books to read: sequences of [linear, opens, chars]

VARIABLES
    volume,   \* the book
    cursor    \* the position the reading is to start from: [section, offset]

sourceVars == <<volume, cursor, events>>

(***************************************************************************)
(* One section                                                             *)
(***************************************************************************)
Readable(ch) == ~ch.hidden
Blank(ch) == ch.kind = "blank"

(* An element that is not read is no block, whatever its name. *)
BlockStarts(chars) == {k \in DOMAIN chars : chars[k].block /\ Readable(chars[k])}

(* Mutant: the block element that ends a block is part of it. *)
BlocksOverlap(chars) ==
    LET starts == SetToSortSeq(IF BlockStarts(chars) = {} THEN {1} ELSE BlockStarts(chars), <)
        ends(b) == IF b = Len(starts) THEN Len(chars) ELSE starts[b + 1]
    IN  [b \in DOMAIN starts |-> [from |-> starts[b], to |-> ends(b)]]

(* getBlocks: from each block element to the next; one block when there is none. *)
Blocks(chars) ==
    LET starts == SetToSortSeq(IF BlockStarts(chars) = {} THEN {1} ELSE BlockStarts(chars), <)
        ends(b) == IF b = Len(starts) THEN Len(chars) ELSE starts[b + 1] - 1
        all == [b \in DOMAIN starts |-> [from |-> starts[b], to |-> ends(b)]]
    IN  SelectSeq(all, LAMBDA r : \E k \in r.from .. r.to : ~Blank(chars[k]))

(* getClippedTextEntries: the characters of a range that are read. *)
Clipped(chars, r) == SetToSortSeq({k \in r.from .. r.to : Readable(chars[k])}, <)

(* The segmenter: a sentence is a range from its first character to its last. *)
Segments(chars, r) ==
    LET text == Clipped(chars, r)
        stops == {k \in DOMAIN text : chars[text[k]].kind = "stop"} \cup {Len(text)}
        first(k) == IF \E j \in stops : j < k THEN 1 + CHOOSE j \in stops : j < k /\ \A i \in stops : i < k => i <= j ELSE 1
        order == SetToSortSeq(stops, <)
    IN  IF text = <<>> THEN <<>>
        ELSE [n \in DOMAIN order |-> [from |-> text[first(order[n])], to |-> text[order[n]]]]

(* getSentences: segments with something in them. *)
GetSentences(chars) ==
    FlattenSeq([b \in DOMAIN Blocks(chars) |->
                   SelectSeq(Segments(chars, Blocks(chars)[b]),
                             LAMBDA r : \E k \in r.from .. r.to : ~Blank(chars[k]))])

(* getTTSSentences of tts.js: what ends before the start is left out, what holds it is cut. *)
FromStart(chars, start) ==
    LET rest == SelectSeq(GetSentences(chars), LAMBDA r : r.to >= start)
    IN  [n \in DOMAIN rest |-> [rest[n] EXCEPT !.from = IF @ < start THEN start ELSE @]]

(***************************************************************************)
(* The book                                                                *)
(***************************************************************************)
Spoken(s) == volume[s].linear /\ volume[s].opens
Named(s, ranges) == [n \in DOMAIN ranges |-> [section |-> s, from |-> ranges[n].from, to |-> ranges[n].to]]

(* getTTSSentences of view.js, from a CFI on. *)
GetTTSSentences(at) ==
    FlattenSeq([n \in 1 .. (Len(volume) - at.section + 1) |->
        LET s == at.section + n - 1
        IN  IF ~Spoken(s) THEN <<>>
            ELSE Named(s, IF n = 1 THEN FromStart(volume[s].chars, at.offset) ELSE GetSentences(volume[s].chars))])

None == [section |-> 0, from |-> 0, to |-> 0]

(* A sentence of the point's section that ends where the point is, or before it. *)
EndsBefore(r, at) == r.to < at.offset

(* getTTSPreviousCFI: the last sentence before the point, in the nearest section that has one. *)
GetTTSPreviousCFI(at) ==
    LET before(s) == SelectSeq(GetSentences(volume[s].chars), LAMBDA r : s < at.section \/ EndsBefore(r, at))
        all == FlattenSeq([s \in 1 .. at.section |-> IF Spoken(s) THEN Named(s, before(s)) ELSE <<>>])
    IN  IF all = <<>> THEN None ELSE Last(all)

Positions == {[section |-> s, offset |-> k] : s \in DOMAIN volume, k \in 1 .. 4}

SourceInit == volume \in Volumes /\ cursor = [section |-> 1, offset |-> 1]

(* The reader moves: the next start, or step back, is from there. *)
MoveCursor == cursor' \in {p \in Positions : p.offset <= Len(volume[p.section].chars)} /\ UNCHANGED volume

SourceNext == External /\ MoveCursor

(***************************************************************************)
(* Properties                                                              *)
(***************************************************************************)
Whole == GetTTSSentences([section |-> 1, offset |-> 1])

(* The characters a list of sentences speaks, in order. *)
Speaks(list) ==
    FlattenSeq([n \in DOMAIN list |->
        LET text == Clipped(volume[list[n].section].chars, list[n])
        IN  [k \in DOMAIN text |-> <<list[n].section, text[k]>>]])

(* Reading from the start speaks every visible letter from the first block of  *)
(* each section on exactly once, in the order of the book, whatever is hidden  *)
(* between (getBlocks, getSentences).  Text before the first block is not read. *)
ReadOnceInOrder ==
    LET due(s) == {k \in DOMAIN volume[s].chars :
                      /\ Readable(volume[s].chars[k]) /\ ~Blank(volume[s].chars[k])
                      /\ BlockStarts(volume[s].chars) = {} \/ \E b \in BlockStarts(volume[s].chars) : b <= k}
        said == SelectSeq(Speaks(Whole), LAMBDA c : ~Blank(volume[c[1]].chars[c[2]]))
    IN  said = FlattenSeq([s \in DOMAIN volume |->
                   IF ~Spoken(s) THEN <<>>
                   ELSE LET k == SetToSortSeq(due(s), <) IN [n \in DOMAIN k |-> <<s, k[n]>>]])

(* A reading that starts at the cursor speaks what the whole reading speaks    *)
(* from there on: resuming at a stored CFI neither repeats nor skips.          *)
ResumesHere ==
    LET rest == SelectSeq(Speaks(Whole), LAMBDA c : c[1] > cursor.section \/ (c[1] = cursor.section /\ c[2] >= cursor.offset))
    IN  Speaks(GetTTSSentences(cursor)) = rest

(* The sentence holds the cursor or comes after it. *)
NotBeforeCursor(r) == r.section > cursor.section \/ (r.section = cursor.section /\ r.to >= cursor.offset)
Begins(list, p) == Len(list) > 0 /\ list[1] = p /\ (Len(list) > 1 => NotBeforeCursor(list[2]))

(* Stepping back and reading on from there returns to the sentence at the      *)
(* cursor: nothing lies between the previous sentence and this one.            *)
PreviousIsPrevious ==
    LET p == GetTTSPreviousCFI(cursor)
    IN  IF p = None THEN \A r \in ToSet(Whole) : NotBeforeCursor(r)
        ELSE ~NotBeforeCursor(p) /\ Begins(GetTTSSentences([section |-> p.section, offset |-> p.from]), p)

(***************************************************************************)
(* Pauses in the text that goes to the speech service: buildAzureSSML of   *)
(* lib/tts.ts and enhanceProsodyBreaks of lib/tts-text.ts.                 *)
(*                                                                         *)
(* The markup is a flat sequence of units: text nodes, whose characters    *)
(* are letters, blanks, line ends, punctuation that pauses and punctuation *)
(* inside a number or a name (protected); quotes are left out; breaks;     *)
(* elements with a pronunciation of their own; the tags of sentences; the  *)
(* tags of languages and marks, which only divide text nodes.              *)
(***************************************************************************)
CONSTANT Scripts   \* the inputs: sequences of units

VARIABLES
    script,   \* the units; before and after buildAzureSSML
    breaks    \* the breaks that were added, once they are: after which character of which unit

textVars == <<script, breaks, events>>

Chars == {"letter", "blank", "line", "pause", "protected"}
Marks == {"break", "pronounced", "sentence", "lang", "mark"}
TextUnit(chars) == [tag |-> "text", chars |-> chars]
MarkUnit(tag) == [tag |-> tag, chars |-> <<>>]

Silent(c) == c \in {"blank", "line"}
Pausing(c) == c \in {"line", "pause"}
IsText(u) == u.tag = "text"

(* A range of characters starts with a pause, behind blanks.  Protected      *)
(* punctuation is taken for a pause here.                                    *)
StartsWithPause(chars) ==
    LET k == SelectInSeq(chars, LAMBDA c : c # "blank")
    IN  k # 0 /\ chars[k] \in {"line", "pause", "protected"}
HasSpeech(chars) == "letter" \in ToSet(chars)

(* buildAzureSSML: language tags are dropped, marks become bookmarks; neither is spoken. *)
BuildAzureSSML(units) == SelectSeq(units, LAMBDA u : u.tag \notin {"lang", "mark"})

(* collectSpeechContexts: the text nodes with nothing but formatting and bookmarks between. *)
ContextEnd(u) ==
    LET k == SelectInSubSeq(script, u, Len(script), LAMBDA x : ~IsText(x)) IN IF k = 0 THEN Len(script) ELSE k - 1
ContextStart(u) ==
    LET k == SelectLastInSubSeq(script, 1, u, LAMBDA x : ~IsText(x)) IN k + 1
TextOf(from, to) == FlattenSeq([n \in 1 .. (to - from + 1) |-> script[from + n - 1].chars])

(* followingSignal *)
Signal(u) ==
    CASE ~IsText(u) -> (IF u.tag = "pronounced" THEN "speech" ELSE "pause")
      [] StartsWithPause(u.chars) -> "pause"
      [] HasSpeech(u.chars) -> "speech"
      [] OTHER -> "nothing"

(* hasFollowingSpeech: the first unit that says anything speaks. *)
HasFollowingSpeech(u) ==
    LET k == SelectInSubSeq(script, u + 1, Len(script), LAMBDA x : Signal(x) # "nothing")
    IN  k # 0 /\ Signal(script[k]) = "speech"

(* The end of a run of line ends, or a pausing character. *)
PausesAt(u, k) ==
    LET c == script[u].chars[k]
        rest == SubSeq(script[u].chars, k + 1, Len(script[u].chars)) \o TextOf(u + 1, ContextEnd(u))
    IN  Pausing(c) /\ (c = "line" => rest = <<>> \/ rest[1] # "line")

(* The body of enhanceProsodyBreaks: is there to be a break after this pause? *)
GetsBreak(u, k) ==
    LET chars == script[u].chars
        following == SubSeq(chars, k + 1, Len(chars)) \o TextOf(u + 1, ContextEnd(u))
        before == TextOf(ContextStart(u), u - 1) \o SubSeq(chars, 1, k)
    IN  /\ PausesAt(u, k)
        /\ ~StartsWithPause(following)
        /\ HasSpeech(following) \/ HasFollowingSpeech(u)
        /\ (\A c \in ToSet(chars) : Silent(c)) => HasSpeech(before)

TextInit == script \in Scripts /\ breaks = [done |-> FALSE, at |-> {}]

Build ==
    /\ \E n \in DOMAIN script : script[n].tag \in {"lang", "mark"}
    /\ script' = BuildAzureSSML(script)
    /\ UNCHANGED breaks

EnhanceProsodyBreaks ==
    /\ ~breaks.done /\ \A n \in DOMAIN script : script[n].tag \notin {"lang", "mark"}
    /\ breaks' = [done |-> TRUE,
                  at |-> UNION {{<<u, k>> : k \in {k \in DOMAIN script[u].chars : GetsBreak(u, k)}} :
                                u \in DOMAIN script}]
    /\ UNCHANGED script

TextNext == Internal /\ (Build \/ EnhanceProsodyBreaks)

(***************************************************************************)
(* Properties, of the script as one sequence of atoms                      *)
(***************************************************************************)
Atoms ==
    FlattenSeq([u \in DOMAIN script |->
        IF ~IsText(script[u]) THEN <<script[u].tag>>
        ELSE FlattenSeq([k \in DOMAIN script[u].chars |->
                 <<script[u].chars[k]>> \o (IF <<u, k>> \in breaks.at THEN <<"added">> ELSE <<>>)])])
Speech(a) == a \in {"letter", "pronounced"}

(* An added break is the only pause before the next word: never next to another *)
(* break, at the end of a sentence or of the text, or before more punctuation.  *)
NoStackedBreaks ==
    LET atoms == Atoms
    IN  \A i \in DOMAIN atoms : atoms[i] = "added" =>
            \E j \in (i + 1) .. Len(atoms) : Speech(atoms[j]) /\ \A k \in (i + 1) .. (j - 1) : atoms[k] = "blank"

(* Two words of one sentence with a pause between them, and nothing protected, *)
(* are read with exactly one added break between them.                         *)
EveryPauseHeard ==
    breaks.done =>
        LET atoms == Atoms
            letters == {k \in DOMAIN atoms : atoms[k] = "letter"}
        IN  \A i, j \in letters :
                LET between == (i + 1) .. (j - 1)
                IN  (/\ \A k \in between : atoms[k] \in {"blank", "line", "pause", "added"}
                     /\ \E k \in between : Pausing(atoms[k]))
                        => Cardinality({k \in between : atoms[k] = "added"}) = 1
=============================================================================
