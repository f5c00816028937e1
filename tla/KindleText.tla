----------------------------- MODULE KindleText -----------------------------
(***************************************************************************)
(* The text of Kindle books, public/foliate/mobi.js: how its records are   *)
(* unpacked, read from both ends on demand, put together into sections and *)
(* indexed.  How the records were written is the format's definition, not  *)
(* code of the repository: Pack, Stored, the tables and Encode.            *)
(***************************************************************************)
EXTENDS ClientEvents, Sequences, FiniteSets, SequencesExt

CONSTANTS
    Kindles,    \* KF8 books: [sections, record, fdst]; a section is a sequence of pieces [cut, len]
    OldBooks,   \* MOBI 6 books and index entries: [breaks, refs, groups]
    Askers,     \* who loads sections: the page, the speech
    MaxPacked   \* bound: characters in a record

VARIABLES
    packed,   \* a record and what it is to contain
    kindle,   \* the book: what was read of it
    asks,     \* the calls of loadText
    leaf      \* a MOBI 6 book or an index entry

kindleVars == <<packed, kindle, asks, leaf, events>>

Numbered(n) == [k \in 1 .. n |-> k]
Slice(s, from, to) == SubSeq(s, from + 1, to)

(***************************************************************************)
(* Records: decompressPalmDOC, getVarLenFromEnd, removeTrailingEntries     *)
(***************************************************************************)

(* A byte of decompressPalmDOC: part of a literal run, second byte of a pair, or an opcode. *)
Unpack(st, byte) ==
    LET copied(high) ==
            LET distance == ((high * 256 + byte) % 16384) \div 8
            IN  FoldLeft(LAMBDA out, j : Append(out, out[Len(out) - distance + 1]), st.out, Numbered((byte % 8) + 3))
    IN  CASE st.run > 0 -> [st EXCEPT !.out = Append(@, byte), !.run = @ - 1]
          [] st.high > 0 -> [st EXCEPT !.out = copied(st.high), !.high = 0]
          [] byte \in 1 .. 8 -> [st EXCEPT !.run = byte]
          [] byte = 0 \/ byte \in 9 .. 127 -> [st EXCEPT !.out = Append(@, byte)]
          [] byte \in 128 .. 191 -> [st EXCEPT !.high = byte]
          [] OTHER -> [st EXCEPT !.out = @ \o <<32, byte - 128>>]

DecompressPalmDOC(bytes) == FoldLeft(Unpack, [out |-> <<>>, run |-> 0, high |-> 0], bytes).out

(* The value starts at the last byte with the high bit, of the last four. *)
GetVarLenFromEnd(bytes) ==
    FoldLeft(LAMBDA v, b : (IF b >= 128 THEN 0 ELSE v * 128) + (b % 128), 0,
             IF Len(bytes) <= 4 THEN bytes ELSE SubSeq(bytes, Len(bytes) - 3, Len(bytes)))

(* subarray(0, -n): nothing is left when n is 0. *)
WithoutEnd(bytes, n) == IF n = 0 THEN <<>> ELSE SubSeq(bytes, 1, Len(bytes) - n)

RemoveTrailingEntries(bytes, entries, multibyte) ==
    LET text == FoldLeft(LAMBDA b, i : WithoutEnd(b, GetVarLenFromEnd(b)), bytes, Numbered(entries))
    IN  IF multibyte THEN WithoutEnd(text, (Last(text) % 4) + 1) ELSE text

LoadRecordText(record) == DecompressPalmDOC(RemoveTrailingEntries(record.bytes, record.entries, record.multibyte))

PackInit == packed = [text |-> <<>>, bytes |-> <<>>, entries |-> 0, multibyte |-> FALSE]

Packs(text, bytes) ==
    /\ ~packed.multibyte /\ packed.entries = 0 /\ Len(packed.text \o text) <= MaxPacked
    /\ packed' = [packed EXCEPT !.text = @ \o text, !.bytes = @ \o bytes]

(* The format: literals, runs, a blank with a letter, a repetition, and what trails the text. *)
PackLiteral == \E b \in {0, 32, 65} : Packs(<<b>>, <<b>>)
PackRun == \E run \in {<<200>>, <<7, 129>>} : Packs(run, <<Len(run)>> \o run)
PackBlank == Packs(<<32, 65>>, <<65 + 128>>)
PackPair ==
    \E distance \in DOMAIN packed.text, n \in 3 .. 4 :
        LET again == [j \in 1 .. n |-> packed.text[Len(packed.text) - distance + 1 + ((j - 1) % distance)]]
            pair == distance * 8 + n - 3
        IN  Packs(again, <<128 + pair \div 256, pair % 256>>)
PackMultibyte ==
    /\ packed.bytes # <<>> /\ ~packed.multibyte /\ packed.entries = 0
    /\ \E n \in 0 .. 2 : packed' = [packed EXCEPT !.multibyte = TRUE,
                                                  !.bytes = @ \o [k \in 1 .. n |-> 255] \o <<n + 4>>]
PackEntry ==
    /\ packed.bytes # <<>> /\ packed.entries < 2
    /\ \E data \in {<<>>, <<1>>, <<130, 3, 9>>}, wide \in BOOLEAN :
         LET size == IF wide THEN <<128, Len(data) + 2>> ELSE <<128 + Len(data) + 1>>
         IN  packed' = [packed EXCEPT !.entries = @ + 1, !.bytes = @ \o data \o size]

(***************************************************************************)
(* KF8: sections cut into a skeleton and fragments                         *)
(***************************************************************************)

(* The format: a section is pieces, and the file has those that are cut out behind *)
(* the rest.  Its tables say where they were.                                      *)
LengthOfPieces(ps) == FoldLeft(LAMBDA n, p : n + p.len, 0, ps)
SectionBytes(b, s) == [n \in 1 .. LengthOfPieces(b.sections[s]) |-> <<s, n>>]
StartOfPiece(b, s, i) == LengthOfPieces(SubSeq(b.sections[s], 1, i - 1))
PieceText(b, s, i) == SubSeq(SectionBytes(b, s), StartOfPiece(b, s, i) + 1, StartOfPiece(b, s, i + 1))
PiecesWhere(b, s, cut) == SelectSeq(Numbered(Len(b.sections[s])), LAMBDA i : b.sections[s][i].cut = cut)
TextOfPieces(b, s, is) == FlattenSeq([k \in DOMAIN is |-> PieceText(b, s, is[k])])
Stored(b, s) == TextOfPieces(b, s, PiecesWhere(b, s, FALSE)) \o TextOfPieces(b, s, PiecesWhere(b, s, TRUE))
BookFile(b) == FlattenSeq([s \in DOMAIN b.sections |-> Stored(b, s)])
FileOffset(b, s) == FoldLeft(LAMBDA n, t : n + Len(SectionBytes(b, t)), 0, Numbered(s - 1))
Skel(b, s) == [numFrag |-> Len(PiecesWhere(b, s, TRUE)), offset |-> FileOffset(b, s),
               length |-> Len(TextOfPieces(b, s, PiecesWhere(b, s, FALSE)))]
FragTable(b) ==
    FlattenSeq([s \in DOMAIN b.sections |->
        LET cut == PiecesWhere(b, s, TRUE)
        IN  [k \in DOMAIN cut |-> [insertOffset |-> FileOffset(b, s) + StartOfPiece(b, s, cut[k]),
                                   offset |-> Len(TextOfPieces(b, s, SubSeq(cut, 1, k - 1))),
                                   length |-> b.sections[s][cut[k]].len]]])

(* KF8.init: the fragments of a section follow those of the sections before. *)
SectionTable(b) ==
    [s \in DOMAIN b.sections |->
        LET fragStart == FoldLeft(LAMBDA n, t : n + Skel(b, t).numFrag, 0, Numbered(s - 1))
            frags == Slice(FragTable(b), fragStart, fragStart + Skel(b, s).numFrag)
        IN  [skel |-> Skel(b, s), frags |-> frags,
             length |-> Skel(b, s).length + FoldLeft(LAMBDA n, f : n + f.length, 0, frags)]]

(* loadText: each fragment goes where the text stood, which is counted with those before it. *)
RebuiltText(x, raw) ==
    LET inserted(text, f) ==
            LET at == f.insertOffset - x.skel.offset
                cut == Slice(raw, x.skel.length + f.offset, x.skel.length + f.offset + f.length)
            IN  Slice(text, 0, at) \o cut \o Slice(text, at, Len(text))
    IN  FoldLeft(inserted, Slice(raw, 0, x.skel.length), x.frags)

(* PDB.loadRecord: text records first, others around them. *)
FullRawLength == Len(kindle.file)
NumTextRecords == (FullRawLength + kindle.book.record - 1) \div kindle.book.record
OtherRecord == <<<<0, 0>>>>
TextRecord(i) ==
    IF i \notin 0 .. NumTextRecords - 1 THEN OtherRecord
    ELSE LET end == (i + 1) * kindle.book.record
         IN  Slice(kindle.file, i * kindle.book.record, IF end > FullRawLength THEN FullRawLength ELSE end)

NoAsk == [step |-> "idle", section |-> 0, frag |-> 0, start |-> 0, end |-> 0, record |-> 0, text |-> <<>>]

KindleInit ==
    /\ \E b \in Kindles : kindle = [book |-> b, file |-> BookFile(b), sections |-> SectionTable(b),
                                    head |-> <<>>, tail |-> <<>>, lastHead |-> -1, lastTail |-> -1,
                                    reads |-> <<>>, crossed |-> FALSE]   \* a record came out of order, or not at all
    /\ asks = [c \in Askers |-> NoAsk]

(* The loops of loadRaw up to the next record or to the end. *)
ReadsOn(c, a, k) ==
    LET rawTailStart == FullRawLength - Len(k.tail)
        done(raw) == [a EXCEPT !.step = "done", !.text = IF a.frag = 0 THEN RebuiltText(k.sections[a.section], raw) ELSE raw]
        index == IF a.step = "head" THEN k.lastHead + 1 ELSE NumTextRecords - 1 - (k.lastTail + 1)
    IN  IF a.step = "head" /\ Len(k.head) >= a.end
        THEN asks' = [asks EXCEPT ![c] = done(Slice(k.head, a.start, a.end))] /\ kindle' = k
        ELSE IF a.step = "tail" /\ rawTailStart <= a.start
        THEN asks' = [asks EXCEPT ![c] = done(Slice(k.tail, a.start - rawTailStart, a.end - rawTailStart))] /\ kindle' = k
        ELSE /\ asks' = [asks EXCEPT ![c] = [a EXCEPT !.record = index]]
             /\ kindle' = [k EXCEPT !.reads = Append(@, c),
                                    !.lastHead = IF a.step = "head" THEN @ + 1 ELSE @,
                                    !.lastTail = IF a.step = "tail" THEN @ + 1 ELSE @]

(* From the front or from the back, whichever is nearer.  Without an FDST table *)
(* the length of the text is unknown, and it is read from the front.            *)
LoadRaw(c, s, frag, start, end) ==
    LET distanceHead == end - Len(kindle.head)
        distanceEnd == FullRawLength - Len(kindle.tail) - start
        fromHead == distanceHead < 0 \/ ~kindle.book.fdst \/ distanceHead < distanceEnd
    IN  /\ asks[c].step \in {"idle", "done"}
        /\ ReadsOn(c, [NoAsk EXCEPT !.step = IF fromHead THEN "head" ELSE "tail", !.section = s, !.frag = frag,
                                    !.start = start, !.end = end], kindle)

LoadText(c, s) ==
    LET x == kindle.sections[s] IN LoadRaw(c, s, 0, x.skel.offset, x.skel.offset + x.length)

(* resolveHref: the text of the fragment that a link names, to find its anchor. *)
ResolveHref(c, s) ==
    \E k \in DOMAIN kindle.sections[s].frags :
        LET x == kindle.sections[s]
            offset == x.skel.offset + x.skel.length + x.frags[k].offset
        IN  LoadRaw(c, s, k, offset, offset + x.frags[k].length)

(* A record arrives, at the call that asked for it.  Nothing makes the file answer in order. *)
RecordArrives(c) ==
    /\ c \in ToSet(kindle.reads)
    /\ LET a == asks[c]
           k == [kindle EXCEPT !.reads = SelectSeq(@, LAMBDA d : d # c),
                               !.crossed = @ \/ kindle.reads[1] # c,
                               !.head = IF a.step = "head" THEN @ \o TextRecord(a.record) ELSE @,
                               !.tail = IF a.step = "tail" THEN TextRecord(a.record) \o @ ELSE @]
       IN  ReadsOn(c, a, k)

(* A record cannot be read or unpacked: the call fails, and the record counts as *)
(* read all the same.                                                            *)
RecordFails(c) ==
    /\ c \in ToSet(kindle.reads)
    /\ kindle' = [kindle EXCEPT !.reads = SelectSeq(@, LAMBDA d : d # c), !.crossed = TRUE]
    /\ asks' = [asks EXCEPT ![c] = NoAsk]

(***************************************************************************)
(* MOBI 6: page breaks and file positions                                  *)
(***************************************************************************)
LeafLength == 4
PositionsIn(set) == SelectSeq([k \in 1 .. LeafLength |-> k - 1], LAMBDA p : p \in set)

(* MOBI6.init: a section starts at each page break. *)
MOBI6Sections ==
    LET starts == <<0>> \o PositionsIn(leaf.breaks)
    IN  [i \in DOMAIN starts |-> [start |-> starts[i], end |-> IF i = Len(starts) THEN LeafLength ELSE starts[i + 1]]]

(* resolveHref, splitTOCHref: the first section that ends behind the position. *)
SectionOfFilepos(pos) == SelectInSeq(MOBI6Sections, LAMBDA x : x.end > pos)

(* loadText: an anchor before the byte of each position some link names; break tags go. *)
MOBI6Text(i) ==
    LET x == MOBI6Sections[i]
        list == PositionsIn({p \in leaf.refs : p >= x.start /\ p < x.end})
        bytes(from, to) == [k \in 1 .. (to - from) |-> [anchor |-> FALSE, pos |-> from + k - 1]]
        behind(k) == IF k = Len(list) THEN x.end ELSE list[k + 1]
        text == IF list = <<>> THEN bytes(x.start, x.end)
                ELSE bytes(x.start, list[1]) \o FlattenSeq([k \in DOMAIN list |->
                         <<[anchor |-> TRUE, pos |-> list[k]]>> \o bytes(list[k], behind(k))])
    IN  SelectSeq(text, LAMBDA t : t.anchor \/ t.pos \notin leaf.breaks)

(***************************************************************************)
(* Index entries: getVarLen and the tags of getIndexData                   *)
(***************************************************************************)

(* The tag table: a mask of so many bits, shifted; the end of a control byte. *)
Tag(tag, values, shift, bits) == [tag |-> tag, numValues |-> values, shift |-> shift, bits |-> bits, end |-> FALSE]
TagTable == <<Tag(1, 1, 0, 1), Tag(6, 2, 1, 1), Tag(3, 1, 2, 2), [Tag(0, 0, 0, 0) EXCEPT !.end = TRUE], Tag(4, 1, 0, 2)>>
FullMask(t) == 2 ^ t.bits - 1

GetVarLen(bytes, i) ==
    LET last == IF i + 3 > Len(bytes) THEN Len(bytes) ELSE i + 3
        stops == {j \in i .. last : bytes[j] >= 128}
        to == IF stops = {} THEN last ELSE CHOOSE j \in stops : \A h \in stops : j <= h
    IN  [value |-> FoldLeft(LAMBDA v, b : v * 128 + (b % 128), 0, SubSeq(bytes, i, to)), length |-> to - i + 1]

(* The first loop: how many values each tag has, or how many bytes of values. *)
TagCounts(bytes, numControlBytes) ==
    LET step(st, t) ==
            LET value == (bytes[st.control] \div 2 ^ t.shift) % 2 ^ t.bits
                long == GetVarLen(bytes, st.pos)
                found(count, size) == Append(st.tags, [tag |-> t.tag, count |-> count, bytes |-> size, numValues |-> t.numValues])
            IN  CASE t.end -> [st EXCEPT !.control = @ + 1]
                  [] ~t.end /\ value = FullMask(t) /\ t.bits > 1 ->
                        [st EXCEPT !.tags = found(0, long.value), !.pos = @ + long.length]
                  [] OTHER -> [st EXCEPT !.tags = found(value, 0)]
    IN  FoldLeft(step, [control |-> 1, pos |-> numControlBytes + 1, tags |-> <<>>], TagTable)

(* The second loop: the values.  A tag has a count or a size of its values in bytes. *)
TagMap(bytes, numControlBytes) ==
    LET first == TagCounts(bytes, numControlBytes)
        read(st) == LET v == GetVarLen(bytes, st.pos)
                    IN  [pos |-> st.pos + v.length, size |-> st.size + v.length, values |-> Append(st.values, v.value)]
        values(t, pos) == FoldLeft(LAMBDA st, k : IF t.bytes = 0 \/ st.size < t.bytes THEN read(st) ELSE st,
                                   [pos |-> pos, size |-> 0, values |-> <<>>],
                                   Numbered(IF t.bytes = 0 THEN t.count * t.numValues ELSE t.bytes))
        step(st, t) == LET r == values(t, st.pos)
                       IN  [pos |-> r.pos, map |-> Append(st.map, [tag |-> t.tag, values |-> r.values])]
    IN  FoldLeft(step, [pos |-> first.pos, map |-> <<>>], first.tags).map

(* The format: values of one or two bytes; three groups, or more, need their size. *)
RealTags == SelectSeq(TagTable, LAMBDA t : ~t.end)
ValuesOf(k) == [v \in 1 .. leaf.groups[k] * RealTags[k].numValues |-> 30 * k * v]
VarLen(v) == IF v < 128 THEN <<128 + v>> ELSE <<v \div 128, 128 + (v % 128)>>
ValueBytes(k) == FlattenSeq([v \in DOMAIN ValuesOf(k) |-> VarLen(ValuesOf(k)[v])])
BySize(k) == RealTags[k].bits > 1 /\ leaf.groups[k] >= FullMask(RealTags[k])
ControlBits(k) == (IF BySize(k) THEN FullMask(RealTags[k]) ELSE leaf.groups[k]) * 2 ^ RealTags[k].shift
Encode ==
    LET sizes == FlattenSeq([k \in 1 .. 4 |-> IF BySize(k) THEN VarLen(Len(ValueBytes(k))) ELSE <<>>])
    IN  <<ControlBits(1) + ControlBits(2) + ControlBits(3), ControlBits(4)>> \o sizes \o FlattenSeq([k \in 1 .. 4 |-> ValueBytes(k)])

NoLeaf == [breaks |-> {}, refs |-> {}, groups |-> <<>>]
LeafInit == leaf \in OldBooks \cup {NoLeaf}

PackNext == External /\ (PackLiteral \/ PackRun \/ PackBlank \/ PackPair \/ PackMultibyte \/ PackEntry)

KindleNext ==
    \/ External /\ \E c \in Askers : RecordFails(c)
    \/ External /\ \E c \in Askers, s \in DOMAIN kindle.sections : LoadText(c, s) \/ ResolveHref(c, s)
    \/ Internal /\ \E c \in Askers : RecordArrives(c)

(***************************************************************************)
(* Properties                                                              *)
(***************************************************************************)

(* A record that was written by the format's rules gives back its text, with  *)
(* whatever trails it (decompressPalmDOC, removeTrailingEntries).             *)
RecordComesBack == LoadRecordText(packed) = packed.text

(* Whoever loads sections at the same time, from whichever end, every section *)
(* is put together from its own bytes in their order, and every fragment is the   *)
(* one a link names, as long as the records arrive, and in the order they     *)
(* were asked for (loadRaw, loadText, resolveHref).                           *)
SectionComesBack ==
    ~kindle.crossed =>
        \A c \in Askers :
            LET s == asks[c].section
            IN  asks[c].step = "done" =>
                    asks[c].text = IF asks[c].frag = 0 THEN SectionBytes(kindle.book, s)
                                   ELSE PieceText(kindle.book, s, PiecesWhere(kindle.book, s, TRUE)[asks[c].frag])

(* A link to a file position leads to the section that holds the byte, and to *)
(* an anchor right before it; the sections hold every byte once.              *)
FileposFound ==
    LET bytes(t) == SelectSeq(t, LAMBDA x : ~x.anchor)
        all == FlattenSeq([i \in DOMAIN MOBI6Sections |-> bytes(MOBI6Text(i))])
    IN  leaf # NoLeaf =>
        /\ [n \in DOMAIN all |-> all[n].pos] = PositionsIn((0 .. LeafLength - 1) \ leaf.breaks)
        /\ \A p \in leaf.refs :
             LET t == MOBI6Text(SectionOfFilepos(p))
                 at == {n \in DOMAIN t : t[n].anchor /\ t[n].pos = p}
             IN  /\ Cardinality(at) = 1
                 /\ \A n \in DOMAIN t, m \in at : ~t[n].anchor => (t[n].pos < p <=> n < m)

(* An index entry gives each tag its own values, with counts and with sizes. *)
EntryComesBack ==
    leaf # NoLeaf => TagMap(Encode, 2) = [k \in 1 .. 4 |-> [tag |-> RealTags[k].tag, values |-> ValuesOf(k)]]

KindleSafe == RecordComesBack /\ SectionComesBack /\ FileposFound /\ EntryComesBack
=============================================================================
