--------------------------- MODULE BookPositions ----------------------------
(***************************************************************************)
(* Positions that outlive the page: ranges of a document as EPUB CFIs and  *)
(* back, frontend/public/foliate/epubcfi.js.  Progress, bookmarks and the  *)
(* speech session are stored as CFIs.                                      *)
(*                                                                         *)
(* A document is a sequence of nodes, two levels deep: text nodes with a   *)
(* length, next to each other or not, and elements.  A point is a path to  *)
(* a text node and an offset in it.  Strings are left out: a CFI is its    *)
(* list of parts, as partToString writes them.  Elements have no id: the   *)
(* reader writes the id of an element beside its index and looks it up     *)
(* first, which leads to the element the index leads to as long as the     *)
(* document is the one the CFI was made of.  Temporal and spatial offsets  *)
(* and node filters, which the reader never writes, are left out.          *)
(***************************************************************************)
EXTENDS ClientEvents, Sequences, FiniteSets, SequencesExt

CONSTANT Documents   \* the documents

VARIABLES
    dom,      \* the document
    range     \* the range that was kept last

positionVars == <<dom, range, events>>

TextNode(n) == [tag |-> "text", len |-> n, kids |-> <<>>]
ElementNode(kids) == [tag |-> "element", len |-> 0, kids |-> kids]

(***************************************************************************)
(* Nodes and indices                                                       *)
(***************************************************************************)
ChildNodes(path) == IF path = <<>> THEN dom ELSE dom[path[1]].kids
ElementsBefore(kids, k) == Cardinality({i \in 1 .. (k - 1) : kids[i].tag = "element"})

(* indexChildNodes: elements have even indices, the text before, between and after them odd ones. *)
IndexOf(kids, k) == 2 * ElementsBefore(kids, k) + (IF kids[k].tag = "text" THEN 1 ELSE 2)
Chunk(kids, index) == SetToSortSeq({k \in DOMAIN kids : IndexOf(kids, k) = index}, <)

LengthOf(kids, ks) == FoldSeq(LAMBDA k, n : n + kids[k].len, 0, ks)

(* nodeToParts: the offset counts from the start of the run of text nodes; -1 is no offset. *)
NodeToParts(point) ==
    LET kids == ChildNodes(Front(point.path))
        k == point.path[Len(point.path)]
        before == SelectSeq(Chunk(kids, IndexOf(kids, k)), LAMBDA i : i < k)
        parents == IF Len(point.path) = 2 THEN <<[index |-> IndexOf(dom, point.path[1]), offset |-> -1]>> ELSE <<>>
    IN  Append(parents, [index |-> IndexOf(kids, k), offset |-> LengthOf(kids, before) + point.offset])

Nowhere == [path |-> <<>>, offset |-> 0]

(* partsToNode: the first text node of the run that reaches the offset. *)
PartsToNode(parts) ==
    LET last == parts[Len(parts)]
        path == IF Len(parts) = 2 THEN Chunk(dom, parts[1].index) ELSE <<>>
        kids == ChildNodes(path)
        run == Chunk(kids, last.index)
        upTo(n) == LengthOf(kids, SubSeq(run, 1, n))
        n == SelectInSeq([i \in DOMAIN run |-> upTo(i)], LAMBDA sum : sum >= last.offset)
    IN  IF n = 0 THEN Nowhere
        ELSE [path |-> Append(path, run[n]), offset |-> last.offset - upTo(n - 1)]

(***************************************************************************)
(* CFIs                                                                    *)
(***************************************************************************)

(* collapse: the parent's parts, then those of one end. *)
Collapse(cfi, toEnd) == cfi.parent \o (IF toEnd THEN cfi.end ELSE cfi.start)

(* buildRange: the parts both ends share, up to the first difference or offset. *)
BuildRange(from, to) ==
    LET free(part) == part.offset < 1
        same == {i \in DOMAIN from : i \in DOMAIN to /\ \A j \in 1 .. i :
                     from[j].index = to[j].index /\ free(from[j]) /\ free(to[j])}
        n == Cardinality(same)
    IN  [parent |-> SubSeq(from, 1, n), start |-> SubSeq(from, n + 1, Len(from)), end |-> SubSeq(to, n + 1, Len(to))]

(* fromRange *)
FromRange(r) ==
    IF r.from = r.to THEN [parent |-> NodeToParts(r.from), start |-> <<>>, end |-> <<>>]
    ELSE BuildRange(NodeToParts(r.from), NodeToParts(r.to))

(* toRange *)
ToRange(cfi) == [from |-> PartsToNode(Collapse(cfi, FALSE)), to |-> PartsToNode(Collapse(cfi, TRUE))]

(* compare, for two points: the first index that differs, the shorter path, the last offset. *)
ComparePoints(p, q) ==
    LET n == IF Len(p) < Len(q) THEN Len(p) ELSE Len(q)
        d == SelectInSeq([i \in 1 .. n |-> p[i].index # q[i].index], LAMBDA b : b)
    IN  IF d # 0 THEN (IF p[d].index > q[d].index THEN 1 ELSE -1)
        ELSE IF Len(p) # Len(q) THEN (IF Len(p) > Len(q) THEN 1 ELSE -1)
        ELSE LET x == p[n].offset y == q[n].offset IN IF x > y THEN 1 ELSE IF x < y THEN -1 ELSE 0

(***************************************************************************)
(* Keeping a range                                                         *)
(***************************************************************************)
TextPoints ==
    LET top == {<<i>> : i \in DOMAIN dom}
        deep == UNION {{<<i, j>> : j \in DOMAIN dom[i].kids} : i \in DOMAIN dom}
        node(path) == ChildNodes(Front(path))[path[Len(path)]]
    IN  UNION {{[path |-> p, offset |-> o] : o \in 0 .. node(p).len} : p \in {p \in top \cup deep : node(p).tag = "text"}}

PositionsInit ==
    /\ dom \in Documents
    /\ range = [from |-> Nowhere, to |-> Nowhere, kept |-> FALSE]

(* A page is shown, a sentence is read, a bookmark is set: this range is kept. *)
KeepRange(p, q) ==
    /\ range' = [from |-> p, to |-> q, kept |-> TRUE]
    /\ UNCHANGED dom

PositionsNext == External /\ \E p, q \in TextPoints : KeepRange(p, q)

(***************************************************************************)
(* Properties                                                              *)
(***************************************************************************)

(* Where a point is, whatever text node it is counted in. *)
Whereabouts(p) ==
    LET kids == ChildNodes(Front(p.path))
        k == p.path[Len(p.path)]
        e == ElementsBefore(kids, k)
        run == {i \in 1 .. (k - 1) : kids[i].tag = "text" /\ ElementsBefore(kids, i) = e}
    IN  <<Front(p.path), e, LengthOf(kids, SetToSortSeq(run, <)) + p.offset>>

(* A range comes back from its CFI where it was, to the character, also when   *)
(* text is divided into several nodes and when both ends share a node.         *)
RangeComesBack ==
    range.kept =>
        LET back == ToRange(FromRange(range))
        IN  /\ back.from # Nowhere /\ Whereabouts(back.from) = Whereabouts(range.from)
            /\ back.to # Nowhere /\ Whereabouts(back.to) = Whereabouts(range.to)

(* CFIs compare as their points stand in the document. *)
CompareIsOrder ==
    LET flat(p) == \* the number of elements and characters that begin before the point, in document order
            LET i == p.path[1]
                before == {<<a>> : a \in 1 .. (i - 1)}
                inside == UNION {{<<a, b>> : b \in DOMAIN dom[a].kids} : a \in 1 .. (i - 1)}
                here == IF Len(p.path) = 2 THEN {<<i>>} \cup {<<i, b>> : b \in 1 .. (p.path[2] - 1)} ELSE {}
                node(q) == ChildNodes(Front(q))[q[Len(q)]]
                weight(q) == IF node(q).tag = "text" THEN node(q).len ELSE 1
            IN  p.offset + FoldSeq(LAMBDA q, n : n + weight(q), 0, SetToSeq(before \cup inside \cup here))
        sign(n) == IF n > 0 THEN 1 ELSE IF n < 0 THEN -1 ELSE 0
    IN  range.kept /\ Len(range.from.path) = Len(range.to.path) =>
            \/ ComparePoints(NodeToParts(range.from), NodeToParts(range.to)) = sign(flat(range.from) - flat(range.to))
            \/ flat(range.from) = flat(range.to)

(***************************************************************************)
(* Which chapter the reader is in and how far: TOCProgress and             *)
(* SectionProgress of public/foliate/progress.js, #onRelocate of view.js   *)
(* and the relocate handler of hooks/useFoliateView.ts.                    *)
(*                                                                         *)
(* A section has PagesEach pages; a fragment is the page it is on, NoHash  *)
(* an entry without one, NotThere one whose element the document lacks.    *)
(* Fractions of the book are numerators over Total * PagesEach.            *)
(***************************************************************************)

CONSTANTS Contents, PagesEach   \* tables of contents with the sections they are of
ASSUME PagesAssumption == PagesEach \in Nat \ {0}

VARIABLES
    contents,   \* the book: [toc, sections]; an entry is [section, at, subs], a section [size, linear]
    spot        \* where the reader is and what it shows

progressVars == <<contents, spot, events>>

NoHash == 0
NotThere == -1

(***************************************************************************)
(* TOCProgress                                                             *)
(***************************************************************************)

(* assignIDs, flatten: an entry, then the entries below it. *)
Entries ==
    FlattenSeq([n \in DOMAIN contents.toc |->
        LET e == contents.toc[n] IN <<[section |-> e.section, at |-> e.at]>> \o e.subs])

(* The entries of a section, and the one before the first of them. *)
Group(s) ==
    LET ns == SelectSeq([n \in DOMAIN Entries |-> n], LAMBDA n : Entries[n].section = s)
    IN  [prev |-> IF ns = <<>> THEN 0 ELSE ns[1] - 1, items |-> ns]

(* init: a section no entry leads to belongs to the group of the one before it. *)
MapOf(s) ==
    LET with == {t \in 1 .. s : Group(t).items # <<>>}
    IN  IF with = {} THEN 0 ELSE CHOOSE t \in with : \A u \in with : u <= t

(* The element of the entry is behind the visible range.  In another document it is not found. *)
Passed(at, s, group, p) == s = group /\ at > 0 /\ at > p

(* getProgress: the number of the entry, 0 for none. *)
TOCItemOf(s, p) ==
    LET g == MapOf(s)
        items == Group(g).items
        ahead == SelectInSeq(items, LAMBDA n : Passed(Entries[n].at, s, g, p))
    IN  CASE g = 0 \/ items = <<>> -> 0
          [] Len(items) = 1 /\ Entries[items[1]].at = NoHash -> items[1]
          [] ahead = 0 -> items[Len(items)]
          [] ahead = 1 -> Group(g).prev
          [] OTHER -> items[ahead - 1]

(***************************************************************************)
(* SectionProgress                                                         *)
(***************************************************************************)
Size(s) == IF contents.sections[s].linear THEN contents.sections[s].size ELSE 0
SizeUpTo(s) == FoldSeq(LAMBDA t, n : n + Size(t), 0, [t \in 1 .. s |-> t])
Total == SizeUpTo(Len(contents.sections))

(* getProgress: what was read before this page. *)
FractionOf(s, pagesBefore) == SizeUpTo(s - 1) * PagesEach + pagesBefore * Size(s)

(* getSection: the section and, over its size, the pages of it before the point. *)
GetSection(f) ==
    LET s == SelectInSeq([t \in DOMAIN contents.sections |-> SizeUpTo(t) * PagesEach], LAMBDA x : x > f)
        last == Len(contents.sections)
    IN  CASE f <= 0 -> [section |-> 1, over |-> 0]
          [] f >= Total * PagesEach -> [section |-> last, over |-> PagesEach * Size(last)]
          [] OTHER -> [section |-> s, over |-> f - SizeUpTo(s - 1) * PagesEach]

(***************************************************************************)
(* The reader                                                              *)
(***************************************************************************)
ProgressInit ==
    /\ contents \in Contents
    /\ spot = [section |-> 0, page |-> 0, read |-> 0, chapter |-> 0]

(* #onRelocate and the relocate handler: the page counts as read; a chapter that has no name *)
(* leaves the last one standing.  A book of no size is read to 0.                            *)
RelocateTo(s, p) ==
    /\ spot' = [section |-> s, page |-> p,
                read |-> IF Total = 0 THEN 0 ELSE FractionOf(s, p),
                chapter |-> IF TOCItemOf(s, p) = 0 THEN spot.chapter ELSE TOCItemOf(s, p)]
    /\ UNCHANGED contents

ProgressNext == External /\ \E s \in DOMAIN contents.sections, p \in 1 .. PagesEach : RelocateTo(s, p)

(***************************************************************************)
(* Properties                                                              *)
(***************************************************************************)

(* Where an entry begins: its page; the start of its section without one; an    *)
(* element that is not in the document counts where the entry before it begins. *)
StartOf ==
    LET start[n \in 0 .. Len(Entries)] ==
            IF n = 0 THEN <<0, 0>>
            ELSE LET i == Entries[n]
                 IN  IF i.at > 0 THEN <<i.section, i.at>>
                     ELSE IF i.at = NotThere /\ start[n - 1][1] = i.section THEN start[n - 1]
                     ELSE <<i.section, 0>>
    IN  start
Upto(p, q) == p[1] < q[1] \/ (p[1] = q[1] /\ p[2] <= q[2])
InOrder == \A n \in 1 .. (Len(Entries) - 1) : Upto(StartOf[n], StartOf[n + 1])

(* Of a table of contents in the order of the book, the chapter shown is the    *)
(* last one that has begun by the end of the page, in sections of their own, in *)
(* sections shared by several and in those that no entry leads to.              *)
ChapterIsLatest ==
    LET begun == {n \in DOMAIN Entries : Upto(StartOf[n], <<spot.section, spot.page>>)}
    IN  (spot.section # 0 /\ InOrder /\ begun # {}) =>
            spot.chapter = CHOOSE n \in begun : \A k \in begun : k <= n

(* Reading on never lowers the share that is read, and the last page of the     *)
(* last section that counts makes it whole.                                     *)
ShareGrows ==
    (spot.section # 0 /\ Total > 0) =>
        /\ spot.read <= Total * PagesEach
        /\ \A s \in DOMAIN contents.sections, p \in 1 .. PagesEach :
              Upto(<<spot.section, spot.page>>, <<s, p>>) => spot.read <= FractionOf(s, p)
        /\ (\A s \in DOMAIN contents.sections : s > spot.section => Size(s) = 0) /\ spot.page = PagesEach
              => spot.read = Total * PagesEach

(* getSection undoes getProgress, as its comment says: from the share before a  *)
(* page of a section that counts it leads to that page.  A page nothing was     *)
(* read before is the first of the book.                                        *)
ShareLeadsBack ==
    (spot.section # 0 /\ Size(spot.section) > 0 /\ FractionOf(spot.section, spot.page - 1) > 0) =>
        GetSection(FractionOf(spot.section, spot.page - 1))
            = [section |-> spot.section, over |-> (spot.page - 1) * Size(spot.section)]
=============================================================================
