------------------------------ MODULE MCReader ------------------------------
(* The parts of the reader: paginated and fixed layout, the resources of a   *)
(* book, positions and progress, the page around the book, bookmarks, the    *)
(* image overlay, the player that reads aloud and the text it reads.  They   *)
(* share no state, so each behaviour exercises one of them, with the events  *)
(* that one needs.                                                           *)
EXTENDS SpeechPlayer, SpeechBuffer, SpeechSource, BookPositions, FixedPages, Paginator, BookLoader, KindleText,
        ReaderChrome, ReaderBookmarks, ReaderTheme, VoicePreview

VARIABLE subject

Budget == [buffer |-> 5, source |-> 1, text |-> 0, positions |-> 1, progress |-> 2, spreads |-> 3,
           pages |-> 3, loader |-> 3, chrome |-> 5, marks |-> 5, zoom |-> 6, theme |-> 3, preview |-> 4,
           packing |-> 5, kindle |-> 3, leaf |-> 0, speech |-> 3]

(***************************************************************************)
(* Inputs                                                                  *)
(***************************************************************************)

(* Sentences: plain, without words, with one override, all override, of many *)
(* bytes a character, in a lot of markup.                                    *)
Span(a, b) == [start |-> a, end |-> b]
Plain(n) == [len |-> n, skip |-> FALSE, weight |-> 1, shell |-> 1, over |-> {},
             words |-> <<Span(0, n)>>, runs |-> <<Span(0, n)>>]
Mute == [Plain(1) EXCEPT !.skip = TRUE]
Spelled == [Plain(6) EXCEPT !.over = {[start |-> 2, end |-> 4, secs |-> 3]},
                            !.words = <<Span(0, 2), Span(2, 5)>>, !.runs = <<Span(0, 1), Span(1, 4), Span(4, 6)>>]
Chanted == [Plain(4) EXCEPT !.over = {[start |-> 0, end |-> 2, secs |-> 5]},
                            !.runs = <<Span(0, 2), Span(2, 4)>>]
Heavy == [Plain(3) EXCEPT !.weight = 4]
Bulky == [Plain(2) EXCEPT !.shell = 20]
BookSet == {<<Plain(8), Mute, Plain(2), Spelled>>, <<Heavy, Plain(1), Plain(4)>>,
            <<Plain(2), Chanted, Bulky, Plain(1)>>}

(* Volumes: any section of up to three characters, first or behind sections *)
(* that are not read or cannot be opened.                                   *)
Glyphs == [kind : {"letter", "stop"}, block : BOOLEAN, hidden : {FALSE}]
            \cup [kind : {"blank"}, block : BOOLEAN, hidden : {FALSE}]
            \cup [kind : {"letter"}, block : BOOLEAN, hidden : {TRUE}]
Letter == [kind |-> "letter", block |-> TRUE, hidden |-> FALSE]
SectionOf(linear, opens, glyphs) == [linear |-> linear, opens |-> opens, chars |-> glyphs]
Shut == SectionOf(TRUE, FALSE, <<Letter>>)
Side == SectionOf(FALSE, TRUE, <<Letter>>)
Coda == SectionOf(TRUE, TRUE, <<Letter, Letter>>)
VolumeSet == {<<Coda, Side, Shut, SectionOf(TRUE, TRUE, g)>> : g \in BoundedSeq(Glyphs, 3)}
               \cup {<<SectionOf(TRUE, TRUE, g), Coda>> : g \in BoundedSeq(Glyphs, 3)}

(* Scripts: two long units, or up to four short ones. *)
UnitsOf(n) == {TextUnit(c) : c \in BoundedSeq(Chars, n) \ {<<>>}} \cup {MarkUnit(tag) : tag \in Marks}
ScriptSet == UNION {[1 .. 2 -> UnitsOf(2)], [1 .. 3 -> UnitsOf(1)], [1 .. 4 -> UnitsOf(1)]}

(* Documents: up to two levels of elements, and texts side by side. *)
Inner == BoundedSeq({TextNode(1), TextNode(2), ElementNode(<<>>)}, 2)
Outer == {TextNode(1), TextNode(2)} \cup {ElementNode(k) : k \in Inner}
DocumentSet == BoundedSeq(Outer, 2) \cup {<<TextNode(1), TextNode(2), TextNode(1)>>,
                                          <<TextNode(1), ElementNode(<<TextNode(2)>>), TextNode(1)>>}

(* Tables of contents: up to two entries, or one with a sub-entry. *)
TocEntry(s, at, subs) == [section |-> s, at |-> at, subs |-> subs]
Anchors == {NoHash, NotThere, 1, 2}
Tocs == {<<>>} \cup {<<TocEntry(s, a, <<>>)>> : s \in 1 .. 3, a \in Anchors}
          \cup {<<TocEntry(s, a, <<>>), TocEntry(r, b, <<>>)>> : s, r \in 1 .. 3, a, b \in Anchors}
          \cup {<<TocEntry(2, a, <<[section |-> 2, at |-> 2]>>), TocEntry(s, b, <<>>)>> : a, b \in Anchors, s \in 2 .. 3}
Sized(a, b, c) == <<[size |-> a, linear |-> TRUE], [size |-> b, linear |-> TRUE], [size |-> c, linear |-> c # 2]>>
ContentsSet == [toc : Tocs, sections : {Sized(1, 2, 1)}]
                 \cup [toc : {<<>>}, sections : {Sized(a, b, c) : a, b, c \in 0 .. 2}]

(* Fixed layouts: any sides of two pages, some of three, the modes of four. *)
PageLists == UNION {[1 .. n -> {"none", "left", "right", "center"}] : n \in 1 .. 2}
               \cup {<<"none", "none", "none">>, <<"right", "left", "right">>, <<"left", "right", "center">>,
                     <<"center", "none", "none">>, <<"none", "center", "left">>, <<"right", "center", "center">>}
LayoutSet == [spread : {"auto"}, rtl : BOOLEAN, pages : PageLists]
               \cup [spread : {"none", "both", "portrait", "auto"}, rtl : {FALSE}, pages : {<<"none", "none", "none", "none">>}]

(* Stored themes: of an older version, with a preset and a size that are not offered, and good. *)
KnownItems == {[preset |-> "light", size |-> 0], [preset |-> "odd", size |-> 9], [preset |-> "sepia", size |-> 2]}

(* Kindle books: sections that are cut, whole, or all cut out, in records of two *)
(* or three bytes; page breaks and links anywhere; entries with up to four groups. *)
Piece(n) == [cut |-> FALSE, len |-> n]
CutOut(n) == [cut |-> TRUE, len |-> n]
Sliced == <<Piece(1), CutOut(2), Piece(1), CutOut(1), CutOut(1)>>
KindleSet == {[sections |-> <<<<Piece(2), CutOut(1)>>, Sliced, <<CutOut(1), Piece(1)>>>>, record |-> 3, fdst |-> TRUE],
              [sections |-> <<Sliced, <<Piece(1)>>, <<Piece(2), CutOut(2)>>>>, record |-> 2, fdst |-> TRUE],
              [sections |-> <<Sliced, <<CutOut(2)>>>>, record |-> 2, fdst |-> FALSE]}
EmptyLeaf == [NoLeaf EXCEPT !.groups = <<0, 0, 0, 0>>]
LeafSet == {[EmptyLeaf EXCEPT !.breaks = b, !.refs = r] : b \in SUBSET (1 .. 3), r \in SUBSET (0 .. 3)}
             \cup {[EmptyLeaf EXCEPT !.groups = <<a, b, c, d>>] : a, b \in 0 .. 1, c, d \in 0 .. 4}

TextSeq == <<3, 1, 2, 1>>
UsesOf == [one |-> <<"image">>, two |-> <<"style", "image", "image">>, three |-> <<"style">>,
           style |-> <<"image">>, image |-> <<>>]

(***************************************************************************)
(* The specification                                                       *)
(***************************************************************************)
textAloudVars == <<book, buffer, calls, given, volume, cursor, script, breaks>>
placeVars == <<dom, range, contents, spot>>
layoutVars == <<fixed, moves, pager, pagerTasks, loader, jobs, shown>>
amazonVars == <<packed, kindle, asks, leaf>>
pageVars == <<page, chrome, marks, wire, kept, zoom, touch, hands>>
choiceVars == <<setting, tabs, preview, voices>>
playerVars == <<player, hook, tasks, pool>>
vars == <<textAloudVars, placeVars, layoutVars, pageVars, choiceVars, amazonVars, playerVars, events, subject>>

(* What is not the subject has the emptiest input. *)
Init ==
    /\ subject \in DOMAIN Budget
    /\ events = MaxEvents - Budget[subject]
    /\ BufferInit /\ (subject # "buffer" => Len(book) = 3)
    /\ PositionsInit /\ (subject # "positions" => dom = <<>>)
    /\ FixedInit /\ (subject # "spreads" => fixed.book.pages = <<"none">> /\ ~fixed.book.rtl /\ ~fixed.tall)
    /\ PaginatorInit /\ (subject # "pages" => pager.size = CHOOSE size \in PageSizes : TRUE)
    /\ LoaderInit /\ ChromeInit /\ ZoomInit
    /\ ThemeInit /\ (subject # "theme" => setting.preset = "light")
    /\ PreviewInit /\ (subject # "preview" => voices.preferred \in Fallback)
    /\ MarksInit /\ (subject # "marks" => kept.list = <<>>)
    /\ PackInit
    /\ KindleInit /\ (subject # "kindle" => kindle.book = CHOOSE b \in Kindles : TRUE)
    /\ LeafInit /\ (subject # "leaf" => leaf = NoLeaf)
    /\ SpeechInit /\ (subject # "speech" => hook.view = 1)
    /\ IF subject = "progress" THEN ProgressInit
       ELSE /\ contents = [toc |-> <<>>, sections |-> Sized(1, 2, 1)]
            /\ spot = [section |-> 0, page |-> 0, read |-> 0, chapter |-> 0]
    /\ IF subject = "source" THEN SourceInit ELSE volume = <<Shut>> /\ cursor = [section |-> 1, offset |-> 1]
    /\ IF subject = "text" THEN TextInit ELSE script = <<>> /\ breaks = [done |-> FALSE, at |-> {}]

BookNext ==
    /\ UNCHANGED playerVars
    /\ \/ /\ \/ subject = "buffer" /\ BufferNext /\ UNCHANGED <<volume, cursor, script, breaks>>
             \/ subject = "source" /\ SourceNext /\ UNCHANGED <<book, buffer, calls, given, script, breaks>>
             \/ subject = "text" /\ TextNext /\ UNCHANGED <<book, buffer, calls, given, volume, cursor>>
          /\ UNCHANGED <<placeVars, layoutVars, pageVars, choiceVars, amazonVars>>
       \/ /\ \/ subject = "positions" /\ PositionsNext /\ UNCHANGED <<contents, spot>>
             \/ subject = "progress" /\ ProgressNext /\ UNCHANGED <<dom, range>>
          /\ UNCHANGED <<textAloudVars, layoutVars, pageVars, choiceVars, amazonVars>>
       \/ /\ \/ subject = "spreads" /\ FixedNext /\ UNCHANGED <<pager, pagerTasks, loader, jobs, shown>>
             \/ subject = "pages" /\ PaginatorNext /\ UNCHANGED <<fixed, moves, loader, jobs, shown>>
             \/ subject = "loader" /\ LoaderNext /\ UNCHANGED <<fixed, moves, pager, pagerTasks>>
          /\ UNCHANGED <<textAloudVars, placeVars, pageVars, choiceVars, amazonVars>>
       \/ /\ \/ subject = "chrome" /\ ChromeNext /\ UNCHANGED <<marks, wire, kept, zoom, touch, hands>>
             \/ subject = "marks" /\ MarksNext /\ UNCHANGED <<page, chrome, zoom, touch, hands>>
             \/ subject = "zoom" /\ ZoomNext /\ UNCHANGED <<page, chrome, marks, wire, kept>>
          /\ UNCHANGED <<textAloudVars, placeVars, layoutVars, choiceVars, amazonVars>>
       \/ /\ \/ subject = "theme" /\ ThemeNext /\ UNCHANGED <<preview, voices>>
             \/ subject = "preview" /\ PreviewNext /\ UNCHANGED <<setting, tabs>>
          /\ UNCHANGED <<textAloudVars, placeVars, layoutVars, pageVars, amazonVars>>
       \/ /\ \/ subject = "packing" /\ PackNext /\ UNCHANGED <<kindle, asks, leaf>>
             \/ subject = "kindle" /\ KindleNext /\ UNCHANGED <<packed, leaf>>
          /\ UNCHANGED <<textAloudVars, placeVars, layoutVars, pageVars, choiceVars>>

Next ==
    /\ UNCHANGED subject
    /\ \/ BookNext
       \/ /\ subject = "speech" /\ SpeechNext
          /\ UNCHANGED <<textAloudVars, placeVars, layoutVars, pageVars, choiceVars, amazonVars>>

Spec == Init /\ [][Next]_vars

(* The text of a book is spoken once, in order, from where the reader is, in   *)
(* slices and batches that cover it, with one pause where the text has one     *)
(* (text-walker.js, tts.js, tts-text.ts, tts-batch.ts).                        *)
SpokenTextSafe ==
    /\ ReadOnceInOrder /\ ResumesHere /\ PreviousIsPrevious
    /\ NoStackedBreaks /\ EveryPauseHeard /\ BufferSafe

(* A place is found again and told apart from others, and the chapter and the  *)
(* share that are shown belong to it (epubcfi.js, progress.js).                *)
PlacesSafe == RangeComesBack /\ CompareIsOrder /\ ChapterIsLatest /\ ShareGrows /\ ShareLeadsBack

(* What an open book answers is right: places and shares, the pages of a       *)
(* spread, the resources its sections use, and the text of a Kindle book       *)
(* (epubcfi.js, progress.js, fixed-layout.js, epub.js, mobi.js).               *)
BookSafe == PlacesSafe /\ SpreadsSafe /\ ResourcesSafe /\ KindleSafe

(* The page around the book does one thing at a time and ends what it began:   *)
(* header, table of contents, keys and the fingers on an image                 *)
(* (useReaderControls.ts, ReaderImageZoomOverlay.tsx).                         *)
ControlsSafe == [](HeaderShown /\ TocLocated /\ PointersAccounted /\ DragHolds) /\ OneThingAtATime
=============================================================================
