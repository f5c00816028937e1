-------------------------------- MODULE Shelf --------------------------------
(***************************************************************************)
(* The shelf client: hooks/useShelfData.ts as app/shelf/page.tsx drives    *)
(* it.  Pages, searches, counts, reading progress, processing states and   *)
(* edits are requests that overlap freely.  A record of `requests` is one  *)
(* request in flight; `libs` are the libraries the server has had since it *)
(* was sent, and its answer is read from any one of them.  The code keeps  *)
(* late answers out with three generation counters and two abort           *)
(* controllers.  An aborted request only fails; one whose failure has no   *)
(* effect leaves `requests` when it is aborted.                            *)
(*                                                                         *)
(* A change of the selection and the effects React runs for it are one     *)
(* step: no answer is handled between a render and its effects.            *)
(***************************************************************************)
EXTENDS ClientEvents, FiniteSets, FiniteSetsExt

CONSTANTS OldBooks, NewBooks, Categories, Sorts, Words, PageSize, MaxUploads
VARIABLES lib, shelf, requests, edits, upload, given   \* given: history, the ids of all books there ever were

shelfVars == <<lib, shelf, requests, edits, upload, given, events>>

BookIds == OldBooks \cup NewBooks
NoCategory == "uncategorized"
NoWord == "nothing"   \* an empty search field
Labels == Categories \cup {NoCategory}
Filters == Labels \cup {"all"}

ASSUME ShelfAssumption ==
    /\ BookIds \subseteq Nat \ {0} /\ IsFiniteSet(BookIds) /\ OldBooks \cap NewBooks = {}
    /\ PageSize \in Nat \ {0} /\ MaxUploads \in Nat \ {0}
    /\ NoCategory \notin Categories /\ "all" \notin Categories /\ NoWord \notin Words

-----------------------------------------------------------------------------
(* The server. *)

Ids(books) == {k.id : k \in books}
Listed(l) == {[id |-> b, cat |-> l[b].cat, pending |-> l[b].pending] : b \in DOMAIN l}

(* A search word w finds the books whose number ends in it: any fixed choice would do. *)
Finds(w, b) == w = NoWord \/ b % 2 = 1

Fits(filter, w, book) == (filter = "all" \/ book.cat = filter) /\ Finds(w, book.id)

(* The order the sort asks for: a cursor is the last book of the page before it. *)
Beyond(sort, cursor, b) ==
    cursor = 0 \/ (IF sort = "title" THEN b > cursor ELSE b < cursor)

(* One page: the first PageSize books past the cursor, and the cursor that goes on. *)
PageOf(l, q) ==
    LET rest == {k \in Listed(l) : Fits(q.filter, q.word, k) /\ Beyond(q.sort, q.cursor, k.id)}
        before(k) == {j \in rest : j # k /\ (IF q.sort = "title" THEN j.id < k.id ELSE j.id > k.id)}
        page == {k \in rest : Cardinality(before(k)) < PageSize}
        end == CHOOSE k \in page : \A j \in page : j = k \/ j \in before(k)
    IN  [books |-> page,
         cursor |-> IF page = rest THEN 0 ELSE end.id]

(* getBookLibrarySummary. *)
Counts(l) == [c \in Labels |-> Cardinality({b \in DOMAIN l : l[b].cat = c})]

-----------------------------------------------------------------------------
(* The client. *)

NoPage == [known |-> FALSE, books |-> {}, cursor |-> 0,
           of |-> [filter |-> "all", sort |-> "title", word |-> NoWord]]
NoSummary == [known |-> FALSE, counts |-> [c \in Labels |-> 0]]
NoUpload == [active |-> FALSE, todo |-> {}, running |-> {}, ok |-> 0, reload |-> 0,
             by |-> [filter |-> "all", sort |-> "title"]]

ShelfInit ==
    /\ lib \in [OldBooks -> [cat : Categories, pending : {FALSE}]]
    /\ shelf = [auth |-> TRUE, filter |-> "all", sort |-> "title", word |-> NoWord,
                list |-> NoPage, found |-> NoPage, summary |-> NoSummary, progress |-> {},
                loading |-> TRUE, more |-> FALSE, searching |-> FALSE, failed |-> FALSE,
                load |-> 0, search |-> 0, sum |-> 0, loadTimer |-> TRUE, searchTimer |-> FALSE,
                late |-> FALSE, touched |-> {}, missed |-> FALSE]
    /\ requests = {}
    /\ edits = {}
    /\ upload = NoUpload
    /\ given = OldBooks

Ask(w, cursor) == [filter |-> shelf.filter, sort |-> shelf.sort, word |-> w, cursor |-> cursor]

(* A request to the library l: the generations it captured, and what it asks for. *)
NewRequest(l, kind, sh, q, ids) ==
    [kind |-> kind, load |-> sh.load, search |-> sh.search, sum |-> sh.sum, aborted |-> FALSE,
     query |-> q, ids |-> ids, libs |-> IF sh.auth THEN {l} ELSE {}]

(* Only the end of a page request changes the state after an abort: its finally block. *)
AbortCalls(cs, kinds) ==
    {c \in cs : c.kind \notin kinds}
      \cup {[c EXCEPT !.aborted = TRUE] : c \in {d \in cs : d.kind \in kinds \cap {"page", "more"}}}
LoadCalls == {"page", "pageSummary", "pageProgress"}
MoreCalls == {"more", "moreProgress"}
SearchCalls == {"search", "searchProgress"}

(* The auth effect of a user who is not signed in: private data goes, whatever is in *)
(* flight is overtaken.                                                              *)
ClearPrivate(sh) ==
    [sh EXCEPT !.load = sh.load + 1, !.search = sh.search + 1, !.sum = sh.sum + 1,
               !.list = NoPage, !.found = NoPage, !.summary = NoSummary, !.progress = {}]

(* The auth effect, its cleanup and the search effect, for a changed selection. *)
Reselect(sh) ==
    LET word == sh.auth /\ sh.word # NoWord
        seen == IF sh.auth THEN sh ELSE ClearPrivate(sh)
    IN  [seen EXCEPT !.loadTimer = sh.auth, !.search = seen.search + 1, !.more = FALSE,
                     !.searchTimer = word, !.searching = word,
                     !.found = IF word THEN seen.found ELSE NoPage]

SelectionAborts(cs) == AbortCalls(cs, LoadCalls \cup MoreCalls \cup SearchCalls)

Select(sh) == shelf' = Reselect(sh) /\ requests' = SelectionAborts(requests)

SetSelectedCategoryId(f) ==
    /\ External
    /\ shelf.auth /\ f # shelf.filter
    /\ Select([shelf EXCEPT !.filter = f])
    /\ UNCHANGED <<lib, edits, upload, given>>

SetSortBy(s) ==
    /\ External
    /\ shelf.auth /\ s # shelf.sort
    /\ Select([shelf EXCEPT !.sort = s])
    /\ UNCHANGED <<lib, edits, upload, given>>

(* Typing runs the search effect alone: the list keeps its page. *)
SetSearchQuery(w) ==
    /\ External
    /\ shelf.auth /\ w # shelf.word
    /\ shelf' = [Reselect([shelf EXCEPT !.word = w]) EXCEPT !.loadTimer = shelf.loadTimer]
    /\ requests' = AbortCalls(requests, MoreCalls \cup SearchCalls)
    /\ UNCHANGED <<lib, edits, upload, given>>

(* isAuthenticated becomes false. *)
Logout ==
    /\ External
    /\ shelf.auth
    /\ Select([shelf EXCEPT !.auth = FALSE])
    /\ UNCHANGED <<lib, edits, upload, given>>

(* loadBooks, as the closure for one filter and sort. *)
LoadBooksTo(sh, by) ==
    [sh EXCEPT !.load = @ + 1, !.sum = @ + 1, !.more = FALSE, !.list.cursor = 0,
               !.loading = TRUE, !.failed = FALSE, !.progress = {},
               !.late = by # [filter |-> sh.filter, sort |-> sh.sort]]

LoadBooksCalls(cs, l, sh, by) ==
    LET q == [filter |-> by.filter, sort |-> by.sort, word |-> NoWord, cursor |-> 0] IN
    AbortCalls(cs, LoadCalls \cup MoreCalls)
      \cup {NewRequest(l, "page", sh, q, {}), NewRequest(l, "pageSummary", sh, q, {})}

Selection == [filter |-> shelf.filter, sort |-> shelf.sort]

(* The zero timer of the auth effect. *)
LoadTimerFires ==
    /\ shelf.loadTimer
    /\ shelf' = [LoadBooksTo(shelf, Selection) EXCEPT !.loadTimer = FALSE]
    /\ requests' = LoadBooksCalls(requests, lib, shelf', Selection)
    /\ Internal
    /\ UNCHANGED <<lib, edits, upload, given>>

(* The retry button of the error view. *)
RetryPressed ==
    /\ External
    /\ shelf.auth /\ shelf.failed
    /\ shelf' = LoadBooksTo(shelf, Selection)
    /\ requests' = LoadBooksCalls(requests, lib, shelf', Selection)
    /\ UNCHANGED <<lib, edits, upload, given>>

(* SEARCH_DEBOUNCE_MS after the last change. *)
SearchTimerFires ==
    /\ shelf.searchTimer
    /\ shelf' = [shelf EXCEPT !.searchTimer = FALSE]
    /\ requests' = requests \cup {NewRequest(lib, "search", shelf, Ask(shelf.word, 0), {})}
    /\ Internal
    /\ UNCHANGED <<lib, edits, upload, given>>

(* loadMoreBooks: the page after the one shown, of the list or of the search. *)
LoadMoreBooks ==
    LET cursor == IF shelf.word # NoWord THEN shelf.found.cursor ELSE shelf.list.cursor IN
    /\ External
    /\ shelf.auth /\ cursor # 0 /\ ~shelf.more
    /\ shelf' = [shelf EXCEPT !.more = TRUE]
    /\ requests' = requests \cup {NewRequest(lib, "more", shelf, Ask(shelf.word, cursor), {})}
    /\ UNCHANGED <<lib, edits, upload, given>>

(* The requests in flight may now be answered from the library l as well. *)
Seen(cs, l) == {IF c.libs = {} THEN c ELSE [c EXCEPT !.libs = @ \cup {l}] : c \in cs}

(* pendingBookIDs: the books shown whose processing has not ended. *)
PendingShown(sh) == {k.id : k \in {j \in sh.list.books \cup sh.found.books : j.pending}}

(* Whether an answer may still be used: each kind checks its own generations. *)
Current(sh, c) ==
    /\ ~c.aborted
    /\ c.kind \in LoadCalls \cup MoreCalls => c.load = sh.load
    /\ c.kind \in SearchCalls \cup MoreCalls => c.search = sh.search
    /\ c.kind \in {"pageSummary", "summary"} => c.sum = sh.sum
    /\ c.kind = "status" => sh.auth /\ c.ids = PendingShown(sh)

(* moreAbortRef: the last loadMoreBooks is the one with the highest generations. *)
NewestMore(c) == \A d \in requests : d.kind = "more" => d.load + d.search <= c.load + c.search

Without(books, ids) == {k \in books : k.id \notin ids}

(* mergeBooks: a book of the page replaces the one with its id. *)
MergeBooks(old, page) == Without(old, Ids(page)) \cup page

ProgressCall(kind, c, books) ==
    IF books = {} THEN {} ELSE {[c EXCEPT !.kind = kind, !.ids = Ids(books), !.libs = {lib}]}

ListOf(page, q) == [known |-> TRUE, books |-> page.books, cursor |-> page.cursor,
                    of |-> [filter |-> q.filter, sort |-> q.sort, word |-> q.word]]

(* The first page of loadBooks; the upload that awaits it goes on. *)
PageAnswers(c, l) ==
    LET page == PageOf(l, c.query) IN
    /\ c.kind = "page" /\ ~c.aborted
    /\ shelf' = IF Current(shelf, c) THEN [shelf EXCEPT !.loading = FALSE, !.list = ListOf(page, c.query)]
                ELSE shelf
    /\ requests' = (requests \ {c}) \cup
         IF Current(shelf, c) THEN ProgressCall("pageProgress", c, page.books) ELSE {}
    /\ upload' = IF upload.reload = c.load THEN NoUpload ELSE upload

MoreAnswers(c, l) ==
    LET page == PageOf(l, c.query)
        grown == [(IF c.query.word # NoWord THEN shelf.found ELSE shelf.list) EXCEPT
                    !.books = MergeBooks(@, page.books), !.cursor = page.cursor] IN
    /\ c.kind = "more" /\ ~c.aborted
    /\ shelf' = IF ~Current(shelf, c) THEN [shelf EXCEPT !.more = @ /\ ~NewestMore(c)]
                ELSE IF c.query.word # NoWord THEN [shelf EXCEPT !.more = FALSE, !.found = grown]
                ELSE [shelf EXCEPT !.more = FALSE, !.list = grown]
    /\ requests' = (requests \ {c}) \cup
         IF Current(shelf, c) THEN ProgressCall("moreProgress", c, page.books) ELSE {}
    /\ UNCHANGED upload

SearchAnswers(c, l) ==
    LET page == PageOf(l, c.query) IN
    /\ c.kind = "search"
    /\ shelf' = IF Current(shelf, c)
                THEN [shelf EXCEPT !.searching = FALSE, !.found = ListOf(page, c.query)]
                ELSE shelf
    /\ requests' = (requests \ {c}) \cup
         IF Current(shelf, c) THEN ProgressCall("searchProgress", c, page.books) ELSE {}
    /\ UNCHANGED upload

ProgressAnswers(c) ==
    /\ c.kind \in {"pageProgress", "moreProgress", "searchProgress"}
    /\ shelf' = IF Current(shelf, c) THEN [shelf EXCEPT !.progress = @ \cup c.ids] ELSE shelf
    /\ requests' = requests \ {c}
    /\ UNCHANGED upload

(* The counts of loadBooks, or of loadLibrarySummary after an edit. *)
SummaryAnswers(c, l) ==
    /\ c.kind \in {"pageSummary", "summary"}
    /\ shelf' = IF Current(shelf, c)
                THEN [shelf EXCEPT !.summary = [known |-> TRUE, counts |-> Counts(l)],
                                   !.missed = @ /\ Counts(l) # Counts(lib)]
                ELSE shelf
    /\ requests' = requests \ {c}
    /\ UNCHANGED upload

(* setBooks and setSearchResults over the books already shown. *)
Replace(books, by) == {IF k.id \in Ids(by) THEN CHOOSE j \in by : j.id = k.id ELSE k : k \in books}

(* The poll of the books still pending: one answer replaces what is shown. *)
StatusAnswers(c, l) ==
    LET now == {k \in Listed(l) : k.id \in c.ids} IN
    /\ c.kind = "status"
    /\ shelf' = IF ~Current(shelf, c) THEN shelf
                ELSE [shelf EXCEPT !.list.books = Replace(@, now), !.found.books = Replace(@, now)]
    /\ requests' = requests \ {c}
    /\ UNCHANGED upload

CallAnswers(c) ==
    /\ \E l \in c.libs :
         \/ PageAnswers(c, l) \/ MoreAnswers(c, l) \/ SearchAnswers(c, l) \/ ProgressAnswers(c)
         \/ SummaryAnswers(c, l) \/ StatusAnswers(c, l)
    /\ Internal
    /\ UNCHANGED <<lib, edits, given>>

(* Mutant: a failed page leaves the shelf loading. *)
CallFailsBusy(c) ==
    /\ shelf' = IF c.kind = "page" /\ Current(shelf, c)
                THEN [shelf EXCEPT !.list = NoPage, !.progress = {}, !.failed = TRUE] ELSE shelf
    /\ requests' = requests \ {c}
    /\ Internal
    /\ UNCHANGED <<lib, edits, upload, given>>

(* Refused, timed out or aborted: each kind clears what it was to end. *)
CallFails(c) ==
    /\ shelf' = CASE c.kind = "page" /\ Current(shelf, c) ->
                       [shelf EXCEPT !.list = NoPage, !.progress = {}, !.failed = TRUE,
                                     !.loading = FALSE]
                  [] c.kind = "page" /\ ~Current(shelf, c) ->
                       [shelf EXCEPT !.loading = @ /\ c.load # shelf.load]
                  [] c.kind = "more" ->
                       [shelf EXCEPT !.more = @ /\ ~NewestMore(c)]
                  [] c.kind = "search" /\ Current(shelf, c) ->
                       [shelf EXCEPT !.searching = FALSE,
                                     !.found = ListOf([books |-> {}, cursor |-> 0], c.query)]
                  [] c.kind = "summary" /\ Current(shelf, c) -> [shelf EXCEPT !.summary = NoSummary]
                  [] c.kind = "pageSummary" /\ Current(shelf, c) -> [shelf EXCEPT !.missed = TRUE]
                  [] OTHER -> shelf
    /\ requests' = requests \ {c}
    /\ upload' = IF c.kind = "page" /\ upload.reload = c.load THEN NoUpload ELSE upload
    /\ Internal
    /\ UNCHANGED <<lib, edits, given>>

(* BOOK_PROCESSING_POLL_MS: the books still pending are asked for again. *)
RefreshProcessedBooks ==
    /\ shelf.auth /\ PendingShown(shelf) # {}
    /\ \A c \in requests : c.kind = "status" => c.ids # PendingShown(shelf)
    /\ requests' = requests \cup {NewRequest(lib, "status", [shelf EXCEPT !.load = 0, !.search = 0, !.sum = 0],
                                    Ask(NoWord, 0), PendingShown(shelf))}
    /\ Internal
    /\ UNCHANGED <<lib, shelf, edits, upload, given>>

(* The server finishes processing an uploaded book. *)
BookProcessed(b) ==
    /\ b \in DOMAIN lib /\ lib[b].pending
    /\ lib' = [lib EXCEPT ![b].pending = FALSE]
    /\ requests' = Seen(requests, lib')
    /\ Internal
    /\ UNCHANGED <<shelf, edits, upload, given>>

(* Only the whole library's counts can prove that the selected category is gone. *)
CategoryGone ==
    /\ shelf.auth /\ shelf.filter \in Categories
    /\ shelf.summary.known /\ shelf.summary.counts[shelf.filter] = 0
    /\ Select([shelf EXCEPT !.filter = "all"])
    /\ Internal
    /\ UNCHANGED <<lib, edits, upload, given>>

-----------------------------------------------------------------------------
(* Edits. *)

NewEdit(kind, ids, from, to) ==
    [kind |-> kind, ids |-> ids, from |-> from, to |-> to, served |-> FALSE, after |-> {},
     by |-> Selection]

Shown == IF shelf.word # NoWord /\ shelf.found.known THEN shelf.found.books ELSE shelf.list.books

(* The sheets and dialogs of batch edits are modal; a card's delete is not. *)
NoDialogBusy == \A e \in edits : e.kind = "delete"

(* handleDelete, handleDeleteMany, handleUpdateCategoryMany, handleRenameCategory and *)
(* CategorySelector's saveCategory send their request. *)
SendEdit(e) ==
    /\ External
    /\ shelf.auth
    /\ e.kind # "delete" => NoDialogBusy
    /\ e \notin edits
    /\ edits' = edits \cup {e}
    /\ UNCHANGED <<lib, shelf, requests, upload, given>>

DeleteBook(b) == b \in Ids(Shown) /\ SendEdit(NewEdit("delete", {b}, NoCategory, NoCategory))
DeleteMany == Shown # {} /\ SendEdit(NewEdit("deleteMany", Ids(Shown) \cap Ids(shelf.list.books), NoCategory, NoCategory))
UpdateCategoryMany(c) ==
    Shown # {} /\ SendEdit(NewEdit("category", Ids(Shown) \cap Ids(shelf.list.books), NoCategory, c))
SaveCategory(b, c) == b \in Ids(Shown) /\ SendEdit(NewEdit("single", {b}, NoCategory, c))
RenameCategory(c, d) == c # d /\ SendEdit(NewEdit("rename", {}, c, d))

(* The server applies an edit. *)
ServeEdit(e) ==
    LET ids == IF e.kind = "rename" THEN {b \in DOMAIN lib : lib[b].cat = e.from}
               ELSE e.ids \cap DOMAIN lib IN
    /\ ~e.served /\ shelf.auth
    /\ lib' = IF e.kind \in {"delete", "deleteMany"} THEN [b \in DOMAIN lib \ ids |-> lib[b]]
              ELSE [b \in DOMAIN lib |-> IF b \in ids THEN [lib[b] EXCEPT !.cat = e.to] ELSE lib[b]]
    /\ edits' = (edits \ {e}) \cup
         {[e EXCEPT !.served = TRUE, !.ids = ids, !.after = {k \in Listed(lib') : k.id \in ids}]}
    /\ requests' = Seen(requests, lib')
    /\ Internal
    /\ UNCHANGED <<shelf, upload, given>>

(* Books an answer still under way shows as they were before the edit; kept for the properties. *)
Overlapped(ids, kinds) ==
    {b \in ids : \E c \in requests : c.kind \in kinds /\
                   \E l \in c.libs : \E k \in Listed(l) : k.id = b /\ k \notin Listed(lib)}

DeleteAnswers(e) ==
    /\ e.kind \in {"delete", "deleteMany"}
    /\ shelf' = [shelf EXCEPT
         !.list.books = Without(@, e.ids), !.found.books = Without(@, e.ids),
         !.progress = @ \ e.ids, !.sum = @ + 1,
         !.touched = @ \cup Overlapped(e.ids, {"page", "more", "search", "status"})]
    /\ requests' = requests \cup {NewRequest(lib, "summary", shelf', Ask(NoWord, 0), {})}

CategoryAnswers(e) ==
    /\ e.kind = "category"
    /\ shelf' = [shelf EXCEPT
         !.list.books = Replace(@, e.after), !.found.books = Replace(@, e.after), !.sum = @ + 1,
         !.touched = @ \cup Overlapped(e.ids, {"page", "more", "search", "status"})]
    /\ requests' = requests \cup {NewRequest(lib, "summary", shelf', Ask(NoWord, 0), {})}

(* Mutant: the new name is shown; pages under way are left to arrive. *)
RenameAnswersUnguarded(e) ==
    /\ e.kind = "rename"
    /\ shelf' = [shelf EXCEPT
         !.list.books = Replace(@, e.after), !.found.books = Replace(@, e.after), !.sum = @ + 1,
         !.touched = @ \cup Overlapped(e.ids, {"status"})]
    /\ requests' = requests \cup {NewRequest(lib, "summary", shelf', Ask(NoWord, 0), {})}

(* The books of the category take the new name; its count moves with them. *)
Named(books, e) == {IF k.id \in e.ids THEN [k EXCEPT !.cat = e.to] ELSE k : k \in books}
MovedCounts(old, e) ==
    LET moved == IF old[e.from] # 0 THEN old[e.from] ELSE Cardinality(e.ids)
    IN  [old EXCEPT ![e.from] = 0, ![e.to] = old[e.to] + moved]

(* Whatever was captured before the rename is void, and the selection follows if it *)
(* was the old name when the rename was sent.                                       *)
RenameAnswers(e) ==
    /\ e.kind = "rename"
    /\ shelf' = Reselect([shelf EXCEPT
         !.load = @ + 1, !.search = @ + 1, !.sum = @ + 1,
         !.list.books = Named(@, e), !.found.books = Named(@, e),
         !.summary.counts = IF shelf.summary.known THEN MovedCounts(@, e) ELSE @,
         !.filter = IF e.by.filter # e.from THEN @ ELSE IF e.to = NoCategory THEN "all" ELSE e.to,
         !.touched = @ \cup Overlapped(e.ids, {"status"})])
    /\ requests' = SelectionAborts(requests)

(* CategorySelector: the shelf loads again, with the filter and sort of the press. *)
SingleAnswers(e) ==
    /\ e.kind = "single"
    /\ shelf' = [LoadBooksTo(shelf, e.by) EXCEPT
         !.touched = @ \cup (e.ids \cap Ids(shelf.found.books))
                       \cup Overlapped(e.ids, {"search", "status"})]
    /\ requests' = LoadBooksCalls(requests, lib, shelf', e.by)

EditAnswers(e) ==
    /\ e.served
    /\ DeleteAnswers(e) \/ CategoryAnswers(e) \/ RenameAnswers(e) \/ SingleAnswers(e)
    /\ edits' = edits \ {e}
    /\ Internal
    /\ UNCHANGED <<lib, upload, given>>

(* A refused or unanswered edit: the shelf shows a message and stays as it is. *)
EditFails(e) ==
    /\ edits' = edits \ {e}
    /\ shelf' = IF e.served THEN [shelf EXCEPT !.touched = @ \cup e.ids, !.missed = TRUE]
                ELSE shelf
    /\ Internal
    /\ UNCHANGED <<lib, requests, upload, given>>

-----------------------------------------------------------------------------
(* Uploads. *)

(* uploadFiles: at most MaxUploads workers; each takes the next file when its own has ended. *)
(* A new book has an id that no book had before.                                             *)
UploadFiles(files) ==
    /\ External
    /\ shelf.auth /\ ~upload.active /\ files # {} /\ files \cap given = {}
    /\ \E first \in SUBSET files :
         /\ Cardinality(first) = IF Cardinality(files) < MaxUploads THEN Cardinality(files)
                                 ELSE MaxUploads
         /\ upload' = [NoUpload EXCEPT !.active = TRUE, !.todo = files \ first, !.running = first,
                                       !.by = Selection]
    /\ UNCHANGED <<lib, shelf, requests, edits, given>>

(* One file has ended; after the last one the shelf loads again if any was added. *)
UploadSettles(b, ok) ==
    LET next == IF upload.todo = {} THEN {} ELSE {CHOOSE f \in upload.todo : TRUE}
        after == [upload EXCEPT !.running = (@ \ {b}) \cup next, !.todo = @ \ next,
                                !.ok = @ + IF ok THEN 1 ELSE 0]
        done == after.running = {} IN
    /\ b \in upload.running
    /\ ok => shelf.auth
    /\ lib' = IF ok THEN [k \in DOMAIN lib \cup {b} |->
                            IF k = b THEN [cat |-> NoCategory, pending |-> TRUE] ELSE lib[k]]
              ELSE lib
    /\ given' = IF ok THEN given \cup {b} ELSE given
    /\ IF done /\ after.ok > 0
       THEN /\ shelf' = LoadBooksTo(shelf, upload.by)
            /\ requests' = LoadBooksCalls(Seen(requests, lib'), lib', shelf', upload.by)
            /\ upload' = [after EXCEPT !.reload = shelf'.load]
       ELSE /\ UNCHANGED shelf
            /\ requests' = Seen(requests, lib')
            /\ upload' = IF done THEN NoUpload ELSE after
    /\ Internal
    /\ UNCHANGED edits

-----------------------------------------------------------------------------
ShelfNext ==
    \/ \E f \in Filters : SetSelectedCategoryId(f)
    \/ \E s \in Sorts : SetSortBy(s)
    \/ \E w \in Words \cup {NoWord} : SetSearchQuery(w)
    \/ Logout \/ LoadTimerFires \/ RetryPressed \/ SearchTimerFires \/ LoadMoreBooks
    \/ RefreshProcessedBooks \/ CategoryGone
    \/ \E c \in requests : CallAnswers(c) \/ CallFails(c)
    \/ \E b \in BookIds : BookProcessed(b) \/ DeleteBook(b)
    \/ \E b \in BookIds, c \in Labels : SaveCategory(b, c)
    \/ DeleteMany
    \/ \E c \in Labels : UpdateCategoryMany(c)
    \/ \E c \in Categories, d \in Labels : RenameCategory(c, d)
    \/ \E e \in edits : ServeEdit(e) \/ EditAnswers(e) \/ EditFails(e)
    \/ \E fs \in SUBSET NewBooks : UploadFiles(fs)
    \/ \E b \in NewBooks, ok \in BOOLEAN : UploadSettles(b, ok)

-----------------------------------------------------------------------------
(* What is shown, once nothing loads, belongs to the filter, the sort and the  *)
(* word now selected, whatever order the answers arrived in: except after a    *)
(* reload by an upload or a category change that began under another selection *)
(* (useShelfData.ts loadBooks, the search effect).                             *)
ShownMatchesSelection ==
    LET sel == [filter |-> shelf.filter, sort |-> shelf.sort, word |-> NoWord] IN
    /\ shelf.auth /\ shelf.list.known /\ ~shelf.loading /\ ~shelf.loadTimer /\ ~shelf.late
         => shelf.list.of = sel
    /\ shelf.auth /\ shelf.found.known /\ ~shelf.searching
         => shelf.found.of = [sel EXCEPT !.word = shelf.word]

(* Logging out leaves nothing of the library in the client, also when answers  *)
(* of the session arrive afterwards (useShelfData.ts, the auth effect).        *)
NothingAfterLogout ==
    ~shelf.auth => /\ shelf.list.books = {} /\ shelf.found.books = {} /\ shelf.progress = {}
                   /\ ~shelf.summary.known

(* Every book shown exists and stands under its own category once no edit and  *)
(* no reload is under way: in particular a page read before a rename cannot bring the old   *)
(* name back.  The books an answer overlapped in a way the code does not guard *)
(* are the exception (touched; see Overlapped).                                *)
ShownIsCurrent ==
    edits = {} /\ ~shelf.loading /\ ~shelf.loadTimer => \A k \in shelf.list.books \cup shelf.found.books :
      \/ k.id \in shelf.touched
      \/ (k.id \in DOMAIN lib /\ lib[k.id].cat = k.cat)

(* The counts beside the filters are the library's own once nothing that       *)
(* changes or reads them is under way: a count from before a delete never      *)
(* overwrites the one after it (summaryGenerationRef).                         *)
CountsAreCurrent ==
    /\ shelf.auth /\ shelf.summary.known /\ ~shelf.missed /\ ~shelf.loadTimer
    /\ edits = {} /\ ~upload.active
    /\ \A c \in requests : c.kind \notin {"summary", "pageSummary"}
    => shelf.summary.counts = Counts(lib)

(* The shelf never stays busy: skeletons, the search spinner, the load-more    *)
(* row and the upload state all end.                                           *)
ShelfSettles ==
    /\ (shelf.loading /\ shelf.auth) ~> (~shelf.loading \/ ~shelf.auth)
    /\ shelf.searching ~> ~shelf.searching
    /\ shelf.more ~> ~shelf.more
    /\ upload.active ~> ~upload.active

(* Together: what is shown is the selection of the library as it is. *)
ShelfSafe == ShownMatchesSelection /\ NothingAfterLogout /\ ShownIsCurrent /\ CountsAreCurrent
=============================================================================
