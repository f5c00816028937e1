------------------------------ MODULE ShelfDesk ------------------------------
(***************************************************************************)
(* The shelf page: what it keeps itself (app/shelf/page.tsx), the end of   *)
(* its grid (components/VirtualBookGrid.tsx) and the covers of its cards   *)
(* (hooks/useCoverUrl.ts).  The three share nothing but the page.          *)
(***************************************************************************)
EXTENDS ClientEvents, Sequences, SequencesExt, FiniteSets

(***************************************************************************)
(* What the shelf page itself keeps (app/shelf/page.tsx with BookCard, the *)
(* confirm dialog, the two category sheets and FileUploadAction): the      *)
(* selection and its batch actions, the dialogs, and the overlay for files *)
(* dragged over the page.                                                  *)
(*                                                                         *)
(* The lists come from useShelfData (module Shelf) and may change at any   *)
(* time; here they are sets of books, `loaded` for books and `visible` for *)
(* filteredBooks, `category` says that one category is shown.  `chosen` is *)
(* what was selected since the user last changed search or category.       *)
(* A drag crosses nested elements: the browser fires the                   *)
(* enter of the new element before the leave of the old one.               *)
(***************************************************************************)
CONSTANT Shelved
VARIABLES desk, drag

deskVars == <<desk, drag, events>>

DeskInit ==
    /\ desk = [loaded |-> Shelved, visible |-> Shelved, category |-> FALSE, mode |-> FALSE,
               selected |-> {}, dialog |-> "none", batch |-> {}, uploading |-> FALSE, chosen |-> {}]
    /\ drag = [depth |-> 0, shown |-> FALSE, inside |-> 0, leaving |-> 0]

SelectedExisting == desk.selected \cap desk.loaded
AllVisibleSelected == desk.visible # {} /\ desk.visible \subseteq desk.selected

(* useShelfData replaces the lists: a page, a search, an edit. *)
ListsChange ==
    /\ External
    /\ \E l \in SUBSET Shelved : \E v \in {l, Shelved \ l} :
         desk' = [desk EXCEPT !.loaded = l, !.visible = v]
    /\ UNCHANGED drag

(* A summary no longer knows the category shown: all books are shown; the selection stays. *)
CategoryGone ==
    /\ External
    /\ desk.category
    /\ \E v \in SUBSET Shelved : desk' = [desk EXCEPT !.visible = v, !.category = FALSE]
    /\ UNCHANGED drag

ToggleSelectionMode ==
    /\ External
    /\ desk.dialog = "none"
    /\ desk' = IF desk.mode
               THEN [desk EXCEPT !.mode = FALSE, !.selected = {}, !.chosen = {}]
               ELSE [desk EXCEPT !.mode = TRUE]
    /\ UNCHANGED drag

(* A press on a card selects it in selection mode; otherwise it leaves for the reader. *)
ActivateCard(b) ==
    /\ External
    /\ desk.mode /\ b \in desk.visible /\ desk.dialog = "none"
    /\ desk' = IF b \in desk.selected THEN [desk EXCEPT !.selected = @ \ {b}]
               ELSE [desk EXCEPT !.selected = @ \cup {b}, !.chosen = @ \cup {b}]
    /\ UNCHANGED drag

ToggleVisibleSelection ==
    /\ External
    /\ desk.mode /\ desk.visible # {} /\ desk.dialog = "none"
    /\ desk' = IF AllVisibleSelected THEN [desk EXCEPT !.selected = @ \ desk.visible]
               ELSE [desk EXCEPT !.selected = @ \cup desk.visible, !.chosen = @ \cup desk.visible]
    /\ UNCHANGED drag

(* Mutant: a filter that leaves the selection to the batch bar. *)
ChangeFilterKeeps ==
    /\ External
    /\ desk.dialog = "none"
    /\ \E v \in SUBSET desk.loaded, c \in BOOLEAN :
         desk' = [desk EXCEPT !.visible = v, !.category = c, !.chosen = {}]
    /\ UNCHANGED drag

(* changeSearchQuery, changeSelectedCategory, clearShelfFilters: the selection goes. *)
ChangeFilter ==
    /\ External
    /\ desk.dialog = "none"
    /\ \E v \in SUBSET desk.loaded, c \in BOOLEAN :
         desk' = [desk EXCEPT !.visible = v, !.category = c, !.chosen = {},
                              !.selected = IF desk.mode THEN {} ELSE @]
    /\ UNCHANGED drag

(* The batch bar's buttons open a dialog over the page; Manage opens the category manager. *)
OpenBatchDialog(d) ==
    /\ External
    /\ desk.dialog = "none"
    /\ \/ d = "manage"
       \/ /\ d \in {"delete", "category"} /\ desk.mode /\ desk.visible # {}
          /\ SelectedExisting # {} /\ \A op \in desk.batch : op.kind # d
    /\ desk' = [desk EXCEPT !.dialog = d]
    /\ UNCHANGED drag

(* Cancel, Escape, the close button: also while the request is under way. *)
CloseDialog ==
    /\ External
    /\ desk.dialog # "none"
    /\ desk' = [desk EXCEPT !.dialog = "none"]
    /\ UNCHANGED drag

(* confirmBatchDelete, saveBatchCategory: the request for the books selected and loaded now. *)
ConfirmBatch ==
    /\ External
    /\ desk.dialog \in {"delete", "category"}
    /\ SelectedExisting # {} /\ \A op \in desk.batch : op.kind # desk.dialog
    /\ desk' = [desk EXCEPT !.batch = @ \cup {[kind |-> desk.dialog, ids |-> SelectedExisting]}]
    /\ UNCHANGED drag

(* CategoryManagerSheet: saveRename, clearCategory. *)
ConfirmRename ==
    /\ External
    /\ desk.dialog = "manage" /\ \A op \in desk.batch : op.kind \notin {"category", "manage"}
    /\ desk' = [desk EXCEPT !.batch = @ \cup {[kind |-> "manage", ids |-> {}]}]
    /\ UNCHANGED drag

(* The request for the selection ends.  One that did anything also ends the selection. *)
BatchEnds(op, ok) ==
    /\ op \in desk.batch /\ op.kind # "manage"
    /\ \E v \in SUBSET Shelved :
         /\ v = desk.visible \/ (ok /\ op.kind = "category" /\ desk.category)
         /\ desk' = [desk EXCEPT
              !.batch = @ \ {op},
              !.loaded = IF ok /\ op.kind = "delete" THEN @ \ op.ids ELSE @,
              !.visible = IF ok /\ op.kind = "delete" THEN @ \ op.ids ELSE v,
              !.mode = @ /\ ~ok,
              !.selected = IF ok THEN {} ELSE @,
              !.chosen = IF ok THEN {} ELSE @,
              !.dialog = IF op.kind = @ /\ (op.kind = "delete" \/ ok) THEN "none" ELSE @]
    /\ Internal
    /\ UNCHANGED drag

(* handleRenameCategory ends.  When the category shown was renamed or cleared, the page *)
(* shows the new one, or all books; the selection stays either way.                    *)
RenameEnds(op, ok) ==
    /\ op \in desk.batch /\ op.kind = "manage"
    /\ \E v \in SUBSET Shelved, c \in BOOLEAN :
         /\ (v = desk.visible /\ c = desk.category) \/ (ok /\ desk.category)
         /\ desk' = [desk EXCEPT !.batch = @ \ {op}, !.visible = v, !.category = c]
    /\ Internal
    /\ UNCHANGED drag

(* FileUploadAction, in the header or in the empty shelf. *)
UploadPressed ==
    /\ External
    /\ ~desk.uploading
    /\ desk' = [desk EXCEPT !.uploading = TRUE]
    /\ UNCHANGED drag

UploadEnds ==
    /\ desk.uploading
    /\ desk' = [desk EXCEPT !.uploading = FALSE]
    /\ Internal
    /\ UNCHANGED drag

(* The drag goes into an element: 1 the page, 2 something on it. *)
DragEnter(n) ==
    /\ External
    /\ drag.leaving = 0 /\ n # drag.inside
    /\ drag' = [depth |-> drag.depth + 1, shown |-> TRUE, inside |-> n, leaving |-> drag.inside]
    /\ UNCHANGED desk

(* ... and out of the one before. *)
DragLeave ==
    LET depth == IF drag.depth = 0 THEN 0 ELSE drag.depth - 1 IN
    /\ drag.leaving # 0
    /\ drag' = [drag EXCEPT !.depth = depth, !.shown = @ /\ depth # 0, !.leaving = 0]
    /\ Internal
    /\ UNCHANGED desk

(* The drag leaves the page or is cancelled. *)
DragOut ==
    LET depth == IF drag.depth = 0 THEN 0 ELSE drag.depth - 1 IN
    /\ External
    /\ drag.inside # 0 /\ drag.leaving = 0
    /\ drag' = [drag EXCEPT !.depth = depth, !.shown = @ /\ depth # 0, !.inside = 0]
    /\ UNCHANGED desk

(* A drop while an upload runs is ignored. *)
ShelfDrop ==
    /\ External
    /\ drag.inside # 0 /\ drag.leaving = 0
    /\ drag' = [depth |-> 0, shown |-> FALSE, inside |-> 0, leaving |-> 0]
    /\ desk' = [desk EXCEPT !.uploading = TRUE]

DeskNext ==
    \/ ListsChange \/ CategoryGone \/ ToggleSelectionMode \/ ToggleVisibleSelection \/ ChangeFilter
    \/ \E b \in Shelved : ActivateCard(b)
    \/ \E d \in {"delete", "category", "manage"} : OpenBatchDialog(d)
    \/ CloseDialog \/ ConfirmBatch \/ ConfirmRename
    \/ \E op \in desk.batch, ok \in BOOLEAN : BatchEnds(op, ok) \/ RenameEnds(op, ok)
    \/ UploadPressed \/ UploadEnds
    \/ \E n \in 1..2 : DragEnter(n)
    \/ DragLeave \/ DragOut \/ ShelfDrop

-----------------------------------------------------------------------------
(* When the user changes the search or the category, the selection goes: a     *)
(* book selected before is never among those a batch deletes or moves          *)
(* (page.tsx clearSelectionWhenFiltering).  A category that the page changes   *)
(* by itself, after a rename or when it is gone, keeps the selection, and with *)
(* it books that are no longer shown.                                          *)
SelectedWasSeen == desk.selected \subseteq desk.chosen

(* The drop overlay is shown exactly while files are dragged over the page,    *)
(* however many nested elements the drag crosses (page.tsx dragDepthRef).      *)
OverlayTracksDrag == drag.leaving = 0 => (drag.shown <=> drag.inside # 0)

(***************************************************************************)
(* The end of the virtual grid (components/VirtualBookGrid.tsx): a         *)
(* sentinel below the last row asks for the next page when it is near the  *)
(* viewport.  A lock keeps one request at a time, a throttle drops what is *)
(* asked within 400 ms of the last request, and after each page an effect  *)
(* asks again if the sentinel is still near.                               *)
(***************************************************************************)
CONSTANT MaxPages
VARIABLE grid

gridVars == <<grid, events>>

ASSUME GridAssumption == MaxPages \in Nat

(* left: pages not yet loaded (canLoadMore is left > 0). *)
GridInit ==
    \E n \in 0..MaxPages :
      grid = [left |-> n, loading |-> FALSE, lock |-> FALSE, recent |-> FALSE, near |-> FALSE]

(* requestLoadMore: onEndReached is loadMoreBooks, which sets isLoadingMore. *)
RequestLoadMore(g) ==
    IF g.left > 0 /\ ~g.loading /\ ~g.lock /\ ~g.recent
    THEN [g EXCEPT !.lock = TRUE, !.recent = TRUE, !.loading = TRUE] ELSE g

(* isLoadingMore becomes false: the lock is freed before the fill effect runs. *)
LoadSettles(g) == [g EXCEPT !.loading = FALSE, !.lock = FALSE]

(* The observer reports that the sentinel came near. *)
SentinelNear ==
    /\ External
    /\ ~grid.near
    /\ grid' = RequestLoadMore([grid EXCEPT !.near = TRUE])

SentinelFar ==
    /\ External
    /\ grid.near
    /\ grid' = [grid EXCEPT !.near = FALSE]

(* The manual control below the grid. *)
LoadMorePressed ==
    /\ External
    /\ grid.left > 0 /\ ~grid.loading
    /\ grid' = [grid EXCEPT !.loading = TRUE]

(* A page arrives; its rows may push the sentinel away, else the fill effect asks again. *)
PageArrives ==
    /\ grid.loading
    /\ \E near \in {FALSE, grid.near} :
         LET g == [LoadSettles(grid) EXCEPT !.left = @ - 1, !.near = near] IN
         grid' = IF near THEN RequestLoadMore(g) ELSE g
    /\ Internal

(* A page that fails leaves the sentinel where it is; the effect runs as well. *)
PageFails ==
    /\ External
    /\ grid.loading
    /\ grid' = IF grid.near THEN RequestLoadMore(LoadSettles(grid)) ELSE LoadSettles(grid)

ThrottleEnds ==
    /\ grid.recent
    /\ grid' = [grid EXCEPT !.recent = FALSE]
    /\ Internal

(* resetKey changes: another list from its top; a request under way is abandoned by Shelf. *)
ResetList ==
    /\ External
    /\ \E n \in 0..MaxPages :
         grid' = [left |-> n, loading |-> FALSE, lock |-> FALSE, recent |-> FALSE, near |-> FALSE]

GridNext ==
    \/ SentinelNear \/ SentinelFar \/ LoadMorePressed \/ PageArrives \/ PageFails
    \/ ThrottleEnds \/ ResetList

-----------------------------------------------------------------------------
(* The lock never outlives its request: after a page, a failure or a reset the *)
(* grid can ask again.                                                         *)
LockIsLoading == grid.lock => grid.loading

(***************************************************************************)
(* The covers of the shelf (hooks/useCoverUrl.ts): a page-wide queue with  *)
(* MaxActive downloads at a time, a least-recently-used cache of MaxCached *)
(* object URLs, and one useCoverUrl per card, which asks for its cover     *)
(* when the card comes near the viewport and gives up when it leaves.      *)
(*                                                                         *)
(* `cache` is ordered from the oldest to the newest use.  `live` are the   *)
(* object URLs created and not revoked: each holds the image's bytes.      *)
(***************************************************************************)
CONSTANTS Cards, MaxActive, MaxCached
VARIABLES covers, cards

coversVars == <<covers, cards, events>>

ASSUME CoversAssumption == MaxActive \in Nat \ {0} /\ MaxCached \in Nat \ {0}

CoversInit ==
    /\ covers = [queue |-> <<>>, running |-> {}, active |-> 0, cache |-> <<>>, live |-> {}, jobs |-> 0]
    /\ cards = [c \in Cards |-> [mounted |-> FALSE, watching |-> FALSE, near |-> FALSE,
                                 version |-> 1, instance |-> 0, inFlight |-> FALSE, job |-> 0]]

Key(c) == <<c, cards[c].version>>
Hits(cv, key) == {i \in DOMAIN cv.cache : cv.cache[i].key = key}
UrlOf(cv, key) == IF Hits(cv, key) = {} THEN 0 ELSE cv.cache[CHOOSE i \in Hits(cv, key) : TRUE].url

(* getCachedCoverUrl: a hit becomes the newest entry. *)
GetCachedCoverUrl(cv, key) ==
    IF UrlOf(cv, key) = 0 THEN cv
    ELSE LET i == CHOOSE i \in Hits(cv, key) : TRUE
         IN  [cv EXCEPT !.cache = Append(RemoveAt(@, i), @[i])]

(* The other entries of the cache, and what setCachedCoverUrl makes of them: the new     *)
(* entry behind, the oldest ones dropped.  A book has one entry at most, because each    *)
(* new one removes the other.                                                            *)
WithEntry(cv, key, url) ==
    Append(RemoveFirstMatch(cv.cache, LAMBDA e : e.key[1] = key[1]), [key |-> key, url |-> url])
Surplus(s) == IF Len(s) > MaxCached THEN Len(s) - MaxCached ELSE 0

(* setCachedCoverUrl: revoked are the URLs of the book's other versions, of an earlier *)
(* download of this cover, and of the oldest entries while the cache is too large.     *)
SetCachedCoverUrl(cv, key, url) ==
    LET full == WithEntry(cv, key, url)
        otherVersions == {e \in ToSet(cv.cache) : e.key[1] = key[1] /\ e.key # key}
        existing == {e \in ToSet(cv.cache) : e.key = key /\ e.url # url}
        oldest == {full[i] : i \in 1..Surplus(full)} IN
    [cv EXCEPT !.cache = SubSeq(full, Surplus(full) + 1, Len(full)),
               !.live = (@ \cup {url}) \ {e.url : e \in otherVersions \cup existing \cup oldest}]

(* processQueue: the oldest jobs run while there are free slots. *)
ProcessQueue(cv) ==
    LET free == IF cv.active < MaxActive THEN MaxActive - cv.active ELSE 0
        n == IF Len(cv.queue) < free THEN Len(cv.queue) ELSE free IN
    [cv EXCEPT !.queue = SubSeq(@, n + 1, Len(@)), !.active = @ + n,
               !.running = @ \cup {cv.queue[i] : i \in 1..n}]

(* scheduleCoverFetch for the card's current cover. *)
ScheduleCoverFetch(cv, c) ==
    ProcessQueue([cv EXCEPT !.jobs = @ + 1,
       !.queue = Append(@, [id |-> cv.jobs + 1, card |-> c, key |-> Key(c),
                                   instance |-> cards[c].instance, aborted |-> FALSE])])

(* Its cancel function: a waiting job leaves the queue, a running one is aborted. *)
CancelFetch(cv, id) ==
    [cv EXCEPT !.queue = RemoveFirstMatch(@, LAMBDA j : j.id = id),
               !.running = {IF j.id = id THEN [j EXCEPT !.aborted = TRUE] ELSE j : j \in @}]

(* The effect for a key: a cached cover needs no observer. *)
Mount(c) ==
    /\ External
    /\ ~cards[c].mounted
    /\ cards' = [cards EXCEPT ![c].mounted = TRUE, ![c].watching = UrlOf(covers, Key(c)) = 0]
    /\ covers' = GetCachedCoverUrl(covers, Key(c))

(* startFetch, when the card comes into the prefetch band. *)
ComesNear(c) ==
    /\ External
    /\ cards[c].watching /\ ~cards[c].near
    /\ IF cards[c].inFlight \/ UrlOf(covers, Key(c)) # 0
       THEN /\ covers' = GetCachedCoverUrl(covers, Key(c))
            /\ cards' = [cards EXCEPT ![c].near = TRUE]
       ELSE /\ covers' = ScheduleCoverFetch(covers, c)
            /\ cards' = [cards EXCEPT ![c].near = TRUE, ![c].inFlight = TRUE,
                                      ![c].job = covers.jobs + 1]

(* It leaves the band before its cover is there: the slot is wanted elsewhere. *)
GoesAway(c) ==
    /\ External
    /\ cards[c].watching /\ cards[c].near
    /\ IF UrlOf(covers, Key(c)) # 0
       THEN /\ covers' = GetCachedCoverUrl(covers, Key(c))
            /\ cards' = [cards EXCEPT ![c].near = FALSE]
       ELSE /\ covers' = CancelFetch(covers, cards[c].job)
            /\ cards' = [cards EXCEPT ![c].near = FALSE, ![c].inFlight = FALSE, ![c].job = 0]

(* The effect's cleanup, when the card goes or its cover is replaced. *)
Unmounts(c, replaced) ==
    /\ External
    /\ cards[c].mounted /\ (replaced => cards[c].version = 1)
    /\ covers' = CancelFetch(covers, cards[c].job)
    /\ cards' = [cards EXCEPT ![c] = [mounted |-> replaced, watching |-> replaced, near |-> FALSE,
                                      version |-> IF replaced THEN 2 ELSE @.version,
                                      instance |-> IF replaced THEN @.instance ELSE @.instance + 1,
                                      inFlight |-> FALSE, job |-> 0]]

(* A download ends with an image or without; its slot goes to the next job. *)
FetchEnds(j, ok) ==
    LET freed == [covers EXCEPT !.running = @ \ {j}, !.active = @ - 1]
        used == ok /\ ~j.aborted IN
    /\ j \in covers.running
    /\ covers' = ProcessQueue(IF used THEN SetCachedCoverUrl(freed, j.key, j.id) ELSE freed)
    /\ cards' = [cards EXCEPT ![j.card].inFlight =
         @ /\ (j.key # Key(j.card) \/ j.instance # cards[j.card].instance)]
    /\ Internal

(* Logout: clearCoverUrlCache. *)
ClearCoverUrlCache ==
    /\ External
    /\ covers' = [covers EXCEPT !.cache = <<>>, !.live = @ \ {e.url : e \in ToSet(covers.cache)}]
    /\ UNCHANGED cards

CoversNext ==
    \/ \E c \in Cards : Mount(c) \/ ComesNear(c) \/ GoesAway(c)
    \/ \E c \in Cards, r \in BOOLEAN : Unmounts(c, r)
    \/ \E j \in covers.running, ok \in BOOLEAN : FetchEnds(j, ok)
    \/ ClearCoverUrlCache

(* A cover has no timer (authedFetch with a caller's signal): only a cancelled one surely ends. *)
Aborted == \E j \in covers.running : j.aborted /\ FetchEnds(j, FALSE)
Transferred == \E j \in covers.running, ok \in BOOLEAN : FetchEnds(j, ok)
CoversFairness == WF_coversVars(Aborted)

-----------------------------------------------------------------------------
(* No image leaks: the object URLs alive are exactly the cached ones, whichever *)
(* downloads overlap, are cancelled late or replace a cover (useCoverUrl.ts).   *)
LiveUrlsCached == covers.live = {e.url : e \in ToSet(covers.cache)}

(* A slot is taken exactly by the downloads that run, never more than there     *)
(* are, and jobs wait only when all slots are taken (scheduleCoverFetch).       *)
SlotsMatch ==
    /\ covers.active = Cardinality(covers.running) /\ covers.active <= MaxActive
    /\ covers.queue # <<>> => covers.active = MaxActive

(* As long as downloads that have a slot end, a card that waits for its cover    *)
(* gets a turn, or gives up: no job is lost in the queue, and no slot with a     *)
(* download that was cancelled (scheduleCoverFetch).                             *)
WaitingEnds ==
    WF_coversVars(Transferred) => \A c \in Cards : cards[c].inFlight ~> ~cards[c].inFlight
=============================================================================
