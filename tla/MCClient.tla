------------------------------ MODULE MCClient ------------------------------
(* The parts of the client around reading and narration: the panels and the  *)
(* session of the speech client, the page, grid and covers of the shelf,     *)
(* requests, downloads, offline copies, archives and the page cache, and the *)
(* opening of a book.  They share no state, so each behaviour exercises one  *)
(* of them, with the events that one needs.                                  *)
EXTENDS SpeechControls, SpeechSession, ShelfDesk,
        ApiCalls, Downloads, OfflineCopies, ArchiveLoader, PageCache, ReaderView

VARIABLE subject

Budget == [controls |-> 4, session |-> 5, desk |-> 5, grid |-> 4, covers |-> 6, api |-> 3,
           downloads |-> 5, offline |-> 6, archive |-> 5, shell |-> 4, view |-> 6]

speechVars == <<panel, narrator, session, wake>>
shelfPageVars == <<desk, drag, grid, covers, cards>>
fileVars == <<call, request, server, store, transfer, caller, app, copies, save, open,
              archive, entryLoads>>
shellVars == <<site, worker, stores, fetches, answer>>
bookVars == <<engine, reader>>
vars == <<speechVars, shelfPageVars, fileVars, shellVars, bookVars, events, subject>>

(* What is not the subject stays in one initial state. *)
Init ==
    /\ subject \in DOMAIN Budget
    /\ events = MaxEvents - Budget[subject]
    /\ ControlsInit /\ SessionInit /\ DeskInit /\ GridInit /\ CoversInit
    /\ ApiInit /\ DownloadsInit /\ OfflineInit /\ ArchiveInit /\ PageCacheInit /\ ReaderInit
    /\ subject # "session" => session.book = CHOOSE b \in Books : TRUE
    /\ subject # "grid" => grid.left = 0
    /\ subject # "api" => ~server.has
    /\ subject # "shell" => stores = <<>>

Next ==
    /\ UNCHANGED subject
    /\ \/ /\ \/ subject = "controls" /\ ControlsNext /\ UNCHANGED <<session, wake>>
             \/ subject = "session" /\ SessionNext /\ UNCHANGED <<panel, narrator>>
          /\ UNCHANGED <<shelfPageVars, fileVars, shellVars, bookVars>>
       \/ /\ \/ subject = "desk" /\ DeskNext /\ UNCHANGED <<grid, covers, cards>>
             \/ subject = "grid" /\ GridNext /\ UNCHANGED <<desk, drag, covers, cards>>
             \/ subject = "covers" /\ CoversNext /\ UNCHANGED <<desk, drag, grid>>
          /\ UNCHANGED <<speechVars, fileVars, shellVars, bookVars>>
       \/ /\ \/ subject = "api" /\ ApiNext /\ UNCHANGED <<store, transfer, caller, app, copies, save, open, archive, entryLoads>>
             \/ subject = "downloads" /\ DownloadsNext /\ UNCHANGED <<call, request, server, app, copies, save, open, archive, entryLoads>>
             \/ subject = "offline" /\ OfflineNext /\ UNCHANGED <<call, request, server, store, transfer, caller, archive, entryLoads>>
             \/ subject = "archive" /\ ArchiveNext /\ UNCHANGED <<call, request, server, store, transfer, caller, app, copies, save, open>>
          /\ UNCHANGED <<speechVars, shelfPageVars, shellVars, bookVars>>
       \/ /\ subject = "shell" /\ PageCacheNext
          /\ UNCHANGED <<speechVars, shelfPageVars, fileVars, bookVars>>
       \/ /\ subject = "view" /\ ReaderViewNext
          /\ UNCHANGED <<speechVars, shelfPageVars, fileVars, shellVars>>

(* None of the fair steps is possible in an initial state. *)
Spec ==
    /\ Init /\ [][Next]_vars
    /\ ControlsFairness /\ SessionFairness /\ CoversFairness /\ ApiFairness /\ DownloadsFairness
    /\ ArchiveFairness /\ ReaderFairness

(* The shelf page stays consistent: what is selected was seen, the overlay   *)
(* follows the drag, the grid can ask again, and covers neither leak nor     *)
(* block each other (page.tsx, VirtualBookGrid.tsx, useCoverUrl.ts).         *)
ShelfPageSafe == SelectedWasSeen /\ OverlayTracksDrag /\ LockIsLoading /\ LiveUrlsCached /\ SlotsMatch

(* Opening a book: the page that is shown stays, in the theme chosen last, a *)
(* reader that was left is silent (useFoliateView.ts), and no entry of the   *)
(* archive is lost to the worker that decodes it (zip-loader.js).            *)
OpeningSafe == ReaderSafe /\ ArchiveSafe

(* Without a connection: a copy is the account's own and current, and goes  *)
(* with its session (lib/offline-books.ts, useAuth.ts); a page is shown, and *)
(* the engine is not older than the worker that gives it (sw.js).            *)
OfflineSafe == CopiesSafe /\ [](ShellAlways /\ EngineNotOlder)

(* Nobody waits for ever: not a busy panel, a stored snapshot, a card for    *)
(* its cover, a request, who asked for a file or an entry of it, or a reader *)
(* whose book is being opened.  Covers and files have no timer (api.ts       *)
(* authedFetch): who waits for one is promised an end as long as it comes.   *)
EveryWaitEnds ==
    BusyEnds /\ PendingSettles /\ WaitingEnds /\ CallsEnd /\ CallersAnswered /\ LoadsEnd /\ LoadingEnds
=============================================================================
