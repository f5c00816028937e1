---------------------------- MODULE OfflineCopies ----------------------------
(***************************************************************************)
(* Sessions of the browser client and the offline copies tied to them:     *)
(* hooks/useAuth.ts, app/login/page.tsx, the session half of lib/api.ts,   *)
(* lib/offline-books.ts, createBookFile of lib/book-download.ts, the       *)
(* reader page's handleSaveOffline, and the service worker (public/sw.js). *)
(*                                                                         *)
(* There is one book.  `copies[u]` is the copy in account u's cache: 0 if  *)
(* there is none, else the content hash it was stored with (1 stands for a *)
(* book the server has not hashed yet, 2 for its hash).                    *)
(***************************************************************************)
EXTENDS ClientEvents, FiniteSets

CONSTANT Users
VARIABLES app, copies, save, open

offlineVars == <<app, copies, save, open, events>>

ASSUME UsersAssumption == Users \subseteq Nat \ {0}

NoOpen == [stage |-> "none", user |-> 0, cached |-> 0, hash |-> 0, from |-> "none"]

OfflineInit ==
    /\ app = [user |-> 0, authed |-> FALSE, checking |-> FALSE, submitting |-> FALSE, online |-> TRUE,
              hash |-> 1, late |-> {}, why |-> "none"]
    /\ copies = [u \in Users |-> 0]
    /\ save = [active |-> FALSE, user |-> 0]
    /\ open = NoOpen

(* removeToken and clearOfflineBooks: the account's cache goes with its session. *)
RemoveToken(why) ==
    /\ app' = [app EXCEPT !.user = 0, !.authed = FALSE, !.checking = FALSE, !.why = why,
                          !.late = @ \cup (IF save.active THEN {save.user} ELSE {})]
    /\ copies' = [u \in Users |-> IF u = app.user THEN 0 ELSE copies[u]]

-----------------------------------------------------------------------------
(* Sessions. *)

(* handleSubmit of the login page, for login and register: one request at a time. *)
HandleSubmit ==
    /\ External
    /\ ~app.authed /\ ~app.checking /\ ~app.submitting
    /\ app' = [app EXCEPT !.submitting = TRUE, !.why = "none"]
    /\ UNCHANGED <<copies, save, open>>

(* The answer: a session and its user, or an error under the form. *)
SubmitEnds ==
    /\ app.submitting
    /\ \/ \E u \in Users : app.online /\
            app' = [app EXCEPT !.submitting = FALSE, !.user = u, !.authed = TRUE]
       \/ app' = [app EXCEPT !.submitting = FALSE]
    /\ Internal
    /\ UNCHANGED <<copies, save, open>>

(* logout: whatever the server answers, the client forgets the session. *)
SignOut ==
    /\ External
    /\ app.authed
    /\ RemoveToken("logout")
    /\ UNCHANGED <<save, open>>

(* handleUnauthorized: some request was answered 401. *)
SessionExpires ==
    /\ External
    /\ app.authed /\ app.online
    /\ RemoveToken("expired")
    /\ UNCHANGED <<save, open>>

(* The page is loaded again: checkAuth asks the server before anything else. *)
Reload ==
    /\ External
    /\ app.user # 0
    /\ app' = [app EXCEPT !.authed = FALSE, !.checking = TRUE, !.why = "none"]
    /\ save' = [active |-> FALSE, user |-> 0]
    /\ open' = NoOpen
    /\ UNCHANGED copies

(* verify answers; any failure, an unreachable server too, ends the session. *)
CheckAuthEnds ==
    /\ app.checking
    /\ \/ /\ app.online
          /\ app' = [app EXCEPT !.authed = TRUE, !.checking = FALSE]
          /\ UNCHANGED copies
       \/ RemoveToken(IF app.online THEN "expired" ELSE "unreachable")
    /\ Internal
    /\ UNCHANGED <<save, open>>

NetworkChanges ==
    /\ External
    /\ app' = [app EXCEPT !.online = ~@, !.why = "none"]
    /\ UNCHANGED <<copies, save, open>>

(* The server computes the hash of an older book (legacy_hash_backfill.go). *)
BookHashed ==
    /\ External
    /\ app.hash = 1
    /\ app' = [app EXCEPT !.hash = 2, !.why = "none"]
    /\ UNCHANGED <<copies, save, open>>

(* A new version of the service worker is installed and takes over. *)
ServiceWorkerActivates ==
    /\ External
    /\ app.online
    /\ copies' = [u \in Users |-> 0]
    /\ app' = [app EXCEPT !.why = "activated"]
    /\ UNCHANGED <<save, open>>

-----------------------------------------------------------------------------
(* Copies. *)

(* handleSaveOffline: the book and its file, then the account's cache. *)
HandleSaveOffline ==
    /\ External
    /\ app.authed /\ ~save.active
    /\ save' = [active |-> TRUE, user |-> app.user]
    /\ app' = [app EXCEPT !.why = "none"]
    /\ UNCHANGED <<copies, open>>

SaveOfflineEnds ==
    /\ save.active
    /\ \/ app.online /\ copies' = [copies EXCEPT ![save.user] = app.hash]
       \/ UNCHANGED copies
    /\ save' = [active |-> FALSE, user |-> 0]
    /\ app' = [app EXCEPT !.why = "none"]
    /\ Internal
    /\ UNCHANGED open

(* createBookFile: the account's copy, and meanwhile the book's metadata. *)
CreateBookFile ==
    /\ External
    /\ app.authed /\ open.stage = "none"
    /\ open' = [stage |-> "metadata", user |-> app.user, cached |-> copies[app.user], hash |-> 0,
                from |-> "none"]
    /\ UNCHANGED <<app, copies, save>>

Same(cached, hash) == hash # 1 /\ cached = hash

(* Mutant: a copy is used without asking whose account is active now. *)
MetadataEndsUnchecked ==
    /\ open.stage = "metadata"
    /\ open' = IF app.online /\ ~Same(open.cached, app.hash)
               THEN [open EXCEPT !.stage = "download", !.hash = app.hash]
               ELSE [open EXCEPT !.stage = "done", !.from = IF open.cached # 0 THEN "copy" ELSE "error"]
    /\ Internal
    /\ UNCHANGED <<app, copies, save>>

(* The metadata arrive, are refused, or the server cannot be reached. *)
MetadataEnds ==
    LET mine == app.user = open.user IN
    /\ open.stage = "metadata"
    /\ \/ /\ app.online /\ app.user # 0
          /\ open' = IF ~mine THEN [open EXCEPT !.stage = "done", !.from = "error"]
                     ELSE IF Same(open.cached, app.hash)
                     THEN [open EXCEPT !.stage = "done", !.hash = app.hash, !.from = "copy"]
                     ELSE [open EXCEPT !.stage = "download", !.hash = app.hash]
       \/ /\ app.online
          /\ open' = [open EXCEPT !.stage = "done", !.from = "error"]
       \/ /\ ~app.online
          /\ open' = [open EXCEPT !.stage = "done",
                                  !.from = IF open.cached # 0 /\ mine THEN "copy" ELSE "error"]
    /\ Internal
    /\ UNCHANGED <<app, copies, save>>

(* fetchBook ends.  Without the server the copy serves only if it is the same book. *)
DownloadEnds ==
    LET mine == app.user = open.user IN
    /\ open.stage = "download"
    /\ \/ app.online /\ open' = [open EXCEPT !.stage = "done", !.from = "network"]
       \/ open' = [open EXCEPT !.stage = "done",
                               !.from = IF ~app.online /\ mine /\ Same(open.cached, open.hash)
                                        THEN "copy" ELSE "error"]
    /\ Internal
    /\ UNCHANGED <<app, copies, save>>

(* The reader has its file, or shows the error. *)
ReaderCloses ==
    /\ open.stage = "done"
    /\ open' = NoOpen
    /\ Internal
    /\ UNCHANGED <<app, copies, save>>

OfflineNext ==
    \/ HandleSubmit \/ SubmitEnds \/ SignOut \/ SessionExpires \/ Reload \/ CheckAuthEnds
    \/ NetworkChanges \/ BookHashed \/ ServiceWorkerActivates \/ HandleSaveOffline \/ SaveOfflineEnds
    \/ CreateBookFile \/ MetadataEnds \/ DownloadEnds \/ ReaderCloses

-----------------------------------------------------------------------------
(* No account leaves its copy behind: without its session a copy exists only   *)
(* if a save was still running when the session ended (useAuth.ts logout,      *)
(* handleAuthExpired, checkAuth; api.ts removeToken).                          *)
CopyGoesWithSession ==
    \A u \in Users : copies[u] # 0 => (app.user = u \/ u \in app.late)

(* A copy is handed to the reader only in the account it belongs to, and,      *)
(* while the server can be asked, only if it is the server's book: also when   *)
(* the session changed during the request (createBookFile).                    *)
CopyIsOwnAndCurrent ==
    [][open.stage # "done" /\ open'.stage = "done" /\ open'.from = "copy"
         => /\ app.user = open.user
            /\ app.online => open.cached = app.hash]_offlineVars


(* Together: a copy is its account's alone. *)
CopiesSafe == []CopyGoesWithSession /\ CopyIsOwnAndCurrent
=============================================================================
