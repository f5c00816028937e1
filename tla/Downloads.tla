----------------------------- MODULE Downloads -----------------------------
(***************************************************************************)
(* Fetching the file of one book: the download shared by the reader and    *)
(* the offline save (lib/shared-book-download.ts), the transfer itself     *)
(* (downloadBookFile of lib/book-download.ts), and the interrupted         *)
(* download kept in Cache Storage so that it can go on later               *)
(* (lib/offline-books.ts).                                                 *)
(*                                                                         *)
(* Content is a sequence of byte numbers, so what is stored and what is    *)
(* handed out can be compared with the file.  A transfer stays in the map  *)
(* of downloads until its promise settles, so there is at most one.  The   *)
(* server never writes to the file of a book again, so the file does not   *)
(* change here and If-Range, which guards against that, is left out.       *)
(***************************************************************************)
EXTENDS ClientEvents, Sequences, SequencesExt, FiniteSets

CONSTANTS
    Callers,    \* the reader and the offline save
    FileSize,   \* bytes of the book
    Batch       \* bytes that are stored as one chunk: 1 MiB

ASSUME DownloadsAssumption == FileSize \in Nat \ {0} /\ Batch \in Nat \ {0}

VARIABLES
    store,      \* the partial download in Cache Storage
    transfer,   \* the entry of the map of downloads
    caller

downloadVars == <<store, transfer, caller, events>>

File == [i \in 1 .. FileSize |-> i]

Nothing == [chunks |-> <<>>, count |-> 0, bytes |-> 0]   \* count 0: there is no meta entry

NoTransfer ==
    [stage |-> "none", aborted |-> FALSE,
     bytes |-> <<>>,     \* the parts, joined, and the batch being collected
     next |-> 1,         \* the byte of the file the body delivers next
     handed |-> 0,       \* bytes passed to the writer
     writes |-> <<>>,    \* chunks waiting for the writer, or being written
     chunked |-> FALSE,  \* the first of them is stored, its meta entry is not
     count |-> 0,        \* chunks the writer has committed
     writer |-> TRUE,    \* FALSE: a write failed, nothing more is stored
     sized |-> TRUE,     \* FALSE: neither the answer nor the stored part tells the file's size
     cut |-> FALSE]      \* the read failed or was cancelled

DownloadsInit ==
    /\ store = Nothing
    /\ transfer = NoTransfer
    /\ caller = [c \in Callers |-> [stage |-> "idle", got |-> <<>>, sized |-> TRUE]]

(* What getPartialBookDownload takes from a store: a chunk is missing, or their sizes differ from the meta entry's. *)
Accepted(s) ==
    LET joined == FlattenSeq(SubSeq(s.chunks, 1, s.count))
    IN  IF s.count > Len(s.chunks) \/ <<>> \in Range(SubSeq(s.chunks, 1, s.count)) \/ Len(joined) # s.bytes
        THEN <<>> ELSE joined

-----------------------------------------------------------------------------
(* Callers. *)

(* shareBookDownload: join the transfer, start one, or wait for a cancelled one to end. *)
ShareBookDownload(T, c) ==
    IF T.transfer.aborted THEN [T EXCEPT !.caller[c].stage = "waiting"]
    ELSE [T EXCEPT !.caller[c].stage = "subscribed",
                   !.transfer.stage = IF @ = "none" THEN "start" ELSE @]

Now == [transfer |-> transfer, caller |-> caller]

Become(T) == transfer' = T.transfer /\ caller' = T.caller

FetchBook(c) ==
    /\ External
    /\ caller[c].stage = "idle"
    /\ Become(ShareBookDownload(Now, c))
    /\ UNCHANGED store

(* The caller leaves; the last one takes the transfer with it. *)
AbortCaller(c) ==
    /\ External
    /\ caller[c].stage \in {"subscribed", "waiting"}
    /\ caller' = [caller EXCEPT ![c].stage = "idle"]
    /\ transfer' = [transfer EXCEPT !.aborted =
                       @ \/ (caller[c].stage = "subscribed" /\ \A d \in Callers \ {c} : caller[d].stage # "subscribed")]
    /\ UNCHANGED store

(* A caller is done with its file or its error and may ask again. *)
CallerReturns(c) ==
    /\ caller[c].stage \in {"given", "failed"}
    /\ caller' = [caller EXCEPT ![c] = [stage |-> "idle", got |-> <<>>, sized |-> TRUE]]
    /\ Internal
    /\ UNCHANGED <<store, transfer>>

(* The transfer's promise settles: the entry goes, its callers are told, the others start over. *)
Settle(result) ==
    LET told == [transfer |-> NoTransfer,
                 caller |-> [c \in Callers |->
                     IF caller[c].stage = "subscribed" THEN result ELSE caller[c]]]
        waiting == {c \in Callers : caller[c].stage = "waiting"}
    IN  Become(FoldLeft(ShareBookDownload, told, SetToSeq(waiting)))

Failed == [stage |-> "failed", got |-> <<>>, sized |-> TRUE]

-----------------------------------------------------------------------------
(* The transfer. *)

(* It starts in a microtask, and may be cancelled by then. *)
TransferStarts ==
    /\ transfer.stage = "start"
    /\ IF transfer.aborted THEN Settle(Failed)
       ELSE transfer' = [transfer EXCEPT !.stage = "partial"] /\ UNCHANGED caller
    /\ Internal
    /\ UNCHANGED store

(* The stored part is read; one that does not hold together is removed. *)
PartialRead ==
    LET kept == Accepted(store) IN
    /\ transfer.stage = "partial"
    /\ IF transfer.aborted THEN Settle(Failed)
       ELSE /\ transfer' = [transfer EXCEPT !.stage = "request", !.bytes = kept, !.handed = Len(kept),
                                            !.count = IF kept = <<>> THEN 0 ELSE store.count]
            /\ UNCHANGED caller
    /\ store' = IF kept = <<>> /\ store.count > 0 THEN Nothing ELSE store
    /\ Internal

(* 206 goes on after the stored part, 200 to a request for everything starts the file. *)
AnswersRest ==
    /\ transfer.stage = "request" /\ ~transfer.aborted
    /\ transfer.bytes # File
    /\ \E sized \in BOOLEAN :
         transfer' = [transfer EXCEPT !.stage = "reading", !.next = Len(transfer.bytes) + 1, !.sized = sized]
    /\ Internal
    /\ UNCHANGED <<store, caller>>

(* Mutant: a complete answer is appended to the part already there. *)
AnswersAnewKeeps ==
    /\ transfer.stage = "request" /\ ~transfer.aborted
    /\ transfer.bytes # <<>>
    /\ transfer' = [transfer EXCEPT !.stage = "reading", !.next = 1]
    /\ Internal
    /\ UNCHANGED <<store, caller>>

(* Anything else removes the stored part first: 200 is read from its start, 416 and errors are asked again. *)
AnswersAnew ==
    /\ transfer.stage = "request" /\ ~transfer.aborted
    /\ transfer.bytes # <<>>
    /\ transfer' = [transfer EXCEPT !.stage = "clear", !.bytes = <<>>, !.handed = 0, !.count = 0]
    /\ Internal
    /\ UNCHANGED <<store, caller>>

PartialCleared ==
    /\ transfer.stage = "clear"
    /\ store' = Nothing
    /\ transfer' = [transfer EXCEPT !.stage = "request"]
    /\ Internal
    /\ UNCHANGED caller

(* No answer, or an error to a request for the whole file. *)
RequestFails ==
    /\ transfer.stage = "request"
    /\ IF transfer.aborted THEN Internal ELSE External
    /\ Settle(Failed)
    /\ UNCHANGED store

(* persistPendingChunks: the collected batch goes to the writer, if there still is one. *)
PersistPending(t) ==
    [t EXCEPT !.handed = Len(t.bytes),
              !.writes = IF t.writer /\ t.handed < Len(t.bytes)
                         THEN Append(@, SubSeq(t.bytes, t.handed + 1, Len(t.bytes))) ELSE @]

(* At most one write besides the one just handed over may be outstanding. *)
ReadsOn == transfer.stage = "reading" /\ ~transfer.aborted /\ Len(transfer.writes) <= 1

(* A piece of the body arrives. *)
BodyRead ==
    LET t == [transfer EXCEPT !.bytes = Append(@, transfer.next), !.next = @ + 1] IN
    /\ ReadsOn
    /\ transfer.next <= FileSize
    /\ transfer' = IF Len(t.bytes) - t.handed >= Batch THEN PersistPending(t) ELSE t
    /\ Internal
    /\ UNCHANGED <<store, caller>>

BodyEnds ==
    /\ ReadsOn
    /\ transfer.next > FileSize
    /\ transfer' = [PersistPending(transfer) EXCEPT !.stage = "flush"]
    /\ Internal
    /\ UNCHANGED <<store, caller>>

(* The read fails, the download is cancelled, or the body just ends early (not cut): *)
(* the last short batch is kept.                                                    *)
BodyCut ==
    /\ transfer.stage = "reading" /\ Len(transfer.writes) <= 1
    /\ IF transfer.aborted THEN Internal ELSE External
    /\ \E cut \in BOOLEAN :
         transfer' = [PersistPending(transfer) EXCEPT !.stage = "flush", !.cut = cut]
    /\ UNCHANGED <<store, caller>>

(* The writer stores a chunk under its number. *)
ChunkWritten ==
    /\ transfer.writes # <<>> /\ ~transfer.chunked
    /\ store' = [store EXCEPT !.chunks = Append(SubSeq(@, 1, transfer.count), Head(transfer.writes))
                                             \o SubSeq(@, transfer.count + 2, Len(@))]
    /\ transfer' = [transfer EXCEPT !.chunked = TRUE]
    /\ Internal
    /\ UNCHANGED caller

(* And only then the meta entry that counts it. *)
MetaWritten ==
    LET n == transfer.count + 1 IN
    /\ transfer.chunked
    /\ store' = [store EXCEPT !.count = n, !.bytes = transfer.handed - Len(FlattenSeq(Tail(transfer.writes)))]
    /\ transfer' = [transfer EXCEPT !.chunked = FALSE, !.count = n, !.writes = Tail(@)]
    /\ Internal
    /\ UNCHANGED caller

(* The quota is used up, or Cache Storage fails: what is committed stays, nothing is added. *)
WriteFails ==
    /\ External
    /\ transfer.writes # <<>>
    /\ transfer' = [transfer EXCEPT !.writer = FALSE, !.writes = <<>>, !.chunked = FALSE]
    /\ UNCHANGED <<store, caller>>

(* Every write has ended: the file must be still wanted, and complete as far as that can be told. *)
Flushed ==
    /\ transfer.stage = "flush" /\ transfer.writes = <<>>
    /\ IF \/ transfer.cut \/ transfer.aborted \/ transfer.bytes = <<>>
          \/ transfer.sized /\ Len(transfer.bytes) < FileSize
       THEN Settle(Failed)
       ELSE transfer' = [transfer EXCEPT !.stage = "finish"] /\ UNCHANGED caller
    /\ Internal
    /\ UNCHANGED store

(* The stored part is removed, or that fails, and the file is handed out. *)
Finish ==
    /\ transfer.stage = "finish"
    /\ store' \in {Nothing, store}
    /\ Settle([stage |-> "given", got |-> transfer.bytes, sized |-> transfer.sized])
    /\ Internal

-----------------------------------------------------------------------------
(* The tab is closed or loaded again: Cache Storage is what survives, with any *)
(* of the entries that were being removed.                                     *)
Crash ==
    /\ External
    /\ transfer.stage # "none"
    /\ IF transfer.stage \in {"clear", "finish"}
       THEN \E gone \in SUBSET DOMAIN store.chunks, meta \in BOOLEAN :
              store' = [chunks |-> [i \in DOMAIN store.chunks |-> IF i \in gone THEN <<>> ELSE store.chunks[i]],
                        count |-> IF meta THEN store.count ELSE 0,
                        bytes |-> IF meta THEN store.bytes ELSE 0]
       ELSE UNCHANGED store
    /\ transfer' = NoTransfer
    /\ caller' = [c \in Callers |-> [stage |-> "idle", got |-> <<>>, sized |-> TRUE]]

(* What the page and its storage do, and what only the network can do. *)
TransferStep ==
    \/ TransferStarts \/ PartialRead \/ PartialCleared \/ ChunkWritten \/ MetaWritten \/ Flushed \/ Finish
    \/ (transfer.aborted /\ (RequestFails \/ BodyCut))
ServerSends == AnswersRest \/ AnswersAnew \/ BodyRead \/ BodyEnds

DownloadsNext ==
    \/ \E c \in Callers : FetchBook(c) \/ AbortCaller(c) \/ CallerReturns(c)
    \/ TransferStep \/ ServerSends \/ RequestFails \/ BodyCut \/ WriteFails \/ Crash

(* The storage answers or fails; a cancelled request ends.  A request for a file has no *)
(* timer, so nothing makes the network answer.                                          *)
DownloadsFairness == WF_downloadVars(TransferStep)

-----------------------------------------------------------------------------
(* Whatever was interrupted, cancelled, refused by the storage or cut off by a  *)
(* crash, the stored part that a later download would go on from is the start   *)
(* of the file (offline-books.ts, append: chunk before meta entry).             *)
PrefixSound == IsPrefix(Accepted(store), File)

(* A caller is handed the file, complete and in order, also when it joined a    *)
(* transfer somebody else started or that went on from a stored part            *)
(* (downloadBookFile); at least its start when no answer told its size.         *)
WholeFile ==
    \A c \in Callers : caller[c].stage = "given" =>
        IF caller[c].sized THEN caller[c].got = File ELSE IsPrefix(caller[c].got, File)

(* An interrupted transfer whose writes succeeded keeps every byte it read: the *)
(* next one goes on from there (downloadBookFile: "Include the final short      *)
(* batch before rejecting an interrupted read").                                *)
InterruptedKept ==
    [][transfer.stage = "flush" /\ transfer'.stage \notin {"flush", "finish"}
         /\ transfer.writer /\ transfer.writes = <<>> => Accepted(store') = transfer.bytes]_downloadVars

(* As long as the server sends on, who asks for the file gets it or an error, or *)
(* has left: a caller that waits for a cancelled transfer to end, or joined one   *)
(* under way, is not forgotten (shareBookDownload).                               *)
CallersAnswered ==
    WF_downloadVars(ServerSends) =>
      \A c \in Callers : caller[c].stage \in {"subscribed", "waiting"}
                             ~> caller[c].stage \notin {"subscribed", "waiting"}

(* Together: no byte of an interrupted transfer is lost, and none is wrong. *)
DownloadSafe == [](PrefixSound /\ WholeFile) /\ InterruptedKept
=============================================================================
