--------------------------- MODULE ReaderBookmarks ---------------------------
(***************************************************************************)
(* The reader's list of bookmarks: hooks/useReaderBookmarks.ts and         *)
(* ReaderBookmarksSheet.  The list is loaded once, changed ahead of the    *)
(* server when a bookmark is deleted, behind it when one is created, and   *)
(* loaded again when a deletion fails.  Calls may overlap: each one takes  *)
(* effect at the server and is answered, or is lost, in its own time.      *)
(***************************************************************************)
EXTENDS ClientEvents, FiniteSets, Sequences, SequencesExt

CONSTANTS Places, MaxMarks   \* positions in the book; bound on the bookmarks ever created

VARIABLES
    marks,    \* the page: bookmarks, isSavingBookmark, the position on the screen
    wire,     \* calls under way
    kept      \* the server's bookmarks, and what has gone wrong so far (history)

markVars == <<marks, wire, kept, events>>

ASSUME MarksAssumption == Places # {} /\ MaxMarks \in Nat

(* A call: list (with the answer once the server has read it), create, delete. *)
Call(kind, mark) == [kind |-> kind, mark |-> mark, at |-> "request", answer |-> <<>>]
NoMark == [id |-> 0, place |-> "none"]
Ids(list) == {list[k].id : k \in DOMAIN list}

(* items.filter((item) => item.id !== id) *)
WithoutId(list, id) ==
    LET left[n \in 0 .. Len(list)] ==
          IF n = 0 THEN <<>>
          ELSE IF list[n].id = id THEN left[n - 1] ELSE Append(left[n - 1], list[n])
    IN  left[Len(list)]

ListUnderWay == \E c \in wire : c.kind = "list"

MarksInit ==
    /\ \E old \in {<<>>} \cup {<<[id |-> 1, place |-> p]>> : p \in Places} :
          /\ kept = [list |-> old, next |-> 2, overlapped |-> FALSE, lost |-> FALSE, undeleted |-> FALSE]
    /\ marks = [list |-> <<>>, saving |-> FALSE, place |-> CHOOSE p \in Places : TRUE]
    /\ wire = {Call("list", NoMark)}

(* Another call begins while a list is being read, or a list while another call runs. *)
Overlaps(kind) == IF kind = "list" THEN wire # {} ELSE ListUnderWay

TurnTo(p) == p # marks.place /\ marks' = [marks EXCEPT !.place = p] /\ UNCHANGED <<wire, kept>>

(* handleCreateBookmark: refused while one is being saved or this position has one. *)
HandleCreateBookmark ==
    /\ ~marks.saving /\ kept.next <= MaxMarks
    /\ \A k \in DOMAIN marks.list : marks.list[k].place # marks.place
    /\ marks' = [marks EXCEPT !.saving = TRUE]
    /\ wire' = wire \cup {Call("create", [id |-> kept.next, place |-> marks.place])}
    /\ kept' = [kept EXCEPT !.next = @ + 1, !.overlapped = @ \/ Overlaps("create")]

(* handleDeleteBookmark: gone from the list at once. *)
HandleDeleteBookmark(m) ==
    /\ marks' = [marks EXCEPT !.list = WithoutId(@, m.id)]
    /\ wire' = wire \cup {Call("delete", m)}
    /\ kept' = [kept EXCEPT !.overlapped = @ \/ Overlaps("delete")]

(* handleGoToBookmark *)
HandleGoToBookmark(m) == marks' = [marks EXCEPT !.place = m.place] /\ UNCHANGED <<wire, kept>>

(* The server does what a call asks. *)
Served(c) ==
    /\ c.at = "request"
    /\ wire' = (wire \ {c}) \cup {[c EXCEPT !.at = "answer", !.answer = kept.list]}
    /\ kept' = [kept EXCEPT !.list = CASE c.kind = "create" -> Append(@, c.mark)
                                       [] c.kind = "delete" -> WithoutId(@, c.mark.id)
                                       [] OTHER -> @]
    /\ UNCHANGED marks

(* loadBookmarks takes the list as it was read. *)
ListAnswers(c) ==
    /\ c.kind = "list" /\ c.at = "answer"
    /\ marks' = [marks EXCEPT !.list = c.answer]
    /\ wire' = wire \ {c}
    /\ UNCHANGED kept

(* The bookmark that was created joins the list as it is now. *)
CreateAnswers(c) ==
    /\ c.kind = "create" /\ c.at = "answer"
    /\ marks' = [marks EXCEPT !.list = Append(@, c.mark), !.saving = FALSE]
    /\ wire' = wire \ {c}
    /\ UNCHANGED kept

DeleteAnswers(c) == c.kind = "delete" /\ c.at = "answer" /\ wire' = wire \ {c} /\ UNCHANGED <<marks, kept>>

(* Mutant: a deletion that failed is only reported. *)
CallFailsQuietly(c) ==
    /\ wire' = wire \ {c}
    /\ marks' = [marks EXCEPT !.saving = @ /\ c.kind # "create"]
    /\ kept' = [kept EXCEPT !.lost = @ \/ c.kind = "list" \/ (c.kind = "create" /\ c.at = "answer")]

(* A call fails, before or after the server did its work: a deletion loads the list again. *)
CallFails(c) ==
    /\ LET rest == wire \ {c}
       IN  /\ wire' = IF c.kind = "delete" THEN rest \cup {Call("list", NoMark)} ELSE rest
           /\ kept' = [kept EXCEPT !.lost = @ \/ c.kind = "list" \/ (c.kind = "create" /\ c.at = "answer"),
                                   !.undeleted = @ \/ c.kind = "delete",
                                   !.overlapped = @ \/ (c.kind = "delete" /\ rest # {})]
    /\ marks' = [marks EXCEPT !.saving = @ /\ c.kind # "create"]

MarksNext ==
    \/ Internal /\ \E c \in wire : Served(c) \/ ListAnswers(c) \/ CreateAnswers(c) \/ DeleteAnswers(c)
    \/ External /\ \E c \in wire : CallFails(c)
    \/ External /\ HandleCreateBookmark
    \/ External /\ \E m \in ToSet(marks.list) : HandleDeleteBookmark(m) \/ HandleGoToBookmark(m)
    \/ External /\ \E p \in Places : TurnTo(p)

(***************************************************************************)
(* Properties                                                              *)
(***************************************************************************)

(* When nothing is under way the list is the server's, failures of deletions   *)
(* included.  Three things break it: a list read while another call ran, a     *)
(* list that could not be read, a bookmark created without an answer.          *)
ListIsServers ==
    (wire = {} /\ ~kept.overlapped /\ ~kept.lost) => (Ids(marks.list) = Ids(kept.list) /\ Len(marks.list) = Len(kept.list))

(* One position gets one bookmark (handleCreateBookmark looks it up), where the *)
(* list could tell: not while it is being read, and not after a deletion that   *)
(* failed behind a new bookmark for the same position.                          *)
OnePerPlace ==
    (~kept.overlapped /\ ~kept.lost /\ ~kept.undeleted /\ \A c \in wire : c.kind # "delete") =>
        \A j, k \in DOMAIN kept.list : kept.list[j].place = kept.list[k].place => j = k

(* Together: the list is what the server has, with one bookmark for a place. *)
BookmarksSafe == OnePerPlace /\ ListIsServers
=============================================================================
