---------------------------- MODULE MCBookFlow -----------------------------
(* Small instances of BookFlow. *)
EXTENDS BookFlow

MCInfos == [title : Titles, cover : Covers, state : States]
MCTrim == [raw \in RawCategories |-> raw]

Load(legacy, ids, clients, ops, formats, n) ==
    [legacy |-> legacy, ids |-> ids, clients |-> clients, ops |-> ops, formats |-> formats, crashes |-> n]
One == {CHOOSE r \in Requests : TRUE}

(* Uploads against deletes and a crash; against the processing queue; saves *)
(* of copies against the hash worker and a crash, or against a deletion;    *)
(* edits.                                                                   *)
MCWorkloads ==
    {Load({1}, {2, 3}, Requests, {"upload", "delete", "batchDelete"}, {"pdf"}, 1),
     Load({}, {1, 2}, Requests, {"upload", "delete"}, {"epub"}, 0),
     Load({1}, {}, One, {"update", "delete", "cover"}, {}, 1),
     Load({1}, {}, Requests, {"cover", "delete"}, {}, 0),
     Load({1}, {}, One, {"update", "removeCategory", "delete", "category", "progress"}, {}, 0)}

MCEpubLoad == {Load({}, {1}, One, {"upload", "delete"}, {"epub"}, 0)}
=============================================================================
