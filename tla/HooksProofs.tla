----------------------------- MODULE HooksProofs -----------------------------
(***************************************************************************)
(* The two hooks that exchange the pages' data with the server.            *)
(*                                                                         *)
(* The shelf: what it shows is the selection of the library as it is,      *)
(* ShelfSafe for any books, categories, page size and number of uploads,   *)
(* and for any number of requests and edits in flight, answered in any     *)
(* order.  The invariant is about the requests.  Each is not ahead of the  *)
(* three generation counters (Behind); one of the present generations asks *)
(* for the present selection (Asked), has nothing to give after sign-out   *)
(* (Overtaken), and whatever library its answer is read from, the books in *)
(* it are as the library has them, or are books that an edit which was     *)
(* served and not yet answered is about, or were noted as touched when the *)
(* answer of an edit met them (BringsFine).  Counts are right, or will be  *)
(* asked for again (BringsCounts, CountsFine).                             *)
(*                                                                         *)
(* Positions: the saving flag stands for a request under way, and a        *)
(* position the reader still has to save is dropped only when it was saved *)
(* or staged, or replaced after a conflict, for any devices, books and     *)
(* positions and any number of requests.  Every step changes one device,   *)
(* so the invariant is a predicate on the row of a device (DeviceOK): its  *)
(* reader, its requests, what it staged and its queue.  Neither property   *)
(* is inductive by itself: an answer may only clear the flag of the reader *)
(* that is mounted, so a request that still has its reader as owner must   *)
(* find it open; what a save reports as saved must be the position it was  *)
(* sent with; and the queue names a book once only if every sync under way *)
(* works on books that differ.                                             *)
(***************************************************************************)
EXTENDS MCHooks, SequenceTheorems, FiniteSetTheorems, TLAPS

(***************************************************************************)
(* The invariant.  Types first: a record is described by its fields, and   *)
(* a field the proof does not look into is only named.                     *)
(***************************************************************************)
Cards == [id : BookIds, cat : Labels, pending : BOOLEAN]
Libraries == UNION {[D -> [cat : Labels, pending : BOOLEAN]] : D \in SUBSET BookIds}
IsPage(p) == p \in [known : BOOLEAN, books : SUBSET Cards, cursor : {p.cursor}, of : {p.of}]
IsShelf(sh) ==
    /\ sh \in [auth : BOOLEAN, filter : {sh.filter}, sort : {sh.sort}, word : {sh.word},
               list : {sh.list}, found : {sh.found}, summary : {sh.summary}, progress : {sh.progress},
               loading : BOOLEAN, more : BOOLEAN, searching : BOOLEAN, failed : BOOLEAN,
               load : Nat, search : Nat, sum : Nat, loadTimer : BOOLEAN, searchTimer : BOOLEAN,
               late : BOOLEAN, touched : {sh.touched}, missed : BOOLEAN]
    /\ IsPage(sh.list) /\ IsPage(sh.found)
    /\ sh.summary \in [known : BOOLEAN, counts : {sh.summary.counts}]
Kinds == LoadCalls \cup MoreCalls \cup SearchCalls \cup {"status", "summary"}
IsCall(c) ==
    c \in [kind : Kinds, load : Nat, search : Nat, sum : Nat, aborted : BOOLEAN,
           query : {c.query}, ids : {c.ids}, libs : SUBSET Libraries]
EditKinds == {"delete", "deleteMany", "category", "single", "rename"}
IsEdit(e) ==
    e \in [kind : EditKinds, ids : SUBSET BookIds, from : Labels, to : Labels, served : BOOLEAN,
           after : SUBSET Cards, by : {e.by}]
IsUpload(u) ==
    /\ u \in [active : BOOLEAN, todo : SUBSET BookIds, running : SUBSET BookIds, ok : Nat, reload : Nat, by : {u.by}]
    /\ ~u.active => u.ok = 0
    /\ u.running # {} => u.active /\ u.reload = 0

TypeInv ==
    /\ lib \in Libraries
    /\ IsShelf(shelf)
    /\ \A c \in requests : IsCall(c)
    /\ \A e \in edits : IsEdit(e)
    /\ IsUpload(upload)
    /\ given \subseteq BookIds

(* No request is ahead of the generations; only pages are kept after an abort. *)
Behind(sh, c) ==
    /\ c.load <= sh.load /\ c.search <= sh.search /\ c.sum <= sh.sum
    /\ c.kind = "page" => c.load > 0
    /\ c.aborted => c.kind \in {"page", "more"}

(* The first page under way is of the selection, unless a reload came late or *)
(* the selection has changed and the timer is set; a search is of the word.   *)
Asked(sh, c) ==
    /\ c.kind = "page" /\ c.load = sh.load /\ ~c.aborted =>
          /\ c.query.word = NoWord
          /\ sh.late \/ (c.query.filter = sh.filter /\ c.query.sort = sh.sort)
    /\ c.kind = "page" /\ c.load = sh.load /\ c.aborted => sh.loadTimer
    /\ c.kind = "search" /\ c.search = sh.search =>
          c.query.filter = sh.filter /\ c.query.sort = sh.sort /\ c.query.word = sh.word

(* After sign-out no request that may be answered is of the present generations. *)
Overtaken(sh, c) ==
    ~sh.auth /\ c.libs # {} =>
        /\ c.kind \in LoadCalls \cup MoreCalls => c.load < sh.load
        /\ c.kind \in SearchCalls => c.search < sh.search
        /\ c.kind \in {"pageSummary", "summary"} => c.sum < sh.sum

(* A book as the library has it, or touched, or one an edit that was served *)
(* and not yet answered is about.                                           *)
Removes(e) == e.kind \in {"delete", "deleteMany"}
Fine(sh, l, es, k) ==
    \/ k.id \in sh.touched
    \/ k.id \in DOMAIN l /\ l[k.id].cat = k.cat
    \/ \E e \in es : e.served /\ k.id \in e.ids /\ (Removes(e) \/ k.id \in DOMAIN l)

(* Requests whose books may still be shown. *)
Usable(sh, c) ==
    \/ c.kind = "page" /\ ~c.aborted /\ c.load = sh.load
    \/ c.kind = "more" /\ ~c.aborted /\ c.load = sh.load /\ c.search = sh.search
    \/ c.kind = "search" /\ c.search = sh.search
    \/ c.kind = "status"
BringsFine(sh, l, es, c) ==
    Usable(sh, c) => \A m \in c.libs : \A k \in Listed(m) : Fine(sh, l, es, k)

(* Counts that are, or will be, asked for again. *)
CountKinds == {"summary", "pageSummary"}
Recount(sh, es, u) ==
    \/ ~sh.auth
    \/ \E e \in es : e.served
    \/ u.ok > 0 /\ u.reload = 0
BringsCounts(sh, l, es, u, c) ==
    c.kind \in CountKinds /\ Current(sh, c) =>
        \A m \in c.libs : Counts(m) = Counts(l) \/ sh.missed \/ Recount(sh, es, u)

CallOK(sh, l, es, u, c) ==
    Behind(sh, c) /\ Asked(sh, c) /\ Overtaken(sh, c) /\ BringsFine(sh, l, es, c) /\ BringsCounts(sh, l, es, u, c)

OneCount(cs) == \A c, d \in cs : c.kind \in CountKinds /\ d.kind \in CountKinds /\ c.sum = d.sum => c = d

BooksFine(sh, l, es) ==
    /\ sh.loading \/ sh.loadTimer \/ \A k \in sh.list.books : Fine(sh, l, es, k)
    /\ \A k \in sh.found.books : Fine(sh, l, es, k)

CountsFine(sh, l, es, u, cs) ==
    sh.summary.known /\ ~sh.missed =>
        \/ sh.summary.counts = Counts(l)
        \/ sh.loadTimer \/ Recount(sh, es, u)
        \/ \E c \in cs : c.kind \in CountKinds /\ Current(sh, c)

Matches(sh) ==
    /\ sh.auth /\ sh.list.known /\ ~sh.loading /\ ~sh.loadTimer /\ ~sh.late
         => sh.list.of = [filter |-> sh.filter, sort |-> sh.sort, word |-> NoWord]
    /\ sh.auth /\ sh.found.known /\ ~sh.searching
         => sh.found.of = [filter |-> sh.filter, sort |-> sh.sort, word |-> sh.word]

Emptied(sh) ==
    ~sh.auth => sh.list.books = {} /\ sh.found.books = {} /\ sh.progress = {} /\ ~sh.summary.known

(* What an edit was served with is still so; only one dialog is busy. *)
EditOK(l, g, e) ==
    e.served =>
        /\ e.ids \subseteq g
        /\ ~Removes(e) => \A b \in e.ids : b \in DOMAIN l => l[b].cat = e.to
        /\ Removes(e) => e.ids \cap DOMAIN l = {}
        /\ e.kind = "category" => Ids(e.after) = e.ids /\ \A k \in e.after : k.cat = e.to
OneDialog(es) == \A e, d \in es : e.kind # "delete" /\ d.kind # "delete" => e = d

IdsNew(l, u, g) == DOMAIN l \subseteq g /\ u.running \cap g = {} /\ u.todo \cap g = {} /\ u.running \cap u.todo = {}

ShelfInv ==
    /\ TypeInv
    /\ \A c \in requests : CallOK(shelf, lib, edits, upload, c)
    /\ OneCount(requests)
    /\ BooksFine(shelf, lib, edits)
    /\ CountsFine(shelf, lib, edits, upload, requests)
    /\ Matches(shelf)
    /\ Emptied(shelf)
    /\ \A e \in edits : EditOK(lib, given, e)
    /\ OneDialog(edits)
    /\ IdsNew(lib, upload, given)
-----------------------------------------------------------------------------
(* What the operators of the shelf do to their records. *)

Alike(c, d) ==
    /\ d.kind = c.kind /\ d.load = c.load /\ d.search = c.search /\ d.sum = c.sum
    /\ d.query = c.query /\ d.ids = c.ids

(* A request that is aborted keeps all but its mark. *)
LEMMA AbortedCall ==
    ASSUME NEW c, IsCall(c)
    PROVE  LET d == [c EXCEPT !.aborted = TRUE]
           IN  IsCall(d) /\ Alike(c, d) /\ d.aborted /\ d.libs = c.libs
BY DEF IsCall, Alike

(* What AbortCalls leaves: requests of other kinds, and pages marked as aborted. *)
LEMMA AbortMembers ==
    ASSUME NEW cs, NEW K, \A c \in cs : IsCall(c), NEW d \in AbortCalls(cs, K)
    PROVE  /\ IsCall(d)
           /\ \/ d \in cs /\ d.kind \notin K
              \/ /\ d.kind \in K /\ d.kind \in {"page", "more"} /\ d.aborted
                 /\ \E c \in cs : Alike(c, d) /\ d.libs = c.libs
<1>1. CASE d \in {c \in cs : c.kind \notin K}
  BY <1>1
<1>2. CASE d \in {[c EXCEPT !.aborted = TRUE] : c \in {x \in cs : x.kind \in K \cap {"page", "more"}}}
  <2>1. PICK c \in cs : c.kind \in K /\ c.kind \in {"page", "more"} /\ d = [c EXCEPT !.aborted = TRUE]
    BY <1>2
  <2>2. IsCall(d) /\ Alike(c, d) /\ d.aborted /\ d.libs = c.libs
    BY <2>1, AbortedCall
  <2> QED  BY <2>1, <2>2 DEF Alike
<1> QED  BY <1>1, <1>2 DEF AbortCalls

(* A request of another kind is left alone. *)
LEMMA AbortKeeps ==
    ASSUME NEW cs, NEW K, NEW c \in cs, c.kind \notin K
    PROVE  c \in AbortCalls(cs, K)
BY DEF AbortCalls

(* A change of the library adds it to what a request may be answered from, if anything. *)
LEMMA SeenCall ==
    ASSUME NEW c, IsCall(c), NEW l \in Libraries
    PROVE  LET d == IF c.libs = {} THEN c ELSE [c EXCEPT !.libs = @ \cup {l}]
           IN  /\ IsCall(d) /\ Alike(c, d) /\ d.aborted = c.aborted
               /\ d.libs \subseteq c.libs \cup {l} /\ (c.libs = {} => d.libs = {})
<1>1. CASE c.libs = {}
  BY <1>1 DEF Alike
<1>2. CASE c.libs # {}
  <2> DEFINE d == [c EXCEPT !.libs = @ \cup {l}]
  <2>1. IsCall(d) /\ Alike(c, d) /\ d.aborted = c.aborted /\ d.libs = c.libs \cup {l}
    BY DEF IsCall, Alike
  <2> QED  BY <1>2, <2>1
<1> QED  BY <1>1, <1>2

(* The same for the requests in flight. *)
LEMMA SeenMembers ==
    ASSUME NEW cs, NEW l \in Libraries, \A c \in cs : IsCall(c), NEW d \in Seen(cs, l)
    PROVE  /\ IsCall(d)
           /\ \E c \in cs : /\ d = IF c.libs = {} THEN c ELSE [c EXCEPT !.libs = @ \cup {l}]
                            /\ Alike(c, d) /\ d.aborted = c.aborted
                            /\ d.libs \subseteq c.libs \cup {l} /\ (c.libs = {} => d.libs = {})
<1>1. PICK c \in cs : d = IF c.libs = {} THEN c ELSE [c EXCEPT !.libs = @ \cup {l}]
  BY DEF Seen
<1> QED  BY <1>1, SeenCall

(* A request has the present generations; signed out it will get no answer. *)
LEMMA NewRequestFields ==
    ASSUME NEW l \in Libraries, NEW kind \in Kinds, NEW sh, IsShelf(sh), NEW q, NEW ids, NEW c,
           c = NewRequest(l, kind, sh, q, ids)
    PROVE  /\ IsCall(c) /\ c.kind = kind /\ c.load = sh.load /\ c.search = sh.search /\ c.sum = sh.sum
           /\ ~c.aborted /\ c.query = q /\ c.ids = ids
           /\ (sh.auth => c.libs = {l}) /\ (~sh.auth => c.libs = {})
<1>1. sh.load \in Nat /\ sh.search \in Nat /\ sh.sum \in Nat /\ sh.auth \in BOOLEAN
  BY DEF IsShelf
<1> DEFINE libs == IF sh.auth THEN {l} ELSE {}
<1>2. libs \in SUBSET Libraries
  OBVIOUS
<1>3. c = [kind |-> kind, load |-> sh.load, search |-> sh.search, sum |-> sh.sum, aborted |-> FALSE,
           query |-> q, ids |-> ids, libs |-> libs]
  BY DEF NewRequest
<1> HIDE DEF libs
<1>4. /\ IsCall(c) /\ c.kind = kind /\ c.load = sh.load /\ c.search = sh.search /\ c.sum = sh.sum
      /\ ~c.aborted /\ c.query = q /\ c.ids = ids /\ c.libs = libs
  BY <1>1, <1>2, <1>3 DEF IsCall
<1> QED  BY <1>4 DEF libs
SameSelection(a, b) == b.filter = a.filter /\ b.sort = a.sort /\ b.word = a.word
SameHistory(a, b) == b.late = a.late /\ b.touched = a.touched /\ b.missed = a.missed

(* The empty page. *)
LEMMA NoPageIsPage == IsPage(NoPage) /\ NoPage.books = {} /\ ~NoPage.known
BY DEF IsPage, NoPage

(* The unknown counts. *)
LEMMA NoSummaryTyped ==
    /\ NoSummary \in [known : BOOLEAN, counts : {NoSummary.counts}]
    /\ ~NoSummary.known
BY DEF NoSummary

(* The effects for a user who is signed in: a timer, and the search starts again. *)
LEMMA ReselectSignedIn ==
    ASSUME NEW n, IsShelf(n), n.auth
    PROVE  LET t == Reselect(n)
           IN  /\ IsShelf(t) /\ t.auth /\ SameSelection(n, t) /\ SameHistory(n, t)
               /\ t.load = n.load /\ t.sum = n.sum /\ t.search = n.search + 1
               /\ t.list = n.list /\ t.summary = n.summary /\ t.progress = n.progress
               /\ t.loading = n.loading /\ t.loadTimer
               /\ t.searching = (n.word # NoWord)
               /\ t.found = IF n.word # NoWord THEN n.found ELSE NoPage
<1> DEFINE word == n.word # NoWord
           found == IF word THEN n.found ELSE NoPage
           up == n.search + 1
<1>1. word \in BOOLEAN /\ IsPage(found) /\ up \in Nat
  BY NoPageIsPage DEF IsShelf
<1>2. Reselect(n) = [n EXCEPT !.loadTimer = TRUE, !.search = up, !.more = FALSE,
                              !.searchTimer = word, !.searching = word, !.found = found]
  BY Zenon DEF Reselect
<1> HIDE DEF word, found, up
<1> DEFINE t == [n EXCEPT !.loadTimer = TRUE, !.search = up, !.more = FALSE,
                          !.searchTimer = word, !.searching = word, !.found = found]
<1>3. /\ IsShelf(t) /\ t.auth = n.auth /\ SameSelection(n, t) /\ SameHistory(n, t)
      /\ t.load = n.load /\ t.sum = n.sum /\ t.search = up
      /\ t.list = n.list /\ t.summary = n.summary /\ t.progress = n.progress
      /\ t.loading = n.loading /\ t.loadTimer /\ t.searching = word /\ t.found = found
  BY <1>1 DEF IsShelf, SameSelection, SameHistory
<1> HIDE DEF t
<1>4. Reselect(n) = t
  BY <1>2 DEF t
<1> QED  BY <1>3, <1>4 DEF word, found, up

(* Clearing private data raises all three generations. *)
LEMMA ClearedFields ==
    ASSUME NEW n, IsShelf(n)
    PROVE  LET t == ClearPrivate(n)
           IN  /\ IsShelf(t) /\ t.auth = n.auth /\ SameSelection(n, t) /\ SameHistory(n, t)
               /\ t.load = n.load + 1 /\ t.sum = n.sum + 1 /\ t.search = n.search + 1
               /\ t.list = NoPage /\ t.found = NoPage /\ t.summary = NoSummary /\ t.progress = {}
<1> DEFINE up == n.search + 1
           load == n.load + 1
           sum == n.sum + 1
<1>1. up \in Nat /\ load \in Nat /\ sum \in Nat
  BY DEF IsShelf
<1> HIDE DEF up, load, sum
<1> DEFINE nopage == NoPage
           nosum == NoSummary
<1>0. IsPage(nopage) /\ nosum \in [known : BOOLEAN, counts : {nosum.counts}]
  BY NoPageIsPage, NoSummaryTyped
<1> HIDE DEF nopage, nosum
<1> DEFINE t == [n EXCEPT !.load = load, !.search = up, !.sum = sum,
               !.list = nopage, !.found = nopage, !.summary = nosum, !.progress = {}]
<1>2. /\ IsShelf(t) /\ t.auth = n.auth /\ SameSelection(n, t) /\ SameHistory(n, t)
      /\ t.load = load /\ t.sum = sum /\ t.search = up
      /\ t.list = nopage /\ t.found = nopage /\ t.summary = nosum /\ t.progress = {}
  BY <1>1, <1>0 DEF IsShelf, SameSelection, SameHistory
<1> HIDE DEF t
<1>3. ClearPrivate(n) = t
  BY DEF ClearPrivate, t, up, load, sum, nopage, nosum
<1> QED  BY <1>2, <1>3 DEF up, load, sum, nopage, nosum

(* The effects for a user who is not: everything goes, no timer is set. *)
LEMMA ReselectSignedOut ==
    ASSUME NEW n, IsShelf(n), ~n.auth
    PROVE  LET t == Reselect(n)
           IN  /\ IsShelf(t) /\ ~t.auth /\ SameHistory(n, t)
               /\ t.load = n.load + 1 /\ t.sum = n.sum + 1 /\ t.search = n.search + 2
               /\ t.list = NoPage /\ t.found = NoPage /\ t.summary = NoSummary /\ t.progress = {}
               /\ ~t.loadTimer
<1> DEFINE s == ClearPrivate(n)
<1>1. /\ IsShelf(s) /\ s.auth = n.auth /\ SameHistory(n, s)
      /\ s.load = n.load + 1 /\ s.sum = n.sum + 1 /\ s.search = n.search + 1
      /\ s.list = NoPage /\ s.found = NoPage /\ s.summary = NoSummary /\ s.progress = {}
  BY ClearedFields
<1> HIDE DEF s
<1> DEFINE up == s.search + 1
           nopage == NoPage
<1>2. up \in Nat /\ up = n.search + 2 /\ IsPage(nopage)
  BY <1>1, NoPageIsPage DEF IsShelf
<1>5. n.auth = FALSE
  BY DEF IsShelf
<1>3. Reselect(n) = [s EXCEPT !.loadTimer = FALSE, !.search = up, !.more = FALSE,
                              !.searchTimer = FALSE, !.searching = FALSE, !.found = nopage]
  BY <1>5, Zenon DEF Reselect, s
<1> HIDE DEF up, nopage
<1> DEFINE t == [s EXCEPT !.loadTimer = FALSE, !.search = up, !.more = FALSE,
                          !.searchTimer = FALSE, !.searching = FALSE, !.found = nopage]
<1>7. IsShelf(s)
  BY <1>1
<1>8. up \in Nat /\ IsPage(nopage)
  BY <1>2
<1>4. /\ IsShelf(t) /\ t.auth = s.auth /\ SameHistory(s, t)
      /\ t.load = s.load /\ t.sum = s.sum /\ t.search = up
      /\ t.list = s.list /\ t.summary = s.summary /\ t.progress = s.progress
      /\ ~t.loadTimer /\ t.found = nopage
  BY <1>7, <1>8 DEF IsShelf, SameHistory
<1> HIDE DEF t
<1>6. Reselect(n) = t
  BY <1>3 DEF t
<1> QED  BY <1>1, <1>2, <1>4, <1>6 DEF nopage, SameHistory

(* loadBooks: the list stays until its page comes, and all counters go on. *)
LEMMA LoadBooksFields ==
    ASSUME NEW n, IsShelf(n), NEW by
    PROVE  LET t == LoadBooksTo(n, by)
           IN  /\ IsShelf(t) /\ t.auth = n.auth /\ SameSelection(n, t)
               /\ t.load = n.load + 1 /\ t.sum = n.sum + 1 /\ t.search = n.search
               /\ IsPage(t.list) /\ t.list.books = n.list.books /\ t.found = n.found
               /\ t.list.known = n.list.known /\ t.list.of = n.list.of
               /\ t.summary = n.summary /\ t.progress = {} /\ t.searching = n.searching
               /\ t.loading /\ t.loadTimer = n.loadTimer
               /\ (~t.late => by = [filter |-> n.filter, sort |-> n.sort])
               /\ t.touched = n.touched /\ t.missed = n.missed
<1> DEFINE load == n.load + 1
           sum == n.sum + 1
           late == by # [filter |-> n.filter, sort |-> n.sort]
           list == [n.list EXCEPT !.cursor = 0]
<1>1. load \in Nat /\ sum \in Nat /\ late \in BOOLEAN
  BY DEF IsShelf
<1>2. IsPage(list) /\ list.books = n.list.books /\ list.known = n.list.known /\ list.of = n.list.of
  BY DEF IsShelf, IsPage
<1> HIDE DEF load, sum, late, list
<1> DEFINE t == [n EXCEPT !.load = load, !.sum = sum, !.more = FALSE, !.list = list,
                          !.loading = TRUE, !.failed = FALSE, !.progress = {}, !.late = late]
<1>3. /\ IsShelf(t) /\ t.auth = n.auth /\ SameSelection(n, t)
      /\ t.load = load /\ t.sum = sum /\ t.search = n.search
      /\ t.list = list /\ t.found = n.found
      /\ t.summary = n.summary /\ t.progress = {} /\ t.searching = n.searching
      /\ t.loading /\ t.loadTimer = n.loadTimer /\ t.late = late
      /\ t.touched = n.touched /\ t.missed = n.missed
  BY <1>1, <1>2 DEF IsShelf, SameSelection
<1>4. LoadBooksTo(n, by) = t
  BY DEF LoadBooksTo, t, load, sum, late, list, IsShelf
<1>5. ~late => by = [filter |-> n.filter, sort |-> n.sort]
  BY Zenon DEF late
<1> HIDE DEF t
<1> QED  BY <1>2, <1>3, <1>4, <1>5 DEF load, sum
-----------------------------------------------------------------------------
(* A request that stays in flight, over a step of the shelf from sh to t.   *)

Onward(sh, t) == t.load >= sh.load /\ t.search >= sh.search /\ t.sum >= sh.sum

(* A book read from the library as it is needs no excuse. *)
LEMMA ListedFine ==
    ASSUME NEW t, NEW l \in Libraries, NEW es, NEW k \in Listed(l)
    PROVE  Fine(t, l, es, k) /\ k \in Cards
<1>1. PICK b \in DOMAIN l : k = [id |-> b, cat |-> l[b].cat, pending |-> l[b].pending]
  BY DEF Listed
<1>2. l[b] \in [cat : Labels, pending : BOOLEAN] /\ b \in BookIds
  BY DEF Libraries
<1> QED  BY <1>1, <1>2 DEF Fine, Cards

(* A request stays in order over a step that moves the generations onward: what is *)
(* asked of each part of CallOK only concerns a request that is still usable.      *)
LEMMA CallKept ==
    ASSUME NEW sh, NEW t, NEW l, NEW l2 \in Libraries, NEW es, NEW es2, NEW u, NEW u2, NEW c, NEW d,
           IsShelf(sh), IsShelf(t), IsCall(c), IsCall(d), CallOK(sh, l, es, u, c),
           Alike(c, d), c.aborted => d.aborted, d.aborted => d.kind \in {"page", "more"}, Onward(sh, t),
           d.kind = "page" /\ t.load = sh.load =>
              \/ /\ t.late = sh.late /\ t.filter = sh.filter /\ t.sort = sh.sort
                 /\ sh.loadTimer => t.loadTimer
                 /\ d.aborted => c.aborted
              \/ d.aborted /\ t.loadTimer,
           d.kind = "search" /\ t.search = sh.search => SameSelection(sh, t),
           \/ t.auth = sh.auth
           \/ t.load > sh.load /\ t.search > sh.search /\ t.sum > sh.sum,
           d.libs \subseteq c.libs \cup {l2}, c.libs = {} => d.libs = {},
           Usable(t, d) => \A m \in c.libs : \A k \in Listed(m) : Fine(sh, l, es, k) => Fine(t, l2, es2, k),
           d.kind \in CountKinds /\ d.sum = t.sum =>
              \/ Recount(t, es2, u2) \/ t.missed
              \/ /\ Counts(l) = Counts(l2) /\ (sh.missed => t.missed)
                 /\ Recount(sh, es, u) => Recount(t, es2, u2)
    PROVE  CallOK(t, l2, es2, u2, d)
<1>1. /\ sh.load \in Nat /\ sh.search \in Nat /\ sh.sum \in Nat /\ t.load \in Nat /\ t.search \in Nat
      /\ t.sum \in Nat /\ c.load \in Nat /\ c.search \in Nat /\ c.sum \in Nat /\ c.aborted \in BOOLEAN
      /\ d.aborted \in BOOLEAN /\ sh.auth \in BOOLEAN /\ t.auth \in BOOLEAN
  BY DEF IsShelf, IsCall
<1>2. /\ d.kind = c.kind /\ d.load = c.load /\ d.search = c.search /\ d.sum = c.sum
      /\ d.query = c.query /\ d.ids = c.ids
  BY DEF Alike
<1>3. Behind(sh, c) /\ Behind(t, d)
  BY <1>1, <1>2 DEF CallOK, Behind, Onward
<1>4. Asked(t, d)
  <2>1. Asked(sh, c)
    BY DEF CallOK
  <2> QED  BY <1>1, <1>2, <1>3, <2>1 DEF Asked, Behind, Onward, SameSelection
<1>5. Overtaken(t, d)
  <2>1. Overtaken(sh, c)
    BY DEF CallOK
  <2> QED  BY <1>1, <1>2, <1>3, <2>1 DEF Overtaken, Behind, Onward
<1>6. BringsFine(t, l2, es2, d)
  <2> SUFFICES ASSUME Usable(t, d), NEW m \in d.libs, NEW k \in Listed(m)
               PROVE  Fine(t, l2, es2, k)
    BY DEF BringsFine
  <2>1. CASE m = l2
    BY <2>1, ListedFine
  <2>2. CASE m \in c.libs
    <3>1. Usable(sh, c)
      BY <1>1, <1>2, <1>3 DEF Usable, Behind, Onward
    <3>2. Fine(sh, l, es, k)
      BY <3>1, <2>2 DEF CallOK, BringsFine
    <3> QED  BY <3>2, <2>2
  <2> QED  BY <2>1, <2>2
<1>7. BringsCounts(t, l2, es2, u2, d)
  <2> SUFFICES ASSUME d.kind \in CountKinds, Current(t, d), NEW m \in d.libs
               PROVE  Counts(m) = Counts(l2) \/ t.missed \/ Recount(t, es2, u2)
    BY DEF BringsCounts
  <2>1. d.sum = t.sum /\ ~d.aborted
    BY DEF Current, CountKinds
  <2>2. CASE m = l2
    BY <2>2
  <2>3. CASE m \in c.libs
    <3>1. Current(sh, c)
      BY <1>1, <1>2, <1>3 DEF Current, Behind, Onward, CountKinds, LoadCalls, MoreCalls, SearchCalls
    <3>2. Counts(m) = Counts(l) \/ sh.missed \/ Recount(sh, es, u)
      BY <3>1, <1>2, <2>3 DEF CallOK, BringsCounts
    <3> QED  BY <3>2, <2>1
  <2> QED  BY <2>2, <2>3
<1> QED  BY <1>3, <1>4, <1>5, <1>6, <1>7 DEF CallOK
-----------------------------------------------------------------------------
(* A changed selection, and sign-out. *)

(* More touched books excuse more. *)
LEMMA FineByTouched ==
    ASSUME NEW sh, NEW t, NEW l, NEW es, NEW k, sh.touched \subseteq t.touched, Fine(sh, l, es, k)
    PROVE  Fine(t, l, es, k)
BY DEF Fine

(* n is the shelf after the change, the effects not yet run. *)
LEMMA SelectStep ==
    ASSUME ShelfInv, NEW n, IsShelf(n), shelf.auth,
           n.load = shelf.load, n.search = shelf.search, n.sum = shelf.sum,
           n.list = shelf.list, n.found = shelf.found, n.touched = shelf.touched, n.missed = shelf.missed,
           Select(n), UNCHANGED <<lib, edits, upload, given>>
    PROVE  ShelfInv'
<1> DEFINE t == shelf'
<1> USE DEF Onward
<1>0. /\ IsShelf(shelf) /\ lib \in Libraries /\ \A c \in requests : IsCall(c)
      /\ \A c \in requests : CallOK(shelf, lib, edits, upload, c)
      /\ n.load \in Nat /\ n.search \in Nat /\ n.sum \in Nat
  BY DEF ShelfInv, TypeInv, IsShelf
<1>1. /\ shelf' = Reselect(n) /\ requests' = SelectionAborts(requests)
      /\ lib' = lib /\ edits' = edits /\ upload' = upload /\ given' = given
  BY DEF Select
<1>2. /\ IsShelf(t) /\ t.auth = n.auth /\ t.touched = n.touched /\ t.missed = n.missed
      /\ t.search > n.search /\ t.load >= n.load /\ t.sum >= n.sum
      /\ n.auth => /\ t.load = n.load /\ t.sum = n.sum /\ t.loadTimer
                   /\ t.list = n.list /\ t.searching = (n.word # NoWord)
                   /\ t.found = IF n.word # NoWord THEN n.found ELSE NoPage
      /\ ~n.auth => /\ t.load > n.load /\ t.sum > n.sum /\ t.list = NoPage /\ t.found = NoPage
                    /\ t.progress = {} /\ t.summary = NoSummary
  <2>1. CASE n.auth
    <3>1. /\ IsShelf(t) /\ t.auth /\ SameHistory(n, t) /\ t.load = n.load /\ t.sum = n.sum
          /\ t.search = n.search + 1 /\ t.list = n.list /\ t.loadTimer
          /\ t.searching = (n.word # NoWord)
          /\ t.found = IF n.word # NoWord THEN n.found ELSE NoPage
      BY <2>1, <1>1, ReselectSignedIn, Zenon
    <3>2. t.search > n.search /\ t.load >= n.load /\ t.sum >= n.sum
      BY <3>1, <1>0
    <3> QED  BY <2>1, <3>1, <3>2, Zenon DEF SameHistory
  <2>2. CASE ~n.auth
    BY <2>2, <1>0, <1>1, ReselectSignedOut DEF SameHistory, IsShelf
  <2> QED  BY <2>1, <2>2
<1>3. ASSUME NEW d \in requests'
      PROVE  /\ IsCall(d) /\ CallOK(shelf', lib', edits', upload', d)
             /\ d.kind \in CountKinds => d \in requests
  <2> DEFINE K == LoadCalls \cup MoreCalls \cup SearchCalls
  <2>0. d \in AbortCalls(requests, K)
    BY <1>1 DEF SelectionAborts
  <2>1. /\ IsCall(d)
        /\ \/ d \in requests /\ d.kind \notin K
           \/ /\ d.kind \in K /\ d.kind \in {"page", "more"} /\ d.aborted
              /\ \E c \in requests : Alike(c, d) /\ d.libs = c.libs
    <3> HIDE DEF K
    <3> QED  BY <2>0, <1>0, AbortMembers
  <2>2. PICK c \in requests : /\ Alike(c, d) /\ d.libs = c.libs
                              /\ (d = c /\ d.kind \notin K) \/ (d.kind \in {"page", "more"} /\ d.aborted)
    BY <2>1 DEF Alike
  <2>3. d.kind # "search" /\ (d.kind = "page" => d.aborted) /\ (c.aborted => d.aborted)
        /\ (d.aborted => d.kind \in {"page", "more"})
    BY <2>2, <1>0 DEF LoadCalls, SearchCalls, CallOK, Behind
  <2>4. CallOK(t, lib, edits, upload, d)
    <3>1. n.auth = shelf.auth \/ ~n.auth
      BY DEF IsShelf
    <3>2. ~n.auth => Recount(t, edits, upload)
      BY <1>2 DEF Recount
    <3>3. n.auth => (Recount(shelf, edits, upload) => Recount(t, edits, upload))
      BY <1>2 DEF Recount
    <3>4. \A k : Fine(shelf, lib, edits, k) => Fine(t, lib, edits, k)
      BY <1>2 DEF Fine
    <3>5. t.auth = shelf.auth \/ (t.load > shelf.load /\ t.search > shelf.search /\ t.sum > shelf.sum)
      BY <1>2, <3>1 DEF IsShelf
    <3>6. d.kind = "page" /\ t.load = shelf.load => d.aborted /\ t.loadTimer
      BY <1>2, <2>3, <1>0
    <3>7. t.load >= shelf.load /\ t.search >= shelf.search /\ t.sum >= shelf.sum /\ t.missed = shelf.missed
      <4> HIDE DEF t
      <4>1. t.search > n.search /\ t.load >= n.load /\ t.sum >= n.sum /\ t.missed = n.missed
        BY <1>2, Zenon
      <4>2. t.search \in Nat /\ t.search >= n.search
        BY <1>0, <1>2, <4>1 DEF IsShelf
      <4> QED BY <4>1, <4>2
    <3>8. \/ Recount(t, edits, upload)
          \/ Recount(shelf, edits, upload) => Recount(t, edits, upload)
      BY <3>2, <3>3
    <3>9. /\ IsShelf(shelf) /\ IsShelf(t) /\ lib \in Libraries /\ IsCall(c) /\ IsCall(d)
          /\ CallOK(shelf, lib, edits, upload, c) /\ d.libs = c.libs /\ Alike(c, d)
      BY <1>0, <1>2, <2>1, <2>2
    <3> HIDE DEF t
    <3> QED  BY <2>3, <3>4, <3>5, <3>6, <3>7, <3>8, <3>9, CallKept
  <2> QED  BY <1>1, <2>1, <2>2, <2>4 DEF CountKinds
<1>4. TypeInv'
  BY <1>1, <1>2, <1>3 DEF TypeInv, ShelfInv
<1>5. OneCount(requests')
  BY <1>3 DEF OneCount, ShelfInv
<1>6. BooksFine(shelf', lib', edits') /\ CountsFine(shelf', lib', edits', upload', requests')
  <2>1. CASE n.auth
    <3>1. ASSUME NEW k \in t.found.books PROVE Fine(t, lib, edits, k)
      BY <2>1, <1>2, NoPageIsPage DEF ShelfInv, BooksFine, Fine
    <3> QED  BY <2>1, <3>1, <1>1, <1>2 DEF BooksFine, CountsFine
  <2>2. CASE ~n.auth
    BY <2>2, <1>2, NoPageIsPage, NoSummaryTyped DEF BooksFine, CountsFine
  <2> QED  BY <2>1, <2>2
<1>7. Matches(shelf') /\ Emptied(shelf')
  BY <1>2, NoPageIsPage, NoSummaryTyped DEF Matches, Emptied
<1> QED  BY <1>1, <1>3, <1>4, <1>5, <1>6, <1>7 DEF ShelfInv

(* Filter, sort, sign-out and the category that is gone all change the selection. *)
LEMMA SelectionSteps ==
    ASSUME ShelfInv,
           \/ \E f \in Filters : SetSelectedCategoryId(f)
           \/ \E s \in Sorts : SetSortBy(s)
           \/ Logout
           \/ CategoryGone
    PROVE  ShelfInv'
<1>0. IsShelf(shelf)
  BY DEF ShelfInv, TypeInv
<1>1. ASSUME NEW f \in Filters, SetSelectedCategoryId(f) PROVE ShelfInv'
  <2> DEFINE n == [shelf EXCEPT !.filter = f]
  <2>1. /\ IsShelf(n) /\ n.load = shelf.load /\ n.search = shelf.search /\ n.sum = shelf.sum
        /\ n.list = shelf.list /\ n.found = shelf.found /\ n.touched = shelf.touched /\ n.missed = shelf.missed
    BY <1>0 DEF IsShelf
  <2>2. Select(n) /\ shelf.auth /\ UNCHANGED <<lib, edits, upload, given>>
    BY <1>1 DEF SetSelectedCategoryId
  <2> HIDE DEF n
  <2> QED  BY <2>1, <2>2, SelectStep
<1>2. ASSUME NEW s \in Sorts, SetSortBy(s) PROVE ShelfInv'
  <2> DEFINE n == [shelf EXCEPT !.sort = s]
  <2>1. /\ IsShelf(n) /\ n.load = shelf.load /\ n.search = shelf.search /\ n.sum = shelf.sum
        /\ n.list = shelf.list /\ n.found = shelf.found /\ n.touched = shelf.touched /\ n.missed = shelf.missed
    BY <1>0 DEF IsShelf
  <2>2. Select(n) /\ shelf.auth /\ UNCHANGED <<lib, edits, upload, given>>
    BY <1>2 DEF SetSortBy
  <2> HIDE DEF n
  <2> QED  BY <2>1, <2>2, SelectStep
<1>3. ASSUME Logout PROVE ShelfInv'
  <2> DEFINE n == [shelf EXCEPT !.auth = FALSE]
  <2>1. /\ IsShelf(n) /\ n.load = shelf.load /\ n.search = shelf.search /\ n.sum = shelf.sum
        /\ n.list = shelf.list /\ n.found = shelf.found /\ n.touched = shelf.touched /\ n.missed = shelf.missed
    BY <1>0 DEF IsShelf
  <2>2. Select(n) /\ shelf.auth /\ UNCHANGED <<lib, edits, upload, given>>
    BY <1>3 DEF Logout
  <2> HIDE DEF n
  <2> QED  BY <2>1, <2>2, SelectStep
<1>4. ASSUME CategoryGone PROVE ShelfInv'
  <2> DEFINE n == [shelf EXCEPT !.filter = "all"]
  <2>1. /\ IsShelf(n) /\ n.load = shelf.load /\ n.search = shelf.search /\ n.sum = shelf.sum
        /\ n.list = shelf.list /\ n.found = shelf.found /\ n.touched = shelf.touched /\ n.missed = shelf.missed
    BY <1>0 DEF IsShelf
  <2>2. Select(n) /\ shelf.auth /\ UNCHANGED <<lib, edits, upload, given>>
    BY <1>4 DEF CategoryGone
  <2> HIDE DEF n
  <2> QED  BY <2>1, <2>2, SelectStep
<1> QED  BY <1>1, <1>2, <1>3, <1>4
-----------------------------------------------------------------------------
(* The search field: the list and its requests stay. *)
LEMMA SearchQueryStep ==
    ASSUME ShelfInv, NEW w \in Words \cup {NoWord}, SetSearchQuery(w)
    PROVE  ShelfInv'
<1> DEFINE t == shelf'
           K == MoreCalls \cup SearchCalls
<1> USE DEF Onward
<1>0. /\ IsShelf(shelf) /\ lib \in Libraries /\ \A c \in requests : IsCall(c)
      /\ \A c \in requests : CallOK(shelf, lib, edits, upload, c)
      /\ shelf.load \in Nat /\ shelf.search \in Nat /\ shelf.sum \in Nat
  BY DEF ShelfInv, TypeInv, IsShelf
<1>1. /\ requests' = AbortCalls(requests, K) /\ shelf.auth
      /\ lib' = lib /\ edits' = edits /\ upload' = upload /\ given' = given
  BY DEF SetSearchQuery
<1>2. /\ IsShelf(t) /\ t.auth = shelf.auth /\ t.filter = shelf.filter /\ t.sort = shelf.sort /\ t.word = w
      /\ SameHistory(shelf, t) /\ t.load = shelf.load /\ t.sum = shelf.sum /\ t.search = shelf.search + 1
      /\ t.list = shelf.list /\ t.summary = shelf.summary /\ t.loading = shelf.loading
      /\ t.loadTimer = shelf.loadTimer /\ t.searching = (w # NoWord)
      /\ t.found = IF w # NoWord THEN shelf.found ELSE NoPage
  <2> DEFINE n == [shelf EXCEPT !.word = w]
             s == Reselect(n)
             e == [s EXCEPT !.loadTimer = shelf.loadTimer]
  <2>1. /\ IsShelf(n) /\ n.auth = shelf.auth /\ n.filter = shelf.filter /\ n.sort = shelf.sort /\ n.word = w
        /\ SameHistory(shelf, n) /\ n.load = shelf.load /\ n.sum = shelf.sum /\ n.search = shelf.search
        /\ n.list = shelf.list /\ n.summary = shelf.summary /\ n.loading = shelf.loading /\ n.found = shelf.found
    BY <1>0 DEF IsShelf, SameHistory
  <2>2. shelf' = e
    BY DEF SetSearchQuery
  <2> HIDE DEF n
  <2>3. /\ IsShelf(s) /\ s.auth /\ SameSelection(n, s) /\ SameHistory(n, s)
        /\ s.load = n.load /\ s.sum = n.sum /\ s.search = n.search + 1
        /\ s.list = n.list /\ s.summary = n.summary /\ s.loading = n.loading
        /\ s.searching = (n.word # NoWord)
        /\ s.found = IF n.word # NoWord THEN n.found ELSE NoPage
    <3>1. n.auth
      BY <2>1, <1>1
    <3> QED  BY <2>1, <3>1, ReselectSignedIn, Zenon
  <2> HIDE DEF s
  <2>4. shelf.loadTimer \in BOOLEAN
    BY <1>0 DEF IsShelf
  <2>5. /\ IsShelf(e) /\ e.auth = s.auth /\ SameSelection(s, e) /\ SameHistory(s, e)
        /\ e.load = s.load /\ e.sum = s.sum /\ e.search = s.search
        /\ e.list = s.list /\ e.summary = s.summary /\ e.loading = s.loading
        /\ e.searching = s.searching /\ e.found = s.found /\ e.loadTimer = shelf.loadTimer
    BY <2>3, <2>4 DEF IsShelf, SameSelection, SameHistory
  <2> HIDE DEF e
  <2> QED  BY <2>1, <2>2, <2>3, <2>5, <1>1, Zenon DEF SameSelection, SameHistory
<1>3. ASSUME NEW d \in requests'
      PROVE  /\ IsCall(d) /\ CallOK(shelf', lib', edits', upload', d)
             /\ d.kind \in CountKinds => d \in requests
  <2>1. /\ IsCall(d)
        /\ \/ d \in requests /\ d.kind \notin K
           \/ /\ d.kind \in K /\ d.kind \in {"page", "more"} /\ d.aborted
              /\ \E c \in requests : Alike(c, d) /\ d.libs = c.libs
    <3> HIDE DEF K
    <3> QED  BY <1>1, <1>0, AbortMembers
  <2>2. PICK c \in requests : /\ Alike(c, d) /\ d.libs = c.libs
                              /\ (d = c /\ d.kind \notin K) \/ (d.kind \in {"page", "more"} /\ d.kind \in K /\ d.aborted)
    BY <2>1 DEF Alike
  <2>3. d.kind # "search" /\ (d.kind = "page" => d = c) /\ (c.aborted => d.aborted)
        /\ (d.aborted => d.kind \in {"page", "more"})
    BY <2>2, <1>0 DEF LoadCalls, SearchCalls, MoreCalls, CallOK, Behind
  <2>4. CallOK(t, lib, edits, upload, d)
    <3>3. Recount(shelf, edits, upload) => Recount(t, edits, upload)
      BY <1>2 DEF Recount
    <3>4. \A k : Fine(shelf, lib, edits, k) => Fine(t, lib, edits, k)
      BY <1>2 DEF Fine, SameHistory
    <3>5. /\ t.load >= shelf.load /\ t.search >= shelf.search /\ t.sum >= shelf.sum
          /\ t.late = shelf.late /\ t.missed = shelf.missed /\ t.filter = shelf.filter /\ t.sort = shelf.sort
          /\ t.loadTimer = shelf.loadTimer /\ t.auth = shelf.auth /\ IsShelf(t)
      BY <1>2, <1>0 DEF SameHistory
    <3>6. d.kind = "page" => (d.aborted => c.aborted)
      BY <2>3
    <3> HIDE DEF t
    <3> QED  BY <1>0, <2>1, <2>2, <2>3, <3>3, <3>4, <3>5, <3>6, CallKept
  <2> QED  BY <1>1, <2>1, <2>2, <2>4 DEF CountKinds
<1>4. TypeInv'
  BY <1>1, <1>2, <1>3 DEF TypeInv, ShelfInv
<1>5. OneCount(requests')
  BY <1>3 DEF OneCount, ShelfInv
<1>6. BooksFine(shelf', lib', edits')
  <2>1. \A k : Fine(shelf, lib, edits, k) => Fine(t, lib, edits, k)
    BY <1>2 DEF Fine, SameHistory
  <2>2. BooksFine(shelf, lib, edits) /\ (t.found.books = shelf.found.books \/ t.found.books = {})
    BY <1>2, NoPageIsPage DEF ShelfInv
  <2> QED  BY <2>1, <2>2, <1>1, <1>2 DEF BooksFine
<1>7. CountsFine(shelf', lib', edits', upload', requests')
  <2>1. CountsFine(shelf, lib, edits, upload, requests)
    BY DEF ShelfInv
  <2>2. ASSUME NEW c \in requests, c.kind \in CountKinds, Current(shelf, c)
        PROVE  c \in requests' /\ Current(t, c)
    <3>1. c \in requests'
      <4>1. c.kind \notin K
        BY <2>2 DEF CountKinds, MoreCalls, SearchCalls
      <4> HIDE DEF K
      <4> QED  BY <4>1, <1>1, AbortKeeps
    <3> QED  BY <3>1, <2>2, <1>2 DEF Current, CountKinds, LoadCalls, MoreCalls, SearchCalls
  <2>3. Recount(shelf, edits, upload) => Recount(t, edits, upload)
    BY <1>2 DEF Recount
  <2> QED  BY <2>1, <2>2, <2>3, <1>1, <1>2 DEF CountsFine, SameHistory
<1>8. Matches(shelf') /\ Emptied(shelf')
  <2>1. Matches(shelf) /\ Emptied(shelf)
    BY DEF ShelfInv
  <2>2. t.searching \/ ~t.found.known
    BY <1>2, NoPageIsPage
  <2> QED  BY <2>1, <2>2, <1>1, <1>2 DEF Matches, Emptied, SameHistory
<1> QED  BY <1>1, <1>3, <1>4, <1>5, <1>6, <1>7, <1>8 DEF ShelfInv
-----------------------------------------------------------------------------
(* loadBooks *)

(* cs are the requests in flight, answered from the library l2 as well; the   *)
(* shelf goes on to t, which has new generations of the list and the counts.  *)
LEMMA ReloadCalls ==
    ASSUME ShelfInv, NEW cs, NEW by,
           IsShelf(shelf'), lib' \in Libraries,
           \A d \in cs : IsCall(d) /\ \E c \in requests : /\ Alike(c, d) /\ d.aborted = c.aborted
                                                          /\ d.libs \subseteq c.libs \cup {lib'}
                                                          /\ c.libs = {} => d.libs = {},
           shelf'.load = shelf.load + 1, shelf'.sum = shelf.sum + 1, shelf'.search = shelf.search,
           SameSelection(shelf, shelf'), shelf'.auth = shelf.auth,
           ~shelf'.late => by.filter = shelf.filter /\ by.sort = shelf.sort,
           \A c \in requests : c.kind \in {"search", "status"} =>
              \A m \in c.libs : \A k \in Listed(m) : Fine(shelf, lib, edits, k) => Fine(shelf', lib', edits', k)
    PROVE  LET new == LoadBooksCalls(cs, lib', shelf', by)
           IN  /\ \A d \in new : IsCall(d) /\ CallOK(shelf', lib', edits', upload', d)
               /\ OneCount(cs) => OneCount(new)
               /\ \E c \in new : c.kind \in CountKinds /\ Current(shelf', c)
<1> DEFINE K == LoadCalls \cup MoreCalls
           q == [filter |-> by.filter, sort |-> by.sort, word |-> NoWord, cursor |-> 0]
           page == NewRequest(lib', "page", shelf', q, {})
           sum == NewRequest(lib', "pageSummary", shelf', q, {})
           new == LoadBooksCalls(cs, lib', shelf', by)
<1>00. IsShelf(shelf) /\ \A c \in requests : IsCall(c) /\ CallOK(shelf, lib, edits, upload, c)
  BY DEF ShelfInv, TypeInv
<1>0. /\ shelf.load \in Nat /\ shelf.search \in Nat /\ shelf.sum \in Nat /\ shelf'.auth \in BOOLEAN
      /\ \A d \in cs : IsCall(d)
  BY <1>00 DEF IsShelf
<1>1. new = AbortCalls(cs, K) \cup {page, sum}
  BY DEF LoadBooksCalls
<1>2. /\ IsCall(page) /\ page.kind = "page" /\ page.load = shelf'.load /\ page.search = shelf'.search /\ page.sum = shelf'.sum
      /\ ~page.aborted /\ page.query = q /\ (shelf'.auth => page.libs = {lib'}) /\ (~shelf'.auth => page.libs = {})
  <2> DEFINE kind == "page"
             none == {}
  <2>1. kind \in Kinds
    BY DEF Kinds, LoadCalls
  <2> HIDE DEF kind, none, q
  <2> DEFINE c == NewRequest(lib', kind, shelf', q, none)
  <2>2. /\ IsCall(c) /\ c.kind = kind /\ c.load = shelf'.load /\ c.search = shelf'.search /\ c.sum = shelf'.sum
        /\ ~c.aborted /\ c.query = q /\ (shelf'.auth => c.libs = {lib'}) /\ (~shelf'.auth => c.libs = {})
    BY <2>1, NewRequestFields
  <2> HIDE DEF c
  <2>3. page = c
    BY DEF kind, none, c, page
  <2> QED  BY <2>2, <2>3 DEF kind
<1>3. /\ IsCall(sum) /\ sum.kind = "pageSummary" /\ sum.load = shelf'.load /\ sum.search = shelf'.search /\ sum.sum = shelf'.sum
      /\ ~sum.aborted /\ (shelf'.auth => sum.libs = {lib'}) /\ (~shelf'.auth => sum.libs = {})
  <2> DEFINE kind == "pageSummary"
             none == {}
  <2>1. kind \in Kinds
    BY DEF Kinds, LoadCalls
  <2> HIDE DEF kind, none, q
  <2> DEFINE c == NewRequest(lib', kind, shelf', q, none)
  <2>2. /\ IsCall(c) /\ c.kind = kind /\ c.load = shelf'.load /\ c.search = shelf'.search /\ c.sum = shelf'.sum
        /\ ~c.aborted /\ c.query = q /\ (shelf'.auth => c.libs = {lib'}) /\ (~shelf'.auth => c.libs = {})
    BY <2>1, NewRequestFields
  <2> HIDE DEF c
  <2>3. sum = c
    BY DEF kind, none, c, sum
  <2> QED  BY <2>2, <2>3 DEF kind
<1>4. q.word = NoWord /\ (shelf'.late \/ (q.filter = shelf'.filter /\ q.sort = shelf'.sort))
  BY DEF SameSelection
<1> HIDE DEF q, page, sum, new, K
<1>5. CallOK(shelf', lib', edits', upload', page)
  <2>1. Behind(shelf', page) /\ Asked(shelf', page)
    BY <1>0, <1>2, <1>4 DEF Behind, Asked
  <2>2. Overtaken(shelf', page)
    BY <1>2 DEF Overtaken
  <2>3. BringsFine(shelf', lib', edits', page)
    BY <1>2, ListedFine DEF BringsFine
  <2>4. BringsCounts(shelf', lib', edits', upload', page)
    BY <1>2 DEF BringsCounts, CountKinds
  <2> QED  BY <2>1, <2>2, <2>3, <2>4 DEF CallOK
<1>6. CallOK(shelf', lib', edits', upload', sum)
  <2>1. Behind(shelf', sum) /\ Asked(shelf', sum)
    BY <1>0, <1>3 DEF Behind, Asked
  <2>2. Overtaken(shelf', sum)
    BY <1>3 DEF Overtaken
  <2>3. BringsFine(shelf', lib', edits', sum)
    BY <1>3 DEF BringsFine, Usable
  <2>4. BringsCounts(shelf', lib', edits', upload', sum)
    BY <1>3 DEF BringsCounts
  <2> QED  BY <2>1, <2>2, <2>3, <2>4 DEF CallOK
<1>7. ASSUME NEW d \in AbortCalls(cs, K)
      PROVE  /\ IsCall(d) /\ CallOK(shelf', lib', edits', upload', d)
             /\ d.kind \in CountKinds => d \in cs /\ d.sum # shelf'.sum
  <2>1. /\ IsCall(d)
        /\ \/ d \in cs /\ d.kind \notin K
           \/ /\ d.kind \in K /\ d.kind \in {"page", "more"} /\ d.aborted
              /\ \E x \in cs : Alike(x, d) /\ d.libs = x.libs
    BY <1>0, AbortMembers
  <2>2. PICK x \in cs : /\ Alike(x, d) /\ d.libs = x.libs
                        /\ (d = x /\ d.kind \notin K) \/ (d.kind \in {"page", "more"} /\ d.aborted)
    BY <2>1 DEF Alike
  <2>3. PICK c \in requests : /\ Alike(c, x) /\ x.aborted = c.aborted
                            /\ x.libs \subseteq c.libs \cup {lib'} /\ (c.libs = {} => x.libs = {})
    BY <1>00
  <2>4. /\ Alike(c, d) /\ d.libs \subseteq c.libs \cup {lib'} /\ (c.libs = {} => d.libs = {})
        /\ IsCall(c) /\ CallOK(shelf, lib, edits, upload, c)
    BY <2>2, <2>3, <1>00 DEF Alike
  <2>5. Behind(shelf, c)
    BY <2>4 DEF CallOK
  <2>6. (c.aborted => d.aborted) /\ (d.aborted => d.kind \in {"page", "more"})
    BY <2>2, <2>3, <2>5 DEF Behind, Alike
  <2>7. d.sum # shelf'.sum /\ shelf'.load # shelf.load /\ Onward(shelf, shelf')
    BY <1>0, <2>4, <2>5 DEF Behind, Alike, Onward, IsCall
  <2>8. Usable(shelf', d) => c.kind \in {"search", "status"}
    BY <1>0, <2>4, <2>5 DEF Usable, Behind, Alike, IsCall
  <2>9. Usable(shelf', d) => \A m \in c.libs : \A k \in Listed(m) : Fine(shelf, lib, edits, k) => Fine(shelf', lib', edits', k)
    BY <2>8
  <2>10. CallOK(shelf', lib', edits', upload', d)
    BY <1>00, <2>1, <2>4, <2>6, <2>7, <2>9, CallKept
  <2> QED  BY <2>1, <2>2, <2>7, <2>10 DEF CountKinds
<1>8. \A d \in new : IsCall(d) /\ CallOK(shelf', lib', edits', upload', d)
  BY <1>1, <1>2, <1>3, <1>5, <1>6, <1>7
<1>9. OneCount(cs) => OneCount(new)
  BY <1>1, <1>2, <1>3, <1>7 DEF OneCount, CountKinds
<1>10. sum \in new /\ sum.kind \in CountKinds /\ Current(shelf', sum)
  BY <1>1, <1>3 DEF CountKinds, Current, LoadCalls, MoreCalls, SearchCalls
<1> QED  BY <1>8, <1>9, <1>10 DEF new

(* A request that is kept is like itself. *)
LEMMA AlikeSelf == ASSUME NEW c PROVE Alike(c, c)
BY DEF Alike

(* The closure of the present render has the present selection. *)
LEMMA SelectionIs ==
    Selection.filter = shelf.filter /\ Selection.sort = shelf.sort
BY DEF Selection

(* The timer of the effect and the retry button. *)
LEMMA ReloadStep ==
    ASSUME ShelfInv, LoadTimerFires \/ RetryPressed
    PROVE  ShelfInv'
<1> DEFINE t == shelf'
           by == Selection
<1>0. /\ IsShelf(shelf) /\ lib \in Libraries /\ \A c \in requests : IsCall(c)
      /\ \A c \in requests : CallOK(shelf, lib, edits, upload, c)
      /\ shelf.load \in Nat /\ shelf.search \in Nat /\ shelf.sum \in Nat
  BY DEF ShelfInv, TypeInv, IsShelf
<1>1. /\ requests' = LoadBooksCalls(requests, lib, shelf', by)
      /\ lib' = lib /\ edits' = edits /\ upload' = upload /\ given' = given
      /\ shelf' = LoadBooksTo(shelf, by) \/ shelf' = [LoadBooksTo(shelf, by) EXCEPT !.loadTimer = FALSE]
  BY DEF LoadTimerFires, RetryPressed
<1> DEFINE s == LoadBooksTo(shelf, by)
<1>2. /\ IsShelf(s) /\ s.auth = shelf.auth /\ SameSelection(shelf, s)
      /\ s.load = shelf.load + 1 /\ s.sum = shelf.sum + 1 /\ s.search = shelf.search
      /\ s.list.books = shelf.list.books /\ s.found = shelf.found
      /\ s.summary = shelf.summary /\ s.progress = {} /\ s.searching = shelf.searching
      /\ s.loading
      /\ s.touched = shelf.touched /\ s.missed = shelf.missed
  BY <1>0, LoadBooksFields
<1> HIDE DEF s
<1>3. /\ IsShelf(t) /\ t.auth = shelf.auth /\ SameSelection(shelf, t)
      /\ t.load = shelf.load + 1 /\ t.sum = shelf.sum + 1 /\ t.search = shelf.search
      /\ t.list.books = shelf.list.books /\ t.found = shelf.found
      /\ t.summary = shelf.summary /\ t.progress = {} /\ t.searching = shelf.searching
      /\ t.loading
      /\ t.touched = shelf.touched /\ t.missed = shelf.missed
  <2>1. CASE shelf' = s
    BY <2>1, <1>2
  <2>2. CASE shelf' = [s EXCEPT !.loadTimer = FALSE]
    <3> DEFINE e == [s EXCEPT !.loadTimer = FALSE]
    <3>1. /\ IsShelf(e) /\ e.auth = s.auth /\ SameSelection(s, e)
          /\ e.load = s.load /\ e.sum = s.sum /\ e.search = s.search
          /\ e.list = s.list /\ e.found = s.found
          /\ e.summary = s.summary /\ e.progress = s.progress /\ e.searching = s.searching
          /\ e.loading = s.loading /\ e.touched = s.touched /\ e.missed = s.missed
      BY <1>2 DEF IsShelf, SameSelection
    <3> HIDE DEF e
    <3>2. shelf' = e
      BY <2>2 DEF e
    <3> QED  BY <3>1, <3>2, <1>2, Zenon DEF SameSelection
  <2> QED  BY <2>1, <2>2, <1>1 DEF s
<1>4. \A k : Fine(shelf, lib, edits, k) => Fine(t, lib, edits, k)
  BY <1>3 DEF Fine
<1>5. /\ \A d \in requests' : IsCall(d) /\ CallOK(shelf', lib', edits', upload', d)
      /\ OneCount(requests')
      /\ \E c \in requests' : c.kind \in CountKinds /\ Current(shelf', c)
  <2>1. \A d \in requests : IsCall(d) /\ \E c \in requests : /\ Alike(c, d) /\ d.aborted = c.aborted
                                             /\ d.libs \subseteq c.libs \cup {lib'} /\ (c.libs = {} => d.libs = {})
    BY <1>0, AlikeSelf
  <2>2. by.filter = shelf.filter /\ by.sort = shelf.sort
    BY SelectionIs
  <2>3. \A c \in requests : c.kind \in {"search", "status"} =>
           \A m \in c.libs : \A k \in Listed(m) : Fine(shelf, lib, edits, k) => Fine(shelf', lib', edits', k)
    BY <1>1, <1>4
  <2>4. lib' \in Libraries
    BY <1>0, <1>1
  <2>5. OneCount(requests) /\ requests' = LoadBooksCalls(requests, lib', shelf', by)
    BY <1>1 DEF ShelfInv
  <2> HIDE DEF by
  <2> QED  BY <1>3, <2>1, <2>2, <2>3, <2>4, <2>5, ReloadCalls
<1>7. TypeInv'
  BY <1>1, <1>3, <1>5 DEF TypeInv, ShelfInv
<1>8. BooksFine(shelf', lib', edits') /\ CountsFine(shelf', lib', edits', upload', requests')
  BY <1>1, <1>3, <1>4, <1>5 DEF BooksFine, CountsFine, ShelfInv
<1>9. Matches(shelf') /\ Emptied(shelf')
  BY <1>3 DEF Matches, Emptied, ShelfInv, SameSelection
<1> QED  BY <1>1, <1>5, <1>7, <1>8, <1>9 DEF ShelfInv
-----------------------------------------------------------------------------
(* Steps that send something and leave what is shown alone. *)
Still(sh, t) ==
    /\ t.auth = sh.auth /\ t.load = sh.load /\ t.search = sh.search /\ t.sum = sh.sum
    /\ SameSelection(sh, t) /\ SameHistory(sh, t)
    /\ t.list = sh.list /\ t.found = sh.found /\ t.summary = sh.summary /\ t.progress = sh.progress
    /\ t.loading = sh.loading /\ t.searching = sh.searching /\ t.loadTimer = sh.loadTimer

(* A step that only adds requests or edits not yet served, and shows nothing new. *)
LEMMA QuietStep ==
    ASSUME ShelfInv, IsShelf(shelf'), Still(shelf, shelf'), lib' = lib, given' = given,
           edits \subseteq edits', \A e \in edits' : e \in edits \/ (IsEdit(e) /\ ~e.served), OneDialog(edits'),
           IsUpload(upload'), IdsNew(lib, upload', given),
           upload.ok > 0 /\ upload.reload = 0 => upload'.ok > 0 /\ upload'.reload = 0,
           requests \subseteq requests',
           \A d \in requests' : \/ d \in requests
                                \/ /\ IsCall(d) /\ CallOK(shelf', lib', edits', upload', d)
                                   /\ d.kind \notin CountKinds
    PROVE  ShelfInv'
<1>0. /\ IsShelf(shelf) /\ lib \in Libraries /\ \A c \in requests : IsCall(c)
      /\ \A c \in requests : CallOK(shelf, lib, edits, upload, c)
      /\ shelf.load \in Nat /\ shelf.search \in Nat /\ shelf.sum \in Nat
  BY DEF ShelfInv, TypeInv, IsShelf
<1>1. \A k : Fine(shelf, lib, edits, k) => Fine(shelf', lib', edits', k)
  BY DEF Fine, Still, SameHistory
<1>2. Recount(shelf, edits, upload) => Recount(shelf', edits', upload')
  BY DEF Recount, Still
<1>3. ASSUME NEW c \in requests PROVE CallOK(shelf', lib', edits', upload', c)
  <2>1. Alike(c, c) /\ (c.aborted => c.kind \in {"page", "more"})
    BY <1>0 DEF CallOK, Behind, Alike
  <2>2. Onward(shelf, shelf')
    BY <1>0 DEF Still, Onward
  <2>3. /\ shelf'.late = shelf.late /\ shelf'.filter = shelf.filter /\ shelf'.sort = shelf.sort
        /\ shelf'.loadTimer = shelf.loadTimer /\ SameSelection(shelf, shelf') /\ shelf'.auth = shelf.auth
        /\ shelf'.missed = shelf.missed
    BY DEF Still, SameHistory, SameSelection
  <2> QED  BY <1>0, <1>1, <1>2, <2>1, <2>2, <2>3, CallKept
<1>4. TypeInv'
  BY DEF TypeInv, ShelfInv
<1>5. (\A c \in requests' : CallOK(shelf', lib', edits', upload', c)) /\ OneCount(requests')
  BY <1>3 DEF ShelfInv, OneCount
<1>6. BooksFine(shelf', lib', edits')
  BY <1>1 DEF BooksFine, ShelfInv, Still
<1>7. CountsFine(shelf', lib', edits', upload', requests')
  <2>1. \A c \in requests : c.kind \in CountKinds /\ Current(shelf, c) => Current(shelf', c)
    BY DEF Current, Still, CountKinds, LoadCalls, MoreCalls, SearchCalls
  <2> QED  BY <1>2, <2>1 DEF CountsFine, ShelfInv, Still, SameHistory
<1>8. Matches(shelf') /\ Emptied(shelf')
  BY DEF Matches, Emptied, ShelfInv, Still, SameSelection, SameHistory
<1>9. \A e \in edits' : EditOK(lib', given', e)
  BY DEF EditOK, ShelfInv
<1> QED  BY <1>4, <1>5, <1>6, <1>7, <1>8, <1>9 DEF ShelfInv

(* A new request that is not about the counts. *)
LEMMA AskedCall ==
    ASSUME NEW t, IsShelf(t), NEW l \in Libraries, NEW es, NEW u, NEW c, IsCall(c), ~c.aborted,
           c.load <= t.load, c.search <= t.search, c.sum <= t.sum,
           c.kind \in {"search", "more", "status"}, c.libs \subseteq {l}, t.auth \/ c.libs = {},
           c.kind = "search" => c.query.filter = t.filter /\ c.query.sort = t.sort /\ c.query.word = t.word
    PROVE  CallOK(t, l, es, u, c) /\ c.kind \notin CountKinds
<1>1. Behind(t, c) /\ Asked(t, c)
  BY DEF Behind, Asked
<1>2. Overtaken(t, c)
  BY DEF Overtaken
<1>3. BringsFine(t, l, es, c)
  BY ListedFine DEF BringsFine
<1>4. BringsCounts(t, l, es, u, c) /\ c.kind \notin CountKinds
  BY DEF BringsCounts, CountKinds
<1> QED  BY <1>1, <1>2, <1>3, <1>4 DEF CallOK

(* A shelf that stays the same is quiet. *)
LEMMA QuietSelf == Still(shelf, shelf)
BY DEF Still, SameSelection, SameHistory

(* The search asks for the selection and the word of now. *)
LEMMA SearchTimerStep ==
    ASSUME ShelfInv, SearchTimerFires
    PROVE  ShelfInv'
<1>0. /\ IsShelf(shelf) /\ lib \in Libraries /\ IsUpload(upload) /\ IdsNew(lib, upload, given) /\ OneDialog(edits)
  BY DEF ShelfInv, TypeInv
<1> DEFINE t == [shelf EXCEPT !.searchTimer = FALSE]
           q == Ask(shelf.word, 0)
           kind == "search"
           none == {}
           c == NewRequest(lib, kind, shelf, q, none)
<1>1. /\ shelf' = t /\ requests' = requests \cup {c}
      /\ lib' = lib /\ edits' = edits /\ upload' = upload /\ given' = given
  BY DEF SearchTimerFires
<1>2. IsShelf(t) /\ Still(shelf, t)
  BY <1>0 DEF IsShelf, Still, SameSelection, SameHistory
<1>3. /\ q.filter = shelf.filter /\ q.sort = shelf.sort /\ q.word = shelf.word
      /\ kind \in Kinds /\ kind = "search"
  BY DEF Ask, Kinds, SearchCalls
<1> HIDE DEF t, q, kind, none
<1>4. /\ IsCall(c) /\ c.kind = kind /\ c.load = shelf.load /\ c.search = shelf.search /\ c.sum = shelf.sum
      /\ ~c.aborted /\ c.query = q /\ c.libs \subseteq {lib} /\ (shelf.auth \/ c.libs = {})
  BY <1>0, <1>3, NewRequestFields
<1> HIDE DEF c
<1>5. CallOK(t, lib, edits, upload, c) /\ c.kind \notin CountKinds
  <2>1. t.auth = shelf.auth /\ t.filter = shelf.filter /\ t.sort = shelf.sort /\ t.word = shelf.word
        /\ c.load <= t.load /\ c.search <= t.search /\ c.sum <= t.sum
    BY <1>0, <1>2, <1>4 DEF Still, SameSelection, IsShelf
  <2> QED  BY <1>0, <1>2, <1>3, <1>4, <2>1, AskedCall
<1> QED  BY <1>0, <1>1, <1>2, <1>4, <1>5, QuietStep

(* The next page is asked for under the present generations. *)
LEMMA LoadMoreStep ==
    ASSUME ShelfInv, LoadMoreBooks
    PROVE  ShelfInv'
<1>0. /\ IsShelf(shelf) /\ lib \in Libraries /\ IsUpload(upload) /\ IdsNew(lib, upload, given) /\ OneDialog(edits)
  BY DEF ShelfInv, TypeInv
<1> DEFINE t == [shelf EXCEPT !.more = TRUE]
           cursor == IF shelf.word # NoWord THEN shelf.found.cursor ELSE shelf.list.cursor
           q == Ask(shelf.word, cursor)
           kind == "more"
           none == {}
           c == NewRequest(lib, kind, shelf, q, none)
<1>1. /\ shelf' = t /\ requests' = requests \cup {c} /\ shelf.auth
      /\ lib' = lib /\ edits' = edits /\ upload' = upload /\ given' = given
  BY DEF LoadMoreBooks
<1>2. IsShelf(t) /\ Still(shelf, t)
  BY <1>0 DEF IsShelf, Still, SameSelection, SameHistory
<1>3. kind \in Kinds /\ kind = "more"
  BY DEF Kinds, MoreCalls
<1> HIDE DEF t, q, kind, none, cursor
<1>4. /\ IsCall(c) /\ c.kind = kind /\ c.load = shelf.load /\ c.search = shelf.search /\ c.sum = shelf.sum
      /\ ~c.aborted /\ c.libs = {lib}
  BY <1>0, <1>1, <1>3, NewRequestFields
<1> HIDE DEF c
<1>5. CallOK(t, lib, edits, upload, c) /\ c.kind \notin CountKinds
  <2>1. t.auth /\ c.load <= t.load /\ c.search <= t.search /\ c.sum <= t.sum
    BY <1>0, <1>1, <1>2, <1>4 DEF Still, IsShelf
  <2> QED  BY <1>0, <1>2, <1>3, <1>4, <2>1, AskedCall
<1> QED  BY <1>0, <1>1, <1>2, <1>4, <1>5, QuietStep

(* The poll has no generations and may be answered at any time. *)
LEMMA RefreshStep ==
    ASSUME ShelfInv, RefreshProcessedBooks
    PROVE  ShelfInv'
<1>0. /\ IsShelf(shelf) /\ lib \in Libraries /\ IsUpload(upload) /\ IdsNew(lib, upload, given) /\ OneDialog(edits)
  BY DEF ShelfInv, TypeInv
<1> DEFINE sh == [shelf EXCEPT !.load = 0, !.search = 0, !.sum = 0]
           q == Ask(NoWord, 0)
           kind == "status"
           ids == PendingShown(shelf)
           c == NewRequest(lib, kind, sh, q, ids)
<1>1. /\ shelf' = shelf /\ requests' = requests \cup {c} /\ shelf.auth
      /\ lib' = lib /\ edits' = edits /\ upload' = upload /\ given' = given
  BY DEF RefreshProcessedBooks
<1>2. IsShelf(sh) /\ sh.load = 0 /\ sh.search = 0 /\ sh.sum = 0 /\ sh.auth
  BY <1>0, <1>1 DEF IsShelf
<1>3. kind \in Kinds /\ kind = "status"
  BY DEF Kinds
<1> HIDE DEF sh, q, kind, ids
<1>4. /\ IsCall(c) /\ c.kind = kind /\ c.load = sh.load /\ c.search = sh.search /\ c.sum = sh.sum
      /\ ~c.aborted /\ c.libs = {lib}
  BY <1>0, <1>2, <1>3, NewRequestFields
<1> HIDE DEF c
<1>5. CallOK(shelf, lib, edits, upload, c) /\ c.kind \notin CountKinds
  <2>1. c.load <= shelf.load /\ c.search <= shelf.search /\ c.sum <= shelf.sum
    BY <1>0, <1>2, <1>4 DEF IsShelf
  <2> QED  BY <1>0, <1>1, <1>3, <1>4, <2>1, AskedCall
<1> QED  BY <1>0, <1>1, <1>4, <1>5, QuietStep, QuietSelf

(* An edit is sent: what is shown does not change before its answer. *)
LEMMA SendEditStep ==
    ASSUME ShelfInv, NEW e, SendEdit(e), IsEdit(e), ~e.served
    PROVE  ShelfInv'
<1>0. /\ IsShelf(shelf) /\ IsUpload(upload) /\ IdsNew(lib, upload, given) /\ OneDialog(edits)
  BY DEF ShelfInv, TypeInv
<1>1. /\ edits' = edits \cup {e} /\ (e.kind # "delete" => NoDialogBusy)
      /\ lib' = lib /\ shelf' = shelf /\ requests' = requests /\ upload' = upload /\ given' = given
  BY DEF SendEdit
<1>2. OneDialog(edits')
  BY <1>0, <1>1 DEF OneDialog, NoDialogBusy
<1> QED  BY <1>0, <1>1, <1>2, QuietStep, QuietSelf

(* An edit starts unserved. *)
LEMMA NewEditFields ==
    ASSUME NEW kind \in EditKinds, NEW ids \in SUBSET BookIds, NEW from \in Labels, NEW to \in Labels,
           NEW e, e = NewEdit(kind, ids, from, to)
    PROVE  IsEdit(e) /\ ~e.served
BY DEF NewEdit, IsEdit

(* What is shown has ids of books. *)
LEMMA ShownIds ==
    ASSUME ShelfInv
    PROVE  Ids(Shown) \subseteq BookIds /\ Ids(shelf.list.books) \subseteq BookIds
<1>1. shelf.list.books \subseteq Cards /\ shelf.found.books \subseteq Cards
  BY DEF ShelfInv, TypeInv, IsShelf, IsPage
<1>2. Shown \subseteq Cards
  BY <1>1 DEF Shown
<1> QED  BY <1>1, <1>2 DEF Ids, Cards

(* Sending an edit changes nothing that is shown. *)
LEMMA EditSteps ==
    ASSUME ShelfInv,
           \/ \E b \in BookIds : DeleteBook(b)
           \/ \E b \in BookIds, c \in Labels : SaveCategory(b, c)
           \/ DeleteMany
           \/ \E c \in Labels : UpdateCategoryMany(c)
           \/ \E c \in Categories, d \in Labels : RenameCategory(c, d)
    PROVE  ShelfInv'
<1> DEFINE many == Ids(Shown) \cap Ids(shelf.list.books)
           nocat == NoCategory
           none == {}
<1>0. many \in SUBSET BookIds /\ nocat \in Labels /\ none \in SUBSET BookIds
  BY ShownIds DEF Labels
<1>1. /\ "delete" \in EditKinds /\ "deleteMany" \in EditKinds /\ "category" \in EditKinds
      /\ "single" \in EditKinds /\ "rename" \in EditKinds
  BY DEF EditKinds
<1>2. \E kind \in EditKinds, ids \in SUBSET BookIds, from, to \in Labels : SendEdit(NewEdit(kind, ids, from, to))
  <2>1. ASSUME NEW b \in BookIds, DeleteBook(b)
        PROVE  SendEdit(NewEdit("delete", {b}, nocat, nocat)) /\ {b} \in SUBSET BookIds
    BY <2>1 DEF DeleteBook
  <2>2. ASSUME NEW b \in BookIds, NEW c \in Labels, SaveCategory(b, c)
        PROVE  SendEdit(NewEdit("single", {b}, nocat, c)) /\ {b} \in SUBSET BookIds
    BY <2>2 DEF SaveCategory
  <2>3. ASSUME DeleteMany PROVE SendEdit(NewEdit("deleteMany", many, nocat, nocat))
    BY <2>3 DEF DeleteMany
  <2>4. ASSUME NEW c \in Labels, UpdateCategoryMany(c) PROVE SendEdit(NewEdit("category", many, nocat, c))
    BY <2>4 DEF UpdateCategoryMany
  <2>5. ASSUME NEW c \in Categories, NEW d \in Labels, RenameCategory(c, d)
        PROVE  SendEdit(NewEdit("rename", none, c, d)) /\ c \in Labels
    BY <2>5 DEF RenameCategory, Labels
  <2> HIDE DEF many, nocat, none
  <2> QED  BY <1>0, <1>1, <2>1, <2>2, <2>3, <2>4, <2>5, Zenon
<1>3. PICK kind \in EditKinds, ids \in SUBSET BookIds, from \in Labels, to \in Labels :
         SendEdit(NewEdit(kind, ids, from, to))
  BY <1>2
<1> DEFINE e == NewEdit(kind, ids, from, to)
<1>4. IsEdit(e) /\ ~e.served
  BY NewEditFields
<1> QED  BY <1>3, <1>4, SendEditStep

(* Files are chosen: nothing was added yet. *)
LEMMA UploadFilesStep ==
    ASSUME ShelfInv, NEW files \in SUBSET NewBooks, UploadFiles(files)
    PROVE  ShelfInv'
<1>0. /\ IsShelf(shelf) /\ IsUpload(upload) /\ IdsNew(lib, upload, given) /\ OneDialog(edits)
  BY DEF ShelfInv, TypeInv
<1>1. PICK first \in SUBSET files :
         upload' = [NoUpload EXCEPT !.active = TRUE, !.todo = files \ first, !.running = first, !.by = Selection]
  BY Zenon DEF UploadFiles
<1>2. /\ ~upload.active /\ files \cap given = {}
      /\ lib' = lib /\ shelf' = shelf /\ requests' = requests /\ edits' = edits /\ given' = given
  BY DEF UploadFiles
<1>3. /\ upload'.active /\ upload'.todo = files \ first /\ upload'.running = first
      /\ IsUpload(upload')
  BY <1>1 DEF NoUpload, IsUpload, BookIds
<1>4. IdsNew(lib, upload', given)
  BY <1>0, <1>2, <1>3 DEF IdsNew
<1>5. ~(upload.ok > 0)
  BY <1>0, <1>2 DEF IsUpload
<1> QED  BY <1>0, <1>2, <1>3, <1>4, <1>5, QuietStep, QuietSelf
-----------------------------------------------------------------------------
(* A change of the library leaves the requests for counts apart. *)
LEMMA SeenOneCount ==
    ASSUME NEW cs, NEW l \in Libraries, \A c \in cs : IsCall(c), OneCount(cs)
    PROVE  OneCount(Seen(cs, l))
<1> SUFFICES ASSUME NEW c \in Seen(cs, l), NEW d \in Seen(cs, l),
                    c.kind \in CountKinds, d.kind \in CountKinds, c.sum = d.sum
             PROVE  c = d
  BY DEF OneCount
<1>1. PICK x \in cs : /\ c = IF x.libs = {} THEN x ELSE [x EXCEPT !.libs = @ \cup {l}]
                      /\ Alike(x, c)
  BY SeenMembers
<1>2. PICK y \in cs : /\ d = IF y.libs = {} THEN y ELSE [y EXCEPT !.libs = @ \cup {l}]
                      /\ Alike(y, d)
  BY SeenMembers
<1>3. x = y
  BY <1>1, <1>2 DEF Alike, OneCount
<1> QED  BY <1>1, <1>2, <1>3

(* Steps of the server: requests in flight may be answered from either library. *)
LEMMA LibraryStep ==
    ASSUME ShelfInv, shelf' = shelf, lib' \in Libraries, requests' = Seen(requests, lib'),
           \A k : Fine(shelf, lib, edits, k) => Fine(shelf, lib', edits', k),
           \/ Recount(shelf, edits', upload')
           \/ /\ Counts(lib) = Counts(lib')
              /\ Recount(shelf, edits, upload) => Recount(shelf, edits', upload'),
           \A e \in edits' : IsEdit(e) /\ EditOK(lib', given', e), OneDialog(edits'),
           IsUpload(upload'), given' \subseteq BookIds, IdsNew(lib', upload', given')
    PROVE  ShelfInv'
<1>0. /\ IsShelf(shelf) /\ \A c \in requests : IsCall(c) /\ CallOK(shelf, lib, edits, upload, c)
      /\ shelf.load \in Nat /\ shelf.search \in Nat /\ shelf.sum \in Nat
  BY DEF ShelfInv, TypeInv, IsShelf
<1>1. ASSUME NEW d \in requests'
      PROVE  IsCall(d) /\ CallOK(shelf', lib', edits', upload', d)
  <2>1. /\ IsCall(d)
        /\ \E c \in requests : /\ Alike(c, d) /\ d.aborted = c.aborted
                               /\ d.libs \subseteq c.libs \cup {lib'} /\ (c.libs = {} => d.libs = {})
    BY <1>0, SeenMembers
  <2>2. PICK c \in requests : /\ Alike(c, d) /\ d.aborted = c.aborted
                              /\ d.libs \subseteq c.libs \cup {lib'} /\ (c.libs = {} => d.libs = {})
    BY <2>1
  <2>3. d.aborted => d.kind \in {"page", "more"}
    BY <1>0, <2>2 DEF CallOK, Behind, Alike
  <2>4. Onward(shelf, shelf') /\ SameSelection(shelf, shelf')
    BY <1>0 DEF Onward, SameSelection
  <2> QED  BY <1>0, <2>1, <2>2, <2>3, <2>4, CallKept
<1>2. TypeInv'
  BY <1>0, <1>1 DEF TypeInv, ShelfInv
<1>3. OneCount(requests')
  BY <1>0, SeenOneCount DEF ShelfInv
<1>4. BooksFine(shelf', lib', edits')
  BY DEF BooksFine, ShelfInv
<1>5. CountsFine(shelf', lib', edits', upload', requests')
  <2>1. ASSUME NEW c \in requests, c.kind \in CountKinds, Current(shelf, c)
        PROVE  \E d \in requests' : d.kind \in CountKinds /\ Current(shelf', d)
    <3> DEFINE d == IF c.libs = {} THEN c ELSE [c EXCEPT !.libs = @ \cup {lib'}]
    <3>1. d \in requests'
      BY DEF Seen
    <3>2. Alike(c, d) /\ d.aborted = c.aborted
      BY <1>0, SeenCall
    <3> HIDE DEF d
    <3>3. d.kind \in CountKinds /\ Current(shelf, d)
      BY <2>1, <3>2 DEF Alike, Current
    <3> QED  BY <3>1, <3>3
  <2>2. CountsFine(shelf, lib, edits, upload, requests)
    BY DEF ShelfInv
  <2> QED  BY <2>1, <2>2 DEF CountsFine
<1>6. Matches(shelf') /\ Emptied(shelf')
  BY DEF ShelfInv
<1> QED  BY <1>1, <1>2, <1>3, <1>4, <1>5, <1>6 DEF ShelfInv

(* Processing changes neither categories nor counts. *)
LEMMA ProcessedStep ==
    ASSUME ShelfInv, NEW b \in BookIds, BookProcessed(b)
    PROVE  ShelfInv'
<1>0. /\ lib \in Libraries /\ given \subseteq BookIds /\ IsUpload(upload) /\ IdsNew(lib, upload, given)
      /\ OneDialog(edits) /\ \A e \in edits : IsEdit(e) /\ EditOK(lib, given, e)
  BY DEF ShelfInv, TypeInv
<1>1. /\ b \in DOMAIN lib /\ lib' = [lib EXCEPT ![b].pending = FALSE] /\ requests' = Seen(requests, lib')
      /\ shelf' = shelf /\ edits' = edits /\ upload' = upload /\ given' = given
  BY DEF BookProcessed
<1>2. PICK D \in SUBSET BookIds : lib \in [D -> [cat : Labels, pending : BOOLEAN]]
  BY <1>0 DEF Libraries
<1>3. /\ lib' \in [D -> [cat : Labels, pending : BOOLEAN]] /\ DOMAIN lib' = DOMAIN lib
      /\ \A x \in DOMAIN lib : lib'[x].cat = lib[x].cat
  BY <1>1, <1>2
<1>4. lib' \in Libraries
  BY <1>3 DEF Libraries
<1>5. Counts(lib) = Counts(lib')
  <2>1. \A c \in Labels : {x \in DOMAIN lib : lib[x].cat = c} = {x \in DOMAIN lib' : lib'[x].cat = c}
    BY <1>3
  <2> QED  BY <2>1 DEF Counts
<1>6. \A k : Fine(shelf, lib, edits, k) => Fine(shelf, lib', edits', k)
  BY <1>1, <1>3 DEF Fine
<1>7. \A e \in edits' : IsEdit(e) /\ EditOK(lib', given', e)
  BY <1>0, <1>1, <1>3 DEF EditOK
<1>8. IdsNew(lib', upload', given')
  BY <1>0, <1>1, <1>3 DEF IdsNew
<1> QED  BY <1>0, <1>1, <1>4, <1>5, <1>6, <1>7, <1>8, LibraryStep

(* A served edit excuses its books and the counts until it is answered. *)
LEMMA ServeStep ==
    ASSUME ShelfInv, NEW e \in edits, ServeEdit(e)
    PROVE  ShelfInv'
<1>0. /\ lib \in Libraries /\ given \subseteq BookIds /\ IsUpload(upload) /\ IdsNew(lib, upload, given)
      /\ OneDialog(edits) /\ \A d \in edits : IsEdit(d) /\ EditOK(lib, given, d)
  BY DEF ShelfInv, TypeInv
<1> DEFINE ids == IF e.kind = "rename" THEN {b \in DOMAIN lib : lib[b].cat = e.from} ELSE e.ids \cap DOMAIN lib
           after == {k \in Listed(lib') : k.id \in ids}
           s == [e EXCEPT !.served = TRUE, !.ids = ids, !.after = after]
<1>1. /\ ~e.served /\ edits' = (edits \ {e}) \cup {s} /\ requests' = Seen(requests, lib')
      /\ lib' = IF e.kind \in {"delete", "deleteMany"} THEN [b \in DOMAIN lib \ ids |-> lib[b]]
                ELSE [b \in DOMAIN lib |-> IF b \in ids THEN [lib[b] EXCEPT !.cat = e.to] ELSE lib[b]]
      /\ shelf' = shelf /\ upload' = upload /\ given' = given
  BY Zenon DEF ServeEdit
<1>2. PICK D \in SUBSET BookIds : lib \in [D -> [cat : Labels, pending : BOOLEAN]]
  BY <1>0 DEF Libraries
<1>3. ids \subseteq DOMAIN lib /\ ids \subseteq BookIds /\ DOMAIN lib = D
  BY <1>2
<1> HIDE DEF ids
<1>4. Removes(e) => lib' \in [D \ ids -> [cat : Labels, pending : BOOLEAN]] /\ DOMAIN lib' = DOMAIN lib \ ids
                    /\ \A b \in DOMAIN lib' : lib'[b] = lib[b]
  <2>1. Removes(e) => lib' = [b \in DOMAIN lib \ ids |-> lib[b]]
    BY <1>1, Zenon DEF Removes
  <2> QED  BY <2>1, <1>2, <1>3
<1>5. ~Removes(e) => /\ lib' \in [D -> [cat : Labels, pending : BOOLEAN]] /\ DOMAIN lib' = DOMAIN lib
                     /\ \A b \in DOMAIN lib' : b \notin ids => lib'[b] = lib[b]
                     /\ \A b \in ids : lib'[b].cat = e.to
  <2> SUFFICES ASSUME ~Removes(e)
               PROVE  /\ lib' \in [D -> [cat : Labels, pending : BOOLEAN]] /\ DOMAIN lib' = DOMAIN lib
                      /\ \A b \in DOMAIN lib' : b \notin ids => lib'[b] = lib[b]
                      /\ \A b \in ids : lib'[b].cat = e.to
    OBVIOUS
  <2>1. lib' = [b \in D |-> IF b \in ids THEN [lib[b] EXCEPT !.cat = e.to] ELSE lib[b]]
    BY <1>1, <1>3, Zenon DEF Removes
  <2>2. e.to \in Labels
    BY <1>0 DEF IsEdit
  <2>3. \A b \in D : /\ [lib[b] EXCEPT !.cat = e.to] \in [cat : Labels, pending : BOOLEAN]
                     /\ [lib[b] EXCEPT !.cat = e.to].cat = e.to
    BY <1>2, <2>2
  <2> QED  BY <1>2, <1>3, <2>1, <2>3
<1>6. lib' \in Libraries /\ DOMAIN lib' \subseteq DOMAIN lib
  BY <1>3, <1>4, <1>5 DEF Libraries
<1>7. after \subseteq Cards
  BY <1>6, ListedFine
<1>8. /\ IsEdit(s) /\ s.served /\ s.kind = e.kind /\ s.ids = ids /\ s.after = after /\ s.to = e.to
  <2> HIDE DEF after
  <2> QED  BY <1>0, <1>3, <1>7 DEF IsEdit
<1>9. Ids(after) = ids \cap DOMAIN lib' /\ \A k \in after : k.id \in ids /\ k.id \in DOMAIN lib' /\ k.cat = lib'[k.id].cat
  <2>1. \A k \in after : k.id \in ids /\ k.id \in DOMAIN lib' /\ k.cat = lib'[k.id].cat
    BY DEF Listed
  <2>2. ASSUME NEW b \in ids \cap DOMAIN lib' PROVE b \in Ids(after)
    <3> DEFINE k == [id |-> b, cat |-> lib'[b].cat, pending |-> lib'[b].pending]
    <3>1. k \in Listed(lib') /\ k.id = b
      BY DEF Listed
    <3> HIDE DEF k
    <3>2. k \in after
      BY <3>1
    <3> QED  BY <3>1, <3>2 DEF Ids
  <2> HIDE DEF after
  <2> QED  BY <2>1, <2>2 DEF Ids
<1> HIDE DEF s, after
<1>10. EditOK(lib', given', s)
  <2>1. ids \subseteq given
    BY <1>0, <1>3 DEF IdsNew
  <2>2. Removes(s) = Removes(e)
    BY <1>8 DEF Removes
  <2>3. s.kind = "category" => ~Removes(e)
    BY <1>8 DEF Removes
  <2>4. ~Removes(e) => \A b \in ids : b \in DOMAIN lib' => lib'[b].cat = s.to
    BY <1>5, <1>8
  <2>5. Removes(e) => ids \cap DOMAIN lib' = {}
    BY <1>4
  <2>6. ~Removes(e) => Ids(after) = ids /\ \A k \in after : k.cat = s.to
    BY <1>3, <1>5, <1>8, <1>9
  <2> QED  BY <1>1, <1>8, <2>1, <2>2, <2>3, <2>4, <2>5, <2>6 DEF EditOK
<1>11. ASSUME NEW d \in edits, d # e PROVE EditOK(lib', given', d)
  <2> SUFFICES ASSUME d.served PROVE EditOK(lib', given', d)
    BY DEF EditOK
  <2>1. EditOK(lib, given, d) /\ OneDialog(edits)
    BY <1>0
  <2>2. ~Removes(d) => Removes(e)
    BY <1>11, <2>1, <1>0 DEF OneDialog, Removes
  <2>3. \A b \in DOMAIN lib' : ~Removes(d) => lib'[b] = lib[b]
    BY <2>2, <1>4
  <2> QED  BY <1>1, <1>6, <2>1, <2>3 DEF EditOK
<1>12. \A x \in edits' : IsEdit(x) /\ EditOK(lib', given', x)
  BY <1>0, <1>1, <1>8, <1>10, <1>11
<1>13. OneDialog(edits')
  BY <1>0, <1>1, <1>8 DEF OneDialog
<1>14. ASSUME NEW k, Fine(shelf, lib, edits, k) PROVE Fine(shelf, lib', edits', k)
  <2>0. s \in edits' /\ s.served /\ s.ids = ids /\ Removes(s) = Removes(e)
    BY <1>1, <1>8 DEF Removes
  <2>1. CASE k.id \in ids
    BY <2>0, <2>1, <1>3, <1>5 DEF Fine
  <2>2. CASE k.id \notin ids
    <3>1. k.id \in DOMAIN lib => k.id \in DOMAIN lib' /\ lib'[k.id] = lib[k.id]
      BY <2>2, <1>4, <1>5
    <3>2. \A d \in edits : d.served => d \in edits'
      BY <1>1
    <3> QED  BY <1>14, <3>1, <3>2 DEF Fine
  <2> QED  BY <2>1, <2>2
<1>15. Recount(shelf, edits', upload')
  BY <1>1, <1>8 DEF Recount
<1>16. IdsNew(lib', upload', given')
  BY <1>0, <1>1, <1>6 DEF IdsNew
<1> QED  BY <1>0, <1>1, <1>6, <1>12, <1>13, <1>14, <1>15, <1>16, LibraryStep

(* A reload, whatever sent it: the list is shown as it is until its page comes. *)
LEMMA Reloaded ==
    ASSUME ShelfInv, NEW cs, NEW by,
           IsShelf(shelf'), lib' \in Libraries,
           \A d \in cs : IsCall(d) /\ \E c \in requests : /\ Alike(c, d) /\ d.aborted = c.aborted
                                                          /\ d.libs \subseteq c.libs \cup {lib'}
                                                          /\ c.libs = {} => d.libs = {},
           OneCount(cs), requests' = LoadBooksCalls(cs, lib', shelf', by),
           shelf'.load = shelf.load + 1, shelf'.sum = shelf.sum + 1, shelf'.search = shelf.search,
           SameSelection(shelf, shelf'), shelf'.auth = shelf.auth,
           ~shelf'.late => by.filter = shelf.filter /\ by.sort = shelf.sort,
           shelf'.list.books = shelf.list.books, shelf'.found = shelf.found, shelf'.progress = {},
           shelf'.summary = shelf.summary, shelf'.searching = shelf.searching, shelf'.loading,
           \A c \in requests : c.kind \in {"search", "status"} =>
              \A m \in c.libs : \A k \in Listed(m) : Fine(shelf, lib, edits, k) => Fine(shelf', lib', edits', k),
           \A k \in shelf.found.books : Fine(shelf, lib, edits, k) => Fine(shelf', lib', edits', k),
           \A e \in edits' : IsEdit(e) /\ EditOK(lib', given', e), OneDialog(edits'),
           IsUpload(upload'), given' \subseteq BookIds, IdsNew(lib', upload', given')
    PROVE  ShelfInv'
<1>1. /\ \A d \in requests' : IsCall(d) /\ CallOK(shelf', lib', edits', upload', d)
      /\ OneCount(requests')
      /\ \E c \in requests' : c.kind \in CountKinds /\ Current(shelf', c)
  BY ReloadCalls
<1>2. TypeInv'
  BY <1>1 DEF TypeInv
<1>3. BooksFine(shelf', lib', edits') /\ CountsFine(shelf', lib', edits', upload', requests')
  BY <1>1 DEF BooksFine, CountsFine, ShelfInv
<1>4. Matches(shelf') /\ Emptied(shelf')
  BY DEF Matches, Emptied, ShelfInv, SameSelection
<1> QED  BY <1>1, <1>2, <1>3, <1>4 DEF ShelfInv

(* One file has ended.  A book is added under an id no book had, so nothing that *)
(* is shown, in flight or being edited is about it.                              *)
LEMMA UploadSettlesStep ==
    ASSUME ShelfInv, NEW b \in NewBooks, NEW ok \in BOOLEAN, UploadSettles(b, ok)
    PROVE  ShelfInv'
<1>0. /\ lib \in Libraries /\ given \subseteq BookIds /\ IsUpload(upload) /\ IdsNew(lib, upload, given)
      /\ OneDialog(edits) /\ \A d \in edits : IsEdit(d) /\ EditOK(lib, given, d)
      /\ IsShelf(shelf) /\ \A c \in requests : IsCall(c)
      /\ OneCount(requests) /\ b \in BookIds
  BY DEF ShelfInv, TypeInv, BookIds
<1> DEFINE next == IF upload.todo = {} THEN {} ELSE {CHOOSE f \in upload.todo : TRUE}
           more == IF ok THEN 1 ELSE 0
           count == upload.ok + more
           run == (upload.running \ {b}) \cup next
           todo == upload.todo \ next
           after == [upload EXCEPT !.running = run, !.todo = todo, !.ok = count]
           done == after.running = {}
           by == upload.by
           new == IF ok THEN [k \in DOMAIN lib \cup {b} |->
                            IF k = b THEN [cat |-> NoCategory, pending |-> TRUE] ELSE lib[k]] ELSE lib
<1>1. /\ b \in upload.running /\ lib' = new /\ edits' = edits
      /\ given' = IF ok THEN given \cup {b} ELSE given
      /\ \/ /\ done /\ after.ok > 0 /\ shelf' = LoadBooksTo(shelf, by)
            /\ requests' = LoadBooksCalls(Seen(requests, lib'), lib', shelf', by)
            /\ upload' = [after EXCEPT !.reload = shelf'.load]
         \/ /\ ~(done /\ after.ok > 0) /\ shelf' = shelf /\ requests' = Seen(requests, lib')
            /\ upload' = IF done THEN NoUpload ELSE after
  BY Zenon DEF UploadSettles
<1>2. next \subseteq upload.todo /\ b \notin given /\ b \notin DOMAIN lib /\ b \notin upload.todo
  BY <1>0, <1>1 DEF IdsNew
<1>3. /\ run \subseteq BookIds /\ todo \subseteq BookIds /\ count \in Nat
      /\ run \cap given = {} /\ todo \cap given = {} /\ run \cap todo = {} /\ b \notin run /\ b \notin todo
      /\ upload.active /\ upload.reload = 0 /\ (ok => count > 0) /\ (upload.ok > 0 => count > 0)
  <2>1. upload.ok \in Nat /\ upload.running \subseteq BookIds /\ upload.todo \subseteq BookIds
    BY <1>0 DEF IsUpload
  <2>2. more \in Nat /\ (ok => more = 1)
    OBVIOUS
  <2> HIDE DEF next, more
  <2> QED  BY <1>0, <1>1, <1>2, <2>1, <2>2 DEF IdsNew, IsUpload
<1> HIDE DEF next, more, count, run, todo, new, by
<1>4. /\ after.running = run /\ after.todo = todo /\ after.ok = count /\ after.active /\ after.reload = 0
      /\ IsUpload(after)
  BY <1>0, <1>3 DEF IsUpload
<1>5. lib' \in Libraries /\ DOMAIN lib \subseteq DOMAIN lib' /\ (\A x \in DOMAIN lib : lib'[x] = lib[x])
      /\ DOMAIN lib' \subseteq DOMAIN lib \cup {b} /\ (~ok => lib' = lib)
      /\ DOMAIN lib' \subseteq given'
  <2>1. PICK D \in SUBSET BookIds : lib \in [D -> [cat : Labels, pending : BOOLEAN]]
    BY <1>0 DEF Libraries
  <2>2. CASE ok
    <3> DEFINE r == [cat |-> NoCategory, pending |-> TRUE]
    <3>1. r \in [cat : Labels, pending : BOOLEAN]
      BY DEF Labels
    <3> HIDE DEF r
    <3>2. lib' = [k \in DOMAIN lib \cup {b} |-> IF k = b THEN r ELSE lib[k]]
      BY <2>2, <1>1, Zenon DEF new, r
    <3>3. lib' \in [D \cup {b} -> [cat : Labels, pending : BOOLEAN]] /\ DOMAIN lib' = DOMAIN lib \cup {b}
          /\ (\A x \in DOMAIN lib : lib'[x] = lib[x])
      BY <2>1, <3>1, <3>2, <1>2
    <3>4. D \cup {b} \in SUBSET BookIds
      BY <1>0
    <3>5. DOMAIN lib \subseteq given /\ given' = given \cup {b}
      BY <2>2, <1>0, <1>1 DEF IdsNew
    <3> QED  BY <2>2, <3>3, <3>4, <3>5 DEF Libraries
  <2>3. CASE ~ok
    BY <2>3, <1>0, <1>1 DEF new, IdsNew
  <2> QED  BY <2>2, <2>3
<1>6. given' \subseteq BookIds /\ given \subseteq given' /\ given' \subseteq given \cup {b}
  BY <1>0, <1>1
<1>7. ASSUME NEW k, Fine(shelf, lib, edits, k) PROVE Fine(shelf, lib', edits', k)
  BY <1>7, <1>1, <1>5 DEF Fine
<1>8. \A e \in edits' : IsEdit(e) /\ EditOK(lib', given', e)
  <2> SUFFICES ASSUME NEW e \in edits, e.served PROVE EditOK(lib', given', e)
    BY <1>0, <1>1 DEF EditOK
  <2>1. EditOK(lib, given, e) /\ b \notin e.ids
    BY <1>0, <1>2 DEF EditOK
  <2> QED  BY <1>5, <1>6, <2>1 DEF EditOK
<1>9. IdsNew(lib', after, given')
  BY <1>3, <1>4, <1>5, <1>6 DEF IdsNew
<1>10. IsUpload(NoUpload) /\ IdsNew(lib', NoUpload, given')
  BY <1>5 DEF NoUpload, IsUpload, IdsNew
<1>11. OneDialog(edits')
  BY <1>0, <1>1
<1>12. CASE shelf' = shelf /\ ~(done /\ after.ok > 0) /\ requests' = Seen(requests, lib')
            /\ upload' = IF done THEN NoUpload ELSE after
  <2> HIDE DEF after
  <2>1. IsUpload(upload') /\ IdsNew(lib', upload', given')
    BY <1>12, <1>4, <1>9, <1>10
  <2>2. \/ Recount(shelf, edits', upload')
        \/ /\ Counts(lib) = Counts(lib')
           /\ Recount(shelf, edits, upload) => Recount(shelf, edits', upload')
    <3>1. CASE ~done
      <4>1. upload' = after
        BY <3>1, <1>12
      <4> QED  BY <4>1, <1>1, <1>3, <1>4, <1>5 DEF Recount
    <3>2. CASE done
      <4>1. ~ok /\ ~(upload.ok > 0)
        BY <3>2, <1>12, <1>3, <1>4
      <4> QED  BY <4>1, <1>1, <1>5 DEF Recount
    <3> QED  BY <3>1, <3>2
  <2> QED  BY <1>12, <2>1, <2>2, <1>5, <1>6, <1>7, <1>8, <1>11, LibraryStep
<1>13. CASE /\ done /\ shelf' = LoadBooksTo(shelf, by)
            /\ requests' = LoadBooksCalls(Seen(requests, lib'), lib', shelf', by)
            /\ upload' = [after EXCEPT !.reload = shelf'.load]
  <2> DEFINE cs == Seen(requests, lib')
             t == LoadBooksTo(shelf, by)
  <2>1. /\ IsShelf(t) /\ t.auth = shelf.auth /\ SameSelection(shelf, t)
        /\ t.load = shelf.load + 1 /\ t.sum = shelf.sum + 1 /\ t.search = shelf.search
        /\ t.list.books = shelf.list.books /\ t.found = shelf.found
        /\ t.summary = shelf.summary /\ t.progress = {} /\ t.searching = shelf.searching
        /\ t.loading /\ t.touched = shelf.touched
        /\ (~t.late => by = [filter |-> shelf.filter, sort |-> shelf.sort])
    BY <1>0, LoadBooksFields
  <2>2. \A d \in cs : IsCall(d) /\ \E c \in requests : /\ Alike(c, d) /\ d.aborted = c.aborted
                                                       /\ d.libs \subseteq c.libs \cup {lib'}
                                                       /\ c.libs = {} => d.libs = {}
    BY <1>0, <1>5, SeenMembers
  <2>3. OneCount(cs)
    BY <1>0, <1>5, SeenOneCount
  <2> HIDE DEF t, cs
  <2>4. shelf' = t /\ requests' = LoadBooksCalls(cs, lib', shelf', by)
    BY <1>13 DEF t, cs
  <2>5. \A k : Fine(shelf, lib, edits, k) => Fine(shelf', lib', edits', k)
    BY <1>7, <2>1, <2>4 DEF Fine
  <2>6. shelf'.load \in Nat
    BY <2>1, <2>4 DEF IsShelf
  <2>7. IsUpload(upload') /\ upload'.running = after.running /\ upload'.todo = after.todo
    BY <1>4, <1>13, <2>6 DEF IsUpload
  <2>8. IdsNew(lib', upload', given')
    BY <1>9, <2>7 DEF IdsNew
  <2>9. ~shelf'.late => by.filter = shelf.filter /\ by.sort = shelf.sort
    BY <2>1, <2>4
  <2> HIDE DEF after
  <2> QED  BY <1>5, <1>6, <1>8, <1>11, <2>1, <2>2, <2>3, <2>4, <2>5, <2>7, <2>8, <2>9, Reloaded
<1> QED  BY <1>1, <1>12, <1>13
-----------------------------------------------------------------------------
(* Answers and failures of requests. *)
Answered(sh, t) ==
    /\ t.auth = sh.auth /\ t.load = sh.load /\ t.search = sh.search /\ t.sum = sh.sum
    /\ SameSelection(sh, t) /\ t.late = sh.late /\ t.touched = sh.touched /\ t.loadTimer = sh.loadTimer

ProgressKinds == {"pageProgress", "moreProgress", "searchProgress"}

(* What the steps that handle an answer have in common. *)
LEMMA AnswerStep ==
    ASSUME ShelfInv, NEW c \in requests, IsShelf(shelf'), Answered(shelf, shelf'),
           lib' = lib, edits' = edits, given' = given,
           upload' = upload \/ (upload' = NoUpload /\ upload.reload > 0),
           \A d \in requests' : \/ d \in requests
                                \/ /\ IsCall(d) /\ d.kind \in ProgressKinds /\ ~d.aborted /\ shelf.auth
                                   /\ d.load = c.load /\ d.search = c.search /\ d.sum = c.sum,
           \A d \in requests' : d.kind \in CountKinds /\ d.sum = shelf.sum /\ shelf.missed => shelf'.missed,
           BooksFine(shelf', lib, edits), CountsFine(shelf', lib, edits, upload', requests'),
           Matches(shelf'), Emptied(shelf')
    PROVE  ShelfInv'
<1>0. /\ IsShelf(shelf) /\ lib \in Libraries /\ \A d \in requests : IsCall(d) /\ CallOK(shelf, lib, edits, upload, d)
      /\ shelf.load \in Nat /\ shelf.search \in Nat /\ shelf.sum \in Nat
      /\ IsUpload(upload) /\ IdsNew(lib, upload, given)
  BY DEF ShelfInv, TypeInv, IsShelf
<1>1. /\ IsUpload(upload') /\ IdsNew(lib, upload', given)
      /\ Recount(shelf, edits, upload) => Recount(shelf', edits, upload')
  <2>1. upload.reload \in Nat
    BY <1>0 DEF IsUpload
  <2>2. IsUpload(NoUpload) /\ IdsNew(lib, NoUpload, given)
    BY <1>0 DEF NoUpload, IsUpload, IdsNew
  <2> QED  BY <1>0, <2>1, <2>2 DEF Recount, Answered
<1>2. Onward(shelf, shelf') /\ SameSelection(shelf, shelf')
  BY <1>0 DEF Onward, Answered
<1>3. \A k : Fine(shelf, lib, edits, k) => Fine(shelf', lib, edits, k)
  BY DEF Fine, Answered
<1>4. ASSUME NEW d \in requests', d \in requests
      PROVE  IsCall(d) /\ CallOK(shelf', lib, edits, upload', d)
  <2>1. IsCall(d) /\ CallOK(shelf, lib, edits, upload, d)
    BY <1>0, <1>4
  <2>2. d.aborted => d.kind \in {"page", "more"}
    BY <2>1 DEF CallOK, Behind
  <2>3. shelf'.late = shelf.late /\ shelf'.filter = shelf.filter /\ shelf'.sort = shelf.sort
        /\ shelf'.loadTimer = shelf.loadTimer /\ shelf'.auth = shelf.auth /\ shelf'.sum = shelf.sum
    BY DEF Answered, SameSelection
  <2> QED  BY <1>0, <1>1, <1>2, <1>3, <2>1, <2>2, <2>3, CallKept, AlikeSelf
<1>5. ASSUME NEW d \in requests', d \notin requests
      PROVE  IsCall(d) /\ CallOK(shelf', lib, edits, upload', d) /\ d.kind \notin CountKinds
  <2>1. /\ IsCall(d) /\ d.kind \in ProgressKinds /\ ~d.aborted /\ shelf.auth
        /\ d.load = c.load /\ d.search = c.search /\ d.sum = c.sum
    BY <1>5
  <2>2. Behind(shelf, c)
    BY <1>0 DEF CallOK
  <2>3. d.kind \notin CountKinds /\ d.kind \notin {"page", "more", "search", "status"}
    BY <2>1 DEF ProgressKinds, CountKinds
  <2>4. Behind(shelf', d) /\ Asked(shelf', d) /\ Overtaken(shelf', d)
    BY <2>1, <2>2, <2>3 DEF Behind, Asked, Overtaken, Answered
  <2>5. BringsFine(shelf', lib, edits, d) /\ BringsCounts(shelf', lib, edits, upload', d)
    BY <2>3 DEF BringsFine, Usable, BringsCounts
  <2> QED  BY <2>1, <2>3, <2>4, <2>5 DEF CallOK
<1>6. OneCount(requests')
  BY <1>5 DEF OneCount, ShelfInv
<1>7. TypeInv'
  BY <1>1, <1>4, <1>5 DEF TypeInv, ShelfInv
<1> QED  BY <1>1, <1>4, <1>5, <1>6, <1>7 DEF ShelfInv

(* A page is part of the library it was read from. *)
LEMMA PageBooks ==
    ASSUME NEW l \in Libraries, NEW q
    PROVE  PageOf(l, q).books \subseteq Listed(l) /\ PageOf(l, q).books \subseteq Cards
<1>1. PageOf(l, q).books \subseteq Listed(l)
  BY Zenon DEF PageOf
<1> QED  BY <1>1, ListedFine

(* The page an answer makes. *)
LEMMA ListOfFields ==
    ASSUME NEW page, page.books \subseteq Cards, NEW q, NEW p, p = ListOf(page, q)
    PROVE  /\ IsPage(p) /\ p.known /\ p.books = page.books
           /\ p.of = [filter |-> q.filter, sort |-> q.sort, word |-> q.word]
BY DEF ListOf, IsPage

(* A usable answer of the library reaches only a user who is signed in. *)
LEMMA CurrentSignedIn ==
    ASSUME ShelfInv, NEW c \in requests, Current(shelf, c), c.libs # {}, c.kind \notin ProgressKinds
    PROVE  shelf.auth
<1>1. Overtaken(shelf, c) /\ IsCall(c) /\ shelf.load \in Nat /\ shelf.search \in Nat /\ shelf.sum \in Nat
  BY DEF ShelfInv, CallOK, TypeInv, IsShelf
<1>2. c.kind \in {"page", "more", "search", "pageSummary", "summary", "status"}
  BY <1>1 DEF IsCall, Kinds, LoadCalls, MoreCalls, SearchCalls, ProgressKinds
<1> QED  BY <1>1, <1>2 DEF Overtaken, Current, LoadCalls, MoreCalls, SearchCalls

(* The request for reading progress takes over the generations of its page. *)
LEMMA ProgressMade ==
    ASSUME NEW kind \in ProgressKinds, NEW c, IsCall(c), lib \in Libraries, NEW books,
           NEW d \in ProgressCall(kind, c, books)
    PROVE  /\ IsCall(d) /\ d.kind = kind /\ d.aborted = c.aborted
           /\ d.load = c.load /\ d.search = c.search /\ d.sum = c.sum
<1> DEFINE ids == Ids(books)
           libs == {lib}
<1>1. kind \in Kinds /\ libs \subseteq Libraries
  BY DEF Kinds, LoadCalls, MoreCalls, SearchCalls, ProgressKinds
<1>2. d = [c EXCEPT !.kind = kind, !.ids = ids, !.libs = libs]
  BY DEF ProgressCall
<1> HIDE DEF ids, libs
<1> QED  BY <1>1, <1>2 DEF IsCall

(* The counts shown stay as good as they were while no count that is awaited ends. *)
LEMMA CountsKept ==
    ASSUME ShelfInv, NEW c, c.kind \in CountKinds => ~Current(shelf, c),
           Answered(shelf, shelf'), shelf'.summary = shelf.summary, shelf'.missed = shelf.missed,
           upload' = upload \/ (upload' = NoUpload /\ upload.reload > 0),
           requests \ {c} \subseteq requests'
    PROVE  CountsFine(shelf', lib, edits, upload', requests')
<1>1. CountsFine(shelf, lib, edits, upload, requests)
  BY DEF ShelfInv
<1>2. Recount(shelf, edits, upload) => Recount(shelf', edits, upload')
  BY DEF Recount, Answered
<1>3. ASSUME NEW d \in requests, d.kind \in CountKinds, Current(shelf, d)
      PROVE  d \in requests' /\ Current(shelf', d)
  BY <1>3 DEF Current, Answered, CountKinds
<1> QED  BY <1>1, <1>2, <1>3 DEF CountsFine, Answered

(* What is shown and not touched by an answer stays fine. *)
LEMMA FineKept ==
    ASSUME Answered(shelf, shelf')
    PROVE  \A k : Fine(shelf, lib, edits, k) => Fine(shelf', lib, edits, k)
BY DEF Answered, Fine

(* A request ends and nothing is done with it. *)
LEMMA DroppedStep ==
    ASSUME ShelfInv, NEW c \in requests, c.kind \in CountKinds => ~Current(shelf, c),
           shelf' = shelf, requests' = requests \ {c}, lib' = lib, edits' = edits, given' = given,
           upload' = upload \/ (upload' = NoUpload /\ upload.reload > 0)
    PROVE  ShelfInv'
<1>1. IsShelf(shelf) /\ BooksFine(shelf, lib, edits) /\ Matches(shelf) /\ Emptied(shelf)
  BY DEF ShelfInv, TypeInv
<1>2. Answered(shelf, shelf')
  BY DEF Answered, SameSelection
<1>3. CountsFine(shelf', lib, edits, upload', requests')
  BY <1>2, CountsKept
<1> QED  BY <1>1, <1>2, <1>3, AnswerStep

(* The first page of the list. *)
LEMMA PageAnswersStep ==
    ASSUME ShelfInv, NEW c \in requests, NEW l \in c.libs, PageAnswers(c, l),
           lib' = lib, edits' = edits, given' = given
    PROVE  ShelfInv'
<1> DEFINE page == PageOf(l, c.query)
           p == ListOf(page, c.query)
<1>0. /\ IsShelf(shelf) /\ lib \in Libraries /\ IsCall(c) /\ CallOK(shelf, lib, edits, upload, c)
      /\ l \in Libraries /\ BooksFine(shelf, lib, edits) /\ Matches(shelf) /\ Emptied(shelf)
  BY DEF ShelfInv, TypeInv, IsCall
<1>1. /\ c.kind = "page" /\ ~c.aborted
      /\ upload' = IF upload.reload = c.load THEN NoUpload ELSE upload
  BY DEF PageAnswers
<1>2. upload' = upload \/ (upload' = NoUpload /\ upload.reload > 0)
  BY <1>0, <1>1 DEF CallOK, Behind
<1>3. c.kind \notin CountKinds
  BY <1>1 DEF CountKinds
<1>4. CASE Current(shelf, c)
  <2>1. /\ shelf' = [shelf EXCEPT !.loading = FALSE, !.list = p]
        /\ requests' = (requests \ {c}) \cup ProgressCall("pageProgress", c, page.books)
    BY <1>4, Zenon DEF PageAnswers
  <2>2. shelf.auth /\ "pageProgress" \in ProgressKinds
    BY <1>1, <1>4, CurrentSignedIn DEF ProgressKinds
  <2>3. page.books \subseteq Listed(l) /\ page.books \subseteq Cards
    BY <1>0, PageBooks
  <2> HIDE DEF page
  <2>4. /\ IsPage(p) /\ p.known /\ p.books = page.books
        /\ p.of = [filter |-> c.query.filter, sort |-> c.query.sort, word |-> c.query.word]
    BY <2>3, ListOfFields
  <2> HIDE DEF p
  <2>5. /\ IsShelf(shelf') /\ Answered(shelf, shelf') /\ shelf'.summary = shelf.summary
        /\ shelf'.missed = shelf.missed /\ ~shelf'.loading /\ shelf'.list = p /\ shelf'.found = shelf.found
        /\ shelf'.searching = shelf.searching
    BY <1>0, <2>1, <2>4 DEF IsShelf, Answered, SameSelection
  <2>6. \A d \in requests' : \/ d \in requests
                             \/ /\ IsCall(d) /\ d.kind \in ProgressKinds /\ ~d.aborted /\ shelf.auth
                                /\ d.load = c.load /\ d.search = c.search /\ d.sum = c.sum
    BY <1>0, <1>1, <2>1, <2>2, ProgressMade
  <2>7. CountsFine(shelf', lib, edits, upload', requests')
    BY <1>2, <1>3, <2>1, <2>5, CountsKept
  <2>8. BooksFine(shelf', lib, edits)
    <3>1. Usable(shelf, c)
      BY <1>1, <1>4 DEF Usable, Current, LoadCalls
    <3>2. \A k \in p.books : Fine(shelf, lib, edits, k)
      BY <1>0, <2>3, <2>4, <3>1 DEF CallOK, BringsFine
    <3> QED  BY <1>0, <2>5, <3>2, FineKept DEF BooksFine
  <2>9. Matches(shelf')
    <3>1. Asked(shelf, c) /\ c.load = shelf.load
      BY <1>0, <1>1, <1>4 DEF CallOK, Current, LoadCalls
    <3>2. c.query.word = NoWord /\ (shelf.late \/ (c.query.filter = shelf.filter /\ c.query.sort = shelf.sort))
      BY <1>1, <3>1 DEF Asked
    <3> QED  BY <1>0, <2>4, <2>5, <3>2 DEF Matches, Answered, SameSelection
  <2>10. Emptied(shelf')
    BY <2>2, <2>5 DEF Emptied, Answered
  <2> QED  BY <1>2, <2>5, <2>6, <2>7, <2>8, <2>9, <2>10, AnswerStep
<1>5. CASE ~Current(shelf, c)
  <2>1. shelf' = shelf /\ requests' = requests \ {c}
    BY <1>5, Zenon DEF PageAnswers
  <2> QED  BY <1>2, <1>3, <2>1, DroppedStep
<1> QED  BY <1>4, <1>5

(* The load-more row ends and nothing else changes. *)
LEMMA MoreEndsStep ==
    ASSUME ShelfInv, NEW c \in requests, c.kind = "more", NEW m \in BOOLEAN,
           shelf' = [shelf EXCEPT !.more = m], requests' = requests \ {c},
           lib' = lib, edits' = edits, given' = given, upload' = upload
    PROVE  ShelfInv'
<1>1. IsShelf(shelf) /\ BooksFine(shelf, lib, edits) /\ Matches(shelf) /\ Emptied(shelf)
  BY DEF ShelfInv, TypeInv
<1>2. /\ IsShelf(shelf') /\ Answered(shelf, shelf') /\ shelf'.summary = shelf.summary
      /\ shelf'.missed = shelf.missed /\ shelf'.list = shelf.list /\ shelf'.found = shelf.found
      /\ shelf'.loading = shelf.loading /\ shelf'.searching = shelf.searching /\ shelf'.progress = shelf.progress
  BY <1>1 DEF IsShelf, Answered, SameSelection
<1>3. CountsFine(shelf', lib, edits, upload', requests')
  BY <1>2, CountsKept DEF CountKinds
<1>4. BooksFine(shelf', lib, edits)
  BY <1>1, <1>2, FineKept DEF BooksFine, Answered
<1>5. Matches(shelf') /\ Emptied(shelf')
  BY <1>1, <1>2 DEF Matches, Emptied, Answered, SameSelection
<1> QED  BY <1>2, <1>3, <1>4, <1>5, AnswerStep

(* A further page. *)
LEMMA MoreAnswersStep ==
    ASSUME ShelfInv, NEW c \in requests, NEW l \in c.libs, MoreAnswers(c, l),
           lib' = lib, edits' = edits, given' = given
    PROVE  ShelfInv'
<1> DEFINE page == PageOf(l, c.query)
<1>0. /\ IsShelf(shelf) /\ lib \in Libraries /\ IsCall(c) /\ CallOK(shelf, lib, edits, upload, c)
      /\ l \in Libraries /\ BooksFine(shelf, lib, edits) /\ Matches(shelf) /\ Emptied(shelf)
  BY DEF ShelfInv, TypeInv, IsCall
<1>1. c.kind = "more" /\ ~c.aborted /\ upload' = upload
  BY DEF MoreAnswers
<1>3. c.kind \notin CountKinds
  BY <1>1 DEF CountKinds
<1>4. CASE Current(shelf, c)
  <2> DEFINE base == IF c.query.word # NoWord THEN shelf.found ELSE shelf.list
             books == MergeBooks(base.books, page.books)
             cursor == page.cursor
             p == [base EXCEPT !.books = books, !.cursor = cursor]
  <2>1. /\ \/ base = shelf.found /\ shelf' = [shelf EXCEPT !.more = FALSE, !.found = p]
           \/ base = shelf.list /\ shelf' = [shelf EXCEPT !.more = FALSE, !.list = p]
        /\ requests' = (requests \ {c}) \cup ProgressCall("moreProgress", c, page.books)
    BY <1>4, Zenon DEF MoreAnswers
  <2>2. shelf.auth /\ "moreProgress" \in ProgressKinds
    BY <1>1, <1>4, CurrentSignedIn DEF ProgressKinds
  <2>3. page.books \subseteq Listed(l) /\ page.books \subseteq Cards
    BY <1>0, PageBooks
  <2>4. IsPage(base)
    BY <1>0 DEF IsShelf
  <2> HIDE DEF page, base, cursor
  <2>5. books \subseteq Cards /\ \A k \in books : k \in base.books \/ k \in page.books
    BY <2>3, <2>4 DEF MergeBooks, Without, IsPage
  <2> HIDE DEF books
  <2>6. IsPage(p) /\ p.books = books /\ p.known = base.known /\ p.of = base.of
    BY <2>4, <2>5 DEF IsPage
  <2> HIDE DEF p
  <2>7. /\ IsShelf(shelf') /\ Answered(shelf, shelf') /\ shelf'.summary = shelf.summary
        /\ shelf'.missed = shelf.missed /\ shelf'.loading = shelf.loading /\ shelf'.searching = shelf.searching
        /\ \/ base = shelf.found /\ shelf'.found = p /\ shelf'.list = shelf.list
           \/ base = shelf.list /\ shelf'.list = p /\ shelf'.found = shelf.found
    <3>1. CASE base = shelf.found /\ shelf' = [shelf EXCEPT !.more = FALSE, !.found = p]
      <4>1. /\ IsShelf(shelf') /\ Answered(shelf, shelf') /\ shelf'.summary = shelf.summary
            /\ shelf'.missed = shelf.missed /\ shelf'.loading = shelf.loading /\ shelf'.searching = shelf.searching
            /\ shelf'.found = p /\ shelf'.list = shelf.list
        BY <1>0, <3>1, <2>6 DEF IsShelf, Answered, SameSelection
      <4> QED  BY <3>1, <4>1
    <3>2. CASE base = shelf.list /\ shelf' = [shelf EXCEPT !.more = FALSE, !.list = p]
      <4>1. /\ IsShelf(shelf') /\ Answered(shelf, shelf') /\ shelf'.summary = shelf.summary
            /\ shelf'.missed = shelf.missed /\ shelf'.loading = shelf.loading /\ shelf'.searching = shelf.searching
            /\ shelf'.list = p /\ shelf'.found = shelf.found
        BY <1>0, <3>2, <2>6 DEF IsShelf, Answered, SameSelection
      <4> QED  BY <3>2, <4>1
    <3> QED  BY <2>1, <3>1, <3>2
  <2>8. \A d \in requests' : \/ d \in requests
                             \/ /\ IsCall(d) /\ d.kind \in ProgressKinds /\ ~d.aborted /\ shelf.auth
                                /\ d.load = c.load /\ d.search = c.search /\ d.sum = c.sum
    BY <1>0, <1>1, <2>1, <2>2, ProgressMade
  <2>9. CountsFine(shelf', lib, edits, upload', requests')
    BY <1>1, <1>3, <2>1, <2>7, CountsKept
  <2>10. BooksFine(shelf', lib, edits)
    <3>1. Usable(shelf, c)
      BY <1>1, <1>4 DEF Usable, Current, MoreCalls
    <3>2. \A k \in page.books : Fine(shelf, lib, edits, k)
      BY <1>0, <2>3, <3>1 DEF CallOK, BringsFine
    <3>3. (\A k \in base.books : Fine(shelf, lib, edits, k)) => \A k \in p.books : Fine(shelf', lib, edits, k)
      BY <2>5, <2>6, <2>7, <3>2, FineKept
    <3>4. \A k : Fine(shelf, lib, edits, k) => Fine(shelf', lib, edits, k)
      BY <2>7, FineKept
    <3>5. shelf'.loadTimer = shelf.loadTimer
      BY <2>7 DEF Answered
    <3> QED  BY <1>0, <2>7, <3>3, <3>4, <3>5 DEF BooksFine
  <2>11. Matches(shelf')
    BY <1>0, <2>6, <2>7 DEF Matches, Answered, SameSelection
  <2>12. Emptied(shelf')
    BY <2>2, <2>7 DEF Emptied, Answered
  <2> QED  BY <1>1, <2>7, <2>8, <2>9, <2>10, <2>11, <2>12, AnswerStep
<1>5. CASE ~Current(shelf, c)
  <2> DEFINE m == shelf.more /\ ~NewestMore(c)
  <2>1. shelf' = [shelf EXCEPT !.more = m] /\ requests' = (requests \ {c}) \cup {}
    BY <1>5, Zenon DEF MoreAnswers
  <2>2. m \in BOOLEAN
    OBVIOUS
  <2> HIDE DEF m
  <2>3. requests' = requests \ {c}
    BY <2>1
  <2> QED  BY <1>1, <2>1, <2>2, <2>3, MoreEndsStep
<1> QED  BY <1>4, <1>5

Finding(sh, t, p) ==
    /\ IsShelf(t) /\ Answered(sh, t) /\ t.summary = sh.summary
    /\ t.missed = sh.missed /\ t.list = sh.list /\ t.found = p
    /\ t.loading = sh.loading /\ ~t.searching /\ t.progress = sh.progress

(* A search: what it finds was asked for with the selection and the word of now. *)
LEMMA FoundStep ==
    ASSUME ShelfInv, NEW c \in requests, c.kind = "search", Current(shelf, c), NEW p, IsPage(p),
           Finding(shelf, shelf', p),
           p.of = [filter |-> c.query.filter, sort |-> c.query.sort, word |-> c.query.word],
           \A k \in p.books : Fine(shelf, lib, edits, k), p.books # {} => shelf.auth,
           requests \ {c} \subseteq requests',
           \A d \in requests' : \/ d \in requests
                                \/ /\ IsCall(d) /\ d.kind \in ProgressKinds /\ ~d.aborted /\ shelf.auth
                                   /\ d.load = c.load /\ d.search = c.search /\ d.sum = c.sum,
           lib' = lib, edits' = edits, given' = given, upload' = upload
    PROVE  ShelfInv'
<1>0. /\ IsShelf(shelf) /\ CallOK(shelf, lib, edits, upload, c)
      /\ BooksFine(shelf, lib, edits) /\ Matches(shelf) /\ Emptied(shelf)
  BY DEF ShelfInv, TypeInv
<1>1. /\ IsShelf(shelf') /\ Answered(shelf, shelf') /\ shelf'.summary = shelf.summary
      /\ shelf'.missed = shelf.missed /\ shelf'.list = shelf.list /\ shelf'.found = p
      /\ shelf'.loading = shelf.loading /\ ~shelf'.searching /\ shelf'.progress = shelf.progress
  BY DEF Finding
<1>2. CountsFine(shelf', lib, edits, upload', requests')
  BY <1>1, CountsKept DEF CountKinds
<1>3. BooksFine(shelf', lib, edits)
  BY <1>0, <1>1, FineKept DEF BooksFine, Answered
<1>4. Matches(shelf')
  <2>1. Asked(shelf, c) /\ c.search = shelf.search
    BY <1>0 DEF CallOK, Current, SearchCalls
  <2>2. c.query.filter = shelf.filter /\ c.query.sort = shelf.sort /\ c.query.word = shelf.word
    BY <2>1 DEF Asked
  <2> QED  BY <1>0, <1>1, <2>2 DEF Matches, Answered, SameSelection
<1>5. Emptied(shelf')
  BY <1>0, <1>1 DEF Emptied, Answered
<1> QED  BY <1>1, <1>2, <1>3, <1>4, <1>5, AnswerStep

(* A search that is answered shows the word of now, or nothing. *)
LEMMA SearchAnswersStep ==
    ASSUME ShelfInv, NEW c \in requests, NEW l \in c.libs, SearchAnswers(c, l),
           lib' = lib, edits' = edits, given' = given
    PROVE  ShelfInv'
<1> DEFINE page == PageOf(l, c.query)
           p == ListOf(page, c.query)
<1>0. /\ lib \in Libraries /\ IsCall(c) /\ CallOK(shelf, lib, edits, upload, c) /\ l \in Libraries
  BY DEF ShelfInv, TypeInv, IsCall
<1>1. c.kind = "search" /\ upload' = upload
  BY DEF SearchAnswers
<1>3. c.kind \notin CountKinds
  BY <1>1 DEF CountKinds
<1>4. CASE Current(shelf, c)
  <2>1. /\ shelf' = [shelf EXCEPT !.searching = FALSE, !.found = p]
        /\ requests' = (requests \ {c}) \cup ProgressCall("searchProgress", c, page.books)
    BY <1>4, Zenon DEF SearchAnswers
  <2>2. shelf.auth /\ "searchProgress" \in ProgressKinds /\ ~c.aborted
    BY <1>1, <1>4, CurrentSignedIn DEF ProgressKinds, Current
  <2>3. page.books \subseteq Listed(l) /\ page.books \subseteq Cards
    BY <1>0, PageBooks
  <2> HIDE DEF page
  <2>4. /\ IsPage(p) /\ p.books = page.books
        /\ p.of = [filter |-> c.query.filter, sort |-> c.query.sort, word |-> c.query.word]
    BY <2>3, ListOfFields
  <2> HIDE DEF p
  <2>5. \A d \in requests' : \/ d \in requests
                             \/ /\ IsCall(d) /\ d.kind \in ProgressKinds /\ ~d.aborted /\ shelf.auth
                                /\ d.load = c.load /\ d.search = c.search /\ d.sum = c.sum
    BY <1>0, <1>1, <2>1, <2>2, ProgressMade
  <2>6. Usable(shelf, c)
    BY <1>1, <1>4 DEF Usable, Current, SearchCalls
  <2>7. \A k \in p.books : Fine(shelf, lib, edits, k)
    BY <1>0, <2>3, <2>4, <2>6 DEF CallOK, BringsFine
  <2>8. requests \ {c} \subseteq requests'
    BY <2>1
  <2>9. IsShelf(shelf)
    BY DEF ShelfInv, TypeInv
  <2>10. Finding(shelf, shelf', p)
    BY <2>1, <2>4, <2>9 DEF Finding, IsShelf, Answered, SameSelection
  <2> QED  BY <1>1, <1>4, <2>2, <2>4, <2>5, <2>7, <2>8, <2>10, FoundStep
<1>5. CASE ~Current(shelf, c)
  <2>1. shelf' = shelf /\ requests' = requests \ {c}
    BY <1>5, Zenon DEF SearchAnswers
  <2> QED  BY <1>1, <1>3, <2>1, DroppedStep
<1> QED  BY <1>4, <1>5

(* Reading progress of the books of a page.  It is asked for by a signed-in client only. *)
LEMMA ProgressAnswersStep ==
    ASSUME ShelfInv, NEW c \in requests, NEW l \in c.libs, ProgressAnswers(c),
           lib' = lib, edits' = edits, given' = given
    PROVE  ShelfInv'
<1>0. /\ IsShelf(shelf) /\ IsCall(c) /\ CallOK(shelf, lib, edits, upload, c)
      /\ BooksFine(shelf, lib, edits) /\ Matches(shelf) /\ Emptied(shelf)
      /\ shelf.load \in Nat /\ shelf.search \in Nat
  BY DEF ShelfInv, TypeInv, IsShelf
<1>1. c.kind \in ProgressKinds /\ upload' = upload /\ requests' = requests \ {c}
  BY DEF ProgressAnswers, ProgressKinds
<1>3. c.kind \notin CountKinds
  BY <1>1 DEF CountKinds, ProgressKinds
<1>4. CASE Current(shelf, c)
  <2> DEFINE more == shelf.progress \cup c.ids
  <2>1. shelf' = [shelf EXCEPT !.progress = more]
    BY <1>4, Zenon DEF ProgressAnswers
  <2>2. shelf.auth
    BY <1>0, <1>1, <1>4 DEF CallOK, Overtaken, Current, LoadCalls, MoreCalls, SearchCalls, ProgressKinds
  <2> HIDE DEF more
  <2>3. /\ IsShelf(shelf') /\ Answered(shelf, shelf') /\ shelf'.summary = shelf.summary
        /\ shelf'.missed = shelf.missed /\ shelf'.list = shelf.list /\ shelf'.found = shelf.found
        /\ shelf'.loading = shelf.loading /\ shelf'.searching = shelf.searching
    BY <1>0, <2>1 DEF IsShelf, Answered, SameSelection
  <2>4. CountsFine(shelf', lib, edits, upload', requests')
    BY <1>1, <1>3, <2>3, CountsKept
  <2>5. BooksFine(shelf', lib, edits)
    BY <1>0, <2>3, FineKept DEF BooksFine, Answered
  <2>6. Matches(shelf') /\ Emptied(shelf')
    BY <1>0, <2>2, <2>3 DEF Matches, Emptied, Answered, SameSelection
  <2> QED  BY <1>1, <2>3, <2>4, <2>5, <2>6, AnswerStep
<1>5. CASE ~Current(shelf, c)
  <2>1. shelf' = shelf
    BY <1>5, Zenon DEF ProgressAnswers
  <2> QED  BY <1>1, <1>3, <2>1, DroppedStep
<1> QED  BY <1>4, <1>5

(* The counts.  The awaited answer is the only one of its generation, so the mark *)
(* of a lost count may go with it.                                                *)
LEMMA SummaryAnswersStep ==
    ASSUME ShelfInv, NEW c \in requests, NEW l \in c.libs, SummaryAnswers(c, l),
           lib' = lib, edits' = edits, given' = given
    PROVE  ShelfInv'
<1>0. /\ IsShelf(shelf) /\ IsCall(c) /\ CallOK(shelf, lib, edits, upload, c)
      /\ BooksFine(shelf, lib, edits) /\ Matches(shelf) /\ Emptied(shelf) /\ OneCount(requests)
  BY DEF ShelfInv, TypeInv
<1>1. c.kind \in CountKinds /\ upload' = upload /\ requests' = requests \ {c}
  BY DEF SummaryAnswers, CountKinds
<1>4. CASE Current(shelf, c)
  <2> DEFINE counts == Counts(l)
             same == counts # Counts(lib)
             m == shelf.missed /\ same
             s == [known |-> TRUE, counts |-> counts]
  <2>1. shelf' = [shelf EXCEPT !.summary = s, !.missed = m]
    BY <1>4, Zenon DEF SummaryAnswers
  <2>2. m \in BOOLEAN /\ (~m => ~shelf.missed \/ counts = Counts(lib))
    OBVIOUS
  <2> HIDE DEF m, counts
  <2>3. s \in [known : BOOLEAN, counts : {s.counts}] /\ s.counts = counts
    OBVIOUS
  <2> HIDE DEF s
  <2>4. /\ IsShelf(shelf') /\ Answered(shelf, shelf') /\ shelf'.summary = s
        /\ shelf'.missed = m /\ shelf'.list = shelf.list /\ shelf'.found = shelf.found
        /\ shelf'.loading = shelf.loading /\ shelf'.searching = shelf.searching
        /\ shelf'.progress = shelf.progress
    BY <1>0, <2>1, <2>2, <2>3 DEF IsShelf, Answered, SameSelection
  <2>5. shelf.auth
    BY <1>1, <1>4, CurrentSignedIn DEF CountKinds, ProgressKinds
  <2>6. CountsFine(shelf', lib, edits, upload', requests')
    <3> SUFFICES ASSUME ~shelf'.missed
                 PROVE  shelf'.summary.counts = Counts(lib) \/ Recount(shelf', edits, upload')
      BY DEF CountsFine
    <3>1. counts = Counts(lib) \/ shelf.missed \/ Recount(shelf, edits, upload)
      BY <1>0, <1>1, <1>4 DEF CallOK, BringsCounts, counts
    <3>2. counts = Counts(lib) \/ Recount(shelf, edits, upload)
      BY <2>2, <2>4, <3>1
    <3>3. Recount(shelf, edits, upload) => Recount(shelf', edits, upload')
      BY <1>1, <2>4 DEF Recount, Answered
    <3> QED  BY <2>3, <2>4, <3>2, <3>3
  <2>7. BooksFine(shelf', lib, edits)
    BY <1>0, <2>4, FineKept DEF BooksFine, Answered
  <2>8. Matches(shelf') /\ Emptied(shelf')
    BY <1>0, <2>5, <2>4 DEF Matches, Emptied, Answered, SameSelection
  <2>9. \A d \in requests' : ~(d.kind \in CountKinds /\ d.sum = shelf.sum)
    BY <1>0, <1>1, <1>4 DEF OneCount, Current, CountKinds
  <2> QED  BY <1>1, <2>4, <2>6, <2>7, <2>8, <2>9, AnswerStep
<1>5. CASE ~Current(shelf, c)
  <2>1. shelf' = shelf
    BY <1>5, Zenon DEF SummaryAnswers
  <2> QED  BY <1>1, <1>5, <2>1, DroppedStep
<1> QED  BY <1>4, <1>5

(* A book in place of another has its id. *)
LEMMA ReplaceMembers ==
    ASSUME NEW books, NEW by, NEW k \in Replace(books, by)
    PROVE  (k \in books /\ k.id \notin Ids(by)) \/ (k \in by /\ k.id \in Ids(books))
<1>1. PICK j \in books : k = IF j.id \in Ids(by) THEN CHOOSE i \in by : i.id = j.id ELSE j
  BY DEF Replace
<1>2. CASE j.id \in Ids(by)
  <2>1. \E i \in by : i.id = j.id
    BY <1>2 DEF Ids
  <2>2. k \in by /\ k.id = j.id
    BY <1>1, <1>2, <2>1
  <2> QED  BY <2>2 DEF Ids
<1>3. CASE j.id \notin Ids(by)
  BY <1>1, <1>3
<1> QED  BY <1>2, <1>3

(* Two pages with other books in them. *)
LEMMA BooksChanged ==
    ASSUME NEW p, IsPage(p), NEW books, books \subseteq Cards, NEW n, n = [p EXCEPT !.books = books]
    PROVE  IsPage(n) /\ n.books = books /\ n.known = p.known /\ n.of = p.of
BY DEF IsPage

(* A poll replaces books by what some library since its start had. *)
LEMMA StatusAnswersStep ==
    ASSUME ShelfInv, NEW c \in requests, NEW l \in c.libs, StatusAnswers(c, l),
           lib' = lib, edits' = edits, given' = given
    PROVE  ShelfInv'
<1>0. /\ IsShelf(shelf) /\ IsCall(c) /\ CallOK(shelf, lib, edits, upload, c)
      /\ BooksFine(shelf, lib, edits) /\ Matches(shelf) /\ Emptied(shelf) /\ l \in Libraries
  BY DEF ShelfInv, TypeInv, IsCall
<1>1. c.kind = "status" /\ upload' = upload /\ requests' = requests \ {c}
  BY DEF StatusAnswers
<1>2. c.kind \notin CountKinds /\ c.kind \notin ProgressKinds
  BY <1>1 DEF CountKinds, ProgressKinds
<1>4. CASE Current(shelf, c)
  <2> DEFINE cur == {k \in Listed(l) : k.id \in c.ids}
             bl == Replace(shelf.list.books, cur)
             bf == Replace(shelf.found.books, cur)
             list == [shelf.list EXCEPT !.books = bl]
             found == [shelf.found EXCEPT !.books = bf]
  <2>1. shelf' = [shelf EXCEPT !.list = list, !.found = found]
    <3>1. shelf' = [shelf EXCEPT !.list.books = Replace(@, cur), !.found.books = Replace(@, cur)]
      BY <1>4, Zenon DEF StatusAnswers
    <3> HIDE DEF cur
    <3> QED  BY <1>0, <3>1 DEF IsShelf
  <2>2. shelf.auth
    BY <1>2, <1>4, CurrentSignedIn
  <2>3. cur \subseteq Cards /\ \A k \in cur : Fine(shelf, lib, edits, k)
    <3>1. Usable(shelf, c)
      BY <1>1 DEF Usable
    <3> QED  BY <1>0, <3>1, ListedFine DEF CallOK, BringsFine
  <2> HIDE DEF cur
  <2>4. IsPage(shelf.list) /\ IsPage(shelf.found)
    BY <1>0 DEF IsShelf
  <2>5. /\ bl \subseteq Cards /\ \A k \in bl : k \in shelf.list.books \/ k \in cur
        /\ bf \subseteq Cards /\ \A k \in bf : k \in shelf.found.books \/ k \in cur
    BY <2>3, <2>4, ReplaceMembers DEF IsPage
  <2> HIDE DEF bl, bf
  <2>6. /\ IsPage(list) /\ list.books = bl /\ list.known = shelf.list.known /\ list.of = shelf.list.of
        /\ IsPage(found) /\ found.books = bf /\ found.known = shelf.found.known /\ found.of = shelf.found.of
    BY <2>4, <2>5, BooksChanged
  <2> HIDE DEF list, found
  <2>7. /\ IsShelf(shelf') /\ Answered(shelf, shelf') /\ shelf'.summary = shelf.summary
        /\ shelf'.missed = shelf.missed /\ shelf'.list = list /\ shelf'.found = found
        /\ shelf'.loading = shelf.loading /\ shelf'.searching = shelf.searching
    BY <1>0, <2>1, <2>6 DEF IsShelf, Answered, SameSelection
  <2>8. CountsFine(shelf', lib, edits, upload', requests')
    BY <1>1, <1>2, <2>7, CountsKept
  <2>9. BooksFine(shelf', lib, edits)
    <3>1. \A k : Fine(shelf, lib, edits, k) => Fine(shelf', lib, edits, k)
      BY <2>7, FineKept
    <3>2. shelf'.loadTimer = shelf.loadTimer
      BY <2>7 DEF Answered
    <3> QED  BY <1>0, <2>3, <2>5, <2>6, <2>7, <3>1, <3>2 DEF BooksFine
  <2>10. Matches(shelf') /\ Emptied(shelf')
    BY <1>0, <2>2, <2>6, <2>7 DEF Matches, Emptied, Answered, SameSelection
  <2> QED  BY <1>1, <2>7, <2>8, <2>9, <2>10, AnswerStep
<1>5. CASE ~Current(shelf, c)
  <2>1. shelf' = shelf
    BY <1>5, Zenon DEF StatusAnswers
  <2> QED  BY <1>1, <1>2, <2>1, DroppedStep
<1> QED  BY <1>4, <1>5

(* The shelf after a request that failed, one case for each kind that was to end something. *)
LEMMA CallFailsTo ==
    ASSUME NEW c, CallFails(c)
    PROVE  \/ /\ c.kind = "page" /\ Current(shelf, c)
              /\ shelf' = [shelf EXCEPT !.list = NoPage, !.progress = {}, !.failed = TRUE, !.loading = FALSE]
           \/ /\ c.kind = "page" /\ ~Current(shelf, c)
              /\ shelf' = [shelf EXCEPT !.loading = shelf.loading /\ c.load # shelf.load]
           \/ /\ c.kind = "more"
              /\ shelf' = [shelf EXCEPT !.more = shelf.more /\ ~NewestMore(c)]
           \/ /\ c.kind = "search" /\ Current(shelf, c)
              /\ shelf' = [shelf EXCEPT !.searching = FALSE,
                                        !.found = ListOf([books |-> {}, cursor |-> 0], c.query)]
           \/ /\ c.kind = "summary" /\ Current(shelf, c)
              /\ shelf' = [shelf EXCEPT !.summary = NoSummary]
           \/ /\ c.kind = "pageSummary" /\ Current(shelf, c)
              /\ shelf' = [shelf EXCEPT !.missed = TRUE]
           \/ /\ shelf' = shelf /\ c.kind # "page"
              /\ c.kind \in CountKinds => ~Current(shelf, c)
BY Zenon DEF CallFails, CountKinds

(* A failed request shows nothing; counts that failed are missed or unknown. *)
LEMMA CallFailsStep ==
    ASSUME ShelfInv, NEW c \in requests, CallFails(c)
    PROVE  ShelfInv'
<1>0. /\ IsShelf(shelf) /\ IsCall(c) /\ CallOK(shelf, lib, edits, upload, c)
      /\ BooksFine(shelf, lib, edits) /\ Matches(shelf) /\ Emptied(shelf) /\ OneCount(requests)
  BY DEF ShelfInv, TypeInv
<1>1. /\ requests' = requests \ {c} /\ lib' = lib /\ edits' = edits /\ given' = given
      /\ upload' = IF c.kind = "page" /\ upload.reload = c.load THEN NoUpload ELSE upload
  BY Zenon DEF CallFails
<1>2. upload' = upload \/ (upload' = NoUpload /\ upload.reload > 0)
  BY <1>0, <1>1 DEF CallOK, Behind
<1>3. c.kind # "page" => upload' = upload
  BY <1>1
<1>4. CASE /\ c.kind = "page" /\ Current(shelf, c)
           /\ shelf' = [shelf EXCEPT !.list = NoPage, !.progress = {}, !.failed = TRUE, !.loading = FALSE]
  <2> DEFINE p == NoPage
  <2>1. shelf' = [shelf EXCEPT !.list = p, !.progress = {}, !.failed = TRUE, !.loading = FALSE]
    BY <1>4
  <2>2. IsPage(p) /\ p.books = {} /\ ~p.known
    BY NoPageIsPage
  <2> HIDE DEF p
  <2>3. /\ IsShelf(shelf') /\ Answered(shelf, shelf') /\ shelf'.summary = shelf.summary
        /\ shelf'.missed = shelf.missed /\ shelf'.list = p /\ shelf'.found = shelf.found
        /\ shelf'.searching = shelf.searching /\ shelf'.progress = {}
    BY <1>0, <2>1, <2>2 DEF IsShelf, Answered, SameSelection
  <2>4. CountsFine(shelf', lib, edits, upload', requests')
    BY <1>1, <1>2, <1>4, <2>3, CountsKept DEF CountKinds
  <2>5. BooksFine(shelf', lib, edits)
    BY <1>0, <2>2, <2>3, FineKept DEF BooksFine
  <2>6. Matches(shelf') /\ Emptied(shelf')
    BY <1>0, <2>2, <2>3 DEF Matches, Emptied, Answered, SameSelection
  <2> QED  BY <1>1, <1>2, <2>3, <2>4, <2>5, <2>6, AnswerStep
<1>5. CASE /\ c.kind = "page" /\ ~Current(shelf, c)
           /\ shelf' = [shelf EXCEPT !.loading = shelf.loading /\ c.load # shelf.load]
  <2> DEFINE w == shelf.loading /\ c.load # shelf.load
  <2>1. shelf' = [shelf EXCEPT !.loading = w]
    BY <1>5
  <2>2. w \in BOOLEAN
    OBVIOUS
  <2>3. w = shelf.loading \/ shelf.loadTimer
    <3>1. CASE c.load # shelf.load
      BY <3>1, <1>0 DEF IsShelf
    <3>2. CASE c.load = shelf.load
      <4>1. c.aborted
        BY <3>2, <1>5 DEF Current, LoadCalls, MoreCalls, SearchCalls
      <4> QED  BY <1>0, <1>5, <3>2, <4>1 DEF CallOK, Asked
    <3> QED  BY <3>1, <3>2
  <2> HIDE DEF w
  <2>4. /\ IsShelf(shelf') /\ Answered(shelf, shelf') /\ shelf'.summary = shelf.summary
        /\ shelf'.missed = shelf.missed /\ shelf'.list = shelf.list /\ shelf'.found = shelf.found
        /\ shelf'.searching = shelf.searching /\ shelf'.progress = shelf.progress /\ shelf'.loading = w
    BY <1>0, <2>1, <2>2 DEF IsShelf, Answered, SameSelection
  <2>5. CountsFine(shelf', lib, edits, upload', requests')
    BY <1>1, <1>2, <1>5, <2>4, CountsKept DEF CountKinds
  <2>6. BooksFine(shelf', lib, edits)
    BY <1>0, <2>3, <2>4, FineKept DEF BooksFine, Answered
  <2>7. Matches(shelf') /\ Emptied(shelf')
    BY <1>0, <2>3, <2>4 DEF Matches, Emptied, Answered, SameSelection
  <2> QED  BY <1>1, <1>2, <2>4, <2>5, <2>6, <2>7, AnswerStep
<1>6. CASE c.kind = "more" /\ shelf' = [shelf EXCEPT !.more = shelf.more /\ ~NewestMore(c)]
  <2> DEFINE m == shelf.more /\ ~NewestMore(c)
  <2>1. m \in BOOLEAN /\ shelf' = [shelf EXCEPT !.more = m]
    BY <1>6
  <2> HIDE DEF m
  <2> QED  BY <1>1, <1>3, <1>6, <2>1, MoreEndsStep
<1>7. CASE /\ c.kind = "search" /\ Current(shelf, c)
           /\ shelf' = [shelf EXCEPT !.searching = FALSE, !.found = ListOf([books |-> {}, cursor |-> 0], c.query)]
  <2> DEFINE page == [books |-> {}, cursor |-> 0]
             p == ListOf(page, c.query)
  <2>1. page.books = {} /\ shelf' = [shelf EXCEPT !.searching = FALSE, !.found = p]
    BY <1>7
  <2> HIDE DEF page
  <2>2. /\ IsPage(p) /\ p.books = {}
        /\ p.of = [filter |-> c.query.filter, sort |-> c.query.sort, word |-> c.query.word]
    BY <2>1, ListOfFields
  <2> HIDE DEF p
  <2>3. Finding(shelf, shelf', p)
    BY <1>0, <2>1, <2>2 DEF Finding, IsShelf, Answered, SameSelection
  <2>4. requests \ {c} \subseteq requests' /\ \A d \in requests' : d \in requests
    BY <1>1
  <2> QED  BY <1>1, <1>3, <1>7, <2>2, <2>3, <2>4, FoundStep
<1>8. ASSUME c.kind \in CountKinds, IsShelf(shelf'), Answered(shelf, shelf'), shelf.missed => shelf'.missed,
             shelf'.summary.known => shelf'.missed /\ shelf.summary.known,
             shelf'.list = shelf.list, shelf'.found = shelf.found, shelf'.progress = shelf.progress,
             shelf'.searching = shelf.searching, shelf'.loading = shelf.loading
      PROVE  ShelfInv'
  <2>1. CountsFine(shelf', lib, edits, upload', requests')
    BY <1>8 DEF CountsFine
  <2>2. BooksFine(shelf', lib, edits)
    BY <1>0, <1>8, FineKept DEF BooksFine, Answered
  <2>3. Matches(shelf') /\ Emptied(shelf')
    BY <1>0, <1>8 DEF Matches, Emptied, Answered, SameSelection
  <2> QED  BY <1>1, <1>2, <1>8, <2>1, <2>2, <2>3, AnswerStep
<1>9. CASE c.kind = "summary" /\ Current(shelf, c) /\ shelf' = [shelf EXCEPT !.summary = NoSummary]
  <2> DEFINE s == NoSummary
  <2>1. s \in [known : BOOLEAN, counts : {s.counts}] /\ ~s.known
    BY NoSummaryTyped
  <2>2. shelf' = [shelf EXCEPT !.summary = s]
    BY <1>9
  <2> HIDE DEF s
  <2>3. /\ IsShelf(shelf') /\ Answered(shelf, shelf') /\ shelf'.missed = shelf.missed /\ shelf'.summary = s
        /\ shelf'.list = shelf.list /\ shelf'.found = shelf.found /\ shelf'.progress = shelf.progress
        /\ shelf'.searching = shelf.searching /\ shelf'.loading = shelf.loading
    BY <1>0, <2>1, <2>2 DEF IsShelf, Answered, SameSelection
  <2>4. c.kind \in CountKinds
    BY <1>9 DEF CountKinds
  <2> QED  BY <1>8, <2>1, <2>3, <2>4
<1>10. CASE c.kind = "pageSummary" /\ Current(shelf, c) /\ shelf' = [shelf EXCEPT !.missed = TRUE]
  <2>1. /\ IsShelf(shelf') /\ Answered(shelf, shelf') /\ shelf'.missed /\ shelf'.summary = shelf.summary
        /\ shelf'.list = shelf.list /\ shelf'.found = shelf.found /\ shelf'.progress = shelf.progress
        /\ shelf'.searching = shelf.searching /\ shelf'.loading = shelf.loading
    BY <1>0, <1>10 DEF IsShelf, Answered, SameSelection
  <2>2. c.kind \in CountKinds
    BY <1>10 DEF CountKinds
  <2> QED  BY <1>8, <2>1, <2>2
<1>11. CASE shelf' = shelf /\ c.kind # "page" /\ (c.kind \in CountKinds => ~Current(shelf, c))
  BY <1>1, <1>2, <1>11, DroppedStep
<1> QED  BY CallFailsTo, <1>4, <1>5, <1>6, <1>7, <1>9, <1>10, <1>11, Zenon

(* The answers, one kind at a time. *)
LEMMA CallAnswersStep ==
    ASSUME ShelfInv, NEW c \in requests, CallAnswers(c)
    PROVE  ShelfInv'
<1>1. lib' = lib /\ edits' = edits /\ given' = given
  BY DEF CallAnswers
<1>2. PICK l \in c.libs : \/ PageAnswers(c, l) \/ MoreAnswers(c, l) \/ SearchAnswers(c, l) \/ ProgressAnswers(c)
                          \/ SummaryAnswers(c, l) \/ StatusAnswers(c, l)
  BY DEF CallAnswers
<1> QED  BY <1>1, <1>2, PageAnswersStep, MoreAnswersStep, SearchAnswersStep, ProgressAnswersStep,
            SummaryAnswersStep, StatusAnswersStep
-----------------------------------------------------------------------------
(* Answers of edits.  With its answer an edit no longer vouches for the books it *)
(* was about: what is shown of them has to be right, or noted as touched.        *)
LEMMA FineWithout ==
    ASSUME NEW e \in edits, shelf.touched \subseteq shelf'.touched
    PROVE  \A k : Fine(shelf, lib, edits, k) /\ k.id \notin e.ids => Fine(shelf', lib, edits \ {e}, k)
BY DEF Fine

(* A book that a request brings is excused once the edit it overlapped is answered. *)
LEMMA FineOverlapped ==
    ASSUME NEW e \in edits, NEW kinds, lib \in Libraries,
           shelf.touched \cup Overlapped(e.ids, kinds) \subseteq shelf'.touched,
           NEW c \in requests, c.kind \in kinds, NEW m \in c.libs, NEW k \in Listed(m), Fine(shelf, lib, edits, k)
    PROVE  Fine(shelf', lib, edits \ {e}, k)
<1>1. CASE k.id \notin e.ids
  BY <1>1, FineWithout
<1>2. CASE k.id \in e.ids /\ k \notin Listed(lib)
  <2>1. k.id \in Overlapped(e.ids, kinds)
    BY <1>2 DEF Overlapped
  <2> QED  BY <2>1 DEF Fine
<1>3. CASE k \in Listed(lib)
  BY <1>3, ListedFine
<1> QED  BY <1>1, <1>2, <1>3

(* A book that was shown, now under the category the answered edit gave it. *)
LEMMA FineRenamed ==
    ASSUME NEW e \in edits, e.served, ~Removes(e), EditOK(lib, given, e),
           shelf.touched \subseteq shelf'.touched,
           NEW j, Fine(shelf, lib, edits, j), NEW k, k.id = j.id, k.id \in e.ids, k.cat = e.to
    PROVE  Fine(shelf', lib, edits \ {e}, k)
<1>1. CASE k.id \in DOMAIN lib
  BY <1>1 DEF Fine, EditOK
<1>2. CASE k.id \notin DOMAIN lib
  BY <1>2 DEF Fine
<1> QED  BY <1>1, <1>2

(* A delete or a change of categories: the counts are asked for again. *)
LEMMA RecountStep ==
    ASSUME ShelfInv, NEW e \in edits, edits' = edits \ {e}, lib' = lib, upload' = upload, given' = given,
           IsShelf(shelf'), shelf'.sum = shelf.sum + 1, shelf'.load = shelf.load, shelf'.search = shelf.search,
           shelf'.auth = shelf.auth, SameSelection(shelf, shelf'), shelf'.late = shelf.late,
           shelf'.loadTimer = shelf.loadTimer,
           shelf.touched \cup Overlapped(e.ids, {"page", "more", "search", "status"}) \subseteq shelf'.touched,
           BooksFine(shelf', lib, edits'), Matches(shelf'), Emptied(shelf'), NEW q,
           requests' = requests \cup {NewRequest(lib, "summary", shelf', q, {})}
    PROVE  ShelfInv'
<1>0. /\ IsShelf(shelf) /\ lib \in Libraries /\ \A c \in requests : IsCall(c) /\ CallOK(shelf, lib, edits, upload, c)
      /\ shelf.load \in Nat /\ shelf.search \in Nat /\ shelf.sum \in Nat /\ shelf'.auth \in BOOLEAN
  BY DEF ShelfInv, TypeInv, IsShelf
<1> DEFINE kind == "summary"
           none == {}
           n == NewRequest(lib, kind, shelf', q, none)
<1>1. requests' = requests \cup {n}
  OBVIOUS
<1>2. kind \in Kinds /\ kind = "summary"
  BY DEF Kinds
<1> HIDE DEF kind, none
<1>3. /\ IsCall(n) /\ n.kind = kind /\ n.load = shelf'.load /\ n.search = shelf'.search /\ n.sum = shelf'.sum
      /\ ~n.aborted /\ (shelf'.auth => n.libs = {lib}) /\ (~shelf'.auth => n.libs = {})
  BY <1>0, <1>2, NewRequestFields
<1> HIDE DEF n
<1>4. CallOK(shelf', lib, edits', upload', n)
  <2>1. Behind(shelf', n) /\ Asked(shelf', n)
    BY <1>0, <1>2, <1>3 DEF Behind, Asked
  <2>2. Overtaken(shelf', n) /\ BringsFine(shelf', lib, edits', n)
    BY <1>2, <1>3 DEF Overtaken, BringsFine, Usable
  <2>3. BringsCounts(shelf', lib, edits', upload', n)
    BY <1>3 DEF BringsCounts
  <2> QED  BY <2>1, <2>2, <2>3 DEF CallOK
<1>5. ASSUME NEW c \in requests
      PROVE  CallOK(shelf', lib, edits', upload', c) /\ c.sum # shelf'.sum
  <2>1. IsCall(c) /\ CallOK(shelf, lib, edits, upload, c) /\ Behind(shelf, c)
    BY <1>0 DEF CallOK
  <2>2. c.sum # shelf'.sum /\ Onward(shelf, shelf') /\ (c.aborted => c.kind \in {"page", "more"})
    BY <1>0, <2>1 DEF Behind, IsCall, Onward
  <2>3. Usable(shelf', c) => c.kind \in {"page", "more", "search", "status"}
    BY DEF Usable
  <2>4. Usable(shelf', c) =>
           \A m \in c.libs : \A k \in Listed(m) : Fine(shelf, lib, edits, k) => Fine(shelf', lib, edits', k)
    <3> DEFINE kinds == {"page", "more", "search", "status"}
    <3>1. shelf.touched \cup Overlapped(e.ids, kinds) \subseteq shelf'.touched
      OBVIOUS
    <3> HIDE DEF kinds
    <3>2. c.kind \in kinds => \A m \in c.libs : \A k \in Listed(m) :
             Fine(shelf, lib, edits, k) => Fine(shelf', lib, edits \ {e}, k)
      BY <1>0, <3>1, FineOverlapped
    <3> QED  BY <2>3, <3>2 DEF kinds
  <2>5. shelf'.filter = shelf.filter /\ shelf'.sort = shelf.sort
    BY DEF SameSelection
  <2>6. CallOK(shelf', lib, edits', upload', c)
    BY <1>0, <2>1, <2>2, <2>4, <2>5, AlikeSelf, CallKept
  <2> QED  BY <2>2, <2>6
<1>6. OneCount(requests')
  BY <1>1, <1>3, <1>5 DEF OneCount, ShelfInv
<1>7. TypeInv'
  BY <1>0, <1>1, <1>3 DEF TypeInv, ShelfInv
<1>8. CountsFine(shelf', lib', edits', upload', requests')
  <2>1. n \in requests' /\ n.kind \in CountKinds /\ Current(shelf', n)
    BY <1>1, <1>2, <1>3 DEF CountKinds, Current, LoadCalls, MoreCalls, SearchCalls
  <2> QED  BY <2>1 DEF CountsFine
<1>9. OneDialog(edits') /\ \A d \in edits' : EditOK(lib', given', d)
  BY DEF OneDialog, ShelfInv
<1>10. IdsNew(lib', upload', given')
  BY DEF ShelfInv
<1> QED  BY <1>1, <1>4, <1>5, <1>6, <1>7, <1>8, <1>9, <1>10 DEF ShelfInv

(* New books in both pages, a new count, and the overlapped books noted. *)
Edited(sh, t, bl, bf) ==
    /\ IsShelf(t) /\ t.sum = sh.sum + 1 /\ t.load = sh.load /\ t.search = sh.search
    /\ t.auth = sh.auth /\ SameSelection(sh, t) /\ t.late = sh.late /\ t.loadTimer = sh.loadTimer
    /\ t.loading = sh.loading /\ t.searching = sh.searching /\ t.summary = sh.summary
    /\ t.list.books = bl /\ t.list.known = sh.list.known /\ t.list.of = sh.list.of
    /\ t.found.books = bf /\ t.found.known = sh.found.known /\ t.found.of = sh.found.of

(* What the answers of deletes and batches have in common: new counts are asked for. *)
LEMMA EditedStep ==
    ASSUME ShelfInv, NEW e \in edits, edits' = edits \ {e}, lib' = lib, upload' = upload, given' = given,
           NEW bl, NEW bf, Edited(shelf, shelf', bl, bf),
           shelf.touched \cup Overlapped(e.ids, {"page", "more", "search", "status"}) \subseteq shelf'.touched,
           \A k \in bl : \E j \in shelf.list.books : Fine(shelf, lib, edits, j) => Fine(shelf', lib, edits', k),
           \A k \in bf : \E j \in shelf.found.books : Fine(shelf, lib, edits, j) => Fine(shelf', lib, edits', k),
           shelf.progress = {} => shelf'.progress = {}, NEW q,
           requests' = requests \cup {NewRequest(lib, "summary", shelf', q, {})}
    PROVE  ShelfInv'
<1>0. BooksFine(shelf, lib, edits) /\ Matches(shelf) /\ Emptied(shelf)
  BY DEF ShelfInv
<1>1. BooksFine(shelf', lib, edits')
  BY <1>0 DEF BooksFine, Edited
<1>2. Matches(shelf')
  BY <1>0 DEF Matches, Edited, SameSelection
<1>3. Emptied(shelf')
  BY <1>0 DEF Emptied, Edited
<1>4. /\ IsShelf(shelf') /\ shelf'.sum = shelf.sum + 1 /\ shelf'.load = shelf.load /\ shelf'.search = shelf.search
      /\ shelf'.auth = shelf.auth /\ SameSelection(shelf, shelf') /\ shelf'.late = shelf.late
      /\ shelf'.loadTimer = shelf.loadTimer
  BY DEF Edited
<1> QED  BY <1>1, <1>2, <1>3, <1>4, RecountStep

(* Deleted books are no longer shown. *)
LEMMA DeleteAnswersStep ==
    ASSUME ShelfInv, NEW e \in edits, DeleteAnswers(e),
           edits' = edits \ {e}, lib' = lib, upload' = upload, given' = given
    PROVE  ShelfInv'
<1>0. IsShelf(shelf) /\ IsPage(shelf.list) /\ IsPage(shelf.found) /\ shelf.sum \in Nat
  BY DEF ShelfInv, TypeInv, IsShelf
<1> DEFINE over == Overlapped(e.ids, {"page", "more", "search", "status"})
           bl == Without(shelf.list.books, e.ids)
           bf == Without(shelf.found.books, e.ids)
           list == [shelf.list EXCEPT !.books = bl]
           found == [shelf.found EXCEPT !.books = bf]
           progress == shelf.progress \ e.ids
           sum == shelf.sum + 1
           touched == shelf.touched \cup over
           q == Ask(NoWord, 0)
<1>1. /\ shelf' = [shelf EXCEPT !.list.books = Without(@, e.ids), !.found.books = Without(@, e.ids),
                                !.progress = @ \ e.ids, !.sum = @ + 1, !.touched = @ \cup over]
      /\ requests' = requests \cup {NewRequest(lib, "summary", shelf', q, {})}
  BY Zenon DEF DeleteAnswers
<1>2. shelf' = [shelf EXCEPT !.list = list, !.found = found, !.progress = progress, !.sum = sum, !.touched = touched]
  <2> HIDE DEF over
  <2> QED  BY <1>0, <1>1 DEF IsShelf
<1>3. bl \subseteq Cards /\ bf \subseteq Cards
  BY <1>0 DEF IsPage, Without
<1>30. sum \in Nat
  BY <1>0
<1>4. (\A k \in bl : k \in shelf.list.books /\ k.id \notin e.ids) /\ (\A k \in bf : k \in shelf.found.books /\ k.id \notin e.ids)
  BY DEF Without
<1> HIDE DEF bl, bf
<1>5. /\ IsPage(list) /\ list.books = bl /\ list.known = shelf.list.known /\ list.of = shelf.list.of
      /\ IsPage(found) /\ found.books = bf /\ found.known = shelf.found.known /\ found.of = shelf.found.of
  <2>1. IsPage(shelf.list) /\ IsPage(shelf.found)
    BY <1>0
  <2> QED  BY <1>3, <2>1, BooksChanged
<1> HIDE DEF list, found, progress, sum, touched, over, q
<1>6. /\ IsShelf(shelf') /\ shelf'.sum = sum /\ shelf'.load = shelf.load /\ shelf'.search = shelf.search
      /\ shelf'.auth = shelf.auth /\ SameSelection(shelf, shelf') /\ shelf'.late = shelf.late
      /\ shelf'.loadTimer = shelf.loadTimer /\ shelf'.touched = touched /\ shelf'.progress = progress
      /\ shelf'.list = list /\ shelf'.found = found /\ shelf'.loading = shelf.loading
      /\ shelf'.searching = shelf.searching /\ shelf'.summary = shelf.summary
  BY <1>0, <1>2, <1>30, <1>5 DEF IsShelf, SameSelection
<1>7. Edited(shelf, shelf', bl, bf)
  BY <1>5, <1>6 DEF Edited, sum
<1>8. shelf.touched \cup Overlapped(e.ids, {"page", "more", "search", "status"}) \subseteq shelf'.touched
  BY <1>6 DEF touched, over
<1>9. \A k : Fine(shelf, lib, edits, k) /\ k.id \notin e.ids => Fine(shelf', lib, edits', k)
  BY <1>8, FineWithout
<1>10. shelf.progress = {} => shelf'.progress = {}
  BY <1>6 DEF progress
<1>11. /\ \A k \in bl : \E j \in shelf.list.books : Fine(shelf, lib, edits, j) => Fine(shelf', lib, edits', k)
       /\ \A k \in bf : \E j \in shelf.found.books : Fine(shelf, lib, edits, j) => Fine(shelf', lib, edits', k)
  BY <1>4, <1>9
<1> QED  BY <1>1, <1>7, <1>8, <1>10, <1>11, EditedStep

(* Cards of a batch are shown as the server returned them. *)
LEMMA CategoryAnswersStep ==
    ASSUME ShelfInv, NEW e \in edits, e.served, CategoryAnswers(e),
           edits' = edits \ {e}, lib' = lib, upload' = upload, given' = given
    PROVE  ShelfInv'
<1>0. /\ IsShelf(shelf) /\ IsPage(shelf.list) /\ IsPage(shelf.found) /\ shelf.sum \in Nat
      /\ IsEdit(e) /\ EditOK(lib, given, e)
  BY DEF ShelfInv, TypeInv, IsShelf
<1> DEFINE over == Overlapped(e.ids, {"page", "more", "search", "status"})
           bl == Replace(shelf.list.books, e.after)
           bf == Replace(shelf.found.books, e.after)
           list == [shelf.list EXCEPT !.books = bl]
           found == [shelf.found EXCEPT !.books = bf]
           sum == shelf.sum + 1
           touched == shelf.touched \cup over
           q == Ask(NoWord, 0)
<1>1. /\ e.kind = "category"
      /\ shelf' = [shelf EXCEPT !.list.books = Replace(@, e.after), !.found.books = Replace(@, e.after),
                                !.sum = @ + 1, !.touched = @ \cup over]
      /\ requests' = requests \cup {NewRequest(lib, "summary", shelf', q, {})}
  BY DEF CategoryAnswers
<1>2. shelf' = [shelf EXCEPT !.list = list, !.found = found, !.sum = sum, !.touched = touched]
  <2> HIDE DEF over
  <2> QED  BY <1>0, <1>1 DEF IsShelf
<1>3. bl \subseteq Cards /\ bf \subseteq Cards
  BY <1>0, ReplaceMembers DEF IsPage, IsEdit
<1>30. sum \in Nat
  BY <1>0
<1>4. Ids(e.after) = e.ids /\ ~Removes(e) /\ \A k \in e.after : k.id \in e.ids /\ k.cat = e.to
  BY <1>0, <1>1 DEF EditOK, Removes, Ids
<1>40. /\ \A k \in bl : (k \in shelf.list.books /\ k.id \notin e.ids) \/ (k \in e.after /\ k.id \in Ids(shelf.list.books))
       /\ \A k \in bf : (k \in shelf.found.books /\ k.id \notin e.ids) \/ (k \in e.after /\ k.id \in Ids(shelf.found.books))
  BY <1>4, ReplaceMembers
<1> HIDE DEF bl, bf
<1>5. /\ IsPage(list) /\ list.books = bl /\ list.known = shelf.list.known /\ list.of = shelf.list.of
      /\ IsPage(found) /\ found.books = bf /\ found.known = shelf.found.known /\ found.of = shelf.found.of
  <2>1. IsPage(shelf.list) /\ IsPage(shelf.found)
    BY <1>0
  <2> QED  BY <1>3, <2>1, BooksChanged
<1> HIDE DEF list, found, sum, touched, over, q
<1>6. /\ IsShelf(shelf') /\ shelf'.sum = sum /\ shelf'.load = shelf.load /\ shelf'.search = shelf.search
      /\ shelf'.auth = shelf.auth /\ SameSelection(shelf, shelf') /\ shelf'.late = shelf.late
      /\ shelf'.loadTimer = shelf.loadTimer /\ shelf'.touched = touched /\ shelf'.progress = shelf.progress
      /\ shelf'.list = list /\ shelf'.found = found /\ shelf'.loading = shelf.loading
      /\ shelf'.searching = shelf.searching /\ shelf'.summary = shelf.summary
  BY <1>0, <1>2, <1>30, <1>5 DEF IsShelf, SameSelection
<1>7. Edited(shelf, shelf', bl, bf)
  BY <1>5, <1>6 DEF Edited, sum
<1>8. shelf.touched \cup Overlapped(e.ids, {"page", "more", "search", "status"}) \subseteq shelf'.touched
  BY <1>6 DEF touched, over
<1>9. ASSUME NEW books, NEW k, (k \in books /\ k.id \notin e.ids) \/ (k \in e.after /\ k.id \in Ids(books))
      PROVE  \E j \in books : Fine(shelf, lib, edits, j) => Fine(shelf', lib, edits', k)
  <2>1. CASE k \in books /\ k.id \notin e.ids
    BY <2>1, <1>8, FineWithout
  <2>2. CASE k \in e.after /\ k.id \in Ids(books)
    <3>1. PICK j \in books : j.id = k.id
      BY <2>2 DEF Ids
    <3> QED  BY <2>2, <3>1, <1>0, <1>4, <1>8, FineRenamed
  <2> QED  BY <1>9, <2>1, <2>2
<1>10. /\ \A k \in bl : \E j \in shelf.list.books : Fine(shelf, lib, edits, j) => Fine(shelf', lib, edits', k)
       /\ \A k \in bf : \E j \in shelf.found.books : Fine(shelf, lib, edits, j) => Fine(shelf', lib, edits', k)
  BY <1>40, <1>9
<1>11. shelf.progress = {} => shelf'.progress = {}
  BY <1>6
<1> QED  BY <1>1, <1>7, <1>8, <1>10, <1>11, EditedStep

Unmoved(sh, t) ==
    /\ t.auth = sh.auth /\ t.load = sh.load /\ t.search = sh.search /\ t.sum = sh.sum
    /\ SameSelection(sh, t) /\ t.late = sh.late /\ t.list = sh.list /\ t.found = sh.found
    /\ t.summary = sh.summary /\ t.progress = sh.progress
    /\ t.loading = sh.loading /\ t.searching = sh.searching /\ t.loadTimer = sh.loadTimer

(* An edit that failed, or whose answer was lost. *)
LEMMA EditFailsStep ==
    ASSUME ShelfInv, NEW e \in edits, EditFails(e)
    PROVE  ShelfInv'
<1>0. /\ IsShelf(shelf) /\ lib \in Libraries /\ \A c \in requests : IsCall(c) /\ CallOK(shelf, lib, edits, upload, c)
      /\ shelf.load \in Nat /\ shelf.search \in Nat /\ shelf.sum \in Nat
  BY DEF ShelfInv, TypeInv, IsShelf
<1>1. /\ edits' = edits \ {e} /\ lib' = lib /\ requests' = requests /\ upload' = upload /\ given' = given
      /\ shelf' = IF e.served THEN [shelf EXCEPT !.touched = @ \cup e.ids, !.missed = TRUE] ELSE shelf
  BY DEF EditFails
<1>2. /\ IsShelf(shelf') /\ Unmoved(shelf, shelf')
      /\ (e.served => shelf'.missed /\ shelf.touched \cup e.ids \subseteq shelf'.touched)
      /\ (~e.served => shelf' = shelf)
  <2>1. CASE e.served
    <3> DEFINE touched == shelf.touched \cup e.ids
    <3>1. shelf' = [shelf EXCEPT !.touched = touched, !.missed = TRUE]
      BY <1>1, <2>1
    <3>2. shelf.touched \cup e.ids \subseteq touched
      OBVIOUS
    <3> HIDE DEF touched
    <3>3. IsShelf(shelf') /\ Unmoved(shelf, shelf') /\ shelf'.missed /\ shelf'.touched = touched
      BY <1>0, <3>1 DEF IsShelf, Unmoved, SameSelection
    <3> QED  BY <2>1, <3>2, <3>3
  <2>2. CASE ~e.served
    BY <1>0, <1>1, <2>2 DEF Unmoved, SameSelection
  <2> QED  BY <2>1, <2>2
<1>3. \A k : Fine(shelf, lib, edits, k) => Fine(shelf', lib, edits', k)
  <2>1. CASE e.served
    BY <1>1, <1>2, <2>1 DEF Fine
  <2>2. CASE ~e.served
    BY <1>1, <1>2, <2>2 DEF Fine
  <2> QED  BY <2>1, <2>2
<1>4. \/ shelf'.missed
      \/ shelf'.missed = shelf.missed /\ (Recount(shelf, edits, upload) => Recount(shelf', edits', upload'))
  BY <1>1, <1>2 DEF Recount
<1>5. ASSUME NEW c \in requests PROVE CallOK(shelf', lib, edits', upload', c)
  <2>1. (c.aborted => c.kind \in {"page", "more"}) /\ Onward(shelf, shelf') /\ SameSelection(shelf, shelf')
    BY <1>0, <1>2 DEF CallOK, Behind, Onward, Unmoved
  <2>2. shelf'.late = shelf.late /\ shelf'.filter = shelf.filter /\ shelf'.sort = shelf.sort
        /\ shelf'.loadTimer = shelf.loadTimer /\ shelf'.auth = shelf.auth
    BY <1>2 DEF Unmoved, SameSelection
  <2> QED  BY <1>0, <1>1, <1>2, <1>3, <1>4, <2>1, <2>2, AlikeSelf, CallKept
<1>6. TypeInv'
  BY <1>1, <1>2 DEF TypeInv, ShelfInv
<1>7. BooksFine(shelf', lib', edits')
  BY <1>1, <1>2, <1>3 DEF BooksFine, ShelfInv, Unmoved
<1>8. CountsFine(shelf', lib', edits', upload', requests')
  <2>1. \A c \in requests : c.kind \in CountKinds /\ Current(shelf, c) => Current(shelf', c)
    BY <1>2 DEF Current, Unmoved, CountKinds
  <2> QED  BY <1>1, <1>2, <1>4, <2>1 DEF CountsFine, ShelfInv, Unmoved
<1>9. Matches(shelf') /\ Emptied(shelf')
  BY <1>2 DEF Matches, Emptied, ShelfInv, Unmoved, SameSelection
<1>10. OneCount(requests') /\ OneDialog(edits') /\ IdsNew(lib', upload', given')
       /\ \A d \in edits' : EditOK(lib', given', d)
  BY <1>1 DEF OneDialog, ShelfInv
<1> QED  BY <1>1, <1>5, <1>6, <1>7, <1>8, <1>9, <1>10 DEF ShelfInv

(* A rename: n is the shelf with the new name, the effects not yet run.  Only the *)
(* status polls survive; the first page is asked for again.                        *)
LEMMA RenamedStep ==
    ASSUME ShelfInv, NEW e \in edits, NEW n, IsShelf(n), n.auth = shelf.auth,
           n.load = shelf.load + 1, n.search = shelf.search + 1, n.sum = shelf.sum + 1,
           shelf.touched \cup Overlapped(e.ids, {"status"}) \subseteq n.touched,
           \A k \in n.found.books : Fine(n, lib, edits \ {e}, k),
           shelf' = Reselect(n), requests' = SelectionAborts(requests),
           edits' = edits \ {e}, lib' = lib, upload' = upload, given' = given
    PROVE  ShelfInv'
<1> DEFINE t == shelf'
<1>0. /\ IsShelf(shelf) /\ lib \in Libraries /\ \A c \in requests : IsCall(c) /\ CallOK(shelf, lib, edits, upload, c)
      /\ shelf.load \in Nat /\ shelf.search \in Nat /\ shelf.sum \in Nat
  BY DEF ShelfInv, TypeInv, IsShelf
<1>1. /\ IsShelf(t) /\ t.auth = n.auth /\ t.touched = n.touched
      /\ t.search > shelf.search /\ t.load > shelf.load /\ t.sum > shelf.sum
      /\ n.auth => /\ t.loadTimer /\ t.searching = (n.word # NoWord)
                   /\ t.found = IF n.word # NoWord THEN n.found ELSE NoPage
      /\ ~n.auth => /\ t.list = NoPage /\ t.found = NoPage /\ t.progress = {} /\ t.summary = NoSummary
  <2>1. CASE n.auth
    <3>1. /\ IsShelf(t) /\ t.auth /\ SameHistory(n, t) /\ t.load = n.load /\ t.sum = n.sum
          /\ t.search = n.search + 1 /\ t.loadTimer
          /\ t.searching = (n.word # NoWord)
          /\ t.found = IF n.word # NoWord THEN n.found ELSE NoPage
      BY <2>1, ReselectSignedIn, Zenon
    <3>2. t.search > shelf.search /\ t.load > shelf.load /\ t.sum > shelf.sum
      BY <3>1, <1>0
    <3>3. t.auth = TRUE /\ n.auth = TRUE
      BY <2>1, <3>1 DEF IsShelf
    <3> QED  BY <2>1, <3>1, <3>2, <3>3, Zenon DEF SameHistory
  <2>2. CASE ~n.auth
    BY <2>2, <1>0, ReselectSignedOut DEF SameHistory, IsShelf
  <2> QED  BY <2>1, <2>2
<1>2. \A k : Fine(n, lib, edits', k) => Fine(t, lib, edits', k)
  BY <1>1 DEF Fine
<1>3. ASSUME NEW d \in requests'
      PROVE  /\ IsCall(d) /\ CallOK(shelf', lib, edits', upload', d)
             /\ d.kind \in CountKinds => d \in requests
  <2> DEFINE K == LoadCalls \cup MoreCalls \cup SearchCalls
  <2>0. d \in AbortCalls(requests, K)
    BY DEF SelectionAborts
  <2>1. /\ IsCall(d)
        /\ \/ d \in requests /\ d.kind \notin K
           \/ /\ d.kind \in K /\ d.kind \in {"page", "more"} /\ d.aborted
              /\ \E c \in requests : Alike(c, d) /\ d.libs = c.libs
    <3> HIDE DEF K
    <3> QED  BY <2>0, <1>0, AbortMembers
  <2>2. PICK c \in requests : /\ Alike(c, d) /\ d.libs = c.libs
                              /\ (d = c /\ d.kind \notin K) \/ (d.kind \in {"page", "more"} /\ d.aborted)
    BY <2>1 DEF Alike
  <2>3. d.kind # "search" /\ (c.aborted => d.aborted) /\ (d.aborted => d.kind \in {"page", "more"})
    BY <2>2, <1>0 DEF SearchCalls, CallOK, Behind
  <2>4. IsCall(c) /\ CallOK(shelf, lib, edits, upload, c) /\ Behind(shelf, c)
    BY <1>0 DEF CallOK
  <2>5. d.sum # t.sum /\ t.load # shelf.load /\ Onward(shelf, t)
    BY <1>0, <1>1, <2>2, <2>4 DEF Behind, Alike, Onward, IsCall, IsShelf
  <2>6. Usable(t, d) => c.kind = "status"
    BY <1>0, <1>1, <2>2, <2>4 DEF Usable, Behind, Alike, IsCall, IsShelf
  <2>7. Usable(t, d) => \A m \in c.libs : \A k \in Listed(m) : Fine(shelf, lib, edits, k) => Fine(t, lib, edits', k)
    <3> DEFINE kinds == {"status"}
    <3>1. shelf.touched \cup Overlapped(e.ids, kinds) \subseteq shelf'.touched
      BY <1>1
    <3>2. Usable(t, d) => c.kind \in kinds
      BY <2>6
    <3> HIDE DEF kinds
    <3> QED  BY <1>0, <3>1, <3>2, FineOverlapped
  <2>8. CallOK(t, lib, edits', upload', d)
    <3>1. IsShelf(t) /\ IsShelf(shelf) /\ lib \in Libraries
      BY <1>0, <1>1
    <3>2. t.load > shelf.load /\ t.search > shelf.search /\ t.sum > shelf.sum
      BY <1>1
    <3>3. IsCall(d) /\ Alike(c, d) /\ d.libs \subseteq c.libs \cup {lib} /\ (c.libs = {} => d.libs = {})
      BY <2>1, <2>2
    <3> HIDE DEF t, K
    <3> QED  BY <2>3, <2>4, <2>5, <2>7, <3>1, <3>2, <3>3, CallKept
  <2> QED  BY <2>1, <2>2, <2>8 DEF CountKinds
<1>4. TypeInv'
  BY <1>1, <1>3 DEF TypeInv, ShelfInv
<1>5. OneCount(requests')
  BY <1>3 DEF OneCount, ShelfInv
<1>6. BooksFine(shelf', lib', edits') /\ CountsFine(shelf', lib', edits', upload', requests')
  <2>1. CASE n.auth
    <3>1. ASSUME NEW k \in t.found.books PROVE Fine(t, lib, edits', k)
      BY <2>1, <1>1, <1>2, NoPageIsPage
    <3> QED  BY <2>1, <3>1, <1>1 DEF BooksFine, CountsFine
  <2>2. CASE ~n.auth
    BY <2>2, <1>1, NoPageIsPage, NoSummaryTyped DEF BooksFine, CountsFine
  <2> QED  BY <2>1, <2>2
<1>7. Matches(shelf') /\ Emptied(shelf')
  <2>1. CASE n.auth
    <3>1. t.searching \/ ~t.found.known
      BY <2>1, <1>1, NoPageIsPage
    <3> QED  BY <2>1, <3>1, <1>1 DEF Matches, Emptied
  <2>2. CASE ~n.auth
    BY <2>2, <1>1, NoPageIsPage, NoSummaryTyped DEF Matches, Emptied
  <2> QED  BY <2>1, <2>2
<1>8. OneDialog(edits') /\ IdsNew(lib', upload', given') /\ \A d \in edits' : EditOK(lib', given', d)
  BY DEF OneDialog, ShelfInv
<1> QED  BY <1>3, <1>4, <1>5, <1>6, <1>7, <1>8 DEF ShelfInv

(* A renamed book has the new category. *)
LEMMA NamedMembers ==
    ASSUME NEW books \in SUBSET Cards, NEW e, IsEdit(e), NEW k \in Named(books, e)
    PROVE  /\ k \in Cards
           /\ \/ k \in books /\ k.id \notin e.ids
              \/ \E j \in books : k.id = j.id /\ k.id \in e.ids /\ k.cat = e.to
<1>1. PICK j \in books : k = IF j.id \in e.ids THEN [j EXCEPT !.cat = e.to] ELSE j
  BY DEF Named
<1>2. CASE j.id \in e.ids
  <2>1. e.to \in Labels /\ j \in Cards
    BY DEF IsEdit
  <2>2. k = [j EXCEPT !.cat = e.to]
    BY <1>1, <1>2
  <2>3. k \in Cards /\ k.id = j.id /\ k.cat = e.to
    BY <2>1, <2>2 DEF Cards
  <2> QED  BY <1>2, <2>3
<1>3. CASE j.id \notin e.ids
  BY <1>1, <1>3
<1> QED  BY <1>2, <1>3

(* A rename overtakes every page and count under way and sets the timer. *)
LEMMA RenameAnswersStep ==
    ASSUME ShelfInv, NEW e \in edits, e.served, RenameAnswers(e),
           edits' = edits \ {e}, lib' = lib, upload' = upload, given' = given
    PROVE  ShelfInv'
<1>0. /\ IsShelf(shelf) /\ IsPage(shelf.list) /\ IsPage(shelf.found)
      /\ shelf.load \in Nat /\ shelf.search \in Nat /\ shelf.sum \in Nat
      /\ shelf.summary \in [known : BOOLEAN, counts : {shelf.summary.counts}]
      /\ IsEdit(e) /\ EditOK(lib, given, e)
  BY DEF ShelfInv, TypeInv, IsShelf
<1> DEFINE over == Overlapped(e.ids, {"status"})
           bl == Named(shelf.list.books, e)
           bf == Named(shelf.found.books, e)
           list == [shelf.list EXCEPT !.books = bl]
           found == [shelf.found EXCEPT !.books = bf]
           load == shelf.load + 1
           search == shelf.search + 1
           sum == shelf.sum + 1
           counts == IF shelf.summary.known THEN MovedCounts(shelf.summary.counts, e) ELSE shelf.summary.counts
           summary == [shelf.summary EXCEPT !.counts = counts]
           filter == IF e.by.filter # e.from THEN shelf.filter ELSE IF e.to = NoCategory THEN "all" ELSE e.to
           touched == shelf.touched \cup over
           n == [shelf EXCEPT !.load = load, !.search = search, !.sum = sum, !.list = list, !.found = found,
                              !.summary = summary, !.filter = filter, !.touched = touched]
<1>1. /\ e.kind = "rename" /\ requests' = SelectionAborts(requests)
      /\ shelf' = Reselect([shelf EXCEPT
           !.load = @ + 1, !.search = @ + 1, !.sum = @ + 1,
           !.list.books = Named(@, e), !.found.books = Named(@, e),
           !.summary.counts = IF shelf.summary.known THEN MovedCounts(@, e) ELSE @,
           !.filter = IF e.by.filter # e.from THEN @ ELSE IF e.to = NoCategory THEN "all" ELSE e.to,
           !.touched = @ \cup over])
  BY Zenon DEF RenameAnswers
<1>2. [shelf EXCEPT
           !.load = @ + 1, !.search = @ + 1, !.sum = @ + 1,
           !.list.books = Named(@, e), !.found.books = Named(@, e),
           !.summary.counts = IF shelf.summary.known THEN MovedCounts(@, e) ELSE @,
           !.filter = IF e.by.filter # e.from THEN @ ELSE IF e.to = NoCategory THEN "all" ELSE e.to,
           !.touched = @ \cup over] = n
  <2> HIDE DEF over
  <2> QED  BY <1>0 DEF IsShelf
<1>3. shelf' = Reselect(n)
  BY <1>1, <1>2, Zenon
<1>4. bl \subseteq Cards /\ bf \subseteq Cards
  BY <1>0, NamedMembers DEF IsPage
<1>5. \A k \in bf : \/ k \in shelf.found.books /\ k.id \notin e.ids
                    \/ \E j \in shelf.found.books : k.id = j.id /\ k.id \in e.ids /\ k.cat = e.to
  BY <1>0, NamedMembers DEF IsPage
<1>6. load \in Nat /\ search \in Nat /\ sum \in Nat
  BY <1>0
<1> HIDE DEF bl, bf, counts
<1>7. IsPage(list) /\ IsPage(found) /\ found.books = bf
  <2>1. IsPage(shelf.list) /\ IsPage(shelf.found)
    BY <1>0
  <2> QED  BY <1>4, <2>1, BooksChanged
<1>8. summary \in [known : BOOLEAN, counts : {summary.counts}]
  BY <1>0
<1> HIDE DEF list, found, summary, filter, touched, over, load, search, sum
<1>9. /\ IsShelf(n) /\ n.auth = shelf.auth /\ n.load = load /\ n.search = search /\ n.sum = sum
      /\ n.found = found /\ n.touched = touched
  BY <1>0, <1>6, <1>7, <1>8 DEF IsShelf
<1> HIDE DEF n
<1>10. shelf.touched \subseteq n.touched /\ over \subseteq n.touched
  BY <1>9 DEF touched
<1>11. ASSUME NEW k \in n.found.books PROVE Fine(n, lib, edits \ {e}, k)
  <2>1. BooksFine(shelf, lib, edits)
    BY DEF ShelfInv
  <2>2. CASE k \in shelf.found.books /\ k.id \notin e.ids
    BY <1>10, <2>1, <2>2 DEF BooksFine, Fine
  <2>3. CASE \E j \in shelf.found.books : k.id = j.id /\ k.id \in e.ids /\ k.cat = e.to
    <3>1. PICK j \in shelf.found.books : k.id = j.id /\ k.id \in e.ids /\ k.cat = e.to
      BY <2>3
    <3>2. Fine(shelf, lib, edits, j)
      BY <2>1 DEF BooksFine
    <3>3. ~Removes(e)
      BY <1>1 DEF Removes
    <3>4. CASE k.id \in DOMAIN lib
      BY <1>0, <3>1, <3>3, <3>4 DEF Fine, EditOK
    <3>5. CASE k.id \notin DOMAIN lib
      BY <1>10, <3>1, <3>2, <3>3, <3>5 DEF Fine
    <3> QED  BY <3>4, <3>5
  <2> QED  BY <1>5, <1>7, <1>9, <2>2, <2>3
<1>12. n.load = shelf.load + 1 /\ n.search = shelf.search + 1 /\ n.sum = shelf.sum + 1
  BY <1>9 DEF load, search, sum
<1>13. shelf.touched \cup Overlapped(e.ids, {"status"}) \subseteq n.touched
  BY <1>10 DEF over
<1> QED  BY <1>1, <1>3, <1>9, <1>11, <1>12, <1>13, RenamedStep

(* One book's category: the shelf loads again; search results are noted as touched. *)
LEMMA SingleAnswersStep ==
    ASSUME ShelfInv, NEW e \in edits, EditAnswers(e), SingleAnswers(e)
    PROVE  ShelfInv'
<1>00. edits' = edits \ {e} /\ lib' = lib /\ upload' = upload /\ given' = given
  BY DEF EditAnswers
<1>0. IsShelf(shelf) /\ lib \in Libraries /\ \A c \in requests : IsCall(c)
  BY DEF ShelfInv, TypeInv
<1> DEFINE by == e.by
           s == LoadBooksTo(shelf, by)
           over == Overlapped(e.ids, {"search", "status"})
           touched == (s.touched \cup (e.ids \cap Ids(shelf.found.books))) \cup over
           t == [s EXCEPT !.touched = touched]
<1>1. shelf' = t /\ requests' = LoadBooksCalls(requests, lib, shelf', by)
  BY Zenon DEF SingleAnswers
<1>2. /\ IsShelf(s) /\ s.auth = shelf.auth /\ SameSelection(shelf, s)
      /\ s.load = shelf.load + 1 /\ s.sum = shelf.sum + 1 /\ s.search = shelf.search
      /\ s.list.books = shelf.list.books /\ s.found = shelf.found
      /\ s.summary = shelf.summary /\ s.progress = {} /\ s.searching = shelf.searching
      /\ s.loading /\ s.touched = shelf.touched
      /\ (~s.late => by = [filter |-> shelf.filter, sort |-> shelf.sort])
  BY <1>0, LoadBooksFields
<1> HIDE DEF s, by
<1>3. shelf.touched \subseteq touched /\ e.ids \cap Ids(shelf.found.books) \subseteq touched /\ over \subseteq touched
  BY <1>2
<1> HIDE DEF touched, over
<1>4. /\ IsShelf(t) /\ t.auth = s.auth /\ SameSelection(s, t) /\ t.load = s.load /\ t.sum = s.sum
      /\ t.search = s.search /\ t.list = s.list /\ t.found = s.found /\ t.summary = s.summary
      /\ t.progress = s.progress /\ t.searching = s.searching /\ t.loading = s.loading
      /\ t.touched = touched /\ t.late = s.late
  BY <1>2 DEF IsShelf, SameSelection
<1> HIDE DEF t
<1>5. /\ IsShelf(shelf') /\ shelf'.auth = shelf.auth /\ SameSelection(shelf, shelf')
      /\ shelf'.load = shelf.load + 1 /\ shelf'.sum = shelf.sum + 1 /\ shelf'.search = shelf.search
      /\ shelf'.list.books = shelf.list.books /\ shelf'.found = shelf.found
      /\ shelf'.summary = shelf.summary /\ shelf'.progress = {} /\ shelf'.searching = shelf.searching
      /\ shelf'.loading
  BY <1>1, <1>2, <1>4 DEF SameSelection
<1>6. ~shelf'.late => by.filter = shelf.filter /\ by.sort = shelf.sort
  BY <1>1, <1>2, <1>4
<1>7. shelf'.touched = touched
  BY <1>1, <1>4
<1>8. \A c \in requests : c.kind \in {"search", "status"} =>
         \A m \in c.libs : \A k \in Listed(m) : Fine(shelf, lib, edits, k) => Fine(shelf', lib', edits', k)
  <2> DEFINE kinds == {"search", "status"}
  <2>1. shelf.touched \cup Overlapped(e.ids, kinds) \subseteq shelf'.touched
    BY <1>3, <1>7 DEF over
  <2> HIDE DEF kinds
  <2>2. \A c \in requests : c.kind \in kinds =>
         \A m \in c.libs : \A k \in Listed(m) : Fine(shelf, lib, edits, k) => Fine(shelf', lib, edits \ {e}, k)
    BY <1>0, <2>1, FineOverlapped
  <2> QED  BY <1>00, <2>2 DEF kinds
<1>9. \A k \in shelf.found.books : Fine(shelf, lib, edits, k) => Fine(shelf', lib', edits', k)
  <2> SUFFICES ASSUME NEW k \in shelf.found.books, Fine(shelf, lib, edits, k) PROVE Fine(shelf', lib, edits \ {e}, k)
    BY <1>00
  <2>1. CASE k.id \in e.ids
    <3>1. k.id \in Ids(shelf.found.books)
      BY DEF Ids
    <3> QED  BY <1>3, <1>7, <2>1, <3>1 DEF Fine
  <2>2. CASE k.id \notin e.ids
    BY <1>3, <1>7, <2>2, FineWithout
  <2> QED  BY <2>1, <2>2
<1>10. \A d \in requests :
          IsCall(d) /\ \E c \in requests : /\ Alike(c, d) /\ d.aborted = c.aborted
                                           /\ d.libs \subseteq c.libs \cup {lib'}
                                           /\ c.libs = {} => d.libs = {}
  BY <1>0, AlikeSelf
<1>11. /\ OneDialog(edits') /\ IdsNew(lib', upload', given') /\ IsUpload(upload') /\ given' \subseteq BookIds
       /\ \A d \in edits' : IsEdit(d) /\ EditOK(lib', given', d)
       /\ OneCount(requests) /\ lib' \in Libraries /\ requests' = LoadBooksCalls(requests, lib', shelf', by)
  BY <1>00, <1>0, <1>1 DEF OneDialog, ShelfInv, TypeInv
<1> QED  BY <1>5, <1>6, <1>8, <1>9, <1>10, <1>11, Reloaded

(* The answers to edits, one kind at a time. *)
LEMMA EditAnswersStep ==
    ASSUME ShelfInv, NEW e \in edits, EditAnswers(e)
    PROVE  ShelfInv'
<1>1. e.served /\ edits' = edits \ {e} /\ lib' = lib /\ upload' = upload /\ given' = given
  BY DEF EditAnswers
<1>2. DeleteAnswers(e) \/ CategoryAnswers(e) \/ RenameAnswers(e) \/ SingleAnswers(e)
  BY DEF EditAnswers
<1> QED  BY <1>1, <1>2, DeleteAnswersStep, CategoryAnswersStep, RenameAnswersStep, SingleAnswersStep
-----------------------------------------------------------------------------
(* At first nothing is shown and nothing is under way. *)
LEMMA InitShelfInv == ShelfInit => ShelfInv
<1> SUFFICES ASSUME ShelfInit PROVE ShelfInv
  OBVIOUS
<1>1. /\ lib \in [OldBooks -> [cat : Categories, pending : {FALSE}]]
      /\ requests = {} /\ edits = {} /\ upload = NoUpload /\ given = OldBooks
  BY DEF ShelfInit
<1> DEFINE p == NoPage
           s == NoSummary
<1>2. IsPage(p) /\ p.books = {} /\ ~p.known /\ s \in [known : BOOLEAN, counts : {s.counts}] /\ ~s.known
  BY NoPageIsPage, NoSummaryTyped
<1>3. shelf = [auth |-> TRUE, filter |-> "all", sort |-> "title", word |-> NoWord,
               list |-> p, found |-> p, summary |-> s, progress |-> {},
               loading |-> TRUE, more |-> FALSE, searching |-> FALSE, failed |-> FALSE,
               load |-> 0, search |-> 0, sum |-> 0, loadTimer |-> TRUE, searchTimer |-> FALSE,
               late |-> FALSE, touched |-> {}, missed |-> FALSE]
  BY DEF ShelfInit
<1> HIDE DEF p, s
<1>4. IsShelf(shelf) /\ shelf.auth /\ shelf.list = p /\ shelf.found = p /\ shelf.summary = s /\ shelf.loading
  BY <1>2, <1>3 DEF IsShelf
<1>5. lib \in Libraries /\ DOMAIN lib = OldBooks
  <2>1. lib \in [OldBooks -> [cat : Labels, pending : BOOLEAN]] /\ OldBooks \in SUBSET BookIds
    BY <1>1 DEF Labels, BookIds
  <2> QED  BY <2>1 DEF Libraries
<1>6. IsUpload(upload) /\ IdsNew(lib, upload, given)
  BY <1>1, <1>5 DEF NoUpload, IsUpload, IdsNew
<1>7. TypeInv
  BY <1>1, <1>4, <1>5, <1>6 DEF TypeInv, BookIds
<1>8. BooksFine(shelf, lib, edits) /\ CountsFine(shelf, lib, edits, upload, requests)
  BY <1>2, <1>4 DEF BooksFine, CountsFine
<1>9. Matches(shelf) /\ Emptied(shelf)
  BY <1>2, <1>4 DEF Matches, Emptied
<1> QED  BY <1>1, <1>6, <1>7, <1>8, <1>9 DEF ShelfInv, OneCount, OneDialog

(* The history of user events is no part of the invariant. *)
LEMMA ShelfStutters ==
    ASSUME ShelfInv, UNCHANGED homeVars
    PROVE  ShelfInv'
<1>1. lib' = lib /\ shelf' = shelf /\ requests' = requests /\ edits' = edits /\ upload' = upload /\ given' = given
  BY DEF homeVars
<1>2. TypeInv'
  BY <1>1 DEF TypeInv, ShelfInv
<1> QED  BY <1>1, <1>2 DEF ShelfInv

(* Every step of the shelf keeps the invariant. *)
LEMMA ShelfStep ==
    ASSUME ShelfInv, ShelfNext
    PROVE  ShelfInv'
<1>1. CASE \/ \E f \in Filters : SetSelectedCategoryId(f)
           \/ \E s \in Sorts : SetSortBy(s)
           \/ Logout \/ CategoryGone
  BY <1>1, SelectionSteps
<1>2. CASE \E w \in Words \cup {NoWord} : SetSearchQuery(w)
  BY <1>2, SearchQueryStep
<1>3. CASE LoadTimerFires \/ RetryPressed
  BY <1>3, ReloadStep
<1>4. CASE SearchTimerFires
  BY <1>4, SearchTimerStep
<1>5. CASE LoadMoreBooks
  BY <1>5, LoadMoreStep
<1>6. CASE RefreshProcessedBooks
  BY <1>6, RefreshStep
<1>7. CASE \E c \in requests : CallAnswers(c) \/ CallFails(c)
  BY <1>7, CallAnswersStep, CallFailsStep
<1>8. CASE \E b \in BookIds : BookProcessed(b)
  BY <1>8, ProcessedStep
<1>9. CASE \/ \E b \in BookIds : DeleteBook(b)
           \/ \E b \in BookIds, c \in Labels : SaveCategory(b, c)
           \/ DeleteMany
           \/ \E c \in Labels : UpdateCategoryMany(c)
           \/ \E c \in Categories, d \in Labels : RenameCategory(c, d)
  BY <1>9, EditSteps
<1>10. CASE \E e \in edits : ServeEdit(e) \/ EditAnswers(e) \/ EditFails(e)
  BY <1>10, ServeStep, EditAnswersStep, EditFailsStep
<1>11. CASE \E fs \in SUBSET NewBooks : UploadFiles(fs)
  BY <1>11, UploadFilesStep
<1>12. CASE \E b \in NewBooks, ok \in BOOLEAN : UploadSettles(b, ok)
  BY <1>12, UploadSettlesStep
<1> QED  BY <1>1, <1>2, <1>3, <1>4, <1>5, <1>6, <1>7, <1>8, <1>9, <1>10, <1>11, <1>12, Zenon DEF ShelfNext

(* The invariant says what the shelf promises. *)
LEMMA ShelfInvSafe == ShelfInv => ShelfSafe
<1> SUFFICES ASSUME ShelfInv PROVE ShelfSafe
  OBVIOUS
<1>1. IsShelf(shelf) /\ IsUpload(upload)
  BY DEF ShelfInv, TypeInv
<1>2. ShownMatchesSelection
  <2> DEFINE sel == [filter |-> shelf.filter, sort |-> shelf.sort, word |-> NoWord]
  <2>1. [sel EXCEPT !.word = shelf.word] = [filter |-> shelf.filter, sort |-> shelf.sort, word |-> shelf.word]
    OBVIOUS
  <2> QED  BY <2>1, Zenon DEF ShownMatchesSelection, ShelfInv, Matches
<1>3. NothingAfterLogout
  BY DEF NothingAfterLogout, ShelfInv, Emptied
<1>4. ShownIsCurrent
  BY DEF ShownIsCurrent, ShelfInv, BooksFine, Fine
<1>5. CountsAreCurrent
  <2>1. CountsFine(shelf, lib, edits, upload, requests)
    BY DEF ShelfInv
  <2>2. ~upload.active => ~(upload.ok > 0)
    BY <1>1 DEF IsUpload
  <2> QED  BY <2>1, <2>2 DEF CountsAreCurrent, CountsFine, Recount, CountKinds
<1> QED  BY <1>2, <1>3, <1>4, <1>5 DEF ShelfSafe

(* ShelfSafe at any number of books, categories and requests in flight, while   *)
(* the progress hook does what it likes: what is shown is the selection of the  *)
(* library as it is, and answers, failures, edits, uploads and sign-out in any  *)
(* order keep it so (useShelfData.ts).                                          *)
THEOREM ShelfSafeAlways == HooksSpec => []ShelfSafe
<1>1. HooksInit => ShelfInv
  BY InitShelfInv DEF HooksInit
<1>2. ShelfInv /\ [HooksNext]_hooksVars => ShelfInv'
  BY ShelfStep, ShelfStutters DEF HooksNext, hooksVars
<1> QED  BY <1>1, <1>2, ShelfInvSafe, PTL DEF HooksSpec


(***************************************************************************)
(* Reading positions                                                       *)
(***************************************************************************)

Maybe == Snapshots \cup {NoSnapshot}

Readers ==
    [book : Books \cup {NoBook}, view : {"closed", "loading", "opening", "ready"},
     lastSaved : Maybe, pending : Positions \cup {NoPosition},
     saving : BOOLEAN, timer : Positions \cup {NoPosition}, applied : Nat,
     moving : Positions \cup {NoPosition}]

Unique(q) == \A i, j \in DOMAIN q : q[i] = q[j] => i = j

ReaderOK(r) ==
    /\ r \in Readers
    /\ r.view # "closed" => r.book \in Books
    /\ r.view = "closed" => /\ ~ r.saving /\ r.lastSaved = NoSnapshot /\ r.pending = NoPosition
                            /\ r.timer = NoPosition /\ r.moving = NoPosition

RequestOK(c) ==
    /\ c \in Requests
    /\ c.kind \in Posts => c.pos \in Positions
    /\ c.phase = "stamped" => c.kind \in Posts
    /\ c.phase = "saved" => c.snap \in Snapshots /\ c.snap.pos = c.pos
    /\ c.kind = "sync" => Unique(<<c.book>> \o c.todo)

CallsOK(cs) ==
    /\ cs \in [Slots -> Requests \cup {NoCall}]
    /\ \A s \in Slots : cs[s] = NoCall \/ RequestOK(cs[s])

Listens(c) == c # NoCall /\ c.owner = "reader"
Saves(c) == Listens(c) /\ c.kind \in {"save", "reload"}
Busy(cs) == \E s \in Slots : Saves(cs[s])

DeviceOK(r, cs, st, q) ==
    /\ ReaderOK(r) /\ CallsOK(cs)
    /\ r.view = "closed" => \A s \in Slots : ~ Listens(cs[s])
    /\ r.saving => Busy(cs)
    /\ st \in [Books -> Maybe]
    /\ q \in Seq(Books) /\ Unique(q)

SyncInv ==
    /\ now \in Nat /\ server \in [Books -> Maybe]
    /\ reader \in [Devices -> Readers]
    /\ calls \in [Devices -> [Slots -> Requests \cup {NoCall}]]
    /\ staged \in [Devices -> [Books -> Maybe]]
    /\ queue \in [Devices -> Seq(Books)]
    /\ \A d \in Devices : DeviceOK(reader[d], calls[d], staged[d], queue[d])

(* What a step may do to the position a reader still has to save. *)
Kept(r, n) ==
    (r.view = "ready" /\ n.view = "ready" /\ r.pending # NoPosition /\ n.pending = NoPosition)
        => n.lastSaved.pos = r.pending

-----------------------------------------------------------------------------
(* Slots and requests *)

LEMMA LeastIsThere ==
  ASSUME NEW I \in SUBSET Nat, I # {}
  PROVE  Min(I) \in I
  <1>1. PICK i \in I : \A j \in I : ~ (<<j, i>> \in OpToRel(<, Nat))
    BY NatLessThanWellFounded, WFMin
  <1>2. \A j \in I : ~ (j < i)
    BY <1>1 DEF OpToRel
  <1>3. \A j \in I : i <= j
    BY <1>2
  <1> QED BY <1>3 DEF Min

LEMMA FreeFinite ==
  ASSUME NEW cs
  PROVE  FreeSlots(cs) \subseteq Slots /\ IsFiniteSet(FreeSlots(cs)) /\ FreeSlots(cs) \in SUBSET Nat
  <1>1. IsFiniteSet(Slots) /\ Slots \subseteq Nat
    BY BoundAssumption, FS_Interval DEF Slots
  <1>2. FreeSlots(cs) \subseteq Slots
    BY DEF FreeSlots
  <1> QED BY <1>1, <1>2, FS_Subset

LEMMA FreeSlot ==
  ASSUME NEW cs, NEW n \in Nat \ {0}, HasRoom(cs, n)
  PROVE  Min(FreeSlots(cs)) \in Slots /\ cs[Min(FreeSlots(cs))] = NoCall
  <1>1. FreeSlots(cs) # {}
    BY FreeFinite, FS_EmptySet DEF HasRoom
  <1>2. Min(FreeSlots(cs)) \in FreeSlots(cs)
    BY <1>1, FreeFinite, LeastIsThere
  <1> QED BY <1>2 DEF FreeSlots

(* A second request finds a slot if there were two. *)
LEMMA RoomLeft ==
  ASSUME NEW cs \in [Slots -> Requests \cup {NoCall}], HasRoom(cs, 2), NEW c \in Requests
  PROVE  HasRoom(Place(cs, c), 1)
  <1> DEFINE m == Min(FreeSlots(cs))
  <1>1. m \in Slots /\ cs[m] = NoCall
    BY FreeSlot
  <1> HIDE DEF m
  <1>2. FreeSlots(Place(cs, c)) = FreeSlots(cs) \ {m}
    BY <1>1, SentinelAssumption DEF FreeSlots, Place, m
  <1>3. Cardinality(FreeSlots(cs) \ {m}) = Cardinality(FreeSlots(cs)) - 1
    BY <1>1, FreeFinite, FS_RemoveElement DEF FreeSlots
  <1>4. Cardinality(FreeSlots(cs)) \in Nat /\ Cardinality(FreeSlots(cs)) >= 2
    BY FreeFinite, FS_CardinalityType DEF HasRoom
  <1> QED BY <1>2, <1>3, <1>4 DEF HasRoom

LEMMA NewRow ==
  ASSUME NEW kind \in Gets \cup Posts, NEW b \in Books, NEW pos \in Positions \cup {NoPosition},
         kind \in Posts => pos \in Positions, NEW expected \in Nat
  PROVE  /\ RequestOK(NewCall(kind, b, pos, expected))
         /\ NewCall(kind, b, pos, expected).kind = kind
         /\ NewCall(kind, b, pos, expected).pos = pos
         /\ kind # "unload" => NewCall(kind, b, pos, expected).owner = "reader"
  <1> DEFINE owner == IF kind = "unload" THEN "gone" ELSE "reader"
             c == NewCall(kind, b, pos, expected)
  <1>1. owner \in {"reader", "left", "gone"} /\ (kind # "unload" => owner = "reader")
    OBVIOUS
  <1>2. c = [kind |-> kind, owner |-> owner, book |-> b, phase |-> "sent", pos |-> pos,
             expected |-> expected, snap |-> NoSnapshot, stamp |-> 0, todo |-> <<>>]
    BY DEF NewCall
  <1> HIDE DEF owner, c
  <1>3. /\ c \in Requests /\ c.kind = kind /\ c.pos = pos /\ c.owner = owner /\ c.phase = "sent"
        /\ c.book = b /\ c.todo = <<>>
    BY <1>1, <1>2 DEF Requests
  <1>4. Unique(<<c.book>> \o c.todo)
    BY <1>3 DEF Unique
  <1> QED BY <1>1, <1>3, <1>4 DEF RequestOK, c

LEMMA RequestPlaced ==
  ASSUME NEW r, NEW cs, NEW st, NEW q, DeviceOK(r, cs, st, q), HasRoom(cs, 1), NEW c, RequestOK(c),
         Listens(c) => r.view # "closed"
  PROVE  DeviceOK(r, Place(cs, c), st, q) /\ (Saves(c) => Busy(Place(cs, c)))
  <1> DEFINE m == Min(FreeSlots(cs))
             ps == Place(cs, c)
  <1>1. m \in Slots /\ cs[m] = NoCall
    BY FreeSlot
  <1>2. ps = [cs EXCEPT ![m] = c]
    BY DEF Place
  <1> HIDE DEF m, ps
  <1>3. c \in Requests /\ c # NoCall
    BY SentinelAssumption DEF RequestOK
  <1>4. ps \in [Slots -> Requests \cup {NoCall}] /\ ps[m] = c /\ \A s \in Slots : s # m => ps[s] = cs[s]
    BY <1>1, <1>2, <1>3 DEF DeviceOK, CallsOK
  <1>5. CallsOK(ps)
    BY <1>3, <1>4 DEF DeviceOK, CallsOK
  <1>6. Busy(cs) => Busy(ps)
    BY <1>1, <1>4 DEF Busy, Saves, Listens
  <1>7. Saves(c) => Busy(ps)
    BY <1>1, <1>4 DEF Busy
  <1>8. r.view = "closed" => \A s \in Slots : ~ Listens(ps[s])
    BY <1>4 DEF DeviceOK
  <1> QED BY <1>5, <1>6, <1>7, <1>8 DEF DeviceOK, ps

LEMMA NothingPlaced ==
  ASSUME NEW cs \in [Slots -> Requests \cup {NoCall}], HasRoom(cs, 1)
  PROVE  Place(cs, NoCall) = cs
  BY FreeSlot DEF Place

(* A request that goes on, or ends. *)
LEMMA RequestMoved ==
  ASSUME NEW r, NEW cs, NEW st, NEW q, DeviceOK(r, cs, st, q), NEW s \in Slots,
         NEW x, x = NoCall \/ RequestOK(x),
         Listens(x) => Listens(cs[s]), r.saving /\ Saves(cs[s]) => Saves(x)
  PROVE  DeviceOK(r, [cs EXCEPT ![s] = x], st, q)
  <1> DEFINE ps == [cs EXCEPT ![s] = x]
  <1>1. x \in Requests \cup {NoCall}
    BY DEF RequestOK
  <1>2. ps \in [Slots -> Requests \cup {NoCall}] /\ ps[s] = x /\ \A u \in Slots : u # s => ps[u] = cs[u]
    BY <1>1 DEF DeviceOK, CallsOK
  <1> HIDE DEF ps
  <1>3. CallsOK(ps)
    BY <1>2 DEF DeviceOK, CallsOK
  <1>4. r.saving => Busy(ps)
    BY <1>2 DEF Busy, DeviceOK
  <1>5. r.view = "closed" => \A u \in Slots : ~ Listens(ps[u])
    BY <1>2 DEF DeviceOK
  <1> QED BY <1>3, <1>4, <1>5 DEF DeviceOK, ps

LEMMA TimeIsNat ==
  ASSUME NEW snap \in Maybe
  PROVE  TimeOf(snap) \in Nat
  BY DEF Maybe, TimeOf, Snapshots

-----------------------------------------------------------------------------
(* The sync queue *)

LEMMA QueueRest ==
  ASSUME NEW todo \in Seq(Books), Unique(todo), NEW i \in DOMAIN todo
  PROVE  /\ todo[i] \in Books /\ SubSeq(todo, i + 1, Len(todo)) \in Seq(Books)
         /\ Unique(<<todo[i]>> \o SubSeq(todo, i + 1, Len(todo)))
  <1> DEFINE n == Len(todo)
             rest == SubSeq(todo, i + 1, n)
             all == <<todo[i]>> \o rest
  <1>1. n \in Nat /\ i \in 1 .. n /\ todo[i] \in Books
    OBVIOUS
  <1>2. rest \in Seq(Books) /\ Len(rest) = n - i /\ \A k \in 1 .. n - i : rest[k] = todo[i + k]
    BY <1>1
  <1> HIDE DEF rest
  <1>3. DOMAIN all = 1 .. n - i + 1 /\ all[1] = todo[i] /\ \A k \in 2 .. n - i + 1 : all[k] = rest[k - 1]
    BY <1>1, <1>2
  <1>4. \A k \in 1 .. n - i + 1 : all[k] = todo[i + k - 1] /\ i + k - 1 \in DOMAIN todo
    <2> SUFFICES ASSUME NEW k \in 1 .. n - i + 1
        PROVE  all[k] = todo[i + k - 1] /\ i + k - 1 \in DOMAIN todo
      OBVIOUS
    <2>1. CASE k = 1
      BY <1>1, <1>3, <2>1
    <2>2. CASE k # 1
      <3>1. k - 1 \in 1 .. n - i /\ k \in 2 .. n - i + 1
        BY <1>1, <2>2
      <3>2. rest[k - 1] = todo[i + (k - 1)]
        BY <1>2, <3>1
      <3> QED BY <1>1, <1>3, <3>1, <3>2
    <2> QED BY <2>1, <2>2
  <1> HIDE DEF all
  <1>5. Unique(all)
    <2> SUFFICES ASSUME NEW j \in 1 .. n - i + 1, NEW k \in 1 .. n - i + 1, all[j] = all[k]
        PROVE  j = k
      BY <1>3 DEF Unique
    <2>1. i + j - 1 = i + k - 1
      BY <1>4 DEF Unique
    <2> QED BY <1>1, <2>1
  <1> QED BY <1>1, <1>2, <1>5 DEF all, rest

LEMMA SyncStepOK ==
  ASSUME NEW q \in Seq(Books), Unique(q), NEW todo \in Seq(Books), Unique(todo), NEW store \in [Books -> Maybe]
  PROVE  /\ SyncStep(q, todo, store).queue \in Seq(Books) /\ Unique(SyncStep(q, todo, store).queue)
         /\ \/ SyncStep(q, todo, store).call = NoCall
            \/ /\ RequestOK(SyncStep(q, todo, store).call)
               /\ SyncStep(q, todo, store).call.kind = "sync"
  <1> DEFINE live == {i \in DOMAIN todo : store[todo[i]] # NoSnapshot}
             i == Min(live)
             new == NewCall("sync", todo[i], store[todo[i]].pos, 0)
             rest == SubSeq(todo, i + 1, Len(todo))
             c == [new EXCEPT !.todo = rest]
  <1>1. CASE live = {}
    <2>1. SyncStep(q, todo, store) = [call |-> NoCall, queue |-> <<>>]
      BY <1>1 DEF SyncStep
    <2>2. <<>> \in Seq(Books) /\ Unique(<<>>)
      BY DEF Unique
    <2> QED BY <2>1, <2>2
  <1>2. CASE live # {}
    <2>1. SyncStep(q, todo, store) = [call |-> c, queue |-> q]
      BY <1>2 DEF SyncStep
    <2>2. live \in SUBSET Nat
      OBVIOUS
    <2>3. i \in live
      BY <1>2, <2>2, LeastIsThere
    <2>4. i \in DOMAIN todo /\ store[todo[i]] # NoSnapshot
      BY <2>3
    <2> HIDE DEF i
    <2>5. todo[i] \in Books /\ rest \in Seq(Books) /\ Unique(<<todo[i]>> \o rest)
      BY <2>4, QueueRest
    <2>6. store[todo[i]] \in Snapshots
      BY <2>4, <2>5 DEF Maybe
    <2>7. store[todo[i]].pos \in Positions
      BY <2>6 DEF Snapshots
    <2>8. RequestOK(new) /\ new.kind = "sync" /\ new.book = todo[i] /\ new.phase = "sent"
      <3>0. "sync" \in Gets \cup Posts /\ 0 \in Nat
        BY DEF Posts
      <3> DEFINE b == todo[i]
                 p == store[todo[i]].pos
      <3>a. b \in Books /\ p \in Positions /\ new = NewCall("sync", b, p, 0)
        BY <2>5, <2>7
      <3> HIDE DEF b, p, new
      <3>1. RequestOK(new) /\ new.kind = "sync"
        BY <3>0, <3>a, NewRow
      <3> USE DEF b, new
      <3>2. new.book = todo[i] /\ new.phase = "sent"
        BY DEF NewCall
      <3> QED BY <3>1, <3>2
    <2> HIDE DEF new, rest
    <2>9. /\ c \in Requests /\ c.kind = "sync" /\ c.book = todo[i] /\ c.todo = rest /\ c.pos = new.pos
          /\ c.phase = "sent"
      BY <2>5, <2>8 DEF RequestOK, Requests
    <2>10. RequestOK(c)
      BY <2>5, <2>8, <2>9 DEF RequestOK
    <2> HIDE DEF c
    <2> QED BY <2>1, <2>9, <2>10
  <1> QED BY <1>1, <1>2

-----------------------------------------------------------------------------
(* One device changes *)

Row(d) ==
    /\ reader' = [reader EXCEPT ![d] = reader'[d]]
    /\ calls' = [calls EXCEPT ![d] = calls'[d]]
    /\ staged' = [staged EXCEPT ![d] = staged'[d]]
    /\ queue' = [queue EXCEPT ![d] = queue'[d]]

AllKept == \A e \in Devices : Kept(reader[e], reader'[e]) \/ \E s \in Slots : ReloadAnswered(e, s)

LEMMA RowStep ==
  ASSUME SyncInv, NEW d \in Devices, Row(d),
         DeviceOK(reader'[d], calls'[d], staged'[d], queue'[d]),
         Kept(reader[d], reader'[d]) \/ \E s \in Slots : ReloadAnswered(d, s),
         now' \in Nat, server' \in [Books -> Maybe]
  PROVE  SyncInv' /\ AllKept
  <1>1. /\ reader \in [Devices -> Readers]
        /\ calls \in [Devices -> [Slots -> Requests \cup {NoCall}]]
        /\ staged \in [Devices -> [Books -> Maybe]]
        /\ queue \in [Devices -> Seq(Books)]
    BY DEF SyncInv
  <1>2. /\ reader'[d] \in Readers /\ calls'[d] \in [Slots -> Requests \cup {NoCall}]
        /\ staged'[d] \in [Books -> Maybe] /\ queue'[d] \in Seq(Books)
    BY DEF DeviceOK, ReaderOK, CallsOK
  <1>3. reader' \in [Devices -> Readers] /\ \A e \in Devices : e # d => reader'[e] = reader[e]
    BY <1>1, <1>2 DEF Row
  <1>4. /\ calls' \in [Devices -> [Slots -> Requests \cup {NoCall}]]
        /\ \A e \in Devices : e # d => calls'[e] = calls[e]
    BY <1>1, <1>2 DEF Row
  <1>5. staged' \in [Devices -> [Books -> Maybe]] /\ \A e \in Devices : e # d => staged'[e] = staged[e]
    BY <1>1, <1>2 DEF Row
  <1>6. queue' \in [Devices -> Seq(Books)] /\ \A e \in Devices : e # d => queue'[e] = queue[e]
    BY <1>1, <1>2 DEF Row
  <1>7. ASSUME NEW e \in Devices
        PROVE  DeviceOK(reader'[e], calls'[e], staged'[e], queue'[e])
    BY <1>3, <1>4, <1>5, <1>6 DEF SyncInv
  <1>8. ASSUME NEW e \in Devices
        PROVE  Kept(reader[e], reader'[e]) \/ \E s \in Slots : ReloadAnswered(e, s)
    <2>1. CASE e = d
      BY <2>1
    <2>2. CASE e # d
      BY <1>3, <2>2 DEF Kept
    <2> QED BY <2>1, <2>2
  <1> QED BY <1>3, <1>4, <1>5, <1>6, <1>7, <1>8 DEF SyncInv, AllKept

LEMMA RowTypes ==
  ASSUME SyncInv, NEW d \in Devices
  PROVE  /\ reader[d] \in Readers /\ calls[d] \in [Slots -> Requests \cup {NoCall}]
         /\ staged[d] \in [Books -> Maybe] /\ queue[d] \in Seq(Books)
         /\ DeviceOK(reader[d], calls[d], staged[d], queue[d])
         /\ ReaderOK(reader[d]) /\ CallsOK(calls[d]) /\ Unique(queue[d])
         /\ reader = [reader EXCEPT ![d] = reader[d]] /\ calls = [calls EXCEPT ![d] = calls[d]]
         /\ staged = [staged EXCEPT ![d] = staged[d]] /\ queue = [queue EXCEPT ![d] = queue[d]]
  BY DEF SyncInv, DeviceOK

(* The reader changes alone, and stays open. *)
LEMMA ReaderChanged ==
  ASSUME NEW r, NEW cs, NEW st, NEW q, DeviceOK(r, cs, st, q), NEW n, ReaderOK(n), n.view # "closed",
         n.saving => Busy(cs)
  PROVE  DeviceOK(n, cs, st, q)
  BY DEF DeviceOK

(* It goes away, and nobody listens. *)
LEMMA ReaderLeft ==
  ASSUME NEW r, NEW cs, NEW st, NEW q, DeviceOK(r, cs, st, q), NEW ps, CallsOK(ps),
         \A s \in Slots : ~ Listens(ps[s])
  PROVE  DeviceOK(Unmounted, ps, st, q)
  <1>1. ReaderOK(Unmounted) /\ ~ Unmounted.saving
    BY DEF Unmounted, ReaderOK, Readers, Maybe
  <1> QED BY <1>1 DEF DeviceOK

LEMMA OthersChanged ==
  ASSUME NEW r, NEW cs, NEW st, NEW q, DeviceOK(r, cs, st, q),
         NEW st2 \in [Books -> Maybe], NEW q2 \in Seq(Books), Unique(q2)
  PROVE  DeviceOK(r, cs, st2, q2)
  BY DEF DeviceOK

LEMMA LeftBehind ==
  ASSUME NEW cs, CallsOK(cs)
  PROVE  CallsOK(LeaveBehind(cs)) /\ \A s \in Slots : ~ Listens(LeaveBehind(cs)[s])
  <1> DEFINE ps == LeaveBehind(cs)
  <1>1. ASSUME NEW s \in Slots
        PROVE  (ps[s] = NoCall \/ RequestOK(ps[s])) /\ ~ Listens(ps[s])
    <2>1. CASE cs[s] = NoCall \/ cs[s].owner = "gone"
      BY <2>1 DEF LeaveBehind, CallsOK, Listens
    <2>2. CASE ~ (cs[s] = NoCall \/ cs[s].owner = "gone")
      <3> DEFINE c == cs[s]
                 n == [c EXCEPT !.owner = "left"]
      <3>1. ps[s] = n /\ RequestOK(c)
        BY <2>2 DEF LeaveBehind, CallsOK
      <3> HIDE DEF c
      <3>2. /\ n \in Requests /\ n.owner = "left" /\ n.kind = c.kind /\ n.pos = c.pos /\ n.phase = c.phase
            /\ n.snap = c.snap /\ n.book = c.book /\ n.todo = c.todo
        BY <3>1 DEF RequestOK, Requests
      <3> HIDE DEF n
      <3>3. RequestOK(n)
        BY <3>1, <3>2 DEF RequestOK
      <3> QED BY <3>1, <3>2, <3>3 DEF Listens
    <2> QED BY <2>1, <2>2
  <1>2. ps = [s \in Slots |-> ps[s]]
    BY DEF LeaveBehind
  <1> HIDE DEF ps
  <1>3. ps \in [Slots -> Requests \cup {NoCall}]
    BY <1>1, <1>2 DEF RequestOK
  <1> QED BY <1>1, <1>3 DEF CallsOK, ps

(* What the server may still have of a request nobody awaits. *)
LEMMA RemainsOK ==
  ASSUME NEW c, RequestOK(c), NEW x \in Remains(c)
  PROVE  (x = NoCall \/ RequestOK(x)) /\ ~ Listens(x)
  <1>1. CASE x = NoCall
    BY <1>1 DEF Listens
  <1>2. CASE x # NoCall
    <2>1. x = [c EXCEPT !.owner = "gone"]
      BY <1>2 DEF Remains
    <2>2. /\ x \in Requests /\ x.owner = "gone" /\ x.kind = c.kind /\ x.pos = c.pos /\ x.phase = c.phase
          /\ x.snap = c.snap /\ x.book = c.book /\ x.todo = c.todo
      BY <2>1 DEF RequestOK, Requests
    <2> QED BY <2>2 DEF RequestOK, Listens
  <1> QED BY <1>1, <1>2

LEMMA SaveStartedOK ==
  ASSUME SyncInv, NEW d \in Devices, NEW r, ReaderOK(r), r.view # "closed",
         r.saving => reader[d].saving, Kept(reader[d], r),
         NEW data \in Positions, NEW forced \in BOOLEAN, SaveStarted(d, r, data, forced),
         UNCHANGED <<now, server, storage>>
  PROVE  SyncInv' /\ AllKept
  <1>1. DeviceOK(r, calls[d], staged[d], queue[d])
    <2>1. r.saving => Busy(calls[d])
      BY RowTypes DEF DeviceOK
    <2> QED BY <2>1, RowTypes, ReaderChanged
  <1>2. CASE Sends(r, data, forced)
    <2> DEFINE c == SaveCall(r, data)
               n == [r EXCEPT !.saving = TRUE]
    <2>1. HasRoom(calls[d], 1) /\ calls' = [calls EXCEPT ![d] = Place(calls[d], c)]
          /\ reader' = [reader EXCEPT ![d] = n]
      BY <1>2, RowTypes DEF SaveStarted, SyncInv
    <2>2. RequestOK(c) /\ c.kind = "save" /\ c.owner = "reader"
      <3> DEFINE k == "save"
                 x == TimeOf(r.lastSaved)
                 b == r.book
      <3>1. k \in Gets \cup Posts /\ k # "unload"
        BY DEF Posts
      <3>2. x \in Nat
        BY TimeIsNat DEF ReaderOK, Readers
      <3>3. b \in Books
        BY DEF ReaderOK
      <3>4. c = NewCall(k, b, data, x)
        BY DEF SaveCall
      <3> HIDE DEF c, k, x, b
      <3>5. RequestOK(c) /\ c.kind = k /\ c.owner = "reader"
        BY <3>1, <3>2, <3>3, <3>4, NewRow
      <3> QED BY <3>5 DEF k
    <2> HIDE DEF c
    <2>3. Saves(c)
      BY <2>2, SentinelAssumption DEF Saves, Listens, RequestOK
    <2>4. DeviceOK(r, Place(calls[d], c), staged[d], queue[d]) /\ Busy(Place(calls[d], c))
      BY <1>1, <2>1, <2>2, <2>3, RequestPlaced
    <2>5. /\ ReaderOK(n) /\ n.view # "closed" /\ n.view = r.view /\ n.pending = r.pending
          /\ n.lastSaved = r.lastSaved
      BY DEF ReaderOK, Readers
    <2> HIDE DEF n
    <2>6. DeviceOK(n, Place(calls[d], c), staged[d], queue[d])
      BY <2>4, <2>5, ReaderChanged
    <2>7. reader'[d] = n /\ calls'[d] = Place(calls[d], c) /\ staged'[d] = staged[d] /\ queue'[d] = queue[d]
      BY <2>1, RowTypes DEF SyncInv, storage
    <2>8. Row(d)
      BY <2>1, <2>7, RowTypes DEF Row, storage
    <2>9. Kept(reader[d], reader'[d])
      BY <2>5, <2>7 DEF Kept
    <2>10. now' \in Nat /\ server' \in [Books -> Maybe]
      BY DEF SyncInv
    <2> QED BY <2>6, <2>7, <2>8, <2>9, <2>10, RowStep
  <1>3. CASE ~ Sends(r, data, forced)
    <2>1. reader' = [reader EXCEPT ![d] = r] /\ UNCHANGED calls
      BY <1>3 DEF SaveStarted
    <2>2. reader'[d] = r /\ calls'[d] = calls[d] /\ staged'[d] = staged[d] /\ queue'[d] = queue[d]
      BY <2>1, RowTypes DEF SyncInv, storage
    <2>3. Row(d)
      BY <2>1, <2>2, RowTypes DEF Row, storage
    <2>4. now' \in Nat /\ server' \in [Books -> Maybe]
      BY DEF SyncInv
    <2> QED BY <1>1, <2>2, <2>3, <2>4, RowStep
  <1> QED BY <1>2, <1>3

(* A request of the device is answered or given up: its reader takes n. *)
LEMMA SettleOK ==
  ASSUME SyncInv, NEW d \in Devices, NEW s \in Slots, calls[d][s] # NoCall,
         NEW n, Settle(d, s, n), NEW x, x = NoCall \/ RequestOK(x), ~ Listens(x), End(d, s, x),
         Listens(calls[d][s]) => /\ ReaderOK(n) /\ n.view = reader[d].view
                                 /\ n.saving => reader[d].saving /\ ~ Saves(calls[d][s])
                                 /\ Kept(reader[d], n) \/ ReloadAnswered(d, s),
         NEW st \in [Books -> Maybe], staged' = [staged EXCEPT ![d] = st],
         NEW q \in Seq(Books), Unique(q), queue' = [queue EXCEPT ![d] = q],
         now' \in Nat, server' \in [Books -> Maybe]
  PROVE  SyncInv' /\ AllKept
  <1> DEFINE c == calls[d][s]
             ps == [calls[d] EXCEPT ![s] = x]
             m == reader'[d]
  <1>1. calls' = [calls EXCEPT ![d] = ps] /\ staged'[d] = st /\ queue'[d] = q /\ calls'[d] = ps
    BY RowTypes DEF End, SyncInv
  <1>2. DeviceOK(reader[d], calls[d], st, q)
    BY RowTypes, OthersChanged
  <1>3. CASE c.owner = "reader"
    <2>1. Listens(c)
      BY <1>3 DEF Listens
    <2>2. reader' = [reader EXCEPT ![d] = n] /\ m = n
      BY <1>3, RowTypes DEF Settle, SyncInv
    <2>3. n.view # "closed"
      BY <2>1, RowTypes DEF DeviceOK
    <2>4. n.saving => Busy(calls[d])
      BY <1>2, <2>1 DEF DeviceOK
    <2>5. DeviceOK(n, calls[d], st, q)
      BY <1>2, <2>1, <2>3, <2>4, ReaderChanged
    <2>6. DeviceOK(n, ps, st, q)
      BY <2>1, <2>5, RequestMoved
    <2>7. Kept(reader[d], m) \/ ReloadAnswered(d, s)
      BY <2>1, <2>2
    <2>8. Row(d)
      BY <1>1, <2>2 DEF Row
    <2> QED BY <1>1, <2>2, <2>6, <2>7, <2>8, RowStep
  <1>4. CASE c.owner # "reader"
    <2>1. reader' = reader
      BY <1>4 DEF Settle
    <2>2. DeviceOK(reader[d], ps, st, q)
      BY <1>2, <1>4, RequestMoved DEF Saves, Listens
    <2>3. Row(d)
      BY <1>1, <2>1, RowTypes DEF Row
    <2>4. Kept(reader[d], reader'[d])
      BY <2>1 DEF Kept
    <2> QED BY <1>1, <2>1, <2>2, <2>3, <2>4, RowStep
  <1> QED BY <1>3, <1>4

-----------------------------------------------------------------------------
(* The reader page *)

(* Only its reader changes, and keeps what it has to save. *)
LEMMA ReaderOnly ==
  ASSUME SyncInv, NEW d \in Devices, NEW n, reader' = [reader EXCEPT ![d] = n],
         ReaderOK(n), n.view # "closed", n.saving = reader[d].saving, Kept(reader[d], n),
         UNCHANGED <<now, server, storage, calls>>
  PROVE  SyncInv' /\ AllKept
  <1>1. n.saving => Busy(calls[d])
    BY RowTypes DEF DeviceOK
  <1>2. DeviceOK(n, calls[d], staged[d], queue[d])
    BY <1>1, RowTypes, ReaderChanged
  <1>3. reader'[d] = n /\ calls'[d] = calls[d] /\ staged'[d] = staged[d] /\ queue'[d] = queue[d]
    BY RowTypes DEF SyncInv, storage
  <1>4. Row(d)
    BY <1>3, RowTypes DEF Row, storage
  <1>5. now' \in Nat /\ server' \in [Books -> Maybe]
    BY DEF SyncInv
  <1> QED BY <1>2, <1>3, <1>4, <1>5, RowStep

(* Only its requests and its queue change. *)
LEMMA RequestsOnly ==
  ASSUME SyncInv, NEW d \in Devices, NEW cs, calls' = [calls EXCEPT ![d] = cs],
         NEW q, queue' = [queue EXCEPT ![d] = q], DeviceOK(reader[d], cs, staged[d], q),
         UNCHANGED <<reader, staged>>, now' \in Nat, server' \in [Books -> Maybe]
  PROVE  SyncInv' /\ AllKept
  <1>1. reader'[d] = reader[d] /\ calls'[d] = cs /\ staged'[d] = staged[d] /\ queue'[d] = q
    BY RowTypes DEF SyncInv
  <1>2. Row(d)
    BY <1>1, RowTypes DEF Row
  <1>3. Kept(reader[d], reader'[d])
    BY <1>1 DEF Kept
  <1> QED BY <1>1, <1>2, <1>3, RowStep

(* Its page goes away. *)
LEMMA PageLeft ==
  ASSUME SyncInv, NEW d \in Devices, reader' = [reader EXCEPT ![d] = Unmounted],
         NEW cs, calls' = [calls EXCEPT ![d] = cs], CallsOK(cs), \A s \in Slots : ~ Listens(cs[s]),
         UNCHANGED <<now, server, storage>>
  PROVE  SyncInv' /\ AllKept
  <1>1. /\ reader'[d] = Unmounted /\ calls'[d] = cs /\ staged'[d] = staged[d] /\ queue'[d] = queue[d]
        /\ Unmounted.view = "closed"
    BY RowTypes DEF SyncInv, storage, Unmounted
  <1>2. DeviceOK(Unmounted, cs, staged[d], queue[d])
    BY RowTypes, ReaderLeft
  <1>3. Row(d)
    BY <1>1, RowTypes DEF Row, storage
  <1>4. Kept(reader[d], reader'[d])
    BY <1>1 DEF Kept
  <1>5. now' \in Nat /\ server' \in [Books -> Maybe]
    BY DEF SyncInv
  <1> QED BY <1>1, <1>2, <1>3, <1>4, <1>5, RowStep

LEMMA SyncBeginOK ==
  ASSUME SyncInv, NEW d \in Devices
  PROVE  /\ SyncBegin(d).queue \in Seq(Books) /\ Unique(SyncBegin(d).queue)
         /\ SyncBegin(d).call = NoCall \/ RequestOK(SyncBegin(d).call)
  BY RowTypes, SyncStepOK DEF SyncBegin

LEMMA SyncPlaced ==
  ASSUME SyncInv, NEW d \in Devices, NEW r, NEW cs, NEW st, NEW q, DeviceOK(r, cs, st, q),
         HasRoom(cs, 1), r.view # "closed"
  PROVE  DeviceOK(r, Place(cs, SyncBegin(d).call), st, SyncBegin(d).queue)
  <1> DEFINE x == SyncBegin(d).call
             z == SyncBegin(d).queue
  <1>1. z \in Seq(Books) /\ Unique(z) /\ (x = NoCall \/ RequestOK(x))
    BY SyncBeginOK
  <1>2. cs \in [Slots -> Requests \cup {NoCall}] /\ st \in [Books -> Maybe]
    BY DEF DeviceOK, CallsOK
  <1> HIDE DEF x, z
  <1>3. DeviceOK(r, Place(cs, x), st, q)
    <2>1. CASE x = NoCall
      BY <1>2, <2>1, NothingPlaced
    <2>2. CASE RequestOK(x)
      BY <2>2, RequestPlaced
    <2> QED BY <1>1, <2>1, <2>2
  <1>4. DeviceOK(r, Place(cs, x), st, z)
    BY <1>1, <1>2, <1>3, OthersChanged
  <1> QED BY <1>4 DEF x, z

LEMMA PageStep ==
  ASSUME SyncInv, NEW d \in Devices, PageNext(d)
  PROVE  SyncInv' /\ AllKept
  <1> DEFINE r == reader[d]
  <1>t. r \in Readers /\ ReaderOK(r) /\ now' \in {now, now + 1}
    BY RowTypes DEF PageNext, Open, OpenView, Relocate, Turn, Tick, Fire, Hide, Focus, Online, Back, Navigate,
                    UnloadSave, Unload, storage
  <1>1. ASSUME NEW b \in Books, Open(d, b)
        PROVE  SyncInv' /\ AllKept
    <2> DEFINE n == [Unmounted EXCEPT !.book = b, !.view = "loading", !.lastSaved = staged[d][b]]
               load == NewCall("load", b, NoPosition, 0)
               x == SyncBegin(d).call
               z == SyncBegin(d).queue
    <2>1. /\ r.view = "closed" /\ HasRoom(calls[d], 2) /\ reader' = [reader EXCEPT ![d] = n]
          /\ calls' = [calls EXCEPT ![d] = Place(Place(calls[d], load), x)]
          /\ queue' = [queue EXCEPT ![d] = z] /\ UNCHANGED <<now, server, staged>>
      BY <1>1, RowTypes DEF Open, SyncInv
    <2>2. staged[d][b] \in Maybe
      BY RowTypes
    <2>3. ReaderOK(n) /\ n.view # "closed" /\ n.saving = FALSE /\ n.view # "ready"
      BY <2>2 DEF Unmounted, ReaderOK, Readers
    <2>4. RequestOK(load)
      BY NewRow DEF Gets, Posts
    <2>5. load \in Requests
      BY <2>4 DEF RequestOK
    <2> HIDE DEF n, load
    <2>6. HasRoom(calls[d], 1)
      BY <2>1, FreeFinite, FS_CardinalityType DEF HasRoom
    <2>7. HasRoom(Place(calls[d], load), 1)
      BY <2>1, <2>5, RowTypes, RoomLeft
    <2>8. DeviceOK(n, calls[d], staged[d], queue[d])
      BY <2>3, RowTypes, ReaderChanged
    <2>9. DeviceOK(n, Place(calls[d], load), staged[d], queue[d])
      BY <2>3, <2>4, <2>6, <2>8, RequestPlaced
    <2>10. DeviceOK(n, Place(Place(calls[d], load), x), staged[d], z)
      BY <2>3, <2>7, <2>9, SyncPlaced
    <2> HIDE DEF x, z
    <2>11. /\ reader'[d] = n /\ calls'[d] = Place(Place(calls[d], load), x) /\ staged'[d] = staged[d]
           /\ queue'[d] = z
      BY <2>1, RowTypes DEF SyncInv
    <2>12. Row(d)
      BY <2>1, <2>11, RowTypes DEF Row
    <2>13. Kept(reader[d], reader'[d])
      BY <2>3, <2>11 DEF Kept
    <2>14. now' \in Nat /\ server' \in [Books -> Maybe]
      BY <2>1 DEF SyncInv
    <2> QED BY <2>10, <2>11, <2>12, <2>13, <2>14, RowStep
  <1>2. CASE OpenView(d)
    <2> DEFINE a == TimeOf(r.lastSaved)
               m == IF r.lastSaved = NoSnapshot THEN Start ELSE r.lastSaved.pos
               n == [r EXCEPT !.view = "opening", !.applied = a, !.moving = m]
    <2>1. /\ r.view = "loading" /\ reader' = [reader EXCEPT ![d] = n]
          /\ UNCHANGED <<now, server, storage, calls>>
      BY <1>2, RowTypes DEF OpenView, SyncInv
    <2>2. a \in Nat
      BY <1>t, TimeIsNat DEF Readers
    <2>3. m \in Positions
      BY <1>t, PositionAssumption DEF Readers, Maybe, Snapshots
    <2> HIDE DEF a, m
    <2>4. ReaderOK(n) /\ n.view = "opening" /\ n.saving = r.saving
      BY <1>t, <2>1, <2>2, <2>3 DEF ReaderOK, Readers
    <2> HIDE DEF n
    <2>5. Kept(r, n)
      BY <2>4 DEF Kept
    <2> QED BY <2>1, <2>4, <2>5, ReaderOnly
  <1>3. ASSUME NEW p \in Positions, Relocate(d, p)
        PROVE  SyncInv' /\ AllKept
    <2> DEFINE n == [r EXCEPT !.view = "ready", !.pending = p, !.moving = NoPosition]
    <2>1. r.moving # NoPosition /\ reader' = [reader EXCEPT ![d] = n] /\ UNCHANGED <<now, server, storage, calls>>
      BY <1>3, RowTypes DEF Relocate, SyncInv
    <2>2. r.view # "closed"
      BY <1>t, <2>1 DEF ReaderOK
    <2>3. ReaderOK(n) /\ n.view = "ready" /\ n.saving = r.saving /\ n.pending = p
      BY <1>t, <2>2 DEF ReaderOK, Readers
    <2> HIDE DEF n
    <2>4. Kept(r, n)
      BY <2>3, SentinelAssumption DEF Kept
    <2> QED BY <2>1, <2>3, <2>4, ReaderOnly
  <1>4. ASSUME NEW p \in Positions, Turn(d, p)
        PROVE  SyncInv' /\ AllKept
    <2> DEFINE n == [r EXCEPT !.pending = p]
    <2>1. r.view = "ready" /\ reader' = [reader EXCEPT ![d] = n] /\ UNCHANGED <<now, server, storage, calls>>
      BY <1>4, RowTypes DEF Turn, SyncInv
    <2>3. ReaderOK(n) /\ n.view = "ready" /\ n.saving = r.saving /\ n.pending = p
      BY <1>t, <2>1 DEF ReaderOK, Readers
    <2> HIDE DEF n
    <2>4. Kept(r, n)
      BY <2>3, SentinelAssumption DEF Kept
    <2> QED BY <2>1, <2>3, <2>4, ReaderOnly
  <1>5. CASE Tick(d)
    <2> DEFINE n == [r EXCEPT !.timer = r.pending]
    <2>1. /\ r.pending # NoPosition /\ reader' = [reader EXCEPT ![d] = n]
          /\ UNCHANGED <<now, server, storage, calls>>
      BY <1>5, RowTypes DEF Tick, SyncInv
    <2>2. r.view # "closed"
      BY <1>t, <2>1 DEF ReaderOK
    <2>3. ReaderOK(n) /\ n.view = r.view /\ n.saving = r.saving /\ n.pending = r.pending
      BY <1>t, <2>2 DEF ReaderOK, Readers
    <2> HIDE DEF n
    <2>4. Kept(r, n)
      BY <2>3 DEF Kept
    <2> QED BY <2>1, <2>2, <2>3, <2>4, ReaderOnly
  <1>6. CASE Fire(d)
    <2> DEFINE n == [r EXCEPT !.timer = NoPosition]
    <2>1. /\ r.timer # NoPosition /\ SaveStarted(d, n, r.timer, FALSE)
          /\ UNCHANGED <<now, server, storage>>
      BY <1>6 DEF Fire
    <2>2. r.timer \in Positions /\ r.view # "closed"
      BY <1>t, <2>1 DEF ReaderOK, Readers
    <2>3. ReaderOK(n) /\ n.view = r.view /\ n.saving = r.saving /\ n.pending = r.pending
      BY <1>t, <2>2 DEF ReaderOK, Readers
    <2> HIDE DEF n
    <2>4. Kept(r, n)
      BY <2>3 DEF Kept
    <2> QED BY <2>1, <2>2, <2>3, <2>4, SaveStartedOK
  <1>7. CASE Hide(d)
    <2>1. r.pending # NoPosition /\ SaveStarted(d, r, r.pending, TRUE) /\ UNCHANGED <<now, server, storage>>
      BY <1>7 DEF Hide
    <2>2. r.pending \in Positions /\ r.view # "closed"
      BY <1>t, <2>1 DEF ReaderOK, Readers
    <2>3. Kept(r, r)
      BY DEF Kept
    <2> QED BY <1>t, <2>1, <2>2, <2>3, SaveStartedOK
  <1>8. CASE Focus(d)
    <2> DEFINE c == NewCall("refresh", r.book, NoPosition, 0)
    <2>1. /\ r.lastSaved # NoSnapshot /\ HasRoom(calls[d], 1)
          /\ calls' = [calls EXCEPT ![d] = Place(calls[d], c)] /\ UNCHANGED <<now, server, reader, storage>>
      BY <1>8, RowTypes DEF Focus, SyncInv
    <2>2. r.view # "closed" /\ r.book \in Books
      BY <1>t, <2>1 DEF ReaderOK
    <2>3. RequestOK(c)
      BY <2>2, NewRow DEF Gets, Posts
    <2> HIDE DEF c
    <2>4. DeviceOK(r, Place(calls[d], c), staged[d], queue[d])
      BY <2>1, <2>2, <2>3, RowTypes, RequestPlaced
    <2>5. queue' = [queue EXCEPT ![d] = queue[d]] /\ UNCHANGED staged /\ now' \in Nat /\ server' \in [Books -> Maybe]
      BY <2>1, RowTypes DEF storage, SyncInv
    <2> QED BY <2>1, <2>4, <2>5, RequestsOnly
  <1>9. CASE Online(d)
    <2> DEFINE x == SyncBegin(d).call
               z == SyncBegin(d).queue
    <2>1. /\ r.view # "closed" /\ HasRoom(calls[d], 1)
          /\ calls' = [calls EXCEPT ![d] = Place(calls[d], x)] /\ queue' = [queue EXCEPT ![d] = z]
          /\ UNCHANGED <<now, server, reader, staged>>
      BY <1>9, RowTypes DEF Online, SyncInv
    <2>2. DeviceOK(r, Place(calls[d], x), staged[d], z)
      BY <2>1, RowTypes, SyncPlaced
    <2>3. now' \in Nat /\ server' \in [Books -> Maybe]
      BY <2>1 DEF SyncInv
    <2> HIDE DEF x, z
    <2> QED BY <2>1, <2>2, <2>3, RequestsOnly
  <1>10. CASE Back(d)
    <2> DEFINE cs == IF r.pending = NoPosition THEN calls[d] ELSE Place(calls[d], SaveCall(r, r.pending))
    <2>1. /\ calls' = [calls EXCEPT ![d] = LeaveBehind(cs)] /\ reader' = [reader EXCEPT ![d] = Unmounted]
          /\ r.pending # NoPosition => HasRoom(calls[d], 1)
          /\ UNCHANGED <<now, server, storage>>
      BY <1>10, RowTypes DEF Back, SyncInv
    <2>2. CallsOK(cs)
      <3>1. CASE r.pending = NoPosition
        BY <3>1, RowTypes
      <3>2. CASE r.pending # NoPosition
        <4> DEFINE c == SaveCall(r, r.pending)
                   x == TimeOf(r.lastSaved)
                   b == r.book
                   p == r.pending
                   k == "save"
        <4>1. p \in Positions /\ r.view # "closed"
          BY <1>t, <3>2 DEF ReaderOK, Readers
        <4>2. x \in Nat
          BY <1>t, TimeIsNat DEF Readers
        <4>3. b \in Books /\ k \in Gets \cup Posts
          BY <1>t, <4>1 DEF ReaderOK, Posts
        <4>4. c = NewCall(k, b, p, x)
          BY DEF SaveCall
        <4> HIDE DEF c, x, b, p, k
        <4>5. RequestOK(c)
          BY <4>1, <4>2, <4>3, <4>4, NewRow
        <4>6. DeviceOK(r, Place(calls[d], c), staged[d], queue[d])
          BY <2>1, <3>2, <4>1, <4>5, RowTypes, RequestPlaced
        <4> QED BY <3>2, <4>6 DEF DeviceOK, c
      <3> QED BY <3>1, <3>2
    <2> HIDE DEF cs
    <2> QED BY <2>1, <2>2, LeftBehind, PageLeft
  <1>11. CASE Navigate(d)
    <2>1. /\ calls' = [calls EXCEPT ![d] = LeaveBehind(calls[d])] /\ reader' = [reader EXCEPT ![d] = Unmounted]
          /\ UNCHANGED <<now, server, storage>>
      BY <1>11, RowTypes DEF Navigate, SyncInv
    <2>2. CallsOK(calls[d])
      BY RowTypes
    <2> QED BY <2>1, <2>2, LeftBehind, PageLeft
  <1>12. CASE UnloadSave(d)
    <2> DEFINE x == TimeOf(r.lastSaved)
               b == r.book
               p == r.pending
               k == "unload"
               c == NewCall(k, b, p, x)
    <2>1. /\ p # NoPosition /\ HasRoom(calls[d], 1)
          /\ calls' = [calls EXCEPT ![d] = Place(calls[d], c)] /\ UNCHANGED <<now, server, reader, storage>>
      BY <1>12, RowTypes DEF UnloadSave, SyncInv
    <2>2. p \in Positions /\ r.view # "closed" /\ x \in Nat
      BY <1>t, <2>1, TimeIsNat DEF ReaderOK, Readers
    <2>3. b \in Books /\ k \in Gets \cup Posts
      BY <1>t, <2>2 DEF ReaderOK, Posts
    <2> HIDE DEF x, b, p, k
    <2>4. RequestOK(c)
      BY <2>2, <2>3, NewRow
    <2> HIDE DEF c
    <2>5. DeviceOK(r, Place(calls[d], c), staged[d], queue[d])
      BY <2>1, <2>2, <2>4, RowTypes, RequestPlaced
    <2>6. queue' = [queue EXCEPT ![d] = queue[d]] /\ UNCHANGED staged /\ now' \in Nat /\ server' \in [Books -> Maybe]
      BY <2>1, RowTypes DEF storage, SyncInv
    <2> QED BY <2>1, <2>5, <2>6, RequestsOnly
  <1>13. CASE Unload(d)
    <2>1. PICK cs \in [Slots -> UNION {Remains(calls[d][s]) : s \in {s \in Slots : calls[d][s] # NoCall}}
                                 \cup {NoCall}] :
            /\ \A s \in Slots : IF calls[d][s] = NoCall THEN cs[s] = NoCall
                                ELSE cs[s] \in Remains(calls[d][s])
            /\ calls' = [calls EXCEPT ![d] = cs]
      BY <1>13 DEF Unload
    <2>2. ASSUME NEW s \in Slots
          PROVE  (cs[s] = NoCall \/ RequestOK(cs[s])) /\ ~ Listens(cs[s])
      <3>1. CASE calls[d][s] = NoCall
        BY <2>1, <3>1 DEF Listens
      <3>2. CASE calls[d][s] # NoCall
        <4>1. RequestOK(calls[d][s])
          BY <3>2, RowTypes DEF CallsOK
        <4>2. cs[s] \in Remains(calls[d][s])
          BY <2>1, <3>2
        <4> QED BY <4>1, <4>2, RemainsOK
      <3> QED BY <3>1, <3>2
    <2>3. cs \in [Slots -> Requests \cup {NoCall}]
      BY <2>1, <2>2 DEF RequestOK
    <2>4. CallsOK(cs)
      BY <2>2, <2>3 DEF CallsOK
    <2>5. reader' = [reader EXCEPT ![d] = Unmounted] /\ UNCHANGED <<now, server, storage>>
      BY <1>13 DEF Unload
    <2> QED BY <2>1, <2>2, <2>4, <2>5, PageLeft
  <1> QED BY <1>1, <1>2, <1>3, <1>4, <1>5, <1>6, <1>7, <1>8, <1>9, <1>10, <1>11, <1>12, <1>13 DEF PageNext

-----------------------------------------------------------------------------
(* The server *)

LEMMA RequestType ==
  ASSUME SyncInv, NEW d \in Devices, NEW s \in Slots, calls[d][s] # NoCall
  PROVE  RequestOK(calls[d][s]) /\ calls[d][s].book \in Books
  BY RowTypes DEF CallsOK, RequestOK, Requests

(* A request goes on or ends; nothing else of the device changes. *)
LEMMA CallMoved ==
  ASSUME SyncInv, NEW d \in Devices, NEW s \in Slots, NEW x, x = NoCall \/ RequestOK(x),
         Listens(x) => Listens(calls[d][s]), Saves(calls[d][s]) => Saves(x),
         End(d, s, x), UNCHANGED <<reader, storage>>, now' \in Nat, server' \in [Books -> Maybe]
  PROVE  SyncInv' /\ AllKept
  <1> DEFINE cs == [calls[d] EXCEPT ![s] = x]
  <1>1. calls' = [calls EXCEPT ![d] = cs] /\ queue' = [queue EXCEPT ![d] = queue[d]] /\ UNCHANGED staged
    BY RowTypes DEF End, SyncInv, storage
  <1>2. DeviceOK(reader[d], cs, staged[d], queue[d])
    BY RowTypes, RequestMoved
  <1> HIDE DEF cs
  <1> QED BY <1>1, <1>2, RequestsOnly

LEMMA ServerStep ==
  ASSUME SyncInv, NEW d \in Devices, NEW s \in Slots, ServerNext(d, s) \/ Refuse(d, s)
  PROVE  SyncInv' /\ AllKept
  <1> DEFINE c == calls[d][s]
  <1>t. now \in Nat /\ server \in [Books -> Maybe] /\ c # NoCall /\ c.phase \in {"sent", "stamped"}
    BY DEF SyncInv, ServerNext, Stamp, Commit, Get, Refuse
  <1>u. RequestOK(c) /\ c.book \in Books
    BY <1>t, RequestType
  <1>v. c \in Requests
    BY <1>u DEF RequestOK
  <1>1. CASE Stamp(d, s)
    <2> DEFINE t == now + 1
               n == [c EXCEPT !.phase = "stamped", !.stamp = t]
    <2>1. c.kind \in Posts /\ now' = t /\ End(d, s, n) /\ UNCHANGED <<server, reader, storage>>
      BY <1>1 DEF Stamp
    <2>2. t \in Nat
      BY <1>t
    <2> HIDE DEF c, t
    <2>3. /\ n \in Requests /\ n.phase = "stamped" /\ n.kind = c.kind /\ n.pos = c.pos /\ n.owner = c.owner
          /\ n.book = c.book /\ n.todo = c.todo
      BY <1>v, <2>2 DEF Requests
    <2> HIDE DEF n
    <2>4. RequestOK(n)
      BY <1>u, <2>1, <2>3 DEF RequestOK
    <2>5. n # NoCall
      BY <2>3, SentinelAssumption
    <2>6. (Listens(n) => Listens(c)) /\ (Saves(c) => Saves(n))
      BY <1>t, <2>3, <2>5 DEF Listens, Saves
    <2> USE DEF c
    <2> QED BY <1>t, <2>1, <2>2, <2>4, <2>6, CallMoved
  <1>2. CASE Commit(d, s)
    <2> DEFINE snap == [pos |-> c.pos, time |-> c.stamp, device |-> d]
               y == [c EXCEPT !.phase = "saved", !.snap = snap]
               z == [c EXCEPT !.phase = "conflict"]
               n == IF IsCurrent(c) THEN y ELSE z
               x == IF c.owner = "gone" THEN NoCall ELSE n
    <2>1. /\ c.phase = "stamped" /\ server' = IF IsCurrent(c) THEN [server EXCEPT ![c.book] = snap] ELSE server
          /\ End(d, s, x) /\ UNCHANGED <<now, reader, storage>>
      BY <1>2 DEF Commit
    <2>2. snap \in Snapshots /\ snap.pos = c.pos
      BY <1>u, <1>v, <2>1 DEF RequestOK, Requests, Snapshots
    <2>3. server' \in [Books -> Maybe]
      BY <1>t, <1>u, <2>1, <2>2 DEF Maybe
    <2> HIDE DEF c, snap
    <2>4. /\ y \in Requests /\ y.phase = "saved" /\ y.kind = c.kind /\ y.pos = c.pos /\ y.owner = c.owner
          /\ y.book = c.book /\ y.todo = c.todo /\ y.snap = snap
      BY <1>v, <2>2 DEF Requests
    <2>5. /\ z \in Requests /\ z.phase = "conflict" /\ z.kind = c.kind /\ z.pos = c.pos /\ z.owner = c.owner
          /\ z.book = c.book /\ z.todo = c.todo
      BY <1>v DEF Requests
    <2> HIDE DEF y, z
    <2>6. RequestOK(y) /\ RequestOK(z)
      BY <1>u, <2>2, <2>4, <2>5 DEF RequestOK
    <2>7. RequestOK(n) /\ n.owner = c.owner /\ n.kind = c.kind /\ n # NoCall
      BY <2>4, <2>5, <2>6, SentinelAssumption
    <2> HIDE DEF n
    <2>8. x = NoCall \/ RequestOK(x)
      BY <2>7
    <2>9. (Listens(x) => Listens(c)) /\ (Saves(c) => Saves(x))
      BY <1>t, <2>7 DEF Listens, Saves
    <2>10. now' \in Nat /\ UNCHANGED <<reader, storage>> /\ End(d, s, x)
      BY <1>t, <2>1
    <2> HIDE DEF x
    <2> USE DEF c
    <2> QED BY <2>3, <2>8, <2>9, <2>10, CallMoved
  <1>3. CASE Get(d, s)
    <2> DEFINE snap == server[c.book]
               n == [c EXCEPT !.phase = "read", !.snap = snap]
    <2>1. End(d, s, n) /\ UNCHANGED <<now, server, reader, storage>>
      BY <1>3 DEF Get
    <2>2. snap \in Snapshots \cup {NoSnapshot}
      BY <1>t, <1>u DEF Maybe
    <2> HIDE DEF c, snap
    <2>3. /\ n \in Requests /\ n.phase = "read" /\ n.kind = c.kind /\ n.pos = c.pos /\ n.owner = c.owner
          /\ n.book = c.book /\ n.todo = c.todo
      BY <1>v, <2>2 DEF Requests
    <2> HIDE DEF n
    <2>4. RequestOK(n)
      BY <1>u, <2>3 DEF RequestOK
    <2>5. n # NoCall
      BY <2>3, SentinelAssumption
    <2>6. (Listens(n) => Listens(c)) /\ (Saves(c) => Saves(n))
      BY <1>t, <2>3, <2>5 DEF Listens, Saves
    <2> USE DEF c
    <2> QED BY <1>t, <2>1, <2>4, <2>6, CallMoved
  <1>4. CASE Refuse(d, s)
    <2> DEFINE n == [c EXCEPT !.phase = "refused"]
               x == IF c.owner = "gone" THEN NoCall ELSE n
    <2>1. End(d, s, x) /\ UNCHANGED <<now, server, reader, storage>>
      BY <1>4 DEF Refuse
    <2> HIDE DEF c
    <2>3. /\ n \in Requests /\ n.phase = "refused" /\ n.kind = c.kind /\ n.pos = c.pos /\ n.owner = c.owner
          /\ n.book = c.book /\ n.todo = c.todo
      BY <1>v DEF Requests
    <2> HIDE DEF n
    <2>4. RequestOK(n)
      BY <1>u, <2>3 DEF RequestOK
    <2>5. n # NoCall
      BY <2>3, SentinelAssumption
    <2>6. (Listens(x) => Listens(c)) /\ (Saves(c) => Saves(x)) /\ (x = NoCall \/ RequestOK(x))
      BY <1>t, <2>3, <2>4, <2>5 DEF Listens, Saves
    <2>7. now' \in Nat /\ server' \in [Books -> Maybe] /\ UNCHANGED <<reader, storage>> /\ End(d, s, x)
      BY <1>t, <2>1
    <2> HIDE DEF x
    <2> USE DEF c
    <2> QED BY <2>6, <2>7, CallMoved
  <1> QED BY <1>1, <1>2, <1>3, <1>4 DEF ServerNext

-----------------------------------------------------------------------------
(* Answers *)

LEMMA QueueNames ==
  ASSUME NEW q \in Seq(Books), Unique(q), NEW b \in Books
  PROVE  Enqueue(q, b) \in Seq(Books) /\ Unique(Enqueue(q, b))
  <1>1. CASE \E i \in DOMAIN q : q[i] = b
    BY <1>1 DEF Enqueue
  <1>2. CASE ~ \E i \in DOMAIN q : q[i] = b
    <2> DEFINE a == Append(q, b)
    <2>1. Enqueue(q, b) = a
      BY <1>2 DEF Enqueue
    <2>2. /\ a \in Seq(Books) /\ DOMAIN a = 1 .. Len(q) + 1 /\ a[Len(q) + 1] = b
          /\ \A i \in 1 .. Len(q) : a[i] = q[i]
      OBVIOUS
    <2>3. DOMAIN q = 1 .. Len(q) /\ Len(q) \in Nat
      OBVIOUS
    <2> HIDE DEF a
    <2>4. ASSUME NEW i \in 1 .. Len(q) + 1, NEW j \in 1 .. Len(q) + 1, a[i] = a[j]
          PROVE  i = j
      <3>1. CASE i = Len(q) + 1 /\ j # Len(q) + 1
        BY <1>2, <2>2, <2>3, <2>4, <3>1
      <3>2. CASE j = Len(q) + 1 /\ i # Len(q) + 1
        BY <1>2, <2>2, <2>3, <2>4, <3>2
      <3>3. CASE i # Len(q) + 1 /\ j # Len(q) + 1
        <4>1. i \in DOMAIN q /\ j \in DOMAIN q /\ q[i] = q[j]
          BY <2>2, <2>3, <2>4, <3>3
        <4> QED BY <4>1 DEF Unique
      <3> QED BY <3>1, <3>2, <3>3
    <2> QED BY <2>1, <2>2, <2>4 DEF Unique
  <1> QED BY <1>1, <1>2

LEMMA UniqueRest ==
  ASSUME NEW b \in Books, NEW todo \in Seq(Books), Unique(<<b>> \o todo)
  PROVE  Unique(todo)
  <1> DEFINE all == <<b>> \o todo
             n == Len(todo)
  <1>1. DOMAIN all = 1 .. n + 1 /\ n \in Nat /\ \A k \in 1 .. n : k + 1 \in 1 .. n + 1 /\ all[k + 1] = todo[k]
    OBVIOUS
  <1> HIDE DEF all
  <1> SUFFICES ASSUME NEW i \in 1 .. n, NEW j \in 1 .. n, todo[i] = todo[j]
      PROVE  i = j
    BY DEF Unique
  <1>2. i + 1 = j + 1
    BY <1>1 DEF Unique, all
  <1> QED BY <1>2

(* A loaded position changes neither what is pending nor the saving flag. *)
LEMMA ProgressApplied ==
  ASSUME NEW r, ReaderOK(r), r.view # "closed", NEW snap \in Maybe
  PROVE  /\ ReaderOK(applyLoadedProgress(r, snap))
         /\ applyLoadedProgress(r, snap).view = r.view
         /\ applyLoadedProgress(r, snap).pending = r.pending
         /\ applyLoadedProgress(r, snap).saving = r.saving
  <1> DEFINE jump == r.view = "ready" /\ snap.time # r.applied
             a == IF jump THEN snap.time ELSE r.applied
             m == IF jump THEN snap.pos ELSE r.moving
             n == [r EXCEPT !.lastSaved = snap, !.applied = a, !.moving = m]
  <1>1. CASE snap = NoSnapshot
    BY <1>1 DEF applyLoadedProgress
  <1>2. CASE snap # NoSnapshot
    <2>1. applyLoadedProgress(r, snap) = n
      BY <1>2 DEF applyLoadedProgress, ReaderOK, Readers
    <2>2. a \in Nat /\ m \in Positions \cup {NoPosition}
      BY <1>2 DEF ReaderOK, Readers, Maybe, Snapshots
    <2> HIDE DEF a, m
    <2>3. ReaderOK(n) /\ n.view = r.view /\ n.pending = r.pending /\ n.saving = r.saving
      BY <2>2 DEF ReaderOK, Readers
    <2> QED BY <2>1, <2>3
  <1> QED BY <1>1, <1>2

(* A save that reached its end: the position it carried is settled. *)
LEMMA SaveSettled ==
  ASSUME NEW r, ReaderOK(r), r.view # "closed", NEW pos \in Positions, NEW snap \in Snapshots, snap.pos = pos,
         NEW n, n = [ClearPending(r, pos) EXCEPT !.lastSaved = snap, !.saving = FALSE]
  PROVE  ReaderOK(n) /\ n.view = r.view /\ n.saving = FALSE /\ Kept(r, n)
  <1> DEFINE p == IF r.pending = pos THEN NoPosition ELSE r.pending
             w == ClearPending(r, pos)
  <1>1. p \in Positions \cup {NoPosition} /\ (p = NoPosition /\ r.pending # NoPosition => r.pending = pos)
    BY DEF ReaderOK, Readers
  <1>2. w = [r EXCEPT !.pending = p]
    BY DEF ClearPending, ReaderOK, Readers
  <1> HIDE DEF p, w
  <1>3. w \in Readers /\ w.view = r.view /\ w.book = r.book /\ w.pending = p
    BY <1>1, <1>2 DEF ReaderOK, Readers
  <1>4. n = [w EXCEPT !.lastSaved = snap, !.saving = FALSE]
    BY DEF w
  <1>5. n \in Readers /\ n.view = r.view /\ n.book = r.book /\ n.pending = p /\ n.lastSaved = snap /\ n.saving = FALSE
    BY <1>3, <1>4 DEF Readers, Maybe
  <1>6. ReaderOK(n)
    BY <1>5 DEF ReaderOK
  <1>7. Kept(r, n)
    BY <1>1, <1>5 DEF Kept
  <1> QED BY <1>5, <1>6, <1>7

LEMMA FlagCleared ==
  ASSUME NEW r, ReaderOK(r), NEW n, n = [r EXCEPT !.saving = FALSE]
  PROVE  ReaderOK(n) /\ n.view = r.view /\ n.saving = FALSE /\ Kept(r, n)
  <1>1. /\ n \in Readers /\ n.view = r.view /\ n.saving = FALSE /\ n.book = r.book /\ n.lastSaved = r.lastSaved
        /\ n.pending = r.pending /\ n.timer = r.timer /\ n.moving = r.moving
    BY DEF ReaderOK, Readers
  <1> QED BY <1>1 DEF ReaderOK, Kept

(* An answer that only its reader takes. *)
LEMMA AnswerTaken ==
  ASSUME SyncInv, NEW d \in Devices, NEW s \in Slots, calls[d][s] # NoCall,
         NEW n, Settle(d, s, n), End(d, s, NoCall), UNCHANGED <<now, server, storage>>,
         Listens(calls[d][s]) => /\ ReaderOK(n) /\ n.view = reader[d].view
                                 /\ n.saving => reader[d].saving /\ ~ Saves(calls[d][s])
                                 /\ Kept(reader[d], n) \/ ReloadAnswered(d, s)
  PROVE  SyncInv' /\ AllKept
  <1>1. staged[d] \in [Books -> Maybe] /\ queue[d] \in Seq(Books) /\ Unique(queue[d])
    BY RowTypes
  <1>2. /\ staged' = [staged EXCEPT ![d] = staged[d]] /\ queue' = [queue EXCEPT ![d] = queue[d]]
        /\ now' \in Nat /\ server' \in [Books -> Maybe]
    BY RowTypes DEF storage, SyncInv
  <1>3. ~ Listens(NoCall)
    BY DEF Listens
  <1> QED BY <1>1, <1>2, <1>3, SettleOK

(* Its reader is open while a request has it as owner. *)
LEMMA ListenerOpen ==
  ASSUME SyncInv, NEW d \in Devices, NEW s \in Slots, Listens(calls[d][s])
  PROVE  reader[d].view # "closed" /\ ReaderOK(reader[d])
  BY RowTypes DEF DeviceOK

LEMMA ReplyStep ==
  ASSUME SyncInv, NEW d \in Devices, NEW s \in Slots, AnswerNext(d, s)
  PROVE  SyncInv' /\ AllKept
  <1> DEFINE c == calls[d][s]
             r == reader[d]
  <1>t. c # NoCall /\ c.owner # "gone"
    BY DEF AnswerNext, SaveAnswered, SaveConflicted, SaveRefused, SaveLost, ReloadAnswered, ReloadFailed,
           LoadAnswered, LoadFailed, RefreshAnswered, RefreshFailed, SyncAnswered, SyncLost, Awaits
  <1>u. RequestOK(c) /\ c.book \in Books
    BY <1>t, RequestType
  <1>v. c \in Requests /\ c.snap \in Maybe
    BY <1>u DEF RequestOK, Requests, Maybe
  <1>w. now \in Nat /\ server \in [Books -> Maybe] /\ staged[d] \in [Books -> Maybe]
    BY RowTypes DEF SyncInv
  <1>x. Listens(c) => r.view # "closed" /\ ReaderOK(r)
    BY ListenerOpen
  <1>1. CASE SaveAnswered(d, s)
    <2> DEFINE n == [ClearPending(r, c.pos) EXCEPT !.lastSaved = c.snap, !.saving = FALSE]
    <2>1. /\ c.kind = "save" /\ c.phase = "saved" /\ Settle(d, s, n) /\ End(d, s, NoCall)
          /\ UNCHANGED <<now, server, storage>>
      BY <1>1 DEF SaveAnswered, Awaits
    <2>2. c.pos \in Positions /\ c.snap \in Snapshots /\ c.snap.pos = c.pos
      BY <1>u, <2>1 DEF RequestOK, Posts
    <2>3. Listens(c) => ReaderOK(n) /\ n.view = r.view /\ n.saving = FALSE /\ Kept(r, n)
      BY <1>x, <2>2, SaveSettled
    <2> HIDE DEF n
    <2> QED BY <1>t, <2>1, <2>3, AnswerTaken
  <1>2. CASE SaveConflicted(d, s)
    <2> DEFINE k == "reload"
               new == NewCall(k, c.book, NoPosition, 0)
               n == [new EXCEPT !.owner = c.owner]
    <2>1. c.kind = "save" /\ End(d, s, n) /\ UNCHANGED <<now, server, reader, storage>>
      BY <1>2 DEF SaveConflicted, Awaits
    <2>2. RequestOK(new) /\ new.kind = "reload" /\ new.phase = "sent"
      <3> DEFINE b == c.book
      <3>1. k \in Gets \cup Posts /\ k \notin Posts /\ b \in Books /\ 0 \in Nat
        BY <1>u DEF Gets, Posts
      <3>2. new.phase = "sent" /\ new.kind = k
        BY DEF NewCall
      <3> HIDE DEF k, b
      <3>3. RequestOK(NewCall(k, b, NoPosition, 0))
        BY <3>1, NewRow
      <3> QED BY <3>2, <3>3 DEF k, b
    <2> HIDE DEF new
    <2>3. c.owner \in {"reader", "left", "gone"}
      BY <1>v DEF Requests
    <2> HIDE DEF c
    <2>4. /\ n \in Requests /\ n.owner = c.owner /\ n.kind = "reload" /\ n.phase = "sent"
      BY <2>2, <2>3 DEF RequestOK, Requests
    <2> HIDE DEF n
    <2>5. RequestOK(n) /\ n # NoCall
      BY <2>4, SentinelAssumption DEF RequestOK, Posts
    <2>6. (Listens(n) => Listens(c)) /\ (Saves(c) => Saves(n))
      BY <1>t, <2>4, <2>5 DEF Listens, Saves
    <2> USE DEF c
    <2> QED BY <1>w, <2>1, <2>5, <2>6, CallMoved
  <1>3. CASE SaveRefused(d, s)
    <2> DEFINE n == [r EXCEPT !.saving = FALSE]
    <2>1. Settle(d, s, n) /\ End(d, s, NoCall) /\ UNCHANGED <<now, server, storage>>
      BY <1>3 DEF SaveRefused
    <2>2. Listens(c) => ReaderOK(n) /\ n.view = r.view /\ n.saving = FALSE /\ Kept(r, n)
      BY <1>x, FlagCleared
    <2> HIDE DEF n
    <2> QED BY <1>t, <2>1, <2>2, AnswerTaken
  <1>4. CASE SaveLost(d, s)
    <2> DEFINE t == now + 1
               snap == [pos |-> c.pos, time |-> t, device |-> d]
               n == [ClearPending(r, c.pos) EXCEPT !.lastSaved = snap, !.saving = FALSE]
               st == [staged[d] EXCEPT ![c.book] = snap]
               q == Enqueue(queue[d], c.book)
    <2>1. /\ c.kind = "save" /\ now' = t /\ staged' = [staged EXCEPT ![d] = st]
          /\ queue' = [queue EXCEPT ![d] = q] /\ Settle(d, s, n) /\ UNCHANGED server
      BY <1>4, RowTypes DEF SaveLost, Awaits, SyncInv
    <2>2. PICK x \in Remains(c) : End(d, s, x)
      BY <1>4 DEF SaveLost
    <2>3. c.pos \in Positions /\ t \in Nat
      BY <1>u, <1>w, <2>1 DEF RequestOK, Posts
    <2>4. snap \in Snapshots /\ snap.pos = c.pos
      BY <2>3 DEF Snapshots
    <2> HIDE DEF snap, t
    <2>5. Listens(c) => ReaderOK(n) /\ n.view = r.view /\ n.saving = FALSE /\ Kept(r, n)
      BY <1>x, <2>3, <2>4, SaveSettled
    <2>6. st \in [Books -> Maybe]
      BY <1>u, <1>w, <2>4 DEF Maybe
    <2>7. q \in Seq(Books) /\ Unique(q)
      BY <1>u, RowTypes, QueueNames
    <2>8. (x = NoCall \/ RequestOK(x)) /\ ~ Listens(x)
      BY <1>u, <2>2, RemainsOK
    <2>9. now' \in Nat /\ server' \in [Books -> Maybe]
      BY <1>w, <2>1, <2>3
    <2> HIDE DEF n, st, q
    <2> QED BY <1>t, <2>1, <2>2, <2>5, <2>6, <2>7, <2>8, <2>9, SettleOK
  <1>5. CASE ReloadAnswered(d, s)
    <2> DEFINE w == applyLoadedProgress(r, c.snap)
               n == [w EXCEPT !.pending = NoPosition, !.saving = FALSE]
    <2>1. Settle(d, s, n) /\ End(d, s, NoCall) /\ UNCHANGED <<now, server, storage>>
      BY <1>5 DEF ReloadAnswered
    <2>2. Listens(c) => ReaderOK(w) /\ w.view = r.view /\ w.view # "closed"
      BY <1>v, <1>x, ProgressApplied
    <2> HIDE DEF w
    <2>3. Listens(c) => ReaderOK(n) /\ n.view = r.view /\ n.saving = FALSE
      BY <2>2 DEF ReaderOK, Readers
    <2> HIDE DEF n
    <2> QED BY <1>t, <1>5, <2>1, <2>3, AnswerTaken
  <1>6. CASE ReloadFailed(d, s)
    <2> DEFINE n == [r EXCEPT !.saving = FALSE]
    <2>1. Settle(d, s, n) /\ End(d, s, NoCall) /\ UNCHANGED <<now, server, storage>>
      BY <1>6 DEF ReloadFailed
    <2>2. Listens(c) => ReaderOK(n) /\ n.view = r.view /\ n.saving = FALSE /\ Kept(r, n)
      BY <1>x, FlagCleared
    <2> HIDE DEF n
    <2> QED BY <1>t, <2>1, <2>2, AnswerTaken
  <1>7. CASE LoadAnswered(d, s)
    <2> DEFINE cached == staged[d][c.book]
               snap == IF TimeOf(cached) > TimeOf(c.snap) THEN cached ELSE c.snap
               n == applyLoadedProgress(r, snap)
    <2>1. c.kind = "load" /\ Settle(d, s, n) /\ End(d, s, NoCall) /\ UNCHANGED <<now, server, storage>>
      BY <1>7 DEF LoadAnswered, Awaits
    <2>2. snap \in Maybe
      BY <1>u, <1>v, <1>w
    <2> HIDE DEF snap
    <2>3. Listens(c) => ReaderOK(n) /\ n.view = r.view /\ n.saving = r.saving /\ n.pending = r.pending
      BY <1>x, <2>2, ProgressApplied
    <2> HIDE DEF n
    <2>4. Listens(c) => Kept(r, n)
      BY <2>3 DEF Kept
    <2>5. ~ Saves(c)
      BY <2>1 DEF Saves
    <2> QED BY <1>t, <2>1, <2>3, <2>4, <2>5, AnswerTaken
  <1>8. CASE LoadFailed(d, s)
    <2> DEFINE snap == staged[d][c.book]
               n == applyLoadedProgress(r, snap)
    <2>1. c.kind = "load" /\ Settle(d, s, n) /\ End(d, s, NoCall) /\ UNCHANGED <<now, server, storage>>
      BY <1>8 DEF LoadFailed, Awaits
    <2>2. snap \in Maybe
      BY <1>u, <1>w
    <2> HIDE DEF snap
    <2>3. Listens(c) => ReaderOK(n) /\ n.view = r.view /\ n.saving = r.saving /\ n.pending = r.pending
      BY <1>x, <2>2, ProgressApplied
    <2> HIDE DEF n
    <2>4. Listens(c) => Kept(r, n)
      BY <2>3 DEF Kept
    <2>5. ~ Saves(c)
      BY <2>1 DEF Saves
    <2> QED BY <1>t, <2>1, <2>3, <2>4, <2>5, AnswerTaken
  <1>9. CASE RefreshAnswered(d, s)
    <2> DEFINE newer == /\ c.snap # NoSnapshot /\ c.snap.device # d
                        /\ c.snap.time > TimeOf(r.lastSaved)
               n == IF newer THEN applyLoadedProgress(r, c.snap) ELSE r
    <2>1. c.kind = "refresh" /\ Settle(d, s, n) /\ End(d, s, NoCall) /\ UNCHANGED <<now, server, storage>>
      BY <1>9 DEF RefreshAnswered, Awaits
    <2> HIDE DEF newer
    <2>3. Listens(c) => ReaderOK(n) /\ n.view = r.view /\ n.saving = r.saving /\ n.pending = r.pending
      BY <1>v, <1>x, ProgressApplied
    <2> HIDE DEF n
    <2>4. Listens(c) => Kept(r, n)
      BY <2>3 DEF Kept
    <2>5. ~ Saves(c)
      BY <2>1 DEF Saves
    <2> QED BY <1>t, <2>1, <2>3, <2>4, <2>5, AnswerTaken
  <1>10. CASE RefreshFailed(d, s)
    <2>1. c.kind = "refresh" /\ End(d, s, NoCall) /\ UNCHANGED <<now, server, reader, storage>>
      BY <1>10 DEF RefreshFailed, Awaits
    <2>2. ~ Saves(c) /\ ~ Listens(NoCall)
      BY <2>1 DEF Saves, Listens
    <2> QED BY <1>w, <2>1, <2>2, CallMoved
  <1>11. CASE SyncAnswered(d, s)
    <2> DEFINE store == [staged[d] EXCEPT ![c.book] = NoSnapshot]
               step == SyncStep(queue[d], c.todo, store)
               y == step.call
               q == step.queue
               n == [y EXCEPT !.owner = c.owner]
               x == IF y = NoCall THEN NoCall ELSE n
               cs == [calls[d] EXCEPT ![s] = x]
    <2>1. /\ c.kind = "sync" /\ staged' = [staged EXCEPT ![d] = store]
          /\ queue' = [queue EXCEPT ![d] = q] /\ End(d, s, x) /\ UNCHANGED <<now, server, reader>>
      BY <1>11 DEF SyncAnswered, Awaits
    <2>2. store \in [Books -> Maybe]
      BY <1>u, <1>w DEF Maybe
    <2>3. c.todo \in Seq(Books) /\ Unique(c.todo)
      <3>1. c.todo \in Seq(Books) /\ Unique(<<c.book>> \o c.todo)
        BY <1>u, <1>v, <2>1 DEF RequestOK, Requests
      <3> QED BY <1>u, <3>1, UniqueRest
    <2>4. q \in Seq(Books) /\ Unique(q) /\ (y = NoCall \/ (RequestOK(y) /\ y.kind = "sync"))
      <3> DEFINE todo == c.todo
                 old == queue[d]
      <3>1. old \in Seq(Books) /\ Unique(old) /\ todo \in Seq(Books) /\ Unique(todo) /\ step = SyncStep(old, todo, store)
        BY <2>3, RowTypes
      <3> HIDE DEF todo, old, store, step
      <3> QED BY <2>2, <3>1, SyncStepOK
    <2>5. c.owner \in {"reader", "left", "gone"}
      BY <1>v DEF Requests
    <2> HIDE DEF step, y, q, c, store
    <2>6. x = NoCall \/ (RequestOK(x) /\ x.owner = c.owner)
      <3>1. CASE y = NoCall
        <4> HIDE DEF n
        <4> QED BY <3>1
      <3>2. CASE y # NoCall
        <4>1. /\ n \in Requests /\ n.owner = c.owner /\ n.kind = y.kind /\ n.phase = y.phase /\ n.pos = y.pos
              /\ n.snap = y.snap /\ n.book = y.book /\ n.todo = y.todo
          BY <2>4, <2>5, <3>2 DEF RequestOK, Requests
        <4> HIDE DEF n
        <4>2. RequestOK(n)
          BY <2>4, <3>2, <4>1 DEF RequestOK
        <4> QED BY <3>2, <4>1, <4>2
      <3> QED BY <3>1, <3>2
    <2>7. (Listens(x) => Listens(c)) /\ ~ Saves(c)
      BY <1>t, <2>1, <2>6 DEF Listens, Saves
    <2> HIDE DEF x
    <2> USE DEF c
    <2>8. DeviceOK(r, cs, staged[d], queue[d])
      BY <2>6, <2>7, RowTypes, RequestMoved
    <2>9. calls' = [calls EXCEPT ![d] = cs] /\ calls'[d] = cs /\ staged'[d] = store /\ queue'[d] = q /\ reader'[d] = r
      BY <2>1, RowTypes DEF End, SyncInv
    <2> HIDE DEF cs
    <2>10. DeviceOK(r, cs, store, q)
      BY <2>2, <2>4, <2>8, OthersChanged
    <2>11. Row(d)
      BY <2>1, <2>9, RowTypes DEF Row
    <2>12. Kept(r, reader'[d])
      BY <2>9 DEF Kept
    <2>13. now' \in Nat /\ server' \in [Books -> Maybe]
      BY <1>w, <2>1
    <2> QED BY <2>9, <2>10, <2>11, <2>12, <2>13, RowStep
  <1>12. CASE SyncLost(d, s)
    <2> DEFINE q == <<c.book>> \o c.todo
    <2>1. c.kind = "sync" /\ queue' = [queue EXCEPT ![d] = q] /\ UNCHANGED <<now, server, reader, staged>>
      BY <1>12 DEF SyncLost, Awaits
    <2>2. PICK x \in Remains(c) : End(d, s, x)
      BY <1>12 DEF SyncLost
    <2>3. q \in Seq(Books) /\ Unique(q)
      BY <1>u, <1>v, <2>1 DEF RequestOK, Requests
    <2>4. (x = NoCall \/ RequestOK(x)) /\ ~ Listens(x)
      BY <1>u, <2>2, RemainsOK
    <2>5. ~ Saves(c)
      BY <2>1 DEF Saves
    <2> DEFINE cs == [calls[d] EXCEPT ![s] = x]
    <2> HIDE DEF q
    <2>6. DeviceOK(r, cs, staged[d], queue[d])
      BY <2>4, <2>5, RowTypes, RequestMoved
    <2>7. calls' = [calls EXCEPT ![d] = cs]
      BY <2>2, RowTypes DEF End, SyncInv
    <2> HIDE DEF cs
    <2>8. DeviceOK(r, cs, staged[d], q)
      BY <1>w, <2>3, <2>6, OthersChanged
    <2> QED BY <1>w, <2>1, <2>7, <2>8, RequestsOnly
  <1> QED BY <1>1, <1>2, <1>3, <1>4, <1>5, <1>6, <1>7, <1>8, <1>9, <1>10, <1>11, <1>12 DEF AnswerNext

-----------------------------------------------------------------------------
LEMMA SyncInit ==
  ASSUME ProgressInit
  PROVE  SyncInv
  <1>1. Unmounted \in Readers /\ ReaderOK(Unmounted) /\ ~ Unmounted.saving
    BY DEF Unmounted, ReaderOK, Readers, Maybe
  <1> DEFINE cs == [s \in Slots |-> NoCall]
             st == [b \in Books |-> NoSnapshot]
             q == <<>>
  <1>2. cs \in [Slots -> Requests \cup {NoCall}] /\ CallsOK(cs) /\ \A s \in Slots : ~ Listens(cs[s])
    BY DEF CallsOK, Listens
  <1>3. st \in [Books -> Maybe] /\ q \in Seq(Books) /\ Unique(q)
    BY DEF Maybe, Unique
  <1>4. /\ now = 0 /\ server = st /\ reader = [d \in Devices |-> Unmounted] /\ staged = [d \in Devices |-> st]
        /\ queue = [d \in Devices |-> q] /\ calls = [d \in Devices |-> cs]
    BY DEF ProgressInit
  <1> HIDE DEF cs, st, q
  <1>5. DeviceOK(Unmounted, cs, st, q)
    BY <1>1, <1>2, <1>3 DEF DeviceOK
  <1> QED BY <1>1, <1>2, <1>3, <1>4, <1>5 DEF SyncInv

LEMMA SyncStepKept ==
  ASSUME SyncInv, Next
  PROVE  SyncInv' /\ AllKept
  <1>1. PICK d \in Devices :
           \/ PageNext(d)
           \/ \E s \in Slots : ServerNext(d, s) \/ Refuse(d, s) \/ AnswerNext(d, s)
    BY DEF Next
  <1> QED BY <1>1, PageStep, ServerStep, ReplyStep

LEMMA HooksStepKept ==
  ASSUME SyncInv, [HooksNext]_hooksVars
  PROVE  SyncInv' /\ (AllKept \/ UNCHANGED reader)
  <1>1. CASE Next
    BY <1>1, SyncStepKept
  <1>2. CASE UNCHANGED placeVars
    BY <1>2 DEF placeVars, SyncInv
  <1> QED BY <1>1, <1>2 DEF HooksNext, hooksVars

LEMMA SyncInvSafe ==
  ASSUME SyncInv
  PROVE  TypeOK /\ SavingHasCall
  <1>1. \A d \in Devices : Unique(queue[d])
    BY RowTypes
  <1>2. TypeOK
    BY <1>1 DEF SyncInv, TypeOK, Readers, Maybe, Unique
  <1>3. SavingHasCall
    <2> SUFFICES ASSUME NEW d \in Devices, reader[d].saving
        PROVE  \E s \in Slots : /\ calls[d][s] # NoCall
                                /\ calls[d][s].kind \in {"save", "reload"}
                                /\ calls[d][s].owner = "reader"
      BY DEF SavingHasCall
    <2>1. Busy(calls[d])
      BY RowTypes DEF DeviceOK
    <2> QED BY <2>1 DEF Busy, Saves, Listens
  <1> QED BY <1>2, <1>3

(* The position client of useProgress.ts, for any number of devices, books *)
(* and requests and any faults: types hold, a queue names a book once, the *)
(* saving flag stands for a save or a reload under way, and a position     *)
(* still to be saved is dropped only when it was saved, staged or replaced *)
(* by the answer to a conflict.                                            *)
THEOREM ProgressPositionsSafe == HooksSpec => PositionsSafe
  <1>1. HooksInit => SyncInv
    BY SyncInit DEF HooksInit
  <1>2. SyncInv /\ [HooksNext]_hooksVars => SyncInv'
    BY HooksStepKept
  <1>3. SyncInv => TypeOK /\ SavingHasCall
    BY SyncInvSafe
  <1> DEFINE Drop == \A d \in Devices :
         (reader[d].view = "ready" /\ reader'[d].view = "ready"
            /\ reader[d].pending # NoPosition /\ reader'[d].pending = NoPosition)
         => \/ reader'[d].lastSaved.pos = reader[d].pending
            \/ \E s \in Slots : ReloadAnswered(d, s)
  <1>4. SyncInv /\ [HooksNext]_hooksVars => [Drop]_vars
    BY HooksStepKept DEF AllKept, Kept
  <1> QED BY <1>1, <1>2, <1>3, <1>4, PTL DEF HooksSpec, PositionsSafe, PendingKept
==============================================================================
