----------------------------- MODULE BookLoader -----------------------------
(***************************************************************************)
(* The files of an open EPUB as object URLs: class Loader of               *)
(* frontend/public/foliate/epub.js, driven by the paginator that shows one *)
(* section at a time (paginator.js, #goTo).  Loading an item loads what it *)
(* refers to first, one after the other, and puts their URLs into its      *)
(* text; an item is counted once for each item it is a child of, and a     *)
(* count of zero revokes its URL and gives up its children.                *)
(*                                                                         *)
(* URLs are numbered as they are created.  Two sections may be loading at  *)
(* the same time, when the reader jumps twice.  Items the page refuses     *)
(* (the allow of the load event) and items without text, for which there   *)
(* is no URL and no count, are left out.                                   *)
(***************************************************************************)
EXTENDS ClientEvents, Sequences, FiniteSets, SequencesExt

CONSTANTS
    Spine,   \* items that are sections
    Items,      \* all items of the manifest
    Uses        \* what each item refers to, in order

VARIABLES
    loader,   \* #cache, #refCount, #children; every URL made, those alive
    jobs,     \* the sections being loaded: a stack of items with their open references
    shown     \* the section in the page, its URL, and the one it replaces

loaderVars == <<loader, jobs, shown, events>>

ASSUME LoaderAssumption == Spine \subseteq Items /\ Uses \in [Items -> Seq(Items)]

Nobody == "nobody"   \* the parent of a section: undefined
NoURL == 0

Loads == {"first", "second"}
NoJob == [stack |-> <<>>, section |-> Nobody, url |-> NoURL, old |-> Nobody]

LoaderInit ==
    /\ loader = [cache |-> [i \in Items |-> NoURL], count |-> [i \in Items |-> 0],
                 children |-> [p \in Items \cup {Nobody} |-> <<>>],
                 urls |-> <<>>, live |-> {}]
    /\ jobs = [s \in Loads |-> NoJob]
    /\ shown = [index |-> Nobody, url |-> NoURL, old |-> Nobody, loading |-> FALSE,
                overlap |-> FALSE, failed |-> FALSE]   \* history: loads overlapped, one failed

(***************************************************************************)
(* The loader                                                              *)
(***************************************************************************)

(* createURL: its text holds the URLs it was given for its references. *)
CreateURL(L, item, parent, uses) ==
    LET u == Len(L.urls) + 1
    IN  [L EXCEPT !.cache[item] = u, !.count[item] = 1,
                  !.urls = Append(@, uses), !.live = @ \cup {u},
                  !.children[parent] = IF parent = Nobody THEN @ ELSE Append(@, item)]

(* ref: a parent counts once. *)
Ref(L, item, parent) ==
    IF Contains(L.children[parent], item) THEN L
    ELSE [L EXCEPT !.count[item] = @ + 1, !.children[parent] = Append(@, item)]

(* Mutant: an item that goes leaves its children counted. *)
UnrefAlone(L, item) ==
    IF L.count[item] = 0 THEN L
    ELSE IF L.count[item] > 1 THEN [L EXCEPT !.count[item] = @ - 1]
    ELSE [L EXCEPT !.count[item] = 0, !.cache[item] = NoURL, !.live = @ \ {L.cache[item]},
                   !.children[item] = <<>>]

(* unref: at zero the URL is revoked and the children lose one count, the last one first. *)
UnrefLast(w) ==
    LET L == w.loader
        i == Last(w.todo)
        rest == Front(w.todo)
    IN  CASE L.count[i] = 0 -> [loader |-> L, todo |-> rest]
          [] L.count[i] > 1 -> [loader |-> [L EXCEPT !.count[i] = @ - 1], todo |-> rest]
          [] OTHER -> [loader |-> [L EXCEPT !.count[i] = 0, !.cache[i] = NoURL, !.live = @ \ {L.cache[i]},
                                            !.children[i] = <<>>],
                       todo |-> rest \o L.children[i]]

(* As it goes, it visits a reference at most once. *)
UnrefAll(L, todo) ==
    LET refs == UNION {{p} \X DOMAIN L.children[p] : p \in Items}
        after[n \in Nat] ==
          IF n = 0 THEN [loader |-> L, todo |-> todo]
          ELSE LET w == after[n - 1] IN IF w.todo = <<>> THEN w ELSE UnrefLast(w)
    IN  after[Len(todo) + Cardinality(refs)].loader

Unref(L, item) == UnrefAll(L, <<item>>)

(***************************************************************************)
(* Loading a section                                                       *)
(***************************************************************************)
Frame(item, open) == [item |-> item, open |-> open, got |-> {}]
Reading(j) == Last(j.stack)
Below(j) == IF Len(j.stack) > 1 THEN j.stack[Len(j.stack) - 1].item ELSE Nobody
Circular(j, item) == \E k \in DOMAIN j.stack : j.stack[k].item = item

(* The next reference of the item on top has its URL. *)
Got(j, u) == [j EXCEPT !.stack = Front(@) \o <<[Reading(j) EXCEPT !.open = Tail(@), !.got = @ \cup {u}]>>]

(* loadHref and loadItem for the next reference: in the cache, or to be read itself; *)
(* one that refers back to an item being read is taken as it is.                     *)
LoadHref(slot) ==
    LET j == jobs[slot]
        item == Head(Reading(j).open)
        u == loader.cache[item]
    IN  /\ j.stack # <<>> /\ Reading(j).open # <<>>
        /\ IF u # NoURL
           THEN /\ loader' = Ref(loader, item, Reading(j).item)
                /\ jobs' = [jobs EXCEPT ![slot] = Got(j, u)]
           ELSE /\ jobs' = [jobs EXCEPT ![slot].stack =
                              Append(@, Frame(item, IF Circular(j, item) THEN <<>> ELSE Uses[item]))]
                /\ UNCHANGED loader
        /\ UNCHANGED shown

(* Everything it refers to is there: loadReplaced or loadItem ends with a URL of its own. *)
ItemLoaded(slot) ==
    LET j == jobs[slot]
        u == Len(loader.urls) + 1
    IN  /\ j.stack # <<>> /\ Reading(j).open = <<>>
        /\ loader' = CreateURL(loader, Reading(j).item, Below(j), Reading(j).got)
        /\ jobs' = [jobs EXCEPT ![slot] =
                       IF Below(j) = Nobody THEN [j EXCEPT !.stack = <<>>, !.url = u]
                       ELSE Got([j EXCEPT !.stack = Front(@)], u)]
        /\ UNCHANGED shown

(***************************************************************************)
(* The paginator                                                           *)
(***************************************************************************)

(* #goTo: load the section; the one to unload later is the one there is now. *)
LoadSection(slot, s) ==
    /\ jobs[slot] = NoJob /\ s # shown.index
    /\ LET j == [NoJob EXCEPT !.section = s, !.old = shown.index]
       IN  IF loader.cache[s] # NoURL
           THEN loader' = Ref(loader, s, Nobody) /\ jobs' = [jobs EXCEPT ![slot] = [j EXCEPT !.url = loader.cache[s]]]
           ELSE jobs' = [jobs EXCEPT ![slot] = [j EXCEPT !.stack = <<Frame(s, Uses[s])>>]] /\ UNCHANGED loader
    /\ shown' = [shown EXCEPT !.overlap = @ \/ shown.loading \/ \E o \in Loads : jobs[o] # NoJob]

(* #display: the view is replaced, loaded or not. *)
DisplaySection(slot) ==
    LET j == jobs[slot] IN
    /\ j.url # NoURL
    /\ shown' = [shown EXCEPT !.index = j.section, !.url = j.url, !.old = j.old, !.loading = TRUE]
    /\ jobs' = [jobs EXCEPT ![slot] = NoJob]
    /\ UNCHANGED loader

(* A file cannot be read: the index is undefined from then on, the old section stays. *)
LoadFails(slot) ==
    /\ jobs[slot].stack # <<>>
    /\ jobs' = [jobs EXCEPT ![slot] = NoJob]
    /\ shown' = [shown EXCEPT !.index = Nobody, !.failed = TRUE]
    /\ UNCHANGED loader

(* onLoad: the section that was there before is unloaded. *)
OnLoad ==
    /\ shown.loading
    /\ loader' = IF shown.old = Nobody THEN loader ELSE Unref(loader, shown.old)
    /\ shown' = [shown EXCEPT !.loading = FALSE]
    /\ UNCHANGED jobs

LoaderNext ==
    \/ Internal /\ OnLoad
    \/ Internal /\ \E slot \in Loads : LoadHref(slot) \/ ItemLoaded(slot) \/ DisplaySection(slot)
    \/ External /\ \E slot \in Loads : LoadFails(slot) \/ \E s \in Spine : LoadSection(slot, s)

(***************************************************************************)
(* Properties                                                              *)
(***************************************************************************)

(* A URL with all the URLs in its text, and in theirs. *)
Reach(u) ==
    LET R[v \in 1 .. Len(loader.urls)] == {v} \cup UNION {R[w] : w \in loader.urls[v]} IN R[u]

(* The page is never given, and never keeps, a section with a dead reference  *)
(* in it, however the items are shared between sections and with style sheets *)
(* (ref, unref).  Loads that overlapped may break this: they count an item    *)
(* both were reading as one (createURL).                                      *)
ShownAlive == (shown.url # NoURL /\ ~shown.overlap) => Reach(shown.url) \subseteq loader.live

(* Nothing leaks: when no section is loading, the URLs alive are those of the *)
(* section shown, unless loads overlapped or failed (unref, onLoad).          *)
OnlyShownAlive ==
    (shown.url # NoURL /\ ~shown.loading /\ ~shown.overlap /\ ~shown.failed /\ \A s \in Loads : jobs[s] = NoJob)
        => loader.live = Reach(shown.url)

(* Together: the resources alive are those of the section in the page. *)
ResourcesSafe == OnlyShownAlive /\ ShownAlive
=============================================================================
