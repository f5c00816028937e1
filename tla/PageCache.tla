----------------------------- MODULE PageCache -----------------------------
(***************************************************************************)
(* The app without a connection: the service worker (public/sw.js), its    *)
(* registration by every page (components/ServiceWorkerRegistration.tsx),  *)
(* and the caches its versions keep while new ones are deployed.           *)
(*                                                                         *)
(* A release is a number, and so is the content of a response: the release *)
(* it came from.  A worker is named by the release that changed CACHE_NAME *)
(* and with it sw.js; other releases leave the worker.  The browser is     *)
(* external: a new worker waits until the active one has no fetch pending, *)
(* and replacing a worker ends the puts nobody awaits.                     *)
(***************************************************************************)
EXTENDS ClientEvents, Sequences, SequencesExt

CONSTANT MaxReleases
ASSUME ReleasesAssumption == MaxReleases \in Nat \ {0}

VARIABLES
    site,      \* the server: the release, and the one its sw.js is of
    worker,    \* the registration: workers active, waiting and installing; 0: none
    stores,    \* Cache Storage: the caches in the order of their creation
    fetches,   \* fetch events being handled, and puts not yet done
    answer     \* the last response to a page, and the worker that gave it

pageCacheVars == <<site, worker, stores, fetches, answer, events>>

(* STATIC_ASSETS stand for "/", which is a page; the engine is under /foliate/. *)
Home == "home"
Pages == {Home, "shelf"}
Engine == "engine"
Resources == Pages \cup {"style", Engine}

Empty == [r \in Resources |-> 0]
Store(name, kept) == [name |-> name, kept |-> kept]
NoResponse == [what |-> Home, from |-> "none", release |-> 0, by |-> 0]

(* A first visit, or one with the worker of the first release. *)
PageCacheInit ==
    /\ site = [release |-> 1, worker |-> 1]
    /\ fetches = {} /\ answer = NoResponse
    /\ \/ /\ worker = [active |-> 0, waiting |-> 0, installing |-> 0, robbed |-> {}]
          /\ stores = <<>>
       \/ /\ worker = [active |-> 1, waiting |-> 0, installing |-> 0, robbed |-> {}]
          /\ stores = <<Store(1, [Empty EXCEPT ![Home] = 1])>>

(* The cache of that name, if there is one: names are unique. *)
Named(name) == {i \in DOMAIN stores : stores[i].name = name}

(* caches.open creates what is not there; a put into a deleted cache is lost. *)
Opened(name) ==
    IF Named(name) # {} THEN stores ELSE Append(stores, Store(name, Empty))
Put(name, r, release) ==
    [i \in DOMAIN stores |-> IF stores[i].name = name THEN [stores[i] EXCEPT !.kept[r] = release] ELSE stores[i]]

(* caches.match asks every cache, the oldest first; 0: nothing. *)
Match(r) ==
    LET i == SelectInSeq(stores, LAMBDA s : s.kept[r] # 0) IN IF i = 0 THEN 0 ELSE stores[i].kept[r]

-----------------------------------------------------------------------------
(* Releases and workers. *)

Deploy ==
    /\ External
    /\ site.release < MaxReleases
    /\ \E changed \in BOOLEAN :
         site' = [release |-> site.release + 1, worker |-> IF changed THEN site.release + 1 ELSE site.worker]
    /\ UNCHANGED <<worker, stores, fetches, answer>>

(* A page registers /sw.js; the browser installs one it does not have. *)
Register ==
    /\ External
    /\ worker.installing = 0 /\ site.worker \notin {worker.active, worker.waiting}
    /\ worker' = [worker EXCEPT !.installing = site.worker]
    /\ stores' = Opened(site.worker)
    /\ UNCHANGED <<site, fetches, answer>>

(* addAll stores all of STATIC_ASSETS, or install fails; skipWaiting. *)
InstallEnds ==
    /\ worker.installing # 0
    /\ \/ /\ worker' = [worker EXCEPT !.installing = 0, !.waiting = worker.installing]
          /\ stores' = Put(worker.installing, Home, site.release)
       \/ /\ worker' = [worker EXCEPT !.installing = 0, !.robbed = @ \ {worker.installing}]
          /\ UNCHANGED stores
    /\ Internal
    /\ UNCHANGED <<site, fetches, answer>>

(* activate: every other cache goes, also that of a newer worker being installed. *)
Activate ==
    /\ worker.waiting # 0 /\ \A f \in fetches : f.at = "put"
    /\ worker' = [worker EXCEPT !.active = worker.waiting, !.waiting = 0,
                                !.robbed = @ \cup ({worker.installing} \ {0})]
    /\ stores' = IF Named(worker.waiting) = {} THEN <<>>
                 ELSE <<stores[CHOOSE i \in Named(worker.waiting) : TRUE]>>
    /\ fetches' = {}
    /\ Internal
    /\ UNCHANGED <<site, answer>>

-----------------------------------------------------------------------------
(* Fetches. *)

FetchAt(r, at, release) == [what |-> r, at |-> at, release |-> release]
Moves(f, at) == fetches' = (fetches \ {f}) \cup {FetchAt(f.what, at, 0)} /\ UNCHANGED answer
Answers(f, from, release) ==
    answer' = [what |-> f.what, from |-> from, release |-> release, by |-> worker.active]

(* The fetch listener: /foliate/ cache first, the rest network first. *)
HandleFetch ==
    /\ External
    /\ worker.active # 0
    /\ \E r \in Resources : fetches' = fetches \cup {FetchAt(r, IF r = Engine THEN "match" ELSE "network", 0)}
    /\ UNCHANGED <<site, worker, stores, answer>>

(* cacheFirst: what is in any cache is the answer; else the own cache is opened. *)
CacheFirst(f) ==
    /\ f.at = "match"
    /\ IF Match(f.what) # 0
       THEN Answers(f, "cache", Match(f.what)) /\ fetches' = fetches \ {f} /\ UNCHANGED stores
       ELSE Moves(f, "network") /\ stores' = Opened(worker.active)
    /\ UNCHANGED <<site, worker>>

(* The network answers; a good response is put into the worker's cache, later. *)
NetworkAnswers(f) ==
    /\ f.at = "network"
    /\ Answers(f, "network", site.release)
    /\ \E good \in BOOLEAN :
         fetches' = (fetches \ {f}) \cup (IF good THEN {FetchAt(f.what, "put", site.release)} ELSE {})
    /\ stores' = Opened(worker.active)
    /\ UNCHANGED <<site, worker>>

PutEnds(f) ==
    /\ f.at = "put"
    /\ stores' \in {stores, Put(worker.active, f.what, f.release)}
    /\ fetches' = fetches \ {f}
    /\ UNCHANGED <<site, worker, answer>>

(* The network fails: cacheFirst gives up, networkFirst turns to the caches. *)
NetworkGone(f) ==
    /\ f.at = "network"
    /\ stores' = Opened(worker.active)
    /\ IF f.what = Engine
       THEN Answers(f, "unavailable", 0) /\ fetches' = fetches \ {f}
       ELSE Moves(f, "fallback")
    /\ UNCHANGED <<site, worker>>

(* networkFirst, catch: the request, else "/" for a page; undefined is no response at all. *)
Fallback(f) ==
    /\ f.at \in {"fallback", "home"}
    /\ LET found == Match(IF f.at = "home" THEN Home ELSE f.what) IN
       IF found = 0 /\ f.at = "fallback" /\ f.what \in Pages THEN Moves(f, "home")
       ELSE /\ Answers(f, IF found # 0 THEN "cache" ELSE IF f.at = "home" THEN "nothing" ELSE "unavailable", found)
            /\ fetches' = fetches \ {f}
    /\ UNCHANGED <<site, worker, stores>>

PageCacheNext ==
    \/ Deploy \/ Register \/ InstallEnds \/ Activate \/ HandleFetch
    \/ Internal /\ \E f \in fetches :
         CacheFirst(f) \/ NetworkAnswers(f) \/ PutEnds(f) \/ NetworkGone(f) \/ Fallback(f)

-----------------------------------------------------------------------------
(* Without the network a page is always shown, whatever releases came and      *)
(* whichever workers replaced each other: the one case is a worker whose cache *)
(* an older one deleted as it took over (sw.js, install and activate).         *)
ShellAlways ==
    (answer.what \in Pages /\ answer.from \in {"nothing", "unavailable"}) => answer.by \in worker.robbed

(* The engine a worker takes from a cache is not older than the worker: a new  *)
(* worker ends the reign of the files kept before it (sw.js, activate).        *)
EngineNotOlder == (answer.what = Engine /\ answer.from = "cache") => answer.release >= answer.by
=============================================================================
