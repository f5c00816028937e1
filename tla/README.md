# z-reader: a TLA+ verification project

z-reader is a self-hosted e-book reader: a Go backend (`src/backend`) that keeps
the library of every account in a bbolt database and a directory of uploaded
files and synthesises speech through an external service, and a Next.js client
(`src/frontend`) that shows the shelf, reads with a modified foliate-js
(`public/foliate`), reads aloud and works offline. This project models the parts
in which a mistake would be hard to find by testing: the store and its hand-kept
indexes, the handlers and background workers that share it, the sharing and
throttling of speech synthesis, and on the client nearly everything that waits for
an answer while the user goes on.

## 1. Inventory

Backend:

| Component | State | Operations | Hard behaviour |
|---|---|---|---|
| Store (`storage/db.go`) | buckets of books, progress, bookmarks | create, save, delete, categories, hash backfill, progress, bookmarks, adoption of unowned data | whole-record saves of copies read in earlier transactions |
| Library indexes (`storage/db.go`, `library_indexes.go`) | user, sort, category, content, backlog, search, gram, counter and time indexes | kept by every write transaction, rebuilt by migrations | keys of the old and the new record, promotion of duplicates, clamped counters |
| Queries (`storage/book_queries.go`) | none | cursors, pages, search | a page boundary while records move |
| Book handlers (`handlers/books.go`, `book_queries.go`) | upload directory | upload, update, category, cover, delete, batches | read, work, save in separate transactions; files and records; crashes |
| Preview processor (`handlers/book_processor.go`) | bounded job queue, two workers | enqueue, load, extract, refresh, save or mark failed | edits and deletes while a book is processed; a full queue |
| Legacy hash worker (`handlers/legacy_hash_backfill.go`) | one goroutine, timer, request channel | catch up for an upload, timer pass | commits what an old snapshot says; uploads wait for it |
| Progress, bookmarks (`handlers/progress.go`, `bookmarks.go`) | in the store | save, list, delete | conflict detection by time, late writes after a delete |
| Speech calls (`services/tts_cache.go`) | in-flight map, waiters, queue, semaphore, caches | join or begin a call, wait, leave, acquire, release, publish | last waiter cancels, expired calls are replaced, tokens on every path |
| Rate limiter (`middleware/rate_limiter.go`) | a table of keys with count and window | allow or refuse, sweep | windows that touch, a full table |
| Accounts (`handlers/auth.go`, `storage/session.go`) | users, index of names, sessions, owners of old data | register, sign in and out, check a token, clean up | several transactions a request; claims of data from before accounts |
| Backups (`backup/`) | directories, target files | create, publish, expire, verify, restore | a library that changes while it is copied; stops between any two steps |
| Speech token, migrations | cached token; version | – | see section 8 |

Client:

| Component | State | Operations | Hard behaviour |
|---|---|---|---|
| Position client (`hooks/useProgress.ts`) | last saved, pending, offline queue | save, conflict, sync, refresh | lost and late answers, offline periods |
| Speech playback (`hooks/useTTS.ts`, `lib/tts.ts`) | operation counters, one media element, audio caches, preload pool | start, pause, resume, jump, stop, retry, advance, fill | every command overtakes reads and fetches still under way |
| Speech batches and text (`lib/tts-batch.ts`, `tts-text.ts`, `foliate/tts.js`) | slices with absolute indexes | read, cut, jump, dispose; sentences of a section; pauses | cutting inside markup and overrides; where reading goes on |
| Speech panels, voices, session, wake lock (`TTSControls`, `VoiceSelector`, `useTTSSession`, `useWakeLock`) | pending operation, sample, delayed write, lock | press, preview, save, request and release | several panels on one narrator; late grants |
| Shelf data (`hooks/useShelfData.ts`) | lists, generations, abort controllers | load, more, search, summary, status poll, upload, edit | answers out of order, sign-out |
| Shelf page, grid, covers (`app/shelf`, `VirtualBookGrid`, `useCoverUrl.ts`) | selection, drag depth, load lock, LRU of object URLs | select, batch, drag, ask for more, fetch covers | selection against lists that change; URLs that leak |
| Requests, downloads, archives (`lib/api.ts`, `book-download.ts`, `shared-book-download.ts`, `foliate/zip-loader.js`) | attempts, shared transfer, stored chunks, worker requests | try each base, retry an upload, resume, give the worker up | a lost answer, a file that changes, a crash between two writes |
| Offline copies and sign-in (`lib/offline-books.ts`, `useAuth.ts`, `sw.js`) | a copy for each account | save, open, clear, check the session | a session that ends during a save |
| Page cache (`sw.js`, `ServiceWorkerRegistration`) | workers, a cache for each version, fetches | install, activate, network first, cache first | releases while pages are open; workers that replace each other |
| Opening the reader (`useFoliateView.ts`) | script, view, timers | load, open, first page, leave | each wait ends by itself, late or never |
| Reader page, bookmarks, image overlay, themes | header, list, pointers, stored theme | toggle, create, delete, pinch, choose | effects later than state; optimistic updates; tabs |
| Layout (`foliate/paginator.js`, `fixed-layout.js`, `epub.js`) | section shown, lock, spread, counted URLs | turn, jump, swipe, reflow, load, unload | promises of several moves interleave |
| Kindle text (`foliate/mobi.js`) | text read so far from either end | unpack records, read on, put sections together, find positions | overlapping reads; variable lengths read from the end |
| Positions and progress (`foliate/epubcfi.js`, `progress.js`) | none | range to CFI and back, order, chapter, share | adjacent text nodes, empty and non-linear sections |

How they interact: every handler runs in its own goroutine and calls the store;
each store operation is one bbolt transaction, and bbolt admits one writer at a
time. Uploads feed the processor through a bounded channel and ask the hash
worker through an unbuffered one. Speech requests share one runtime (map, queue,
semaphore, caches) under a mutex. The client talks to the backend over HTTP only.
Inside the client everything is one JavaScript thread: what runs between two
`await`s is atomic, and what interleaves is promises, timers, events of the browser
and effects of React. Its parts are joined by callbacks of the pages
(`app/read/[id]/page.tsx`, `app/shelf/page.tsx`) and by local and Cache Storage.

`PROJECT.json` lists all components, also the ones without a model, and under
`hazards` what can go wrong in this code, each at its line.

## 2. Modules

| Module | Models | Uses |
|---|---|---|
| `BookStore` | what the store promises: records, positions and bookmarks, each operation one atomic action, each lookup a scan | – |
| `Library` | the same operations as the code performs them, with every index | extends and implements `BookStore` |
| `BookFlow` | handlers, processing workers, hash worker, files and crashes | extends `BookStore` |
| `TTSCalls` | callers and calls of speech synthesis | – |
| `ProgressSync` | the position client, its local storage, its requests and the server's record | – |
| `RateLimiter`, `Accounts`, `Backups` | the limiter; accounts and sessions; backup and restore | `ClientEvents` |
| `Narration` | what reading aloud promises | – |
| `SpeechPlayer` | audio caches and the preload pool, as operators on a store; commands, tasks and the media element | implements `Narration` |
| `SpeechBuffer`, `SpeechSource` | slices and batches; which sentences, from where, and the pauses in them | `ClientEvents` |
| `SpeechControls`, `VoicePreview`, `SpeechSession` | panels; voices and samples; stored session and wake lock | `ClientEvents` |
| `Shelf`, `ShelfDesk` | data of the shelf; the page, loading more, cover images | `ClientEvents` |
| `ApiCalls`, `Downloads`, `ArchiveLoader`, `OfflineCopies`, `PageCache` | requests; file transfers; archive worker; copies and sessions; service worker | `ClientEvents` |
| `ReaderView`, `ReaderChrome`, `ReaderBookmarks`, `ReaderTheme` | opening a book; header, keys, full screen and image overlay; bookmarks; themes over tabs | `ClientEvents` |
| `Paginator`, `FixedPages`, `BookLoader` | reflowable layout; spreads; object URLs of an EPUB | `ClientEvents` |
| `BookPositions`, `KindleText` | CFIs, chapter and share; records, sections and positions of Kindle books | `ClientEvents` |
| `ClientEvents` | the event budget these models share | – |
| `BookStoreProofs`, `LibraryProofs`, `BookFlowProofs`, `ServiceProofs`, `HooksProofs`, `SpeechProofs`, `ClientProofs`, `ReaderProofs` | theorems, see section 5 | the module named; `MCService`, `MCHooks`, `MCClient` and `MCReader` for those named after a run, `MCReader` for `SpeechProofs` too; `TLAPS` |
| `MCLibrary`, `MCBookFlow` | instances of one module | |
| `MCService`, `MCHooks`, `MCClient`, `MCReader` | instances of four, two, eleven and seventeen parts, see section 3 | |

### BookStore and Library

A record has the fields that some index or property tells apart: owner, category,
content hash, time of last reading, and `info`, which stands for title, author,
cover and processing state. `Trim` is what `normalizeCategoryName` does to a value
a client sends; only its range matters. Ids are natural numbers because bbolt
keeps keys in order and the content index promotes "the first" remaining book.
`issued` remembers ids handed out: `uuid.New` never repeats one, and `SaveBook` is
only called for a book that was created once, though it may be gone again.

Every index is a variable of `Library`: a set of keys (`userBooks`, `sortIndex`,
`categorySort`, `members`, `missing`, `gramIndex`, `progressTime`) or a function
(`canonical`, `searchIndex`, `gramCounts`, `summary`). Helpers keep the names of
the Go functions and take a set of ids, since batch operations run them in a loop
inside one transaction. As in the code, removals are computed from the old record
and insertions from the new one, and nothing looks at the whole bucket except the
`rebuild...` operators, which are the initial state: `runMigrations` rebuilds the
indexes of a database an older version wrote. Such a database may hold books
without an owner or a hash and several with the same content.

bbolt is external: a transaction is atomic and its cursors visit every key of a
prefix once. A transaction that returns an error rolls back and is no step.

### BookFlow

A handler that reads a record in one transaction and saves it in another is two
actions, and the copy is in `req[r].copy`; the same holds for the processor
(`proc`) and for the hash worker's snapshot (`hasher`). An upload writes its file,
looks for a duplicate, lets the hash worker catch up, looks again, creates the
record, and enqueues an EPUB. Deletes remove the record, then the files named by
the copy they hold. `Crash` loses all goroutines and the queue and keeps the
database and the directory. A workload (`Workloads`) says which books are there,
which ids and clients a behaviour has, what they ask for and how often it crashes.

Abstractions: a file's content is its hash; an EPUB may or may not have a cover
and a thumbnail; an extraction may fail at any time. A cover image and the save of
its record are one action. A refused upload is answered at once: the second look-up
at `books.go:308` only words the answer, which is a refusal whatever it finds. The instances have fewer books than a batch of
the hash worker (16), so a pass is one batch. Failures of the database or of the
disk are left out.

### TTSCalls

`caller[p]` is a request, its audio key and the call it waits for; a call is named
after the caller that began it. `inflight` is the map under the mutex; `ctx[c]` is
the work context (live, cancelled, expired); `queue` and `semaphore` count tokens.
Where the code selects among several ready channels, each ready branch is a
possible step. The speech service is external: it may fail, answer, or notice the
end of its context. Audio may leave the caches at any time (`Evict`).

### RateLimiter, Accounts, Backups

`RateLimiter` has one action for a request, since one mutex guards the table: the
sweep, the look-up, the limit of the table and the count. The times a key was let in
are a history.

In `Accounts` each transaction of the two databases is a step of its request: a
registration checks the name, hashes, saves the account with its index entry, claims
the data from before there were accounts and opens a session; the check of a token
reads the session and then the user. `Restart` loses what is under way. A password is
its text and the blanks around it, a name what `normalizeUsername` makes of it, so that
the trimming the handlers do, or do not do, shows. Ids and tokens are random and named
after the request that makes them.

In `Backups` the library moves while `Create` copies the main database, the sessions,
and the uploads one by one; it seals the directory with a manifest, publishes it by a
rename and removes what is older than the retention. `Restore` verifies, copies and
renames three times. Each may fail, or the process stop, between any two steps; a disk
may damage a backup.

### ProgressSync

`reader[d]` holds the refs of the mounted `useProgress` (last saved, pending,
saving, the position the debounce timer was armed with) and what the view does
with them: `moving` is a `goTo` under way, `applied` the `updated_at` it followed
last. `staged` and `queue` are the two keys in localStorage; they outlive pages.
A request is a record in `calls[d]` that both sides advance: the server reads its
clock (`Stamp`), compares and writes (`Commit`), or refuses; the device takes the
answer, or gives the request up (30 s timeout, no connection) while the server may
still execute it. Code after an `await` runs in the action that takes the answer;
`owner` says whether the component is still mounted. Positions are pairs of place
and percentage because a change counts only from one per cent or another place.
All clocks are one clock: skew between devices is left out. The sync loop's
`nextQueue` is not kept apart: the loop takes every book it has passed out of it, so
what it writes back when it stops is the book it was sending and those still to do.

### Reading aloud

`SpeechPlayer` treats every async function waiting at an `await` as a task with the
values it kept. The code recognises late answers by counters (`operationRef`,
`generationRef`, `playbackRequestId`); only whether a kept value is still the
current one matters, so a task carries that as a Boolean, and a command clears it
in the tasks it overtakes. The media element has its own events (ended, error,
focus), which may lie between the command that makes them stale and their
delivery. Audio is named by its chunk. `Narration` is the promise: one place,
which moves on by one when it was heard to the end, and elsewhere only when
somebody asked. `SpeechPlayer` implements it (`Reading`): the place is the current
chunk, or the one after it once its audio has ended; it sounds when the element
does; and something is asked for while a start or a jump is on its way.

`SpeechBuffer` is `TTSSpeechBuffer` with its promise chain: calls run one after the
other, dispose and failures of the source come at any await between them. Sentences
have words, text nodes, bytes and overrides, so that the search for the end of a
slice works on what it works on in the code; a character is one second.
`SpeechSource` is two pure algorithms, over sections of characters and over flat
markup, checked against definitions of what should be read and where a pause is due.

`SpeechControls` reduces the narrator to what the panels see, `VoicePreview` to its
lease of the loudspeaker. `SpeechSession` keeps of the clock only whether the two
seconds since the last write have passed.

### Shelf

In `Shelf` a request in flight is a record in `calls` with the libraries the server
has had since it was sent (`libs`); its answer is read from any of them. The three
generation counters and two abort controllers of `useShelfData` decide what is
done with it. A change of the selection and the effects React runs for it are one
step, as no answer is handled between a render and its effects. A handler that waits
keeps the selection of the render it was made in (`by`); signed out, a request gets no
answer. `touched` notes the books that an answer still under way may show as they were
before an edit, `missed` counts that no request will repeat, and `given` all ids there
ever were: histories that only properties and uploads look at. `ShelfDesk` takes
lists that may change at any time from there; with the sentinel of the grid, its lock
and throttle, and the queue, the slots and the LRU of object URLs of the covers.

### Requests and files

`ApiCalls` is one call over its base candidates, each attempt with a timer; what the
client gave up may still reach the server. `Downloads` keeps content as a sequence
of byte numbers, so that what is stored, resumed and handed out can be compared with
the file; a crash may fall between the chunk and its meta entry, and an answer may
leave the size unknown. The server never writes to the file of a book again
(`books.go` stores it under the id of its upload), so the file is a constant and
`If-Range` has nothing to tell apart. `ArchiveLoader` has the worker's requests with their timers
and the decoder that takes over. `OfflineCopies` has one book, two accounts and the
order in which checks, sign-ins, saves and the activation of a worker take effect.
`PageCache` numbers releases, and a response is the release it came from; the life
cycle of workers is the browser's and external: a new one waits while the active one
has a fetch pending, and replacing a worker ends the puts nobody awaits.

### Reader

`ReaderView` is `initReader` with all it waits for. `Paginator` has the tasks of a
turn, jumps, the snap after a swipe and reflow, one for each kind (two jumps), over
sections of a few units of text; `goTo` looks at the lock when it begins only, as in
the code. `FixedPages` opens a spread frame by frame. `BookLoader` counts references
to object URLs and lets two sections load at the same time. `BookPositions` writes
ranges as CFI parts and reads them back, and computes chapter and share.
`ReaderChrome` separates state, effects and animation frames, and has fingers that go
down, move and lift in any order over an image; `ReaderBookmarks` has overlapping calls.
`ReaderTheme` has tabs on one stored setting, some with a book that is being opened:
the storage event comes later than the write, effects later than the state, and the
document of a section later than the theme it is to have.

`KindleText` builds what a converter would have written (a record, a section cut into
a skeleton and fragments, an index entry; external) and reads it with the code's own
steps. The page and the speech load text at the same time; a record is asked for when
the loop of `loadRaw` comes round and arrives at any time later.

## 3. Runs

TLC runs, in distinct states on the instance:

| Run | Instance | States | What it checks |
|---|---|---|---|
| `library` | 2 users and no user, 2 books, 1 hash, 1 category and its untrimmed spelling, 2 times, 1 bookmark; all older databases | 18,580 | indexes, counters, backlog, duplicate lookup and time index exact; no orphans; `StoreSpec` refined |
| `flow` | five workloads of up to 2 clients and 3 books, queue of 1, 1 worker, at most 1 crash | 76,322 | files and records together, uploads unique, edits kept, everything answered and processed |
| `tts_calls` | 3 callers, 2 keys, 1 slot, 1 queue place | 4.3 million | single flight, no foreign cancellation, no token lost or returned twice |
| `service` | calls with 2 callers and fairness; limiter with 2 keys, 2 requests a window, a table of 1; accounts with 3 requests; 2 backups of 2 books | 1.2 million | every caller answered; nobody let in too often or refused wrongly; names, sessions and old data go to the right account; backups and restores whole |
| `hooks` | shelf with 3 books, pages of 1, 2 sorts, 1 category, 1 word, 1 upload, 2 events; positions with 1 device, 2 requests at a time, 3 events, 1 failure; with fairness | @HOOKS@ | shown is what is selected and current, nothing after sign-out, nothing stays busy; pending turns never lost, unsaved positions settle |
| `client` | eleven parts, 3 to 6 events each, with fairness | @CLIENT@ | section 4 |
| `reader` | seventeen parts over all inputs of the instance, 0 to 6 events each; the player with 3 chunks, a store and a pool of 1, 1 retry, 3 events | @READER@ | section 4 |
| `flow_deleted`, `rate_window`, `progress_staged`, `speech_goes_on`, `offline_kept` | small instances | – | findings, section 6 |

`MCService`, `MCHooks`, `MCClient` and `MCReader` put modules that share no variable into one instance.
`subject` names the part a behaviour is about; the other parts stay in one initial
state. As these parts do not read each other's state, their interleavings add
nothing that the parts alone do not show: the state space is the sum of the parts,
and each has the budget of events it needs (`Budget`).

Bounds. Two books with equal content are the smallest database in which a deletion
promotes a successor; two users let data change hands or be looked up by the wrong
owner. The workloads of `flow` pair every two actors that hold copies; a queue of one
is the smallest that can be full. Three callers let one leave, one stay and one
arrive; one slot and one queue place make each of busy, queued and running happen.
In the client models an event is something the user, the browser, the network or a
service does from outside (`External`); what the client still has to do itself is
never bounded (`Internal`). Three to six events are enough for a request, a second
command that overtakes it, and a failure; where a property needs more (two drags, a
sign-out in the middle of a save after a restart) the budget is six. Other bounds are
constants: `MaxSamples`, `MaxLocks`, `MaxMark`, `MaxThemes`, `MaxMarks`,
`MaxEntries`, `MaxReleases`, `MaxUploads`, `MaxCalls`, `MaxFaults`. One failure is
enough to stage a position and to have the next request fail to take it along; the
proof of `PositionsSafe` has no bound on them. `ScriptSet`, `DocumentSet`,
`VolumeSet`, `LayoutSet`, `ContentsSet` and `LeafSet` are all inputs up to a size that has
every adjacency of two kinds of element, and some longer ones. The clock of the limiter
runs to six in windows of two, so that three windows can follow each other; a table of
one key is the smallest that can be full. Three requests let two registrations overlap
while a third signs in with what one of them left. Two backups and three days let one
expire while the next is made. Kindle books have three sections in records of two or
three bytes, so that a section begins and ends inside a record and can be nearer to
either end.

The client instances end when their events are used up, `flow` when its ids are,
`tts_calls` when all callers are answered; these runs do not check deadlock.
`library` never ends and does.

Fairness. In `BookFlow` handlers, workers and the hash worker are goroutines that
the Go scheduler keeps running, so each has weak fairness. The hash worker's
select picks at random among ready channels, so its timer and a waiting upload
each have strong fairness. Requests and crashes have none. In `TTSCalls` callers
and calls have weak fairness (also in `MCService`): a synthesis ends because the service answers or its
context expires; disconnecting and expiring have no fairness. In `ProgressSync`
timers, the view's relocate event, the server and the answers have weak fairness
(every request has a timeout); user events and failures have none. The autosave
interval (5 s) is longer than the debounce delay (1 s), so `Tick` waits for the
timer it armed. In the other client models fairness is weak and given to timers
(`WriteTimerFires`, `TimerFires`, `WorkerTimesOut`, `LoadTimerFires`), to requests
that are under such a timer, to promises that settle without the network
(`EntryDecoded`, `DecoderOpens`) and in `SpeechPlayer` to audio that plays to its
end. In `ApiCalls` the server and the network have none: a call ends by its timer.
The transfer of a cover and of a file have no timer in the code (`api.ts:496-498`,
`608`), so no fairness is given to them. What waits behind them is claimed under the
condition that they go on, which the property states: `WaitingEnds` if a cover that
has a slot ends, `CallersAnswered` if the server sends on, `LoadingEnds` if the file
arrives. In `SpeechControls` the end of a preparation is fair only for the operation
that still holds the flag, and the end of a chunk is not fair at all.

## 4. Properties and what they rest on

Each index property compares a structure that is only ever changed by increments
with a definition over all records, after any sequence of operations; `IndexesExact`
joins `ShelfExact`, `SearchExact`, `BacklogExact` and `CountersExact`, and
`SyncExact` is about the time index. `DuplicateLookupExact` is the promise uploads
rely on. `NoOrphans` relates three buckets. `StoreSpec`, checked as a property of
`Library`, says that answering from indexes is the same as scanning.

In `flow`, `FilesMatchRecords` is `RecordHasFile` and `NoLeakedFile`, and
`BackgroundWorkEnds` is `EventuallyProcessed` and `BacklogDrains`.
`EventuallyProcessed` is claimed only for workloads without restarts and without
stale saves: nothing re-enqueues a pending book at start-up, and an edit that saves a
copy read before processing ended sets it back to pending.

`SingleFlight`, `NoForeignCancel` and `SlotsSafe` are about callers that come and go.
`PositionsSafe` relates the refs of the hook to requests sent at other times
(`SavingHasCall`, `PendingKept`); `PendingSettles` says that no way out of a save
silences the autosave.

The properties of the large runs are conjunctions, one for each concern:

| Property | Says |
|---|---|
| `PlayerSafe` | nothing sounds that was stopped (`NoGhostSpeech`), the buffer continues what is read (`BufferFollows`) |
| `PoolBalanced` | the preload pool counts exactly the requests it has out |
| `ReadsInOrder` | `SpeechPlayer` implements `Narration` |
| `ShelfSafe` | what is shown belongs to the selection (`ShownMatchesSelection`) and to the library (`ShownIsCurrent`, `CountsAreCurrent`); nothing appears after sign-out |
| `PendingIsLatest` | a panel waits exactly for its own latest start |
| `SessionSafe` | storage settles on what was asked last (`StoredAsAsked`), no wake lock is left behind (`NoLeakedLock`) |
| `ShelfPageSafe` | no book selected before the user changed category or search is still selected, the overlay follows the drag, the grid's lock is its load, live URLs are the cached ones, slots match downloads |
| `DownloadSafe` | a stored part is a prefix of the file, callers get the whole file, an interrupted part is kept |
| `OfflineSafe` | a copy goes with its session and is the account's own and current one (`CopiesSafe`); without a connection a page is shown (`ShellAlways`) and a cached engine is not older than the worker that gives it (`EngineNotOlder`) |
| `RequestsSafe` | an upload is reported as it ended (`UploadHonest`); nothing is sent after an abort |
| `OpeningSafe` | one script, an error hides no page, silence after leaving, the theme chosen last is applied (`ReaderSafe`); every archive entry is decoded by worker or page, timers match requests, a closed archive is quiet (`ArchiveSafe`) |
| `EveryWaitEnds` | panels, delayed writes, cards, calls, downloads, archive entries and the opening of a book; for a preparing narrator: it ends, or was overtaken by what shows the prompt or plays |
| `RateSafe` | never more than twice the limit within a window (`rate_window` shows that the limit itself is exceeded); who is refused has used the limit, or the table is full of recent keys; the table stays within its limit |
| `AccountsSafe` | names and accounts lead to each other; a session lasts as long as it should; a request is admitted for the account of its token; old data is claimed once |
| `BackupsSafe` | what is published is whole; a restore brings back all or leaves what it found; the newest backup stays |
| `SpokenTextSafe` | slices cover the text in order, keep their index, fit a request, keep overrides whole and ranges exact; a jump lands on a sentence (`BufferSafe`); each sentence once and in order, from the place that was kept; one pause where one is due |
| `BookSafe` | a range comes back from its CFI, the order of CFIs is that of the document, the chapter is the latest one begun, the share grows and leads back (`PlacesSafe`); pages of a spread in order, none skipped (`SpreadsSafe`); what is shown has live URLs, and only that (`ResourcesSafe`); records, sections, fragments, positions and index entries of a Kindle book come back as they were written (`KindleSafe`) |
| `PagesSafe` | the place is kept over reflow; index and view agree; the lock belongs to a turn; a section is left at its end |
| `BookmarksSafe` | once nothing is under way and nothing was lost, the list is the server's; one bookmark a place |
| `PreviewSafe` | one voice sounds; a sample is released; the preferred voice is listed |
| `ThemesSafe` | tabs agree with the stored setting (`ThemesAgree`), other settings are kept (`OthersKept`), the browser's colour (`ChromeFollows`) and the text of the open book (`TextFollows`) follow |
| `ControlsSafe` | the header can be reached, the table of contents opens where the reader is, pointers and drags are accounted for |

Where the code has an exception the property states it (for instance
`ShownMatchesSelection` after a reload that began under another selection,
`SelectedWasSeen` when the page itself changes the category); section 7 describes each. Every
property of a passing run has a mutant in `PROJECT.json`: a plausible slip in one
mapped definition that makes TLC report the property.

## 5. Proofs

TLAPS proves the theorems listed under `theorems` in `PROJECT.json`, for every value
of the constants that satisfies the named assumptions of the modules: bounds are
natural numbers, the values that stand for "none" are not members of the sets they
are added to, and in `Library` and `Shelf` there are finitely many books. The bounds on events,
requests, crashes and faults that keep TLC's instances small are constants there and
have no limit. Every safety theorem follows the same plan: an inductive invariant,
lemmas on the operators the actions are made of, one step for each action, and
`PTL` at the end.

### Library and store

`LibraryIndexesExact` joins the four index theorems into the invariant of the run.
The properties are not inductive one by one. `LibraryInv` is: the store's own
invariant; every index equal to the union of the keys of all records
(`userBooks = AllUserKeys(books, Books)` and so on); every canonical entry either
a member of its hash or empty when there is none (`CanonicalValid`); search text,
time index and counters equal to their definitions. It is needed because the
operations work on differences: removing the keys of the old record leaves the
keys of the others only if the index held exactly the union before, and a clamped
counter is right only if it was exact. The argument has three layers: lemmas on
keys (the keys of different books are disjoint, so replacing one book's keys in
the union gives the union over the new records), lemmas on cardinalities
(removing and adding counts of a changed set of ids, where the clamp never acts),
and one step per action. Theorems of `FiniteSetTheorems` supply the cardinality
facts. `LibraryImplementsStore` maps each action to the action of `BookStore` with
the same effect; the identity is the refinement mapping on the four store
variables, and what has to be shown is that an index lookup gives the same answer
as the scan (duplicate check, category members, ownership). From it and
`StoreNoOrphans`, proved in `BookStoreProofs`, follows `LibraryNoOrphans`.

### Handlers and workers

`FlowImplementsStore`: whatever a handler, a worker or a crash does is a transaction
of `BookStore` or leaves the store alone. It needs `FlowInv`: types; until its record
is stored an upload is the only one with its id, and its file has the content it looks
for (`UploadsHold`); and what a handler or a worker will save or remove was stored
before under the same owner (`CopiesOwned`). The two safety theorems add `SafeInv`: no
leaked file, and, where nothing saves stale copies (the condition both properties
state), hashes in records are those of the files, files are removed only after
their record, an upload that waited for the hash worker faces no book of unknown hash
except those in the worker's snapshot (`CaughtUp`), and records of an owner differ in
content. `UploadsUnique` is not inductive without `CaughtUp`: a book without a hash
could receive the hash an upload has just not found.

### Speech calls

`CallsInv` adds to the properties that calls exist before they are joined, that a
caller answered with a cancellation has left, and two facts that carry the proof. The
counter of waiters is not the number of those who wait (who is answered does not
count down): it lies between them and all who ever joined (`WaitersCounted`). And a
call is cancelled only when nobody waits for it (`CancelledIsAlone`). Tokens are counted
as cardinalities of the sets of calls in the stages that hold them.

### Limiter, accounts and backups

`MCService` runs these with the speech calls; a step of the service is a step of one
of them. `ServiceRateSafe`, `ServiceAccountsSafe` and `ServiceBackupsSafe` hold for any
number of keys, requests, books and backups and any limits.

* `RateInv`: a bound on how often a key was let in says nothing about the next
  request. What does is the position of the history relative to the windows
  (`KeyTraced`): the requests of the current window are as many as the count and not
  older than its start, those before lie in the window before, at most as many as the
  limit, and all others are older still; two windows of a key are more than a window
  apart at their starts. That a full table has recent keys only needs that every
  key came within a window before the last sweep (`KeySwept`).
* `AccountsInv`: between two transactions of a request all depends on what it has
  learnt (`RequestsKnow`): the account it created is still there with the name and the
  password it was given, the session it read was issued to that user, and a claim is
  under way while it stands at its step. Only tokens that were issued were signed out
  (`EndedWereIssued`).
* `BackupsInv`: what `Create` has to show at each step (`MakingBackup`): every record in
  the copied database is still stored or was removed since, is in the walk, or is
  copied. A directory with a manifest is whole before it is published (`SealedWhole`),
  and what `Restore` has moved is what its source had (`Restoring`), unless the
  source was removed under it.

The proofs split each step by the operation and then by the request or the backup it
changes. The one of `ServiceRateSafe` needs arithmetic lemmas on the bounds of the
history, since an index of the new history is either an old one or its end.

### Positions

`HooksProofs` is about `HooksSpec`, where each behaviour is about one of the two hooks.
Every step of `ProgressSync` changes one device, so `SyncInv` is a predicate on the row
of a device (`DeviceOK`). Neither part of `PositionsSafe` is inductive: an answer clears
the saving flag of the reader that is mounted, so a request that still has its reader
as owner must find it open; the snapshot a save reports must carry the position it
was sent with, or `PendingKept` would fail; and a sync under way must work on books
that differ, because it writes its rest back as the queue.

### Reading aloud

`SpeechPlayerSafe`, `SpeechPoolBalanced` and the refinement `SpeechReadsInOrder` hold for
any number of chunks, any buffer, cache, pool and retries, and any number of commands and
failures. All three come from one invariant, `Healthy`, a predicate on the record of the
whole state because the calls of the code are operators on it:

* at most one task is to play (`Main`: live, not a fill, not waiting for the wake lock),
  and only that one may still be answered by the player (`Requested`); a late answer finds
  its task without request, which is why no sound can come from it;
* that task fits what the element does (`MainOK`): nothing sounds while it is on its way,
  it waits for audio to start only when the element is starting, an advance exists only
  once the audio has ended, and it reads the chunk after the current one;
* at most one fill reads ahead, exactly the chunk after the buffer, and none while
  somebody reads for himself (`SideOK`, `PairsOK`): this keeps `BufferFollows`;
* an ended event that is still queued belongs to the audio at hand, or the advance it
  would start is already under way (`EndFor`, `EndOK`): this is why an ended event that
  comes after a resume does not skip a chunk;
* the pool counts what runs and has no idle slot while a task waits (`StoreOK`).

Each operator has a lemma on what it keeps of this, weakened where the code itself calls
it between two changes (`Loose`, `Unplaced`, `Dead`). Each action has a lemma `Fine(Now,
Then)`: the invariant holds again, and place, sound and request have made a step that
`Narration` allows (`Moves`). `preloadMultiple` loops over the chunks; that its recursive
function exists and keeps the pool balanced is shown from the least index at which it
would not, which needs no induction theorem. The theorems are about `ReaderSpec`, of which
the player is one part.

### Shelf

Nothing in `ShelfSafe` is inductive, since every part of it is about answers that have
yet to come. `ShelfInv` therefore says of each request in flight (`CallOK`):

* it is not ahead of the generation counters (`Behind`), and if it is of the present
  ones it asks for the present selection, unless a late reload or the timer will replace
  what it brings (`Asked`); after sign-out no request that can be answered is of the
  present generations (`Overtaken`), which is `NothingAfterLogout` before the answer;
* if its books may still be shown, then each, in every library the answer may be read
  from, is as the library has it, or was touched, or belongs to an edit that is served
  and not answered (`BringsFine`); counts likewise are right, or missed, or will be
  asked for again by a pending edit or upload (`BringsCounts`).

Of the shelf it says the same of what is shown (`BooksFine`, `CountsFine`, `Matches`,
`Emptied`). The excuses must not outlive their reason, so what a served edit did is still
so when it is answered (`EditOK`): true because only one dialog is busy at a time
(`OneDialog`), a deleted id never returns (`IdsNew`), and no two requests for counts
share a generation (`OneCount`). Most of the proof are lemmas on what the operators do
to their records; `CallKept` then carries a request over any step that moves the
generations onward, and a step lemma per action remains.

Attempts at the proof found places where the model was not the code: after sign-out it
set the timers of a rename and answered the reload of an upload; a rename replaced whole
books where the code changes their category, and it followed the filter of now where the
handler has the one of its render; ids of deleted books could be uploaded again.

### The client run

`MCClient` runs eleven parts (some in one module) that share only the event budget. `ClientInv` is the
conjunction of an invariant for each part but `Downloads`; a step of the client is a
step of one part and leaves the variables of the others alone. What the parts need
beyond the properties:

* `SpeechControls`: no call is ahead of its panel and none shares a number, so the end
  of an older call is told from the latest (`CallsNumbered`).
* `SpeechSession`: what waits to be written is the last wish about the open book, and
  every other book has what was asked (`SnapshotOK`); at most the sentinel of the ref
  is held, none while a request is under way, and somebody is there to release it
  (`WakeOK`).
* `ShelfDesk`, grid and covers: outside selection mode nothing is selected; the
  drag depth counts the elements the drag is in or has still to leave; what is selected
  was chosen since the user last changed the filter, also over the changes the page makes
  itself after a rename or when a category is gone, which keep both; a cover job has
  its own number and is either queued or running, slots count the running ones, and a
  queue exists only while all slots are taken (`CoversOK`). The cache has one entry a
  book and a URL for each (`Distinguished`), and URLs carry numbers of jobs that have
  ended (`CacheNumbered`): without them the three revocations of `setCachedCoverUrl`
  could revoke the URL of an entry that stays.
* `ApiCalls`: the server spoke before an answer says so and took a book at most once.
* `OfflineCopies`, `PageCache`: a user is signed in exactly while the page says so or
  asks; workers come in the order of their releases, the cache of a worker has the page
  that stands for all unless an older worker took it away (`ShellKept`), and only the
  active worker keeps engine files, of its own time (`EngineKept`).
* `ReaderView`, `ArchiveLoader`: a document is bound only from the last wait on, and
  never after leaving (`ReaderFine`); timers are those of the entries asked for, and
  only a running worker is owed answers (`ArchiveFine`).

### The reader run

`MCReader` runs seventeen parts in the same way. `PartsStep` says once what a step of the
reader means for a part: a step of its own, or nothing. Four of the run's properties
follow, each from an invariant per part it is about:

* `VoicePreview` (`PreviewInv`, for `ReaderPreviewSafe`): a sample that is not the one of
  the player holds no URL and does not sound, the lease of the audio element agrees with
  the sample that plays, and the voice lists come from the answers still awaited.
* `ReaderTheme` (`ThemeInv`, for `ReaderThemesSafe`): a tab's settings are normalised; a
  tab that is to be told of a write is so marked until its event comes; what the page
  of a tab still has to do (`due`) is set whenever its theme or its book changed since the
  last effect, and until then the colour and the text are those of the theme it last
  applied. `ThemeAssumption` says only that presets exist, that "none" is not one of
  them, and that the sizes are in order.
* `ReaderChrome` (`ChromeInv`, `ZoomInv`, for `ReaderControlsSafe`):
  fingers on the overlay differ, a closed image has none, the gesture in progress is the
  one of the fingers that are down, and the scale a pinch started from is within the
  limits.
* `Paginator` (`PageInv`, for `ReaderPagesSafe`): the place is where the anchor lies in
  the text that is laid out; scroll positions are pages of the layout, and a blank page
  at an end is shown only where another section follows; one frame loads at a time and
  it is the view's; the lock is held exactly while a turn runs; an animation nothing
  disturbed has the page count of the layout it runs over. `SeenOK` then says when the
  place is on the page: always, except while a finger or a snap moves the page and until
  a section that was asked for is there. `PlaceKept` speaks only of moments of rest and
  is not inductive without it. The layout rests on a few lemmas about division: a unit
  of text is on exactly the page that its quotient names.
* `ReaderBookmarks` (`MarksInv`, for `ReaderBookmarksSafe`): as long as nothing has
  overlapped or been lost, the server's bookmarks are those on the page and those that
  are pending, that is created and not yet answered or taken off the page and not yet
  deleted; a list is read alone, and what it has read is still the server's. One
  bookmark for a position rests on the bookmarks that will stand once every call has
  reached the server being apart: with none being saved these are the ones the page
  shows, among which `handleCreateBookmark` looks for the position. The filter of a
  deletion (`WithoutId`) is a recursive function; that it exists and leaves the others,
  each once, is proved by the least-number principle.
* `FixedPages` (`FixedInv`, for `ReaderSpreadsSafe`): of the book, that each spread
  begins with the page after the one the spread before ends with (`Chain`, from the
  assumption `LayoutsAssumption` that a book has pages and their sides are the four the
  format knows), which page by page of the reduce in `open` keeps, and from which the
  flattened spreads are the pages in order. Of the element, that calls which do not
  overlap are one call, which waits for the spread that was asked for, with nothing of
  another spread in its frames (`Under`), and without a call that the spread is in place,
  with one page hidden in a tall window (`InPlace`). `NoPageSkipped` needs the turn to be
  followed while it waits: the page it will show is the next one (`TurnOK`).

The proof of `ControlsSafe` failed at first for a reason in the model: with more
fingers than TLC had, the model forgot that a gesture had been taken over when a third
finger moved. The history variable is now carried over such a move (`carried` in `Move`).

### Only model-checked

* Liveness (`BackgroundWorkEnds`, `EveryCallerAnswered`, `PendingSettles`,
  `ShelfSettles`, `EveryWaitEnds` and the like): fairness and ENABLED are out of the
  prover's reach.
* `DownloadSafe`: what a folded or flattened sequence of chunks holds needs induction
  over data.
* `SpokenTextSafe` and, in `BookSafe`, `PlacesSafe` and `KindleSafe` compare what a fold or a recursion computes
  with a definition, which again needs induction over data.
* `ResourcesSafe`, also in `BookSafe`, is about what a recursion has built up: the URLs
  reached from a section and the counts given up with it (`Reach`, `UnrefAll`).
  `SpreadsSafe`, the fourth part of `BookSafe`, is proved.

## 6. Findings

* `flow_deleted`: a book deleted while its preview is extracted comes back, since
  `markBookProcessingFailed` saves the copy loaded before the extraction, and the
  success path saves one reloaded a moment before; a rename is undone in the same
  way. The comment at `book_processor.go:103` says neither is overwritten.
* `rate_window`: the limiter counts in fixed windows, which begin with a request. A full
  count at the end of one and another at the start of the next are twice the limit
  within the length of a window; `rate_limiter.go:30` speaks of a sliding window and
  line 34 of a maximum within it.
* `speech_goes_on`: a resume while an advance waits for its chunk raises `operationRef`;
  its own advance finds the old one under way and does nothing, and the old one gives
  up (`useTTS.ts:283`): the audio has ended, the state says playing, nothing goes on.
  `tts-background-playback.md:34-35` says the player continues to the next chunk.
* `progress_staged`: a queue sync removes the staged position after its request,
  also when a newer one was staged while it waited; `architecture.md:76` says
  offline progress is synced once online again.
* `offline_kept`: opening the app without a connection fails the check of the
  session, which `useAuth.ts:22-26` takes for an expired session: it removes the token
  and clears the offline copies. `README.md:18` says copies are cleared on sign-out.

## 7. Seen while modelling, not stated as runs

Backend and positions:

* An edit that read a book before it was deleted and saves it after its content was
  uploaded again leaves two books with one hash. A stale save may restore an older
  `LastReadAt`. A delete that read the record before a cover was added leaves the
  cover file. A pending book is not processed after a restart (`books.go:322`).
* A device whose save got no answer takes its own clock for the server's time and is
  refused the next save with the message that another device updated the progress
  (`useProgress.ts:153`, `progress.go:179`). The first autosave may overtake the load
  of the saved position (116). Staged positions are sent unconditionally (218), and
  every refusal deletes them (228). A load answered after a save sets the reader back.

Accounts, limiter, backups:

* A registration trims the password and a sign-in does not (`auth.go`): one with blanks
  around it never works again. Of two registrations of one name that overlap, the later
  takes the entry of the index and the earlier account cannot be reached; a stop between
  saving the first account and the claim leaves the old data without an owner for ever.
* A backup may have records of books deleted between the copy of the database and that
  of their files. Expiry during a restore spoils what is restored, and a sealed
  directory that was never published verifies as well.

Reading aloud:

* A section that cannot be opened during a fill ends the reading silently
  (`useTTS.ts:201, 290`). A jump that overtakes a preparation and whose read then fails
  leaves `preparing` set (378, 417), and so does a resume that plays on: the panel stays
  busy until something is prepared or stopped (the excuses in `BusyEnds`). A resume
  while the element is starting plays on without anybody waiting for it
  (`PlaysOn`). The flush of a hidden page, and leaving the book, store a snapshot also
  after a stop, of the page shown (`useTTSSession.ts:67`).
* A retry inside an advance releases the wake lock; a resume during a release gets
  none. A slice no request can carry fails every later read (`tts-batch.ts:331`).
* Text before the first block of a section is never read (`tts.js:232-255`); reading
  that starts in a non-linear section begins at the next one.

Shelf, files and sessions:

* An upload or a category change reloads under the selection it began with
  (`useShelfData.ts:480`, compare `performance-baseline.md:29`). A status poll sent
  before a rename brings the old category back; deletes and batches do not raise the
  generation. A single category edit does not refresh a search. The late end of a
  batch wipes a newer selection. A rename and a category that is gone change the category
  without clearing the selection (`useShelfData.ts:604, 365-374`), so that books which
  are no longer shown stay selected and a batch includes them. An evicted cover's URL may still be shown.
* The grid's throttle drops what the effect asks within 400 ms of the last request
  (`VirtualBookGrid.tsx:183`, comment 222-223).
* Two tabs write the same chunk keys, and chunks of equal size pass for each other;
  with an unknown length a truncated file is accepted. A save running at sign-out
  stores its copy afterwards (`offline-books.ts:256-257`); a late 401 of an old session
  signs out a new one (`api.ts:150-155`); activation of a worker deletes the caches of
  offline books, and the cache of a newer worker that is still being installed, which
  then has no page to fall back to (`sw.js:62-73`): the one exception in `ShellAlways`.
  `/shelf` is put into the cache of the worker (`sw.js:16-18`, `99`), while
  `docs/performance-baseline.md:278` says that it deliberately is not. Engine files of
  two releases mix until a release changes `CACHE_NAME` by hand. One bad entry ends the archive worker for all, and a
  page decoder that failed to open stays failed.

Reader:

* A script that failed stays failed (`useFoliateView.ts:153-158`); a failed `goTo`
  leaves a blank page that counts as ready (`view.js:464`); a document that comes after
  12 s sets ready under the error; closing during opening leaks (`view.js:229-306`).
* `goTo` looks at the lock only when called and the snap not at all
  (`paginator.js:461`); a swipe is handled twice (`useReaderControls.ts:140-165`). At
  the ends of a scrolled book a turn fails and keeps the lock (1049, 1085-1089). A
  failed load makes the index undefined. The debounced scroll decides by `#justAnchored`
  (580) whether the place moves; it is modelled, but `PlaceKept` is claimed for
  paginated flow only.
* The flag that tells the keyboard an image is open is set in an effect
  (`useReaderImageZoom.ts:228-235`): a key pressed before it is handled by the page.
* Overlapping loads of one item create its URL twice (`epub.js:729`). Frames of
  overlapping spreads (`fixed-layout.js:235, 280-299`). An offset in an element is
  lost in its CFI. Books whose sections have no size show NaN (`progress.js:48-53`).
* Overlapping bookmark calls may show a deleted bookmark until the next load
  (`useReaderBookmarks.ts:34, 50, 64`). The wheel during a drag makes the image jump
  (`ReaderImageZoomOverlay.tsx:76-82, 103`). A gap of 0 becomes 5
  (`useReaderTheme.ts:188`).
* Overlapping calls of `loadRaw` append records in the order they arrive (`mobi.js:1126,
  1135`): if the file answers out of order, the text is mixed up until the book is closed
  (`crossed` in `KindleText`). A record that fails to load is counted as loaded
  (1125, 1134), so that its text is missing until the book is opened again (`RecordFails`). Two
  loads of one Kindle section leak a blob URL. With
  irregular indents a table of contents may hang an entry below a stale parent (740-765).
* `view.goTo` during a page turn enters a place into the history that was never shown
  (`view.js:469`, `paginator.js:1044`).

## 8. Not modelled, and the plan

Not modelled: request validation, formatting, logging and telemetry; EPUB metadata
extraction; Huffman compression, metadata, contents and resources of Kindle books;
parsing of FB2, comics and PDF, search, history, annotations, dictionaries and media
overlays of foliate-js; layout in pixels, style sheets, UI primitives; code
nothing reaches (the floating variant of `TTSControls`, `tts-queue`,
`lib/book-preview.ts`, foliate's own `TTS` class); operations of the store that nothing
calls (`PurgeUser`, `DeleteUserData`, `DeleteProgress`); shutdown, which leaves what a
crash leaves. Details left out of modelled parts: a section without a source in a spread
(`fixed-layout.js:103`), items the loader disallows or finds empty (`epub.js:772, 802`),
the effect of `useFoliateView` run a second time within one mount (nothing leads from
an open book to another one or back to being signed in without leaving the page), and in `SpeechPlayer` the
second look-up of a previous sentence, for a mark in a later slice of the first one. Still open on the backend: the speech token with its shared refresh,
the versioned steps of the migrations, the size accounting of the audio caches, and
cursors and pages over the indexes; each would be a module of its own.

Left for the proofs: `DownloadSafe`, `SpokenTextSafe` and three of the four parts of
`BookSafe`, for the reasons given in section 5.
