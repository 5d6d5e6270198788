# A verification project for mangaDex

The program crawls mangapark.io through free proxies. It walks a listing of
manga, records the manga and their chapters in PostgreSQL, downloads the images
of each chapter and stores them in an S3 bucket. These modules model what its
goroutines, the tables and the bucket do to each other. TLC checks the models on
small instances; TLAPS proves the theorems named below for every value of the
constants.

## The system

| part | state | operations |
|---|---|---|
| proxy manager (`parser/proxy/manager.go`) | `AllAddresses`, `NextIndexAddres`, the map `ProxyClients`, `pm.mu` | `mainProxyPool` keeps starting `testAndAddProxy`; `GetAvailableProxyClient` leases; `RemoveProxyClient` |
| proxy client (`parser/proxy/client.go`) | `Busy`, `Status`, a lock of its own | `MarkAsNotBusy`, `MarkAsBad` |
| proxy list (`client.go`) | the lists of one call | `GetTxtProxy`, `parseProxiesFromReader`, `CreateProxyClient` |
| page worker (`parser/mangapark/manager.go`) | `currentPage`, a handler for each entry of a page | `MangaPageWorker`, `handleMangaInfo`, `handleChapterUpdateInfo` |
| chapter worker | a batch of `chapter_task`, a handler for each | `ChapterWorker`, `handleChapter` |
| image worker | a batch of `img_task`, a handler for each, its attempts and their contexts | `ImgWorker`, `handleImage`, `uploadImgToS3` |
| page parser (`parser/mangapark/parse_query.go`) | a browser's document, a script that goes on beside its caller, with counters | `GetMangaList`, `GetMangaInfo`, `GetImgFromChapter` |
| image filter and names (`parser/query/img.go`) | none | `SafeChapterNameToS3`, `FilterImg` |
| tables (`repository.go`, `sql/`) | `manga`, `chapter`, `chapter_task`, `img_task` | one statement per repository method |
| bucket | objects by manga, safe chapter name, index and extension | `PutObject` |
| process (`cmd/main.go`) | the signal context, `TaskManager.ctx` derived from it | start, signal, cancel, end |

The workers never call each other. The page worker feeds the chapter worker
through `chapter_task`, the chapter worker feeds the image worker through
`img_task`, and the image worker writes back to the `chapter` row. All three
draw on the same proxy pool. The tables and the bucket outlive the process,
everything else starts again with it.

What is hard here: the pool's flags are read in one critical section and used in
another; clients are removed by address and not by identity; work that spans
several statements and an upload runs without a transaction, so a crash or a lost
answer leaves it half done and it is done again; chapters and images are
identified by names and urls that different ones may share; a request's time runs
before it has a proxy; errors are logged and passed over; a batch is only over
when its slowest handler is. `PROJECT.json` lists each hazard at its line.

## Modules

| module | what it is |
|---|---|
| `ProxyPool` | the manager, its fill loop, and handlers that look for, lease and give up clients |
| `ProxyLease` | the abstract promise of the pool: a bounded set of clients, exclusive leases |
| `ProxyList` | one call of `GetTxtProxy` |
| `TaskPipeline` | chapter and image worker, the task tables, the chapter table, the bucket |
| `TaskQueue` | the abstract promise of a task table: a task stays until its effect is there |
| `MangaIntake` | the page worker and its handlers, the manga and task tables |
| `ChapterWindow` | one manga over many visits, while the site publishes chapters |
| `ChapterPage` | the scroll script on a lazy page, and the list of images read beside it |
| `ImageFetch` | the attempts of `handleImage`, with time |
| `ObjectKeys` | what an image is stored as and listed under |
| `Crawler` | the life of the process: three workers, their batches, one pool, two contexts |
| `MC...` | instances for TLC |
| `...Proofs` | theorems and proofs |

The modules compose by promise and by assumption. `ImageFetch`, `Crawler`,
`TaskPipeline` and `MangaIntake` use the pool as `ProxyPool` shows it to be;
`TaskPipeline` takes from `MangaIntake` that chapters are queued, and from
`ChapterPage` that a page's images are not empty and repeat nothing
(`PageAssumption`, which `ListOfThePage` promises); `ObjectKeys` explains the
names that `TaskPipeline` has as given.

### ProxyPool

A client is an address and a generation: two objects for one address, an older
one a handler still points to and a newer one in the map, are different clients.
Go allocates objects without end; `Gen` reuses the generations nothing refers to
(`Reachable`), which keeps the state space finite. Writers' critical sections of
`pm.mu` are single actions enabled when no handler is scanning (`NoReader`). The
scan itself is one action per client (`ReadFlags`), since flags are guarded by
the clients' own locks and change meanwhile. `Claim`, then `Add`, are the two
critical sections of `testAndAddProxy`, and `ClaimPanics` is its index out of
range. The handlers come in three kinds, by what they do with the last failed
client: nothing (`handleImage`, `MangaPageWorker`), mark it bad again
(`handleChapter`, `handleChapterUpdateInfo`) or release it (`handleMangaInfo`).
The number of attempts is not counted: a handler may give up or ask again after
any failure, which includes giving up after 12. `lateMark` is a history variable:
some handler has marked a client it no longer held.

`ImplementsLease` maps `Pooled`, the clients of the handlers in `"using"`, and
`lateMark` to the variables of `ProxyLease`.

### ProxyList

A source answers with one of its texts or fails; it scans the text line by line
and may break off anywhere, keeping what it has; it appends under the mutex; the
last loop removes repetitions. Lines are records of what the parser and
`CreateProxyClient` tell apart: whether the line is noise, has a scheme or
something no url may have, its credentials, its host, and what follows, each part
behind a colon (`tail`). So a line may have any number of parts, as
`ip:port:country` or a sentence has. The parser wants a colon, not in the first
place (`HasColon`, `ColonFirst`); `net.SplitHostPort` wants exactly one outside
the brackets of an IPv6 address (`SplitsHostPort`), and for an http proxy
`url.Parse` must take the address too (`UrlParses`). Result lists are what
`ProxyPool` takes as `AddressLists`, and the theorem `ListHasNoRepeats` is its
`ListAssumption`.

### TaskPipeline and TaskQueue

Tables are sets of records (`chapter` is a sequence, because the missing
`UNIQUE (manga_id, name)` lets rows repeat), `bucket` is a function. One action
is one statement, one upload or one wait. A call fails by a fault or because the
context is done; a call that fails by a fault may have taken effect, its answer
being lost (`Left`). `Restart` ends the process anywhere and starts it again with
the tables and the bucket. `MaxFaults` bounds failures and restarts together, and
the properties that count repeated work count them against `faults`. The loop
over 12 attempts is one step that ends well (`GetImgFromChapter`, `FetchImage`)
or not (`ChapterFetchFails`, `ImageFetchFails`). An empty manga id cannot be cast
to `uuid`, so tasks under `NoManga` fail every time. Several chapters may go by
one name, and then share rows and keys. `refused` is a history variable: the
image tasks the table did not take.

`TaskQueue` is what both tables promise: tasks are put, worked on any number of
times, and retired only when one of their effects can be seen. `TaskPipeline`
implements it twice: `ImplementsImageQueue` takes the object under a task's key
as its effect, `ImplementsChapterQueue` a row with the manga and a name of the
chapter's page. What it does not promise is once-only work, and the code does
not keep it.

### MangaIntake

A handler belongs to a position of the current page. `tries` counts its attempts
down, `parsed` says whether `mangaInfo` is non-nil, `old` is the snapshot
`oldChapMap`. Fetching a page of the listing is a state of its own (`"fetch"`),
since the browser's context is not `tm.ctx` and a fetch may end after it. The
listing is a constant that gives each page the lists it may show, so it can
shift between two requests or load without entries. A queued chapter is recorded
in one step (`RecordChapter`), its way there being `TaskPipeline`'s subject;
`visits` and `through` are history variables. The error of `ExistsMangaByTitle`
is dropped by the code, so its failure takes the same branch as "no such title".
A manga is tidy when no other has its title and the listing links it under that
title only and once on a page. It is unmistaken when no other has its title and it
is not listed under another's: a lookup by title can only mean itself.

### ChapterWindow

`GetMangaInfo` keeps the first three chapters of a page, and both handlers queue
only those. The module follows one manga over any number of visits between which
the site publishes: chapters are numbered in their order, `Window` is what a
visit gets to see, `NewIn` what it takes for new. A page that lacks a part
`GetMangaInfo` insists on is not parsed. A chapter queued under the empty id is
an `"orphan"` and its unique url keeps the chapter from being queued again. The
history variables compare consecutive visits in which nothing failed.

### ChapterPage

The document renders and loads at any pace and may stop for good. The script is
an `async` function that is evaluated without waiting for its promise
(`chromedp.Evaluate` without `WithAwaitPromise`, `parse_query.go:117`): the call
returns at its first `sleep`, and the next `Evaluate` collects the images while
the script goes on in the page. So `script` and `pc` move independently: `Poll`
is one iteration of the loop, which counts, compares with the count before and
breaks off for any of three reasons, `Sweep` the scrolling after it, and
`Collect` may come at any time, in practice before the first `Poll`. `Collect`
takes what has a `currentSrc`, loaded or not, and drops repeated urls (`Firsts`,
`InOrder`); `Finish` is the check for an empty list or name; `GiveUp` a browser
that ends first. With the function the browser ends, and the script with it
(`Ended`). `missed` is a history variable: what had no `currentSrc` when the list
was collected.

### ImageFetch

Each attempt starts a context of 50 s and then waits for a client without
looking at that context. `left` is what the context has left, `waited` and `sent`
say how it was spent, and `Tick` passes the time. A healthy client answers
within `AnswerTime`; any other may fail, answer in part, or never. `imgBytes`
and `errImg` outlive the attempt that set them: `bytes` is the attempt whose body
`imgBytes` holds, `failed` whether `errImg` is set. Other
handlers and the fill loop lease, return and replace clients as they like.

### ObjectKeys

A name is a sequence of characters of the kinds that the regular expression,
`TrimSpace`, `ReplaceAll` and `PathEscape` tell apart: white space that only
`TrimSpace` takes for such, as a no-break space, is a kind of its own (`Wide`), as
the `\s` of the regular expression is ASCII. `FilterImg` depends on the
extension, its MIME type and whether the body can be converted: `Body` includes
pages of text, as the HTTP status is never looked at. A key is made of the safe
name, the index and the extension; images are done in any order, cut off anywhere
and done again, perhaps with another outcome.

### Crawler

The three loops, the sem of each, and the handlers by what they do to the sem and
to the pool. A client is one of a number here: `pooled` counts the map, `free`
those not Busy. `dry` says that the list has no address left. `NoEntries` covers
both kinds of empty page, that of the first 50, which calls `tm.cancel()`, and a
later one. `tmDone` follows from `rootDone` but not the other way, and `main`
waits for neither: `MainReturns` may come at any time after the signal, and after
a cancel by the page worker not at all. `UpdatePanics` is the nil dereference in
`handleChapterUpdateInfo`.

## What the runs check

| run | instance | shows |
|---|---|---|
| `proxy_all` | 2 addresses, `MaxConn` 1, 2 filling goroutines, one chapter and one info handler | `TypeOK`, `PoolBounded`, `LeaseExclusive`, `NoLeakedLease`, `ImplementsLease` |
| `proxy_outage` | fetches that may be empty, an address that makes no client, `MaxConn` 2, 2 filling goroutines, an image and a chapter handler | `AddressExclusive`, `PanicOnlyOnEmptyFetch` |
| `proxy_live` | an address that makes no client, 2 handlers, fairness | `SomebodyServed` |
| `proxy_list` | two http sources and a socks5 source with common addresses, lines with more and fewer parts than a proxy, an IPv6 host | `NoRepeats`, `Complete`, `ProxiesOffered` |
| `tasks_shared` | 2 chapters of one name that share an image, 1 fault | `TypeOK`, `NoDanglingEntry`, `NothingLost`, `OwnObjects`, `RowsBounded`, `EntriesBounded`, `ImplementsImageQueue`, `ImplementsChapterQueue` |
| `tasks_live` | a chapter and a poison task, 1 fault, fairness | `ChaptersDrain`, `ImagesDrain` |
| `intake_shifted` | 3 manga on 2 pages in changing order, one linked under a second title, one under another's, 2 attempts, 2 faults | `TypeOK`, `PanicOnlyAtShutdown`, `NoOrphanTask`, `OwnChapters`, `NothingSkipped`, `RowsPerVisit`, `UnstoredBounded` |
| `keys_shared` | 2 chapters, all pairs of names of up to 2 characters and some of 3, urls that say jpeg or WEBP | `ListedIsStored`, `RightlyLabelled`, `ReplacedByAlike` |
| `fetch_time` | 2 handlers, a healthy and another client, a timeout of 3, answers in 1, 2 attempts | `UploadsLastAnswer`, `HealthyLostOnlyLate` |
| `page_lazy` | 4 elements, one url twice, 5 iterations | `TypeOK`, `ListOfThePage`, `ShiftedOnlyByAGap` |
| `window_missed` | a window of 2, 5 chapters, names that repeat and change, 2 faults | `NothingMissed`, `QueuedStays` |
| `crawler_life` | 2 page, 2 chapter and 1 image handler, a place in each sem, one client, fairness | `WorkersReturn`, `NobodyStuck` |

Each question is asked of the smallest instance in which it can be answered both
ways. The bounds:

- *Pool.* With `MaxConn` 1 and two addresses the pool is full at once, so
  overtaking goroutines matter; with `MaxConn` 2 and one address there is room for
  it twice. Two handlers are enough for a stale scan, a double lease and a late
  mark, each of which is between two handlers and one client. A handler refers to
  one client of an address at a time, so that with three generations one is always
  left for a new client when its address has none in the map.
- *Tables.* Two chapters with one name and a common image are the smallest case
  of the conflict on `img_task.url` and of two handlers writing to the same keys.
  One image is worked on at a time, two chapters at once.
- *Intake.* Two manga, two pages and two handlers are the smallest case of one
  manga meeting itself; the third is taken for the first, whose title its link
  has. Two attempts instead of 12 leave a first, a last and a failure between them. `PageLimit` is above the last page, so that an empty page
  stops the crawl, as it does in the first 50; beyond the limit the loop changes
  nothing.
- *Window.* Two instead of three places, and chapters for two full windows and
  one that falls between them.
- *Keys.* Names have a character at the start, in the middle and at the end of
  every kind the functions treat differently.
- *Time.* A timeout of three answers and one answer time leave room for a wait
  that is short enough, one that is just too long, and one that takes it all.
- *Page.* Four elements, one url of them twice, leave room for a gap before, between
  and after what is collected. Five iterations instead of 15 allow progress, a
  standstill of two and progress again.
- *Life.* One client for five handlers and a page worker is the tightest pool.
  One attempt is enough, as attempts only repeat the wait. The larger instance
  with 2 attempts and one chapter handler holds as well.

Symmetry is used for generations and filling goroutines only, and never with
liveness. The workers stop when the context is done, so deadlock is not checked;
that they stop there and not before is what the liveness properties say.

What the runs tell about the code, beside that the properties hold:

- `lateMark` is needed in `AddressExclusive` and in the refinement. Without it
  both fail: `handleChapter` marks by address after its retries, and by then the
  address may be somebody else's.
- `EntriesBounded` grows with the square of the failures: a page that is read
  again may show another image in a place, which is queued beside the one queued
  before, and every later failure may have each of them appended once more: one
  entry without a failure, `1 + 2 + ... + (1 + faults)` with them. An earlier
  bound, `1 + 2 * faults`, is the same for the one fault of `tasks_shared`, but
  could not be proved: a chapter whose page shows three images in turn goes beyond
  it with two. Both counting properties have a factor for the chapters that go by
  one name: rows and entries of namesakes add up in each other's place.
- `UnstoredBounded` is about unmistaken manga only, and `OwnChapters` allows for a
  link under another's title. Of two manga with one title
  the second is taken for an update of the first and never gets a row, without
  any failure.
- `NoOrphanTask` needs `faults = 0`: a single failed lookup of a known title is
  enough for chapter tasks with an empty manga id, which stay for good and, as
  `NothingMissed` has to allow for, keep the chapter from ever being queued
  properly.
- `HealthyLostOnlyLate` needs its last disjunct: a proxy that ends a long wait is
  used with what the 50 s have left and removed when that is too little, so that
  a crowded pool loses good proxies.
- `ReplacedByAlike` is as much as holds: names of the same length in a script
  other than Latin are usually alike, and such chapters of one manga replace each
  other's images.
- Nobody waits for the scrolling: the images are collected as soon as the script
  has reached its first `sleep`, with whatever has a `currentSrc` by then, and the
  function then only waits for the chapter's name. Its error text, "no valid images
  found after enhanced scrolling", presumes otherwise. `ShiftedOnlyByAGap` is what
  holds all the same: an image is in its own place unless one before it is
  missing. `ListOfThePage` promises the order only: a list with a gap has its
  images under earlier indices, and a later, longer reading of the page puts others
  under the same keys.
- `ProxiesOffered` is about lines that name a proxy. The parser lets much more
  through: `ip:port:country` and an http proxy with a password have two colons and
  are turned away by `net.SplitHostPort` after they have used up an index of the
  list and a place in the fill loop, while a sentence with one colon from a socks5
  source becomes a client that no request gets through.
- `UploadsLastAnswer` says that the bytes are those of the last attempt, and not
  that they are whole: an answer without a length that is cut off reads like one
  that has ended, and is stored.
- An image whose handler is faster than its chapter's insert is stored and never
  listed, without any failure. No doc or comment promises the contrary, so it is
  stated here and in the hazards and not as a property.
- An empty answer for one of the first 50 pages ends the crawl for good, while the
  process goes on. After a signal `main` logs "Server stopped gracefully" without
  waiting for a worker: `WorkersReturn` has to allow for its return.

## Fairness

`ProxyPool`: goroutines that can run do run, tickers tick, and a request ends,
because the HTTP client and the browser contexts have timeouts. Locking `pm.mu`
for writing is strongly fair, and readers do not overlap for ever while a writer
waits (`[]<>(WriterWaits => NoReader)`): a waiting writer of Go's `RWMutex` keeps
new readers out. Nothing is assumed about requests succeeding or handlers asking.
`TaskPipeline`: the workers poll, the handlers run, and a handler that waits for
the semaphore gets in if it is free again and again (strong fairness; a Go channel
serves its waiters in order). That tasks drain rests on `MaxFaults`: failures end
at some time.
`Crawler`: every goroutine that can go on does, and every call comes back, since
browser, requests and uploads have deadlines. A place in a sem goes to one of its
waiters and a free client to one of those who look for one, to nobody in
particular: the latter is what `SomebodyServed` shows of `ProxyPool`. The refill
goes on while the list has proxies. `main` returns after a signal.

## What is proved

From the named assumptions on the constants (`PoolAssumption`, `ListAssumption`,
`SourceAssumption`, `PipelineAssumption`, `PageAssumption`, `IntakeAssumption`,
`KeyAssumption`, `FetchAssumption`, `WindowAssumption`), for every value:

- `ProxyPoolProofs`: `TypeCorrect`; `PoolStaysBounded`, `LeasesExclude`,
  `NoLeaseLeaks`, `AddressesExclude` from the inductive `IInv`; `PanicCause`;
  and `Implements`, the refinement of `ProxyLease`. Exclusive leases are not
  inductive: a client a handler has marked bad must still be Busy
  (`HeldBusy`) and have that handler as its only holder (`HoldExclusive`), or
  another handler with a stale scan could lease it. That what is leased is pooled
  needs a fact about what a scan still remembers (`SnapshotPooled`): until a late
  mark, a remembered client is in the map or Busy.
- `ProxyListProofs`: `TypeCorrect`, `ListHasNoRepeats`, `ListIsComplete`,
  `ProxiesAreOffered`, which adds to completeness that no line that names a proxy is
  rejected and that `CreateProxyClient` makes a client of it. `IInv` follows each accepted line: scanned ones are in `parsed`, those of finished
  sources in `all`, and those the last loop has passed in `list`.
- `TaskPipelineProofs`: `TypeCorrect`, `EntriesAreStored`, `NothingGetsLost`,
  `ObjectsAreOwn`, the refinements `ImagesImplementQueue` and
  `ChaptersImplementQueue`, and `ImagesRetireStored` and `ChaptersRetireListed`,
  which say the same of single steps. `IInv` adds that image tasks are of pages
  (`OwnTasks`), that an image handler past its upload has its object in the bucket
  (`Uploaded`), that a chapter handler has accounted for every image it is past
  (`Accounted`), and that past the insert its row is there (`Recorded`).
  `RowsStayBounded` and `EntriesStayBounded` follow from `CountInv`, the second
  invariant, proved on top of the first (`CountsHold`). The bounds by themselves
  are not inductive: a handler that has yet to insert would break them. So what
  may still insert a row (`MayRecord`), queue an image for a place (`MayQueue`)
  or append to it (`MayAppend`) is counted as if it had. A step then only moves
  something from what may happen to what has, and a failure, a lost answer or a
  restart, which lets it happen again, raises the budget (`Budget`,
  `EntryBudget`) by as much. Once `tm.ctx` is done nothing may happen any more
  until a restart, which is paid for.
- `MangaIntakeProofs`: `TypeCorrect`, `PanicsAtShutdown`, `TidyHaveNoOrphans`,
  `ChaptersAreOwn`, `NothingIsSkipped`, `RowsAreVisits`, `UnstoredAreFew`. `IInv` adds where a
  handler's manga comes from (`OfListing`, `OwnHandlers`), that the worker's own
  cancel comes when no handler runs (`StoppedByItself`), what holds of handlers as
  long as nothing has failed (`NoFailure`), and `RowsCounted`: each visit pays for
  one row of a chapter, which is still to be queued, queued or recorded.
  `UnstoredAreFew` needs `DoomedBounded` beside it: a handler may leave a manga
  without a row several steps after the failure that caused it, so a manga counts
  from the moment its handler spends the first of its attempts on storing it
  (`Spending`), and each failure adds one such manga at most.
- `ObjectKeysProofs`: `CollideExactlyWhenAlike`, the exact set of names that
  share keys; `TypeCorrect`, `ListedAreStored`, `LabelsAreRight`,
  `ReplacedOnlyByAlike`. `IInv` adds that a key tells for which place and with
  what outcome its object was made (`Keyed`), and `Uploaded`.
- `ImageFetchProofs`: `TypeCorrect`, `LastAnswersOnly`, `HealthyStay`. `IInv` adds
  that a client has one holder (`Exclusive`), that an attempt's time is the
  sum of its parts (`Timing`), and that a body once read ends the attempts
  (`EndsAttempts`), so that no later one comes between it and the upload.
- `ChapterWindowProofs`: `TypeCorrect`, `InTimeMissesNothing`,
  `QueuedTasksStay`. `IInv` adds that names a visit remembers are recorded
  (`Remembered`), that only a stored manga has chapters queued in earnest
  (`ForStored`), and that a visit without a failure has kept what it saw or has
  it still to queue (`Visited`).

- `ChapterPageProofs`: `TypeCorrect`, `ListsThePage`, `OnlyGapsShift`, for a page
  of any length and a collection at any moment. The order of a list is defined by
  the places of its elements (`PlaceIn`, `InOrder`), counts that can be reasoned
  about, where a sort operator could not. `EveryPlace` shows that each place is
  taken by one element. `IInv` adds what was collected (`Collected`): the page
  without what was missed.

Every safety property that a run checks, and the three refinements, are theorems. Only
model-checked is liveness under fairness, which is beyond the prover:
`SomebodyServed`, `ChaptersDrain`, `ImagesDrain`, and `WorkersReturn` and
`NobodyStuck` of `Crawler`, which has no other properties.

## Not modelled

- The selectors with which chromedp finds the parts of a page, and columns that
  control nothing. What `GetMangaInfo` insists on and keeps is in
  `ChapterWindow`, what `GetImgFromChapter` collects in `ChapterPage`.
- `GetChapters` and `GetMangaChaptersByID`, which the program does not call.
- Pixels and encodings: a body converts or it does not.
- Times and durations except those of an image's attempts, and the limits of the
  database pool and the browser.
- Metrics, start-up, configuration and logging: they change no state that anything
  here reads back.
- The HTTP router and its handlers, which `main` does not use; `parser/mangadex`,
  which is commented out as a whole; generated docs and the scratch file.

## Plan

Done, in this order: `ProxyPool` with `ProxyLease`, `ProxyList`, `TaskPipeline`,
`MangaIntake`, as the pool and the pipeline carry most of the concurrency; then
`ObjectKeys`, `ImageFetch`, `ChapterPage`, `ChapterWindow`, the abstract
`TaskQueue` with its two refinements, `Crawler`, and the proofs about
`MangaIntake`.

Then the counting properties, whose proof corrected two of them, and the proofs
about `ChapterPage`.

What could follow: a refinement of `Crawler`'s counted pool by `ProxyPool`, after
a model of the late mark with counted clients.
