----------------------------- MODULE MangaIntake -----------------------------
(***************************************************************************)
(* How manga and chapters get into the tables: MangaPageWorker walks the   *)
(* pages of the listing and runs a handler for each entry, handleMangaInfo *)
(* for a title the manga table does not have and handleChapterUpdateInfo   *)
(* for one it has.  What happens to a queued chapter is TaskPipeline's     *)
(* subject; here a chapter is recorded in one step, when it suits.         *)
(***************************************************************************)
EXTENDS Naturals, Sequences, FiniteSets

CONSTANTS
  Manga,       \* the manga of the site; also the id of the row of each
  NoManga,     \* the empty manga id
  Chapter,     \* chapter URLs
  Title,       \* titles
  Name,        \* chapter names, as SafeChapterNameToS3 leaves them
  PageTitle,   \* title on the page of a manga
  ChaptersOf,  \* chapters on the page of a manga
  ListedName,  \* a chapter's name there
  RowName,     \* a chapter's name on its own page, which its row gets
  Listing,     \* what the listing shows for each page number
  LastPage,    \* pages beyond it are empty
  PageLimit,   \* "currentPage > 50"
  MaxEntries,  \* no page has more entries
  Workers,     \* sem of MangaPageWorker
  MaxRetries,  \* attempts of a handler
  MaxFaults    \* failures and restarts in a behaviour

Entry == [title : Title, manga : Manga]
Pos == 1..MaxEntries
Task == [url : Chapter, manga : Manga \cup {NoManga}]

ASSUME IntakeAssumption ==
  /\ NoManga \notin Manga
  /\ PageTitle \in [Manga -> Title]
  /\ ChaptersOf \in [Manga -> SUBSET Chapter]
  /\ ListedName \in [Chapter -> Name]
  /\ RowName \in [Chapter -> Name]
  /\ LastPage \in Nat /\ PageLimit \in Nat /\ MaxEntries \in Nat
  /\ Listing \in [1..LastPage -> SUBSET Seq(Entry)]
  /\ \A p \in 1..LastPage : \A l \in Listing[p] : Len(l) <= MaxEntries
  /\ MaxRetries \in Nat \ {0} /\ MaxFaults \in Nat

VARIABLES
  manga,        \* the manga table: the manga whose row was inserted
  chapterTask,  \* the rows of chapter_task
  rows,         \* the number of chapter rows of each chapter and manga id
  currentPage,  \* TaskManager.currentPage
  workerPc,     \* control of MangaPageWorker
  list,         \* the entries of the page it works on
  started,      \* how many of them have a handler
  pc,           \* control of the handler of each entry
  id,           \* its mangaID
  tries,        \* its attempts left
  parsed,       \* it has parsed the page of the manga (mangaInfo is not nil)
  old,          \* its snapshot of the chapter names (oldChapMap)
  toQueue,      \* chapters its goroutines have not queued yet
  tmDone,       \* TaskManager.ctx is done
  rootDone,     \* the context of main is done
  crashed,      \* a goroutine has panicked: the process is gone
  faults,       \* failures and restarts so far
  visits,       \* history: handlers started for a manga with each chapter
  through       \* history: manga a handler was through with, not cut off

tables == <<manga, chapterTask, rows>>
workerVars == <<currentPage, workerPc, list, started>>
handlerVars == <<pc, id, tries, parsed, old, toQueue>>
history == <<visits, through>>
ctxVars == <<tmDone, rootDone, crashed>>
vars == <<tables, workerVars, handlerVars, ctxVars, faults, history>>

Init ==
  /\ manga = {}
  /\ chapterTask = {}
  /\ rows = [t \in Task |-> 0]
  /\ currentPage = 1
  /\ workerPc = "list"
  /\ list = <<>>
  /\ started = 0
  /\ pc = [i \in Pos |-> "off"]
  /\ id = [i \in Pos |-> NoManga]
  /\ tries = [i \in Pos |-> 0]
  /\ parsed = [i \in Pos |-> FALSE]
  /\ old = [i \in Pos |-> {}]
  /\ toQueue = [i \in Pos |-> {}]
  /\ tmDone = FALSE
  /\ rootDone = FALSE
  /\ crashed = FALSE
  /\ faults = 0
  /\ visits = [c \in Chapter |-> 0]
  /\ through = {}

(* A call succeeds, or it fails by a fault or because its context is done. *)
(* Here a failed statement had no effect.                                  *)
Succeeds == ~tmDone /\ UNCHANGED faults
Fault == faults < MaxFaults /\ faults' = faults + 1
Fails == IF tmDone THEN UNCHANGED faults ELSE Fault

-----------------------------------------------------------------------------
(* MangaPageWorker.                                                        *)

GetMangaList(p) == IF p \in 1..LastPage THEN Listing[p] ELSE {<<>>}

(* ctx.Done() is looked at between two attempts at a page only.            *)
StartListing ==
  /\ workerPc = "list" /\ ~tmDone
  /\ workerPc' = "fetch"
  /\ UNCHANGED <<tables, currentPage, list, started, handlerVars>>
  /\ UNCHANGED <<ctxVars, faults, history>>

WorkerStops ==
  /\ workerPc = "list" /\ tmDone
  /\ workerPc' = "stopped"
  /\ UNCHANGED <<tables, currentPage, list, started, handlerVars>>
  /\ UNCHANGED <<ctxVars, faults, history>>

(* No client, a page that could not be parsed, or an empty one far down:   *)
(* the same page is asked for again.                                       *)
ListingFails ==
  /\ workerPc = "fetch"
  /\ workerPc' = "list"
  /\ UNCHANGED <<tables, currentPage, list, started, handlerVars>>
  /\ UNCHANGED <<ctxVars, faults, history>>

(* A page with entries.  The browser's context is not the task manager's:  *)
(* what is being parsed when tm.ctx ends is parsed to its end.             *)
ListPage ==
  /\ workerPc = "fetch"
  /\ \E l \in GetMangaList(currentPage) :
       /\ l # <<>>
       /\ list' = l
  /\ started' = 0
  /\ workerPc' = "spawn"
  /\ UNCHANGED <<tables, currentPage, handlerVars, ctxVars, faults, history>>

(* No entry on one of the first pages: tm.cancel().                        *)
EmptyPage ==
  /\ workerPc = "fetch"
  /\ <<>> \in GetMangaList(currentPage)
  /\ currentPage <= PageLimit
  /\ tmDone' = TRUE
  /\ workerPc' = "stopped"
  /\ UNCHANGED <<tables, currentPage, list, started, handlerVars>>
  /\ UNCHANGED <<rootDone, crashed, faults, history>>

(* sem <- struct{}{}; go func(m MangaList)                                 *)
StartHandler ==
  /\ workerPc = "spawn" /\ started < Len(list)
  /\ Cardinality({i \in Pos : pc[i] # "off"}) < Workers
  /\ started' = started + 1
  /\ pc' = [pc EXCEPT ![started + 1] = "exists"]
  /\ tries' = [tries EXCEPT ![started + 1] = MaxRetries]
  /\ visits' = [c \in Chapter |->
       IF c \in ChaptersOf[list[started + 1].manga] THEN visits[c] + 1
       ELSE visits[c]]
  /\ UNCHANGED <<tables, currentPage, workerPc, list, id, parsed, old, toQueue>>
  /\ UNCHANGED <<ctxVars, faults, through>>

(* wg.Wait(); tm.currentPage++                                             *)
Mut_PageDoneNoWait ==
  /\ workerPc = "spawn" /\ started = Len(list)
  /\ currentPage' = currentPage + 1
  /\ workerPc' = "list"
  /\ UNCHANGED <<tables, list, started, handlerVars, ctxVars, faults, history>>
PageDone ==
  /\ workerPc = "spawn" /\ started = Len(list)
  /\ \A i \in Pos : pc[i] = "off"
  /\ currentPage' = currentPage + 1
  /\ workerPc' = "list"
  /\ UNCHANGED <<tables, list, started, handlerVars, ctxVars, faults, history>>

-----------------------------------------------------------------------------
(* One handler.                                                            *)

Mut_EntryOfLoopVariable(i) == list[started]
EntryOf(i) == list[i]
At(i) == EntryOf(i).manga

(* The handler of position i ends.  One that a done context may have cut   *)
(* off is not through with its manga.                                      *)
Leave(i) ==
  /\ pc' = [pc EXCEPT ![i] = "off"]
  /\ id' = [id EXCEPT ![i] = NoManga]
  /\ tries' = [tries EXCEPT ![i] = 0]
  /\ parsed' = [parsed EXCEPT ![i] = FALSE]
  /\ old' = [old EXCEPT ![i] = {}]
  /\ toQueue' = [toQueue EXCEPT ![i] = {}]
  /\ through' = IF tmDone THEN through ELSE through \cup {At(i)}
  /\ UNCHANGED visits

Mut_RowsTitledAny(t) == manga
RowsTitled(t) == {m \in manga : PageTitle[m] = t}

(* The error is dropped: a failed query reads as "not there".              *)
ExistsMangaByTitle(i) ==
  /\ pc[i] = "exists"
  /\ \/ /\ Succeeds /\ RowsTitled(EntryOf(i).title) # {}
        /\ \E m \in RowsTitled(EntryOf(i).title) : id' = [id EXCEPT ![i] = m]
        /\ pc' = [pc EXCEPT ![i] = "names"]
     \/ /\ \/ Succeeds /\ RowsTitled(EntryOf(i).title) = {}
           \/ Fails
        /\ pc' = [pc EXCEPT ![i] = "info"]
        /\ UNCHANGED id
  /\ UNCHANGED <<tables, workerVars, tries, parsed, old, toQueue>>
  /\ UNCHANGED <<ctxVars, history>>

(* An attempt of handleMangaInfo gets no client, as the context is done,   *)
(* or cannot parse the page: only the latter forgets an earlier page.      *)
InfoParseFails(i) ==
  /\ pc[i] = "info" /\ tries[i] > 0 /\ Fails
  /\ tries' = [tries EXCEPT ![i] = @ - 1]
  /\ \/ parsed' = [parsed EXCEPT ![i] = FALSE]
     \/ tmDone /\ parsed' = parsed
  /\ UNCHANGED <<tables, workerVars, pc, id, old, toQueue, ctxVars, history>>

ChaptersToQueue(i) == ChaptersOf[At(i)]

(* manga.title is UNIQUE.                                                  *)
CreateManga(i) ==
  /\ pc[i] = "info" /\ tries[i] > 0 /\ Succeeds
  /\ RowsTitled(PageTitle[At(i)]) = {}
  /\ manga' = manga \cup {At(i)}
  /\ id' = [id EXCEPT ![i] = At(i)]
  /\ parsed' = [parsed EXCEPT ![i] = TRUE]
  /\ toQueue' = [toQueue EXCEPT ![i] = ChaptersToQueue(i)]
  /\ pc' = [pc EXCEPT ![i] = "queue"]
  /\ UNCHANGED <<chapterTask, rows, workerVars, tries, old, ctxVars, history>>

CreateMangaFails(i) ==
  /\ pc[i] = "info" /\ tries[i] > 0
  /\ \/ Succeeds /\ RowsTitled(PageTitle[At(i)]) # {}
     \/ Fails
  /\ tries' = [tries EXCEPT ![i] = @ - 1]
  /\ parsed' = [parsed EXCEPT ![i] = TRUE]
  /\ UNCHANGED <<tables, workerVars, pc, id, old, toQueue, ctxVars, history>>

(* All attempts spent.  With a parsed page the handler goes on, and queues *)
(* the chapters under the empty manga id.                                  *)
InfoTriesSpent(i) ==
  /\ pc[i] = "info" /\ tries[i] = 0
  /\ \/ /\ ~parsed[i]
        /\ Leave(i)
     \/ /\ parsed[i]
        /\ toQueue' = [toQueue EXCEPT ![i] = ChaptersToQueue(i)]
        /\ pc' = [pc EXCEPT ![i] = "queue"]
        /\ UNCHANGED <<id, tries, parsed, old, history>>
  /\ UNCHANGED <<tables, workerVars, ctxVars, faults>>

RowsOf(m) == {t \in Task : t.manga = m /\ rows[t] > 0}

(* handleChapterUpdateInfo starts with the names the chapter table has.    *)
GetChaptersNames(i) ==
  /\ pc[i] = "names"
  /\ \/ /\ Succeeds
        /\ old' = [old EXCEPT ![i] = {RowName[t.url] : t \in RowsOf(id[i])}]
        /\ pc' = [pc EXCEPT ![i] = "update"]
        /\ UNCHANGED <<id, tries, parsed, toQueue, history>>
     \/ Fails /\ Leave(i)
  /\ UNCHANGED <<tables, workerVars, ctxVars>>

(* An attempt that is under way when tm.ctx ends goes on to its end; what  *)
(* it finds cannot be queued any more.                                     *)
UpdateParseFails(i) ==
  /\ pc[i] = "update" /\ tries[i] > 0 /\ Fails
  /\ tries' = [tries EXCEPT ![i] = @ - 1]
  /\ UNCHANGED <<tables, workerVars, pc, id, parsed, old, toQueue>>
  /\ UNCHANGED <<ctxVars, history>>

NewChapters(i) == {c \in ChaptersOf[At(i)] : ListedName[c] \notin old[i]}

UpdateParses(i) ==
  /\ pc[i] = "update" /\ tries[i] > 0 /\ UNCHANGED faults
  /\ toQueue' = [toQueue EXCEPT ![i] = NewChapters(i)]
  /\ pc' = [pc EXCEPT ![i] = "queue"]
  /\ UNCHANGED <<tables, workerVars, id, tries, parsed, old, ctxVars, history>>

(* No attempt parsed the page, and at least one got as far as trying.      *)
UpdateGivesUp(i) ==
  /\ pc[i] = "update" /\ tries[i] < MaxRetries
  /\ tries[i] = 0 \/ tmDone
  /\ Leave(i)
  /\ UNCHANGED <<tables, workerVars, ctxVars, faults>>

(* The context ended before the first attempt: err is still nil from the   *)
(* query, chapters is nil, and chapters.Chapters panics.                   *)
UpdatePanics(i) ==
  /\ pc[i] = "update" /\ tries[i] = MaxRetries /\ tmDone
  /\ crashed' = TRUE
  /\ UNCHANGED <<tables, workerVars, handlerVars, tmDone, rootDone>>
  /\ UNCHANGED <<faults, history>>

HasTask(c) == \E t \in chapterTask : t.url = c

(* ON CONFLICT DO NOTHING; an error is only logged.                        *)
CreateChapterTask(i) ==
  /\ pc[i] = "queue"
  /\ \E c \in toQueue[i] :
       /\ toQueue' = [toQueue EXCEPT ![i] = @ \ {c}]
       /\ \/ /\ Succeeds
             /\ chapterTask' = IF HasTask(c) THEN chapterTask
                               ELSE chapterTask \cup {[url |-> c, manga |-> id[i]]}
          \/ Fails /\ UNCHANGED chapterTask
  /\ UNCHANGED <<manga, rows, workerVars, pc, id, tries, parsed, old>>
  /\ UNCHANGED <<ctxVars, history>>

(* chapWg.Wait()                                                           *)
Mut_HandlerDoneNoWait(i) ==
  /\ pc[i] = "queue"
  /\ Leave(i)
  /\ UNCHANGED <<tables, workerVars, ctxVars, faults>>
HandlerDone(i) ==
  /\ pc[i] = "queue" /\ toQueue[i] = {}
  /\ Leave(i)
  /\ UNCHANGED <<tables, workerVars, ctxVars, faults>>

-----------------------------------------------------------------------------
(* handleChapter: the row, then the task; the task may stay behind.        *)
Mut_RecordChapterKeepsTask(t) ==
  /\ t.manga # NoManga /\ ~tmDone
  /\ rows' = [rows EXCEPT ![t] = @ + 1]
  /\ UNCHANGED <<manga, chapterTask, workerVars, handlerVars, ctxVars>>
  /\ UNCHANGED <<faults, history>>
RecordChapter(t) ==
  /\ t.manga # NoManga /\ ~tmDone
  /\ rows' = [rows EXCEPT ![t] = @ + 1]
  /\ \/ chapterTask' = chapterTask \ {t} /\ UNCHANGED faults
     \/ Fault /\ UNCHANGED chapterTask
  /\ UNCHANGED <<manga, workerVars, handlerVars, ctxVars, history>>

Shutdown ==
  /\ ~rootDone
  /\ rootDone' = TRUE
  /\ tmDone' = TRUE
  /\ UNCHANGED <<tables, workerVars, handlerVars, crashed, faults, history>>

(* The process ends wherever it is and is started again, from page 1.      *)
Restart ==
  /\ Fault
  /\ currentPage' = 1
  /\ workerPc' = "list"
  /\ list' = <<>>
  /\ started' = 0
  /\ pc' = [i \in Pos |-> "off"]
  /\ id' = [i \in Pos |-> NoManga]
  /\ tries' = [i \in Pos |-> 0]
  /\ parsed' = [i \in Pos |-> FALSE]
  /\ old' = [i \in Pos |-> {}]
  /\ toQueue' = [i \in Pos |-> {}]
  /\ tmDone' = FALSE
  /\ rootDone' = FALSE
  /\ crashed' = FALSE
  /\ UNCHANGED <<tables, history>>

WorkerStep ==
  \/ StartListing \/ WorkerStops
  \/ ListingFails \/ ListPage \/ EmptyPage
  \/ StartHandler \/ PageDone

HandlerStep(i) ==
  \/ ExistsMangaByTitle(i)
  \/ InfoParseFails(i) \/ CreateManga(i) \/ CreateMangaFails(i)
  \/ InfoTriesSpent(i)
  \/ GetChaptersNames(i)
  \/ UpdateParseFails(i) \/ UpdateParses(i) \/ UpdateGivesUp(i)
  \/ UpdatePanics(i)
  \/ CreateChapterTask(i) \/ HandlerDone(i)

Next ==
  \/ /\ ~crashed
     /\ \/ WorkerStep
        \/ \E i \in Pos : HandlerStep(i)
        \/ \E t \in chapterTask : RecordChapter(t)
        \/ Shutdown
  \/ Restart

Spec == Init /\ [][Next]_vars

-----------------------------------------------------------------------------
(* Properties.                                                             *)

(* Every variable keeps its shape, a handler has an entry to work on, and  *)
(* a task's manga id is that of a row or empty.                            *)
TypeOK ==
  /\ manga \subseteq Manga
  /\ \A m1, m2 \in manga : PageTitle[m1] = PageTitle[m2] => m1 = m2
  /\ chapterTask \subseteq Task
  /\ \A t \in chapterTask : t.manga \in manga \cup {NoManga}
  /\ \A t, r \in chapterTask : t.url = r.url => t = r
  /\ rows \in [Task -> Nat]
  /\ currentPage \in 1..(LastPage + 1)
  /\ workerPc \in {"list", "fetch", "spawn", "stopped"}
  /\ list \in Seq(Entry)
  /\ started \in 0..Len(list) /\ Len(list) <= MaxEntries
  /\ pc \in [Pos -> {"off", "exists", "info", "names", "update", "queue"}]
  /\ \A i \in Pos : pc[i] # "off" => i <= started /\ workerPc = "spawn"
  /\ id \in [Pos -> Manga \cup {NoManga}]
  /\ \A i \in Pos : pc[i] \in {"names", "update"} => id[i] \in manga
  /\ tries \in [Pos -> 0..MaxRetries]
  /\ parsed \in [Pos -> BOOLEAN]
  /\ old \in [Pos -> SUBSET Name]
  /\ toQueue \in [Pos -> SUBSET Chapter]
  /\ tmDone \in BOOLEAN /\ rootDone \in BOOLEAN /\ crashed \in BOOLEAN
  /\ rootDone => tmDone
  /\ faults \in 0..MaxFaults
  /\ visits \in [Chapter -> Nat]
  /\ through \subseteq Manga

(* The nil dereference in handleChapterUpdateInfo is out of reach of the   *)
(* page worker's own tm.cancel(), which comes when no handler runs: only a *)
(* signal to the process can lead to it.                                   *)
PanicOnlyAtShutdown == crashed => rootDone

(* The listing shows manga m under title t.                                *)
ListedAs(m, t) ==
  \E p \in 1..LastPage : \E l \in Listing[p] : \E k \in 1..Len(l) :
    l[k] = [title |-> t, manga |-> m]

(* A manga with a title of its own that every page of the listing shows    *)
(* under that title and at most once.                                      *)
TidyManga(m) ==
  /\ \A n \in Manga : PageTitle[n] = PageTitle[m] => n = m
  /\ \A t \in Title : ListedAs(m, t) => t = PageTitle[m]
  /\ \A p \in 1..LastPage : \A l \in Listing[p] : \A j, k \in 1..Len(l) :
       l[j].manga = m /\ l[k].manga = m => j = k

(* As long as no call has failed, no chapter of a tidy manga is queued     *)
(* without a manga id: two handlers never store one manga at a time,       *)
(* although a manga can show up on two pages.                              *)
NoOrphanTask ==
  faults = 0 => \A t \in chapterTask : t.manga = NoManga =>
    \E m \in Manga : t.url \in ChaptersOf[m] /\ ~TidyManga(m)

(* A chapter is queued, and later recorded, under the manga that lists it, *)
(* unless the listing shows that one under the title of the other: the id  *)
(* a handler looked up by title is that of the page it parsed.             *)
OwnChapters ==
  \A t \in Task : t.manga # NoManga /\ (t \in chapterTask \/ rows[t] > 0) =>
    \E m \in Manga :
      /\ t.url \in ChaptersOf[m]
      /\ m = t.manga \/ ListedAs(m, PageTitle[t.manga])

(* As long as no call has failed, every chapter of a manga that a handler  *)
(* is through with is queued or recorded, but for one whose name a         *)
(* recorded chapter of the manga has.                                      *)
IsKept(m, c) ==
  \/ HasTask(c)
  \/ \E t \in Task :
       /\ rows[t] > 0
       /\ \/ t.url = c
          \/ /\ t.manga # NoManga /\ RowName[t.url] = ListedName[c]
             /\ ListedAs(m, PageTitle[t.manga])

NothingSkipped ==
  faults = 0 => \A m \in through : \A c \in ChaptersOf[m] : IsKept(m, c)

(* A chapter is recorded at most once per visit to its manga, and once     *)
(* more for every failure or restart, even when its names on the two pages *)
(* differ and the snapshot of the names is stale when it is used.          *)
RowsPerVisit == \A t \in Task : rows[t] <= visits[t.url] + faults

(* What the proofs add.  The list a worker goes through is one the listing *)
(* shows; the worker's own tm.cancel() stops it, and no handler runs then. *)
OfListing ==
  workerPc = "spawn" =>
    currentPage \in 1..LastPage /\ list \in Listing[currentPage]

StoppedByItself == tmDone /\ ~rootDone => workerPc = "stopped"

(* The id a handler has is that of a stored manga, its entry's or one of   *)
(* its entry's title; it queues chapters of its entry only, and the names  *)
(* it took down are those of rows.                                         *)
IsId(m, i) == m = At(i) \/ ListedAs(At(i), PageTitle[m])

OwnHandler(i) ==
  /\ id[i] # NoManga => pc[i] # "off" /\ id[i] \in manga /\ IsId(id[i], i)
  /\ IF pc[i] = "queue" THEN toQueue[i] \subseteq ChaptersOf[At(i)]
     ELSE toQueue[i] = {}
  /\ pc[i] \in {"exists", "names"} => tries[i] = MaxRetries
  /\ pc[i] = "update" =>
       \A n \in old[i] : \E t \in RowsOf(id[i]) : RowName[t.url] = n
  /\ pc[i] \in {"names", "update"} => ListedAs(At(i), PageTitle[id[i]])

OwnHandlers == \A i \in Pos : OwnHandler(i)

(* Without a failure no attempt is spent but on a refused insert, and a    *)
(* tidy manga's insert is not refused.                                     *)
Unfailed(i) ==
  /\ pc[i] = "update" => tries[i] = MaxRetries
  /\ pc[i] = "info" => tries[i] = MaxRetries \/ parsed[i]
  /\ TidyManga(At(i)) =>
       /\ pc[i] = "info" => tries[i] = MaxRetries /\ At(i) \notin manga
       /\ pc[i] = "queue" => id[i] # NoManga
  /\ pc[i] = "queue" =>
       \A c \in ChaptersOf[At(i)] : c \in toQueue[i] \/ IsKept(At(i), c)

NoFailure ==
  faults = 0 /\ ~tmDone => \A i \in Pos : pc[i] # "off" => Unfailed(i)

(* A visit pays for one row: it is yet to come, queued, or there.          *)
Pending(c) ==
  {i \in Pos : /\ pc[i] # "off" /\ c \in ChaptersOf[At(i)]
               /\ pc[i] = "queue" => c \in toQueue[i]}

Queued(t) == IF t \in chapterTask THEN 1 ELSE 0

RowsCounted ==
  \A t \in Task :
    rows[t] + Queued(t) + Cardinality(Pending(t.url)) <= visits[t.url] + faults

IInv ==
  /\ TypeOK /\ OfListing /\ StoppedByItself /\ OwnHandlers
  /\ NoFailure /\ RowsCounted
  /\ PanicOnlyAtShutdown /\ NoOrphanTask /\ OwnChapters /\ NothingSkipped

(* A manga that a handler is through with has a row, but for one manga for *)
(* each failure: a title the listing spells differently is stored once.    *)
(* One that has the title of another, or is listed under it, may be taken  *)
(* for that other.                                                         *)
Unmistaken(m) ==
  \A n \in Manga \ {m} :
    PageTitle[n] # PageTitle[m] /\ ~ListedAs(m, PageTitle[n])

Unstored == {m \in through \ manga : Unmistaken(m)}

UnstoredBounded == Cardinality(Unstored) <= faults

(* What its proof adds: a manga is paid for when its handler spends the    *)
(* first of its attempts, not when it leaves.                              *)
Spending(i) ==
  \/ pc[i] = "info" /\ tries[i] < MaxRetries
  \/ pc[i] = "queue"

Doomed ==
  {m \in Manga \ manga :
     /\ Unmistaken(m)
     /\ \/ m \in through
        \/ ~tmDone /\ \E i \in Pos : Spending(i) /\ At(i) = m}

DoomedBounded == IsFiniteSet(Doomed) /\ Cardinality(Doomed) <= faults
=============================================================================
