---------------------------- MODULE TaskPipeline ----------------------------
(***************************************************************************)
(* The two task queues of parser/mangapark and the workers that drain      *)
(* them.  ChapterWorker takes the rows of chapter_task in batches; its     *)
(* handlers parse a chapter page, put one img_task row per image, insert   *)
(* the chapter row and delete the task.  ImgWorker takes the rows of       *)
(* img_task in batches; its handlers download an image, put it in the      *)
(* bucket, append it to the chapter row and delete the task.               *)
(*                                                                         *)
(* The tables and the bucket outlive the process; the workers do not.  A   *)
(* statement or an upload can fail before or after it took effect, and the *)
(* process can stop anywhere and be started again; MaxFaults bounds how    *)
(* often that happens.  The attempts of a fetch, each with a proxy of its  *)
(* own, are the subject of ProxyPool: here the loop ends well or gives up. *)
(***************************************************************************)
EXTENDS Naturals, Sequences, FiniteSets

CONSTANTS
  ChapterUrl,   \* chapters to crawl
  Image,        \* image URLs
  Manga,        \* ids of manga rows
  NoManga,      \* the empty manga id of a manga that could not be stored
  Name,         \* chapter names, as SafeChapterNameToS3 leaves them
  Nothing,      \* no object under a key
  MangaOf,      \* the manga id a chapter is queued with
  Pages,        \* what parsing a chapter's page may return
  MaxImages,    \* no page has more images
  ChapterSlots, \* sem of ChapterWorker
  ImageSlots,   \* sem of ImgWorker
  MaxFaults     \* failures and restarts in a behaviour

Idx == 1..MaxImages
MangaId == Manga \cup {NoManga}
Page == [name : Name, images : Seq(Image)]
ChapterTask == [url : ChapterUrl, manga : MangaId]
ImgTask == [url : Image, idx : Idx, manga : MangaId, chapter : Name]
Key == [manga : MangaId, chapter : Name, idx : Idx]

ASSUME PipelineAssumption ==
  /\ NoManga \notin Manga
  /\ Nothing \notin Image
  /\ MangaOf \in [ChapterUrl -> MangaId]
  /\ Pages \in [ChapterUrl -> SUBSET Page]
  /\ MaxImages \in Nat
  /\ MaxFaults \in Nat

(* GetImgFromChapter fails on an empty list and drops repeated images.     *)
ASSUME PageAssumption ==
  \A c \in ChapterUrl : \A page \in Pages[c] :
    /\ Len(page.images) \in 1..MaxImages
    /\ \A i, j \in 1..Len(page.images) :
         page.images[i] = page.images[j] => i = j

VARIABLES
  known,      \* the chapters that were ever queued
  chapterTask,\* the rows of chapter_task
  imgTask,    \* the rows of img_task
  chapter,    \* the rows of chapter, in the order of their insertion
  bucket,     \* the image stored under each key
  chapterPc,  \* control of handleChapter, for each chapter
  page,       \* what it parsed
  toQueue,    \* the images it still has to queue
  imgPc,      \* control of handleImage, for each image
  imgJob,     \* its task
  tmDone,     \* TaskManager.ctx is done
  faults,     \* failures and restarts so far
  refused     \* history: the image tasks that could not be queued

tables == <<chapterTask, imgTask, chapter, bucket>>
chapterVars == <<chapterPc, page, toQueue>>
imgVars == <<imgPc, imgJob>>
vars == <<known, tables, chapterVars, imgVars, tmDone, faults, refused>>

NoPage == [name |-> Nothing, images |-> <<>>]
NoJob == Nothing

Init ==
  /\ known = {}
  /\ chapterTask = {}
  /\ imgTask = {}
  /\ chapter = <<>>
  /\ bucket = [k \in Key |-> Nothing]
  /\ chapterPc = [c \in ChapterUrl |-> "off"]
  /\ page = [c \in ChapterUrl |-> NoPage]
  /\ toQueue = [c \in ChapterUrl |-> {}]
  /\ imgPc = [x \in Image |-> "off"]
  /\ imgJob = [x \in Image |-> NoJob]
  /\ tmDone = FALSE
  /\ faults = 0
  /\ refused = {}

HasTask(c) == \E t \in chapterTask : t.url = c

KeyOf(t) == [manga |-> t.manga, chapter |-> t.chapter, idx |-> t.idx]

(* A call succeeds, or it fails: by a fault, or because its context is     *)
(* done.  A call that fails by a fault may have had its effect, the answer *)
(* being lost; one that a cancellation cuts off half-way counts as such.   *)
Succeeds == ~tmDone /\ UNCHANGED faults
Fails ==
  \/ tmDone /\ UNCHANGED faults
  \/ ~tmDone /\ faults < MaxFaults /\ faults' = faults + 1
Left(before, after) == IF tmDone THEN {before} ELSE {before, after}

-----------------------------------------------------------------------------
(* ChapterWorker and handleChapter.                                        *)

(* The page worker's handlers queue a chapter; ON CONFLICT DO NOTHING.     *)
CreateChapterTask(c) ==
  /\ c \notin known /\ ~tmDone
  /\ known' = known \cup {c}
  /\ chapterTask' =
       IF HasTask(c) THEN chapterTask
       ELSE chapterTask \cup {[url |-> c, manga |-> MangaOf[c]]}
  /\ UNCHANGED <<imgTask, chapter, bucket, chapterVars, imgVars>>
  /\ UNCHANGED <<tmDone, faults, refused>>

(* handleChapterUpdateInfo queues a recorded chapter again, when its row   *)
(* came after the names were read or has another name (MangaIntake).       *)
QueueAgain(c) ==
  /\ c \in known /\ ~HasTask(c) /\ ~tmDone
  /\ faults < MaxFaults /\ faults' = faults + 1
  /\ chapterTask' = chapterTask \cup {[url |-> c, manga |-> MangaOf[c]]}
  /\ UNCHANGED <<known, imgTask, chapter, bucket, chapterVars, imgVars>>
  /\ UNCHANGED <<tmDone, refused>>

(* The previous batch is done (wg.Wait): read the tasks, and start one     *)
(* handler for each.                                                       *)
GetChapterTasks ==
  /\ \A c \in ChapterUrl : chapterPc[c] = "off"
  /\ chapterTask # {} /\ ~tmDone
  /\ chapterPc' = [c \in ChapterUrl |-> IF HasTask(c) THEN "ready" ELSE "off"]
  /\ UNCHANGED <<known, tables, page, toQueue, imgVars>>
  /\ UNCHANGED <<tmDone, faults, refused>>

Mut_RunningCountsReady(pc) == {x \in DOMAIN pc : pc[x] # "off"}
Running(pc) == {x \in DOMAIN pc : pc[x] \notin {"off", "ready"}}

(* sem <- struct{}{}                                                       *)
EnterChapter(c) ==
  /\ chapterPc[c] = "ready"
  /\ Cardinality(Running(chapterPc)) < ChapterSlots
  /\ chapterPc' = [chapterPc EXCEPT ![c] = "fetch"]
  /\ UNCHANGED <<known, tables, page, toQueue, imgVars>>
  /\ UNCHANGED <<tmDone, faults, refused>>

(* The browser's context is not the task manager's: a page that is being   *)
(* parsed when tm.ctx ends is parsed to its end.                           *)
GetImgFromChapter(c) ==
  /\ chapterPc[c] = "fetch" /\ UNCHANGED faults
  /\ \E p \in Pages[c] :
       /\ page' = [page EXCEPT ![c] = p]
       /\ toQueue' = [toQueue EXCEPT ![c] = 1..Len(p.images)]
  /\ chapterPc' = [chapterPc EXCEPT ![c] = "queue"]
  /\ UNCHANGED <<known, tables, imgVars, tmDone, refused>>

ReleaseChapter(c) ==
  /\ chapterPc' = [chapterPc EXCEPT ![c] = "off"]
  /\ page' = [page EXCEPT ![c] = NoPage]
  /\ toQueue' = [toQueue EXCEPT ![c] = {}]

(* All attempts spent.                                                     *)
ChapterFetchFails(c) ==
  /\ chapterPc[c] = "fetch" /\ Fails
  /\ ReleaseChapter(c)
  /\ UNCHANGED <<known, tables, imgVars, tmDone, refused>>

TaskOf(c, p, i) ==
  [url |-> p.images[i], idx |-> i, manga |-> MangaOf[c], chapter |-> p.name]

Mut_ImgTaskForSharesVariable(c, i) ==
  [TaskOf(c, page[c], i) EXCEPT !.url = page[c].images[Len(page[c].images)]]
ImgTaskFor(c, i) == TaskOf(c, page[c], i)

(* img_task.url is UNIQUE and the insert has no ON CONFLICT.               *)
Mut_InsertedReplaces(t) == {r \in imgTask : r.url # t.url} \cup {t}
Inserted(t) ==
  IF \E r \in imgTask : r.url = t.url THEN imgTask ELSE imgTask \cup {t}

(* One of the goroutines that queue the images of a page.  Its error is    *)
(* only logged, the handler goes on.                                       *)
CreateImgTask(c) ==
  /\ chapterPc[c] = "queue"
  /\ \E i \in toQueue[c] :
       LET t == ImgTaskFor(c, i) IN
       /\ toQueue' = [toQueue EXCEPT ![c] = @ \ {i}]
       /\ \/ Succeeds /\ imgTask' = Inserted(t)
          \/ Fails /\ imgTask' \in Left(imgTask, Inserted(t))
       /\ refused' = IF t \in imgTask' THEN refused ELSE refused \cup {t}
  /\ UNCHANGED <<known, chapterTask, chapter, bucket, chapterPc, page>>
  /\ UNCHANGED <<imgVars, tmDone>>

(* imgWG.Wait()                                                            *)
Mut_AllQueuedNoWait(c) ==
  /\ chapterPc[c] = "queue"
  /\ toQueue' = [toQueue EXCEPT ![c] = {}]
  /\ chapterPc' = [chapterPc EXCEPT ![c] = "record"]
  /\ UNCHANGED <<known, tables, page, imgVars>>
  /\ UNCHANGED <<tmDone, faults, refused>>
AllQueued(c) ==
  /\ chapterPc[c] = "queue" /\ toQueue[c] = {}
  /\ chapterPc' = [chapterPc EXCEPT ![c] = "record"]
  /\ UNCHANGED <<known, tables, page, toQueue, imgVars>>
  /\ UNCHANGED <<tmDone, faults, refused>>

NewRow(c) ==
  [manga |-> MangaOf[c], name |-> page[c].name, imgs |-> [i \in Idx |-> 0]]

(* manga_id is a uuid: the empty one is refused every time.                *)
CreateChapter(c) ==
  /\ chapterPc[c] = "record" /\ MangaOf[c] # NoManga /\ Succeeds
  /\ chapter' = Append(chapter, NewRow(c))
  /\ chapterPc' = [chapterPc EXCEPT ![c] = "retire"]
  /\ UNCHANGED <<known, chapterTask, imgTask, bucket, page, toQueue, imgVars>>
  /\ UNCHANGED <<tmDone, refused>>

Mut_CreateChapterFailsGoesOn(c) ==
  /\ chapterPc[c] = "record"
  /\ \/ MangaOf[c] = NoManga /\ UNCHANGED <<chapter, faults>>
     \/ MangaOf[c] # NoManga /\ Fails
          /\ chapter' \in Left(chapter, Append(chapter, NewRow(c)))
  /\ chapterPc' = [chapterPc EXCEPT ![c] = "retire"]
  /\ UNCHANGED <<known, chapterTask, imgTask, bucket, page, toQueue, imgVars>>
  /\ UNCHANGED <<tmDone, refused>>
CreateChapterFails(c) ==
  /\ chapterPc[c] = "record"
  /\ \/ MangaOf[c] = NoManga /\ UNCHANGED <<chapter, faults>>
     \/ MangaOf[c] # NoManga /\ Fails
          /\ chapter' \in Left(chapter, Append(chapter, NewRow(c)))
  /\ ReleaseChapter(c)
  /\ UNCHANGED <<known, chapterTask, imgTask, bucket, imgVars>>
  /\ UNCHANGED <<tmDone, refused>>

WithoutTask(c) == {t \in chapterTask : t.url # c}

Mut_DeleteChapterTaskForgets(c) ==
  /\ chapterPc[c] = "retire" /\ Succeeds
  /\ ReleaseChapter(c)
  /\ UNCHANGED <<known, tables, imgVars>>
  /\ UNCHANGED <<tmDone, refused>>
DeleteChapterTask(c) ==
  /\ chapterPc[c] = "retire"
  /\ \/ Succeeds /\ chapterTask' = WithoutTask(c)
     \/ Fails /\ chapterTask' \in Left(chapterTask, WithoutTask(c))
  /\ ReleaseChapter(c)
  /\ UNCHANGED <<known, imgTask, chapter, bucket, imgVars>>
  /\ UNCHANGED <<tmDone, refused>>

-----------------------------------------------------------------------------
(* ImgWorker and handleImage.                                              *)

GetImgTasks ==
  /\ \A x \in Image : imgPc[x] = "off"
  /\ imgTask # {} /\ ~tmDone
  /\ imgPc' = [x \in Image |->
       IF \E t \in imgTask : t.url = x THEN "ready" ELSE "off"]
  /\ imgJob' = [x \in Image |->
       IF \E t \in imgTask : t.url = x
       THEN CHOOSE t \in imgTask : t.url = x ELSE NoJob]
  /\ UNCHANGED <<known, tables, chapterVars, tmDone, faults, refused>>

EnterImage(x) ==
  /\ imgPc[x] = "ready"
  /\ Cardinality(Running(imgPc)) < ImageSlots
  /\ imgPc' = [imgPc EXCEPT ![x] = "fetch"]
  /\ UNCHANGED <<known, tables, chapterVars, imgJob, tmDone, faults, refused>>

FetchImage(x) ==
  /\ imgPc[x] = "fetch" /\ Succeeds
  /\ imgPc' = [imgPc EXCEPT ![x] = "upload"]
  /\ UNCHANGED <<known, tables, chapterVars, imgJob, tmDone, refused>>

ReleaseImage(x) ==
  /\ imgPc' = [imgPc EXCEPT ![x] = "off"]
  /\ imgJob' = [imgJob EXCEPT ![x] = NoJob]

(* All attempts spent: the task stays for a later batch.                   *)
Mut_ImageFetchFailsKeepsPlace(x) ==
  /\ imgPc[x] = "fetch" /\ Fails
  /\ imgPc' = [imgPc EXCEPT ![x] = "failed"]
  /\ UNCHANGED <<known, tables, chapterVars, imgJob, tmDone, refused>>
ImageFetchFails(x) ==
  /\ imgPc[x] = "fetch" /\ Fails
  /\ ReleaseImage(x)
  /\ UNCHANGED <<known, tables, chapterVars, tmDone, refused>>

Stored(x) == [bucket EXCEPT ![KeyOf(imgJob[x])] = x]

Mut_UploadIgnoresError(x) ==
  /\ imgPc[x] = "upload"
  /\ \/ Succeeds /\ bucket' = Stored(x)
     \/ Fails /\ bucket' \in Left(bucket, Stored(x))
  /\ imgPc' = [imgPc EXCEPT ![x] = "append"]
  /\ UNCHANGED <<known, chapterTask, imgTask, chapter, chapterVars, imgJob>>
  /\ UNCHANGED <<tmDone, refused>>
UploadImgToS3(x) ==
  /\ imgPc[x] = "upload" /\ Succeeds
  /\ bucket' = Stored(x)
  /\ imgPc' = [imgPc EXCEPT ![x] = "append"]
  /\ UNCHANGED <<known, chapterTask, imgTask, chapter, chapterVars, imgJob>>
  /\ UNCHANGED <<tmDone, refused>>

(* All uploads failed; the last ones may have stored the object.           *)
UploadFails(x) ==
  /\ imgPc[x] = "upload" /\ Fails
  /\ bucket' \in Left(bucket, Stored(x))
  /\ ReleaseImage(x)
  /\ UNCHANGED <<known, chapterTask, imgTask, chapter, chapterVars>>
  /\ UNCHANGED <<tmDone, refused>>

(* UPDATE chapter: every row with that manga and name, which may be none.  *)
Appended(t) ==
  [n \in DOMAIN chapter |->
     IF chapter[n].manga = t.manga /\ chapter[n].name = t.chapter
     THEN [chapter[n] EXCEPT !.imgs[t.idx] = @ + 1]
     ELSE chapter[n]]

(* An error is logged and the handler goes on to delete the task; an empty *)
(* manga id is not a uuid and always ends in one.                          *)
UpdateChapterImgByIndex(x) ==
  /\ imgPc[x] = "append"
  /\ \/ imgJob[x].manga # NoManga /\ Succeeds /\ chapter' = Appended(imgJob[x])
     \/ imgJob[x].manga # NoManga /\ Fails
          /\ chapter' \in Left(chapter, Appended(imgJob[x]))
     \/ imgJob[x].manga = NoManga /\ UNCHANGED <<chapter, faults>>
  /\ imgPc' = [imgPc EXCEPT ![x] = "retire"]
  /\ UNCHANGED <<known, chapterTask, imgTask, bucket, chapterVars, imgJob>>
  /\ UNCHANGED <<tmDone, refused>>

WithoutImgTask(x) == {t \in imgTask : t.url # x}

Mut_DeleteImgTaskForgets(x) ==
  /\ imgPc[x] = "retire" /\ Succeeds
  /\ ReleaseImage(x)
  /\ UNCHANGED <<known, tables, chapterVars, tmDone, refused>>
DeleteImgTask(x) ==
  /\ imgPc[x] = "retire"
  /\ \/ Succeeds /\ imgTask' = WithoutImgTask(x)
     \/ Fails /\ imgTask' \in Left(imgTask, WithoutImgTask(x))
  /\ ReleaseImage(x)
  /\ UNCHANGED <<known, chapterTask, chapter, bucket, chapterVars>>
  /\ UNCHANGED <<tmDone, refused>>

-----------------------------------------------------------------------------

(* tm.cancel() or a signal: no call succeeds from here on.                 *)
Cancel ==
  /\ ~tmDone
  /\ tmDone' = TRUE
  /\ UNCHANGED <<known, tables, chapterVars, imgVars, faults, refused>>

(* The process ends wherever it is, main does not wait for the workers,    *)
(* and is started again: the tables and the bucket are what is left.       *)
Restart ==
  /\ faults < MaxFaults
  /\ faults' = faults + 1
  /\ chapterPc' = [c \in ChapterUrl |-> "off"]
  /\ page' = [c \in ChapterUrl |-> NoPage]
  /\ toQueue' = [c \in ChapterUrl |-> {}]
  /\ imgPc' = [x \in Image |-> "off"]
  /\ imgJob' = [x \in Image |-> NoJob]
  /\ tmDone' = FALSE
  /\ UNCHANGED <<known, tables, refused>>

ChapterStep(c) ==
  \/ EnterChapter(c)
  \/ GetImgFromChapter(c) \/ ChapterFetchFails(c)
  \/ CreateImgTask(c) \/ AllQueued(c)
  \/ CreateChapter(c) \/ CreateChapterFails(c)
  \/ DeleteChapterTask(c)

ImageStep(x) ==
  \/ EnterImage(x)
  \/ FetchImage(x) \/ ImageFetchFails(x)
  \/ UploadImgToS3(x) \/ UploadFails(x)
  \/ UpdateChapterImgByIndex(x)
  \/ DeleteImgTask(x)

Next ==
  \/ \E c \in ChapterUrl :
       CreateChapterTask(c) \/ QueueAgain(c) \/ ChapterStep(c)
  \/ \E x \in Image : ImageStep(x)
  \/ GetChapterTasks
  \/ GetImgTasks
  \/ Cancel
  \/ Restart

Spec == Init /\ [][Next]_vars

(* The workers poll and the handlers run.  A handler waiting for sem gets  *)
(* in as often as others leave it.  Nobody has to queue chapters.          *)
Fairness ==
  /\ WF_vars(GetChapterTasks)
  /\ WF_vars(GetImgTasks)
  /\ \A c \in ChapterUrl : SF_vars(EnterChapter(c)) /\ WF_vars(ChapterStep(c))
  /\ \A x \in Image : SF_vars(EnterImage(x)) /\ WF_vars(ImageStep(x))

FairSpec == Spec /\ Fairness

-----------------------------------------------------------------------------
(* Properties.                                                             *)

HasImgTask(x) == \E t \in imgTask : t.url = x

Row == [manga : Manga, name : Name, imgs : [Idx -> Nat]]

(* The tables keep their shape and their unique urls, and every handler    *)
(* between its first and its last statement works on a row that is there.  *)
TypeOK ==
  /\ known \subseteq ChapterUrl
  /\ chapterTask \subseteq {[url |-> c, manga |-> MangaOf[c]] : c \in known}
  /\ imgTask \subseteq ImgTask
  /\ \A t, r \in imgTask : t.url = r.url => t = r
  /\ chapter \in Seq(Row)
  /\ bucket \in [Key -> Image \cup {Nothing}]
  /\ chapterPc \in [ChapterUrl ->
       {"off", "ready", "fetch", "queue", "record", "retire"}]
  /\ page \in [ChapterUrl -> Page \cup {NoPage}]
  /\ toQueue \in [ChapterUrl -> SUBSET Idx]
  /\ \A c \in ChapterUrl :
       /\ chapterPc[c] # "off" => HasTask(c)
       /\ IF chapterPc[c] \in {"queue", "record", "retire"}
          THEN page[c] \in Pages[c] ELSE page[c] = NoPage
       /\ chapterPc[c] = "queue" => toQueue[c] \subseteq 1..Len(page[c].images)
       /\ chapterPc[c] # "queue" => toQueue[c] = {}
       /\ chapterPc[c] = "retire" => MangaOf[c] # NoManga
  /\ imgPc \in [Image ->
       {"off", "ready", "fetch", "upload", "append", "retire"}]
  /\ imgJob \in [Image -> ImgTask \cup {NoJob}]
  /\ \A x \in Image :
       IF imgPc[x] = "off" THEN imgJob[x] = NoJob
       ELSE imgJob[x] \in imgTask /\ imgJob[x].url = x
  /\ tmDone \in BOOLEAN
  /\ faults \in 0..MaxFaults
  /\ refused \subseteq ImgTask

IsStored(t) == bucket[KeyOf(t)] # Nothing

(* Every image a chapter row lists is in the bucket: a reader never        *)
(* follows an entry to an object that was not stored, whatever failed on   *)
(* the way and however often the work was done again.                      *)
NoDanglingEntry ==
  \A n \in DOMAIN chapter : \A i \in Idx :
    chapter[n].imgs[i] > 0 =>
      bucket[[manga |-> chapter[n].manga, chapter |-> chapter[n].name,
              idx |-> i]] # Nothing

(* handleImage retires an image only once its object is in the bucket.     *)
ImageRetiredWhenStored ==
  [][\A t \in imgTask : t \notin imgTask' => IsStored(t)]_vars

(* handleChapter retires a chapter only when its row exists and each image *)
(* of its page is stored, still queued, or was refused by the table (a     *)
(* failed insert, or the same image queued for another place): the two     *)
(* workers between them lose nothing else.                                 *)
HasRow(m, name) ==
  \E n \in DOMAIN chapter : chapter[n].manga = m /\ chapter[n].name = name

IsAccountedFor(t) == IsStored(t) \/ t \in imgTask \/ t \in refused

ChapterRetiredWhenListed ==
  [][\A c \in ChapterUrl : HasTask(c) /\ ~HasTask(c)' =>
       /\ HasRow(MangaOf[c], page[c].name)
       /\ \A i \in 1..Len(page[c].images) : IsAccountedFor(ImgTaskFor(c, i))]_vars

(* However often work was cut off and done again, a chapter that was ever  *)
(* queued has its task, or a row and every image of some reading of its    *)
(* page stored, queued or refused.                                         *)
NothingLost ==
  \A c \in known : HasTask(c) \/ \E p \in Pages[c] :
    /\ HasRow(MangaOf[c], p.name)
    /\ \A i \in 1..Len(p.images) : IsAccountedFor(TaskOf(c, p, i))

(* What lies under a key is the image at that place of the page of a       *)
(* chapter with that manga and name, also where several chapters have the  *)
(* name and their handlers and images overtake each other.                 *)
IsOfAPage(t) ==
  \E c \in known : \E p \in Pages[c] :
    /\ t.manga = MangaOf[c] /\ t.chapter = p.name
    /\ t.idx \in 1..Len(p.images) /\ t.url = p.images[t.idx]

ObjectAt(k) ==
  [url |-> bucket[k], idx |-> k.idx, manga |-> k.manga, chapter |-> k.chapter]

OwnObjects == \A k \in Key : bucket[k] # Nothing => IsOfAPage(ObjectAt(k))

(* What the proofs add: image tasks are of pages, too; an image handler    *)
(* that goes on to the chapter row has stored its object; a chapter        *)
(* handler has accounted for the images it is past, and past CreateChapter *)
(* its row is there.                                                       *)
OwnTasks == \A t \in imgTask : IsOfAPage(t)

Uploaded ==
  \A x \in Image : imgPc[x] \in {"append", "retire"} => IsStored(imgJob[x])

Accounted ==
  \A c \in ChapterUrl : \A i \in 1..Len(page[c].images) :
    i \in toQueue[c] \/ IsAccountedFor(ImgTaskFor(c, i))

Recorded ==
  \A c \in ChapterUrl :
    chapterPc[c] = "retire" => HasRow(MangaOf[c], page[c].name)

IInv ==
  /\ TypeOK /\ NoDanglingEntry /\ NothingLost /\ OwnObjects
  /\ OwnTasks /\ Uploaded /\ Accounted /\ Recorded

(* There is no UNIQUE (manga_id, name).  A name has a row for each chapter *)
(* that goes by it, and one more of each for every failure, restart or     *)
(* late look at the names: a chapter is inserted again when its task is    *)
(* worked on again, and a restart repeats all that are in work.            *)
RowsOf(m, name) ==
  {n \in DOMAIN chapter : chapter[n].manga = m /\ chapter[n].name = name}

Namesakes(m, name) ==
  {c \in known : MangaOf[c] = m /\ \E p \in Pages[c] : p.name = name}

RowsBounded ==
  \A m \in Manga, name \in Name :
    Cardinality(RowsOf(m, name)) <=
      Cardinality(Namesakes(m, name)) * (1 + faults)

(* UpdateChapterImgByIndex appends to every row of the name: a place has   *)
(* an entry for each chapter that goes by the name.  The n-th failure has  *)
(* each of them work on at most one more image for the place, for a page   *)
(* that is read again may show another one there, and on the up to n it    *)
(* has queued before: 1 + 2 + ... + (1 + faults) entries for each.         *)
Budget(m, name) == Cardinality(Namesakes(m, name)) * (1 + faults)
EntryBudget(m, name) == Budget(m, name) * (2 + faults)

EntriesBounded ==
  \A n \in DOMAIN chapter : \A i \in Idx :
    2 * chapter[n].imgs[i] <= EntryBudget(chapter[n].manga, chapter[n].name)

(* What the proofs of the two add: what may still insert a row, queue an   *)
(* image for a place, and append to it counts as if it had.  Once tm.ctx   *)
(* is done nothing may, until a restart.                                   *)
MayRecord(m, name) ==
  {c \in Namesakes(m, name) :
     ~tmDone /\ HasTask(c) /\ chapterPc[c] # "retire"}

MayQueue(k) ==
  {c \in Namesakes(k.manga, k.chapter) :
     /\ ~tmDone /\ HasTask(c)
     /\ \/ chapterPc[c] \in {"off", "ready", "fetch"}
        \/ /\ chapterPc[c] = "queue"
           /\ page[c].name = k.chapter /\ k.idx \in toQueue[c]}

TasksOf(k) == {t \in imgTask : KeyOf(t) = k}

MayAppend(k) == {t \in TasksOf(k) : ~tmDone /\ imgPc[t.url] # "retire"}

RowsCounted ==
  \A m \in Manga, name \in Name :
    Cardinality(RowsOf(m, name)) + Cardinality(MayRecord(m, name))
      <= Budget(m, name)

TasksCounted ==
  \A k \in Key : k.manga \in Manga =>
    Cardinality(TasksOf(k)) + Cardinality(MayQueue(k))
      <= Budget(k.manga, k.chapter)

EntriesCounted ==
  \A k \in Key : k.manga \in Manga =>
    \A n \in RowsOf(k.manga, k.chapter) :
      2 * (chapter[n].imgs[k.idx]
             + Cardinality(MayAppend(k)) + Cardinality(MayQueue(k)))
        <= EntryBudget(k.manga, k.chapter)

CountInv ==
  /\ IsFiniteSet(known) /\ IsFiniteSet(imgTask)
  /\ RowsCounted /\ TasksCounted /\ EntriesCounted

(* Both tables are such queues as TaskQueue describes, with the objects in *)
(* the bucket as the effect of an image task and the rows as that of a     *)
(* chapter task.                                                           *)
ImageQueue == INSTANCE TaskQueue WITH
  Task <- ImgTask,
  Effect <- Key,
  EffectsOf <- [t \in ImgTask |-> {KeyOf(t)}],
  queued <- imgTask,
  effects <- {k \in Key : bucket[k] # Nothing}

NameOfRow(row) == [manga |-> row.manga, name |-> row.name]

ChapterQueue == INSTANCE TaskQueue WITH
  Task <- ChapterTask,
  Effect <- [manga : MangaId, name : Name],
  EffectsOf <- [t \in ChapterTask |->
    {[manga |-> t.manga, name |-> p.name] : p \in Pages[t.url]}],
  queued <- chapterTask,
  effects <- {NameOfRow(chapter[n]) : n \in DOMAIN chapter}

ImplementsImageQueue == ImageQueue!Spec
ImplementsChapterQueue == ChapterQueue!Spec

(* A chapter of a stored manga is eventually recorded, also beside a task  *)
(* that can never succeed, unless the task manager is cancelled.           *)
ChaptersDrain ==
  \A c \in ChapterUrl :
    MangaOf[c] # NoManga => (HasTask(c) ~> (~HasTask(c) \/ tmDone))

(* An image task does not stay: each is eventually worked off.             *)
ImagesDrain == \A x \in Image : HasImgTask(x) ~> (~HasImgTask(x) \/ tmDone)
=============================================================================
