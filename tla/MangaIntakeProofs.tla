-------------------------- MODULE MangaIntakeProofs --------------------------
(***************************************************************************)
(* Theorems about MangaIntake, for every site and listing, any number of   *)
(* handlers and attempts, and any number of failures and restarts.         *)
(***************************************************************************)
EXTENDS MangaIntake, FiniteSetTheorems, TLAPS

-----------------------------------------------------------------------------
(* Facts about single steps.                                               *)

(* A handler that runs works on an entry of a page of the listing.         *)
LEMMA EntryListed ==
  ASSUME TypeOK, OfListing, NEW i \in Pos, pc[i] # "off"
  PROVE  /\ workerPc = "spawn" /\ i \in 1..Len(list)
         /\ list[i] \in Entry /\ At(i) = list[i].manga /\ At(i) \in Manga
         /\ currentPage \in 1..LastPage /\ list \in Listing[currentPage]
         /\ ListedAs(At(i), list[i].title)
<1>1. workerPc = "spawn" /\ i <= started /\ started <= Len(list)
  BY DEF TypeOK
<1>2. i \in 1..Len(list)
  BY <1>1 DEF Pos, TypeOK
<1>3. list[i] \in Entry
  BY <1>2 DEF TypeOK
<1>4. currentPage \in 1..LastPage /\ list \in Listing[currentPage]
  BY <1>1 DEF OfListing
<1>5. list[i].manga \in Manga /\ list[i].title \in Title
      /\ list[i] = [title |-> list[i].title, manga |-> list[i].manga]
  BY <1>3 DEF Entry
<1> QED
  BY <1>1, <1>2, <1>3, <1>4, <1>5 DEF At, EntryOf, ListedAs

(* What a step of one handler leaves alone, and how the rest may change.   *)
LEMMA HandlerFrame ==
  ASSUME TypeOK, NEW i \in Pos, HandlerStep(i)
  PROVE  /\ UNCHANGED <<workerVars, rows, tmDone, rootDone, visits>>
         /\ faults' \in faults..MaxFaults
         /\ pc[i] # "off"
         /\ \A j \in Pos \ {i} :
              /\ pc'[j] = pc[j] /\ id'[j] = id[j] /\ tries'[j] = tries[j]
              /\ parsed'[j] = parsed[j] /\ old'[j] = old[j]
              /\ toQueue'[j] = toQueue[j]
<1> USE DEF tables, workerVars, handlerVars, ctxVars, history
<1> USE IntakeAssumption DEF TypeOK, Succeeds, Fails, Fault
<1>1. CASE ExistsMangaByTitle(i)
  BY <1>1 DEF ExistsMangaByTitle
<1>2. CASE InfoParseFails(i)
  BY <1>2 DEF InfoParseFails
<1>3. CASE CreateManga(i)
  BY <1>3 DEF CreateManga
<1>4. CASE CreateMangaFails(i)
  BY <1>4 DEF CreateMangaFails
<1>5. CASE InfoTriesSpent(i)
  BY <1>5 DEF InfoTriesSpent, Leave
<1>6. CASE GetChaptersNames(i)
  BY <1>6 DEF GetChaptersNames, Leave
<1>7. CASE UpdateParseFails(i)
  BY <1>7 DEF UpdateParseFails
<1>8. CASE UpdateParses(i)
  BY <1>8 DEF UpdateParses
<1>9. CASE UpdateGivesUp(i)
  BY <1>9 DEF UpdateGivesUp, Leave
<1>10. CASE UpdatePanics(i)
  BY <1>10 DEF UpdatePanics
<1>11. CASE CreateChapterTask(i)
  BY <1>11 DEF CreateChapterTask
<1>12. CASE HandlerDone(i)
  BY <1>12 DEF HandlerDone, Leave
<1> QED
  BY <1>1, <1>2, <1>3, <1>4, <1>5, <1>6, <1>7, <1>8, <1>9, <1>10, <1>11,
     <1>12 DEF HandlerStep

(* A call that fails in a context that is not done raises the count.       *)
LEMMA FailureCounts ==
  ASSUME TypeOK, Fails \/ Fault
  PROVE  tmDone \/ faults' # 0
BY DEF TypeOK, Fails, Fault

-----------------------------------------------------------------------------
(* Types.                                                                  *)

(* Every handler starts idle.                                              *)
LEMMA InitTypeOK == Init => TypeOK
<1> SUFFICES ASSUME Init PROVE TypeOK
  OBVIOUS
<1>1. /\ currentPage \in 1..(LastPage + 1) /\ faults \in 0..MaxFaults
      /\ 0 \in 0..MaxRetries /\ list \in Seq(Entry) /\ Len(list) = 0
      /\ started \in 0..Len(list) /\ Len(list) <= MaxEntries
  BY IntakeAssumption DEF Init
<1>2. /\ rows \in [Task -> Nat] /\ visits \in [Chapter -> Nat]
      /\ tries \in [Pos -> 0..MaxRetries]
  BY <1>1 DEF Init
<1>3. /\ pc \in [Pos -> {"off", "exists", "info", "names", "update", "queue"}]
      /\ id \in [Pos -> Manga \cup {NoManga}]
      /\ parsed \in [Pos -> BOOLEAN]
      /\ old \in [Pos -> SUBSET Name]
      /\ toQueue \in [Pos -> SUBSET Chapter]
  BY DEF Init
<1>4. \A i \in Pos : pc[i] = "off"
  BY DEF Init
<1> QED
  BY <1>1, <1>2, <1>3, <1>4 DEF Init, TypeOK

(* A handler keeps the types: it takes an id from the table, and writes    *)
(* the table's title and url columns as their UNIQUE allows.               *)
LEMMA HandlerTypeOK ==
  ASSUME TypeOK, OfListing, OwnHandlers, NEW i \in Pos, HandlerStep(i)
  PROVE  TypeOK'
<1> USE DEF tables, workerVars, handlerVars, ctxVars, history
<1>1. /\ workerPc = "spawn" /\ At(i) \in Manga /\ list[i] \in Entry
      /\ i <= started
  BY HandlerFrame, EntryListed DEF TypeOK
<1>2. ChaptersOf[At(i)] \subseteq Chapter /\ PageTitle[At(i)] \in Title
  BY <1>1, IntakeAssumption
<1>3. faults' \in 0..MaxFaults
  BY HandlerFrame DEF TypeOK
<1>a. ASSUME tries[i] > 0 PROVE tries[i] - 1 \in 0..MaxRetries
  BY <1>a, IntakeAssumption DEF TypeOK
<1>4. ASSUME Leave(i), UNCHANGED <<tables, workerVars, ctxVars>>
      PROVE  TypeOK'
  <2>1. 0 \in 0..MaxRetries /\ \A j \in Pos : pc'[j] # "off" => pc[j] # "off"
    BY <1>4, IntakeAssumption DEF Leave, TypeOK
  <2>2. through' \subseteq Manga
    BY <1>4, <1>1 DEF Leave, TypeOK
  <2>3. /\ pc' \in [Pos -> {"off", "exists", "info", "names", "update", "queue"}]
        /\ id' \in [Pos -> Manga \cup {NoManga}]
        /\ tries' \in [Pos -> 0..MaxRetries]
        /\ parsed' \in [Pos -> BOOLEAN]
        /\ old' \in [Pos -> SUBSET Name]
        /\ toQueue' \in [Pos -> SUBSET Chapter]
        /\ UNCHANGED visits
    BY <1>4, <2>1 DEF Leave, TypeOK
  <2>4. \A j \in Pos : pc'[j] \in {"names", "update"} => id'[j] \in manga
    BY <1>4 DEF Leave, TypeOK
  <2> QED
    BY <1>3, <1>4, <2>1, <2>2, <2>3, <2>4 DEF TypeOK
<1>5. CASE ExistsMangaByTitle(i)
  BY <1>5, <1>1, <1>3 DEF ExistsMangaByTitle, TypeOK, RowsTitled
<1>6. CASE InfoParseFails(i)
  BY <1>6, <1>1, <1>3, <1>a DEF InfoParseFails, TypeOK
<1>7. CASE CreateManga(i)
  BY <1>7, <1>1, <1>2, <1>3 DEF CreateManga, TypeOK, RowsTitled, ChaptersToQueue
<1>8. CASE CreateMangaFails(i)
  BY <1>8, <1>1, <1>3, <1>a DEF CreateMangaFails, TypeOK
<1>9. CASE InfoTriesSpent(i)
  <2>1. CASE Leave(i)
    BY <2>1, <1>9, <1>4 DEF InfoTriesSpent
  <2>2. CASE ~Leave(i)
    BY <2>2, <1>9, <1>1, <1>2, <1>3 DEF InfoTriesSpent, TypeOK, ChaptersToQueue
  <2> QED
    BY <2>1, <2>2
<1>10. CASE GetChaptersNames(i)
  <2>1. CASE Leave(i)
    BY <2>1, <1>10, <1>4 DEF GetChaptersNames
  <2>2. {RowName[t.url] : t \in RowsOf(id[i])} \subseteq Name
    BY IntakeAssumption DEF RowsOf, Task
  <2>3. CASE ~Leave(i)
    BY <2>2, <2>3, <1>10, <1>1, <1>3 DEF GetChaptersNames, TypeOK
  <2> QED
    BY <2>1, <2>3
<1>11. CASE UpdateParseFails(i)
  BY <1>11, <1>1, <1>3, <1>a DEF UpdateParseFails, TypeOK
<1>12. CASE UpdateParses(i)
  BY <1>12, <1>1, <1>2, <1>3 DEF UpdateParses, TypeOK, NewChapters
<1>13. CASE UpdateGivesUp(i)
  BY <1>13, <1>4 DEF UpdateGivesUp
<1>14. CASE UpdatePanics(i)
  BY <1>14, <1>3 DEF UpdatePanics, TypeOK
<1>15. CASE CreateChapterTask(i)
  <2>1. PICK c \in toQueue[i] :
          /\ toQueue' = [toQueue EXCEPT ![i] = @ \ {c}]
          /\ \/ /\ ~HasTask(c)
                /\ chapterTask' = chapterTask \cup {[url |-> c, manga |-> id[i]]}
             \/ UNCHANGED chapterTask
    BY <1>15 DEF CreateChapterTask
  <2>2. c \in Chapter /\ id[i] \in manga \cup {NoManga}
    BY <2>1 DEF TypeOK, OwnHandlers, OwnHandler
  <2>3. /\ chapterTask' \subseteq Task
        /\ \A t \in chapterTask' : t.manga \in manga \cup {NoManga}
        /\ \A t, r \in chapterTask' : t.url = r.url => t = r
    <3> DEFINE n == [url |-> c, manga |-> id[i]]
    <3>1. n \in Task /\ n.url = c /\ n.manga \in manga \cup {NoManga}
      BY <2>2 DEF TypeOK, Task
    <3>2. ~HasTask(c) => \A t \in chapterTask : t.url # c
      BY DEF HasTask
    <3> HIDE DEF n
    <3>3. (/\ ~HasTask(c) /\ chapterTask' = chapterTask \cup {n})
          \/ UNCHANGED chapterTask
      BY <2>1 DEF n
    <3> QED
      BY <3>1, <3>2, <3>3 DEF TypeOK
  <2>4. toQueue' \in [Pos -> SUBSET Chapter]
    BY <2>1 DEF TypeOK
  <2>5. UNCHANGED <<manga, rows, workerVars, pc, id, tries, parsed, old,
                    ctxVars, history>>
    BY <1>15 DEF CreateChapterTask
  <2> QED
    BY <2>3, <2>4, <2>5, <1>3 DEF TypeOK
<1>16. CASE HandlerDone(i)
  BY <1>16, <1>4 DEF HandlerDone
<1> QED
  BY <1>5, <1>6, <1>7, <1>8, <1>9, <1>10, <1>11, <1>12, <1>13, <1>14, <1>15,
     <1>16 DEF HandlerStep

(* The worker keeps them: no page is longer than MaxEntries.               *)
LEMMA WorkerTypeOK ==
  ASSUME TypeOK, OfListing, WorkerStep
  PROVE  TypeOK'
<1> USE DEF tables, workerVars, handlerVars, ctxVars, history, TypeOK
<1>1. CASE StartListing
  BY <1>1 DEF StartListing
<1>2. CASE WorkerStops
  BY <1>2 DEF WorkerStops
<1>3. CASE ListingFails
  BY <1>3 DEF ListingFails
<1>4. CASE ListPage
  <2>1. PICK l \in GetMangaList(currentPage) : l # <<>> /\ list' = l
    BY <1>4 DEF ListPage
  <2>2. currentPage \in 1..LastPage /\ l \in Listing[currentPage]
    BY <2>1 DEF GetMangaList
  <2>3. l \in Seq(Entry) /\ Len(l) <= MaxEntries
    BY <2>2, IntakeAssumption
  <2>4. \A i \in Pos : pc[i] = "off"
    BY <1>4 DEF ListPage
  <2>5. started' \in 0..Len(l)
    BY <1>4, <2>3 DEF ListPage
  <2>6. workerPc' = "spawn" /\ UNCHANGED <<tables, currentPage, handlerVars,
                                           ctxVars, faults, history>>
    BY <1>4 DEF ListPage
  <2> QED
    BY <2>1, <2>3, <2>4, <2>5, <2>6
<1>5. CASE EmptyPage
  BY <1>5 DEF EmptyPage
<1>6. CASE StartHandler
  <2> DEFINE i == started + 1
  <2>1. i \in Pos /\ i <= Len(list) /\ pc[i] = "off" /\ workerPc = "spawn"
    BY <1>6, IntakeAssumption DEF StartHandler, Pos
  <2>2. MaxRetries \in 0..MaxRetries
    BY IntakeAssumption
  <2>3. visits' \in [Chapter -> Nat]
    BY <1>6 DEF StartHandler
  <2>4. /\ started' = i /\ pc' = [pc EXCEPT ![i] = "exists"]
        /\ tries' = [tries EXCEPT ![i] = MaxRetries]
        /\ UNCHANGED <<tables, currentPage, workerPc, list, id, parsed, old,
                       toQueue, ctxVars, faults, through>>
    BY <1>6 DEF StartHandler
  <2>5. \A j \in Pos : pc'[j] # "off" => j <= started' /\ workerPc' = "spawn"
    <3>1. \A j \in Pos : j # i => pc'[j] = pc[j]
      BY <2>1, <2>4
    <3>2. \A j \in Pos : pc[j] # "off" => j <= started
      OBVIOUS
    <3>3. \A j \in Pos : j \in Nat
      BY DEF Pos
    <3> QED
      BY <2>1, <2>4, <3>1, <3>2, <3>3
  <2>6. started' \in 0..Len(list')
    BY <2>1, <2>4
  <2>7. \A j \in Pos : pc'[j] \in {"names", "update"} => id'[j] \in manga'
    BY <2>1, <2>4
  <2> QED
    BY <2>1, <2>2, <2>3, <2>4, <2>5, <2>6, <2>7
<1>7. CASE PageDone
  <2>1. currentPage' \in 1..(LastPage + 1)
    BY <1>7, IntakeAssumption DEF PageDone, OfListing
  <2> QED
    BY <1>7, <2>1 DEF PageDone
<1> QED
  BY <1>1, <1>2, <1>3, <1>4, <1>5, <1>6, <1>7 DEF WorkerStep

(* So do the recording of a chapter, the signal and the restart.           *)
LEMMA OtherTypeOK ==
  ASSUME TypeOK,
         (\E t \in chapterTask : RecordChapter(t)) \/ Shutdown \/ Restart
  PROVE  TypeOK'
<1> USE DEF tables, workerVars, handlerVars, ctxVars, history
<1>1. ASSUME NEW t \in chapterTask, RecordChapter(t) PROVE TypeOK'
  <2>1. t \in Task /\ rows' = [rows EXCEPT ![t] = @ + 1]
    BY <1>1 DEF RecordChapter, TypeOK
  <2>2. faults' \in 0..MaxFaults /\ chapterTask' \subseteq chapterTask
    BY <1>1, IntakeAssumption DEF RecordChapter, Fault, TypeOK
  <2>3. rows' \in [Task -> Nat]
    BY <2>1 DEF TypeOK
  <2>4. UNCHANGED <<manga, workerVars, handlerVars, ctxVars, history>>
    BY <1>1 DEF RecordChapter
  <2> QED
    BY <2>2, <2>3, <2>4 DEF TypeOK
<1>2. CASE Shutdown
  BY <1>2 DEF Shutdown, TypeOK
<1>3. CASE Restart
  <2>1. /\ 0 \in 0..MaxRetries /\ faults' \in 0..MaxFaults
        /\ 1 \in 1..(LastPage + 1)
    BY <1>3, IntakeAssumption DEF Restart, Fault, TypeOK
  <2>2. /\ list' \in Seq(Entry) /\ Len(list') = 0 /\ started' \in 0..Len(list')
        /\ Len(list') <= MaxEntries
    BY <1>3, IntakeAssumption DEF Restart
  <2>3. /\ pc' \in [Pos -> {"off", "exists", "info", "names", "update", "queue"}]
        /\ id' \in [Pos -> Manga \cup {NoManga}]
        /\ tries' \in [Pos -> 0..MaxRetries]
        /\ parsed' \in [Pos -> BOOLEAN]
        /\ old' \in [Pos -> SUBSET Name]
        /\ toQueue' \in [Pos -> SUBSET Chapter]
    BY <1>3, <2>1 DEF Restart
  <2>4. \A j \in Pos : pc'[j] = "off"
    BY <1>3 DEF Restart
  <2>5. /\ currentPage' = 1 /\ workerPc' = "list"
        /\ tmDone' = FALSE /\ rootDone' = FALSE /\ crashed' = FALSE
        /\ UNCHANGED <<tables, history>>
    BY <1>3 DEF Restart
  <2> QED
    BY <2>1, <2>2, <2>3, <2>4, <2>5 DEF TypeOK
<1> QED
  BY <1>1, <1>2, <1>3

(* Every step keeps the types.                                             *)
LEMMA NextTypeOK ==
  TypeOK /\ OfListing /\ OwnHandlers /\ [Next]_vars => TypeOK'
<1> SUFFICES ASSUME TypeOK, OfListing, OwnHandlers, [Next]_vars PROVE TypeOK'
  OBVIOUS
<1>1. CASE UNCHANGED vars
  BY <1>1 DEF vars, tables, workerVars, handlerVars, ctxVars, history, TypeOK
<1> QED
  BY <1>1, HandlerTypeOK, WorkerTypeOK, OtherTypeOK DEF Next

-----------------------------------------------------------------------------
(* What the tables keep.                                                   *)

(* Rows of manga and of chapters stay, and a task goes when its chapter    *)
(* has a row.                                                              *)
LEMMA TablesStep ==
  ASSUME TypeOK, [Next]_vars
  PROVE  /\ manga \subseteq manga'
         /\ rows' \in [Task -> Nat]
         /\ \A t \in Task : rows[t] <= rows'[t]
         /\ \A t \in chapterTask : t \in chapterTask' \/ rows'[t] > 0
<1> USE DEF tables, workerVars, handlerVars, ctxVars, history, TypeOK
<1>1. ASSUME NEW i \in Pos, HandlerStep(i)
      PROVE  UNCHANGED rows /\ manga \subseteq manga' /\ chapterTask \subseteq chapterTask'
  <2>1. UNCHANGED rows
    BY <1>1, HandlerFrame
  <2>2. CASE CreateManga(i)
    BY <2>1, <2>2 DEF CreateManga
  <2>3. CASE CreateChapterTask(i)
    BY <2>1, <2>3 DEF CreateChapterTask
  <2>4. CASE ~CreateManga(i) /\ ~CreateChapterTask(i)
    BY <1>1, <2>4 DEF HandlerStep, ExistsMangaByTitle, InfoParseFails,
       CreateMangaFails, InfoTriesSpent, GetChaptersNames, UpdateParseFails,
       UpdateParses, UpdateGivesUp, UpdatePanics, HandlerDone
  <2> QED
    BY <2>1, <2>2, <2>3, <2>4
<1>2. CASE WorkerStep
  BY <1>2 DEF WorkerStep, StartListing, WorkerStops, ListingFails, ListPage,
     EmptyPage, StartHandler, PageDone
<1>3. ASSUME NEW t \in chapterTask, RecordChapter(t)
      PROVE  /\ manga = manga' /\ rows' \in [Task -> Nat]
             /\ \A r \in Task : rows[r] <= rows'[r]
             /\ \A r \in chapterTask : r \in chapterTask' \/ rows'[r] > 0
  <2>1. /\ manga = manga' /\ rows' = [rows EXCEPT ![t] = @ + 1]
        /\ chapterTask' = chapterTask \ {t} \/ chapterTask' = chapterTask
        /\ t \in Task
    BY <1>3 DEF RecordChapter
  <2> QED
    BY <2>1
<1>5. CASE Shutdown \/ Restart \/ UNCHANGED vars
  BY <1>5 DEF Shutdown, Restart, vars
<1> QED
  BY <1>1, <1>2, <1>3, <1>5 DEF Next

(* So a chapter that is queued or recorded remains so.                     *)
LEMMA KeptStays ==
  ASSUME TypeOK, [Next]_vars, NEW m \in Manga, NEW c \in Chapter, IsKept(m, c)
  PROVE  IsKept(m, c)'
<1>1. CASE HasTask(c)
  <2>1. PICK t \in chapterTask : t.url = c
    BY <1>1 DEF HasTask
  <2>2. t \in Task
    BY DEF TypeOK
  <2> QED
    BY <2>1, <2>2, TablesStep DEF IsKept, HasTask
<1>2. CASE ~HasTask(c)
  <2>1. PICK t \in Task :
          /\ rows[t] > 0
          /\ \/ t.url = c
             \/ /\ t.manga # NoManga /\ RowName[t.url] = ListedName[c]
                /\ ListedAs(m, PageTitle[t.manga])
    BY <1>2 DEF IsKept
  <2>2. rows'[t] > 0
    BY <2>1, TablesStep DEF TypeOK
  <2> QED
    BY <2>1, <2>2 DEF IsKept, ListedAs
<1> QED
  BY <1>1, <1>2

-----------------------------------------------------------------------------
(* The worker and the panic.                                               *)

(* A page in work is one the listing shows.                                *)
LEMMA NextOfListing == TypeOK /\ OfListing /\ [Next]_vars => OfListing'
<1> SUFFICES ASSUME TypeOK, OfListing, [Next]_vars PROVE OfListing'
  OBVIOUS
<1> USE DEF tables, workerVars, handlerVars, ctxVars, history, OfListing
<1>1. ASSUME NEW i \in Pos, HandlerStep(i) PROVE OfListing'
  BY <1>1, HandlerFrame
<1>2. CASE ListPage
  BY <1>2 DEF ListPage, GetMangaList
<1>3. CASE StartListing \/ WorkerStops \/ ListingFails \/ EmptyPage \/ PageDone
  BY <1>3 DEF StartListing, WorkerStops, ListingFails, EmptyPage, PageDone
<1>4. CASE StartHandler
  BY <1>4 DEF StartHandler
<1>5. ASSUME NEW t \in chapterTask, RecordChapter(t) PROVE OfListing'
  BY <1>5 DEF RecordChapter
<1>6. CASE Shutdown \/ Restart \/ UNCHANGED vars
  BY <1>6 DEF Shutdown, Restart, vars
<1> QED
  BY <1>1, <1>2, <1>3, <1>4, <1>5, <1>6 DEF Next, WorkerStep

(* Only EmptyPage ends the context of the task manager alone, and the      *)
(* worker does nothing after it.                                           *)
LEMMA NextStoppedByItself ==
  TypeOK /\ StoppedByItself /\ [Next]_vars => StoppedByItself'
<1> SUFFICES ASSUME TypeOK, StoppedByItself, [Next]_vars PROVE StoppedByItself'
  OBVIOUS
<1> USE DEF tables, workerVars, handlerVars, ctxVars, history, StoppedByItself
<1>1. ASSUME NEW i \in Pos, HandlerStep(i) PROVE StoppedByItself'
  BY <1>1, HandlerFrame
<1>2. CASE WorkerStep
  BY <1>2 DEF WorkerStep, StartListing, WorkerStops, ListingFails, ListPage,
     EmptyPage, StartHandler, PageDone
<1>3. ASSUME NEW t \in chapterTask, RecordChapter(t) PROVE StoppedByItself'
  BY <1>3 DEF RecordChapter
<1>4. CASE Shutdown \/ Restart \/ UNCHANGED vars
  BY <1>4 DEF Shutdown, Restart, vars
<1> QED
  BY <1>1, <1>2, <1>3, <1>4 DEF Next

(* A panicking handler runs, so the worker is not the one that stopped.    *)
LEMMA NextPanic ==
  TypeOK /\ StoppedByItself /\ PanicOnlyAtShutdown /\ [Next]_vars
    => PanicOnlyAtShutdown'
<1> SUFFICES ASSUME TypeOK, StoppedByItself, PanicOnlyAtShutdown, [Next]_vars
             PROVE  PanicOnlyAtShutdown'
  OBVIOUS
<1> USE DEF tables, workerVars, handlerVars, ctxVars, history, PanicOnlyAtShutdown
<1>1. ASSUME NEW i \in Pos, HandlerStep(i) PROVE PanicOnlyAtShutdown'
  <2>1. UNCHANGED rootDone /\ pc[i] # "off"
    BY <1>1, HandlerFrame
  <2>2. CASE UpdatePanics(i)
    <3>1. tmDone /\ workerPc = "spawn"
      BY <2>1, <2>2 DEF UpdatePanics, TypeOK
    <3> QED
      BY <2>1, <3>1 DEF StoppedByItself
  <2>3. CASE ~UpdatePanics(i)
    BY <1>1, <2>1, <2>3 DEF HandlerStep, ExistsMangaByTitle, InfoParseFails,
       CreateManga, CreateMangaFails, InfoTriesSpent, GetChaptersNames,
       UpdateParseFails, UpdateParses, UpdateGivesUp, CreateChapterTask,
       HandlerDone
  <2> QED
    BY <2>2, <2>3
<1>2. CASE WorkerStep
  BY <1>2 DEF WorkerStep, StartListing, WorkerStops, ListingFails, ListPage,
     EmptyPage, StartHandler, PageDone
<1>3. ASSUME NEW t \in chapterTask, RecordChapter(t) PROVE PanicOnlyAtShutdown'
  BY <1>3 DEF RecordChapter
<1>4. CASE Shutdown \/ Restart \/ UNCHANGED vars
  BY <1>4 DEF Shutdown, Restart, vars
<1> QED
  BY <1>1, <1>2, <1>3, <1>4 DEF Next

-----------------------------------------------------------------------------
(* What a handler holds is its entry's.                                    *)

(* A step of another handler does not touch it.                            *)
LEMMA OtherOwnHandler ==
  ASSUME TypeOK, NEW i \in Pos, HandlerStep(i), [Next]_vars,
         NEW j \in Pos \ {i}, OwnHandler(j)
  PROVE  OwnHandler(j)'
<1>1. /\ UNCHANGED <<list, rows>>
      /\ pc'[j] = pc[j] /\ id'[j] = id[j] /\ tries'[j] = tries[j]
      /\ old'[j] = old[j] /\ toQueue'[j] = toQueue[j]
  BY HandlerFrame DEF workerVars
<1>2. manga \subseteq manga'
  BY TablesStep
<1> QED
  BY <1>1, <1>2 DEF OwnHandler, IsId, At, EntryOf, RowsOf, ListedAs

(* Its own steps take an id by the title of its entry, or the entry's own, *)
(* and queue chapters of the page of its entry.                            *)
LEMMA SameOwnHandler ==
  ASSUME TypeOK, OfListing, NEW i \in Pos, HandlerStep(i), OwnHandler(i)
  PROVE  OwnHandler(i)'
<1> USE DEF tables, workerVars, handlerVars, ctxVars, history, TypeOK
<1>1. /\ At(i)' = At(i) /\ At(i) \in Manga /\ ListedAs(At(i), list[i].title)
      /\ UNCHANGED <<list, rows>> /\ pc[i] # "off"
  BY HandlerFrame, EntryListed DEF At, EntryOf
<1>2. ASSUME NEW m, NEW n PROVE ListedAs(m, n)' = ListedAs(m, n)
  BY DEF ListedAs
<1>3. NoManga \notin Manga /\ NoManga \notin manga
  BY IntakeAssumption
<1>4. ASSUME Leave(i) PROVE OwnHandler(i)'
  BY <1>4 DEF Leave, OwnHandler
<1>5. CASE ExistsMangaByTitle(i)
  <2>1. CASE \E m \in RowsTitled(EntryOf(i).title) : id' = [id EXCEPT ![i] = m]
                /\ pc' = [pc EXCEPT ![i] = "names"]
    <3>1. PICK m \in manga : PageTitle[m] = list[i].title /\ id'[i] = m
      BY <2>1 DEF RowsTitled, EntryOf
    <3>2. /\ pc'[i] = "names" /\ m \in manga' /\ toQueue'[i] = {}
          /\ tries'[i] = MaxRetries /\ ListedAs(At(i), PageTitle[m])
      BY <1>1, <1>5, <2>1, <3>1 DEF ExistsMangaByTitle, OwnHandler
    <3> QED
      BY <1>1, <1>2, <3>1, <3>2 DEF OwnHandler, IsId
  <2>2. CASE id' = id /\ pc' = [pc EXCEPT ![i] = "info"]
    BY <1>1, <1>2, <1>5, <2>2 DEF ExistsMangaByTitle, OwnHandler, IsId
  <2> QED
    BY <1>5, <2>1, <2>2 DEF ExistsMangaByTitle
<1>6. CASE InfoParseFails(i)
  BY <1>1, <1>2, <1>6 DEF InfoParseFails, OwnHandler, IsId
<1>7. CASE CreateManga(i)
  BY <1>1, <1>2, <1>7 DEF CreateManga, OwnHandler, IsId, ChaptersToQueue
<1>8. CASE CreateMangaFails(i)
  BY <1>1, <1>2, <1>8 DEF CreateMangaFails, OwnHandler, IsId
<1>9. CASE InfoTriesSpent(i)
  <2>1. CASE Leave(i)
    BY <2>1, <1>4
  <2>2. CASE ~Leave(i)
    BY <2>2, <1>1, <1>2, <1>9 DEF InfoTriesSpent, OwnHandler, IsId, ChaptersToQueue
  <2> QED
    BY <2>1, <2>2
<1>10. CASE GetChaptersNames(i)
  <2>1. CASE Leave(i)
    BY <2>1, <1>4
  <2>2. CASE ~Leave(i)
    <3>1. /\ pc[i] = "names" /\ pc'[i] = "update" /\ id'[i] = id[i] /\ manga' = manga
          /\ toQueue'[i] = toQueue[i] /\ tries'[i] = tries[i]
          /\ old'[i] = {RowName[t.url] : t \in RowsOf(id[i])}
      BY <2>2, <1>10 DEF GetChaptersNames
    <3>2. RowsOf(id[i])' = RowsOf(id[i])
      BY <1>1, <3>1 DEF RowsOf
    <3> QED
      BY <1>1, <1>2, <3>1, <3>2 DEF OwnHandler, IsId
  <2> QED
    BY <2>1, <2>2
<1>11. CASE UpdateParseFails(i)
  BY <1>1, <1>2, <1>11 DEF UpdateParseFails, OwnHandler, IsId, RowsOf
<1>12. CASE UpdateParses(i)
  BY <1>1, <1>2, <1>12 DEF UpdateParses, OwnHandler, IsId, NewChapters
<1>13. CASE UpdateGivesUp(i)
  BY <1>13, <1>4 DEF UpdateGivesUp
<1>14. CASE UpdatePanics(i)
  BY <1>1, <1>2, <1>14 DEF UpdatePanics, OwnHandler, IsId, RowsOf
<1>15. CASE CreateChapterTask(i)
  BY <1>1, <1>2, <1>15 DEF CreateChapterTask, OwnHandler, IsId, RowsOf
<1>16. CASE HandlerDone(i)
  BY <1>16, <1>4 DEF HandlerDone
<1> QED
  BY <1>5, <1>6, <1>7, <1>8, <1>9, <1>10, <1>11, <1>12, <1>13, <1>14, <1>15,
     <1>16 DEF HandlerStep

(* Every step keeps what the handlers hold.                                *)
LEMMA NextOwnHandlers ==
  TypeOK /\ OfListing /\ OwnHandlers /\ [Next]_vars => OwnHandlers'
<1> SUFFICES ASSUME TypeOK, OfListing, OwnHandlers, [Next]_vars,
                    NEW j \in Pos
             PROVE  OwnHandler(j)'
  BY DEF OwnHandlers
<1> USE DEF tables, workerVars, handlerVars, ctxVars, history
<1>1. OwnHandler(j)
  BY DEF OwnHandlers
<1>2. ASSUME NEW i \in Pos, HandlerStep(i) PROVE OwnHandler(j)'
  BY <1>1, <1>2, OtherOwnHandler, SameOwnHandler
<1>3. CASE UNCHANGED <<manga, rows, list, handlerVars>>
  BY <1>1, <1>3 DEF OwnHandler, IsId, At, EntryOf, RowsOf, ListedAs
<1>4. CASE StartListing \/ WorkerStops \/ ListingFails \/ EmptyPage \/ PageDone
  BY <1>3, <1>4 DEF StartListing, WorkerStops, ListingFails, EmptyPage, PageDone
<1>5. CASE ListPage
  <2>1. pc[j] = "off" /\ UNCHANGED handlerVars
    BY <1>5 DEF ListPage, TypeOK
  <2> QED
    BY <1>1, <2>1 DEF OwnHandler
<1>6. CASE StartHandler
  <2>1. /\ UNCHANGED <<manga, rows, list, id, old, toQueue>>
        /\ IF j = started + 1
           THEN pc[j] = "off" /\ pc'[j] = "exists" /\ tries'[j] = MaxRetries
           ELSE pc'[j] = pc[j] /\ tries'[j] = tries[j]
    BY <1>6 DEF StartHandler, TypeOK, Pos
  <2> QED
    BY <1>1, <2>1 DEF OwnHandler, IsId, At, EntryOf, RowsOf, ListedAs
<1>7. ASSUME NEW t \in chapterTask, RecordChapter(t) PROVE OwnHandler(j)'
  <2>1. UNCHANGED <<manga, list, handlerVars>>
    BY <1>7 DEF RecordChapter
  <2>2. \A m : RowsOf(m) \subseteq RowsOf(m)'
    BY TablesStep DEF RowsOf, TypeOK
  <2> QED
    BY <1>1, <2>1, <2>2 DEF OwnHandler, IsId, At, EntryOf, ListedAs
<1>8. CASE Shutdown \/ UNCHANGED vars
  BY <1>3, <1>8 DEF Shutdown, vars
<1>9. CASE Restart
  BY <1>9 DEF Restart, OwnHandler
<1> QED
  BY <1>2, <1>4, <1>5, <1>6, <1>7, <1>8, <1>9 DEF Next, WorkerStep

-----------------------------------------------------------------------------
(* Behaviours without a failure.                                           *)

(* Failures are counted, and a context that is done stays so.              *)
LEMMA FaultsStay ==
  ASSUME TypeOK, [Next]_vars, faults' = 0
  PROVE  faults = 0 /\ (tmDone => tmDone')
<1> USE DEF tables, workerVars, handlerVars, ctxVars, history, Fault, TypeOK
<1>1. ASSUME NEW i \in Pos, HandlerStep(i) PROVE faults = 0 /\ tmDone' = tmDone
  BY <1>1, HandlerFrame
<1>2. CASE WorkerStep
  BY <1>2 DEF WorkerStep, StartListing, WorkerStops, ListingFails, ListPage,
     EmptyPage, StartHandler, PageDone
<1>3. ASSUME NEW t \in chapterTask, RecordChapter(t)
      PROVE  faults = 0 /\ tmDone' = tmDone
  BY <1>3 DEF RecordChapter
<1>4. CASE Shutdown \/ Restart \/ UNCHANGED vars
  BY <1>4 DEF Shutdown, Restart, vars
<1> QED
  BY <1>1, <1>2, <1>3, <1>4 DEF Next

(* A tidy manga has one handler.                                           *)
LEMMA TidyOnce ==
  ASSUME TypeOK, OfListing, NEW i \in Pos, NEW j \in Pos,
         pc[i] # "off", pc[j] # "off", TidyManga(At(i)), At(i) = At(j)
  PROVE  i = j
<1>1. /\ i \in 1..Len(list) /\ j \in 1..Len(list)
      /\ currentPage \in 1..LastPage /\ list \in Listing[currentPage]
      /\ list[i].manga = At(i) /\ list[j].manga = At(i)
  BY EntryListed
<1>2. \A k, n \in 1..Len(list) :
        list[k].manga = At(i) /\ list[n].manga = At(i) => k = n
  BY <1>1 DEF TidyManga
<1> QED
  BY <1>1, <1>2

(* A handler stores the manga of its entry, which had no row.              *)
LEMMA MangaStep ==
  ASSUME NEW i \in Pos, HandlerStep(i)
  PROVE  manga' = manga \/ manga' = manga \cup {At(i)}
BY DEF HandlerStep, ExistsMangaByTitle, InfoParseFails, CreateManga,
   CreateMangaFails, InfoTriesSpent, GetChaptersNames, UpdateParseFails,
   UpdateParses, UpdateGivesUp, UpdatePanics, CreateChapterTask, HandlerDone,
   tables

(* A step of another handler keeps a handler free of failures.             *)
LEMMA OtherUnfailed ==
  ASSUME TypeOK, OfListing, NEW i \in Pos, HandlerStep(i), [Next]_vars,
         NEW j \in Pos \ {i}, pc[j] # "off", Unfailed(j)
  PROVE  Unfailed(j)'
<1>1. /\ UNCHANGED list
      /\ pc'[j] = pc[j] /\ id'[j] = id[j] /\ tries'[j] = tries[j]
      /\ parsed'[j] = parsed[j] /\ toQueue'[j] = toQueue[j] /\ pc[i] # "off"
  BY HandlerFrame DEF workerVars
<1>2. At(j)' = At(j) /\ At(j) \in Manga /\ ChaptersOf[At(j)] \subseteq Chapter
  BY <1>1, EntryListed, IntakeAssumption DEF At, EntryOf
<1>3. TidyManga(At(j))' = TidyManga(At(j))
  BY <1>2 DEF TidyManga, ListedAs
<1>4. TidyManga(At(j)) /\ At(j) \notin manga => At(j) \notin manga'
  BY <1>1, MangaStep, TidyOnce
<1>5. \A c \in ChaptersOf[At(j)] : IsKept(At(j), c) => IsKept(At(j), c)'
  BY <1>2, KeptStays
<1>7. ASSUME pc[j] = "queue", NEW c \in ChaptersOf[At(j)]
      PROVE  c \in toQueue'[j] \/ IsKept(At(j), c)'
  BY <1>1, <1>5, <1>7 DEF Unfailed
<1> QED
  BY <1>1, <1>2, <1>3, <1>4, <1>7 DEF Unfailed

(* So do its own: a tidy manga is not in the table when its title is not   *)
(* found there, and what is not queued is there under its name.            *)
LEMMA SameUnfailed ==
  ASSUME TypeOK, OfListing, OwnHandlers, NEW i \in Pos, HandlerStep(i),
         [Next]_vars, Unfailed(i), pc'[i] # "off", faults' = 0, ~tmDone
  PROVE  Unfailed(i)'
<1> USE DEF tables, workerVars, handlerVars, ctxVars, history
<1>1. /\ At(i)' = At(i) /\ At(i) \in Manga /\ ListedAs(At(i), list[i].title)
      /\ ChaptersOf[At(i)] \subseteq Chapter /\ list[i].title \in Title
      /\ UNCHANGED <<list, rows>> /\ pc[i] # "off" /\ OwnHandler(i)
  BY HandlerFrame, EntryListed, IntakeAssumption
     DEF At, EntryOf, OwnHandlers, Entry
<1>2. TidyManga(At(i))' = TidyManga(At(i))
  BY <1>1 DEF TidyManga, ListedAs
<1>3. ~Fails /\ ~Fault
  BY FailureCounts
<1>4. ~Leave(i)
  BY DEF Leave, TypeOK
<1>5. NoManga \notin Manga /\ MaxRetries > 0
  BY IntakeAssumption
<1>6. CASE ExistsMangaByTitle(i)
  <2>1. CASE pc'[i] = "names"
    BY <1>1, <2>1 DEF Unfailed
  <2>2. CASE pc'[i] # "names"
    <3>1. /\ RowsTitled(list[i].title) = {} /\ pc'[i] = "info" /\ manga' = manga
          /\ tries'[i] = tries[i] /\ pc[i] = "exists"
      BY <1>3, <1>6, <2>2 DEF ExistsMangaByTitle, EntryOf, TypeOK
    <3>2. TidyManga(At(i)) => At(i) \notin manga
      BY <1>1, <3>1 DEF TidyManga, RowsTitled
    <3>3. tries'[i] = MaxRetries
      BY <1>1, <3>1 DEF OwnHandler
    <3> QED
      BY <1>1, <1>2, <3>1, <3>2, <3>3 DEF Unfailed
  <2> QED
    BY <2>1, <2>2
<1>7. CASE CreateManga(i)
  <2>1. pc'[i] = "queue" /\ toQueue'[i] = ChaptersOf[At(i)] /\ id'[i] = At(i)
    BY <1>7 DEF CreateManga, ChaptersToQueue, TypeOK
  <2> QED
    BY <1>1, <1>2, <1>5, <2>1 DEF Unfailed
<1>8. CASE CreateMangaFails(i)
  <2>1. /\ RowsTitled(PageTitle[At(i)]) # {} /\ pc[i] = "info" /\ pc'[i] = "info"
        /\ parsed'[i] = TRUE
    BY <1>3, <1>8 DEF CreateMangaFails, TypeOK
  <2>2. TidyManga(At(i)) => At(i) \in manga
    BY <1>1, <2>1 DEF TidyManga, RowsTitled, TypeOK
  <2>3. ~TidyManga(At(i))
    BY <2>1, <2>2 DEF Unfailed
  <2> QED
    BY <1>1, <1>2, <2>1, <2>3 DEF Unfailed
<1>9. CASE InfoTriesSpent(i)
  <2>1. /\ pc[i] = "info" /\ tries[i] = 0 /\ pc'[i] = "queue"
        /\ toQueue'[i] = ChaptersOf[At(i)]
    BY <1>4, <1>9 DEF InfoTriesSpent, ChaptersToQueue, TypeOK
  <2>2. ~TidyManga(At(i))
    BY <1>5, <2>1 DEF Unfailed
  <2> QED
    BY <1>1, <1>2, <2>1, <2>2 DEF Unfailed
<1>10. CASE GetChaptersNames(i)
  <2>1. pc[i] = "names" /\ pc'[i] = "update" /\ tries'[i] = tries[i]
    BY <1>4, <1>10 DEF GetChaptersNames, TypeOK
  <2>2. tries'[i] = MaxRetries
    BY <1>1, <2>1 DEF OwnHandler
  <2> QED
    BY <1>1, <2>1, <2>2 DEF Unfailed
<1>11. CASE UpdateParses(i)
  <2>1. /\ pc[i] = "update" /\ pc'[i] = "queue" /\ id'[i] = id[i]
        /\ toQueue'[i] = NewChapters(i) /\ UNCHANGED <<manga, chapterTask>>
    BY <1>11 DEF UpdateParses, TypeOK
  <2>2. id[i] # NoManga
    BY <1>5, <2>1 DEF TypeOK
  <2>3. ASSUME NEW c \in ChaptersOf[At(i)], c \notin NewChapters(i)
        PROVE  IsKept(At(i), c)'
    <3>1. ListedName[c] \in old[i]
      BY <2>3 DEF NewChapters
    <3>2. PICK t \in RowsOf(id[i]) : RowName[t.url] = ListedName[c]
      BY <1>1, <2>1, <3>1 DEF OwnHandler
    <3>3. t \in Task /\ rows[t] > 0 /\ t.manga = id[i]
      BY <3>2 DEF RowsOf
    <3>4. ListedAs(At(i), PageTitle[t.manga])
      BY <1>1, <2>1, <3>3 DEF OwnHandler
    <3> QED
      BY <1>1, <2>2, <3>2, <3>3, <3>4 DEF IsKept, ListedAs
  <2> QED
    BY <1>1, <1>2, <2>1, <2>2, <2>3 DEF Unfailed
<1>12. CASE UpdatePanics(i)
  BY <1>12 DEF UpdatePanics
<1>13. CASE CreateChapterTask(i)
  <2>1. PICK c \in toQueue[i] :
          /\ toQueue' = [toQueue EXCEPT ![i] = @ \ {c}]
          /\ chapterTask' = IF HasTask(c) THEN chapterTask
                            ELSE chapterTask \cup {[url |-> c, manga |-> id[i]]}
    BY <1>3, <1>13 DEF CreateChapterTask
  <2>2. pc[i] = "queue" /\ UNCHANGED <<manga, pc, id>>
    BY <1>13 DEF CreateChapterTask
  <2>3. HasTask(c)'
    <3>1. CASE HasTask(c)
      BY <2>1, <3>1 DEF HasTask
    <3>2. CASE ~HasTask(c)
      <4>1. [url |-> c, manga |-> id[i]] \in chapterTask'
        BY <2>1, <3>2
      <4> QED
        BY <4>1 DEF HasTask
    <3> QED
      BY <3>1, <3>2
  <2>4. ASSUME NEW d \in ChaptersOf[At(i)], d \notin toQueue'[i]
        PROVE  IsKept(At(i), d)'
    <3>1. CASE d = c
      BY <2>3, <3>1 DEF IsKept
    <3>2. CASE d # c
      <4>1. d \notin toQueue[i]
        BY <2>1, <2>4, <3>2 DEF TypeOK
      <4>2. IsKept(At(i), d)
        BY <2>2, <4>1 DEF Unfailed
      <4> QED
        BY <1>1, <4>2, KeptStays
    <3> QED
      BY <3>1, <3>2
  <2> QED
    BY <1>1, <1>2, <2>2, <2>4 DEF Unfailed
<1>14. CASE UpdateGivesUp(i) \/ HandlerDone(i)
  BY <1>4, <1>14 DEF UpdateGivesUp, HandlerDone
<1>15. CASE InfoParseFails(i) \/ UpdateParseFails(i)
  BY <1>3, <1>15 DEF InfoParseFails, UpdateParseFails
<1> QED
  BY <1>6, <1>7, <1>8, <1>9, <1>10, <1>11, <1>12, <1>13, <1>14, <1>15
     DEF HandlerStep

(* Without a failure no handler spends an attempt on a tidy manga, and     *)
(* what it does not queue is recorded.                                     *)
LEMMA NextNoFailure ==
  TypeOK /\ OfListing /\ OwnHandlers /\ NoFailure /\ [Next]_vars => NoFailure'
<1> SUFFICES ASSUME TypeOK, OfListing, OwnHandlers, NoFailure, [Next]_vars,
                    faults' = 0, ~tmDone', NEW j \in Pos, pc'[j] # "off"
             PROVE  Unfailed(j)'
  BY DEF NoFailure
<1> USE DEF tables, workerVars, handlerVars, ctxVars, history
<1>1. faults = 0 /\ ~tmDone
  BY FaultsStay
<1>2. pc[j] # "off" => Unfailed(j)
  BY <1>1 DEF NoFailure
<1>3. ASSUME NEW i \in Pos, HandlerStep(i) PROVE Unfailed(j)'
  <2>1. pc[i] # "off" /\ (j # i => pc[j] # "off")
    BY <1>3, HandlerFrame
  <2> QED
    BY <1>1, <1>2, <1>3, <2>1, OtherUnfailed, SameUnfailed
<1>4. ASSUME UNCHANGED <<manga, list, id, parsed, toQueue>>,
             pc'[j] = pc[j], tries'[j] = tries[j]
      PROVE  Unfailed(j)'
  <2>1. Unfailed(j) /\ pc[j] # "off"
    BY <1>2, <1>4
  <2>2. At(j) \in Manga /\ ChaptersOf[At(j)] \subseteq Chapter
    BY <2>1, EntryListed, IntakeAssumption
  <2>3. \A c \in ChaptersOf[At(j)] : IsKept(At(j), c) => IsKept(At(j), c)'
    <3>1. At(j)' = At(j)
      BY <1>4 DEF At, EntryOf
    <3> QED
      BY <2>2, <3>1, KeptStays
  <2>4. At(j)' = At(j) /\ TidyManga(At(j))' = TidyManga(At(j))
    BY <1>4 DEF At, EntryOf, TidyManga, ListedAs
  <2> QED
    BY <1>4, <2>1, <2>3, <2>4 DEF Unfailed
<1>5. CASE StartListing \/ WorkerStops \/ ListingFails \/ EmptyPage \/ PageDone
  BY <1>4, <1>5 DEF StartListing, WorkerStops, ListingFails, EmptyPage, PageDone
<1>6. CASE ListPage
  BY <1>6 DEF ListPage, TypeOK
<1>7. CASE StartHandler
  <2>1. CASE j = started + 1
    BY <1>7, <2>1 DEF StartHandler, TypeOK, Unfailed
  <2>2. CASE j # started + 1
    <3>1. pc'[j] = pc[j] /\ tries'[j] = tries[j]
          /\ UNCHANGED <<manga, list, id, parsed, toQueue>>
      BY <1>7, <2>2 DEF StartHandler, TypeOK
    <3> QED
      BY <1>4, <3>1
  <2> QED
    BY <2>1, <2>2
<1>8. ASSUME NEW t \in chapterTask, RecordChapter(t) PROVE Unfailed(j)'
  BY <1>4, <1>8 DEF RecordChapter
<1>9. CASE Shutdown \/ UNCHANGED vars
  BY <1>4, <1>9 DEF Shutdown, vars
<1>10. CASE Restart
  BY <1>10 DEF Restart
<1> QED
  BY <1>3, <1>5, <1>6, <1>7, <1>8, <1>9, <1>10 DEF Next, WorkerStep

(* Chapter tasks come from handlers only.                                  *)
LEMMA TaskSteps ==
  ASSUME TypeOK, [Next]_vars, NEW t \in chapterTask', t \notin chapterTask
  PROVE  \E i \in Pos :
           /\ CreateChapterTask(i) /\ Succeeds
           /\ t.manga = id[i] /\ t.url \in toQueue[i] /\ t.url \in Chapter
<1> USE DEF tables, workerVars, handlerVars, ctxVars, history
<1>1. ASSUME NEW i \in Pos, HandlerStep(i)
      PROVE  /\ CreateChapterTask(i) /\ Succeeds
             /\ t.manga = id[i] /\ t.url \in toQueue[i] /\ t.url \in Chapter
  <2>1. CreateChapterTask(i)
    BY <1>1 DEF HandlerStep, ExistsMangaByTitle, InfoParseFails,
       CreateManga, CreateMangaFails, InfoTriesSpent, GetChaptersNames,
       UpdateParseFails, UpdateParses, UpdateGivesUp, UpdatePanics, HandlerDone
  <2>2. PICK c \in toQueue[i] :
          \/ /\ Succeeds
             /\ chapterTask' = IF HasTask(c) THEN chapterTask
                               ELSE chapterTask \cup {[url |-> c, manga |-> id[i]]}
          \/ Fails /\ UNCHANGED chapterTask
    BY <2>1 DEF CreateChapterTask
  <2>3. Succeeds /\ t = [url |-> c, manga |-> id[i]]
    BY <2>2
  <2> QED
    BY <2>1, <2>2, <2>3 DEF TypeOK
<1>2. ~WorkerStep
  BY DEF WorkerStep, StartListing, WorkerStops, ListingFails, ListPage,
     EmptyPage, StartHandler, PageDone
<1>3. ~(\E r \in chapterTask : RecordChapter(r))
  BY DEF RecordChapter
<1>4. ~(Shutdown \/ Restart \/ UNCHANGED vars)
  BY DEF Shutdown, Restart, vars
<1> QED
  BY <1>1, <1>2, <1>3, <1>4 DEF Next

(* A row is one of a task with a manga id.                                 *)
LEMMA RowSteps ==
  ASSUME TypeOK, [Next]_vars, NEW t \in Task, rows'[t] # rows[t]
  PROVE  t \in chapterTask /\ RecordChapter(t)
<1> USE DEF tables, workerVars, handlerVars, ctxVars, history
<1>1. ASSUME NEW i \in Pos, HandlerStep(i) PROVE FALSE
  BY <1>1, HandlerFrame
<1>2. ~WorkerStep
  BY DEF WorkerStep, StartListing, WorkerStops, ListingFails, ListPage,
     EmptyPage, StartHandler, PageDone
<1>3. ~(Shutdown \/ Restart \/ UNCHANGED vars)
  BY DEF Shutdown, Restart, vars
<1>4. ASSUME NEW r \in chapterTask, RecordChapter(r) PROVE r = t
  BY <1>4 DEF RecordChapter, TypeOK
<1> QED
  BY <1>1, <1>2, <1>3, <1>4 DEF Next

(* A task without a manga id is not one of a tidy manga.                   *)
LEMMA NextNoOrphan ==
  TypeOK /\ OfListing /\ OwnHandlers /\ NoFailure /\ NoOrphanTask /\ [Next]_vars
    => NoOrphanTask'
<1> SUFFICES ASSUME TypeOK, OfListing, OwnHandlers, NoFailure, NoOrphanTask,
                    [Next]_vars, faults' = 0, NEW t \in chapterTask',
                    t.manga = NoManga
             PROVE  \E m \in Manga : t.url \in ChaptersOf[m] /\ ~TidyManga(m)
  BY DEF NoOrphanTask, TidyManga, ListedAs
<1>1. faults = 0
  BY FaultsStay
<1>2. CASE t \in chapterTask
  BY <1>1, <1>2 DEF NoOrphanTask
<1>3. CASE t \notin chapterTask
  <2>1. PICK i \in Pos : /\ CreateChapterTask(i) /\ Succeeds
                         /\ t.manga = id[i] /\ t.url \in toQueue[i]
    BY <1>3, TaskSteps
  <2>2. ~tmDone /\ pc[i] = "queue"
    BY <2>1 DEF Succeeds, CreateChapterTask
  <2>3. Unfailed(i) /\ At(i) \in Manga /\ t.url \in ChaptersOf[At(i)]
    BY <1>1, <2>1, <2>2, EntryListed DEF NoFailure, OwnHandlers, OwnHandler
  <2> QED
    BY <2>1, <2>2, <2>3 DEF Unfailed
<1> QED
  BY <1>2, <1>3

(* A chapter is queued under the id its handler holds.                     *)
LEMMA NextOwnChapters ==
  TypeOK /\ OfListing /\ OwnHandlers /\ OwnChapters /\ [Next]_vars
    => OwnChapters'
<1> SUFFICES ASSUME TypeOK, OfListing, OwnHandlers, OwnChapters, [Next]_vars,
                    NEW t \in Task, t.manga # NoManga,
                    t \in chapterTask' \/ rows'[t] > 0
             PROVE  \E m \in Manga :
                      /\ t.url \in ChaptersOf[m]
                      /\ m = t.manga \/ ListedAs(m, PageTitle[t.manga])
  BY DEF OwnChapters, ListedAs
<1>1. CASE t \in chapterTask \/ rows[t] > 0
  BY <1>1 DEF OwnChapters
<1>2. CASE ~(t \in chapterTask \/ rows[t] > 0)
  <2>1. rows'[t] = rows[t]
    BY <1>2, RowSteps
  <2>2. PICK i \in Pos : /\ CreateChapterTask(i)
                         /\ t.manga = id[i] /\ t.url \in toQueue[i]
    BY <1>2, <2>1, TaskSteps
  <2>3. pc[i] = "queue" /\ OwnHandler(i)
    BY <2>2 DEF CreateChapterTask, OwnHandlers
  <2>4. At(i) \in Manga /\ t.url \in ChaptersOf[At(i)] /\ IsId(id[i], i)
    BY <2>2, <2>3, EntryListed DEF OwnHandler
  <2> QED
    BY <2>2, <2>4 DEF IsId
<1> QED
  BY <1>1, <1>2

(* A handler is through with a manga when nothing of it is left to queue.  *)
LEMMA NextNothingSkipped ==
  TypeOK /\ OfListing /\ OwnHandlers /\ NoFailure /\ NothingSkipped /\ [Next]_vars
    => NothingSkipped'
<1> SUFFICES ASSUME TypeOK, OfListing, OwnHandlers, NoFailure, NothingSkipped,
                    [Next]_vars, faults' = 0,
                    NEW m \in through', NEW c \in ChaptersOf[m]
             PROVE  IsKept(m, c)'
  BY DEF NothingSkipped
<1> USE DEF tables, workerVars, handlerVars, ctxVars, history
<1>1. faults = 0
  BY FaultsStay
<1>2. ASSUME m \in through PROVE IsKept(m, c)'
  <2>1. m \in Manga /\ c \in Chapter /\ IsKept(m, c)
    BY <1>1, <1>2, IntakeAssumption DEF NothingSkipped, TypeOK
  <2> QED
    BY <2>1, KeptStays
<1>3. ASSUME NEW i \in Pos, HandlerStep(i), Leave(i) PROVE IsKept(m, c)'
  <2>1. CASE m \in through
    BY <1>2, <2>1
  <2>2. CASE m \notin through
    <3>1. m = At(i) /\ ~tmDone
      BY <1>3, <2>2 DEF Leave
    <3>2. pc[i] # "off" /\ Unfailed(i) /\ OwnHandler(i)
      BY <1>1, <1>3, <3>1, HandlerFrame DEF NoFailure, OwnHandlers
    <3>3. ~Fails /\ ~Fault
      BY <3>1, FailureCounts
    <3>4. pc'[i] = "off" /\ MaxRetries \in Nat \ {0}
      BY <1>3, IntakeAssumption DEF Leave, TypeOK
    <3>5. pc[i] = "queue" /\ toQueue[i] = {}
      <4>1. CASE InfoTriesSpent(i)
        BY <3>2, <3>4, <4>1 DEF InfoTriesSpent, Unfailed, TypeOK
      <4>2. CASE GetChaptersNames(i)
        BY <3>3, <3>4, <4>2 DEF GetChaptersNames, TypeOK
      <4>3. CASE UpdateGivesUp(i)
        BY <3>1, <3>2, <3>4, <4>3 DEF UpdateGivesUp, Unfailed
      <4>4. CASE HandlerDone(i)
        BY <4>4 DEF HandlerDone
      <4>5. CASE ExistsMangaByTitle(i) \/ InfoParseFails(i) \/ CreateManga(i)
                 \/ CreateMangaFails(i) \/ UpdateParseFails(i) \/ UpdateParses(i)
                 \/ UpdatePanics(i) \/ CreateChapterTask(i)
        BY <3>2, <3>4, <4>5 DEF ExistsMangaByTitle, InfoParseFails, CreateManga,
           CreateMangaFails, UpdateParseFails, UpdateParses, UpdatePanics,
           CreateChapterTask, TypeOK
      <4> QED
        BY <1>3, <4>1, <4>2, <4>3, <4>4, <4>5 DEF HandlerStep
    <3>6. IsKept(m, c) /\ m \in Manga /\ c \in Chapter
      BY <3>1, <3>2, <3>5, EntryListed, IntakeAssumption DEF Unfailed
    <3> QED
      BY <3>6, KeptStays
  <2> QED
    BY <2>1, <2>2
<1>4. ASSUME NEW i \in Pos, HandlerStep(i), ~Leave(i) PROVE IsKept(m, c)'
  <2>1. through' = through
    BY <1>4 DEF HandlerStep, ExistsMangaByTitle, InfoParseFails, CreateManga,
       CreateMangaFails, InfoTriesSpent, GetChaptersNames, UpdateParseFails,
       UpdateParses, UpdateGivesUp, UpdatePanics, CreateChapterTask, HandlerDone
  <2> QED
    BY <1>2, <2>1
<1>5. CASE WorkerStep
  BY <1>2, <1>5 DEF WorkerStep, StartListing, WorkerStops, ListingFails, ListPage,
     EmptyPage, StartHandler, PageDone
<1>6. ASSUME NEW t \in chapterTask, RecordChapter(t) PROVE IsKept(m, c)'
  BY <1>2, <1>6 DEF RecordChapter
<1>7. CASE Shutdown \/ Restart \/ UNCHANGED vars
  BY <1>2, <1>7 DEF Shutdown, Restart, vars
<1> QED
  BY <1>3, <1>4, <1>5, <1>6, <1>7 DEF Next

-----------------------------------------------------------------------------
(* Rows and visits.                                                        *)

(* The visits that have not paid for a row yet can be counted.             *)
LEMMA PendingCount ==
  ASSUME IntakeAssumption, NEW S \in SUBSET Pos
  PROVE  /\ IsFiniteSet(S) /\ Cardinality(S) \in Nat
         /\ \A R \in SUBSET S : Cardinality(R) <= Cardinality(S)
<1>1. IsFiniteSet(Pos)
  BY FS_Interval, IntakeAssumption DEF Pos
<1>2. IsFiniteSet(S)
  BY <1>1, FS_Subset
<1> QED
  BY <1>2, FS_Subset, FS_CardinalityType

(* The counts are natural numbers.                                         *)
LEMMA CountTypes ==
  ASSUME TypeOK, NEW t \in Task
  PROVE  /\ rows[t] \in Nat /\ visits[t.url] \in Nat /\ faults \in Nat
         /\ t.url \in Chapter
<1>1. t.url \in Chapter
  BY DEF Task
<1>2. rows \in [Task -> Nat] /\ visits \in [Chapter -> Nat]
  BY DEF TypeOK
<1>3. faults \in Nat
  BY DEF TypeOK
<1> QED
  BY <1>1, <1>2, <1>3

(* A step that adds neither a row, a task nor a visit keeps the count.     *)
LEMMA CountKept ==
  ASSUME TypeOK, NEW t \in Task, faults' \in Nat, faults <= faults',
         rows'[t] = rows[t], t \in chapterTask' => t \in chapterTask,
         visits' = visits, Pending(t.url)' \subseteq Pending(t.url),
         rows[t] + Queued(t) + Cardinality(Pending(t.url))
           <= visits[t.url] + faults
  PROVE  rows'[t] + Queued(t)' + Cardinality(Pending(t.url)')
           <= visits'[t.url] + faults'
<1>1. /\ Cardinality(Pending(t.url)') <= Cardinality(Pending(t.url))
      /\ Cardinality(Pending(t.url)') \in Nat /\ Cardinality(Pending(t.url)) \in Nat
  <2>1. Pending(t.url) \in SUBSET Pos
    BY DEF Pending
  <2>2. Pending(t.url)' \in SUBSET Pos
    BY <2>1
  <2> QED
    BY <2>1, <2>2, PendingCount, IntakeAssumption
<1>2. Queued(t)' <= Queued(t) /\ Queued(t)' \in Nat /\ Queued(t) \in Nat
  BY DEF Queued
<1>3. rows[t] \in Nat /\ visits[t.url] \in Nat /\ faults \in Nat
  BY CountTypes
<1> HIDE DEF TypeOK, Pending, Queued
<1> QED
  BY <1>1, <1>2, <1>3

(* A handler queues a chapter once.                                        *)
LEMMA HandlerCounts ==
  ASSUME TypeOK, OwnHandlers, RowsCounted, NEW i \in Pos, HandlerStep(i),
         NEW t \in Task
  PROVE  rows'[t] + Queued(t)' + Cardinality(Pending(t.url)')
           <= visits'[t.url] + faults'
<1> USE DEF tables, workerVars, handlerVars, ctxVars, history
<1>1. /\ UNCHANGED <<list, rows, visits>> /\ faults' \in Nat /\ faults <= faults'
      /\ pc[i] # "off"
      /\ \A j \in Pos \ {i} : pc'[j] = pc[j] /\ toQueue'[j] = toQueue[j]
  BY HandlerFrame DEF TypeOK
<1>2. rows[t] + Queued(t) + Cardinality(Pending(t.url)) <= visits[t.url] + faults
  BY DEF RowsCounted
<1>3. \A j \in Pos : At(j)' = At(j)
  BY <1>1 DEF At, EntryOf
<1>4. ASSUME pc'[i] # "off",
             pc'[i] = "queue" /\ t.url \in toQueue'[i]
               => (pc[i] = "queue" => t.url \in toQueue[i]),
             pc'[i] # "queue" => pc[i] # "queue"
      PROVE  Pending(t.url)' \subseteq Pending(t.url)
  BY <1>1, <1>3, <1>4 DEF Pending
<1>5. CASE CreateChapterTask(i)
  <2>1. PICK c \in toQueue[i] :
          /\ toQueue' = [toQueue EXCEPT ![i] = @ \ {c}]
          /\ \/ chapterTask' = chapterTask \cup {[url |-> c, manga |-> id[i]]}
             \/ UNCHANGED chapterTask
    BY <1>5 DEF CreateChapterTask
  <2>2. pc[i] = "queue" /\ pc' = pc /\ c \in ChaptersOf[At(i)]
        /\ toQueue'[i] = toQueue[i] \ {c}
    BY <1>5, <2>1 DEF CreateChapterTask, OwnHandlers, OwnHandler, TypeOK
  <2>3. Pending(t.url)' \subseteq Pending(t.url)
    BY <1>4, <2>2
  <2>4. CASE t \in chapterTask' => t \in chapterTask
    BY <1>1, <1>2, <2>3, <2>4, CountKept
  <2>5. CASE t \in chapterTask' /\ t \notin chapterTask
    <3>1. t.url = c
      BY <2>1, <2>5
    <3>2. i \in Pending(t.url) /\ i \notin Pending(t.url)'
      BY <2>1, <2>2, <3>1 DEF Pending
    <3>3. Pending(t.url) \in SUBSET Pos
      BY DEF Pending
    <3>4. /\ Pending(t.url)' \in SUBSET (Pending(t.url) \ {i})
          /\ Pending(t.url) \ {i} \in SUBSET Pos
      BY <2>3, <3>2, <3>3
    <3>5. Cardinality(Pending(t.url) \ {i}) = Cardinality(Pending(t.url)) - 1
      BY <3>2, <3>3, PendingCount, FS_RemoveElement, IntakeAssumption
    <3>6. /\ Cardinality(Pending(t.url)') <= Cardinality(Pending(t.url)) - 1
          /\ Cardinality(Pending(t.url)') \in Nat
          /\ Cardinality(Pending(t.url)) \in Nat
      <4>1. Pending(t.url)' \in SUBSET Pos
        BY <3>4
      <4> QED
        BY <3>3, <3>4, <3>5, <4>1, PendingCount, IntakeAssumption
    <3>7. Queued(t)' = 1 /\ Queued(t) = 0
      BY <2>5 DEF Queued
    <3>8. rows[t] \in Nat /\ visits[t.url] \in Nat /\ faults \in Nat
      BY CountTypes
    <3>9. rows'[t] = rows[t] /\ visits'[t.url] = visits[t.url]
      BY <1>1
    <3> QED
      BY <1>1, <1>2, <3>6, <3>7, <3>8, <3>9
  <2> QED
    BY <2>4, <2>5
<1>6. CASE ~CreateChapterTask(i)
  <2>1. UNCHANGED chapterTask
    BY <1>6 DEF HandlerStep, ExistsMangaByTitle, InfoParseFails, CreateManga,
       CreateMangaFails, InfoTriesSpent, GetChaptersNames, UpdateParseFails,
       UpdateParses, UpdateGivesUp, UpdatePanics, HandlerDone
  <2>2. pc'[i] = "off" \/ pc[i] # "queue"
    BY <1>6 DEF HandlerStep, ExistsMangaByTitle, InfoParseFails, CreateManga,
       CreateMangaFails, InfoTriesSpent, GetChaptersNames, UpdateParseFails,
       UpdateParses, UpdateGivesUp, UpdatePanics, HandlerDone, Leave, TypeOK
  <2>3. Pending(t.url)' \subseteq Pending(t.url)
    BY <1>1, <1>3, <1>4, <2>2 DEF Pending
  <2> QED
    BY <1>1, <1>2, <2>1, <2>3, CountKept
<1> QED
  BY <1>5, <1>6

(* A visit is counted when its handler starts, a row takes the place of    *)
(* its task, and what stays behind in the queue is a failure.              *)
LEMMA NextRowsCounted ==
  TypeOK /\ OwnHandlers /\ RowsCounted /\ [Next]_vars => RowsCounted'
<1> SUFFICES ASSUME TypeOK, OwnHandlers, RowsCounted, [Next]_vars,
                    NEW t \in Task
             PROVE  rows'[t] + Queued(t)' + Cardinality(Pending(t.url)')
                      <= visits'[t.url] + faults'
  BY DEF RowsCounted
<1> USE DEF tables, workerVars, handlerVars, ctxVars, history
<1>1. rows[t] + Queued(t) + Cardinality(Pending(t.url)) <= visits[t.url] + faults
  BY DEF RowsCounted
<1>2. rows[t] \in Nat /\ visits[t.url] \in Nat /\ faults \in Nat /\ t.url \in Chapter
  BY CountTypes
<1>3. Pending(t.url) \in SUBSET Pos
  BY DEF Pending
<1>4. Cardinality(Pending(t.url)) \in Nat
  BY <1>3, PendingCount, IntakeAssumption
<1>5. ASSUME NEW i \in Pos, HandlerStep(i)
      PROVE  rows'[t] + Queued(t)' + Cardinality(Pending(t.url)')
               <= visits'[t.url] + faults'
  BY <1>5, HandlerCounts
<1>6. CASE UNCHANGED <<rows, chapterTask, visits, faults, pc, toQueue>>
           /\ ((\A j \in Pos : pc[j] = "off") \/ UNCHANGED list)
  <2>1. Pending(t.url)' \subseteq Pending(t.url)
    BY <1>6 DEF Pending, At, EntryOf
  <2> QED
    BY <1>1, <1>2, <1>6, <2>1, CountKept
<1>7. CASE StartListing \/ WorkerStops \/ ListingFails \/ ListPage \/ EmptyPage
           \/ PageDone
  <2>1. CASE ListPage
    BY <1>6, <2>1 DEF ListPage, TypeOK
  <2> QED
    BY <1>6, <1>7, <2>1 DEF StartListing, WorkerStops, ListingFails, EmptyPage,
       PageDone
<1>8. CASE StartHandler
  <2> DEFINE k == started + 1
  <2>1. k \in Pos /\ pc[k] = "off" /\ pc' = [pc EXCEPT ![k] = "exists"]
        /\ UNCHANGED <<rows, chapterTask, faults, list, toQueue>>
    BY <1>8, IntakeAssumption DEF StartHandler, TypeOK, Pos
  <2>2. visits'[t.url] = IF t.url \in ChaptersOf[At(k)] THEN visits[t.url] + 1
                         ELSE visits[t.url]
    BY <1>2, <1>8 DEF StartHandler, At, EntryOf
  <2>3. Queued(t)' = Queued(t) /\ Queued(t) \in Nat /\ rows'[t] = rows[t]
        /\ faults' = faults
    BY <2>1 DEF Queued
  <2> HIDE DEF k
  <2>4. k \notin Pending(t.url)
    BY <2>1 DEF Pending
  <2>5. CASE t.url \in ChaptersOf[At(k)]
    <3>1. Pending(t.url)' = Pending(t.url) \cup {k}
      BY <2>1, <2>5 DEF Pending, At, EntryOf, TypeOK
    <3>2. Cardinality(Pending(t.url)') = Cardinality(Pending(t.url)) + 1
      BY <1>3, <2>4, <3>1, PendingCount, FS_AddElement, IntakeAssumption
    <3> QED
      BY <1>1, <1>2, <1>4, <2>2, <2>3, <2>5, <3>2
  <2>6. CASE t.url \notin ChaptersOf[At(k)]
    <3>1. Pending(t.url)' = Pending(t.url)
      BY <2>1, <2>6 DEF Pending, At, EntryOf, TypeOK
    <3> QED
      BY <1>1, <1>2, <1>4, <2>2, <2>3, <2>6, <3>1
  <2> QED
    BY <2>5, <2>6
<1>9. ASSUME NEW r \in chapterTask, RecordChapter(r)
      PROVE  rows'[t] + Queued(t)' + Cardinality(Pending(t.url)')
               <= visits'[t.url] + faults'
  <2>1. /\ rows' = [rows EXCEPT ![r] = @ + 1] /\ r \in Task
        /\ UNCHANGED <<handlerVars, list, visits>>
        /\ \/ chapterTask' = chapterTask \ {r} /\ faults' = faults
           \/ chapterTask' = chapterTask /\ faults' = faults + 1
    BY <1>9 DEF RecordChapter, Fault, TypeOK
  <2>2. Pending(t.url)' = Pending(t.url)
    BY <2>1 DEF Pending, At, EntryOf
  <2>3. CASE t = r
    <3>1. rows'[t] = rows[t] + 1 /\ visits'[t.url] = visits[t.url]
      BY <2>1, <2>3 DEF TypeOK
    <3>2. Queued(t) = 1 /\ (\/ Queued(t)' = 0 /\ faults' = faults
                            \/ Queued(t)' = 1 /\ faults' = faults + 1)
      BY <2>1, <2>3 DEF Queued
    <3> QED
      BY <1>1, <1>2, <1>4, <2>2, <3>1, <3>2
  <2>4. CASE t # r
    <3>1. /\ rows'[t] = rows[t] /\ (t \in chapterTask' => t \in chapterTask)
          /\ visits' = visits /\ faults' \in Nat /\ faults <= faults'
      BY <1>2, <2>1, <2>4 DEF TypeOK
    <3> QED
      BY <1>1, <2>2, <3>1, CountKept
  <2> QED
    BY <2>3, <2>4
<1>10. CASE Shutdown \/ UNCHANGED vars
  BY <1>6, <1>10 DEF Shutdown, vars
<1>11. CASE Restart
  <2>1. Pending(t.url)' = {}
    BY <1>11 DEF Restart, Pending
  <2>2. UNCHANGED <<rows, chapterTask, visits>> /\ faults' = faults + 1
    BY <1>11 DEF Restart, Fault
  <2>3. faults' \in Nat /\ faults <= faults' /\ rows'[t] = rows[t]
        /\ Pending(t.url)' \subseteq Pending(t.url)
    BY <1>2, <2>1, <2>2
  <2> QED
    BY <1>1, <2>2, <2>3, CountKept
<1> QED
  BY <1>5, <1>7, <1>8, <1>9, <1>10, <1>11 DEF Next, WorkerStep

-----------------------------------------------------------------------------
(* The invariant.                                                          *)

(* Nothing is counted, queued or held at the start.                        *)
LEMMA InitIInv == Init => IInv
<1> SUFFICES ASSUME Init PROVE IInv
  OBVIOUS
<1>1. TypeOK
  BY InitTypeOK
<1>2. OfListing /\ StoppedByItself /\ PanicOnlyAtShutdown
  BY DEF Init, OfListing, StoppedByItself, PanicOnlyAtShutdown
<1>3. OwnHandlers /\ NoFailure
  BY DEF Init, OwnHandlers, OwnHandler, NoFailure
<1>4. NoOrphanTask /\ OwnChapters /\ NothingSkipped
  BY DEF Init, NoOrphanTask, OwnChapters, NothingSkipped
<1>5. RowsCounted
  <2> SUFFICES ASSUME NEW t \in Task
               PROVE  rows[t] + Queued(t) + Cardinality(Pending(t.url))
                        <= visits[t.url] + faults
    BY DEF RowsCounted
  <2>1. rows[t] = 0 /\ Queued(t) = 0 /\ visits[t.url] = 0 /\ faults = 0
    BY DEF Init, Queued, Task
  <2>2. Pending(t.url) = {}
    BY DEF Init, Pending
  <2>3. Cardinality(Pending(t.url)) = 0
    BY <2>2, FS_EmptySet
  <2> QED
    BY <2>1, <2>3
<1> QED
  BY <1>1, <1>2, <1>3, <1>4, <1>5 DEF IInv

(* The invariant is inductive.                                             *)
LEMMA NextIInv == IInv /\ [Next]_vars => IInv'
BY NextTypeOK, NextOfListing, NextStoppedByItself, NextOwnHandlers,
   NextNoFailure, NextRowsCounted, NextPanic, NextNoOrphan, NextOwnChapters,
   NextNothingSkipped DEF IInv

(* The invariant the theorems below are read off.                          *)
THEOREM InvariantHolds == Spec => []IInv
<1>1. Init => IInv
  BY InitIInv
<1>2. IInv /\ [Next]_vars => IInv'
  BY NextIInv
<1> QED
  BY <1>1, <1>2, PTL DEF Spec

(* The tables, the worker and its handlers are well typed, no two rows     *)
(* have one title and no chapter has two tasks.                            *)
THEOREM TypeCorrect == Spec => []TypeOK
<1>1. IInv => TypeOK
  BY DEF IInv
<1> QED
  BY <1>1, InvariantHolds, PTL

(* The nil dereference of handleChapterUpdateInfo takes a signal.          *)
THEOREM PanicsAtShutdown == Spec => []PanicOnlyAtShutdown
<1>1. IInv => PanicOnlyAtShutdown
  BY DEF IInv
<1> QED
  BY <1>1, InvariantHolds, PTL

(* Without a failure the chapters of a tidy manga are never queued under   *)
(* the empty id, however pages shift and handlers interleave.              *)
THEOREM TidyHaveNoOrphans == Spec => []NoOrphanTask
<1>1. IInv => NoOrphanTask
  BY DEF IInv
<1> QED
  BY <1>1, InvariantHolds, PTL

(* A chapter is filed under the manga that lists it, or under one with a   *)
(* title the listing gave to that one.                                     *)
THEOREM ChaptersAreOwn == Spec => []OwnChapters
<1>1. IInv => OwnChapters
  BY DEF IInv
<1> QED
  BY <1>1, InvariantHolds, PTL

(* Without a failure a handler leaves no chapter of its manga behind.      *)
THEOREM NothingIsSkipped == Spec => []NothingSkipped
<1>1. IInv => NothingSkipped
  BY DEF IInv
<1> QED
  BY <1>1, InvariantHolds, PTL

(* There are no more rows of a chapter than visits and failures.           *)
THEOREM RowsAreVisits == Spec => []RowsPerVisit
<1>1. ASSUME IInv, NEW t \in Task PROVE rows[t] <= visits[t.url] + faults
  <2>1. TypeOK /\ RowsCounted
    BY <1>1 DEF IInv
  <2>2. /\ rows[t] \in Nat /\ visits[t.url] \in Nat /\ faults \in Nat
        /\ Queued(t) \in Nat
    BY <2>1, CountTypes DEF Queued
  <2>3. Pending(t.url) \in SUBSET Pos
    BY DEF Pending
  <2>4. Cardinality(Pending(t.url)) \in Nat
    BY <2>3, PendingCount, IntakeAssumption
  <2>5. rows[t] + Queued(t) + Cardinality(Pending(t.url)) <= visits[t.url] + faults
    BY <2>1 DEF RowsCounted
  <2> QED
    BY <2>2, <2>4, <2>5
<1>2. IInv => RowsPerVisit
  BY <1>1 DEF RowsPerVisit
<1> QED
  BY <1>2, InvariantHolds, PTL

-----------------------------------------------------------------------------
(* How many manga are given up.                                            *)

(* A handler that was sent on to the chapters by a title has the row of    *)
(* its manga, when that is not to be mistaken for another.                 *)
LEMMA UnmistakenStored ==
  ASSUME TypeOK, OwnHandlers, NEW i \in Pos, Unmistaken(At(i)),
         pc[i] \in {"names", "update"}
  PROVE  At(i) \in manga
<1>1. id[i] \in manga /\ ListedAs(At(i), PageTitle[id[i]])
  BY DEF TypeOK, OwnHandlers, OwnHandler
<1>2. id[i] \in Manga
  BY <1>1 DEF TypeOK
<1>3. id[i] = At(i)
  BY <1>1, <1>2 DEF Unmistaken
<1> QED
  BY <1>1, <1>3

(* A handler dooms no manga but its own, and only by a failure.            *)
LEMMA DoomedByFault ==
  ASSUME TypeOK, OfListing, OwnHandlers, NEW i \in Pos, HandlerStep(i),
         NEW m \in Doomed', m \notin Doomed
  PROVE  m = At(i) /\ faults' = faults + 1
<1> USE DEF tables, workerVars, handlerVars, ctxVars, history
<1>1. /\ UNCHANGED <<list, tmDone>> /\ pc[i] # "off"
      /\ \A j \in Pos \ {i} : pc'[j] = pc[j] /\ tries'[j] = tries[j]
  BY HandlerFrame
<1>2. /\ m \in Manga /\ m \notin manga' /\ Unmistaken(m)
      /\ \/ m \in through'
         \/ ~tmDone /\ \E j \in Pos : Spending(j)' /\ At(j) = m
  BY <1>1 DEF Doomed, At, EntryOf
<1>3. m \notin manga /\ manga \subseteq manga'
  BY <1>2, MangaStep
<1>4. m \notin through
  BY <1>2, <1>3 DEF Doomed
<1>5. \A j \in Pos \ {i} : Spending(j)' => Spending(j)
  BY <1>1 DEF Spending
<1>6. m = At(i) /\ ~tmDone /\ ~Spending(i)
  <2>1. CASE m \in through'
    <3>1. m = At(i) /\ ~tmDone
      BY <1>4, <2>1 DEF HandlerStep, ExistsMangaByTitle, InfoParseFails,
         CreateManga, CreateMangaFails, InfoTriesSpent, GetChaptersNames,
         UpdateParseFails, UpdateParses, UpdateGivesUp, UpdatePanics,
         CreateChapterTask, HandlerDone, Leave
    <3> QED
      BY <1>2, <1>3, <3>1 DEF Doomed
  <2>2. CASE m \notin through'
    <3>1. ~tmDone /\ \E j \in Pos : Spending(j)' /\ At(j) = m
      BY <1>2, <2>2
    <3>2. \A j \in Pos : Spending(j) => At(j) # m
      BY <1>2, <1>3, <3>1 DEF Doomed
    <3> QED
      BY <1>5, <3>1, <3>2
  <2> QED
    BY <2>1, <2>2
<1>7. pc[i] \notin {"names", "update", "queue"}
  BY <1>2, <1>3, <1>6, UnmistakenStored DEF Spending
<1>8. CASE ExistsMangaByTitle(i)
  <2>1. tries[i] = MaxRetries /\ tries' = tries
    BY <1>8 DEF ExistsMangaByTitle, OwnHandlers, OwnHandler
  <2>2. ~Spending(i)'
    <3>1. pc'[i] \in {"names", "info"}
      BY <1>8 DEF ExistsMangaByTitle, TypeOK
    <3> QED
      BY <2>1, <3>1, IntakeAssumption DEF Spending
  <2>3. through' = through
    BY <1>8 DEF ExistsMangaByTitle
  <2>4. \E j \in Pos : Spending(j) /\ At(j) = m
    BY <1>2, <1>4, <1>5, <2>2, <2>3
  <2> QED
    BY <1>2, <1>3, <1>6, <2>4 DEF Doomed
<1>9. CASE InfoParseFails(i)
  BY <1>6, <1>9 DEF InfoParseFails, Fails, Fault
<1>10. CASE CreateManga(i)
  BY <1>2, <1>6, <1>10 DEF CreateManga
<1>11. CASE CreateMangaFails(i)
  <2>1. CASE RowsTitled(PageTitle[At(i)]) # {}
    <3>1. PICK n \in manga : PageTitle[n] = PageTitle[m]
      BY <1>6, <2>1 DEF RowsTitled
    <3>2. n \in Manga /\ n # m
      BY <1>3, <3>1 DEF TypeOK
    <3> QED
      BY <1>2, <3>1, <3>2 DEF Unmistaken
  <2>2. CASE Fails
    BY <1>6, <2>2 DEF Fails, Fault
  <2> QED
    BY <1>11, <2>1, <2>2 DEF CreateMangaFails
<1>12. CASE InfoTriesSpent(i)
  BY <1>6, <1>12, IntakeAssumption DEF InfoTriesSpent, Spending
<1> QED
  BY <1>6, <1>7, <1>8, <1>9, <1>10, <1>11, <1>12 DEF HandlerStep,
     GetChaptersNames, UpdateParseFails, UpdateParses, UpdateGivesUp,
     UpdatePanics, CreateChapterTask, HandlerDone

(* The other steps doom none.                                              *)
LEMMA DoomedStay ==
  ASSUME TypeOK,
         \/ WorkerStep \/ Shutdown \/ Restart \/ UNCHANGED vars
         \/ \E t \in chapterTask : RecordChapter(t)
  PROVE  /\ Doomed' \subseteq Doomed
         /\ faults' \in {faults, faults + 1}
<1> USE DEF tables, workerVars, handlerVars, ctxVars, history
<1>1. UNCHANGED <<manga, through>> /\ faults' \in {faults, faults + 1}
  BY DEF WorkerStep, StartListing, WorkerStops, ListingFails, ListPage,
     EmptyPage, StartHandler, PageDone, RecordChapter, Shutdown, Restart,
     Fault, vars
<1>2. ASSUME ~tmDone', NEW i \in Pos, Spending(i)'
      PROVE  ~tmDone /\ Spending(i) /\ At(i)' = At(i)
  <2>1. CASE Restart
    BY <1>2, <2>1 DEF Restart, Spending
  <2>2. CASE ListPage
    BY <1>2, <2>2 DEF ListPage, Spending, TypeOK
  <2>3. CASE StartHandler
    <3>1. /\ pc' = [pc EXCEPT ![started + 1] = "exists"]
          /\ tries' = [tries EXCEPT ![started + 1] = MaxRetries]
          /\ UNCHANGED <<list, tmDone>>
      BY <2>3 DEF StartHandler
    <3>2. i # started + 1
      BY <1>2, <3>1 DEF Spending, TypeOK
    <3> QED
      BY <1>2, <3>1, <3>2 DEF Spending, TypeOK, At, EntryOf
  <2>4. CASE UNCHANGED <<pc, tries, list>> /\ (tmDone => tmDone')
    BY <1>2, <2>4 DEF Spending, At, EntryOf
  <2> QED
    BY <2>1, <2>2, <2>3, <2>4 DEF WorkerStep, StartListing, WorkerStops,
       ListingFails, EmptyPage, PageDone, RecordChapter, Shutdown, vars
<1>3. ASSUME NEW m \in Doomed' PROVE m \in Doomed
  <2>1. /\ m \in Manga \ manga /\ Unmistaken(m)
        /\ \/ m \in through
           \/ ~tmDone' /\ \E i \in Pos : Spending(i)' /\ At(i)' = m
    BY <1>1, <1>3 DEF Doomed
  <2> QED
    BY <1>2, <2>1 DEF Doomed
<1> QED
  BY <1>1, <1>3

(* Every failure pays for the manga it dooms.                              *)
LEMMA NextDoomed ==
  IInv /\ DoomedBounded /\ [Next]_vars => DoomedBounded'
<1> SUFFICES ASSUME IInv, DoomedBounded, [Next]_vars PROVE DoomedBounded'
  OBVIOUS
<1>1. TypeOK /\ OfListing /\ OwnHandlers
  BY DEF IInv
<1>2. /\ IsFiniteSet(Doomed) /\ Cardinality(Doomed) <= faults
      /\ Cardinality(Doomed) \in Nat /\ faults \in Nat
  BY <1>1, FS_CardinalityType, IntakeAssumption DEF DoomedBounded, TypeOK
<1>3. CASE Doomed' \subseteq Doomed /\ faults' \in Nat /\ faults <= faults'
  <2>1. IsFiniteSet(Doomed') /\ Cardinality(Doomed') <= Cardinality(Doomed)
    BY <1>2, <1>3, FS_Subset
  <2>2. Cardinality(Doomed') \in Nat
    BY <2>1, FS_CardinalityType
  <2> QED
    BY <1>2, <1>3, <2>1, <2>2 DEF DoomedBounded
<1>4. ASSUME NEW i \in Pos, HandlerStep(i) PROVE DoomedBounded'
  <2>1. faults' \in Nat /\ faults <= faults'
    <3>1. faults' \in faults..MaxFaults
      BY <1>1, <1>4, HandlerFrame
    <3> QED
      BY <1>2, <3>1, IntakeAssumption
  <2>2. CASE ~(Doomed' \subseteq Doomed)
    <3>1. /\ Doomed' \subseteq Doomed \cup {At(i)}
          /\ faults' = faults + 1
      BY <1>1, <1>4, <2>2, DoomedByFault
    <3>2. /\ IsFiniteSet(Doomed \cup {At(i)})
          /\ Cardinality(Doomed \cup {At(i)})
               = IF At(i) \in Doomed THEN Cardinality(Doomed)
                 ELSE Cardinality(Doomed) + 1
      BY <1>2, FS_AddElement
    <3>3. /\ IsFiniteSet(Doomed')
          /\ Cardinality(Doomed') <= Cardinality(Doomed \cup {At(i)})
      BY <3>1, <3>2, FS_Subset
    <3>4. Cardinality(Doomed') \in Nat
      BY <3>3, FS_CardinalityType
    <3>5. Cardinality(Doomed') <= faults'
      BY <1>2, <3>1, <3>2, <3>3, <3>4
    <3> QED
      BY <3>3, <3>5 DEF DoomedBounded
  <2> QED
    BY <1>3, <2>1, <2>2
<1>5. CASE \/ WorkerStep \/ Shutdown \/ Restart \/ UNCHANGED vars
           \/ \E t \in chapterTask : RecordChapter(t)
  BY <1>1, <1>2, <1>3, <1>5, DoomedStay
<1> QED
  BY <1>4, <1>5 DEF Next

(* A manga a handler is through with has a row, but for one manga for each *)
(* failure and those that can be mistaken for another.                     *)
THEOREM UnstoredAreFew == Spec => []UnstoredBounded
<1>1. Init => DoomedBounded
  <2> SUFFICES ASSUME Init PROVE DoomedBounded
    OBVIOUS
  <2>1. Doomed = {}
    BY DEF Init, Doomed, Spending
  <2> QED
    BY <2>1, FS_EmptySet DEF Init, DoomedBounded
<1>2. IInv /\ DoomedBounded => UnstoredBounded
  <2> SUFFICES ASSUME TypeOK, DoomedBounded PROVE UnstoredBounded
    BY DEF IInv
  <2>1. Unstored \subseteq Doomed
    BY DEF Unstored, Doomed, TypeOK
  <2>2. IsFiniteSet(Unstored) /\ Cardinality(Unstored) <= Cardinality(Doomed)
    BY <2>1, FS_Subset DEF DoomedBounded
  <2>3. Cardinality(Unstored) \in Nat /\ Cardinality(Doomed) \in Nat
    BY <2>2, FS_CardinalityType DEF DoomedBounded
  <2>4. faults \in Nat /\ Cardinality(Doomed) <= faults
    BY IntakeAssumption DEF DoomedBounded, TypeOK
  <2> QED
    BY <2>2, <2>3, <2>4 DEF UnstoredBounded
<1>3. IInv /\ IInv' /\ DoomedBounded /\ [Next]_vars => DoomedBounded'
  BY NextDoomed
<1> QED
  BY <1>1, <1>2, <1>3, InvariantHolds, PTL DEF Spec

=============================================================================
