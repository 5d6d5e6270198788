---------------------------- MODULE ChapterWindow ----------------------------
(***************************************************************************)
(* What a manga's chapters become over many visits to its page, while the  *)
(* site goes on publishing.  GetMangaInfo keeps the first three chapters   *)
(* the page lists, the newest on mangapark; handleMangaInfo queues them    *)
(* when the manga is new, handleChapterUpdateInfo queues those of them     *)
(* whose names the chapter table does not have.  Whatever slips through    *)
(* the window between two visits is never seen again.                      *)
(*                                                                         *)
(* The page worker visits a manga one handler at a time (MangaIntake), and *)
(* as a rule once in the life of the process.  Chapters are numbered as    *)
(* they are published.  A queued chapter is recorded in one step, when it  *)
(* suits: how is TaskPipeline's subject.                                   *)
(***************************************************************************)
EXTENDS Naturals, FiniteSets

CONSTANTS
  MaxChapters,  \* of GetMangaInfo
  MaxPublished, \* chapters the site publishes
  Name,         \* chapter names, as SafeChapterNameToS3 leaves them
  ListedName,   \* a chapter's name on the page of the manga
  RowName,      \* its name on its own page, which its row gets
  Part,         \* what GetMangaInfo wants of a page beside its chapters:
                \* genres, authors, a cover, a description, a status
  MaxFaults     \* failures and restarts in a behaviour

Chapter == 1..MaxPublished

ASSUME WindowAssumption ==
  /\ MaxChapters \in Nat \ {0} /\ MaxPublished \in Nat /\ MaxFaults \in Nat
  /\ ListedName \in [Chapter -> Name]
  /\ RowName \in [Chapter -> Name]

VARIABLES
  published, \* chapters on the site
  shown,     \* the parts the page has at present
  stored,    \* the manga has its row
  task,      \* of each chapter, in chapter_task: "none", "queued", or
             \* "orphan", queued under the empty manga id
  recorded,  \* the chapters that have a row
  pc,        \* control of the handler
  kind,      \* what it queues chapters as
  old,       \* oldChapMap
  toQueue,   \* chapters its goroutines have not queued yet
  faults,    \* failures and restarts so far
  seen,      \* history: chapters published when it read the page
  clean,     \* history: the visit has not failed anywhere
  first,     \* history: seen of the first clean visit, 0 before it
  last,      \* history: seen of the last clean visit
  lag        \* history: most chapters between two clean visits

site == <<published, shown>>
tables == <<stored, task, recorded>>
handler == <<pc, kind, old, toQueue, seen, clean>>
history == <<first, last, lag>>
vars == <<site, tables, handler, faults, history>>

Init ==
  /\ published \in Chapter
  /\ shown \in SUBSET Part
  /\ stored = FALSE
  /\ task = [c \in Chapter |-> "none"]
  /\ recorded = {}
  /\ pc = "idle"
  /\ kind = "queued"
  /\ old = {}
  /\ toQueue = {}
  /\ faults = 0
  /\ seen = 0
  /\ clean = TRUE
  /\ first = 0
  /\ last = 0
  /\ lag = 0

Fault == faults < MaxFaults /\ faults' = faults + 1

-----------------------------------------------------------------------------
(* The site.                                                               *)

Publish ==
  /\ published < MaxPublished
  /\ published' = published + 1
  /\ UNCHANGED <<shown, tables, handler, faults, history>>

EditPage ==
  /\ shown' \in SUBSET Part \ {shown}
  /\ UNCHANGED <<published, tables, handler, faults, history>>

-----------------------------------------------------------------------------
(* A visit.                                                                *)

(* The handler ends; a clean visit counts as one.                          *)
Leave(ok) ==
  /\ pc' = "idle" /\ kind' = "queued" /\ old' = {} /\ toQueue' = {}
  /\ seen' = 0 /\ clean' = TRUE
  /\ IF ok
     THEN /\ first' = IF first = 0 THEN seen ELSE first
          /\ lag' = IF first = 0 \/ seen - last <= lag THEN lag ELSE seen - last
          /\ last' = seen
     ELSE UNCHANGED history

(* ExistsMangaByTitle; a failed query reads as "not there".                *)
ExistsMangaByTitle ==
  /\ pc = "idle"
  /\ \/ pc' = (IF stored THEN "names" ELSE "info") /\ UNCHANGED faults
     \/ pc' = "info" /\ Fault
  /\ UNCHANGED <<site, tables, kind, old, toQueue, seen, clean, history>>

(* mangaInfo.Chapters[0:MaxChapters] of the newest first.                  *)
Mut_WindowLessOne ==
  {c \in Chapter : c <= published /\ published < c + MaxChapters - 1}
Window == {c \in Chapter : c <= published /\ published < c + MaxChapters}

(* GetMangaInfo returns an error unless the page has every part.           *)
Parses == shown = Part /\ seen' = published

(* handleMangaInfo parses the page and inserts the manga; the site may     *)
(* change between the two, to no effect.                                   *)
CreateManga ==
  /\ pc = "info" /\ ~stored /\ Parses
  /\ stored' = TRUE
  /\ toQueue' = Window
  /\ pc' = "queue"
  /\ UNCHANGED <<site, task, recorded, kind, old, clean, faults, history>>

(* Its attempts are spent and the last page was parsed, but the insert was *)
(* refused, as manga.title is UNIQUE, or failed, or its answer was lost:   *)
(* the chapters are queued under the empty manga id.                       *)
CreateMangaFails ==
  /\ pc = "info" /\ Parses
  /\ IF stored THEN UNCHANGED <<stored, faults>> ELSE Fault /\ stored' \in BOOLEAN
  /\ kind' = "orphan"
  /\ clean' = FALSE
  /\ toQueue' = Window
  /\ pc' = "queue"
  /\ UNCHANGED <<site, task, recorded, old, history>>

(* GetChaptersNamesByMangaID                                               *)
GetChaptersNames ==
  /\ pc = "names"
  /\ old' = {RowName[c] : c \in recorded}
  /\ pc' = "update"
  /\ UNCHANGED <<site, tables, kind, toQueue, seen, clean, faults, history>>

NewIn(w) == {c \in w : ListedName[c] \notin old}

UpdateParses ==
  /\ pc = "update" /\ Parses
  /\ toQueue' = NewIn(Window)
  /\ pc' = "queue"
  /\ UNCHANGED <<site, tables, kind, old, clean, faults, history>>

(* No attempt got a whole page, or the query of the names failed.  An      *)
(* insert whose answer was lost may be behind.                             *)
GiveUp ==
  /\ pc \in {"info", "names", "update"}
  /\ \/ pc # "names" /\ shown # Part /\ UNCHANGED <<stored, faults>>
     \/ Fault /\ UNCHANGED stored
     \/ Fault /\ pc = "info" /\ stored' = TRUE
  /\ Leave(FALSE)
  /\ UNCHANGED <<site, task, recorded>>

(* ON CONFLICT DO NOTHING, also when the row that is there is an orphan.   *)
Mut_QueuedOverwrites(c) == [task EXCEPT ![c] = kind]
Queued(c) == IF task[c] = "none" THEN [task EXCEPT ![c] = kind] ELSE task

(* An error is only logged.                                                *)
CreateChapterTask ==
  /\ pc = "queue"
  /\ \E c \in toQueue :
       /\ toQueue' = toQueue \ {c}
       /\ \/ task' = Queued(c) /\ UNCHANGED <<clean, faults>>
          \/ task' \in {task, Queued(c)} /\ clean' = FALSE /\ Fault
  /\ UNCHANGED <<site, stored, recorded, pc, kind, old, seen, history>>

HandlerDone ==
  /\ pc = "queue" /\ toQueue = {}
  /\ Leave(clean)
  /\ UNCHANGED <<site, tables, faults>>

(* handleChapter: the row, then the task, which may stay behind.  For an   *)
(* orphan the row is refused.                                              *)
RecordChapter(c) ==
  /\ task[c] = "queued"
  /\ recorded' = recorded \cup {c}
  /\ \/ task' = [task EXCEPT ![c] = "none"] /\ UNCHANGED faults
     \/ UNCHANGED task /\ Fault
  /\ UNCHANGED <<site, stored, handler, history>>

Restart ==
  /\ pc # "idle" /\ Fault
  /\ Leave(FALSE)
  /\ UNCHANGED <<site, tables>>

Next ==
  \/ Publish \/ EditPage
  \/ ExistsMangaByTitle \/ CreateManga \/ CreateMangaFails
  \/ GetChaptersNames \/ UpdateParses \/ GiveUp
  \/ CreateChapterTask \/ HandlerDone
  \/ \E c \in Chapter : RecordChapter(c)
  \/ Restart

Spec == Init /\ [][Next]_vars

-----------------------------------------------------------------------------
(* Properties.                                                             *)

(* The numbers stay in their ranges, and a chapter that is recorded or     *)
(* queued in earnest is a published one of a manga with a row.             *)
TypeOK ==
  /\ published \in Chapter
  /\ shown \subseteq Part
  /\ stored \in BOOLEAN
  /\ task \in [Chapter -> {"none", "queued", "orphan"}]
  /\ recorded \subseteq 1..published
  /\ \A c \in Chapter : task[c] # "none" => c <= published
  /\ pc \in {"idle", "info", "names", "update", "queue"}
  /\ kind \in {"queued", "orphan"}
  /\ old \subseteq Name
  /\ toQueue \subseteq 1..published
  /\ faults \in 0..MaxFaults
  /\ seen \in 0..published
  /\ clean \in BOOLEAN
  /\ first \in 0..last /\ last \in 0..published /\ lag \in 0..last
  /\ recorded # {} \/ (\E c \in Chapter : task[c] = "queued") => stored

(* If the crawler came by in time, that is, with at most MaxChapters new   *)
(* ones between two visits without a failure, it has every chapter from    *)
(* the first visit's window to its last visit: queued or recorded, but for *)
(* one whose name a recorded chapter has, which passes for an old one, and *)
(* one whose url an orphaned task keeps from being queued.                 *)
InTime(c) == first < c + MaxChapters /\ c <= last

LooksOld(c) == \E d \in recorded : RowName[d] = ListedName[c]

IsKept(c) == task[c] # "none" \/ c \in recorded \/ LooksOld(c)

NothingMissed ==
  lag <= MaxChapters => \A c \in Chapter : InTime(c) => IsKept(c)

(* What the proofs add: the names a visit remembers are recorded ones; it  *)
(* goes forward; as long as it is clean it has taken care of what it saw,  *)
(* or still has it to queue; and it queues in earnest only for a manga     *)
(* with a row.                                                             *)
Remembered == old \subseteq {RowName[c] : c \in recorded}

Visited ==
  pc = "queue" =>
    /\ last <= seen
    /\ clean => \A c \in Chapter :
         c <= seen /\ seen < c + MaxChapters => c \in toQueue \/ IsKept(c)

ForStored ==
  /\ pc \in {"names", "update"} => stored
  /\ IF pc = "queue" THEN kind = "queued" => stored ELSE kind = "queued"

IInv == TypeOK /\ ForStored /\ Remembered /\ Visited /\ NothingMissed

(* A chapter that is queued under its manga's id stays the manga's until   *)
(* it is recorded: no later visit that fails to store the manga takes its  *)
(* task over.                                                              *)
QueuedStays ==
  [][\A c \in Chapter : task[c] = "queued" =>
       task'[c] = "queued" \/ c \in recorded']_vars
=============================================================================
