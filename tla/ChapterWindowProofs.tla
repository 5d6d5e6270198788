------------------------- MODULE ChapterWindowProofs -------------------------
(* Theorems about ChapterWindow.                                           *)
EXTENDS ChapterWindow, TLAPS

(* Init establishes the invariant.                                         *)
LEMMA InitIInv == Init => IInv
<1> SUFFICES ASSUME Init PROVE IInv
  OBVIOUS
<1> USE WindowAssumption DEF Init
<1>1. TypeOK
  <2>1. 0 \in 0..MaxFaults /\ 0 \in 0..published /\ 0 \in 0..0
    BY DEF Chapter
  <2>2. task \in [Chapter -> {"none", "queued", "orphan"}]
    OBVIOUS
  <2> QED
    BY <2>1, <2>2 DEF TypeOK
<1>2. Remembered /\ Visited /\ ForStored
  BY DEF Remembered, Visited, ForStored
<1>3. NothingMissed
  BY DEF NothingMissed, InTime, Chapter
<1> QED
  BY <1>1, <1>2, <1>3 DEF IInv

(* A failure is counted within its bound.                                  *)
LEMMA FaultsCounted ==
  ASSUME TypeOK, Fault \/ UNCHANGED faults
  PROVE  faults' \in 0..MaxFaults
BY WindowAssumption DEF TypeOK, Fault

(* The end of a visit leaves the history in order; what a clean visit saw  *)
(* it has taken care of.                                                   *)
LEMMA LeaveKeeps ==
  ASSUME NEW ok, IInv, Leave(ok), ok \in BOOLEAN,
         ok => pc = "queue" /\ clean /\ toQueue = {},
         UNCHANGED <<published, task, recorded>>
  PROVE  /\ pc' = "idle" /\ kind' = "queued" /\ old' = {} /\ toQueue' = {}
         /\ seen' = 0 /\ clean' = TRUE
         /\ first' \in 0..last' /\ last' \in 0..published' /\ lag' \in 0..last'
         /\ NothingMissed'
<1> USE WindowAssumption
<1>1. CASE ~ok
  BY <1>1 DEF Leave, IInv, TypeOK, history, NothingMissed, InTime, IsKept, LooksOld
<1>2. CASE ok
  <2>1. /\ seen \in Nat /\ last \in Nat /\ first \in Nat /\ lag \in Nat
        /\ published \in Nat /\ first <= last /\ last <= seen
        /\ seen <= published /\ lag <= last
    BY <1>2 DEF IInv, TypeOK, Visited, Chapter
  <2>2. /\ first' = IF first = 0 THEN seen ELSE first
        /\ lag' = IF first = 0 \/ seen - last <= lag THEN lag ELSE seen - last
        /\ last' = seen
    BY <1>2 DEF Leave
  <2>3. first' \in 0..last' /\ last' \in 0..published' /\ lag' \in 0..last'
    BY <2>1, <2>2
  <2>4. ASSUME NEW c \in Chapter, lag' <= MaxChapters, InTime(c)'
        PROVE  IsKept(c)'
    <3>1. c \in Nat /\ MaxChapters \in Nat
      BY DEF Chapter
    <3>2. first' < c + MaxChapters /\ c <= seen
      BY <2>2, <2>4 DEF InTime
    <3>3. CASE seen < c + MaxChapters
      <4>1. IsKept(c)
        BY <1>2, <3>2, <3>3 DEF IInv, Visited
      <4> QED
        BY <4>1 DEF IsKept, LooksOld
    <3>4. CASE c + MaxChapters <= seen
      <4>1. first # 0
        BY <2>1, <2>2, <3>1, <3>2, <3>4
      <4>2. lag <= MaxChapters /\ seen - last <= MaxChapters
        BY <2>1, <2>2, <2>4, <3>1, <4>1
      <4>3. InTime(c)
        BY <2>1, <2>2, <3>1, <3>2, <3>4, <4>1, <4>2 DEF InTime
      <4>4. IsKept(c)
        BY <4>2, <4>3 DEF IInv, NothingMissed
      <4> QED
        BY <4>4 DEF IsKept, LooksOld
    <3> QED
      BY <2>1, <3>1, <3>3, <3>4
  <2> QED
    BY <2>3, <2>4 DEF Leave, NothingMissed
<1> QED
  BY <1>1, <1>2

(* A step that leaves the history alone and loses no chapter keeps what    *)
(* the history promises.                                                   *)
LEMMA KeptStays ==
  ASSUME IInv, UNCHANGED history,
         \A c \in Chapter : IsKept(c) => IsKept(c)'
  PROVE  NothingMissed'
BY DEF IInv, NothingMissed, InTime, history

(* The window lies on the site, and reading it is a visit of what the site *)
(* has.                                                                    *)
LEMMA ReadKeeps ==
  ASSUME IInv, Parses, pc' = "queue",
         UNCHANGED <<published, task, recorded, history>>,
         \/ toQueue' = Window
         \/ toQueue' = NewIn(Window)
  PROVE  /\ toQueue' \subseteq 1..published'
         /\ seen' \in 0..published'
         /\ Visited'
<1> USE WindowAssumption
<1>1. published \in Nat /\ seen' = published /\ last <= published
  BY DEF IInv, TypeOK, Chapter, Parses
<1>2. Window \subseteq 1..published
  BY <1>1 DEF Window, Chapter
<1>3. toQueue' \subseteq 1..published' /\ seen' \in 0..published'
  <2>1. NewIn(Window) \subseteq Window
    BY DEF NewIn
  <2>2. toQueue' \subseteq 1..published
    BY <1>2, <2>1
  <2>3. published' = published /\ published \in 0..published
    BY <1>1
  <2> QED
    BY <1>1, <2>2, <2>3
<1>4. last' <= seen'
  BY <1>1 DEF history
<1>5. ASSUME NEW c \in Chapter, c <= seen', seen' < c + MaxChapters,
             c \notin toQueue'
      PROVE  IsKept(c)'
  <2>1. c \in Window
    BY <1>1, <1>5 DEF Window
  <2>2. ListedName[c] \in old
    BY <1>5, <2>1 DEF NewIn
  <2>3. LooksOld(c)
    BY <2>2 DEF IInv, Remembered, LooksOld
  <2> QED
    BY <2>3 DEF IsKept, LooksOld
<1> QED
  BY <1>3, <1>4, <1>5 DEF Visited

(* Every step keeps the invariant.                                         *)
LEMMA NextIInv == IInv /\ [Next]_vars => IInv'
<1> SUFFICES ASSUME IInv, [Next]_vars PROVE IInv'
  OBVIOUS
<1> USE WindowAssumption
<1>1. CASE Publish
  <2>1. TypeOK'
    <3>1. published' = published + 1 /\ published' \in Chapter
          /\ published \in Nat
      BY <1>1 DEF Publish, IInv, TypeOK, Chapter
    <3>2. 1..published \subseteq 1..published' /\ 0..published \subseteq 0..published'
      BY <3>1
    <3> QED
      BY <1>1, <3>1, <3>2
      DEF Publish, IInv, TypeOK, tables, handler, history
  <2>2. ForStored' /\ Remembered' /\ Visited' /\ NothingMissed'
    BY <1>1 DEF Publish, IInv, ForStored, Remembered, Visited, NothingMissed,
                InTime, IsKept, LooksOld, tables, handler, history
  <2> QED
    BY <2>1, <2>2 DEF IInv
<1>2. CASE EditPage
  <2>1. TypeOK'
    BY <1>2 DEF EditPage, IInv, TypeOK, tables, handler, history
  <2>2. ForStored' /\ Remembered' /\ Visited' /\ NothingMissed'
    BY <1>2 DEF EditPage, IInv, ForStored, Remembered, Visited, NothingMissed,
                InTime, IsKept, LooksOld, tables, handler, history
  <2> QED
    BY <2>1, <2>2 DEF IInv
<1>3. CASE ExistsMangaByTitle
  <2>1. pc' \in {"names", "info"} /\ faults' \in 0..MaxFaults
    BY <1>3 DEF ExistsMangaByTitle, Fault, IInv, TypeOK
  <2>2. TypeOK'
    BY <1>3, <2>1
    DEF ExistsMangaByTitle, IInv, TypeOK, site, tables, history
  <2>3. ForStored' /\ Remembered' /\ Visited' /\ NothingMissed'
    BY <1>3, <2>1
    DEF ExistsMangaByTitle, IInv, ForStored, Remembered, Visited, NothingMissed, InTime,
        IsKept, LooksOld, site, tables, history
  <2> QED
    BY <2>2, <2>3 DEF IInv
<1>4. CASE CreateManga
  <2>1. Visited' /\ toQueue' \subseteq 1..published' /\ seen' \in 0..published'
    BY <1>4, ReadKeeps DEF CreateManga, site
  <2>2. TypeOK'
    BY <1>4, <2>1 DEF CreateManga, IInv, TypeOK, site, history
  <2>3. Remembered' /\ ForStored'
    BY <1>4 DEF CreateManga, IInv, Remembered, ForStored
  <2>4. NothingMissed'
    BY <1>4, KeptStays DEF CreateManga, IsKept, LooksOld
  <2> QED
    BY <2>1, <2>2, <2>3, <2>4 DEF IInv
<1>5. CASE CreateMangaFails
  <2>1. Visited' /\ toQueue' \subseteq 1..published' /\ seen' \in 0..published'
    BY <1>5, ReadKeeps DEF CreateMangaFails, site
  <2>2. faults' \in 0..MaxFaults /\ stored' \in BOOLEAN /\ (stored => stored')
    BY <1>5 DEF CreateMangaFails, Fault, IInv, TypeOK
  <2>3. TypeOK'
    BY <1>5, <2>1, <2>2 DEF CreateMangaFails, IInv, TypeOK, site, history
  <2>4. Remembered' /\ ForStored'
    BY <1>5 DEF CreateMangaFails, IInv, Remembered, ForStored
  <2>5. NothingMissed'
    BY <1>5, KeptStays DEF CreateMangaFails, IsKept, LooksOld
  <2> QED
    BY <2>1, <2>3, <2>4, <2>5 DEF IInv
<1>6. CASE GetChaptersNames
  <2>1. old' = {RowName[c] : c \in recorded} /\ recorded \subseteq Chapter
    BY <1>6 DEF GetChaptersNames, IInv, TypeOK, Chapter
  <2>2. old' \subseteq Name
    BY <2>1
  <2>3. TypeOK'
    BY <1>6, <2>2 DEF GetChaptersNames, IInv, TypeOK, site, tables, history
  <2>4. Remembered' /\ Visited' /\ ForStored'
    BY <1>6, <2>1
    DEF GetChaptersNames, IInv, Remembered, Visited, ForStored, tables
  <2>5. NothingMissed'
    BY <1>6, KeptStays DEF GetChaptersNames, IsKept, LooksOld, tables
  <2> QED
    BY <2>3, <2>4, <2>5 DEF IInv
<1>7. CASE UpdateParses
  <2>1. Visited' /\ toQueue' \subseteq 1..published' /\ seen' \in 0..published'
    BY <1>7, ReadKeeps DEF UpdateParses, site, tables
  <2>2. TypeOK'
    BY <1>7, <2>1 DEF UpdateParses, IInv, TypeOK, site, tables, history
  <2>3. Remembered' /\ ForStored'
    BY <1>7 DEF UpdateParses, IInv, Remembered, ForStored, tables
  <2>4. NothingMissed'
    BY <1>7, KeptStays DEF UpdateParses, IsKept, LooksOld, tables
  <2> QED
    BY <2>1, <2>2, <2>3, <2>4 DEF IInv
<1>8. CASE GiveUp
  <2>1. /\ Leave(FALSE) /\ UNCHANGED <<site, task, recorded>>
        /\ faults' \in 0..MaxFaults
        /\ stored' \in BOOLEAN /\ (stored => stored')
    <3>1. Fault \/ UNCHANGED faults
      BY <1>8 DEF GiveUp
    <3>2. stored' = stored \/ stored' = TRUE
      BY <1>8 DEF GiveUp
    <3>3. faults' \in 0..MaxFaults
      BY <3>1, FaultsCounted DEF IInv
    <3>4. stored \in BOOLEAN
      BY DEF IInv, TypeOK
    <3>5. stored' \in BOOLEAN /\ (stored => stored')
      <4>1. CASE stored' = stored
        BY <3>4, <4>1
      <4>2. CASE stored' = TRUE
        BY <4>2
      <4> QED
        BY <3>2, <4>1, <4>2
    <3> QED
      BY <1>8, <3>3, <3>5 DEF GiveUp
  <2>2. /\ pc' = "idle" /\ kind' = "queued" /\ old' = {} /\ toQueue' = {}
        /\ seen' = 0 /\ clean' = TRUE
        /\ first' \in 0..last' /\ last' \in 0..published' /\ lag' \in 0..last'
        /\ NothingMissed'
    BY <2>1, LeaveKeeps DEF site
  <2>3. TypeOK'
    <3>1. 0 \in 0..published
      BY DEF IInv, TypeOK, Chapter
    <3> QED
      BY <2>1, <2>2, <3>1 DEF IInv, TypeOK, site
  <2> QED
    BY <2>2, <2>3 DEF IInv, Remembered, Visited, ForStored
<1>9. CASE CreateChapterTask
  <2>1. PICK c \in toQueue :
          /\ toQueue' = toQueue \ {c}
          /\ \/ task' = Queued(c) /\ UNCHANGED <<clean, faults>>
             \/ task' \in {task, Queued(c)} /\ clean' = FALSE /\ Fault
    BY <1>9 DEF CreateChapterTask
  <2>2. /\ pc = "queue" /\ kind \in {"queued", "orphan"}
        /\ UNCHANGED <<site, stored, recorded, pc, kind, old, seen, history>>
    BY <1>9 DEF CreateChapterTask, IInv, TypeOK
  <2>3. c \in Chapter
    BY DEF IInv, TypeOK, Chapter
  <2>4. faults' \in 0..MaxFaults /\ clean' \in BOOLEAN /\ (clean' => clean)
    <3>1. faults' \in 0..MaxFaults
      BY <2>1, FaultsCounted DEF IInv
    <3>2. clean' = clean \/ clean' = FALSE
      BY <2>1
    <3>3. clean \in BOOLEAN
      BY DEF IInv, TypeOK
    <3>4. clean' \in BOOLEAN /\ (clean' => clean)
      <4>1. CASE clean' = clean
        BY <3>3, <4>1
      <4>2. CASE clean' = FALSE
        BY <4>2
      <4> QED
        BY <3>2, <4>1, <4>2
    <3> QED
      BY <3>1, <3>4
  <2>5. /\ task' \in [Chapter -> {"none", "queued", "orphan"}]
        /\ \A d \in Chapter : task[d] # "none" => task'[d] = task[d]
        /\ \A d \in Chapter : task'[d] = "queued" =>
             task[d] = "queued" \/ kind = "queued"
    BY <2>1, <2>2, <2>3 DEF Queued, IInv, TypeOK
  <2>6. clean' => task'[c] # "none"
    BY <2>1, <2>2, <2>3 DEF Queued, IInv, TypeOK
  <2>7. TypeOK'
    <3>1. \A d \in Chapter : task'[d] = "queued" => stored
      BY <2>2, <2>5 DEF IInv, TypeOK, ForStored
    <3>2. toQueue' \subseteq 1..published
      BY <2>1 DEF IInv, TypeOK
    <3>3. \A d \in Chapter : task'[d] # "none" => d <= published
      BY <2>1, <2>2, <2>3 DEF Queued, IInv, TypeOK, Chapter
    <3> QED
      BY <2>2, <2>4, <2>5, <3>1, <3>2, <3>3 DEF IInv, TypeOK, site, history
  <2>8. ForStored' /\ Remembered'
    BY <2>2 DEF IInv, ForStored, Remembered
  <2>9. Visited'
    BY <2>1, <2>2, <2>3, <2>4, <2>5, <2>6
    DEF IInv, Visited, IsKept, LooksOld, history
  <2>10. NothingMissed'
    BY <2>2, <2>5, KeptStays DEF IsKept, LooksOld
  <2> QED
    BY <2>7, <2>8, <2>9, <2>10 DEF IInv
<1>10. CASE HandlerDone
  <2>1. /\ Leave(clean) /\ UNCHANGED <<site, tables, faults>>
        /\ pc = "queue" /\ toQueue = {} /\ clean \in BOOLEAN
    BY <1>10 DEF HandlerDone, IInv, TypeOK
  <2>2. /\ pc' = "idle" /\ kind' = "queued" /\ old' = {} /\ toQueue' = {}
        /\ seen' = 0 /\ clean' = TRUE
        /\ first' \in 0..last' /\ last' \in 0..published' /\ lag' \in 0..last'
        /\ NothingMissed'
    BY <2>1, LeaveKeeps DEF site, tables
  <2>3. TypeOK'
    <3>1. 0 \in 0..published
      BY DEF IInv, TypeOK, Chapter
    <3> QED
      BY <2>1, <2>2, <3>1 DEF IInv, TypeOK, site, tables
  <2> QED
    BY <2>2, <2>3 DEF IInv, Remembered, Visited, ForStored
<1>11. ASSUME NEW c \in Chapter, RecordChapter(c)
       PROVE  IInv'
  <2>1. /\ task[c] = "queued" /\ recorded' = recorded \cup {c}
        /\ task' \in {task, [task EXCEPT ![c] = "none"]}
        /\ UNCHANGED <<site, stored, handler, history>>
        /\ faults' \in 0..MaxFaults
    <3>1. Fault \/ UNCHANGED faults
      BY <1>11 DEF RecordChapter
    <3>2. faults' \in 0..MaxFaults
      BY <3>1, FaultsCounted DEF IInv
    <3> QED
      BY <1>11, <3>2 DEF RecordChapter
  <2>2. /\ task' \in [Chapter -> {"none", "queued", "orphan"}]
        /\ \A d \in Chapter : task'[d] = task[d] \/ (d = c /\ task'[d] = "none")
    <3>1. task \in [Chapter -> {"none", "queued", "orphan"}]
      BY DEF IInv, TypeOK
    <3>2. CASE task' = task
      BY <3>1, <3>2
    <3>3. CASE task' = [task EXCEPT ![c] = "none"]
      BY <3>1, <3>3
    <3> QED
      BY <2>1, <3>2, <3>3
  <2>3. stored /\ c \in 1..published
    BY <2>1 DEF IInv, TypeOK, Chapter
  <2>4. TypeOK'
    <3>1. \A d \in Chapter : task'[d] # "none" => d <= published
      BY <2>2 DEF IInv, TypeOK
    <3>2. recorded' \subseteq 1..published
      BY <2>1, <2>3 DEF IInv, TypeOK
    <3> QED
      BY <2>1, <2>2, <2>3, <3>1, <3>2 DEF IInv, TypeOK, site, handler, history
  <2>5. ForStored' /\ Remembered'
    BY <2>1 DEF IInv, ForStored, Remembered, handler
  <2>6. \A d \in Chapter : IsKept(d) => IsKept(d)'
    BY <2>1, <2>2 DEF IsKept, LooksOld
  <2>7. Visited'
    BY <2>1, <2>6 DEF IInv, Visited, handler, history
  <2>8. NothingMissed'
    BY <2>1, <2>6, KeptStays
  <2> QED
    BY <2>4, <2>5, <2>7, <2>8 DEF IInv
<1>12. CASE Restart
  <2>1. /\ Leave(FALSE) /\ UNCHANGED <<site, tables>>
        /\ faults' \in 0..MaxFaults
    BY <1>12, FaultsCounted DEF Restart, IInv
  <2>2. /\ pc' = "idle" /\ kind' = "queued" /\ old' = {} /\ toQueue' = {}
        /\ seen' = 0 /\ clean' = TRUE
        /\ first' \in 0..last' /\ last' \in 0..published' /\ lag' \in 0..last'
        /\ NothingMissed'
    BY <2>1, LeaveKeeps DEF site, tables
  <2>3. TypeOK'
    <3>1. 0 \in 0..published
      BY DEF IInv, TypeOK, Chapter
    <3> QED
      BY <2>1, <2>2, <3>1 DEF IInv, TypeOK, site, tables
  <2> QED
    BY <2>2, <2>3 DEF IInv, Remembered, Visited, ForStored
<1>13. CASE UNCHANGED vars
  BY <1>13 DEF vars, site, tables, handler, history, IInv, TypeOK, ForStored,
               Remembered, Visited, NothingMissed, InTime, IsKept, LooksOld
<1> QED
  BY <1>1, <1>2, <1>3, <1>4, <1>5, <1>6, <1>7, <1>8, <1>9, <1>10, <1>11, <1>12,
     <1>13 DEF Next

(* The invariant holds throughout.                                         *)
THEOREM Invariance == Spec => []IInv
BY InitIInv, NextIInv, PTL DEF Spec

(* Type correctness.                                                       *)
THEOREM TypeCorrect == Spec => []TypeOK
BY Invariance, PTL DEF IInv

(* A crawler that comes by in time misses nothing, but for look-alikes and *)
(* orphans.                                                                *)
THEOREM InTimeMissesNothing == Spec => []NothingMissed
BY Invariance, PTL DEF IInv

(* A task queued under its manga's id is not taken over.                   *)
THEOREM QueuedTasksStay == Spec => QueuedStays
<1>1. ASSUME IInv, [Next]_vars, NEW c \in Chapter, task[c] = "queued"
      PROVE  task'[c] = "queued" \/ c \in recorded'
  <2>1. CASE CreateChapterTask
    <3>1. task' = task \/ \E d \in toQueue : task' = Queued(d)
      BY <2>1 DEF CreateChapterTask
    <3>2. ASSUME NEW d \in toQueue, task' = Queued(d) PROVE task'[c] = task[c]
      BY <1>1, <3>2 DEF Queued, IInv, TypeOK
    <3> QED
      BY <1>1, <3>1, <3>2
  <2>2. ASSUME NEW d \in Chapter, RecordChapter(d)
        PROVE  task'[c] = "queued" \/ c \in recorded'
    BY <1>1, <2>2 DEF RecordChapter, IInv, TypeOK
  <2>3. CASE UNCHANGED task
    BY <1>1, <2>3
  <2> QED
    BY <1>1, <2>1, <2>2, <2>3
    DEF Next, Publish, EditPage, ExistsMangaByTitle, CreateManga,
        CreateMangaFails, GetChaptersNames, UpdateParses, GiveUp, HandlerDone,
        Restart, tables, vars
<1>2. IInv /\ [Next]_vars =>
        [\A c \in Chapter : task[c] = "queued" =>
           task'[c] = "queued" \/ c \in recorded']_vars
  BY <1>1
<1> QED
  BY <1>2, Invariance, PTL DEF Spec, QueuedStays
=============================================================================
