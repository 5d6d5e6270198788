-------------------------- MODULE TaskPipelineProofs --------------------------
(***************************************************************************)
(* Theorems about TaskPipeline, for every set of chapters and images,      *)
(* every content of the pages and any number of faults and restarts.       *)
(***************************************************************************)
EXTENDS TaskPipeline, SequenceTheorems, FiniteSetTheorems, TLAPS

-----------------------------------------------------------------------------
(* Facts about the tables.                                                 *)

(* What is queued for an image of a page is a task.                        *)
LEMMA TaskOfType ==
  ASSUME NEW c \in ChapterUrl, NEW p \in Pages[c], NEW i \in 1..Len(p.images)
  PROVE  TaskOf(c, p, i) \in ImgTask
<1>1. p \in Page /\ MangaOf[c] \in MangaId
  BY PipelineAssumption
<1>2. p.images[i] \in Image /\ p.name \in Name
  BY <1>1 DEF Page
<1>3. i \in Idx
  BY PageAssumption, PipelineAssumption DEF Idx
<1> QED
  BY <1>1, <1>2, <1>3 DEF TaskOf, ImgTask

(* So is what a handler queues for an image of the page it parsed.         *)
LEMMA ImgTaskForType ==
  ASSUME TypeOK, NEW c \in ChapterUrl, page[c] \in Pages[c],
         NEW i \in 1..Len(page[c].images)
  PROVE  ImgTaskFor(c, i) \in ImgTask
BY TaskOfType DEF ImgTaskFor

(* A task has a key.                                                       *)
LEMMA KeyType == \A t \in ImgTask : KeyOf(t) \in Key
BY DEF KeyOf, ImgTask, Key

(* The insert keeps the url unique and every row there was.                *)
LEMMA InsertedType ==
  ASSUME TypeOK, NEW t \in ImgTask
  PROVE  /\ Inserted(t) \subseteq ImgTask
         /\ \A r, q \in Inserted(t) : r.url = q.url => r = q
         /\ imgTask \subseteq Inserted(t)
BY DEF TypeOK, Inserted

(* The insert of a chapter appends an empty row.                           *)
LEMMA NewRowType ==
  ASSUME TypeOK, NEW c \in ChapterUrl, page[c] \in Pages[c],
         MangaOf[c] # NoManga
  PROVE  NewRow(c) \in Row
<1>1. MangaOf[c] \in Manga
  BY PipelineAssumption DEF MangaId
<1>2. page[c].name \in Name
  BY PipelineAssumption DEF Page
<1>3. [i \in Idx |-> 0] \in [Idx -> Nat]
  OBVIOUS
<1> QED
  BY <1>1, <1>2, <1>3 DEF NewRow, Row

(* The update changes no more than the counters of the image's entries.    *)
LEMMA AppendedType ==
  ASSUME TypeOK, NEW t \in ImgTask
  PROVE  /\ Appended(t) \in Seq(Row)
         /\ DOMAIN Appended(t) = DOMAIN chapter
         /\ \A n \in DOMAIN chapter :
              /\ Appended(t)[n].manga = chapter[n].manga
              /\ Appended(t)[n].name = chapter[n].name
              /\ \A i \in Idx :
                   \/ Appended(t)[n].imgs[i] = chapter[n].imgs[i]
                   \/ /\ i = t.idx
                      /\ chapter[n].manga = t.manga
                      /\ chapter[n].name = t.chapter
<1>1. chapter \in Seq(Row) /\ DOMAIN chapter = 1..Len(chapter)
  BY DEF TypeOK
<1>2. t.idx \in Idx
  BY DEF ImgTask
<1>3. ASSUME NEW n \in DOMAIN chapter
      PROVE  /\ Appended(t)[n] \in Row
             /\ Appended(t)[n].manga = chapter[n].manga
             /\ Appended(t)[n].name = chapter[n].name
             /\ \A i \in Idx :
                  \/ Appended(t)[n].imgs[i] = chapter[n].imgs[i]
                  \/ /\ i = t.idx
                     /\ chapter[n].manga = t.manga
                     /\ chapter[n].name = t.chapter
  <2>1. chapter[n] \in Row
    BY <1>1
  <2>2. [chapter[n] EXCEPT !.imgs[t.idx] = @ + 1] \in Row
    BY <2>1, <1>2 DEF Row
  <2> QED
    BY <2>1, <2>2, <1>2 DEF Appended, Row
<1>4. Appended(t) \in Seq(Row)
  BY <1>1, <1>3 DEF Appended
<1> QED
  BY <1>3, <1>4 DEF Appended

-----------------------------------------------------------------------------
(* Type correctness.                                                       *)

(* The tables and the handlers are well typed at the start.                *)
LEMMA InitTypeOK == Init => TypeOK
<1> SUFFICES ASSUME Init PROVE TypeOK
  OBVIOUS
<1>1. chapter \in Seq(Row) /\ faults \in 0..MaxFaults
  BY PipelineAssumption DEF Init
<1>2. bucket \in [Key -> Image \cup {Nothing}]
  BY DEF Init
<1> QED
  BY <1>1, <1>2 DEF Init, TypeOK

(* A fault is counted.                                                     *)
LEMMA FaultsType ==
  ASSUME TypeOK, Succeeds \/ Fails \/ UNCHANGED faults
  PROVE  faults' \in 0..MaxFaults
BY PipelineAssumption DEF TypeOK, Succeeds, Fails

(* Every step of handleChapter keeps the types.                            *)
LEMMA ChapterTypeOK ==
  ASSUME TypeOK, NEW c \in ChapterUrl, ChapterStep(c)
  PROVE  TypeOK'
<1> USE DEF TypeOK
<1> USE FaultsType
<1>1. CASE EnterChapter(c)
  BY <1>1 DEF EnterChapter, tables, imgVars, HasTask
<1>2. CASE GetImgFromChapter(c)
  <2>1. PICK p \in Pages[c] :
          /\ page' = [page EXCEPT ![c] = p]
          /\ toQueue' = [toQueue EXCEPT ![c] = 1..Len(p.images)]
    BY <1>2 DEF GetImgFromChapter
  <2>2. p \in Page
    BY PipelineAssumption
  <2>3. 1..Len(p.images) \subseteq Idx
    BY PageAssumption, PipelineAssumption DEF Idx
  <2>4. /\ chapterPc[c] = "fetch" /\ chapterPc' = [chapterPc EXCEPT ![c] = "queue"]
        /\ faults' \in 0..MaxFaults
        /\ UNCHANGED <<known, chapterTask, imgTask, chapter, bucket, imgPc,
                       imgJob, tmDone, refused>>
    BY <1>2 DEF GetImgFromChapter, tables, imgVars
  <2> QED
    BY <2>1, <2>2, <2>3, <2>4 DEF HasTask
<1>3. CASE ChapterFetchFails(c)
  BY <1>3 DEF ChapterFetchFails, ReleaseChapter, tables, imgVars, HasTask
<1>4. CASE CreateImgTask(c)
  <2>1. PICK i \in toQueue[c] :
          /\ toQueue' = [toQueue EXCEPT ![c] = @ \ {i}]
          /\ imgTask' \in {imgTask, Inserted(ImgTaskFor(c, i))}
          /\ Succeeds \/ Fails
          /\ refused' \in {refused, refused \cup {ImgTaskFor(c, i)}}
    BY <1>4 DEF CreateImgTask, Left
  <2>2. page[c] \in Pages[c] /\ i \in 1..Len(page[c].images)
    BY <1>4, <2>1 DEF CreateImgTask
  <2>3. ImgTaskFor(c, i) \in ImgTask
    BY <2>2, ImgTaskForType
  <2>4. /\ imgTask' \subseteq ImgTask
        /\ \A t, r \in imgTask' : t.url = r.url => t = r
        /\ imgTask \subseteq imgTask'
    BY <2>1, <2>3, InsertedType
  <2>5. \A x \in Image :
          IF imgPc[x] = "off" THEN imgJob[x] = NoJob
          ELSE imgJob[x] \in imgTask' /\ imgJob[x].url = x
    BY <2>4
  <2>6. faults' \in 0..MaxFaults
    BY <2>1
  <2>7. UNCHANGED <<known, chapterTask, chapter, bucket, chapterPc, page,
                    imgPc, imgJob, tmDone>>
    BY <1>4 DEF CreateImgTask, imgVars
  <2> QED
    BY <1>4, <2>1, <2>3, <2>4, <2>5, <2>6, <2>7 DEF CreateImgTask, HasTask
<1>5. CASE AllQueued(c)
  BY <1>5 DEF AllQueued, tables, imgVars, HasTask
<1>6. CASE CreateChapter(c)
  <2>1. NewRow(c) \in Row
    BY <1>6, NewRowType DEF CreateChapter
  <2>2. chapter' \in Seq(Row)
    BY <1>6, <2>1 DEF CreateChapter
  <2> QED
    BY <1>6, <2>2 DEF CreateChapter, imgVars, HasTask
<1>7. CASE CreateChapterFails(c)
  <2>1. chapter' \in Seq(Row)
    BY <1>7, NewRowType DEF CreateChapterFails, Left
  <2>2. faults' \in 0..MaxFaults
    BY <1>7 DEF CreateChapterFails
  <2> QED
    BY <1>7, <2>1, <2>2 DEF CreateChapterFails, ReleaseChapter, imgVars, HasTask
<1>8. CASE DeleteChapterTask(c)
  <2>1. chapterTask' \in {chapterTask, WithoutTask(c)} /\ faults' \in 0..MaxFaults
    BY <1>8 DEF DeleteChapterTask, Left
  <2>2. \A d \in ChapterUrl \ {c} : HasTask(d) => HasTask(d)'
    BY <2>1 DEF HasTask, WithoutTask
  <2>3. chapterTask' \subseteq {[url |-> d, manga |-> MangaOf[d]] : d \in known}
    BY <2>1 DEF WithoutTask
  <2> QED
    BY <1>8, <2>1, <2>2, <2>3 DEF DeleteChapterTask, ReleaseChapter, imgVars
<1> QED
  BY <1>1, <1>2, <1>3, <1>4, <1>5, <1>6, <1>7, <1>8 DEF ChapterStep

(* Every step of handleImage keeps the types.                              *)
LEMMA ImageTypeOK ==
  ASSUME TypeOK, NEW x \in Image, ImageStep(x)
  PROVE  TypeOK'
<1> USE DEF TypeOK
<1> USE FaultsType
<1>1. CASE EnterImage(x)
  BY <1>1 DEF EnterImage, tables, chapterVars, HasTask
<1>2. CASE FetchImage(x)
  BY <1>2 DEF FetchImage, tables, chapterVars, HasTask
<1>3. CASE ImageFetchFails(x)
  BY <1>3 DEF ImageFetchFails, ReleaseImage, tables, chapterVars, HasTask
<1>4. CASE UploadImgToS3(x) \/ UploadFails(x)
  <2>1. bucket' \in {bucket, Stored(x)} /\ faults' \in 0..MaxFaults
    BY <1>4 DEF UploadImgToS3, UploadFails, Left
  <2>2. bucket' \in [Key -> Image \cup {Nothing}]
    BY <2>1 DEF Stored
  <2> QED
    BY <1>4, <2>1, <2>2
       DEF UploadImgToS3, UploadFails, ReleaseImage, chapterVars, HasTask
<1>5. CASE UpdateChapterImgByIndex(x)
  <2>1. imgJob[x] \in ImgTask
    BY <1>5 DEF UpdateChapterImgByIndex
  <2>2. chapter' \in {chapter, Appended(imgJob[x])} /\ faults' \in 0..MaxFaults
    BY <1>5 DEF UpdateChapterImgByIndex, Left
  <2>3. chapter' \in Seq(Row)
    BY <2>1, <2>2, AppendedType
  <2> QED
    BY <1>5, <2>2, <2>3 DEF UpdateChapterImgByIndex, chapterVars, HasTask
<1>6. CASE DeleteImgTask(x)
  <2>1. imgTask' \in {imgTask, WithoutImgTask(x)} /\ faults' \in 0..MaxFaults
    BY <1>6 DEF DeleteImgTask, Left
  <2>2. /\ imgTask' \subseteq imgTask
        /\ \A t \in imgTask : t.url # x => t \in imgTask'
    BY <2>1 DEF WithoutImgTask
  <2> QED
    BY <1>6, <2>1, <2>2 DEF DeleteImgTask, ReleaseImage, chapterVars, HasTask
<1> QED
  BY <1>1, <1>2, <1>3, <1>4, <1>5, <1>6 DEF ImageStep

(* Every step keeps the types.                                             *)
LEMMA NextTypeOK == TypeOK /\ [Next]_vars => TypeOK'
<1> SUFFICES ASSUME TypeOK, [Next]_vars PROVE TypeOK'
  OBVIOUS
<1> USE DEF TypeOK
<1>1. ASSUME NEW c \in ChapterUrl, CreateChapterTask(c) \/ QueueAgain(c)
      PROVE  TypeOK'
  <2>1. /\ chapterTask \subseteq chapterTask'
        /\ chapterTask' \subseteq
             {[url |-> d, manga |-> MangaOf[d]] : d \in known'}
    BY <1>1 DEF CreateChapterTask, QueueAgain
  <2>2. \A d \in ChapterUrl : HasTask(d) => HasTask(d)'
    BY <2>1 DEF HasTask
  <2>3. faults' \in 0..MaxFaults /\ known' \subseteq ChapterUrl
    BY <1>1, PipelineAssumption DEF CreateChapterTask, QueueAgain
  <2> QED
    BY <1>1, <2>1, <2>2, <2>3
    DEF CreateChapterTask, QueueAgain, chapterVars, imgVars
<1>2. CASE GetChapterTasks
  BY <1>2 DEF GetChapterTasks, tables, imgVars, HasTask
<1>3. CASE GetImgTasks
  BY <1>3 DEF GetImgTasks, tables, chapterVars, HasTask
<1>4. CASE Cancel
  BY <1>4 DEF Cancel, tables, chapterVars, imgVars, HasTask
<1>5. CASE Restart
  <2>1. faults' \in 0..MaxFaults
    BY <1>5, PipelineAssumption DEF Restart
  <2>2. /\ page' \in [ChapterUrl -> Page \cup {NoPage}]
        /\ toQueue' \in [ChapterUrl -> SUBSET Idx]
        /\ imgJob' \in [Image -> ImgTask \cup {NoJob}]
    BY <1>5 DEF Restart
  <2>3. /\ chapterPc' = [c \in ChapterUrl |-> "off"]
        /\ imgPc' = [x \in Image |-> "off"]
        /\ page' = [c \in ChapterUrl |-> NoPage]
        /\ toQueue' = [c \in ChapterUrl |-> {}]
        /\ imgJob' = [x \in Image |-> NoJob]
        /\ tmDone' = FALSE
        /\ UNCHANGED <<known, chapterTask, imgTask, chapter, bucket, refused>>
    BY <1>5 DEF Restart, tables
  <2> QED
    BY <2>1, <2>2, <2>3
<1>6. CASE UNCHANGED vars
  BY <1>6 DEF vars, tables, chapterVars, imgVars, HasTask
<1> QED
  BY <1>1, <1>2, <1>3, <1>4, <1>5, <1>6, ChapterTypeOK, ImageTypeOK DEF Next

(* The tables keep their shape and their unique urls, and a handler works  *)
(* on a row that is still there.                                           *)
THEOREM TypeCorrect == Spec => []TypeOK
<1> QED
  BY InitTypeOK, NextTypeOK, PTL DEF Spec

-----------------------------------------------------------------------------
(* What each step may do to the tables.                                    *)

(* Only the upload writes the bucket.                                      *)
LEMMA BucketSteps ==
  ASSUME [Next]_vars
  PROVE  \/ UNCHANGED bucket
         \/ \E x \in Image : UploadImgToS3(x) \/ UploadFails(x)
BY DEF Next, ChapterStep, ImageStep, CreateChapterTask, QueueAgain,
   EnterChapter,
   GetImgFromChapter, ChapterFetchFails, CreateImgTask, AllQueued,
   CreateChapter, CreateChapterFails, DeleteChapterTask, EnterImage,
   FetchImage, ImageFetchFails, UpdateChapterImgByIndex, DeleteImgTask,
   GetChapterTasks, GetImgTasks, Cancel, Restart, vars, tables

(* Nothing is ever deleted from the bucket.                                *)
LEMMA StoredStays ==
  ASSUME TypeOK, [Next]_vars, NEW k \in Key, bucket[k] # Nothing
  PROVE  bucket'[k] # Nothing
<1>1. ASSUME NEW x \in Image, UploadImgToS3(x) \/ UploadFails(x)
      PROVE  bucket'[k] # Nothing
  <2>1. bucket' = bucket \/ bucket' = Stored(x)
    BY <1>1 DEF UploadImgToS3, UploadFails, Left
  <2> QED
    BY <2>1, PipelineAssumption DEF Stored, TypeOK
<1> QED
  BY <1>1, BucketSteps

(* Only handleChapter inserts rows and only handleImage updates them.      *)
LEMMA ChapterSteps ==
  ASSUME [Next]_vars
  PROVE  \/ UNCHANGED chapter
         \/ \E c \in ChapterUrl : CreateChapter(c) \/ CreateChapterFails(c)
         \/ \E x \in Image : UpdateChapterImgByIndex(x)
BY DEF Next, ChapterStep, ImageStep, CreateChapterTask, QueueAgain,
   EnterChapter,
   GetImgFromChapter, ChapterFetchFails, CreateImgTask, AllQueued,
   DeleteChapterTask, EnterImage, FetchImage, ImageFetchFails, UploadImgToS3,
   UploadFails, DeleteImgTask, GetChapterTasks, GetImgTasks, Cancel, Restart,
   vars, tables

(* Rows are neither deleted nor renamed.                                   *)
LEMMA RowsStay ==
  ASSUME TypeOK, [Next]_vars, NEW m, NEW name, HasRow(m, name)
  PROVE  HasRow(m, name)'
<1>1. ASSUME NEW c \in ChapterUrl, CreateChapter(c) \/ CreateChapterFails(c)
      PROVE  HasRow(m, name)'
  <2>1. chapter' = chapter \/ chapter' = Append(chapter, NewRow(c))
    BY <1>1 DEF CreateChapter, CreateChapterFails, Left
  <2>2. chapter \in Seq(Row)
    BY DEF TypeOK
  <2> QED
    BY <2>1, <2>2 DEF HasRow
<1>2. ASSUME NEW x \in Image, UpdateChapterImgByIndex(x)
      PROVE  HasRow(m, name)'
  <2>1. imgJob[x] \in ImgTask
    BY <1>2 DEF UpdateChapterImgByIndex, TypeOK
  <2>2. chapter' = chapter \/ chapter' = Appended(imgJob[x])
    BY <1>2 DEF UpdateChapterImgByIndex, Left
  <2> QED
    BY <2>1, <2>2, AppendedType DEF HasRow
<1> QED
  BY <1>1, <1>2, ChapterSteps DEF HasRow

(* Image tasks are inserted by handleChapter and deleted by handleImage.   *)
LEMMA ImgTaskSteps ==
  ASSUME [Next]_vars
  PROVE  \/ UNCHANGED <<imgTask, refused>>
         \/ \E c \in ChapterUrl : CreateImgTask(c)
         \/ \E x \in Image : DeleteImgTask(x)
BY DEF Next, ChapterStep, ImageStep, CreateChapterTask, QueueAgain,
   EnterChapter,
   GetImgFromChapter, ChapterFetchFails, AllQueued, CreateChapter,
   CreateChapterFails, DeleteChapterTask, EnterImage, FetchImage,
   ImageFetchFails, UploadImgToS3, UploadFails, UpdateChapterImgByIndex,
   GetChapterTasks, GetImgTasks, Cancel, Restart, vars, tables

(* The task handleImage deletes is its own, and its object is stored.      *)
LEMMA DeletedIsStored ==
  ASSUME TypeOK, Uploaded, [Next]_vars, NEW t \in imgTask, t \notin imgTask'
  PROVE  IsStored(t)
<1>1. ASSUME NEW c \in ChapterUrl, CreateImgTask(c) PROVE FALSE
  <2>1. imgTask \subseteq imgTask'
    BY <1>1 DEF CreateImgTask, Left, Inserted
  <2> QED
    BY <2>1
<1>2. ASSUME NEW x \in Image, DeleteImgTask(x) PROVE IsStored(t)
  <2>1. t.url = x /\ imgPc[x] = "retire"
    BY <1>2 DEF DeleteImgTask, Left, WithoutImgTask
  <2>2. imgJob[x] = t
    BY <2>1 DEF TypeOK
  <2> QED
    BY <2>1, <2>2 DEF Uploaded
<1> QED
  BY <1>1, <1>2, ImgTaskSteps

(* What is accounted for stays so.                                         *)
LEMMA AccountedStays ==
  ASSUME TypeOK, Uploaded, [Next]_vars, NEW t \in ImgTask, IsAccountedFor(t)
  PROVE  IsAccountedFor(t)'
<1>1. CASE IsStored(t)
  BY <1>1, StoredStays, KeyType DEF IsStored, IsAccountedFor
<1>2. CASE t \in imgTask
  <2>1. CASE t \in imgTask'
    BY <2>1 DEF IsAccountedFor
  <2>2. CASE t \notin imgTask'
    <3>1. IsStored(t)
      BY <1>2, <2>2, DeletedIsStored
    <3> QED
      BY <3>1, StoredStays, KeyType DEF IsStored, IsAccountedFor
  <2> QED
    BY <2>1, <2>2
<1>3. CASE t \in refused
  <2>1. t \in refused'
    BY <1>3, ImgTaskSteps DEF CreateImgTask, DeleteImgTask
  <2> QED
    BY <2>1 DEF IsAccountedFor
<1> QED
  BY <1>1, <1>2, <1>3 DEF IsAccountedFor

-----------------------------------------------------------------------------
(* The parts of the inductive invariant.                                   *)

(* A handler goes past the upload only after it succeeded.                 *)
LEMMA NextUploaded == TypeOK /\ Uploaded /\ [Next]_vars => Uploaded'
<1> SUFFICES ASSUME TypeOK, Uploaded, [Next]_vars,
                    NEW x \in Image, imgPc'[x] \in {"append", "retire"}
             PROVE  IsStored(imgJob[x])'
  BY DEF Uploaded
<1>1. CASE imgPc[x] \in {"append", "retire"} /\ imgJob'[x] = imgJob[x]
  <2>1. imgJob[x] \in ImgTask /\ IsStored(imgJob[x])
    BY <1>1 DEF Uploaded, TypeOK
  <2> QED
    BY <1>1, <2>1, StoredStays, KeyType DEF IsStored
<1>2. CASE UploadImgToS3(x)
  <2>1. imgJob[x] \in ImgTask
    BY <1>2 DEF UploadImgToS3, TypeOK
  <2>2. bucket' = Stored(x) /\ imgJob' = imgJob
    BY <1>2 DEF UploadImgToS3
  <2> QED
    BY <2>1, <2>2, KeyType, PipelineAssumption DEF Stored, IsStored, TypeOK
<1>3. CASE ~UploadImgToS3(x)
  <2>1. ASSUME NEW z \in Image, ImageStep(z)
        PROVE  imgPc[x] \in {"append", "retire"} /\ imgJob'[x] = imgJob[x]
    BY <2>1, <1>3 DEF ImageStep, EnterImage, FetchImage, ImageFetchFails,
       UploadImgToS3, UploadFails, UpdateChapterImgByIndex, DeleteImgTask,
       ReleaseImage, TypeOK
  <2>2. ASSUME NEW c \in ChapterUrl,
               CreateChapterTask(c) \/ QueueAgain(c) \/ ChapterStep(c)
        PROVE  UNCHANGED imgVars
    BY <2>2 DEF CreateChapterTask, QueueAgain, ChapterStep, EnterChapter,
       GetImgFromChapter, ChapterFetchFails, CreateImgTask, AllQueued,
       CreateChapter, CreateChapterFails, DeleteChapterTask
  <2>3. CASE GetChapterTasks \/ Cancel \/ UNCHANGED vars
    BY <2>3, <1>1 DEF GetChapterTasks, Cancel, vars, imgVars
  <2>4. CASE GetImgTasks \/ Restart
    BY <2>4 DEF GetImgTasks, Restart
  <2> QED
    BY <2>1, <2>2, <2>3, <2>4, <1>1 DEF Next, imgVars
<1> QED
  BY <1>2, <1>3

(* A row starts with no entries and gets one only for a stored object.     *)
LEMMA NextNoDangling ==
  TypeOK /\ Uploaded /\ NoDanglingEntry /\ [Next]_vars => NoDanglingEntry'
<1> SUFFICES ASSUME TypeOK, Uploaded, NoDanglingEntry, [Next]_vars
             PROVE  NoDanglingEntry'
  OBVIOUS
<1> DEFINE Place(row, i) ==
             [manga |-> row.manga, chapter |-> row.name, idx |-> i]
<1>1. chapter \in Seq(Row)
  BY DEF TypeOK
<1>2. \A row \in Row, i \in Idx : Place(row, i) \in Key
  BY DEF Row, Key, MangaId
<1>3. CASE UNCHANGED chapter
  BY <1>1, <1>2, <1>3, StoredStays DEF NoDanglingEntry
<1>4. ASSUME NEW c \in ChapterUrl, CreateChapter(c) \/ CreateChapterFails(c)
      PROVE  NoDanglingEntry'
  <2>1. chapter' = chapter \/ chapter' = Append(chapter, NewRow(c))
    BY <1>4 DEF CreateChapter, CreateChapterFails, Left
  <2>2. CASE chapter' = Append(chapter, NewRow(c))
    <3> SUFFICES ASSUME NEW n \in DOMAIN chapter', NEW i \in Idx,
                        chapter'[n].imgs[i] > 0
                 PROVE  bucket'[Place(chapter'[n], i)] # Nothing
      BY DEF NoDanglingEntry
    <3>1. NewRow(c).imgs[i] = 0
      BY DEF NewRow
    <3>2. n \in DOMAIN chapter /\ chapter'[n] = chapter[n]
      BY <1>1, <2>2, <3>1
    <3> QED
      BY <1>1, <1>2, <3>2, StoredStays DEF NoDanglingEntry
  <2> QED
    BY <1>3, <2>1, <2>2
<1>5. ASSUME NEW x \in Image, UpdateChapterImgByIndex(x)
      PROVE  NoDanglingEntry'
  <2> DEFINE t == imgJob[x]
  <2>1. t \in ImgTask /\ IsStored(t)
    BY <1>5 DEF UpdateChapterImgByIndex, TypeOK, Uploaded
  <2>2. chapter' = chapter \/ chapter' = Appended(t)
    BY <1>5 DEF UpdateChapterImgByIndex, Left
  <2>3. CASE chapter' = Appended(t)
    <3> SUFFICES ASSUME NEW n \in DOMAIN chapter', NEW i \in Idx,
                        chapter'[n].imgs[i] > 0
                 PROVE  bucket'[Place(chapter'[n], i)] # Nothing
      BY DEF NoDanglingEntry
    <3>1. /\ n \in DOMAIN chapter
          /\ chapter'[n].manga = chapter[n].manga
          /\ chapter'[n].name = chapter[n].name
          /\ \/ chapter'[n].imgs[i] = chapter[n].imgs[i]
             \/ /\ i = t.idx
                /\ chapter[n].manga = t.manga
                /\ chapter[n].name = t.chapter
      BY <2>1, <2>3, AppendedType
    <3>2. Place(chapter'[n], i) = Place(chapter[n], i)
      BY <3>1
    <3>3. Place(chapter[n], i) \in Key
      BY <1>1, <1>2, <3>1
    <3>4. bucket[Place(chapter[n], i)] # Nothing
      <4>1. CASE chapter'[n].imgs[i] = chapter[n].imgs[i]
        BY <3>1, <4>1 DEF NoDanglingEntry
      <4>2. CASE /\ i = t.idx
                 /\ chapter[n].manga = t.manga
                 /\ chapter[n].name = t.chapter
        BY <2>1, <4>2 DEF IsStored, KeyOf
      <4> QED
        BY <3>1, <4>1, <4>2
    <3> QED
      BY <3>2, <3>3, <3>4, StoredStays
  <2> QED
    BY <1>3, <2>2, <2>3
<1> QED
  BY <1>3, <1>4, <1>5, ChapterSteps

(* What handleChapter did not leave to its goroutines any more was queued, *)
(* refused, or had been stored before.                                     *)
LEMMA NextAccounted ==
  TypeOK /\ Uploaded /\ Accounted /\ [Next]_vars => Accounted'
<1> SUFFICES ASSUME TypeOK, Uploaded, Accounted, [Next]_vars,
                    NEW c \in ChapterUrl, NEW i \in 1..Len(page'[c].images),
                    i \notin toQueue'[c]
             PROVE  IsAccountedFor(ImgTaskFor(c, i))'
  BY DEF Accounted
<1>1. page'[c].images # <<>>
  OBVIOUS
<1>2. CASE page'[c] = page[c] /\ i \notin toQueue[c]
  <2>1. page[c] \in Pages[c]
    BY <1>1, <1>2 DEF TypeOK, NoPage
  <2>2. ImgTaskFor(c, i) \in ImgTask
    BY <1>2, <2>1, ImgTaskForType
  <2>3. IsAccountedFor(ImgTaskFor(c, i))
    BY <1>2 DEF Accounted
  <2>4. ImgTaskFor(c, i)' = ImgTaskFor(c, i)
    BY <1>2 DEF ImgTaskFor, TaskOf
  <2> DEFINE t == ImgTaskFor(c, i)
  <2>5. \A r \in ImgTask : IsAccountedFor(r) => IsAccountedFor(r)'
    BY AccountedStays
  <2> QED
    BY <2>2, <2>3, <2>4, <2>5 DEF IsAccountedFor, IsStored
<1>3. CASE CreateImgTask(c) /\ i \in toQueue[c]
  <2>1. /\ page' = page
        /\ LET t == ImgTaskFor(c, i) IN
           refused' = IF t \in imgTask' THEN refused ELSE refused \cup {t}
    <3>1. PICK j \in toQueue[c] :
            /\ toQueue' = [toQueue EXCEPT ![c] = @ \ {j}]
            /\ LET t == ImgTaskFor(c, j) IN
               refused' = IF t \in imgTask' THEN refused ELSE refused \cup {t}
      BY <1>3 DEF CreateImgTask
    <3>2. j = i
      BY <1>3, <3>1 DEF TypeOK
    <3> QED
      BY <1>3, <3>1, <3>2 DEF CreateImgTask
  <2>2. ImgTaskFor(c, i)' = ImgTaskFor(c, i)
    BY <2>1 DEF ImgTaskFor, TaskOf
  <2> QED
    BY <2>1, <2>2 DEF IsAccountedFor
<1>4. CASE ~(CreateImgTask(c) /\ i \in toQueue[c])
  <2>1. ASSUME ChapterStep(c)
        PROVE  page'[c] = page[c] /\ i \notin toQueue[c]
    BY <2>1, <1>1, <1>4 DEF ChapterStep, EnterChapter, GetImgFromChapter,
       ChapterFetchFails, CreateImgTask, AllQueued, CreateChapter,
       CreateChapterFails, DeleteChapterTask, ReleaseChapter, NoPage, TypeOK
  <2>2. ASSUME NEW d \in ChapterUrl \ {c}, ChapterStep(d)
        PROVE  page'[c] = page[c] /\ i \notin toQueue[c]
    BY <2>2 DEF ChapterStep, EnterChapter, GetImgFromChapter,
       ChapterFetchFails, CreateImgTask, AllQueued, CreateChapter,
       CreateChapterFails, DeleteChapterTask, ReleaseChapter, TypeOK
  <2>3. ASSUME NEW x \in Image, ImageStep(x)
        PROVE  UNCHANGED <<page, toQueue>>
    BY <2>3 DEF ImageStep, EnterImage, FetchImage, ImageFetchFails,
       UploadImgToS3, UploadFails, UpdateChapterImgByIndex, DeleteImgTask,
       chapterVars
  <2>4. CASE \/ \E d \in ChapterUrl : CreateChapterTask(d) \/ QueueAgain(d)
             \/ GetChapterTasks \/ GetImgTasks \/ Cancel \/ UNCHANGED vars
    <3>1. UNCHANGED <<page, toQueue>>
      BY <2>4 DEF CreateChapterTask, QueueAgain, GetChapterTasks, GetImgTasks,
         Cancel, vars, chapterVars
    <3> QED
      BY <1>2, <3>1
  <2>5. CASE Restart
    BY <1>1, <2>5 DEF Restart, NoPage
  <2> QED
    BY <1>2, <2>1, <2>2, <2>3, <2>4, <2>5 DEF Next
<1> QED
  BY <1>3, <1>4

(* Past CreateChapter the row is there.                                    *)
LEMMA NextRecorded == TypeOK /\ Recorded /\ [Next]_vars => Recorded'
<1> SUFFICES ASSUME TypeOK, Recorded, [Next]_vars,
                    NEW c \in ChapterUrl, chapterPc'[c] = "retire"
             PROVE  HasRow(MangaOf[c], page[c].name)'
  BY DEF Recorded
<1>1. CASE chapterPc[c] = "retire" /\ page'[c] = page[c]
  <2>1. HasRow(MangaOf[c], page[c].name)
    BY <1>1 DEF Recorded
  <2>2. \A m, name : HasRow(m, name) => HasRow(m, name)'
    BY RowsStay
  <2> QED
    BY <1>1, <2>1, <2>2 DEF HasRow
<1>2. CASE CreateChapter(c)
  <2>1. chapter' = Append(chapter, NewRow(c)) /\ page' = page
    BY <1>2 DEF CreateChapter
  <2>2. chapter \in Seq(Row)
    BY DEF TypeOK
  <2>3. /\ Len(chapter) + 1 \in DOMAIN chapter'
        /\ chapter'[Len(chapter) + 1] = NewRow(c)
    BY <2>1, <2>2
  <2>4. NewRow(c).manga = MangaOf[c] /\ NewRow(c).name = page[c].name
    BY DEF NewRow
  <2> QED
    BY <2>1, <2>3, <2>4 DEF HasRow
<1>3. CASE ~CreateChapter(c)
  <2>1. ASSUME NEW d \in ChapterUrl, ChapterStep(d)
        PROVE  chapterPc[c] = "retire" /\ page'[c] = page[c]
    BY <2>1, <1>3 DEF ChapterStep, EnterChapter, GetImgFromChapter,
       ChapterFetchFails, CreateImgTask, AllQueued, CreateChapter,
       CreateChapterFails, DeleteChapterTask, ReleaseChapter, TypeOK
  <2>2. ASSUME NEW x \in Image, ImageStep(x)
        PROVE  UNCHANGED <<chapterPc, page>>
    BY <2>2 DEF ImageStep, EnterImage, FetchImage, ImageFetchFails,
       UploadImgToS3, UploadFails, UpdateChapterImgByIndex, DeleteImgTask,
       chapterVars
  <2>3. CASE \/ \E d \in ChapterUrl : CreateChapterTask(d) \/ QueueAgain(d)
             \/ GetImgTasks \/ Cancel \/ UNCHANGED vars
    <3>1. UNCHANGED <<chapterPc, page>>
      BY <2>3 DEF CreateChapterTask, QueueAgain, GetImgTasks, Cancel, vars,
         chapterVars
    <3> QED
      BY <1>1, <3>1
  <2>4. CASE GetChapterTasks \/ Restart
    BY <2>4 DEF GetChapterTasks, Restart
  <2> QED
    BY <1>1, <2>1, <2>2, <2>3, <2>4 DEF Next
<1> QED
  BY <1>2, <1>3

(* Chapter tasks are inserted by the handlers of the page worker and       *)
(* deleted by handleChapter.                                               *)
LEMMA ChapterTaskSteps ==
  ASSUME [Next]_vars
  PROVE  \/ UNCHANGED <<known, chapterTask>>
         \/ \E c \in ChapterUrl : CreateChapterTask(c) \/ QueueAgain(c)
         \/ \E c \in ChapterUrl : DeleteChapterTask(c)
BY DEF Next, ChapterStep, ImageStep, EnterChapter, GetImgFromChapter,
   ChapterFetchFails, CreateImgTask, AllQueued, CreateChapter,
   CreateChapterFails, EnterImage, FetchImage, ImageFetchFails,
   UploadImgToS3, UploadFails, UpdateChapterImgByIndex, DeleteImgTask,
   GetChapterTasks, GetImgTasks, Cancel, Restart, vars, tables

(* The task handleChapter deletes is its own; the row is there, and every  *)
(* image of the page it parsed is accounted for.                           *)
LEMMA RetiredIsListed ==
  ASSUME TypeOK, Recorded, Accounted, [Next]_vars,
         NEW c \in ChapterUrl, HasTask(c), ~HasTask(c)'
  PROVE  /\ DeleteChapterTask(c)
         /\ page[c] \in Pages[c]
         /\ HasRow(MangaOf[c], page[c].name)
         /\ \A i \in 1..Len(page[c].images) : IsAccountedFor(ImgTaskFor(c, i))
<1>1. ASSUME NEW d \in ChapterUrl, DeleteChapterTask(d) PROVE c = d
  BY <1>1 DEF DeleteChapterTask, Left, HasTask, WithoutTask
<1>2. ASSUME NEW d \in ChapterUrl, CreateChapterTask(d) \/ QueueAgain(d)
      PROVE  FALSE
  BY <1>2 DEF CreateChapterTask, QueueAgain, HasTask
<1>3. CASE UNCHANGED chapterTask
  BY <1>3 DEF HasTask
<1>4. DeleteChapterTask(c)
  BY <1>1, <1>2, <1>3, ChapterTaskSteps
<1>5. chapterPc[c] = "retire" /\ toQueue[c] = {} /\ page[c] \in Pages[c]
  BY <1>4 DEF DeleteChapterTask, TypeOK
<1> QED
  BY <1>4, <1>5 DEF Recorded, Accounted

(* A chapter whose task goes is listed, and what is listed stays so.       *)
LEMMA NextNothingLost ==
  /\ TypeOK /\ Uploaded /\ Recorded /\ Accounted
  /\ NothingLost /\ [Next]_vars
  => NothingLost'
<1> SUFFICES ASSUME TypeOK, Uploaded, Recorded, Accounted, NothingLost,
                    [Next]_vars, NEW c \in known', ~HasTask(c)'
             PROVE  \E p \in Pages[c] :
                      /\ HasRow(MangaOf[c], p.name)'
                      /\ \A i \in 1..Len(p.images) :
                           IsAccountedFor(TaskOf(c, p, i))'
  BY DEF NothingLost
<1>1. c \in known
  <2>1. SUFFICES ASSUME c \notin known
                 PROVE  FALSE
    OBVIOUS
  <2>2. CreateChapterTask(c)
    <3>1. PICK d \in ChapterUrl : CreateChapterTask(d) \/ QueueAgain(d)
                                  \/ DeleteChapterTask(d)
      BY <2>1, ChapterTaskSteps
    <3>2. known' = known \/ (CreateChapterTask(d) /\ known' = known \cup {d})
      BY <3>1 DEF CreateChapterTask, QueueAgain, DeleteChapterTask
    <3> QED
      BY <2>1, <3>2
  <2>3. CASE HasTask(c)
    BY <2>2, <2>3 DEF CreateChapterTask, HasTask
  <2>4. CASE ~HasTask(c)
    <3>1. [url |-> c, manga |-> MangaOf[c]] \in chapterTask'
      BY <2>2, <2>4 DEF CreateChapterTask
    <3> QED
      BY <3>1 DEF HasTask
  <2> QED
    BY <2>3, <2>4
<1>2. c \in ChapterUrl
  BY <1>1 DEF TypeOK
<1>3. PICK p \in Pages[c] :
        /\ HasRow(MangaOf[c], p.name)
        /\ \A i \in 1..Len(p.images) : IsAccountedFor(TaskOf(c, p, i))
  <2>1. CASE HasTask(c)
    BY <1>2, <2>1, RetiredIsListed DEF ImgTaskFor
  <2>2. CASE ~HasTask(c)
    BY <1>1, <2>2 DEF NothingLost
  <2> QED
    BY <2>1, <2>2
<1>4. HasRow(MangaOf[c], p.name)'
  <2>1. \A m, name : HasRow(m, name) => HasRow(m, name)'
    BY RowsStay
  <2> QED
    BY <1>3, <2>1 DEF HasRow
<1>5. ASSUME NEW i \in 1..Len(p.images)
      PROVE  IsAccountedFor(TaskOf(c, p, i))'
  <2>1. TaskOf(c, p, i) \in ImgTask
    BY <1>2, TaskOfType
  <2>2. \A r \in ImgTask : IsAccountedFor(r) => IsAccountedFor(r)'
    BY AccountedStays
  <2> QED
    BY <1>3, <2>1, <2>2 DEF IsAccountedFor, IsStored
<1> QED
  BY <1>4, <1>5

(* A chapter stays known, and with it what is of a page.                   *)
LEMMA OfAPageStays ==
  ASSUME [Next]_vars, NEW t, IsOfAPage(t)
  PROVE  IsOfAPage(t)'
<1>1. known \subseteq known'
  BY ChapterTaskSteps DEF CreateChapterTask, QueueAgain, DeleteChapterTask
<1> QED
  BY <1>1 DEF IsOfAPage

(* Tasks are queued for the images of the page that was parsed, each at    *)
(* its place.                                                              *)
LEMMA NextOwnTasks == TypeOK /\ OwnTasks /\ [Next]_vars => OwnTasks'
<1> SUFFICES ASSUME TypeOK, OwnTasks, [Next]_vars, NEW t \in imgTask'
             PROVE  IsOfAPage(t)'
  BY DEF OwnTasks
<1>1. CASE t \in imgTask
  BY <1>1, OfAPageStays DEF OwnTasks
<1>2. CASE t \notin imgTask
  <2>1. PICK c \in ChapterUrl : CreateImgTask(c)
    BY <1>2, ImgTaskSteps DEF DeleteImgTask, Left, WithoutImgTask
  <2>2. PICK i \in toQueue[c] : t = ImgTaskFor(c, i)
    BY <1>2, <2>1 DEF CreateImgTask, Left, Inserted
  <2>3. /\ page[c] \in Pages[c] /\ i \in 1..Len(page[c].images)
        /\ HasTask(c)
    BY <2>1, <2>2 DEF CreateImgTask, TypeOK
  <2>4. c \in known
    BY <2>3 DEF HasTask, TypeOK
  <2>5. IsOfAPage(t)
    BY <2>2, <2>3, <2>4 DEF IsOfAPage, ImgTaskFor, TaskOf
  <2> QED
    BY <2>5, OfAPageStays
<1> QED
  BY <1>1, <1>2

(* An object comes from a task.                                            *)
LEMMA NextOwnObjects ==
  TypeOK /\ OwnTasks /\ OwnObjects /\ [Next]_vars => OwnObjects'
<1> SUFFICES ASSUME TypeOK, OwnTasks, OwnObjects, [Next]_vars,
                    NEW k \in Key, bucket'[k] # Nothing
             PROVE  IsOfAPage(ObjectAt(k))'
  BY DEF OwnObjects
<1>1. CASE bucket'[k] = bucket[k]
  <2>1. IsOfAPage(ObjectAt(k))
    BY <1>1 DEF OwnObjects
  <2>2. ObjectAt(k)' = ObjectAt(k)
    BY <1>1 DEF ObjectAt
  <2>3. known \subseteq known'
    BY ChapterTaskSteps DEF CreateChapterTask, QueueAgain, DeleteChapterTask
  <2> QED
    BY <2>1, <2>2, <2>3 DEF IsOfAPage
<1>2. CASE bucket'[k] # bucket[k]
  <2>1. PICK x \in Image : UploadImgToS3(x) \/ UploadFails(x)
    BY <1>2, BucketSteps
  <2>2. imgJob[x] \in imgTask /\ imgJob[x].url = x /\ known' = known
    BY <2>1 DEF UploadImgToS3, UploadFails, TypeOK
  <2>3. bucket' = Stored(x) /\ k = KeyOf(imgJob[x])
    BY <1>2, <2>1 DEF UploadImgToS3, UploadFails, Left, Stored, TypeOK
  <2>4. bucket'[k] = x
    BY <2>3 DEF Stored, TypeOK
  <2>5. /\ ObjectAt(k)'.url = imgJob[x].url
        /\ ObjectAt(k)'.idx = imgJob[x].idx
        /\ ObjectAt(k)'.manga = imgJob[x].manga
        /\ ObjectAt(k)'.chapter = imgJob[x].chapter
    BY <2>2, <2>3, <2>4 DEF ObjectAt, KeyOf
  <2>6. IsOfAPage(imgJob[x])
    BY <2>2 DEF OwnTasks
  <2> QED
    BY <2>2, <2>5, <2>6 DEF IsOfAPage
<1> QED
  BY <1>1, <1>2

-----------------------------------------------------------------------------
(* The theorems.                                                           *)

(* The strengthening holds initially and is kept by every step.            *)
THEOREM InvariantHolds == Spec => []IInv
<1>1. Init => IInv
  <2> SUFFICES ASSUME Init PROVE IInv
    OBVIOUS
  <2>1. NoDanglingEntry /\ Uploaded /\ Accounted /\ Recorded
    BY DEF Init, NoDanglingEntry, Uploaded, Accounted, Recorded, NoPage
  <2>2. NothingLost /\ OwnTasks /\ OwnObjects
    BY DEF Init, NothingLost, OwnTasks, OwnObjects
  <2> QED
    BY <2>1, <2>2, InitTypeOK DEF IInv
<1>2. IInv /\ [Next]_vars => IInv'
  BY NextTypeOK, NextUploaded, NextNoDangling, NextAccounted, NextRecorded,
     NextNothingLost, NextOwnTasks, NextOwnObjects
     DEF IInv
<1> QED
  BY <1>1, <1>2, PTL DEF Spec

(* Every image a chapter row lists is in the bucket.                       *)
THEOREM EntriesAreStored == Spec => []NoDanglingEntry
<1>1. IInv => NoDanglingEntry
  BY DEF IInv
<1> QED
  BY <1>1, InvariantHolds, PTL

(* An image task leaves its table only when its object is stored.          *)
THEOREM ImagesRetireStored == Spec => ImageRetiredWhenStored
<1>1. IInv /\ [Next]_vars =>
        [\A t \in imgTask : t \notin imgTask' => IsStored(t)]_vars
  BY DeletedIsStored DEF IInv
<1> QED
  BY <1>1, InvariantHolds, PTL DEF Spec, ImageRetiredWhenStored

(* A chapter task leaves its table only when the chapter row is there and  *)
(* every image of the page is stored, queued or refused.                   *)
THEOREM ChaptersRetireListed == Spec => ChapterRetiredWhenListed
<1> DEFINE Listed(c) ==
      /\ HasRow(MangaOf[c], page[c].name)
      /\ \A i \in 1..Len(page[c].images) : IsAccountedFor(ImgTaskFor(c, i))
<1>1. ASSUME IInv, [Next]_vars, NEW c \in ChapterUrl, HasTask(c), ~HasTask(c)'
      PROVE  Listed(c)
  BY <1>1, RetiredIsListed DEF IInv
<1>2. IInv /\ [Next]_vars =>
        [\A c \in ChapterUrl : HasTask(c) /\ ~HasTask(c)' => Listed(c)]_vars
  BY <1>1
<1> QED
  BY <1>2, InvariantHolds, PTL DEF Spec, ChapterRetiredWhenListed

(* A chapter that was ever queued has its task, or its row and its images. *)
THEOREM NothingGetsLost == Spec => []NothingLost
<1>1. IInv => NothingLost
  BY DEF IInv
<1> QED
  BY <1>1, InvariantHolds, PTL

(* What lies under a key belongs there.                                    *)
THEOREM ObjectsAreOwn == Spec => []OwnObjects
<1>1. IInv => OwnObjects
  BY DEF IInv
<1> QED
  BY <1>1, InvariantHolds, PTL

-----------------------------------------------------------------------------
(* The tables implement TaskQueue.                                         *)

(* Every step is a step of the queue of images or leaves it alone.         *)
LEMMA NextImageQueue == IInv /\ [Next]_vars => [ImageQueue!Next]_(ImageQueue!vars)
<1> DEFINE Stepped == [ImageQueue!Next]_(ImageQueue!vars)
<1> SUFFICES ASSUME IInv, [Next]_vars PROVE Stepped
  OBVIOUS
<1> USE DEF IInv, ImageQueue!vars
<1>1. CASE UNCHANGED <<imgTask, bucket>>
  BY <1>1
<1>2. ASSUME NEW c \in ChapterUrl, CreateImgTask(c)
      PROVE  Stepped
  <2>1. PICK i \in toQueue[c] : imgTask' \in {imgTask, Inserted(ImgTaskFor(c, i))}
    BY <1>2 DEF CreateImgTask, Left
  <2>2. page[c] \in Pages[c] /\ i \in 1..Len(page[c].images)
    BY <1>2, <2>1 DEF CreateImgTask, IInv, TypeOK
  <2>3. ImgTaskFor(c, i) \in ImgTask
    BY <2>2, ImgTaskForType DEF IInv
  <2>4. bucket' = bucket
    BY <1>2 DEF CreateImgTask
  <2>5. imgTask' = imgTask \/ imgTask' = imgTask \cup {ImgTaskFor(c, i)}
    BY <2>1 DEF Inserted
  <2>6. ImageQueue!Put(ImgTaskFor(c, i)) \/ UNCHANGED <<imgTask, bucket>>
    BY <2>4, <2>5 DEF ImageQueue!Put
  <2> QED
    BY <1>1, <2>3, <2>6 DEF ImageQueue!Next
<1>3. ASSUME NEW x \in Image, DeleteImgTask(x)
      PROVE  Stepped
  <2> DEFINE t == imgJob[x]
  <2>1. t \in imgTask /\ t \in ImgTask /\ t.url = x /\ IsStored(t)
    BY <1>3 DEF DeleteImgTask, IInv, TypeOK, Uploaded
  <2>2. imgTask' = imgTask \/ imgTask' = imgTask \ {t}
    BY <1>3, <2>1 DEF DeleteImgTask, Left, WithoutImgTask, IInv, TypeOK
  <2>3. bucket' = bucket
    BY <1>3 DEF DeleteImgTask
  <2>4. KeyOf(t) \in {k \in Key : bucket[k] # Nothing}
    BY <2>1, KeyType DEF IsStored
  <2>5. ImageQueue!Retire(t) \/ UNCHANGED <<imgTask, bucket>>
    BY <2>1, <2>2, <2>3, <2>4 DEF ImageQueue!Retire
  <2> QED
    BY <1>1, <2>1, <2>5 DEF ImageQueue!Next
<1>4. ASSUME NEW x \in Image, UploadImgToS3(x) \/ UploadFails(x)
      PROVE  Stepped
  <2>1. PICK t \in ImgTask :
          t = imgJob[x] /\ t \in imgTask /\ imgTask' = imgTask
    BY <1>4 DEF UploadImgToS3, UploadFails, IInv, TypeOK
  <2>2. bucket' = bucket \/ bucket' = Stored(x)
    BY <1>4 DEF UploadImgToS3, UploadFails, Left
  <2>3. CASE bucket' = Stored(x)
    <3>1. KeyOf(t) \in Key
      BY <2>1, KeyType
    <3>2. x # Nothing
      BY PipelineAssumption
    <3>3. \A k \in Key : bucket'[k] = IF k = KeyOf(t) THEN x ELSE bucket[k]
      BY <2>1, <2>3 DEF Stored, IInv, TypeOK
    <3>4. {k \in Key : bucket'[k] # Nothing}
            = {k \in Key : bucket[k] # Nothing} \cup {KeyOf(t)}
      BY <3>1, <3>2, <3>3
    <3>5. ImageQueue!Work(t)
      BY <2>1, <3>4 DEF ImageQueue!Work
    <3>6. ImageQueue!Next
      BY <2>1, <3>5 DEF ImageQueue!Next
    <3> QED
      BY <3>6
  <2> QED
    BY <1>1, <2>1, <2>2, <2>3
<1>5. CASE UNCHANGED imgTask /\ ~UNCHANGED bucket
  BY <1>4, <1>5, BucketSteps
<1> QED
  BY <1>1, <1>2, <1>3, <1>5, ImgTaskSteps

(* The table of the images: an upload is the work, whatever its answer.    *)
THEOREM ImagesImplementQueue == Spec => ImplementsImageQueue
<1>1. Init => ImageQueue!Init
  BY DEF Init, ImageQueue!Init
<1> QED
  BY <1>1, NextImageQueue, InvariantHolds, PTL
     DEF Spec, ImplementsImageQueue, ImageQueue!Spec

(* Every step is a step of the queue of chapters or leaves it alone.       *)
LEMMA NextChapterQueue == IInv /\ [Next]_vars => [ChapterQueue!Next]_(ChapterQueue!vars)
<1> DEFINE Stepped == [ChapterQueue!Next]_(ChapterQueue!vars)
<1> SUFFICES ASSUME IInv, [Next]_vars PROVE Stepped
  OBVIOUS
<1> USE DEF IInv, ChapterQueue!vars
<1> DEFINE RowNames == {NameOfRow(chapter[n]) : n \in DOMAIN chapter}
<1>1. CASE UNCHANGED <<chapterTask, RowNames>>
  BY <1>1
<1>2. ASSUME NEW c \in ChapterUrl
      PROVE  [url |-> c, manga |-> MangaOf[c]] \in ChapterTask
  BY PipelineAssumption DEF ChapterTask
<1>3. ASSUME NEW c \in ChapterUrl, CreateChapterTask(c) \/ QueueAgain(c)
      PROVE  Stepped
  <2> DEFINE t == [url |-> c, manga |-> MangaOf[c]]
  <2>1. chapterTask' = chapterTask \/ chapterTask' = chapterTask \cup {t}
    BY <1>3 DEF CreateChapterTask, QueueAgain
  <2>2. chapter' = chapter
    BY <1>3 DEF CreateChapterTask, QueueAgain
  <2>3. ChapterQueue!Put(t) \/ UNCHANGED <<chapterTask, RowNames>>
    BY <2>1, <2>2 DEF ChapterQueue!Put
  <2> QED
    BY <1>1, <1>2, <2>3 DEF ChapterQueue!Next
<1>4. ASSUME NEW c \in ChapterUrl, DeleteChapterTask(c)
      PROVE  Stepped
  <2> DEFINE t == [url |-> c, manga |-> MangaOf[c]]
  <2>1. /\ t \in chapterTask /\ page[c] \in Pages[c]
        /\ HasRow(MangaOf[c], page[c].name)
    BY <1>4 DEF DeleteChapterTask, IInv, TypeOK, Recorded, HasTask
  <2>2. chapterTask' = chapterTask \/ chapterTask' = chapterTask \ {t}
    BY <1>4 DEF DeleteChapterTask, Left, WithoutTask, IInv, TypeOK
  <2>3. chapter' = chapter
    BY <1>4 DEF DeleteChapterTask
  <2>4. [manga |-> t.manga, name |-> page[c].name] \in RowNames
    BY <2>1 DEF HasRow, NameOfRow
  <2>5. ChapterQueue!Retire(t) \/ UNCHANGED <<chapterTask, RowNames>>
    BY <1>2, <2>1, <2>2, <2>3, <2>4 DEF ChapterQueue!Retire
  <2> QED
    BY <1>1, <1>2, <2>5 DEF ChapterQueue!Next
<1>5. ASSUME NEW c \in ChapterUrl, CreateChapter(c) \/ CreateChapterFails(c)
      PROVE  Stepped
  <2> DEFINE t == [url |-> c, manga |-> MangaOf[c]]
  <2>1. t \in chapterTask /\ page[c] \in Pages[c] /\ chapterTask' = chapterTask
    BY <1>5 DEF CreateChapter, CreateChapterFails, IInv, TypeOK, HasTask
  <2>2. chapter' = chapter \/ chapter' = Append(chapter, NewRow(c))
    BY <1>5 DEF CreateChapter, CreateChapterFails, Left
  <2>3. CASE chapter' = Append(chapter, NewRow(c))
    <3>1. chapter \in Seq(Row)
      BY DEF IInv, TypeOK
    <3>2. /\ DOMAIN chapter' = DOMAIN chapter \cup {Len(chapter) + 1}
          /\ \A n \in DOMAIN chapter : chapter'[n] = chapter[n]
          /\ chapter'[Len(chapter) + 1] = NewRow(c)
      BY <2>3, <3>1
    <3>3. RowNames' = RowNames \cup {NameOfRow(NewRow(c))}
      BY <3>2
    <3>4. NameOfRow(NewRow(c)) = [manga |-> t.manga, name |-> page[c].name]
      BY DEF NameOfRow, NewRow
    <3>5. ChapterQueue!Work(t)
      BY <1>2, <2>1, <3>3, <3>4 DEF ChapterQueue!Work
    <3> QED
      BY <1>2, <3>5 DEF ChapterQueue!Next
  <2> QED
    BY <1>1, <2>1, <2>2, <2>3
<1>6. ASSUME NEW x \in Image, UpdateChapterImgByIndex(x)
      PROVE  UNCHANGED <<chapterTask, RowNames>>
  <2>1. imgJob[x] \in ImgTask
    BY <1>6 DEF UpdateChapterImgByIndex, IInv, TypeOK
  <2>2. chapter' = chapter \/ chapter' = Appended(imgJob[x])
    BY <1>6 DEF UpdateChapterImgByIndex, Left
  <2>3. /\ DOMAIN chapter' = DOMAIN chapter
        /\ \A n \in DOMAIN chapter : NameOfRow(chapter'[n]) = NameOfRow(chapter[n])
    BY <2>1, <2>2, AppendedType DEF NameOfRow, IInv
  <2> QED
    BY <1>6, <2>3 DEF UpdateChapterImgByIndex
<1>7. CASE UNCHANGED chapterTask /\ ~UNCHANGED chapter
  BY <1>1, <1>5, <1>6, <1>7, ChapterSteps
<1> QED
  BY <1>1, <1>3, <1>4, <1>7, ChapterTaskSteps

(* The table of the chapters: the insert of the row is the work.           *)
THEOREM ChaptersImplementQueue == Spec => ImplementsChapterQueue
<1>1. Init => ChapterQueue!Init
  BY DEF Init, ChapterQueue!Init
<1> QED
  BY <1>1, NextChapterQueue, InvariantHolds, PTL
     DEF Spec, ImplementsChapterQueue, ChapterQueue!Spec

-----------------------------------------------------------------------------
(* How often a chapter is recorded and an image listed.                    *)

(* Counting: a part of a finite set, one element more and one less.        *)
LEMMA CountPart ==
  ASSUME NEW S, IsFiniteSet(S), NEW T \in SUBSET S
  PROVE  /\ IsFiniteSet(T)
         /\ Cardinality(T) \in Nat /\ Cardinality(S) \in Nat
         /\ Cardinality(T) <= Cardinality(S)
BY FS_Subset, FS_CardinalityType

LEMMA CountMore ==
  ASSUME NEW S, IsFiniteSet(S), NEW x, NEW T \in SUBSET (S \cup {x})
  PROVE  /\ IsFiniteSet(T)
         /\ Cardinality(T) \in Nat /\ Cardinality(S) \in Nat
         /\ Cardinality(T) <= Cardinality(S) + 1
<1>1. /\ IsFiniteSet(S \cup {x}) /\ Cardinality(S) \in Nat
      /\ Cardinality(S \cup {x}) <= Cardinality(S) + 1
  <2>1. /\ IsFiniteSet(S \cup {x}) /\ Cardinality(S) \in Nat
        /\ Cardinality(S \cup {x})
             = IF x \in S THEN Cardinality(S) ELSE Cardinality(S) + 1
    BY FS_AddElement, FS_CardinalityType
  <2> QED
    BY <2>1
<1> QED
  BY <1>1, CountPart

LEMMA CountLess ==
  ASSUME NEW S, IsFiniteSet(S), NEW x \in S, NEW T \in SUBSET (S \ {x})
  PROVE  /\ IsFiniteSet(T)
         /\ Cardinality(T) \in Nat /\ Cardinality(S) \in Nat
         /\ Cardinality(T) <= Cardinality(S) - 1
<1>1. /\ IsFiniteSet(S \ {x}) /\ Cardinality(S) \in Nat
      /\ Cardinality(S \ {x}) = Cardinality(S) - 1
  BY FS_RemoveElement, FS_CardinalityType
<1> QED
  BY <1>1, CountPart

LEMMA CountNone == IsFiniteSet({}) /\ Cardinality({}) = 0
BY FS_EmptySet

(* What a failure and what another namesake adds to the budgets.           *)
LEMMA BudgetSteps ==
  ASSUME NEW n \in Nat, NEW f \in Nat
  PROVE  /\ n * (1 + f) \in Nat /\ n * (1 + f) * (2 + f) \in Nat
         /\ n * (1 + (f + 1)) = n * (1 + f) + n
         /\ (n + 1) * (1 + f) = n * (1 + f) + 1 + f
         /\ n * (1 + (f + 1)) * (2 + (f + 1))
              = n * (1 + f) * (2 + f) + 2 * (n * (1 + f)) + 2 * n
         /\ (n + 1) * (1 + f) * (2 + f) >= n * (1 + f) * (2 + f) + 2
         /\ n * (1 + f) * (2 + f) >= 2 * (n * (1 + f))
<1> DEFINE b == n * (1 + f)
<1>1. b \in Nat
  OBVIOUS
<1>2. b * f \in Nat /\ b * (2 + f) = b * f + 2 * b
  BY <1>1
<1>3. n * (1 + (f + 1)) = b + n
  OBVIOUS
<1>4. (b + n) * (2 + (f + 1)) = b * (2 + f) + 2 * b + 2 * n
  <2>1. (b + n) * (3 + f) = b * (2 + f) + b + n * (3 + f)
    BY <1>1
  <2>2. n * (3 + f) = b + 2 * n
    OBVIOUS
  <2> QED
    BY <1>1, <2>1, <2>2
<1>5. (n + 1) * (1 + f) = b + 1 + f
  OBVIOUS
<1>6. (b + 1 + f) * (2 + f) >= b * (2 + f) + 2
  <2>1. (b + (1 + f)) * (2 + f) = b * (2 + f) + (1 + f) * (2 + f)
    BY <1>1
  <2>2. (1 + f) * (2 + f) >= 2
    OBVIOUS
  <2> QED
    BY <1>1, <1>2, <2>1, <2>2
<1> QED
  BY <1>1, <1>2, <1>3, <1>4, <1>5, <1>6

(* What is counted is finite.                                              *)
LEMMA CountTypes ==
  ASSUME TypeOK, IsFiniteSet(known), IsFiniteSet(imgTask), NEW m, NEW name,
         NEW k
  PROVE  /\ IsFiniteSet(Namesakes(m, name))
         /\ IsFiniteSet(RowsOf(m, name))
         /\ IsFiniteSet(MayRecord(m, name))
         /\ IsFiniteSet(MayQueue(k))
         /\ IsFiniteSet(TasksOf(k))
         /\ IsFiniteSet(MayAppend(k))
<1>1. IsFiniteSet(Namesakes(m, name)) /\ IsFiniteSet(MayRecord(m, name))
  <2>1. /\ Namesakes(m, name) \subseteq known
        /\ MayRecord(m, name) \subseteq known
    BY DEF Namesakes, MayRecord
  <2> QED
    BY <2>1, FS_Subset
<1>2. IsFiniteSet(MayQueue(k))
  <2>1. MayQueue(k) \subseteq known
    BY DEF Namesakes, MayQueue
  <2> QED
    BY <2>1, FS_Subset
<1>3. IsFiniteSet(RowsOf(m, name))
  <2>1. RowsOf(m, name) \subseteq 1..Len(chapter) /\ Len(chapter) \in Nat
    BY DEF RowsOf, TypeOK
  <2>2. IsFiniteSet(1..Len(chapter))
    BY <2>1, FS_Interval
  <2> QED
    BY <2>1, <2>2, FS_Subset
<1>4. IsFiniteSet(TasksOf(k)) /\ IsFiniteSet(MayAppend(k))
  <2>1. TasksOf(k) \subseteq imgTask /\ MayAppend(k) \subseteq imgTask
    BY DEF TasksOf, MayAppend
  <2> QED
    BY <2>1, FS_Subset
<1> QED
  BY <1>1, <1>2, <1>3, <1>4

(* The budgets grow by a failure, by as much as there are namesakes.       *)
LEMMA BudgetTypes ==
  ASSUME TypeOK, IsFiniteSet(known), NEW m, NEW name
  PROVE  /\ Cardinality(Namesakes(m, name)) \in Nat
         /\ Budget(m, name) \in Nat /\ EntryBudget(m, name) \in Nat
         /\ EntryBudget(m, name) >= 2 * Budget(m, name)
<1>1. IsFiniteSet(Namesakes(m, name))
  <2>1. Namesakes(m, name) \subseteq known
    BY DEF Namesakes
  <2> QED
    BY <2>1, FS_Subset
<1>2. Cardinality(Namesakes(m, name)) \in Nat /\ faults \in Nat
  BY <1>1, FS_CardinalityType, PipelineAssumption DEF TypeOK
<1> QED
  BY <1>2, BudgetSteps DEF Budget, EntryBudget

LEMMA BudgetGrows ==
  ASSUME TypeOK, IsFiniteSet(known), NEW m, NEW name,
         UNCHANGED known, faults' \in {faults, faults + 1}
  PROVE  /\ Namesakes(m, name)' = Namesakes(m, name)
         /\ Budget(m, name)' \in Nat /\ EntryBudget(m, name)' \in Nat
         /\ Budget(m, name)' >= Budget(m, name)
         /\ EntryBudget(m, name)' >= EntryBudget(m, name)
         /\ EntryBudget(m, name)' >= 2 * Budget(m, name)'
         /\ faults' = faults + 1 =>
              /\ Budget(m, name)'
                   = Budget(m, name) + Cardinality(Namesakes(m, name))
              /\ EntryBudget(m, name)'
                   = EntryBudget(m, name) + 2 * Budget(m, name)
                       + 2 * Cardinality(Namesakes(m, name))
<1> DEFINE n == Cardinality(Namesakes(m, name))
<1>1. n \in Nat /\ faults \in Nat
  BY BudgetTypes, PipelineAssumption DEF TypeOK
<1>2. Namesakes(m, name)' = Namesakes(m, name)
  BY DEF Namesakes
<1>3. /\ Budget(m, name)' = n * (1 + faults')
      /\ EntryBudget(m, name)' = n * (1 + faults') * (2 + faults')
      /\ Budget(m, name) = n * (1 + faults)
      /\ EntryBudget(m, name) = n * (1 + faults) * (2 + faults)
  BY <1>2 DEF Budget, EntryBudget
<1> HIDE DEF n
<1>4. CASE faults' = faults
  <2>1. /\ n * (1 + faults) \in Nat /\ n * (1 + faults) * (2 + faults) \in Nat
        /\ n * (1 + faults) * (2 + faults) >= 2 * (n * (1 + faults))
    BY <1>1, BudgetSteps
  <2>2. /\ Budget(m, name)' = Budget(m, name) /\ Budget(m, name) \in Nat
        /\ EntryBudget(m, name)' = EntryBudget(m, name)
        /\ EntryBudget(m, name) \in Nat
        /\ EntryBudget(m, name) >= 2 * Budget(m, name)
    BY <1>3, <1>4, <2>1
  <2>3. faults' # faults + 1
    BY <1>1, <1>4
  <2> QED
    BY <1>2, <2>2, <2>3
<1>5. CASE faults' = faults + 1
  <2> DEFINE f == faults + 1
  <2>1. f \in Nat /\ faults' = f
    BY <1>1, <1>5
  <2>2. /\ n * (1 + f) \in Nat /\ n * (1 + f) * (2 + f) \in Nat
        /\ n * (1 + f) * (2 + f) >= 2 * (n * (1 + f))
    BY <1>1, <2>1, BudgetSteps
  <2>3. /\ Budget(m, name)' = Budget(m, name) + n
        /\ EntryBudget(m, name)'
             = EntryBudget(m, name) + 2 * Budget(m, name) + 2 * n
        /\ Budget(m, name) \in Nat /\ EntryBudget(m, name) \in Nat
    BY <1>1, <1>3, <1>5, BudgetSteps
  <2>4. /\ Budget(m, name)' \in Nat /\ EntryBudget(m, name)' \in Nat
        /\ EntryBudget(m, name)' >= 2 * Budget(m, name)'
    BY <1>3, <2>1, <2>2
  <2>5. /\ Budget(m, name)' >= Budget(m, name)
        /\ EntryBudget(m, name)' >= EntryBudget(m, name)
    BY <1>1, <2>3
  <2> QED
    BY <1>2, <2>3, <2>4, <2>5 DEF n
<1> QED
  BY <1>4, <1>5

(* What CountInv says of a name and of a place.                            *)
LEMMA Counts ==
  ASSUME TypeOK, CountInv, NEW k \in Key, k.manga \in Manga
  PROVE  /\ Cardinality(RowsOf(k.manga, k.chapter)) \in Nat
         /\ Cardinality(MayRecord(k.manga, k.chapter)) \in Nat
         /\ Cardinality(TasksOf(k)) \in Nat
         /\ Cardinality(MayQueue(k)) \in Nat
         /\ Cardinality(MayAppend(k)) \in Nat
         /\ Cardinality(MayAppend(k)) <= Cardinality(TasksOf(k))
         /\ Cardinality(TasksOf(k)) + Cardinality(MayQueue(k))
              <= Budget(k.manga, k.chapter)
         /\ \A n \in RowsOf(k.manga, k.chapter) :
              /\ chapter[n].imgs[k.idx] \in Nat
              /\ 2 * (chapter[n].imgs[k.idx]
                        + Cardinality(MayAppend(k)) + Cardinality(MayQueue(k)))
                   <= EntryBudget(k.manga, k.chapter)
<1>1. IsFiniteSet(known) /\ IsFiniteSet(imgTask)
  BY DEF CountInv
<1>2. MayAppend(k) \subseteq TasksOf(k)
  BY DEF MayAppend
<1>3. ASSUME NEW n \in RowsOf(k.manga, k.chapter)
      PROVE  chapter[n].imgs[k.idx] \in Nat
  <2>1. chapter[n] \in Row
    BY DEF RowsOf, TypeOK
  <2> QED
    BY <2>1 DEF Row, Key
<1> QED
  BY <1>1, <1>2, <1>3, CountTypes, CountPart, FS_CardinalityType
  DEF CountInv, TasksCounted, EntriesCounted

(* The budgets of a name grow by what d more would take.                   *)
Room(m, name, d) ==
  /\ Budget(m, name)' \in Nat /\ EntryBudget(m, name)' \in Nat
  /\ Budget(m, name)' >= Budget(m, name) + d
  /\ EntryBudget(m, name)' >= EntryBudget(m, name) + 2 * d
  /\ EntryBudget(m, name)' >= 2 * Budget(m, name)'

LEMMA RoomStays ==
  ASSUME TypeOK, IsFiniteSet(known), NEW m, NEW name,
         UNCHANGED known, faults' \in {faults, faults + 1}
  PROVE  Room(m, name, 0)
BY BudgetTypes, BudgetGrows DEF Room

(* A failure makes room for each namesake.                                 *)
LEMMA RoomByFault ==
  ASSUME TypeOK, IsFiniteSet(known), NEW m, NEW name, NEW c,
         UNCHANGED known, faults' = faults + 1, c \in Namesakes(m, name)
  PROVE  Room(m, name, 1)
<1>1. IsFiniteSet(Namesakes(m, name))
  <2>1. Namesakes(m, name) \subseteq known
    BY DEF Namesakes
  <2> QED
    BY <2>1, FS_Subset
<1>2. Cardinality(Namesakes(m, name)) >= 1
  <2>1. Cardinality(Namesakes(m, name)) # 0
    BY <1>1, FS_EmptySet
  <2> QED
    BY <1>1, <2>1, BudgetTypes
<1> QED
  BY <1>2, BudgetTypes, BudgetGrows DEF Room

(* A step that leaves the image tasks alone and at most inserts rows       *)
(* without images keeps the counts of a place when a chapter that may      *)
(* queue an image again is paid for by the budget.                         *)
LEMMA PlacesStayCounted ==
  ASSUME TypeOK, CountInv, UNCHANGED imgTask,
         \A k \in Key : MayAppend(k)' \subseteq MayAppend(k),
         \A k \in Key : \A n \in RowsOf(k.manga, k.chapter)' :
           \/ /\ n \in RowsOf(k.manga, k.chapter)
              /\ chapter'[n].imgs[k.idx] = chapter[n].imgs[k.idx]
           \/ chapter'[n].imgs[k.idx] = 0,
         \A k \in Key : k.manga \in Manga =>
           \E d \in {0, 1} :
             /\ Cardinality(MayQueue(k)') \in Nat
             /\ Cardinality(MayQueue(k)') <= Cardinality(MayQueue(k)) + d
             /\ Room(k.manga, k.chapter, d)
  PROVE  TasksCounted' /\ EntriesCounted'
<1> SUFFICES ASSUME NEW k \in Key, k.manga \in Manga
             PROVE  /\ Cardinality(TasksOf(k)') + Cardinality(MayQueue(k)')
                         <= Budget(k.manga, k.chapter)'
                    /\ \A n \in RowsOf(k.manga, k.chapter)' :
                         2 * (chapter'[n].imgs[k.idx]
                               + Cardinality(MayAppend(k)')
                               + Cardinality(MayQueue(k)'))
                           <= EntryBudget(k.manga, k.chapter)'
  BY DEF TasksCounted, EntriesCounted
<1>1. PICK d \in {0, 1} :
        /\ Cardinality(MayQueue(k)') \in Nat
        /\ Cardinality(MayQueue(k)') <= Cardinality(MayQueue(k)) + d
        /\ Budget(k.manga, k.chapter)' \in Nat
        /\ EntryBudget(k.manga, k.chapter)' \in Nat
        /\ Budget(k.manga, k.chapter)' >= Budget(k.manga, k.chapter) + d
        /\ EntryBudget(k.manga, k.chapter)'
             >= EntryBudget(k.manga, k.chapter) + 2 * d
        /\ EntryBudget(k.manga, k.chapter)' >= 2 * Budget(k.manga, k.chapter)'
  BY DEF Room
<1>2. IsFiniteSet(known) /\ IsFiniteSet(imgTask)
  BY DEF CountInv
<1>3. TasksOf(k)' = TasksOf(k)
  BY DEF TasksOf
<1>4. /\ Cardinality(MayAppend(k)') \in Nat
      /\ Cardinality(MayAppend(k)') <= Cardinality(MayAppend(k))
  BY <1>2, CountTypes, CountPart
<1>5. Budget(k.manga, k.chapter) \in Nat /\ EntryBudget(k.manga, k.chapter) \in Nat
  BY <1>2, BudgetTypes
<1>6. Cardinality(TasksOf(k)') + Cardinality(MayQueue(k)')
        <= Budget(k.manga, k.chapter)'
  BY <1>1, <1>3, <1>5, Counts
<1>7. ASSUME NEW n \in RowsOf(k.manga, k.chapter)'
      PROVE  2 * (chapter'[n].imgs[k.idx]
                    + Cardinality(MayAppend(k)') + Cardinality(MayQueue(k)'))
               <= EntryBudget(k.manga, k.chapter)'
  <2>1. CASE chapter'[n].imgs[k.idx] = 0
    <3>1. Cardinality(MayAppend(k)') <= Cardinality(TasksOf(k)')
      BY <1>3, <1>4, Counts
    <3> QED
      BY <1>1, <1>3, <1>4, <1>6, <2>1, <3>1, Counts
  <2>2. CASE /\ n \in RowsOf(k.manga, k.chapter)
             /\ chapter'[n].imgs[k.idx] = chapter[n].imgs[k.idx]
    <3>1. /\ chapter[n].imgs[k.idx] \in Nat
          /\ 2 * (chapter[n].imgs[k.idx]
                    + Cardinality(MayAppend(k)) + Cardinality(MayQueue(k)))
               <= EntryBudget(k.manga, k.chapter)
      BY <2>2, Counts
    <3> QED
      BY <1>1, <1>4, <1>5, <2>2, <3>1, Counts
  <2> QED
    BY <2>1, <2>2
<1> QED
  BY <1>6, <1>7

(* A step that inserts no row, no image task and no entry keeps the counts *)
(* when a chapter that may start again is paid for by the budget.          *)
LEMMA StaysCounted ==
  ASSUME TypeOK, CountInv, IsFiniteSet(known'), UNCHANGED <<imgTask, chapter>>,
         \A k \in Key : MayAppend(k)' \subseteq MayAppend(k),
         NEW c,
         \A m \in Manga, name \in Name :
           \/ /\ Room(m, name, 0)
              /\ MayRecord(m, name)' \subseteq MayRecord(m, name)
           \/ /\ Room(m, name, 1)
              /\ MayRecord(m, name)' \subseteq MayRecord(m, name) \cup {c},
         \A k \in Key : k.manga \in Manga =>
           \/ /\ Room(k.manga, k.chapter, 0)
              /\ MayQueue(k)' \subseteq MayQueue(k)
           \/ /\ Room(k.manga, k.chapter, 1)
              /\ MayQueue(k)' \subseteq MayQueue(k) \cup {c}
  PROVE  CountInv'
<1>1. IsFiniteSet(known) /\ IsFiniteSet(imgTask)
  BY DEF CountInv
<1>2. ASSUME NEW m \in Manga, NEW name \in Name
      PROVE  Cardinality(RowsOf(m, name)') + Cardinality(MayRecord(m, name)')
               <= Budget(m, name)'
  <2>1. RowsOf(m, name)' = RowsOf(m, name)
    BY DEF RowsOf
  <2>2. /\ IsFiniteSet(MayRecord(m, name))
        /\ Cardinality(RowsOf(m, name)) \in Nat
        /\ Cardinality(MayRecord(m, name)) \in Nat
        /\ Budget(m, name) \in Nat
    BY <1>1, CountTypes, FS_CardinalityType, BudgetTypes
  <2>3. Cardinality(RowsOf(m, name)) + Cardinality(MayRecord(m, name))
          <= Budget(m, name)
    BY DEF CountInv, RowsCounted
  <2>4. PICK d \in {0, 1} :
          /\ Room(m, name, d)
          /\ Cardinality(MayRecord(m, name)') \in Nat
          /\ Cardinality(MayRecord(m, name)')
               <= Cardinality(MayRecord(m, name)) + d
    <3>1. CASE /\ Room(m, name, 0)
               /\ MayRecord(m, name)' \subseteq MayRecord(m, name)
      BY <2>2, <3>1, CountPart
    <3>2. CASE /\ Room(m, name, 1)
               /\ MayRecord(m, name)' \subseteq MayRecord(m, name) \cup {c}
      BY <2>2, <3>2, CountMore
    <3> QED
      BY <3>1, <3>2
  <2> QED
    BY <2>1, <2>2, <2>3, <2>4 DEF Room
<1>3. ASSUME NEW k \in Key, k.manga \in Manga
      PROVE  \E d \in {0, 1} :
               /\ Cardinality(MayQueue(k)') \in Nat
               /\ Cardinality(MayQueue(k)') <= Cardinality(MayQueue(k)) + d
               /\ Room(k.manga, k.chapter, d)
  <2>1. IsFiniteSet(MayQueue(k)) /\ Cardinality(MayQueue(k)) \in Nat
    BY <1>1, CountTypes, FS_CardinalityType
  <2>2. CASE /\ Room(k.manga, k.chapter, 0)
             /\ MayQueue(k)' \subseteq MayQueue(k)
    BY <2>1, <2>2, CountPart
  <2>3. CASE /\ Room(k.manga, k.chapter, 1)
             /\ MayQueue(k)' \subseteq MayQueue(k) \cup {c}
    BY <2>1, <2>3, CountMore
  <2> QED
    BY <1>3, <2>2, <2>3
<1>4. \A k \in Key : \A n \in RowsOf(k.manga, k.chapter)' :
        /\ n \in RowsOf(k.manga, k.chapter)
        /\ chapter'[n].imgs[k.idx] = chapter[n].imgs[k.idx]
  BY DEF RowsOf
<1>5. TasksCounted' /\ EntriesCounted'
  BY <1>3, <1>4, PlacesStayCounted
<1>6. RowsCounted'
  BY <1>2 DEF RowsCounted
<1> QED
  BY <1>1, <1>5, <1>6 DEF CountInv

(* A step of which no chapter and no image starts again.                   *)
LEMMA QuietCounted ==
  ASSUME TypeOK, CountInv, UNCHANGED <<known, chapterTask, imgTask, chapter>>,
         faults' \in {faults, faults + 1}, tmDone => tmDone',
         \A c \in known :
           /\ chapterPc[c] = "retire" => chapterPc'[c] = "retire"
           /\ chapterPc'[c] \in {"off", "ready", "fetch"} =>
                chapterPc[c] \in {"off", "ready", "fetch"}
           /\ chapterPc'[c] = "queue" =>
                \/ chapterPc[c] = "fetch"
                \/ /\ chapterPc[c] = "queue"
                   /\ page'[c] = page[c] /\ toQueue'[c] = toQueue[c],
         \A x \in Image : imgPc[x] = "retire" => imgPc'[x] = "retire"
  PROVE  CountInv'
<1>1. IsFiniteSet(known)
  BY DEF CountInv
<1>2. \A m, name : Room(m, name, 0)
  BY <1>1, RoomStays
<1>3. \A m, name : Namesakes(m, name)' = Namesakes(m, name)
  BY DEF Namesakes
<1>4. \A m, name : MayRecord(m, name)' \subseteq MayRecord(m, name)
  BY <1>3 DEF MayRecord, HasTask, Namesakes
<1>5. \A k : MayQueue(k)' \subseteq MayQueue(k)
  BY <1>3 DEF MayQueue, HasTask, Namesakes
<1>6. \A k \in Key : MayAppend(k)' \subseteq MayAppend(k)
  BY DEF MayAppend, TasksOf, TypeOK, ImgTask
<1> QED
  BY <1>1, <1>2, <1>4, <1>5, <1>6, StaysCounted

(* Each step keeps the counts: first those that change no table, then      *)
(* those of a chapter's and of an image's handler.                         *)
LEMMA QuietStepsCounted ==
  ASSUME TypeOK, CountInv,
         \/ \E c \in ChapterUrl :
              \/ EnterChapter(c) \/ GetImgFromChapter(c)
              \/ ChapterFetchFails(c) \/ AllQueued(c)
         \/ \E x \in Image :
              \/ EnterImage(x) \/ FetchImage(x) \/ ImageFetchFails(x)
              \/ UploadImgToS3(x) \/ UploadFails(x)
         \/ GetChapterTasks \/ GetImgTasks \/ Cancel \/ UNCHANGED vars
  PROVE  CountInv'
<1> USE QuietCounted DEF TypeOK
<1>1. ASSUME NEW c \in ChapterUrl, EnterChapter(c) PROVE CountInv'
  BY <1>1 DEF EnterChapter, tables, imgVars
<1>2. ASSUME NEW c \in ChapterUrl, GetImgFromChapter(c) PROVE CountInv'
  BY <1>2 DEF GetImgFromChapter, tables, imgVars
<1>3. ASSUME NEW c \in ChapterUrl, ChapterFetchFails(c) PROVE CountInv'
  BY <1>3 DEF ChapterFetchFails, ReleaseChapter, Fails, tables, imgVars
<1>4. ASSUME NEW c \in ChapterUrl, AllQueued(c) PROVE CountInv'
  BY <1>4 DEF AllQueued, tables, imgVars
<1>5. ASSUME NEW x \in Image,
             EnterImage(x) \/ FetchImage(x) \/ ImageFetchFails(x)
      PROVE  CountInv'
  BY <1>5 DEF EnterImage, FetchImage, ImageFetchFails, ReleaseImage, Succeeds,
     Fails, tables, chapterVars
<1>6. ASSUME NEW x \in Image, UploadImgToS3(x) \/ UploadFails(x)
      PROVE  CountInv'
  BY <1>6 DEF UploadImgToS3, UploadFails, ReleaseImage, Succeeds, Fails,
     chapterVars
<1>7. CASE GetChapterTasks
  <2>1. \A c \in known : chapterPc[c] = "off" /\ chapterPc'[c] \in {"off", "ready"}
    BY <1>7 DEF GetChapterTasks
  <2> QED
    BY <1>7, <2>1 DEF GetChapterTasks, tables, imgVars
<1>8. CASE GetImgTasks
  BY <1>8 DEF GetImgTasks, tables, chapterVars
<1>9. CASE Cancel \/ UNCHANGED vars
  BY <1>9 DEF Cancel, vars, tables, chapterVars, imgVars
<1> QED
  BY <1>1, <1>2, <1>3, <1>4, <1>5, <1>6, <1>7, <1>8, <1>9

(* A chapter that is queued comes with a budget of its own.                *)
LEMMA CreateChapterTaskCounted ==
  ASSUME TypeOK, CountInv, NEW c \in ChapterUrl, CreateChapterTask(c)
  PROVE  CountInv'
<1>1. /\ known' = known \cup {c} /\ c \notin known
      /\ UNCHANGED <<imgTask, chapter, imgPc, tmDone, faults>>
      /\ UNCHANGED <<chapterPc, page, toQueue>>
      /\ \A d : HasTask(d)' => HasTask(d) \/ d = c
  BY DEF CreateChapterTask, HasTask, chapterVars, imgVars
<1>2. IsFiniteSet(known) /\ IsFiniteSet(known')
  BY <1>1, FS_AddElement DEF CountInv
<1>3. faults \in Nat
  BY PipelineAssumption DEF TypeOK
<1>4. \A k \in Key : MayAppend(k)' \subseteq MayAppend(k)
  BY <1>1 DEF MayAppend, TasksOf
<1>5. ASSUME NEW m, NEW name
      PROVE  \/ /\ Namesakes(m, name)' = Namesakes(m, name)
                /\ Room(m, name, 0)
             \/ /\ Namesakes(m, name)' = Namesakes(m, name) \cup {c}
                /\ Room(m, name, 1)
  <2>1. c \notin Namesakes(m, name)
    BY <1>1 DEF Namesakes
  <2>2. CASE Namesakes(m, name)' = Namesakes(m, name)
    BY <1>1, <1>2, <2>2, BudgetTypes DEF Room, Budget, EntryBudget
  <2>3. CASE Namesakes(m, name)' = Namesakes(m, name) \cup {c}
    <3> DEFINE n == Cardinality(Namesakes(m, name))
    <3>1. IsFiniteSet(Namesakes(m, name))
      <4>1. Namesakes(m, name) \subseteq known
        BY DEF Namesakes
      <4> QED
        BY <1>2, <4>1, FS_Subset
    <3>2. Cardinality(Namesakes(m, name)') = n + 1 /\ n \in Nat
      BY <2>1, <2>3, <3>1, FS_AddElement, FS_CardinalityType
    <3>3. /\ Budget(m, name)' = (n + 1) * (1 + faults)
          /\ EntryBudget(m, name)' = (n + 1) * (1 + faults) * (2 + faults)
          /\ Budget(m, name) = n * (1 + faults)
          /\ EntryBudget(m, name) = n * (1 + faults) * (2 + faults)
      BY <1>1, <3>2 DEF Budget, EntryBudget
    <3> HIDE DEF n
    <3>4. Room(m, name, 1)
      <4>1. n + 1 \in Nat
        BY <3>2
      <4>2. /\ (n + 1) * (1 + faults) \in Nat
            /\ (n + 1) * (1 + faults) * (2 + faults) \in Nat
            /\ (n + 1) * (1 + faults) * (2 + faults)
                 >= 2 * ((n + 1) * (1 + faults))
        BY <1>3, <4>1, BudgetSteps
      <4>3. /\ n * (1 + faults) \in Nat
            /\ (n + 1) * (1 + faults) = n * (1 + faults) + 1 + faults
            /\ (n + 1) * (1 + faults) * (2 + faults)
                 >= n * (1 + faults) * (2 + faults) + 2
        BY <1>3, <3>2, BudgetSteps
      <4>4. Budget(m, name)' >= Budget(m, name) + 1
        BY <1>3, <3>3, <4>3
      <4> QED
        BY <3>3, <4>2, <4>3, <4>4 DEF Room
    <3> QED
      BY <2>3, <3>4
  <2> QED
    BY <1>1, <2>2, <2>3 DEF Namesakes
<1>6. ASSUME NEW m \in Manga, NEW name \in Name
      PROVE  \/ /\ Room(m, name, 0)
                /\ MayRecord(m, name)' \subseteq MayRecord(m, name)
             \/ /\ Room(m, name, 1)
                /\ MayRecord(m, name)' \subseteq MayRecord(m, name) \cup {c}
  <2>1. \A d \in MayRecord(m, name)' :
          /\ d \in Namesakes(m, name)' /\ ~tmDone /\ HasTask(d)'
          /\ chapterPc[d] # "retire"
    BY <1>1 DEF MayRecord
  <2>2. \A d \in Namesakes(m, name) : d # c
    BY <1>1 DEF Namesakes
  <2>3. \A d \in MayRecord(m, name)' :
          d \in Namesakes(m, name) => d \in MayRecord(m, name)
    BY <1>1, <2>1, <2>2 DEF MayRecord
  <2> QED
    BY <1>5, <2>1, <2>3
<1>7. ASSUME NEW k \in Key, k.manga \in Manga
      PROVE  \/ /\ Room(k.manga, k.chapter, 0)
                /\ MayQueue(k)' \subseteq MayQueue(k)
             \/ /\ Room(k.manga, k.chapter, 1)
                /\ MayQueue(k)' \subseteq MayQueue(k) \cup {c}
  <2>1. \A d \in MayQueue(k)' : d \in Namesakes(k.manga, k.chapter)'
    BY DEF MayQueue
  <2>2. \A d \in Namesakes(k.manga, k.chapter) : d # c
    BY <1>1 DEF Namesakes
  <2>3. \A d \in MayQueue(k)' :
          d \in Namesakes(k.manga, k.chapter) => d \in MayQueue(k)
    BY <1>1, <2>2 DEF MayQueue
  <2> QED
    BY <1>5, <2>1, <2>3
<1> QED
  BY <1>1, <1>2, <1>4, <1>6, <1>7, StaysCounted

(* After a failure a chapter may start over: it is queued again, or its    *)
(* task stays when the handler gives up.                                   *)
LEMMA StartsOverCounted ==
  ASSUME TypeOK, CountInv, NEW c,
         UNCHANGED <<known, imgTask, chapter, imgPc, tmDone>>,
         faults' = faults + 1,
         \A d \in known \ {c} :
           /\ HasTask(d)' => HasTask(d)
           /\ chapterPc'[d] = chapterPc[d] /\ page'[d] = page[d]
           /\ toQueue'[d] = toQueue[d]
  PROVE  CountInv'
<1>1. IsFiniteSet(known)
  BY DEF CountInv
<1>2. \A m, name : Namesakes(m, name)' = Namesakes(m, name)
  BY DEF Namesakes
<1>3. \A m, name :
        /\ Room(m, name, 0)
        /\ c \in Namesakes(m, name) => Room(m, name, 1)
  BY <1>1, RoomStays, RoomByFault
<1>4. \A k \in Key : MayAppend(k)' \subseteq MayAppend(k)
  BY DEF MayAppend, TasksOf
<1>5. ASSUME NEW m \in Manga, NEW name \in Name
      PROVE  \/ /\ Room(m, name, 0)
                /\ MayRecord(m, name)' \subseteq MayRecord(m, name)
             \/ /\ Room(m, name, 1)
                /\ MayRecord(m, name)' \subseteq MayRecord(m, name) \cup {c}
  <2>1. \A d \in MayRecord(m, name)' :
          /\ d \in Namesakes(m, name)
          /\ d # c => d \in MayRecord(m, name)
    BY <1>2 DEF MayRecord, Namesakes
  <2> QED
    BY <1>3, <2>1
<1>6. ASSUME NEW k \in Key, k.manga \in Manga
      PROVE  \/ /\ Room(k.manga, k.chapter, 0)
                /\ MayQueue(k)' \subseteq MayQueue(k)
             \/ /\ Room(k.manga, k.chapter, 1)
                /\ MayQueue(k)' \subseteq MayQueue(k) \cup {c}
  <2>1. \A d \in MayQueue(k)' :
          /\ d \in Namesakes(k.manga, k.chapter)
          /\ d # c => d \in MayQueue(k)
    BY <1>2 DEF MayQueue, Namesakes
  <2> QED
    BY <1>3, <2>1
<1> QED
  BY <1>1, <1>4, <1>5, <1>6, StaysCounted

(* Or it does not: its task is gone, no call succeeds, or no row takes its *)
(* manga.                                                                  *)
LEMMA StopsCounted ==
  ASSUME TypeOK, CountInv, NEW c,
         UNCHANGED <<known, imgTask, chapter, imgPc, tmDone, faults>>,
         \A d \in known \ {c} :
           /\ HasTask(d)' => HasTask(d)
           /\ chapterPc'[d] = chapterPc[d] /\ page'[d] = page[d]
           /\ toQueue'[d] = toQueue[d],
         tmDone \/ ~HasTask(c)' \/ MangaOf[c] \notin Manga
  PROVE  CountInv'
<1>1. IsFiniteSet(known)
  BY DEF CountInv
<1>2. \A m, name : Namesakes(m, name)' = Namesakes(m, name)
  BY DEF Namesakes
<1>3. \A m, name : Room(m, name, 0)
  BY <1>1, RoomStays
<1>4. \A k \in Key : MayAppend(k)' \subseteq MayAppend(k)
  BY DEF MayAppend, TasksOf
<1>5. \A m \in Manga, name \in Name :
        MayRecord(m, name)' \subseteq MayRecord(m, name)
  BY <1>2 DEF MayRecord, Namesakes
<1>6. \A k \in Key : k.manga \in Manga => MayQueue(k)' \subseteq MayQueue(k)
  BY <1>2 DEF MayQueue, Namesakes
<1> QED
  BY <1>1, <1>3, <1>4, <1>5, <1>6, StaysCounted

LEMMA DeleteChapterTaskCounted ==
  ASSUME TypeOK, CountInv, NEW c \in ChapterUrl, DeleteChapterTask(c)
  PROVE  CountInv'
<1>1. /\ UNCHANGED <<known, imgTask, chapter, imgPc, tmDone>>
      /\ \A d \in known \ {c} :
           /\ chapterPc'[d] = chapterPc[d] /\ page'[d] = page[d]
           /\ toQueue'[d] = toQueue[d]
  BY DEF DeleteChapterTask, ReleaseChapter, imgVars, TypeOK
<1>2. \A d : HasTask(d)' => HasTask(d)
  BY DEF DeleteChapterTask, Left, WithoutTask, HasTask
<1>3. CASE Succeeds /\ chapterTask' = WithoutTask(c)
  <2>1. ~HasTask(c)' /\ faults' = faults
    BY <1>3 DEF HasTask, WithoutTask, Succeeds
  <2> QED
    BY <1>1, <1>2, <2>1, StopsCounted
<1>4. CASE Fails
  BY <1>1, <1>2, <1>4, StopsCounted, StartsOverCounted DEF Fails
<1> QED
  BY <1>3, <1>4 DEF DeleteChapterTask

(* The insert of a row takes the place of the chapter that might insert    *)
(* it, or comes with a failure; a new row has no images yet.               *)
LEMMA RowInsertedCounted ==
  ASSUME TypeOK, CountInv, NEW c \in ChapterUrl,
         chapterPc[c] = "record", MangaOf[c] # NoManga, ~tmDone,
         chapter' = Append(chapter, NewRow(c)),
         UNCHANGED <<known, chapterTask, imgTask, imgPc, tmDone>>,
         \A d \in known \ {c} :
           /\ chapterPc'[d] = chapterPc[d] /\ page'[d] = page[d]
           /\ toQueue'[d] = toQueue[d],
         \/ chapterPc'[c] = "retire" /\ UNCHANGED faults
         \/ faults' = faults + 1
  PROVE  CountInv'
<1> DEFINE new == Len(chapter) + 1
<1>1. IsFiniteSet(known) /\ IsFiniteSet(imgTask)
  BY DEF CountInv
<1>2. HasTask(c) /\ c \in known /\ page[c] \in Pages[c]
  BY DEF TypeOK, HasTask
<1>3. /\ DOMAIN chapter' = DOMAIN chapter \cup {new}
      /\ \A n \in DOMAIN chapter : chapter'[n] = chapter[n]
      /\ chapter'[new] = NewRow(c) /\ new \notin DOMAIN chapter
  BY DEF TypeOK
<1>4. \A m, name : Namesakes(m, name)' = Namesakes(m, name)
  BY DEF Namesakes
<1>5. \A m, name :
        /\ Room(m, name, 0)
        /\ faults' = faults + 1 /\ c \in Namesakes(m, name) => Room(m, name, 1)
  BY <1>1, RoomStays, RoomByFault
<1>6. \A k \in Key : MayAppend(k)' \subseteq MayAppend(k)
  BY DEF MayAppend, TasksOf
<1>7. ASSUME NEW k \in Key, k.manga \in Manga
      PROVE  \E d \in {0, 1} :
               /\ Cardinality(MayQueue(k)') \in Nat
               /\ Cardinality(MayQueue(k)') <= Cardinality(MayQueue(k)) + d
               /\ Room(k.manga, k.chapter, d)
  <2>1. IsFiniteSet(MayQueue(k)) /\ Cardinality(MayQueue(k)) \in Nat
    BY <1>1, CountTypes, FS_CardinalityType
  <2>2. \A d \in MayQueue(k)' :
          /\ d \in Namesakes(k.manga, k.chapter)
          /\ d # c => d \in MayQueue(k)
    BY <1>4 DEF MayQueue, Namesakes, HasTask
  <2>3. CASE MayQueue(k)' \subseteq MayQueue(k)
    BY <1>5, <2>1, <2>3, CountPart
  <2>4. CASE c \in MayQueue(k)'
    <3>1. faults' = faults + 1 /\ c \in Namesakes(k.manga, k.chapter)
      BY <2>2, <2>4 DEF MayQueue
    <3>2. MayQueue(k)' \subseteq MayQueue(k) \cup {c}
      BY <2>2
    <3> QED
      BY <1>5, <2>1, <3>1, <3>2, CountMore
  <2> QED
    BY <2>2, <2>3, <2>4
<1>8. \A k \in Key : \A n \in RowsOf(k.manga, k.chapter)' :
        \/ /\ n \in RowsOf(k.manga, k.chapter)
           /\ chapter'[n].imgs[k.idx] = chapter[n].imgs[k.idx]
        \/ chapter'[n].imgs[k.idx] = 0
  BY <1>3 DEF RowsOf, NewRow, Key
<1>9. TasksCounted' /\ EntriesCounted'
  BY <1>6, <1>7, <1>8, PlacesStayCounted
<1>10. ASSUME NEW m \in Manga, NEW name \in Name
       PROVE  Cardinality(RowsOf(m, name)') + Cardinality(MayRecord(m, name)')
                <= Budget(m, name)'
  <2>1. /\ IsFiniteSet(MayRecord(m, name)) /\ IsFiniteSet(RowsOf(m, name))
        /\ Cardinality(RowsOf(m, name)) \in Nat
        /\ Cardinality(MayRecord(m, name)) \in Nat
        /\ Budget(m, name) \in Nat
    BY <1>1, CountTypes, FS_CardinalityType, BudgetTypes
  <2>2. Cardinality(RowsOf(m, name)) + Cardinality(MayRecord(m, name))
          <= Budget(m, name)
    BY DEF CountInv, RowsCounted
  <2>3. MayRecord(m, name)' \subseteq MayRecord(m, name)
    BY <1>2, <1>4 DEF MayRecord, Namesakes, HasTask
  <2>4. /\ Cardinality(MayRecord(m, name)') \in Nat
        /\ Cardinality(MayRecord(m, name)') <= Cardinality(MayRecord(m, name))
    BY <2>1, <2>3, CountPart
  <2>5. CASE m = MangaOf[c] /\ name = page[c].name
    <3>1. c \in Namesakes(m, name) /\ c \in MayRecord(m, name)
      BY <1>2, <2>5 DEF Namesakes, MayRecord
    <3>2. RowsOf(m, name)' \subseteq RowsOf(m, name) \cup {new}
      BY <1>3 DEF RowsOf
    <3>3. /\ Cardinality(RowsOf(m, name)') \in Nat
          /\ Cardinality(RowsOf(m, name)') <= Cardinality(RowsOf(m, name)) + 1
      BY <2>1, <3>2, CountMore
    <3>4. CASE faults' = faults + 1
      <4>1. Budget(m, name)' \in Nat /\ Budget(m, name)' >= Budget(m, name) + 1
        BY <1>5, <3>1, <3>4 DEF Room
      <4> QED
        BY <2>1, <2>2, <2>4, <3>3, <4>1
    <3>5. CASE chapterPc'[c] = "retire"
      <4>1. MayRecord(m, name)' \subseteq MayRecord(m, name) \ {c}
        BY <2>3, <3>5 DEF MayRecord
      <4>2. Cardinality(MayRecord(m, name)') <= Cardinality(MayRecord(m, name)) - 1
        BY <2>1, <3>1, <4>1, CountLess
      <4>3. Budget(m, name)' \in Nat /\ Budget(m, name)' >= Budget(m, name)
        BY <1>5, <2>1 DEF Room
      <4> QED
        BY <2>1, <2>2, <2>4, <3>3, <4>2, <4>3
    <3> QED
      BY <3>4, <3>5
  <2>6. CASE ~(m = MangaOf[c] /\ name = page[c].name)
    <3>1. RowsOf(m, name)' = RowsOf(m, name)
      BY <1>3, <2>6 DEF RowsOf, NewRow
    <3>2. Budget(m, name)' \in Nat /\ Budget(m, name)' >= Budget(m, name)
      BY <1>5, <2>1 DEF Room
    <3> QED
      BY <2>1, <2>2, <2>4, <3>1, <3>2
  <2> QED
    BY <2>5, <2>6
<1> QED
  BY <1>1, <1>9, <1>10 DEF CountInv, RowsCounted

LEMMA CreateChapterCounted ==
  ASSUME TypeOK, CountInv, NEW c \in ChapterUrl,
         CreateChapter(c) \/ CreateChapterFails(c)
  PROVE  CountInv'
<1>1. /\ UNCHANGED <<known, chapterTask, imgTask, imgPc, tmDone>>
      /\ chapterPc[c] = "record"
      /\ \A d \in known \ {c} :
           /\ HasTask(d)' => HasTask(d)
           /\ chapterPc'[d] = chapterPc[d] /\ page'[d] = page[d]
           /\ toQueue'[d] = toQueue[d]
  BY DEF CreateChapter, CreateChapterFails, ReleaseChapter, imgVars, TypeOK,
     HasTask
<1>2. CASE CreateChapter(c)
  <2>1. chapterPc'[c] = "retire"
    BY <1>2 DEF CreateChapter, TypeOK
  <2> QED
    BY <1>1, <1>2, <2>1, RowInsertedCounted DEF CreateChapter, Succeeds
<1>3. CASE CreateChapterFails(c) /\ UNCHANGED <<chapter, faults>>
  <2>1. tmDone \/ MangaOf[c] \notin Manga
    BY <1>3, PipelineAssumption DEF CreateChapterFails, Fails, TypeOK
  <2> QED
    BY <1>1, <1>3, <2>1, StopsCounted
<1>4. CASE CreateChapterFails(c) /\ ~UNCHANGED <<chapter, faults>>
  <2>1. /\ faults' = faults + 1 /\ ~tmDone /\ MangaOf[c] # NoManga
        /\ chapter' = chapter \/ chapter' = Append(chapter, NewRow(c))
    BY <1>4 DEF CreateChapterFails, Fails, Left
  <2>2. CASE chapter' = chapter
    BY <1>1, <2>1, <2>2, StartsOverCounted
  <2>3. CASE chapter' = Append(chapter, NewRow(c))
    BY <1>1, <2>1, <2>3, RowInsertedCounted
  <2> QED
    BY <2>1, <2>2, <2>3
<1> QED
  BY <1>2, <1>3, <1>4

(* A step that inserts no row keeps the count of the rows, unless more     *)
(* chapters may record.                                                    *)
LEMMA RowsStayCounted ==
  ASSUME TypeOK, CountInv, UNCHANGED known, faults' \in {faults, faults + 1},
         \A m, name : RowsOf(m, name)' = RowsOf(m, name),
         \A m, name : MayRecord(m, name)' \subseteq MayRecord(m, name)
  PROVE  RowsCounted'
<1> SUFFICES ASSUME NEW m \in Manga, NEW name \in Name
             PROVE  Cardinality(RowsOf(m, name)')
                      + Cardinality(MayRecord(m, name)') <= Budget(m, name)'
  BY DEF RowsCounted
<1>1. IsFiniteSet(known) /\ IsFiniteSet(imgTask)
  BY DEF CountInv
<1>2. /\ IsFiniteSet(MayRecord(m, name))
      /\ Cardinality(RowsOf(m, name)) \in Nat
      /\ Cardinality(MayRecord(m, name)) \in Nat
      /\ Budget(m, name) \in Nat
  BY <1>1, CountTypes, FS_CardinalityType, BudgetTypes
<1>3. /\ Cardinality(MayRecord(m, name)') \in Nat
      /\ Cardinality(MayRecord(m, name)') <= Cardinality(MayRecord(m, name))
  BY <1>2, CountPart
<1>4. Budget(m, name)' \in Nat /\ Budget(m, name)' >= Budget(m, name)
  BY <1>1, <1>2, RoomStays DEF Room
<1>5. Cardinality(RowsOf(m, name)) + Cardinality(MayRecord(m, name))
        <= Budget(m, name)
  BY DEF CountInv, RowsCounted
<1> QED
  BY <1>2, <1>3, <1>4, <1>5

(* A queued image takes the place of the chapter that might queue it.      *)
LEMMA CreateImgTaskCounted ==
  ASSUME TypeOK, CountInv, NEW c \in ChapterUrl, CreateImgTask(c)
  PROVE  CountInv'
<1>1. PICK i \in toQueue[c] :
        /\ toQueue' = [toQueue EXCEPT ![c] = @ \ {i}]
        /\ \/ /\ tmDone /\ imgTask' = imgTask /\ faults' = faults
           \/ /\ ~tmDone /\ faults' \in {faults, faults + 1}
              /\ imgTask' \in {imgTask, Inserted(ImgTaskFor(c, i))}
  BY DEF CreateImgTask, Succeeds, Fails, Left
<1> DEFINE t == ImgTaskFor(c, i)
<1>2. /\ UNCHANGED <<known, chapterTask, chapter, chapterPc, page, imgPc, tmDone>>
      /\ chapterPc[c] = "queue"
  BY DEF CreateImgTask, imgVars
<1>3. /\ HasTask(c) /\ c \in known /\ page[c] \in Pages[c]
      /\ i \in 1..Len(page[c].images)
  BY <1>1, <1>2 DEF TypeOK, HasTask
<1>4. t \in ImgTask
  BY <1>3, ImgTaskForType
<1>5. /\ KeyOf(t).manga = MangaOf[c] /\ KeyOf(t).chapter = page[c].name
      /\ KeyOf(t).idx = i
  BY DEF KeyOf, ImgTaskFor, TaskOf
<1>6. IsFiniteSet(known) /\ IsFiniteSet(imgTask)
  BY DEF CountInv
<1>7. faults' \in {faults, faults + 1} /\ imgTask' \subseteq imgTask \cup {t}
  BY <1>1 DEF Inserted
<1>8. IsFiniteSet(imgTask')
  BY <1>6, <1>7, CountMore
<1>9. \A m, name : Namesakes(m, name)' = Namesakes(m, name)
  BY <1>2 DEF Namesakes
<1>10. RowsCounted'
  <2>1. \A m, name : RowsOf(m, name)' = RowsOf(m, name)
    BY <1>2 DEF RowsOf
  <2>2. \A m, name : MayRecord(m, name)' \subseteq MayRecord(m, name)
    BY <1>2, <1>9 DEF MayRecord, HasTask
  <2> QED
    BY <1>2, <1>7, <2>1, <2>2, RowsStayCounted
<1>11. ASSUME NEW k \in Key, k.manga \in Manga
       PROVE  /\ Cardinality(TasksOf(k)') + Cardinality(MayQueue(k)')
                   <= Budget(k.manga, k.chapter)'
              /\ \A n \in RowsOf(k.manga, k.chapter)' :
                   2 * (chapter'[n].imgs[k.idx]
                         + Cardinality(MayAppend(k)')
                         + Cardinality(MayQueue(k)'))
                     <= EntryBudget(k.manga, k.chapter)'
  <2>1. /\ IsFiniteSet(TasksOf(k)) /\ IsFiniteSet(MayAppend(k))
        /\ IsFiniteSet(MayQueue(k))
    BY <1>6, CountTypes
  <2>2. Room(k.manga, k.chapter, 0)
    BY <1>2, <1>6, <1>7, RoomStays
  <2>3. MayQueue(k)' \subseteq MayQueue(k)
    BY <1>1, <1>2, <1>9 DEF MayQueue, HasTask, TypeOK, Namesakes
  <2>4. RowsOf(k.manga, k.chapter)' = RowsOf(k.manga, k.chapter)
    BY <1>2 DEF RowsOf
  <2>5. /\ Cardinality(MayQueue(k)') \in Nat
        /\ Cardinality(MayQueue(k)') <= Cardinality(MayQueue(k))
    BY <2>1, <2>3, CountPart
  <2>6. Budget(k.manga, k.chapter) \in Nat /\ EntryBudget(k.manga, k.chapter) \in Nat
    BY <1>6, BudgetTypes
  <2>7. CASE /\ TasksOf(k)' \subseteq TasksOf(k)
             /\ MayAppend(k)' \subseteq MayAppend(k)
    <3>1. /\ Cardinality(TasksOf(k)') \in Nat
          /\ Cardinality(TasksOf(k)') <= Cardinality(TasksOf(k))
          /\ Cardinality(MayAppend(k)') \in Nat
          /\ Cardinality(MayAppend(k)') <= Cardinality(MayAppend(k))
      BY <2>1, <2>7, CountPart
    <3> QED
      BY <1>2, <1>11, <2>2, <2>4, <2>5, <2>6, <3>1, Counts DEF Room
  <2>8. CASE k = KeyOf(t) /\ ~tmDone
    <3>1. c \in MayQueue(k)
      BY <1>1, <1>2, <1>3, <1>5, <2>8 DEF MayQueue, Namesakes
    <3>2. c \notin MayQueue(k)'
      BY <1>1, <1>2, <1>5, <2>8 DEF MayQueue, TypeOK
    <3>3. MayQueue(k)' \subseteq MayQueue(k) \ {c}
      BY <2>3, <3>2
    <3>4. Cardinality(MayQueue(k)') <= Cardinality(MayQueue(k)) - 1
      BY <2>1, <3>1, <3>3, CountLess
    <3>5. TasksOf(k)' \subseteq TasksOf(k) \cup {t}
      BY <1>7 DEF TasksOf
    <3>6. MayAppend(k)' \subseteq MayAppend(k) \cup {t}
      BY <1>2, <1>7 DEF MayAppend, TasksOf
    <3>7. /\ Cardinality(TasksOf(k)') \in Nat
          /\ Cardinality(TasksOf(k)') <= Cardinality(TasksOf(k)) + 1
      BY <2>1, <3>5, CountMore
    <3>8. /\ Cardinality(MayAppend(k)') \in Nat
          /\ Cardinality(MayAppend(k)') <= Cardinality(MayAppend(k)) + 1
      BY <2>1, <3>6, CountMore
    <3> QED
      BY <1>2, <1>11, <2>2, <2>4, <2>5, <2>6, <3>4, <3>7, <3>8, Counts DEF Room
  <2>9. CASE k # KeyOf(t) \/ tmDone
    <3>1. TasksOf(k)' \subseteq TasksOf(k)
      BY <1>1, <1>7, <2>9 DEF TasksOf
    <3>2. MayAppend(k)' \subseteq MayAppend(k)
      BY <1>2, <3>1 DEF MayAppend
    <3> QED
      BY <2>7, <3>1, <3>2
  <2> QED
    BY <2>8, <2>9
<1>12. TasksCounted' /\ EntriesCounted'
  BY <1>11 DEF TasksCounted, EntriesCounted
<1> QED
  BY <1>2, <1>6, <1>8, <1>10, <1>12 DEF CountInv

(* The update adds one entry at the image's place, to rows of its name.    *)
LEMMA AppendedOne ==
  ASSUME TypeOK, NEW t \in ImgTask, NEW n \in DOMAIN chapter, NEW i \in Idx
  PROVE  Appended(t)[n].imgs[i] =
           IF /\ i = t.idx
              /\ chapter[n].manga = t.manga /\ chapter[n].name = t.chapter
           THEN chapter[n].imgs[i] + 1
           ELSE chapter[n].imgs[i]
<1>1. chapter[n] \in Row
  BY DEF TypeOK
<1>2. t.idx \in Idx
  BY DEF ImgTask
<1> QED
  BY <1>1, <1>2 DEF Appended, Row

(* The entry takes the place of the image that might be appended.          *)
LEMMA UpdateCounted ==
  ASSUME TypeOK, CountInv, NEW x \in Image, UpdateChapterImgByIndex(x)
  PROVE  CountInv'
<1> DEFINE t == imgJob[x]
<1>1. /\ t \in imgTask /\ t \in ImgTask /\ t.url = x /\ imgPc[x] = "append"
      /\ UNCHANGED <<known, chapterTask, imgTask, chapterPc, page, toQueue, tmDone>>
      /\ imgPc' = [imgPc EXCEPT ![x] = "retire"]
  BY DEF UpdateChapterImgByIndex, TypeOK, chapterVars
<1>2. /\ faults' \in {faults, faults + 1}
      /\ \/ chapter' = chapter
         \/ chapter' = Appended(t) /\ ~tmDone
  BY DEF UpdateChapterImgByIndex, Succeeds, Fails, Left
<1>3. IsFiniteSet(known) /\ IsFiniteSet(imgTask)
  BY DEF CountInv
<1>4. \A m, name : Namesakes(m, name)' = Namesakes(m, name)
  BY <1>1 DEF Namesakes
<1>5. \A m, name : RowsOf(m, name)' = RowsOf(m, name)
  BY <1>1, <1>2, AppendedType DEF RowsOf
<1>6. RowsCounted'
  <2>1. \A m, name : MayRecord(m, name)' \subseteq MayRecord(m, name)
    BY <1>1, <1>4 DEF MayRecord, HasTask
  <2> QED
    BY <1>1, <1>2, <1>5, <2>1, RowsStayCounted
<1>7. ASSUME NEW k \in Key, k.manga \in Manga
      PROVE  /\ Cardinality(TasksOf(k)') + Cardinality(MayQueue(k)')
                  <= Budget(k.manga, k.chapter)'
             /\ \A n \in RowsOf(k.manga, k.chapter)' :
                  2 * (chapter'[n].imgs[k.idx]
                        + Cardinality(MayAppend(k)')
                        + Cardinality(MayQueue(k)'))
                    <= EntryBudget(k.manga, k.chapter)'
  <2>1. Room(k.manga, k.chapter, 0)
    BY <1>1, <1>2, <1>3, RoomStays
  <2>2. TasksOf(k)' = TasksOf(k) /\ MayQueue(k)' = MayQueue(k)
    BY <1>1, <1>4 DEF TasksOf, MayQueue, HasTask
  <2>3. IsFiniteSet(MayAppend(k))
    BY <1>3, CountTypes
  <2>4. Budget(k.manga, k.chapter) \in Nat /\ EntryBudget(k.manga, k.chapter) \in Nat
    BY <1>3, BudgetTypes
  <2>5. MayAppend(k)' \subseteq MayAppend(k) \ {t}
    BY <1>1, <2>2 DEF MayAppend, TasksOf, TypeOK, ImgTask
  <2>6. /\ Cardinality(MayAppend(k)') \in Nat
        /\ Cardinality(MayAppend(k)') <= Cardinality(MayAppend(k))
    BY <2>3, <2>5, CountPart
  <2>7. Cardinality(TasksOf(k)') + Cardinality(MayQueue(k)')
          <= Budget(k.manga, k.chapter)'
    BY <1>7, <2>1, <2>2, <2>4, Counts DEF Room
  <2>8. ASSUME NEW n \in RowsOf(k.manga, k.chapter)'
        PROVE  2 * (chapter'[n].imgs[k.idx]
                      + Cardinality(MayAppend(k)') + Cardinality(MayQueue(k)'))
                 <= EntryBudget(k.manga, k.chapter)'
    <3>1. /\ n \in RowsOf(k.manga, k.chapter)
          /\ chapter[n].imgs[k.idx] \in Nat
          /\ 2 * (chapter[n].imgs[k.idx]
                    + Cardinality(MayAppend(k)) + Cardinality(MayQueue(k)))
               <= EntryBudget(k.manga, k.chapter)
      BY <1>5, <1>7, Counts
    <3>2. CASE chapter'[n].imgs[k.idx] = chapter[n].imgs[k.idx]
      BY <1>7, <2>1, <2>2, <2>4, <2>6, <3>1, <3>2, Counts DEF Room
    <3>3. CASE chapter'[n].imgs[k.idx] # chapter[n].imgs[k.idx]
      <4>1. /\ chapter' = Appended(t) /\ ~tmDone
            /\ n \in DOMAIN chapter /\ k.idx \in Idx
        BY <1>2, <3>1, <3>3 DEF RowsOf, Key
      <4>2. /\ chapter'[n].imgs[k.idx] = chapter[n].imgs[k.idx] + 1
            /\ k.idx = t.idx /\ chapter[n].manga = t.manga
            /\ chapter[n].name = t.chapter
        BY <1>1, <3>3, <4>1, AppendedOne
      <4>3. KeyOf(t) = k
        BY <3>1, <4>2 DEF KeyOf, RowsOf, Key
      <4>4. t \in MayAppend(k)
        BY <1>1, <4>1, <4>3 DEF MayAppend, TasksOf
      <4>5. Cardinality(MayAppend(k)') <= Cardinality(MayAppend(k)) - 1
        BY <2>3, <2>5, <4>4, CountLess
      <4> QED
        BY <1>7, <2>1, <2>2, <2>4, <2>6, <3>1, <4>2, <4>5, Counts DEF Room
    <3> QED
      BY <3>2, <3>3
  <2> QED
    BY <2>7, <2>8
<1>8. TasksCounted' /\ EntriesCounted'
  BY <1>7 DEF TasksCounted, EntriesCounted
<1> QED
  BY <1>1, <1>3, <1>6, <1>8 DEF CountInv

(* An image task that stays after a failure may be worked on again; its    *)
(* key has a namesake, for the task is of a page.                          *)
LEMMA DeleteImgTaskCounted ==
  ASSUME TypeOK, OwnTasks, CountInv, NEW x \in Image, DeleteImgTask(x)
  PROVE  CountInv'
<1> DEFINE t == imgJob[x]
<1>1. /\ t \in imgTask /\ t \in ImgTask /\ t.url = x
      /\ UNCHANGED <<known, chapterTask, chapter, chapterPc, page, toQueue, tmDone>>
      /\ imgPc' = [imgPc EXCEPT ![x] = "off"]
  BY DEF DeleteImgTask, ReleaseImage, TypeOK, chapterVars
<1>2. /\ imgTask' \subseteq imgTask
      /\ \/ t \notin imgTask' /\ faults' = faults
         \/ tmDone /\ faults' = faults
         \/ faults' = faults + 1
  BY <1>1 DEF DeleteImgTask, Succeeds, Fails, Left, WithoutImgTask
<1>3. IsFiniteSet(known) /\ IsFiniteSet(imgTask)
  BY DEF CountInv
<1>4. IsFiniteSet(imgTask')
  BY <1>2, <1>3, CountPart
<1>5. \A m, name : Namesakes(m, name)' = Namesakes(m, name)
  BY <1>1 DEF Namesakes
<1>6. \A m, name : RowsOf(m, name)' = RowsOf(m, name)
  BY <1>1 DEF RowsOf
<1>7. RowsCounted'
  <2>1. \A m, name : MayRecord(m, name)' \subseteq MayRecord(m, name)
    BY <1>1, <1>5 DEF MayRecord, HasTask
  <2> QED
    BY <1>1, <1>2, <1>6, <2>1, RowsStayCounted
<1>8. ASSUME NEW k \in Key, k.manga \in Manga
      PROVE  /\ Cardinality(TasksOf(k)') + Cardinality(MayQueue(k)')
                  <= Budget(k.manga, k.chapter)'
             /\ \A n \in RowsOf(k.manga, k.chapter)' :
                  2 * (chapter'[n].imgs[k.idx]
                        + Cardinality(MayAppend(k)')
                        + Cardinality(MayQueue(k)'))
                    <= EntryBudget(k.manga, k.chapter)'
  <2>1. MayQueue(k)' = MayQueue(k)
    BY <1>1, <1>5 DEF MayQueue, HasTask
  <2>2. IsFiniteSet(TasksOf(k)) /\ IsFiniteSet(MayAppend(k))
    BY <1>3, CountTypes
  <2>3. TasksOf(k)' \subseteq TasksOf(k)
    BY <1>2 DEF TasksOf
  <2>4. /\ Cardinality(TasksOf(k)') \in Nat
        /\ Cardinality(TasksOf(k)') <= Cardinality(TasksOf(k))
    BY <2>2, <2>3, CountPart
  <2>5. Budget(k.manga, k.chapter) \in Nat /\ EntryBudget(k.manga, k.chapter) \in Nat
    BY <1>3, BudgetTypes
  <2>6. \E d \in {0, 1} :
          /\ Room(k.manga, k.chapter, d)
          /\ Cardinality(MayAppend(k)') \in Nat
          /\ Cardinality(MayAppend(k)') <= Cardinality(MayAppend(k)) + d
    <3>1. \A r \in MayAppend(k)' : r # t => r \in MayAppend(k)
      BY <1>1, <1>2, <2>3 DEF MayAppend, TasksOf, TypeOK, ImgTask
    <3>2. CASE t \in MayAppend(k)'
      <4>1. faults' = faults + 1 /\ KeyOf(t) = k
        BY <1>1, <1>2, <3>2 DEF MayAppend, TasksOf
      <4>2. IsOfAPage(t)
        BY <1>1 DEF OwnTasks
      <4>3. PICK c \in known : c \in Namesakes(k.manga, k.chapter)
        BY <4>1, <4>2 DEF IsOfAPage, Namesakes, KeyOf
      <4>4. Room(k.manga, k.chapter, 1)
        BY <1>1, <1>3, <4>1, <4>3, RoomByFault
      <4>5. MayAppend(k)' \subseteq MayAppend(k) \cup {t}
        BY <3>1
      <4> QED
        BY <2>2, <4>4, <4>5, CountMore
    <3>3. CASE t \notin MayAppend(k)'
      <4>1. MayAppend(k)' \subseteq MayAppend(k)
        BY <3>1, <3>3
      <4>2. Room(k.manga, k.chapter, 0)
        BY <1>1, <1>2, <1>3, RoomStays
      <4>3. /\ Cardinality(MayAppend(k)') \in Nat
            /\ Cardinality(MayAppend(k)) \in Nat
            /\ Cardinality(MayAppend(k)') <= Cardinality(MayAppend(k))
        BY <2>2, <4>1, CountPart
      <4> QED
        BY <4>2, <4>3
    <3> QED
      BY <3>2, <3>3
  <2>7. PICK d \in {0, 1} :
          /\ Budget(k.manga, k.chapter)' \in Nat
          /\ EntryBudget(k.manga, k.chapter)' \in Nat
          /\ Budget(k.manga, k.chapter)' >= Budget(k.manga, k.chapter) + d
          /\ EntryBudget(k.manga, k.chapter)'
               >= EntryBudget(k.manga, k.chapter) + 2 * d
          /\ Cardinality(MayAppend(k)') \in Nat
          /\ Cardinality(MayAppend(k)') <= Cardinality(MayAppend(k)) + d
    BY <2>6 DEF Room
  <2>8. Cardinality(TasksOf(k)') + Cardinality(MayQueue(k)')
          <= Budget(k.manga, k.chapter)'
    BY <1>8, <2>1, <2>4, <2>5, <2>7, Counts
  <2>9. ASSUME NEW n \in RowsOf(k.manga, k.chapter)'
        PROVE  2 * (chapter'[n].imgs[k.idx]
                      + Cardinality(MayAppend(k)') + Cardinality(MayQueue(k)'))
                 <= EntryBudget(k.manga, k.chapter)'
    <3>1. /\ chapter[n].imgs[k.idx] \in Nat /\ chapter' = chapter
          /\ 2 * (chapter[n].imgs[k.idx]
                    + Cardinality(MayAppend(k)) + Cardinality(MayQueue(k)))
               <= EntryBudget(k.manga, k.chapter)
      BY <1>1, <1>6, <1>8, Counts
    <3> QED
      BY <1>8, <2>1, <2>5, <2>7, <3>1, Counts
  <2> QED
    BY <2>8, <2>9
<1>9. TasksCounted' /\ EntriesCounted'
  BY <1>8 DEF TasksCounted, EntriesCounted
<1> QED
  BY <1>1, <1>3, <1>4, <1>7, <1>9 DEF CountInv

(* A restart lets every chapter start over and every image task be worked  *)
(* on again.                                                               *)
LEMMA RestartCounted ==
  ASSUME TypeOK, CountInv, Restart
  PROVE  CountInv'
<1>1. /\ UNCHANGED <<known, chapterTask, imgTask, chapter>>
      /\ faults' = faults + 1
  BY DEF Restart, tables
<1>2. IsFiniteSet(known) /\ IsFiniteSet(imgTask)
  BY DEF CountInv
<1>3. \A m, name : Namesakes(m, name)' = Namesakes(m, name)
  BY <1>1 DEF Namesakes
<1>4. \A m, name :
        /\ IsFiniteSet(Namesakes(m, name))
        /\ Cardinality(Namesakes(m, name)) \in Nat
        /\ Budget(m, name) \in Nat /\ EntryBudget(m, name) \in Nat
        /\ Budget(m, name)'
             = Budget(m, name) + Cardinality(Namesakes(m, name))
        /\ EntryBudget(m, name)'
             = EntryBudget(m, name) + 2 * Budget(m, name)
                 + 2 * Cardinality(Namesakes(m, name))
  BY <1>1, <1>2, CountTypes, BudgetTypes, BudgetGrows
<1>5. ASSUME NEW m \in Manga, NEW name \in Name
      PROVE  Cardinality(RowsOf(m, name)') + Cardinality(MayRecord(m, name)')
               <= Budget(m, name)'
  <2>1. RowsOf(m, name)' = RowsOf(m, name)
    BY <1>1 DEF RowsOf
  <2>2. MayRecord(m, name)' \subseteq Namesakes(m, name)
    BY <1>3 DEF MayRecord
  <2>3. /\ Cardinality(MayRecord(m, name)') \in Nat
        /\ Cardinality(MayRecord(m, name)') <= Cardinality(Namesakes(m, name))
    BY <1>4, <2>2, CountPart
  <2>4. /\ Cardinality(RowsOf(m, name)) \in Nat
        /\ Cardinality(MayRecord(m, name)) \in Nat
        /\ Cardinality(RowsOf(m, name)) + Cardinality(MayRecord(m, name))
             <= Budget(m, name)
    BY <1>2, CountTypes, FS_CardinalityType DEF CountInv, RowsCounted
  <2> QED
    BY <1>4, <2>1, <2>3, <2>4
<1>6. ASSUME NEW k \in Key, k.manga \in Manga
      PROVE  /\ Cardinality(TasksOf(k)') + Cardinality(MayQueue(k)')
                  <= Budget(k.manga, k.chapter)'
             /\ \A n \in RowsOf(k.manga, k.chapter)' :
                  2 * (chapter'[n].imgs[k.idx]
                        + Cardinality(MayAppend(k)')
                        + Cardinality(MayQueue(k)'))
                    <= EntryBudget(k.manga, k.chapter)'
  <2>1. /\ TasksOf(k)' = TasksOf(k)
        /\ RowsOf(k.manga, k.chapter)' = RowsOf(k.manga, k.chapter)
    BY <1>1 DEF TasksOf, RowsOf
  <2>2. MayQueue(k)' \subseteq Namesakes(k.manga, k.chapter)
    BY <1>3 DEF MayQueue
  <2>3. MayAppend(k)' \subseteq TasksOf(k)
    BY <2>1 DEF MayAppend
  <2>4. /\ Cardinality(MayQueue(k)') \in Nat
        /\ Cardinality(MayQueue(k)')
             <= Cardinality(Namesakes(k.manga, k.chapter))
    BY <1>4, <2>2, CountPart
  <2>5. /\ Cardinality(MayAppend(k)') \in Nat
        /\ Cardinality(MayAppend(k)') <= Cardinality(TasksOf(k))
    BY <1>2, <2>3, CountTypes, CountPart
  <2>6. ASSUME NEW n \in RowsOf(k.manga, k.chapter)'
        PROVE  2 * (chapter'[n].imgs[k.idx]
                      + Cardinality(MayAppend(k)') + Cardinality(MayQueue(k)'))
                 <= EntryBudget(k.manga, k.chapter)'
    <3>1. /\ chapter[n].imgs[k.idx] \in Nat /\ chapter' = chapter
          /\ 2 * (chapter[n].imgs[k.idx]
                    + Cardinality(MayAppend(k)) + Cardinality(MayQueue(k)))
               <= EntryBudget(k.manga, k.chapter)
      BY <1>1, <1>6, <2>1, Counts
    <3> QED
      BY <1>4, <1>6, <2>4, <2>5, <3>1, Counts
  <2> QED
    BY <1>4, <1>6, <2>1, <2>4, <2>6, Counts
<1>7. RowsCounted' /\ TasksCounted' /\ EntriesCounted'
  BY <1>5, <1>6 DEF RowsCounted, TasksCounted, EntriesCounted
<1> QED
  BY <1>1, <1>2, <1>7 DEF CountInv

(* Every step keeps the counts.                                            *)
LEMMA NextCounted == IInv /\ CountInv /\ [Next]_vars => CountInv'
<1> SUFFICES ASSUME IInv, CountInv, [Next]_vars PROVE CountInv'
  OBVIOUS
<1>1. TypeOK /\ OwnTasks
  BY DEF IInv
<1>2. ASSUME NEW c \in ChapterUrl, CreateChapterTask(c) PROVE CountInv'
  BY <1>1, <1>2, CreateChapterTaskCounted
<1>3. ASSUME NEW c \in ChapterUrl, QueueAgain(c) PROVE CountInv'
  <2>1. /\ UNCHANGED <<known, imgTask, chapter, imgPc, tmDone>>
        /\ UNCHANGED <<chapterPc, page, toQueue>>
        /\ faults' = faults + 1
        /\ \A d \in known \ {c} : HasTask(d)' => HasTask(d)
    BY <1>3 DEF QueueAgain, chapterVars, imgVars, HasTask
  <2> QED
    BY <1>1, <2>1, StartsOverCounted
<1>4. ASSUME NEW c \in ChapterUrl, ChapterStep(c) PROVE CountInv'
  BY <1>1, <1>4, QuietStepsCounted, CreateImgTaskCounted, CreateChapterCounted,
     DeleteChapterTaskCounted DEF ChapterStep
<1>5. ASSUME NEW x \in Image, ImageStep(x) PROVE CountInv'
  BY <1>1, <1>5, QuietStepsCounted, UpdateCounted, DeleteImgTaskCounted
     DEF ImageStep
<1>6. CASE GetChapterTasks \/ GetImgTasks \/ Cancel \/ UNCHANGED vars
  BY <1>1, <1>6, QuietStepsCounted
<1>7. CASE Restart
  BY <1>1, <1>7, RestartCounted
<1> QED
  BY <1>2, <1>3, <1>4, <1>5, <1>6, <1>7 DEF Next

(* What may still be done is always paid for by the budgets.               *)
THEOREM CountsHold == Spec => []CountInv
<1>1. Init => CountInv
  <2> SUFFICES ASSUME Init PROVE CountInv
    OBVIOUS
  <2>1. faults = 0 /\ known = {} /\ imgTask = {} /\ chapter = <<>>
    BY DEF Init
  <2>2. \A m, name :
          /\ Namesakes(m, name) = {} /\ RowsOf(m, name) = {}
          /\ MayRecord(m, name) = {}
    BY <2>1 DEF Namesakes, RowsOf, MayRecord
  <2>3. \A k : TasksOf(k) = {} /\ MayQueue(k) = {}
    BY <2>1, <2>2 DEF TasksOf, MayQueue
  <2>4. ASSUME NEW m, NEW name PROVE Budget(m, name) = 0
    <3>1. Cardinality(Namesakes(m, name)) = 0
      BY <2>2, CountNone
    <3> QED
      BY <2>1, <3>1 DEF Budget
  <2>5. RowsCounted /\ TasksCounted /\ EntriesCounted
    BY <2>2, <2>3, <2>4, CountNone DEF RowsCounted, TasksCounted, EntriesCounted
  <2> QED
    BY <2>1, <2>5, CountNone DEF CountInv
<1>2. IInv /\ IInv' /\ CountInv /\ [Next]_vars => CountInv'
  BY NextCounted
<1> QED
  BY <1>1, <1>2, InvariantHolds, PTL DEF Spec

(* A name has no more rows than chapters that go by it, and one more of    *)
(* each for every failure, restart or late look at the names.              *)
THEOREM RowsStayBounded == Spec => []RowsBounded
<1>1. IInv /\ CountInv => RowsBounded
  <2> SUFFICES ASSUME TypeOK, CountInv, NEW m \in Manga, NEW name \in Name
               PROVE  Cardinality(RowsOf(m, name))
                        <= Cardinality(Namesakes(m, name)) * (1 + faults)
    BY DEF IInv, RowsBounded
  <2>1. IsFiniteSet(known) /\ IsFiniteSet(imgTask)
    BY DEF CountInv
  <2>2. /\ Cardinality(RowsOf(m, name)) \in Nat
        /\ Cardinality(MayRecord(m, name)) \in Nat
        /\ Budget(m, name) \in Nat
    BY <2>1, CountTypes, FS_CardinalityType, BudgetTypes
  <2>3. Cardinality(RowsOf(m, name)) + Cardinality(MayRecord(m, name))
          <= Budget(m, name)
    BY DEF CountInv, RowsCounted
  <2>4. Cardinality(RowsOf(m, name)) <= Budget(m, name)
    BY <2>2, <2>3
  <2> QED
    BY <2>4 DEF Budget
<1> QED
  BY <1>1, InvariantHolds, CountsHold, PTL

(* A place of a row lists no more images than its chapters can have        *)
(* appended, with every failure and restart.                               *)
THEOREM EntriesStayBounded == Spec => []EntriesBounded
<1>1. IInv /\ CountInv => EntriesBounded
  <2> SUFFICES ASSUME TypeOK, CountInv, NEW n \in DOMAIN chapter, NEW i \in Idx
               PROVE  2 * chapter[n].imgs[i]
                        <= EntryBudget(chapter[n].manga, chapter[n].name)
    BY DEF IInv, EntriesBounded
  <2> DEFINE k == [manga |-> chapter[n].manga, chapter |-> chapter[n].name,
                   idx |-> i]
  <2>1. chapter[n] \in Row
    BY DEF TypeOK
  <2>2. k \in Key /\ k.manga \in Manga
    BY <2>1 DEF Row, Key, MangaId
  <2>3. n \in RowsOf(k.manga, k.chapter)
    BY DEF RowsOf
  <2>4. /\ chapter[n].imgs[k.idx] \in Nat
        /\ Cardinality(MayAppend(k)) \in Nat
        /\ Cardinality(MayQueue(k)) \in Nat
        /\ 2 * (chapter[n].imgs[k.idx]
                  + Cardinality(MayAppend(k)) + Cardinality(MayQueue(k)))
             <= EntryBudget(k.manga, k.chapter)
    BY <2>2, <2>3, Counts
  <2>5. IsFiniteSet(known)
    BY DEF CountInv
  <2>6. EntryBudget(k.manga, k.chapter) \in Nat
    BY <2>5, BudgetTypes
  <2> QED
    BY <2>4, <2>6
<1> QED
  BY <1>1, InvariantHolds, CountsHold, PTL

=============================================================================
