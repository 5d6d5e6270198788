------------------------------ MODULE ChapterPage ------------------------------
(***************************************************************************)
(* GetImgFromChapter: the script that scrolls through a chapter's page so  *)
(* that its images load, and what is read from the page.  The script is an *)
(* async function whose promise nobody awaits: Evaluate returns when it    *)
(* reaches its first sleep, and the list is collected while the script     *)
(* goes on in the browser, for as long as there is one.  The browser loads *)
(* lazily, at its own pace, and any image may never come.                  *)
(***************************************************************************)
EXTENDS Naturals, Sequences, FiniteSets

CONSTANTS
  Src,           \* image urls
  Page,          \* the url of each <img>, in the order of the document
  MaxIterations, \* of the scroll loop
  MaxStable      \* "stableTries >= 2"

Element == 1..Len(Page)

ASSUME PageAssumption ==
  /\ Page \in Seq(Src)
  /\ MaxIterations \in Nat \ {0} /\ MaxStable \in Nat \ {0}

VARIABLES
  rendered,    \* how many elements the document has so far
  state,       \* "idle", then "begun" (it has a currentSrc), then "loaded"
  script,      \* where the script is: its loop, its last sweep, its end
  iteration,   \* of the loop
  prevCount,   \* images counted when the count last changed
  stableTries, \* how often it has not since
  pc,          \* where GetImgFromChapter is
  images,      \* ChapterInfo.Images
  missed       \* history: the elements without a currentSrc at that time

document == <<rendered, state>>
loop == <<iteration, prevCount, stableTries>>
result == <<pc, images, missed>>
vars == <<document, script, loop, result>>

(* WaitVisible has seen an image, and the script has been started.         *)
Init ==
  /\ rendered \in Element
  /\ state = [e \in Element |-> "idle"]
  /\ script = "loop"
  /\ iteration = 0
  /\ prevCount = 0
  /\ stableTries = 0
  /\ pc = "collect"
  /\ images = <<>>
  /\ missed = {}

(* The function has returned, and its deferred calls have closed the       *)
(* browser and with it the page and the script.                            *)
Ended == pc \in {"done", "failed"}

-----------------------------------------------------------------------------
(* The browser.                                                            *)

Render ==
  /\ ~Ended /\ rendered < Len(Page)
  /\ rendered' = rendered + 1
  /\ UNCHANGED <<state, script, loop, result>>

Load ==
  /\ ~Ended
  /\ \E e \in 1..rendered :
       \/ state[e] = "idle" /\ state' = [state EXCEPT ![e] = "begun"]
       \/ state[e] = "begun" /\ state' = [state EXCEPT ![e] = "loaded"]
  /\ UNCHANGED <<rendered, script, loop, result>>

-----------------------------------------------------------------------------
(* The script.                                                             *)

LoadedCount == Cardinality({e \in 1..rendered : state[e] = "loaded"})

(* One iteration, after its scrolling: count, then break or go on.         *)
Mut_PollOneMore ==
  /\ ~Ended /\ script = "loop"
  /\ iteration' = iteration + 1
  /\ prevCount' = LoadedCount
  /\ stableTries' = IF LoadedCount = prevCount THEN stableTries + 1 ELSE 0
  /\ script' = IF \/ stableTries' > MaxStable
                  \/ LoadedCount >= rendered
                  \/ iteration' = MaxIterations
               THEN "sweep" ELSE "loop"
  /\ UNCHANGED <<document, result>>
Poll ==
  /\ ~Ended /\ script = "loop"
  /\ iteration' = iteration + 1
  /\ prevCount' = LoadedCount
  /\ stableTries' = IF LoadedCount = prevCount THEN stableTries + 1 ELSE 0
  /\ script' = IF \/ stableTries' >= MaxStable
                  \/ LoadedCount >= rendered
                  \/ iteration' = MaxIterations
               THEN "sweep" ELSE "loop"
  /\ UNCHANGED <<document, result>>

(* Down the page once more in eight steps.  Nobody hears that it is over.  *)
Sweep ==
  /\ ~Ended /\ script = "sweep"
  /\ script' = "ended"
  /\ UNCHANGED <<document, loop, result>>

-----------------------------------------------------------------------------
(* What is read from the page, wherever the script is.                     *)

(* The elements in S in the order of the document: as many of them as its  *)
(* place come before and with each.                                        *)
PlaceIn(S, e) == Cardinality({f \in S : f <= e})
InOrder(S) == [k \in 1..Cardinality(S) |-> CHOOSE e \in S : PlaceIn(S, e) = k]

UrlsOf(S) == [k \in 1..Cardinality(S) |-> Page[InOrder(S)[k]]]

(* The first element of each url, of the elements in S, in order.          *)
Firsts(S) == {e \in S : \A f \in S : f < e => Page[f] # Page[e]}

Mut_UniqueKeepsRepeats(S) == UrlsOf(S)
Unique(S) == UrlsOf(Firsts(S))

(* Whatever has a currentSrc by now is collected, loaded or not.           *)
WithSrc == {e \in 1..rendered : state[e] # "idle"}

Mut_CollectLoadedOnly ==
  /\ pc = "collect"
  /\ images' = Unique({e \in WithSrc : state[e] = "loaded"})
  /\ missed' = Element \ WithSrc
  /\ pc' = "check"
  /\ UNCHANGED <<document, script, loop>>
Collect ==
  /\ pc = "collect"
  /\ images' = Unique(WithSrc)
  /\ missed' = Element \ WithSrc
  /\ pc' = "check"
  /\ UNCHANGED <<document, script, loop>>

(* The name is read last; it or the list of images may be empty.           *)
Finish ==
  /\ pc = "check"
  /\ \E named \in BOOLEAN :
       pc' = IF named /\ images # <<>> THEN "done" ELSE "failed"
  /\ UNCHANGED <<document, script, loop, images, missed>>

(* The browser or its three minutes end first.                             *)
GiveUp ==
  /\ ~Ended
  /\ pc' = "failed"
  /\ UNCHANGED <<document, script, loop, images, missed>>

Next == Render \/ Load \/ Poll \/ Sweep \/ Collect \/ Finish \/ GiveUp

Spec == Init /\ [][Next]_vars

-----------------------------------------------------------------------------
(* Properties.                                                             *)

(* The script's variables stay within the bounds of its loop.              *)
TypeOK ==
  /\ rendered \in Element
  /\ state \in [Element -> {"idle", "begun", "loaded"}]
  /\ script \in {"loop", "sweep", "ended"}
  /\ iteration \in 0..MaxIterations
  /\ prevCount \in 0..rendered
  /\ stableTries \in 0..MaxStable
  /\ script = "loop" => iteration < MaxIterations /\ stableTries < MaxStable
  /\ pc \in {"collect", "check", "done", "failed"}
  /\ images \in Seq(Src)
  /\ missed \subseteq Element

(* What handleChapter gets is what TaskPipeline assumes of a page: images, *)
(* none of them twice, in the order of the page.                           *)
ListOfThePage ==
  pc = "done" =>
    /\ images # <<>>
    /\ \A i, j \in DOMAIN images : i < j =>
         /\ images[i] # images[j]
         /\ \E e, f \in Element :
              e < f /\ Page[e] = images[i] /\ Page[f] = images[j]

(* An image is listed, and then stored, under its own place on the page,   *)
(* however little had loaded, unless an element before it had no           *)
(* currentSrc yet when the list was collected: only such a gap moves what  *)
(* follows it to another index.  That gaps are few is nowhere seen to, as  *)
(* nobody waits for the scrolling.                                         *)
Whole == Unique(Element)

ShiftedOnlyByAGap ==
  pc = "done" => \A i \in DOMAIN images :
    \/ i \in DOMAIN Whole /\ images[i] = Whole[i]
    \/ \E m \in missed : \A f \in Element \ missed : Page[f] = images[i] => m < f

(* What the proofs add: what has been collected.                           *)
Collected ==
  /\ pc = "collect" => images = <<>>
  /\ pc \in {"check", "done"} => images = Unique(Element \ missed)
  /\ pc = "done" => images # <<>>

IInv == TypeOK /\ Collected
=============================================================================
