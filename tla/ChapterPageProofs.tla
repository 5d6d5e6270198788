-------------------------- MODULE ChapterPageProofs --------------------------
(***************************************************************************)
(* Theorems about ChapterPage, for every page, however long, and any       *)
(* number of iterations and of tries.                                      *)
(***************************************************************************)
EXTENDS ChapterPage, FiniteSetTheorems, TLAPS

-----------------------------------------------------------------------------
(* Elements in the order of the document.                                  *)

(* Elements can be counted.                                                *)
LEMMA ElementsCount ==
  ASSUME NEW S \in SUBSET Element
  PROVE  /\ IsFiniteSet(S) /\ Cardinality(S) \in Nat
         /\ \A T \in SUBSET S :
              /\ IsFiniteSet(T) /\ Cardinality(T) \in Nat
              /\ Cardinality(T) <= Cardinality(S)
<1>1. IsFiniteSet(Element)
  <2>1. Len(Page) \in Nat
    BY PageAssumption
  <2> QED
    BY <2>1, FS_Interval DEF Element
<1>2. IsFiniteSet(S)
  BY <1>1, FS_Subset
<1>3. \A T \in SUBSET S :
        /\ IsFiniteSet(T) /\ Cardinality(T) <= Cardinality(S)
  BY <1>2, FS_Subset
<1> QED
  BY <1>2, <1>3, FS_CardinalityType

(* The place of an element is one of as many as there are, and a later     *)
(* element has a later place.                                              *)
LEMMA PlaceType ==
  ASSUME NEW S \in SUBSET Element, NEW e \in S
  PROVE  PlaceIn(S, e) \in 1..Cardinality(S)
<1> DEFINE T == {f \in S : f <= e}
<1>1. /\ IsFiniteSet(T) /\ Cardinality(T) \in Nat /\ Cardinality(S) \in Nat
      /\ Cardinality(T) <= Cardinality(S)
  <2>1. T \in SUBSET S
    OBVIOUS
  <2> HIDE DEF T
  <2> QED
    BY <2>1, ElementsCount
<1>2. e \in T
  BY DEF Element
<1>3. Cardinality(T) # 0
  BY <1>1, <1>2, FS_EmptySet
<1> QED
  BY <1>1, <1>3 DEF PlaceIn

LEMMA LaterPlace ==
  ASSUME NEW S \in SUBSET Element, NEW e \in S, NEW f \in S, e < f
  PROVE  PlaceIn(S, e) < PlaceIn(S, f)
<1> DEFINE T == {g \in S : g <= e}
           U == {g \in S : g <= f}
<1>1. T \subseteq U \ {f} /\ f \in U /\ U \subseteq S
  <2>1. \A g \in S : g \in Nat
    BY DEF Element
  <2>2. ASSUME NEW g \in S, g <= e
        PROVE  g <= f /\ g # f
    BY <2>1, <2>2
  <2>3. f <= f
    BY <2>1
  <2> QED
    BY <2>2, <2>3
<1> HIDE DEF T, U
<1>2. /\ IsFiniteSet(U) /\ Cardinality(U) \in Nat
  BY <1>1, ElementsCount
<1>3. /\ IsFiniteSet(U \ {f})
      /\ Cardinality(U \ {f}) = Cardinality(U) - 1
  BY <1>1, <1>2, FS_RemoveElement
<1>4. /\ IsFiniteSet(T) /\ Cardinality(T) <= Cardinality(U \ {f})
  BY <1>1, <1>3, FS_Subset
<1>5. Cardinality(T) \in Nat
  BY <1>4, FS_CardinalityType
<1>6. Cardinality(T) < Cardinality(U)
  BY <1>2, <1>3, <1>4, <1>5
<1> QED
  BY <1>6 DEF PlaceIn, T, U

(* Every place is taken.                                                   *)
LEMMA EveryPlace ==
  ASSUME NEW S \in SUBSET Element, NEW k \in 1..Cardinality(S)
  PROVE  \E e \in S : PlaceIn(S, e) = k
<1> DEFINE n == Cardinality(S)
           places == {PlaceIn(S, e) : e \in S}
           place == [e \in S |-> PlaceIn(S, e)]
<1>1. IsFiniteSet(S) /\ n \in Nat
  BY ElementsCount
<1>2. places \subseteq 1..n
  BY PlaceType
<1>3. place \in Bijection(S, places)
  <2>1. place \in [S -> places] /\ place \in Surjection(S, places)
    BY DEF Surjection
  <2>2. ASSUME NEW e \in S, NEW f \in S, place[e] = place[f]
        PROVE  e = f
    <3>1. PlaceIn(S, e) = PlaceIn(S, f)
      BY <2>2
    <3>2. PlaceIn(S, e) \in Nat /\ PlaceIn(S, f) \in Nat
      BY PlaceType, <1>1
    <3>3. ~(e < f) /\ ~(f < e)
      BY <3>1, <3>2, LaterPlace
    <3> QED
      BY <3>3, PageAssumption DEF Element
  <2>3. place \in Injection(S, places)
    BY <2>1, <2>2 DEF Injection, IsInjective
  <2> QED
    BY <2>1, <2>3 DEF Bijection
<1>4. Cardinality(places) = n
  <2>1. ExistsBijection(S, places)
    BY <1>3 DEF ExistsBijection
  <2> HIDE DEF places, place
  <2> QED
    BY <1>1, <2>1, FS_Bijection
<1>5. IsFiniteSet(1..n) /\ Cardinality(1..n) = n
  BY <1>1, FS_Interval
<1> HIDE DEF places
<1>6. places = 1..n
  BY <1>2, <1>4, <1>5, FS_Subset
<1> QED
  BY <1>6 DEF places

(* InOrder lists the elements of a set, the earlier first.                 *)
LEMMA InOrderType ==
  ASSUME NEW S \in SUBSET Element
  PROVE  /\ DOMAIN InOrder(S) = 1..Cardinality(S)
         /\ \A k \in 1..Cardinality(S) :
              InOrder(S)[k] \in S /\ PlaceIn(S, InOrder(S)[k]) = k
         /\ \A j, k \in 1..Cardinality(S) : j < k => InOrder(S)[j] < InOrder(S)[k]
<1>1. \A k \in 1..Cardinality(S) :
        InOrder(S)[k] \in S /\ PlaceIn(S, InOrder(S)[k]) = k
  BY EveryPlace DEF InOrder
<1>2. ASSUME NEW j \in 1..Cardinality(S), NEW k \in 1..Cardinality(S), j < k
      PROVE  InOrder(S)[j] < InOrder(S)[k]
  <2> DEFINE e == InOrder(S)[j]
             f == InOrder(S)[k]
  <2>1. e \in S /\ f \in S /\ PlaceIn(S, e) = j /\ PlaceIn(S, f) = k
    BY <1>1
  <2> HIDE DEF e, f
  <2>2. e # f
    BY <1>2, <2>1
  <2>3. ~(f < e)
    BY <1>2, <2>1, LaterPlace
  <2>4. e \in Nat /\ f \in Nat
    BY <2>1 DEF Element
  <2> QED
    BY <2>2, <2>3, <2>4 DEF e, f
<1> QED
  BY <1>1, <1>2 DEF InOrder

(* The urls of a set of elements are a list of urls, and nothing but those *)
(* of no elements is empty.                                                *)
LEMMA UniqueType ==
  ASSUME NEW S \in SUBSET Element
  PROVE  /\ Unique(S) \in Seq(Src)
         /\ DOMAIN Unique(S) = 1..Cardinality(Firsts(S))
<1> DEFINE T == Firsts(S)
<1>1. T \in SUBSET Element /\ Cardinality(T) \in Nat
  <2>1. T \in SUBSET Element
    BY DEF Firsts
  <2> QED
    BY <2>1, ElementsCount
<1>2. ASSUME NEW k \in 1..Cardinality(T)
      PROVE  Page[InOrder(T)[k]] \in Src
  <2>1. InOrder(T)[k] \in Element
    BY <1>1, InOrderType
  <2> QED
    BY <2>1, PageAssumption DEF Element
<1>3. Unique(S) = [k \in 1..Cardinality(T) |-> Page[InOrder(T)[k]]]
  BY DEF Unique, UrlsOf
<1> HIDE DEF T
<1>4. Unique(S) \in [1..Cardinality(T) -> Src]
  BY <1>2, <1>3
<1> QED
  BY <1>1, <1>3, <1>4 DEF T

(* No url is listed twice, and they are in the order of the page.          *)
LEMMA UniqueOrdered ==
  ASSUME NEW S \in SUBSET Element,
         NEW i \in DOMAIN Unique(S), NEW j \in DOMAIN Unique(S), i < j
  PROVE  /\ Unique(S)[i] # Unique(S)[j]
         /\ \E e, f \in Element :
              e < f /\ Page[e] = Unique(S)[i] /\ Page[f] = Unique(S)[j]
<1> DEFINE T == Firsts(S)
           e == InOrder(T)[i]
           f == InOrder(T)[j]
<1>1. T \in SUBSET Element /\ T \subseteq S
  BY DEF Firsts
<1>2. i \in 1..Cardinality(T) /\ j \in 1..Cardinality(T)
  BY UniqueType
<1>3. e \in T /\ f \in T /\ e < f
  BY <1>1, <1>2, InOrderType
<1>4. Unique(S)[i] = Page[e] /\ Unique(S)[j] = Page[f]
  BY <1>2 DEF Unique, UrlsOf
<1> HIDE DEF e, f
<1>5. Page[e] # Page[f]
  BY <1>3 DEF Firsts
<1> QED
  BY <1>1, <1>3, <1>4, <1>5

(* Where nothing is missing before an element, it has the place among the  *)
(* elements that are there that it has among all.                          *)
LEMMA PlaceBeforeGaps ==
  ASSUME NEW S \in SUBSET Element, NEW i \in DOMAIN Unique(S),
         \A m \in Element \ S : InOrder(Firsts(S))[i] <= m
  PROVE  i \in DOMAIN Whole /\ Unique(S)[i] = Whole[i]
<1> DEFINE T == Firsts(S)
           W == Firsts(Element)
           e == InOrder(T)[i]
<1>1. T \in SUBSET Element /\ W \in SUBSET Element
  BY DEF Firsts
<1>2. i \in 1..Cardinality(T)
  BY UniqueType
<1>3. e \in T /\ e \in S /\ PlaceIn(T, e) = i
  <2>1. e \in T /\ PlaceIn(T, e) = i
    BY <1>1, <1>2, InOrderType
  <2> QED
    BY <2>1 DEF Firsts
<1>4. Unique(S)[i] = Page[e]
  BY <1>2 DEF Unique, UrlsOf
<1>5. \A m \in Element \ S : e <= m
  OBVIOUS
<1> HIDE DEF e
<1>6. Element \subseteq Nat
  BY DEF Element
<1>7. \A f \in Element : f <= e => f \in S
  BY <1>3, <1>5, <1>6
<1>8. \A f \in Element : f <= e => (f \in T <=> f \in W)
  <2> SUFFICES ASSUME NEW f \in Element, f <= e
               PROVE  f \in T <=> f \in W
    OBVIOUS
  <2>1. \A g \in Element : g < f => g \in S
    BY <1>3, <1>6, <1>7
  <2>2. f \in S
    BY <1>7
  <2> QED
    BY <2>1, <2>2 DEF Firsts
<1>9. {f \in T : f <= e} = {f \in W : f <= e}
  BY <1>1, <1>8
<1>10. e \in W /\ PlaceIn(W, e) = i
  <2>1. e \in W
    BY <1>1, <1>3, <1>6, <1>8
  <2>2. PlaceIn(W, e) = PlaceIn(T, e)
    BY <1>9 DEF PlaceIn
  <2> QED
    BY <2>1, <2>2, <1>3
<1> HIDE DEF T, W
<1>11. i \in 1..Cardinality(W)
  BY <1>1, <1>10, PlaceType
<1>12. InOrder(W)[i] = e
  <2> DEFINE d == InOrder(W)[i]
  <2>1. d \in W /\ PlaceIn(W, d) = i
    BY <1>1, <1>11, InOrderType
  <2> HIDE DEF d
  <2>2. i \in Nat
    BY <1>1, <1>11, ElementsCount
  <2>3. ~(d < e) /\ ~(e < d)
    BY <1>1, <1>10, <2>1, <2>2, LaterPlace
  <2>4. d = e
    BY <1>1, <1>6, <1>10, <2>1, <2>3
  <2> QED
    BY <2>4 DEF d
<1>13. i \in DOMAIN Whole /\ Whole[i] = Page[e]
  BY <1>11, <1>12 DEF Whole, Unique, UrlsOf, W
<1> QED
  BY <1>4, <1>13

(* The element listed at an index is the first one collected with its url. *)
LEMMA ListedIsFirst ==
  ASSUME NEW S \in SUBSET Element, NEW i \in DOMAIN Unique(S)
  PROVE  /\ InOrder(Firsts(S))[i] \in S
         /\ \A f \in S : Page[f] = Unique(S)[i] => InOrder(Firsts(S))[i] <= f
<1> DEFINE T == Firsts(S)
           e == InOrder(T)[i]
<1>1. T \in SUBSET Element /\ i \in 1..Cardinality(T)
  BY UniqueType DEF Firsts
<1>2. e \in T
  BY <1>1, InOrderType
<1>3. Unique(S)[i] = Page[e]
  BY <1>1 DEF Unique, UrlsOf
<1> HIDE DEF e
<1>4. e \in S /\ \A f \in S : f < e => Page[f] # Page[e]
  BY <1>2 DEF Firsts
<1>5. Element \subseteq Nat
  BY DEF Element
<1>6. \A f \in S : Page[f] = Unique(S)[i] => e <= f
  BY <1>3, <1>4, <1>5
<1> QED
  BY <1>4, <1>6 DEF e

-----------------------------------------------------------------------------
(* The script.                                                             *)

(* The images counted are among those rendered.                            *)
LEMMA CountedAmong ==
  ASSUME TypeOK
  PROVE  LoadedCount \in 0..rendered
<1> DEFINE L == {e \in 1..rendered : state[e] = "loaded"}
<1>1. rendered \in Nat
  BY DEF TypeOK, Element
<1>2. IsFiniteSet(1..rendered) /\ Cardinality(1..rendered) = rendered
  BY <1>1, FS_Interval
<1>3. IsFiniteSet(L) /\ Cardinality(L) <= rendered
  <2>1. L \subseteq 1..rendered
    OBVIOUS
  <2> HIDE DEF L
  <2> QED
    BY <1>2, <2>1, FS_Subset
<1>4. Cardinality(L) \in Nat
  BY <1>3, FS_CardinalityType
<1> QED
  BY <1>1, <1>3, <1>4 DEF LoadedCount

(* The elements of which something is collected are on the page.           *)
LEMMA PageElements ==
  ASSUME TypeOK
  PROVE  1..rendered \subseteq Element /\ WithSrc \in SUBSET Element
<1>1. Len(Page) \in Nat /\ rendered \in 1..Len(Page)
  BY PageAssumption DEF TypeOK, Element
<1>2. 1..rendered \subseteq Element
  BY <1>1 DEF Element
<1> QED
  BY <1>2 DEF WithSrc

LEMMA InitTypeOK ==
  ASSUME Init
  PROVE  TypeOK
<1>1. Len(Page) \in Nat /\ rendered \in Nat
  BY PageAssumption DEF Init, Element
<1> QED
  BY <1>1, PageAssumption DEF Init, TypeOK

(* One iteration keeps the loop within its bounds.                         *)
LEMMA PollTypeOK ==
  ASSUME TypeOK, Poll
  PROVE  TypeOK'
<1>1. LoadedCount \in 0..rendered /\ rendered \in Nat
  BY CountedAmong DEF TypeOK, Element
<1>2. /\ script = "loop" /\ iteration < MaxIterations /\ stableTries < MaxStable
      /\ iteration \in Nat /\ stableTries \in Nat
      /\ MaxIterations \in Nat /\ MaxStable \in Nat \ {0}
  BY PageAssumption DEF Poll, TypeOK
<1>3. /\ iteration' = iteration + 1
      /\ stableTries' \in {0, stableTries + 1}
      /\ prevCount' = LoadedCount
      /\ script' \in {"loop", "sweep"}
      /\ script' = "loop" =>
           iteration' # MaxIterations /\ ~(stableTries' >= MaxStable)
  BY DEF Poll
<1>4. iteration' \in 0..MaxIterations /\ stableTries' \in 0..MaxStable
  BY <1>2, <1>3
<1>5. script' = "loop" => iteration' < MaxIterations /\ stableTries' < MaxStable
  BY <1>2, <1>3, <1>4
<1>6. /\ rendered' = rendered /\ state' = state
      /\ pc' = pc /\ images' = images /\ missed' = missed
  BY DEF Poll, document, result
<1> QED
  BY <1>1, <1>3, <1>4, <1>5, <1>6 DEF TypeOK

LEMMA NextTypeOK ==
  ASSUME TypeOK, [Next]_vars
  PROVE  TypeOK'
<1>1. CASE Render
  <2>1. Len(Page) \in Nat /\ rendered \in Nat
    BY PageAssumption DEF TypeOK, Element
  <2>2. rendered' \in Element /\ prevCount \in 0..rendered'
    BY <1>1, <2>1 DEF Render, TypeOK, Element
  <2> QED
    BY <1>1, <2>2 DEF Render, TypeOK, loop, result
<1>2. CASE Load
  <2>1. state' \in [Element -> {"idle", "begun", "loaded"}]
    BY <1>2, PageElements DEF Load, TypeOK
  <2> QED
    BY <1>2, <2>1 DEF Load, TypeOK, loop, result
<1>3. CASE Poll
  BY <1>3, PollTypeOK
<1>4. CASE Sweep
  BY <1>4 DEF Sweep, TypeOK, document, loop, result
<1>5. CASE Collect
  <2>1. images' \in Seq(Src)
    BY <1>5, PageElements, UniqueType DEF Collect
  <2>2. missed' \subseteq Element
    BY <1>5 DEF Collect
  <2> QED
    BY <1>5, <2>1, <2>2 DEF Collect, TypeOK, document, loop
<1>6. CASE Finish
  BY <1>6 DEF Finish, TypeOK, document, loop
<1>7. CASE GiveUp
  BY <1>7 DEF GiveUp, TypeOK, document, loop
<1>8. CASE UNCHANGED vars
  BY <1>8 DEF vars, document, loop, result, TypeOK
<1> QED
  BY <1>1, <1>2, <1>3, <1>4, <1>5, <1>6, <1>7, <1>8 DEF Next

(* In every state the script's variables have the values its loop, which   *)
(* ends for the count of its iterations if for nothing else, gives them.   *)
THEOREM TypeCorrect == Spec => []TypeOK
<1>1. Init => TypeOK
  BY InitTypeOK
<1>2. TypeOK /\ [Next]_vars => TypeOK'
  BY NextTypeOK
<1> QED
  BY <1>1, <1>2, PTL DEF Spec

-----------------------------------------------------------------------------
(* What is collected.                                                      *)

(* The list is made once, of what is not missed, wherever the script is.   *)
LEMMA NextCollected ==
  ASSUME TypeOK, Collected, [Next]_vars
  PROVE  Collected'
<1>1. CASE Collect
  <2>1. WithSrc = Element \ (Element \ WithSrc)
    BY PageElements
  <2>2. /\ images' = Unique(WithSrc) /\ missed' = Element \ WithSrc
        /\ pc' = "check"
    BY <1>1 DEF Collect
  <2>3. images' = Unique(Element \ missed')
    BY <2>1, <2>2
  <2> QED
    BY <2>2, <2>3 DEF Collected
<1>2. CASE Finish
  <2>1. images' = images /\ missed' = missed /\ pc = "check"
    BY <1>2 DEF Finish
  <2>2. pc' \in {"done", "failed"} /\ (pc' = "done" => images # <<>>)
    BY <1>2 DEF Finish
  <2> QED
    BY <2>1, <2>2 DEF Collected
<1>3. CASE GiveUp
  BY <1>3 DEF GiveUp, Collected
<1>4. CASE Render \/ Load \/ Poll \/ Sweep \/ UNCHANGED vars
  <2>1. UNCHANGED <<pc, images, missed>>
    BY <1>4 DEF Render, Load, Poll, Sweep, vars, result
  <2> QED
    BY <2>1 DEF Collected
<1> QED
  BY <1>1, <1>2, <1>3, <1>4 DEF Next

(* The invariant: the loop within its bounds, and the list made of what    *)
(* was there when it was made.                                             *)
THEOREM InvariantHolds == Spec => []IInv
<1>1. Init => IInv
  BY InitTypeOK DEF Init, Collected, IInv
<1>2. IInv /\ [Next]_vars => IInv'
  BY NextTypeOK, NextCollected DEF IInv
<1> QED
  BY <1>1, <1>2, PTL DEF Spec

(* The list handleChapter gets is not empty, names no image twice and has  *)
(* them in the order of the page, whatever loads when.                     *)
THEOREM ListsThePage == Spec => []ListOfThePage
<1>1. IInv => ListOfThePage
  <2> SUFFICES ASSUME IInv, pc = "done"
               PROVE  /\ images # <<>>
                      /\ \A i, j \in DOMAIN images : i < j =>
                           /\ images[i] # images[j]
                           /\ \E e, f \in Element :
                                e < f /\ Page[e] = images[i] /\ Page[f] = images[j]
    BY DEF ListOfThePage
  <2>1. images # <<>>
    BY DEF IInv, Collected
  <2>2. PICK S \in SUBSET Element : images = Unique(S)
    BY DEF IInv, Collected
  <2> QED
    BY <2>1, <2>2, UniqueOrdered
<1> QED
  BY <1>1, InvariantHolds, PTL

(* Every image is listed under its own place on the page unless an element *)
(* before it had no currentSrc when the list was made.                     *)
THEOREM OnlyGapsShift == Spec => []ShiftedOnlyByAGap
<1>1. IInv => ShiftedOnlyByAGap
  <2> SUFFICES ASSUME IInv, pc = "done", NEW i \in DOMAIN images
               PROVE  \/ i \in DOMAIN Whole /\ images[i] = Whole[i]
                      \/ \E m \in missed : \A f \in Element \ missed :
                           Page[f] = images[i] => m < f
    BY DEF ShiftedOnlyByAGap
  <2> DEFINE S == Element \ missed
             e == InOrder(Firsts(S))[i]
  <2>1. S \in SUBSET Element /\ missed \subseteq Element /\ images = Unique(S)
    BY DEF IInv, TypeOK, Collected
  <2>2. e \in S /\ \A f \in S : Page[f] = images[i] => e <= f
    BY <2>1, ListedIsFirst
  <2>3. (\A m \in Element \ S : e <= m)
          => i \in DOMAIN Whole /\ images[i] = Whole[i]
    BY <2>1, PlaceBeforeGaps
  <2> HIDE DEF e
  <2>4. ASSUME NEW m \in Element \ S, ~(e <= m)
        PROVE  m \in missed /\ \A f \in S : Page[f] = images[i] => m < f
    <3>1. m \in Nat /\ e \in Nat /\ \A f \in S : f \in Nat
      BY <2>1, <2>2 DEF Element
    <3> QED
      BY <2>2, <2>4, <3>1
  <2> QED
    BY <2>3, <2>4
<1> QED
  BY <1>1, InvariantHolds, PTL

=============================================================================
