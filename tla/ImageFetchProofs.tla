--------------------------- MODULE ImageFetchProofs ---------------------------
(***************************************************************************)
(* Theorems about ImageFetch, for every number of handlers and clients and *)
(* every timeout.                                                          *)
(***************************************************************************)
EXTENDS ImageFetch, TLAPS

(* The invariant holds at the start.                                       *)
LEMMA InitIInv == Init => IInv
<1> SUFFICES ASSUME Init PROVE IInv
  OBVIOUS
<1>1. TypeOK
  <2>1. 0 \in 0..Timeout /\ 0 \in 0..MaxRetries /\ MaxRetries \in 0..MaxRetries
    BY FetchAssumption
  <2>2. \A h \in Handler : client[h] = NoClient /\ pc[h] = "next"
    BY DEF Init
  <2> QED
    BY <2>1, <2>2 DEF Init, TypeOK
<1>2. Exclusive /\ Timing /\ EndsAttempts /\ UploadsLastAnswer
  BY DEF Init, Exclusive, Timing, EndsAttempts, UploadsLastAnswer
<1> QED
  BY <1>1, <1>2 DEF IInv

(* Steps of a handler that take or give up no client.                      *)
LEMMA LoopIInv ==
  ASSUME IInv, NEW h \in Handler,
         \/ StartAttempt(h) \/ GetNoClient(h)
         \/ TriesSpent(h) \/ AfterAttempts(h)
  PROVE  IInv'
<1> USE FetchAssumption DEF IInv, TypeOK
<1>1. UNCHANGED <<client, free>>
  BY DEF StartAttempt, GetNoClient, TriesSpent, AfterAttempts
<1>2. Exclusive'
  BY <1>1 DEF Exclusive
<1>3. CASE StartAttempt(h)
  <2>1. TypeOK'
    BY <1>3 DEF StartAttempt
  <2>2. Timing' /\ UploadsLastAnswer'
    BY <1>3 DEF StartAttempt, Timing, UploadsLastAnswer, Attempt
  <2>3. EndsAttempts'
    BY <1>3 DEF StartAttempt, EndsAttempts, Attempt
  <2> QED
    BY <1>2, <2>1, <2>2, <2>3
<1>4. CASE GetNoClient(h)
  BY <1>2, <1>4 DEF GetNoClient, Timing, EndsAttempts, UploadsLastAnswer, Attempt
<1>5. CASE TriesSpent(h)
  BY <1>2, <1>5 DEF TriesSpent, Timing, EndsAttempts, UploadsLastAnswer, Attempt
<1>6. CASE AfterAttempts(h)
  <2>1. TypeOK' /\ Timing' /\ EndsAttempts'
    BY <1>6 DEF AfterAttempts, Timing, EndsAttempts, Attempt
  <2>2. /\ pc[h] = "spent" /\ UNCHANGED <<bytes, tries>>
        /\ pc' = [pc EXCEPT ![h] =
             IF failed[h] \/ bytes[h] = 0 THEN "off" ELSE "upload"]
    BY <1>6 DEF AfterAttempts
  <2>3. UploadsLastAnswer'
    BY <2>2 DEF EndsAttempts, UploadsLastAnswer, Attempt
  <2> QED
    BY <1>2, <2>1, <2>3
<1> QED
  BY <1>3, <1>4, <1>5, <1>6

(* A handler that is served becomes the only holder of its client.         *)
LEMMA GetClientIInv ==
  ASSUME IInv, NEW h \in Handler, GetClient(h)
  PROVE  IInv'
<1> USE FetchAssumption DEF IInv, TypeOK
<1>1. PICK c \in free :
        client' = [client EXCEPT ![h] = c] /\ free' = free \ {c}
  BY DEF GetClient
<1>2. /\ pc[h] = "wait" /\ pc' = [pc EXCEPT ![h] = "request"]
      /\ sent' = [sent EXCEPT ![h] = 0]
      /\ UNCHANGED <<tries, left, bytes, failed, removed, tmDone, waited>>
  BY DEF GetClient
<1>3. c \in Client /\ c # NoClient
  BY <1>1
<1>4. TypeOK'
  BY <1>1, <1>2, <1>3
<1>5. Exclusive'
  BY <1>1, <1>3 DEF Exclusive
<1>6. Timing'
  BY <1>1, <1>2 DEF Timing
<1>7. EndsAttempts' /\ UploadsLastAnswer'
  BY <1>2 DEF EndsAttempts, UploadsLastAnswer, Attempt
<1> QED
  BY <1>4, <1>5, <1>6, <1>7

(* A request that ends gives up its client and leaves the others alone.    *)
LEMMA RequestIInv ==
  ASSUME IInv, NEW h \in Handler,
         DoFails(h) \/ FilterImgFails(h) \/ FilterImgSucceeds(h)
  PROVE  IInv'
<1> USE FetchAssumption DEF IInv, TypeOK
<1>1. /\ pc[h] = "request" /\ client' = [client EXCEPT ![h] = NoClient]
      /\ pc' \in {[pc EXCEPT ![h] = "next"], [pc EXCEPT ![h] = "spent"]}
      /\ free' \in {free, free \cup {client[h]}}
      /\ removed' \in {removed, removed \cup {client[h]}}
      /\ UNCHANGED <<tries, left, sent, tmDone, waited>>
  BY DEF DoFails, FilterImgFails, FilterImgSucceeds, MarkAsBad
<1>2. client[h] \in Client
  BY <1>1
<1>3. /\ bytes' \in [Handler -> 0..MaxRetries] /\ failed' \in [Handler -> BOOLEAN]
      /\ \A g \in Handler : g # h => bytes'[g] = bytes[g]
      /\ \/ bytes'[h] \in {bytes[h], 0}
         \/ h \in Good /\ bytes'[h] = Attempt(h) /\ pc'[h] = "spent"
  <2>1. Attempt(h) \in 0..MaxRetries
    BY DEF Attempt
  <2>2. CASE DoFails(h)
    BY <2>2 DEF DoFails
  <2>3. CASE FilterImgFails(h)
    BY <2>3 DEF FilterImgFails
  <2>4. CASE FilterImgSucceeds(h)
    BY <2>1, <2>4 DEF FilterImgSucceeds
  <2> QED
    BY <2>2, <2>3, <2>4
<1>4. TypeOK'
  BY <1>1, <1>2, <1>3
<1>5. Exclusive'
  BY <1>1 DEF Exclusive
<1>6. Timing'
  BY <1>1 DEF Timing
<1>7. bytes[h] = 0
  BY <1>1 DEF EndsAttempts
<1>8. EndsAttempts' /\ UploadsLastAnswer'
  BY <1>1, <1>3, <1>7 DEF EndsAttempts, UploadsLastAnswer, Attempt
<1> QED
  BY <1>4, <1>5, <1>6, <1>8

(* Time does not pass the end of a request.                                *)
LEMMA TickIInv == ASSUME IInv, Tick PROVE IInv'
<1> USE FetchAssumption DEF IInv, TypeOK
<1>1. \A h \in Handler : ~Due(h)
  BY DEF Tick
<1>2. UNCHANGED <<pc, tries, client, bytes, failed, free, removed, tmDone>>
  BY DEF Tick
<1>3. ASSUME NEW h \in Handler
      PROVE  /\ left'[h] = IF left[h] > 0 THEN left[h] - 1 ELSE 0
             /\ sent'[h] = IF pc[h] = "request" THEN sent[h] + 1 ELSE sent[h]
             /\ waited'[h] = IF pc[h] = "wait" /\ waited[h] < Timeout
                             THEN waited[h] + 1 ELSE waited[h]
  BY DEF Tick
<1>4. ASSUME NEW h \in Handler, pc[h] = "request"
      PROVE  left[h] > 0 /\ (client[h] \in Healthy => sent[h] < AnswerTime)
  BY <1>1, <1>4 DEF Due, CutShort
<1>5. ASSUME NEW h \in Handler
      PROVE  left'[h] \in 0..Timeout /\ sent'[h] \in 0..Timeout
               /\ waited'[h] \in 0..Timeout
  BY <1>3, <1>4 DEF Timing
<1>6. /\ left' \in [Handler -> 0..Timeout] /\ sent' \in [Handler -> 0..Timeout]
      /\ waited' \in [Handler -> 0..Timeout]
  <2>1. /\ left' = [h \in Handler |-> left'[h]]
        /\ sent' = [h \in Handler |-> sent'[h]]
        /\ waited' = [h \in Handler |-> waited'[h]]
    BY DEF Tick
  <2> QED
    BY <1>5, <2>1
<1>7. TypeOK'
  BY <1>2, <1>6
<1>8. Exclusive' /\ EndsAttempts' /\ UploadsLastAnswer'
  BY <1>2 DEF Exclusive, EndsAttempts, UploadsLastAnswer, Attempt
<1>9. Timing'
  BY <1>2, <1>3, <1>4 DEF Timing
<1> QED
  BY <1>7, <1>8, <1>9

(* Every step keeps the invariant.                                         *)
LEMMA NextIInv == IInv /\ [Next]_vars => IInv'
<1> SUFFICES ASSUME IInv, [Next]_vars PROVE IInv'
  OBVIOUS
<1>1. CASE \E h \in Handler : HandlerStep(h)
  BY <1>1, LoopIInv, GetClientIInv, RequestIInv DEF HandlerStep
<1>2. CASE LeaseElsewhere \/ ReturnElsewhere \/ Cancel \/ UNCHANGED vars
  <2>1. /\ UNCHANGED handlerVars
        /\ free' \subseteq Client /\ removed' \subseteq Client
        /\ tmDone' \in BOOLEAN
        /\ \A h \in Handler : client[h] # NoClient =>
             (client[h] \in free' => client[h] \in free)
    BY <1>2 DEF IInv, TypeOK, LeaseElsewhere, ReturnElsewhere, Cancel, Held,
                vars, handlerVars
  <2> QED
    BY <2>1 DEF IInv, TypeOK, Exclusive, Timing, EndsAttempts,
                UploadsLastAnswer, Attempt, handlerVars
<1>3. CASE Tick
  BY <1>3, TickIInv
<1> QED
  BY <1>1, <1>2, <1>3 DEF Next

(* It holds in every reachable state.                                      *)
LEMMA Invariance == Spec => []IInv
BY InitIInv, NextIInv, PTL DEF Spec

(* The handlers' states keep their shape, and no timer passes its end.     *)
THEOREM TypeCorrect == Spec => []TypeOK
<1>1. IInv => TypeOK
  BY DEF IInv
<1> QED
  BY <1>1, Invariance, PTL

(* However the attempts before it ended, what handleImage uploads is the   *)
(* answer of the last one.                                                 *)
THEOREM LastAnswersOnly == Spec => []UploadsLastAnswer
<1>1. IInv => UploadsLastAnswer
  BY DEF IInv
<1> QED
  BY <1>1, Invariance, PTL

(* A healthy client is removed only after a wait that left too little of   *)
(* the 50 seconds, for a url that is no good, or at the end.               *)
THEOREM HealthyStay == Spec => HealthyLostOnlyLate
<1> DEFINE Kept == \A h \in Handler :
             client[h] \in Healthy /\ client[h] \in removed' \ removed =>
               h \notin Good \/ tmDone \/ waited[h] + AnswerTime >= Timeout
<1>1. ASSUME IInv, Next PROVE Kept
  <2> SUFFICES ASSUME NEW h \in Handler, client[h] \in Healthy,
                      client[h] \in removed' \ removed, h \in Good, ~tmDone
      PROVE  waited[h] + AnswerTime >= Timeout
    OBVIOUS
  <2>1. PICK g \in Handler :
          /\ DoFails(g) \/ FilterImgFails(g)
          /\ removed' = removed \cup {client[g]}
    BY <1>1 DEF Next, HandlerStep, StartAttempt, GetClient, GetNoClient,
         DoFails, FilterImgFails, FilterImgSucceeds, TriesSpent, AfterAttempts,
         MarkAsBad, LeaseElsewhere, ReturnElsewhere, Cancel, Tick
  <2>2. client[g] = client[h] /\ client[h] # NoClient
    BY <1>1, <2>1, FetchAssumption
  <2>3. g = h
    BY <1>1, <2>2 DEF IInv, Exclusive
  <2>4. pc[h] = "request" /\ left[h] = 0
    BY <2>1, <2>3, FetchAssumption DEF DoFails, FilterImgFails, CutShort
  <2>5. left[h] + waited[h] + sent[h] = Timeout /\ sent[h] <= AnswerTime
    BY <1>1, <2>4 DEF IInv, Timing
  <2>6. /\ sent[h] \in Nat /\ waited[h] \in Nat /\ left[h] \in Nat
        /\ Timeout \in Nat /\ AnswerTime \in Nat
    BY <1>1, FetchAssumption DEF IInv, TypeOK
  <2> QED
    BY <2>4, <2>5, <2>6
<1>2. IInv /\ [Next]_vars => [Kept]_vars
  BY <1>1
<1> QED
  BY <1>2, Invariance, PTL DEF Spec, HealthyLostOnlyLate
=============================================================================
