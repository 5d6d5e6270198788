------------------------------ MODULE ImageFetch ------------------------------
(***************************************************************************)
(* The attempts of handleImage, with time.  Each attempt makes a request   *)
(* context of 50 s, waits for a proxy without looking at that context, and *)
(* only then sends the request.  The pool is what ProxyPool shows it to be:*)
(* a client is free, leased to one handler, used elsewhere or removed.     *)
(***************************************************************************)
EXTENDS Naturals

CONSTANTS
  Handler,    \* image handlers
  Client,     \* clients of the pool
  NoClient,
  Healthy,    \* clients whose answers arrive whole and in time
  AnswerTime, \* the time they take at most
  Timeout,    \* that of the request context
  MaxRetries, \* attempts of a handler
  Good,       \* handlers whose url can be requested and has a body
  Broken      \* handlers whose url http.NewRequest refuses

(* The other handlers' bodies are empty.                                   *)
ASSUME FetchAssumption ==
  /\ NoClient \notin Client
  /\ Healthy \subseteq Client
  /\ AnswerTime \in Nat /\ Timeout \in Nat /\ MaxRetries \in Nat
  /\ Good \subseteq Handler /\ Broken \subseteq Handler \ Good

VARIABLES
  pc,      \* control of each handler
  tries,   \* its attempts left
  client,  \* the client it holds
  left,    \* what is left of its request context's time
  sent,    \* how long its request has been out
  bytes,   \* the attempt whose body imgBytes holds, or 0 when it is empty
  failed,  \* errImg # nil
  free,    \* clients a scan would find
  removed, \* clients that were marked bad
  tmDone,  \* TaskManager.ctx is done
  waited   \* history: how long the attempt waited for its client

handlerVars == <<pc, tries, client, left, sent, bytes, failed, waited>>
vars == <<handlerVars, free, removed, tmDone>>

Init ==
  /\ pc = [h \in Handler |-> "next"]
  /\ tries = [h \in Handler |-> MaxRetries]
  /\ client = [h \in Handler |-> NoClient]
  /\ left = [h \in Handler |-> 0]
  /\ sent = [h \in Handler |-> 0]
  /\ bytes = [h \in Handler |-> 0]
  /\ failed = [h \in Handler |-> FALSE]
  /\ free = Client
  /\ removed = {}
  /\ tmDone = FALSE
  /\ waited = [h \in Handler |-> 0]

-----------------------------------------------------------------------------
(* for range maxRetries: reqCtx, and a new wait.                           *)
Mut_StartAttemptOneContext(h) ==
  /\ pc[h] = "next" /\ tries[h] > 0
  /\ tries' = [tries EXCEPT ![h] = @ - 1]
  /\ left' = IF tries[h] = MaxRetries THEN [left EXCEPT ![h] = Timeout] ELSE left
  /\ waited' = [waited EXCEPT ![h] = 0]
  /\ pc' = [pc EXCEPT ![h] = "wait"]
  /\ UNCHANGED <<client, sent, bytes, failed, free, removed, tmDone>>
StartAttempt(h) ==
  /\ pc[h] = "next" /\ tries[h] > 0
  /\ tries' = [tries EXCEPT ![h] = @ - 1]
  /\ left' = [left EXCEPT ![h] = Timeout]
  /\ waited' = [waited EXCEPT ![h] = 0]
  /\ pc' = [pc EXCEPT ![h] = "wait"]
  /\ UNCHANGED <<client, sent, bytes, failed, free, removed, tmDone>>

(* GetAvailableProxyClient(tm.ctx), however long it takes.                 *)
GetClient(h) ==
  /\ pc[h] = "wait"
  /\ \E c \in free :
       /\ client' = [client EXCEPT ![h] = c]
       /\ free' = free \ {c}
  /\ sent' = [sent EXCEPT ![h] = 0]
  /\ pc' = [pc EXCEPT ![h] = "request"]
  /\ UNCHANGED <<tries, left, bytes, failed, removed, tmDone, waited>>

GetNoClient(h) ==
  /\ pc[h] = "wait" /\ tmDone
  /\ pc' = [pc EXCEPT ![h] = "next"]
  /\ UNCHANGED <<tries, client, left, sent, bytes, failed, waited>>
  /\ UNCHANGED <<free, removed, tmDone>>

(* MarkAsBad and continue.                                                 *)
MarkAsBad(h) ==
  /\ removed' = removed \cup {client[h]}
  /\ client' = [client EXCEPT ![h] = NoClient]
  /\ pc' = [pc EXCEPT ![h] = "next"]
  /\ UNCHANGED <<tries, left, sent, free, tmDone, waited>>

(* What ends a request without its answer: its url, its context, or the    *)
(* client.  The last image and the last error stay as they were.           *)
CutShort(h) == left[h] = 0 \/ tmDone
DoFails(h) ==
  /\ pc[h] = "request"
  /\ h \in Broken \/ CutShort(h) \/ client[h] \notin Healthy
  /\ MarkAsBad(h)
  /\ UNCHANGED <<bytes, failed>>

(* FilterImg returns no image and an error: the body is empty, or could    *)
(* not be read to its end.                                                 *)
FilterImgFails(h) ==
  /\ pc[h] = "request" /\ h \notin Broken
  /\ h \notin Good \/ CutShort(h) \/ client[h] \notin Healthy
  /\ bytes' = [bytes EXCEPT ![h] = 0]
  /\ failed' = [failed EXCEPT ![h] = TRUE]
  /\ MarkAsBad(h)

(* The number of the attempt a handler is in, or was last in.              *)
Attempt(h) == MaxRetries - tries[h]

(* MarkAsNotBusy and break.                                                *)
Mut_FilterImgSucceedsGoesOn(h) ==
  /\ pc[h] = "request" /\ h \in Good /\ ~CutShort(h)
  /\ bytes' = [bytes EXCEPT ![h] = Attempt(h)]
  /\ failed' = [failed EXCEPT ![h] = FALSE]
  /\ free' = free \cup {client[h]}
  /\ client' = [client EXCEPT ![h] = NoClient]
  /\ pc' = [pc EXCEPT ![h] = "next"]
  /\ UNCHANGED <<tries, left, sent, removed, tmDone, waited>>
FilterImgSucceeds(h) ==
  /\ pc[h] = "request" /\ h \in Good /\ ~CutShort(h)
  /\ bytes' = [bytes EXCEPT ![h] = Attempt(h)]
  /\ failed' = [failed EXCEPT ![h] = FALSE]
  /\ free' = free \cup {client[h]}
  /\ client' = [client EXCEPT ![h] = NoClient]
  /\ pc' = [pc EXCEPT ![h] = "spent"]
  /\ UNCHANGED <<tries, left, sent, removed, tmDone, waited>>

TriesSpent(h) ==
  /\ pc[h] = "next" /\ tries[h] = 0
  /\ pc' = [pc EXCEPT ![h] = "spent"]
  /\ UNCHANGED <<tries, client, left, sent, bytes, failed, waited>>
  /\ UNCHANGED <<free, removed, tmDone>>

(* errImg != nil || len(imgBytes) <= 0: nothing to upload.                 *)
AfterAttempts(h) ==
  /\ pc[h] = "spent"
  /\ pc' = [pc EXCEPT ![h] =
       IF failed[h] \/ bytes[h] = 0 THEN "off" ELSE "upload"]
  /\ UNCHANGED <<tries, client, left, sent, bytes, failed, waited>>
  /\ UNCHANGED <<free, removed, tmDone>>

-----------------------------------------------------------------------------
(* Handlers of other kinds, and the fill loop of the pool.                 *)
Held == {client[h] : h \in Handler} \ {NoClient}

LeaseElsewhere ==
  /\ \E c \in free : free' = free \ {c}
  /\ UNCHANGED <<handlerVars, removed, tmDone>>

ReturnElsewhere ==
  /\ \E c \in Client \ (free \cup Held) :
       free' = free \cup {c} /\ removed' = removed \ {c}
  /\ UNCHANGED <<handlerVars, tmDone>>

Cancel ==
  /\ ~tmDone
  /\ tmDone' = TRUE
  /\ UNCHANGED <<handlerVars, free, removed>>

(* Time passes.  It does not pass a context that is done or an answer that *)
(* is due; waited and left stop at their ends.                             *)
Due(h) ==
  pc[h] = "request" /\
    \/ CutShort(h) \/ h \in Broken
    \/ client[h] \in Healthy /\ sent[h] >= AnswerTime

Tick ==
  /\ \A h \in Handler : ~Due(h)
  /\ left' = [h \in Handler |-> IF left[h] > 0 THEN left[h] - 1 ELSE 0]
  /\ sent' = [h \in Handler |->
       IF pc[h] = "request" THEN sent[h] + 1 ELSE sent[h]]
  /\ waited' = [h \in Handler |->
       IF pc[h] = "wait" /\ waited[h] < Timeout THEN waited[h] + 1
       ELSE waited[h]]
  /\ UNCHANGED <<pc, tries, client, bytes, failed, free, removed, tmDone>>

HandlerStep(h) ==
  \/ StartAttempt(h) \/ GetClient(h) \/ GetNoClient(h)
  \/ DoFails(h) \/ FilterImgFails(h) \/ FilterImgSucceeds(h)
  \/ TriesSpent(h) \/ AfterAttempts(h)

Next ==
  \/ \E h \in Handler : HandlerStep(h)
  \/ LeaseElsewhere \/ ReturnElsewhere \/ Cancel \/ Tick

Spec == Init /\ [][Next]_vars

-----------------------------------------------------------------------------
(* Properties.                                                             *)

(* Every variable keeps its shape, and a handler holds a client during its *)
(* request only.                                                           *)
TypeOK ==
  /\ pc \in [Handler -> {"next", "wait", "request", "spent", "upload", "off"}]
  /\ tries \in [Handler -> 0..MaxRetries]
  /\ client \in [Handler -> Client \cup {NoClient}]
  /\ \A h \in Handler : client[h] # NoClient <=> pc[h] = "request"
  /\ left \in [Handler -> 0..Timeout]
  /\ sent \in [Handler -> 0..Timeout]
  /\ bytes \in [Handler -> 0..MaxRetries] /\ failed \in [Handler -> BOOLEAN]
  /\ free \subseteq Client /\ removed \subseteq Client
  /\ tmDone \in BOOLEAN
  /\ waited \in [Handler -> 0..Timeout]

(* handleImage removes a healthy client only for what is not the client's  *)
(* doing: a url that is no good, the end of the process, or a wait for the *)
(* client that left less than an answer takes.  The last is real: the      *)
(* longer the wait, the surer the client that ends it is removed.          *)
HealthyLostOnlyLate ==
  [][\A h \in Handler :
       client[h] \in Healthy /\ client[h] \in removed' \ removed =>
         h \notin Good \/ tmDone \/ waited[h] + AnswerTime >= Timeout]_vars

(* What goes to the bucket is the answer of the last attempt there was:    *)
(* imgBytes and errImg outlive an attempt, and those that end without a    *)
(* body of their own (no client, a failed request) leave both as they      *)
(* were, yet nothing an earlier attempt left behind is ever uploaded.      *)
UploadsLastAnswer ==
  \A h \in Handler :
    pc[h] = "upload" => h \in Good /\ bytes[h] = Attempt(h)

(* What the proofs add: a client has one holder, as ProxyPool's theorem    *)
(* has it, an attempt's time is the sum of its parts, and a body ends the  *)
(* attempts.                                                               *)
Exclusive ==
  \A h \in Handler : client[h] # NoClient =>
    /\ client[h] \notin free
    /\ \A g \in Handler : client[g] = client[h] => g = h

Timing ==
  \A h \in Handler :
    /\ pc[h] = "wait" => left[h] + waited[h] = Timeout
    /\ pc[h] = "request" => left[h] + waited[h] + sent[h] = Timeout
    /\ pc[h] = "request" /\ client[h] \in Healthy /\ h \in Good =>
         sent[h] <= AnswerTime

EndsAttempts ==
  \A h \in Handler : bytes[h] # 0 =>
    /\ pc[h] \in {"spent", "upload", "off"}
    /\ h \in Good /\ bytes[h] = Attempt(h)

IInv == TypeOK /\ Exclusive /\ Timing /\ EndsAttempts /\ UploadsLastAnswer
=============================================================================
