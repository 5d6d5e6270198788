------------------------------- MODULE Crawler -------------------------------
(***************************************************************************)
(* The life of the process: main starts the three workers of TaskManager,  *)
(* the workers run batches of handlers that share the clients of one pool, *)
(* and two contexts end it all, the one of main by a signal, the one of    *)
(* the task manager also by an empty page of the listing.  What handlers   *)
(* do to the tables is the subject of MangaIntake and TaskPipeline, and    *)
(* how a client is found, or marked bad a second time, that of ProxyPool:  *)
(* here a client is one of a number, and when one is free somebody gets it.*)
(***************************************************************************)
EXTENDS Naturals, FiniteSets

CONSTANTS
  PageHandlers,     \* goroutines of a page of the listing
  ChapterHandlers,  \* goroutines of a batch of chapter tasks
  ImageHandlers,    \* goroutines of a batch of image tasks
  Sem,              \* capacity of the sem of each worker
  MaxClients,       \* ProxyManager.MaxConn
  MaxRetries        \* attempts of a handler

Worker == {"page", "chapter", "image"}
HandlersOf(w) == CASE w = "page" -> PageHandlers
                   [] w = "chapter" -> ChapterHandlers
                   [] w = "image" -> ImageHandlers
Handler == UNION {HandlersOf(w) : w \in Worker}

ASSUME CrawlerAssumption ==
  /\ \A v, w \in Worker : v # w => HandlersOf(v) \cap HandlersOf(w) = {}
  /\ IsFiniteSet(Handler)
  /\ Sem \in [Worker -> Nat \ {0}]
  /\ MaxClients \in Nat /\ MaxRetries \in Nat \ {0}

VARIABLES
  worker,    \* control of the loop of each worker
  pending,   \* handlers of the page that MangaPageWorker has yet to start
  pc,        \* control of each handler
  tries,     \* its attempts left
  pooled,    \* len(ProxyManager.ProxyClients)
  free,      \* how many of these are not Busy
  dry,       \* the list has no address to make a client of any more
  tmDone,    \* TaskManager.ctx is done
  rootDone,  \* the context of main is done
  exited     \* main has returned, or the process has panicked

poolVars == <<pooled, free, dry>>
ctxVars == <<tmDone, rootDone, exited>>
vars == <<worker, pending, pc, tries, poolVars, ctxVars>>

(* StartWorkers; the pool is filled later.                                 *)
Init ==
  /\ worker = [w \in Worker |-> "loop"]
  /\ pending = {}
  /\ pc = [h \in Handler |-> "off"]
  /\ tries = [h \in Handler |-> 0]
  /\ pooled = 0
  /\ free = 0
  /\ dry = FALSE
  /\ tmDone = FALSE
  /\ rootDone = FALSE
  /\ exited = FALSE

Goto(w, to) == worker' = [worker EXCEPT ![w] = to]
Over(w) == \A h \in HandlersOf(w) : pc[h] = "off"

(* The goroutines that have a place in sem.                                *)
Running(w) == Cardinality({h \in HandlersOf(w) : pc[h] \notin {"off", "sem"}})

-----------------------------------------------------------------------------
(* The pool.  GetAvailableProxyClient returns a client or, once the        *)
(* context is done, nil.                                                   *)

Grants == ~tmDone /\ free > 0 /\ free' = free - 1 /\ UNCHANGED pooled
Mut_ReturnsNilNever == FALSE
ReturnsNil == tmDone /\ UNCHANGED <<pooled, free>>
MarkAsNotBusy == free' = free + 1 /\ UNCHANGED pooled
MarkAsBad == pooled' = pooled - 1 /\ UNCHANGED free

(* mainProxyPool: a new client takes the place of one that went bad.       *)
AddClient ==
  /\ ~dry /\ ~rootDone
  /\ pooled < MaxClients
  /\ pooled' = pooled + 1
  /\ free' = free + 1
  /\ UNCHANGED <<worker, pending, pc, tries, dry, ctxVars>>

RunsDry ==
  /\ ~dry
  /\ dry' = TRUE
  /\ UNCHANGED <<worker, pending, pc, tries, pooled, free, ctxVars>>

-----------------------------------------------------------------------------
(* The loops of the workers.                                               *)

(* select on ctx.Done() at the top of each loop.                           *)
LoopTop(w) ==
  /\ worker[w] = "loop"
  /\ Goto(w, CASE tmDone -> "returned"
               [] ~tmDone /\ w = "page" -> "wait"
               [] ~tmDone /\ w # "page" -> "query")
  /\ UNCHANGED <<pending, pc, tries, poolVars, ctxVars>>

(* time.Sleep: 15 s without looking at the context in ImgWorker, 500 ms    *)
(* between two pages.                                                      *)
Wake(w) ==
  /\ worker[w] = "sleep"
  /\ Goto(w, "loop")
  /\ UNCHANGED <<pending, pc, tries, poolVars, ctxVars>>

PageClient ==
  /\ worker["page"] = "wait"
  /\ \/ Grants /\ Goto("page", "parse")
     \/ ReturnsNil /\ Goto("page", "loop")
  /\ UNCHANGED <<pending, pc, tries, dry, ctxVars>>

GetMangaListFails ==
  /\ worker["page"] = "parse"
  /\ MarkAsBad
  /\ Goto("page", "loop")
  /\ UNCHANGED <<pending, pc, tries, dry, ctxVars>>

(* No entry far down: the page again; on one of the first pages: the end.  *)
NoEntries ==
  /\ worker["page"] = "parse"
  /\ MarkAsNotBusy
  /\ \/ Goto("page", "loop") /\ UNCHANGED tmDone
     \/ Goto("page", "returned") /\ tmDone' = TRUE
  /\ UNCHANGED <<pending, pc, tries, dry, rootDone, exited>>

(* The client is given back before the handlers, who need one, start.      *)
Mut_EntriesKeepsClient ==
  /\ worker["page"] = "parse"
  /\ UNCHANGED <<pooled, free>>
  /\ \E s \in SUBSET PageHandlers : s # {} /\ pending' = s
  /\ Goto("page", "batch")
  /\ UNCHANGED <<pc, tries, dry, ctxVars>>
Entries ==
  /\ worker["page"] = "parse"
  /\ MarkAsNotBusy
  /\ \E s \in SUBSET PageHandlers : s # {} /\ pending' = s
  /\ Goto("page", "batch")
  /\ UNCHANGED <<pc, tries, dry, ctxVars>>

(* sem <- struct{}{} in the loop over the entries.                         *)
StartPageHandler(h) ==
  /\ h \in pending /\ Running("page") < Sem["page"]
  /\ pending' = pending \ {h}
  /\ pc' = [pc EXCEPT ![h] = "try"]
  /\ tries' = [tries EXCEPT ![h] = MaxRetries]
  /\ UNCHANGED <<worker, poolVars, ctxVars>>

(* GetChapterTasks, GetImgTasks: no task, or an error.                     *)
NoTasks(w) ==
  /\ worker[w] = "query"
  /\ Goto(w, IF w = "image" THEN "sleep" ELSE "loop")
  /\ UNCHANGED <<pending, pc, tries, poolVars, ctxVars>>

Tasks(w) ==
  /\ worker[w] = "query"
  /\ \E s \in SUBSET HandlersOf(w) :
       /\ s # {}
       /\ pc' = [h \in Handler |-> IF h \in s THEN "sem" ELSE pc[h]]
       /\ tries' = [h \in Handler |-> IF h \in s THEN MaxRetries ELSE tries[h]]
  /\ Goto(w, "batch")
  /\ UNCHANGED <<pending, poolVars, ctxVars>>

(* wg.Wait()                                                               *)
BatchDone(w) ==
  /\ worker[w] = "batch" /\ Over(w) /\ (w = "page" => pending = {})
  /\ Goto(w, IF w = "page" THEN "sleep" ELSE "loop")
  /\ UNCHANGED <<pending, pc, tries, poolVars, ctxVars>>

-----------------------------------------------------------------------------
(* The handlers, by what they do to the pool and to sem.                   *)

Acquire(w, h) ==
  /\ pc[h] = "sem" /\ Running(w) < Sem[w]
  /\ pc' = [pc EXCEPT ![h] = "try"]
  /\ UNCHANGED <<worker, pending, tries, poolVars, ctxVars>>

(* for range maxRetries: the next attempt, or all attempts are spent; then *)
(* handleMangaInfo may still have an earlier page to queue chapters of.    *)
(* handleChapterUpdateInfo ends before its first attempt when it cannot    *)
(* read the names.                                                         *)
NextAttempt(h) ==
  /\ pc[h] = "try"
  /\ \/ tries[h] > 0 /\ pc' = [pc EXCEPT ![h] = "wait"]
     \/ tries[h] = 0 /\ pc' = [pc EXCEPT ![h] = "off"]
     \/ /\ h \in PageHandlers
        /\ \/ tries[h] = 0 /\ pc' = [pc EXCEPT ![h] = "store"]
           \/ tries[h] = MaxRetries /\ pc' = [pc EXCEPT ![h] = "off"]
  /\ UNCHANGED <<worker, pending, tries, poolVars, ctxVars>>

(* handleChapterUpdateInfo after attempts that all got nil: chapters is    *)
(* nil.                                                                    *)
UpdatePanics(h) ==
  /\ h \in PageHandlers /\ pc[h] = "try" /\ tries[h] = 0 /\ tmDone
  /\ exited' = TRUE
  /\ UNCHANGED <<worker, pending, pc, tries, poolVars, tmDone, rootDone>>

HandlerClient(h) ==
  /\ pc[h] = "wait"
  /\ \/ /\ Grants
        /\ pc' = [pc EXCEPT ![h] = "use"]
        /\ UNCHANGED tries
     \/ /\ ReturnsNil
        /\ pc' = [pc EXCEPT ![h] = "try"]
        /\ tries' = [tries EXCEPT ![h] = @ - 1]
  /\ UNCHANGED <<worker, pending, dry, ctxVars>>

AttemptFails(h) ==
  /\ pc[h] = "use"
  /\ MarkAsBad
  /\ pc' = [pc EXCEPT ![h] = "try"]
  /\ tries' = [tries EXCEPT ![h] = @ - 1]
  /\ UNCHANGED <<worker, pending, dry, ctxVars>>

(* Only handleMangaInfo keeps its client while it queues the chapters.     *)
AttemptSucceeds(h) ==
  /\ pc[h] = "use"
  /\ \/ MarkAsNotBusy /\ pc' = [pc EXCEPT ![h] = "store"]
     \/ /\ h \in PageHandlers
        /\ pc' = [pc EXCEPT ![h] = "save"]
        /\ UNCHANGED <<pooled, free>>
  /\ UNCHANGED <<worker, pending, tries, dry, ctxVars>>

(* What follows has no client to wait for: statements, an upload.          *)
HandlerEnds(h) ==
  /\ \/ pc[h] = "store" /\ UNCHANGED <<pooled, free>>
     \/ pc[h] = "save" /\ MarkAsNotBusy
  /\ pc' = [pc EXCEPT ![h] = "off"]
  /\ UNCHANGED <<worker, pending, tries, dry, ctxVars>>

-----------------------------------------------------------------------------
(* main.                                                                   *)

Signal ==
  /\ ~rootDone
  /\ rootDone' = TRUE
  /\ tmDone' = TRUE
  /\ UNCHANGED <<worker, pending, pc, tries, poolVars, exited>>

(* main waits for the signal only, neither for the workers nor for tm.ctx. *)
MainReturns ==
  /\ rootDone
  /\ exited' = TRUE
  /\ UNCHANGED <<worker, pending, pc, tries, poolVars, tmDone, rootDone>>

WorkerStep(w) ==
  \/ LoopTop(w) \/ Wake(w) \/ BatchDone(w)
  \/ /\ w = "page"
     /\ \/ PageClient \/ GetMangaListFails \/ NoEntries \/ Entries
        \/ \E h \in PageHandlers : StartPageHandler(h)
  \/ w # "page" /\ (NoTasks(w) \/ Tasks(w))

HandlerStep(w, h) ==
  \/ Acquire(w, h)
  \/ NextAttempt(h) \/ UpdatePanics(h) \/ HandlerClient(h)
  \/ AttemptFails(h) \/ AttemptSucceeds(h) \/ HandlerEnds(h)

PoolStep == AddClient \/ RunsDry

Next ==
  /\ ~exited
  /\ \/ \E w \in Worker : WorkerStep(w)
     \/ \E w \in Worker : \E h \in HandlersOf(w) : HandlerStep(w, h)
     \/ PoolStep
     \/ Signal \/ MainReturns

Spec == Init /\ [][Next]_vars

(* Every goroutine that can go on does, and every call comes back: the     *)
(* browser, the requests and the uploads have deadlines of their own.  A   *)
(* place in sem and a client are not promised to anyone in particular.     *)
(* The refill goes on while the list has proxies for it.                   *)
Served == PageClient \/ \E h \in Handler : HandlerClient(h)

Fairness ==
  /\ \A w \in Worker : WF_vars(~exited /\ worker[w] # "wait" /\ WorkerStep(w))
  /\ \A w \in Worker : \A h \in HandlersOf(w) :
       WF_vars(~exited /\ pc[h] \notin {"sem", "wait"} /\ HandlerStep(w, h))
  /\ \A w \in Worker : WF_vars(~exited /\ \E h \in HandlersOf(w) : Acquire(w, h))
  /\ WF_vars(~exited /\ Served)
  /\ WF_vars(~exited /\ AddClient)
  /\ WF_vars(~exited /\ MainReturns)

FairSpec == Spec /\ Fairness

-----------------------------------------------------------------------------
(* Properties.                                                             *)

(* Once tm.ctx is done, by a signal or by the page worker's own cancel,    *)
(* all three workers return and no handler is left behind, even if the     *)
(* pool is empty for good, unless main returns before them.                *)
WorkersReturn ==
  tmDone ~> \/ exited
            \/ /\ \A w \in Worker : worker[w] = "returned"
               /\ \A h \in Handler : pc[h] = "off"

(* The workers do not wait for each other: while somebody waits for a      *)
(* client and the list has proxies, some handler or the page worker gets   *)
(* to use one, however few clients the pool has.                           *)
NobodyStuck ==
  \/ worker["page"] = "wait"
  \/ \E h \in Handler : pc[h] = "wait"
  ~>
  \/ worker["page"] = "parse"
  \/ \E h \in Handler : pc[h] = "use"
  \/ dry \/ tmDone
=============================================================================
