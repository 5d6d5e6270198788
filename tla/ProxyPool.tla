------------------------------ MODULE ProxyPool ------------------------------
(***************************************************************************)
(* The proxy pool of parser/proxy: a ProxyManager holds at most MaxConn    *)
(* ProxyClient objects keyed by address, a background loop keeps filling   *)
(* it from a fetched address list, and the crawl handlers lease clients    *)
(* from it with GetAvailableProxyClient and give them back with            *)
(* MarkAsNotBusy, or drop them with MarkAsBad.                             *)
(*                                                                         *)
(* pm.mu is a reader/writer lock.  The writers' critical sections are      *)
(* single actions; the one reader that is not, the scan of the map, holds  *)
(* the read lock while some handler's pc is "scan", and the flags it reads *)
(* may change under it because they belong to the clients' own locks.      *)
(*                                                                         *)
(* A context is checked in the same step as the read that follows the      *)
(* check: being done enables nothing that writes the pool, so whatever     *)
(* slips in between could as well have come before.                        *)
(***************************************************************************)
EXTENDS Naturals, Sequences, FiniteSets

CONSTANTS
  Addr,             \* proxy addresses
  ValidAddr,        \* the addresses CreateProxyClient makes a client of
  AddressLists,     \* what one GetTxtProxy may return: lists of addresses
  Gen,              \* tells apart client objects of one address
  NoClient,         \* the nil *ProxyClient
  MaxConn,          \* ProxyManager.MaxConn
  Slot,             \* the places of workerPool, one goroutine in each
  PlainHandlers,    \* handleImage, MangaPageWorker: forget a failed client
  ChapterHandlers,  \* handleChapter, handleChapterUpdateInfo: mark it again
  InfoHandlers      \* handleMangaInfo: may release a client it marked bad

Client == [addr : Addr, gen : Gen]
Handler == PlainHandlers \cup ChapterHandlers \cup InfoHandlers

ASSUME PoolAssumption ==
  /\ NoClient \notin Client
  /\ MaxConn \in Nat
  /\ IsFiniteSet(Addr)
  /\ ValidAddr \subseteq Addr
  /\ AddressLists \subseteq Seq(Addr)

(* GetTxtProxy drops the addresses it has already seen: ListHasNoRepeats   *)
(* in ProxyListProofs.                                                     *)
ASSUME ListAssumption ==
  \A list \in AddressLists : \A i, j \in 1..Len(list) :
    list[i] = list[j] => i = j

VARIABLES
  addresses,  \* ProxyManager.AllAddresses
  nextIndex,  \* ProxyManager.NextIndexAddres
  pool,       \* ProxyManager.ProxyClients: address -> client or NoClient
  busy,       \* the clients whose Busy flag is set
  status,     \* the clients whose Status flag is set
  filler,     \* control of InitProxyManager and mainProxyPool
  toSpawn,    \* iterations left of mainProxyPool's "for range needed"
  slot,       \* control and claimed address of each testAndAddProxy
  crashed,    \* a goroutine has panicked: the process is gone
  pc,         \* control of each handler
  unread,     \* clients a scan has not looked at yet
  active,     \* activeClients of a handler's scan
  client,     \* the handler's client variable
  tmDone,     \* TaskManager.ctx is done
  rootDone,   \* the context of main is done
  lateMark    \* history: a client was marked after it had been given up

poolVars == <<addresses, nextIndex, pool, filler, toSpawn, slot>>
flagVars == <<busy, status>>
handlerVars == <<pc, unread, active, client>>
ctxVars == <<crashed, tmDone, rootDone>>
vars == <<poolVars, flagVars, handlerVars, ctxVars, lateMark>>

Pooled == {pool[a] : a \in Addr} \ {NoClient}

(* pm.mu can be taken for writing.                                         *)
NoReader == \A h \in Handler : pc[h] # "scan"

Idle == [pc |-> "off", addr |-> NoClient]

Init ==
  /\ addresses = <<>>
  /\ nextIndex = 0
  /\ pool = [a \in Addr |-> NoClient]
  /\ busy = {}
  /\ status = {}
  /\ filler = "init"
  /\ toSpawn = 0
  /\ slot = [s \in Slot |-> Idle]
  /\ crashed = FALSE
  /\ pc = [h \in Handler |-> "idle"]
  /\ unread = [h \in Handler |-> {}]
  /\ active = [h \in Handler |-> {}]
  /\ client = [h \in Handler |-> NoClient]
  /\ tmDone = FALSE
  /\ rootDone = FALSE
  /\ lateMark = FALSE

-----------------------------------------------------------------------------
(* Filling the pool.                                                       *)

(* The first fetch; main starts it concurrently with the handlers.         *)
InitProxyManager ==
  /\ filler = "init"
  /\ \E list \in AddressLists : addresses' = list
  /\ filler' = "run"
  /\ UNCHANGED <<nextIndex, pool, toSpawn, slot>>
  /\ UNCHANGED <<flagVars, handlerVars, ctxVars, lateMark>>

(* One pass of the loop: how many clients are missing, read once.          *)
CountNeeded ==
  /\ filler = "run" /\ toSpawn = 0 /\ ~rootDone
  /\ Cardinality(Pooled) < MaxConn
  /\ toSpawn' = MaxConn - Cardinality(Pooled)
  /\ UNCHANGED <<addresses, nextIndex, pool, filler, slot>>
  /\ UNCHANGED <<flagVars, handlerVars, ctxVars, lateMark>>

(* A place in workerPool is free: start a goroutine.  The select may take  *)
(* this branch even when the context is done as well.                      *)
Spawn(s) ==
  /\ filler = "run" /\ toSpawn > 0
  /\ slot[s].pc = "off"
  /\ toSpawn' = toSpawn - 1
  /\ slot' = [slot EXCEPT ![s].pc = "start"]
  /\ UNCHANGED <<addresses, nextIndex, pool, filler>>
  /\ UNCHANGED <<flagVars, handlerVars, ctxVars, lateMark>>

FillerStops ==
  /\ filler = "run" /\ rootDone
  /\ filler' = "stopped"
  /\ toSpawn' = 0
  /\ UNCHANGED <<addresses, nextIndex, pool, slot>>
  /\ UNCHANGED <<flagVars, handlerVars, ctxVars, lateMark>>

Mut_ExhaustedOffByOne == nextIndex > Len(addresses)
Exhausted == nextIndex >= Len(addresses)

(* The list and the index the claim continues from: a fetch under the lock *)
(* when the list is used up.                                               *)
Mut_ListsKeepIndex ==
  IF Exhausted THEN {[list |-> l, next |-> nextIndex] : l \in AddressLists}
               ELSE {[list |-> addresses, next |-> nextIndex]}
Lists ==
  IF Exhausted THEN {[list |-> l, next |-> 0] : l \in AddressLists}
               ELSE {[list |-> addresses, next |-> nextIndex]}

(* The first critical section of testAndAddProxy: take the next address    *)
(* and go on with it only if it can be of use.  The goroutine that returns *)
(* gives its place in workerPool back.                                     *)
Claim(s) ==
  /\ slot[s].pc = "start" /\ NoReader
  /\ \E from \in Lists :
       /\ from.next < Len(from.list)
       /\ addresses' = from.list
       /\ nextIndex' = from.next + 1
       /\ LET a == from.list[from.next + 1] IN
          slot' = [slot EXCEPT ![s] =
                     IF /\ pool[a] = NoClient
                        /\ Cardinality(Pooled) < MaxConn
                        /\ a \in ValidAddr
                     THEN [pc |-> "add", addr |-> a]
                     ELSE Idle]
  /\ UNCHANGED <<pool, filler, toSpawn>>
  /\ UNCHANGED <<flagVars, handlerVars, ctxVars, lateMark>>

(* Every source failed: AllAddresses[NextIndexAddres] is out of range, and *)
(* a panic in a goroutine without recover ends the process.                *)
ClaimPanics(s) ==
  /\ slot[s].pc = "start" /\ NoReader
  /\ \E from \in Lists :
       /\ from.next >= Len(from.list)
       /\ addresses' = from.list
       /\ nextIndex' = from.next
  /\ crashed' = TRUE
  /\ UNCHANGED <<pool, filler, toSpawn, slot, tmDone, rootDone>>
  /\ UNCHANGED <<flagVars, handlerVars, lateMark>>

(* The client objects the map or a handler still refers to.  Any other one *)
(* stands for the object CreateProxyClient makes; the flags of those that  *)
(* nothing refers to any more are forgotten with them.                     *)
Reachable ==
  Pooled \cup UNION {unread[h] \cup active[h] \cup {client[h]} : h \in Handler}

Mut_RoomForNoLimit(a) == pool[a] = NoClient
Mut_RoomForNoExists(a) == Cardinality(Pooled) < MaxConn
RoomFor(a) == pool[a] = NoClient /\ Cardinality(Pooled) < MaxConn

(* The second critical section: add the client if there is still room.     *)
Add(s) ==
  /\ slot[s].pc = "add" /\ NoReader
  /\ LET a == slot[s].addr IN
     IF RoomFor(a)
     THEN \E g \in Gen :
            LET c == [addr |-> a, gen |-> g] IN
            /\ c \notin Reachable
            /\ pool' = [pool EXCEPT ![a] = c]
            /\ status' = (status \cap Reachable) \cup {c}
            /\ busy' = busy \cap Reachable
     ELSE UNCHANGED <<pool, flagVars>>
  /\ slot' = [slot EXCEPT ![s] = Idle]
  /\ UNCHANGED <<addresses, nextIndex, filler, toSpawn>>
  /\ UNCHANGED <<handlerVars, ctxVars, lateMark>>

-----------------------------------------------------------------------------
(* GetAvailableProxyClient.                                                *)

StartScan(h) ==
  /\ pc' = [pc EXCEPT ![h] = "scan"]
  /\ unread' = [unread EXCEPT ![h] = Pooled]
  /\ client' = [client EXCEPT ![h] = NoClient]
  /\ UNCHANGED <<active, poolVars, flagVars, ctxVars, lateMark>>

(* A handler asks for a client, or asks again after a failed attempt.      *)
Call(h) ==
  /\ pc[h] \in {"idle", "failed"} /\ ~tmDone
  /\ StartScan(h)

Tick(h) ==
  /\ pc[h] = "wait" /\ ~tmDone
  /\ StartScan(h)

(* The context is done: the call returns nil, and nil is what the handler  *)
(* then gives up with.                                                     *)
ReturnNil(h) ==
  /\ pc[h] \in {"wait", "failed"} /\ tmDone
  /\ pc' = [pc EXCEPT ![h] = "idle"]
  /\ client' = [client EXCEPT ![h] = NoClient]
  /\ UNCHANGED <<unread, active, poolVars, flagVars, ctxVars, lateMark>>

IsFree(c) == c \notin busy /\ c \in status

(* One client's flags, read under that client's lock.                      *)
ReadFlags(h) ==
  /\ pc[h] = "scan"
  /\ \E c \in unread[h] :
       /\ unread' = [unread EXCEPT ![h] = @ \ {c}]
       /\ active' = [active EXCEPT ![h] =
                       IF IsFree(c) THEN @ \cup {c} ELSE @]
  /\ UNCHANGED <<pc, client, poolVars, flagVars, ctxVars, lateMark>>

EndScan(h) ==
  /\ pc[h] = "scan" /\ unread[h] = {}
  /\ pc' = [pc EXCEPT ![h] = "try"]
  /\ UNCHANGED <<unread, active, client>>
  /\ UNCHANGED <<poolVars, flagVars, ctxVars, lateMark>>

Mut_StillFreeNoRecheck(c) == TRUE
StillFree(c) == c \notin busy /\ c \in status

(* The flags again, now under the client's write lock: lease it.           *)
Lease(h) ==
  /\ pc[h] = "try"
  /\ \E c \in active[h] :
       /\ StillFree(c)
       /\ busy' = busy \cup {c}
       /\ client' = [client EXCEPT ![h] = c]
  /\ active' = [active EXCEPT ![h] = {}]
  /\ pc' = [pc EXCEPT ![h] = "using"]
  /\ UNCHANGED <<status, unread, poolVars, ctxVars, lateMark>>

(* Another handler was faster.                                             *)
Skip(h) ==
  /\ pc[h] = "try"
  /\ \E c \in active[h] :
       /\ ~StillFree(c)
       /\ active' = [active EXCEPT ![h] = @ \ {c}]
  /\ UNCHANGED <<pc, unread, client, poolVars, flagVars, ctxVars, lateMark>>

NoneLeft(h) ==
  /\ pc[h] = "try" /\ active[h] = {}
  /\ pc' = [pc EXCEPT ![h] = "wait"]
  /\ UNCHANGED <<unread, active, client>>
  /\ UNCHANGED <<poolVars, flagVars, ctxVars, lateMark>>

-----------------------------------------------------------------------------
(* Using a client and giving it back.                                      *)

RemoveProxyClient(a) == pool' = [pool EXCEPT ![a] = NoClient]

Mut_FreedForgets(c) == busy
Freed(c) == busy \ {c}

(* The request succeeded.                                                  *)
MarkAsNotBusy(h) ==
  /\ pc[h] = "using"
  /\ busy' = Freed(client[h])
  /\ pc' = [pc EXCEPT ![h] = "idle"]
  /\ client' = [client EXCEPT ![h] = NoClient]
  /\ UNCHANGED <<status, unread, active, poolVars, ctxVars, lateMark>>

(* The request failed: the address is removed; the client stays Busy and   *)
(* the handler keeps its pointer.                                          *)
Mut_MarkAsBadKeepsEntry(h) ==
  /\ pc[h] = "using" /\ NoReader
  /\ pc' = [pc EXCEPT ![h] = "failed"]
  /\ UNCHANGED <<poolVars, unread, active, client>>
  /\ UNCHANGED <<flagVars, ctxVars, lateMark>>
MarkAsBad(h) ==
  /\ pc[h] = "using" /\ NoReader
  /\ RemoveProxyClient(client[h].addr)
  /\ pc' = [pc EXCEPT ![h] = "failed"]
  /\ UNCHANGED <<addresses, nextIndex, filler, toSpawn, slot>>
  /\ UNCHANGED <<unread, active, client, flagVars, ctxVars, lateMark>>

Leave(h) ==
  /\ pc' = [pc EXCEPT ![h] = "idle"]
  /\ client' = [client EXCEPT ![h] = NoClient]
  /\ UNCHANGED <<unread, active>>

(* handleImage and MangaPageWorker leave a failed client alone, and so     *)
(* does handleMangaInfo when its last parse has failed.                    *)
GiveUp(h) ==
  /\ pc[h] = "failed" /\ h \in PlainHandlers \cup InfoHandlers
  /\ Leave(h)
  /\ UNCHANGED <<poolVars, flagVars, ctxVars, lateMark>>

(* After the retries handleChapter and handleChapterUpdateInfo mark the    *)
(* last client bad a second time: by address, whoever has it by now.       *)
GiveUpMarkingAgain(h) ==
  /\ pc[h] = "failed" /\ h \in ChapterHandlers /\ NoReader
  /\ RemoveProxyClient(client[h].addr)
  /\ lateMark' = (lateMark \/ pool[client[h].addr] # NoClient)
  /\ Leave(h)
  /\ UNCHANGED <<addresses, nextIndex, filler, toSpawn, slot>>
  /\ UNCHANGED <<flagVars, ctxVars>>

(* handleMangaInfo goes on with a parsed manga it could not store, and     *)
(* then clears Busy on the client it had marked bad.                       *)
GiveUpReleasing(h) ==
  /\ pc[h] = "failed" /\ h \in InfoHandlers
  /\ busy' = Freed(client[h])
  /\ lateMark' = TRUE
  /\ Leave(h)
  /\ UNCHANGED <<status, poolVars, ctxVars>>

-----------------------------------------------------------------------------
(* Contexts: tm.cancel(), and the signal context tm.ctx is derived from.   *)

CancelTaskManager ==
  /\ ~tmDone
  /\ tmDone' = TRUE
  /\ UNCHANGED <<poolVars, flagVars, handlerVars, crashed, rootDone, lateMark>>

Shutdown ==
  /\ ~rootDone
  /\ rootDone' = TRUE
  /\ tmDone' = TRUE
  /\ UNCHANGED <<poolVars, flagVars, handlerVars, crashed, lateMark>>

FillerStep ==
  \/ InitProxyManager
  \/ CountNeeded
  \/ \E s \in Slot : Spawn(s)
  \/ FillerStops

SlotStep(s) == Claim(s) \/ ClaimPanics(s) \/ Add(s)

SearchStep(h) ==
  \/ Tick(h)
  \/ ReturnNil(h)
  \/ ReadFlags(h)
  \/ EndScan(h)
  \/ Lease(h)
  \/ Skip(h)
  \/ NoneLeft(h)

EndUse(h) == MarkAsNotBusy(h) \/ MarkAsBad(h)

AfterFailure(h) ==
  \/ GiveUp(h)
  \/ GiveUpMarkingAgain(h)
  \/ GiveUpReleasing(h)

Next ==
  /\ ~crashed
  /\ \/ FillerStep
     \/ \E s \in Slot : SlotStep(s)
     \/ \E h \in Handler :
          Call(h) \/ SearchStep(h) \/ EndUse(h) \/ AfterFailure(h)
     \/ CancelTaskManager
     \/ Shutdown

Spec == Init /\ [][Next]_vars

(* Some goroutine is about to lock pm.mu for writing.                      *)
WriterWaits ==
  \/ \E s \in Slot : slot[s].pc \in {"start", "add"}
  \/ \E h \in Handler : pc[h] = "using"
  \/ \E h \in ChapterHandlers : pc[h] = "failed"

(* Goroutines that can run do run, the ticker ticks, and a request ends:   *)
(* the HTTP client and the browser contexts carry timeouts.  A waiting     *)
(* writer of a Go RWMutex keeps new readers out, so that overlapping scans *)
(* do not hold the lock for ever, and the steps that lock it are strongly  *)
(* fair.  Nothing makes a handler ask for a client or a request succeed.   *)
Fairness ==
  /\ []<>(WriterWaits => NoReader)
  /\ WF_vars(~crashed /\ FillerStep)
  /\ \A s \in Slot : SF_vars(~crashed /\ SlotStep(s))
  /\ \A h \in Handler : WF_vars(~crashed /\ SearchStep(h))
  /\ \A h \in Handler : SF_vars(~crashed /\ EndUse(h))

FairSpec == Spec /\ Fairness

-----------------------------------------------------------------------------
(* Properties.                                                             *)

Leases(h, c) == pc[h] = "using" /\ client[h] = c

(* Every variable keeps its shape; in particular a client is filed under   *)
(* its own address, the index stays within the fetched list, and no        *)
(* testAndAddProxy runs before the first fetch.                            *)
TypeOK ==
  /\ addresses \in Seq(Addr)
  /\ nextIndex \in 0..Len(addresses)
  /\ pool \in [Addr -> Client \cup {NoClient}]
  /\ \A a \in Addr : pool[a] # NoClient => pool[a].addr = a
  /\ busy \subseteq Client
  /\ status \subseteq Client
  /\ filler \in {"init", "run", "stopped"}
  /\ toSpawn \in Nat
  /\ slot \in [Slot -> [pc : {"off", "start", "add"},
                        addr : Addr \cup {NoClient}]]
  /\ \A s \in Slot : slot[s].pc = "add" => slot[s].addr \in Addr
  /\ filler = "init" => nextIndex = 0 /\ \A s \in Slot : slot[s].pc = "off"
  /\ crashed \in BOOLEAN
  /\ pc \in [Handler -> {"idle", "scan", "try", "wait", "using", "failed"}]
  /\ unread \in [Handler -> SUBSET Client]
  /\ active \in [Handler -> SUBSET Client]
  /\ client \in [Handler -> Client \cup {NoClient}]
  /\ \A h \in Handler : pc[h] \in {"using", "failed"} => client[h] # NoClient
  /\ tmDone \in BOOLEAN
  /\ rootDone \in BOOLEAN
  /\ lateMark \in BOOLEAN

(* The map never holds more than MaxConn clients, although every goroutine *)
(* of testAndAddProxy decides to add one before it holds the lock again.   *)
PoolBounded == Cardinality(Pooled) <= MaxConn

(* GetAvailableProxyClient never hands one client to two handlers: the     *)
(* flags a scan read are stale by the time it leases.                      *)
LeaseExclusive ==
  \A h1, h2 \in Handler, c \in Client :
    Leases(h1, c) /\ Leases(h2, c) => h1 = h2

(* No pooled client stays Busy with nobody using it: every path out of a   *)
(* handler releases its client or removes it, so the pool cannot fill up   *)
(* with proxies that nobody will ever get.                                 *)
NoLeakedLease ==
  \A c \in Pooled \cap busy : \E h \in Handler : Leases(h, c)

(* Until a late mark has hit somebody else's client, handlers that work at *)
(* the same time go through different addresses, and what they lease is in *)
(* the map: RemoveProxyClient, which goes by address, then removes the     *)
(* caller's own client.                                                    *)
AddressExclusive ==
  ~lateMark => \A h \in Handler :
    pc[h] = "using" => pool[client[h].addr] = client[h]

(* The index into AllAddresses is out of range only if a fetch returned no *)
(* address at all.                                                         *)
PanicOnlyOnEmptyFetch == crashed => addresses = <<>>

(* While a handler waits for a proxy, some handler is eventually given one *)
(* unless the task manager is cancelled or the process is gone: removed    *)
(* clients are replaced from the list and from new fetches.                *)
SomebodyServed ==
  (\E h \in Handler : pc[h] = "wait")
    ~> ((\E h \in Handler : pc[h] = "using") \/ tmDone \/ crashed)

(* The strengthening the proofs use.  A client that is held, in use or     *)
(* just failed, is Busy and has one holder; and until a late mark, a       *)
(* client somebody's scan has seen can only be leased if it is pooled.     *)
Holds(h) == pc[h] \in {"using", "failed"}

HeldBusy == \A h \in Handler : Holds(h) => client[h] \in busy

HoldExclusive ==
  \A h1, h2 \in Handler :
    Holds(h1) /\ Holds(h2) /\ client[h1] = client[h2] => h1 = h2

SnapshotPooled ==
  ~lateMark => \A h \in Handler : \A c \in unread[h] \cup active[h] :
    c \in busy \/ pool[c.addr] = c

IInv ==
  /\ TypeOK
  /\ PoolBounded
  /\ HeldBusy
  /\ HoldExclusive
  /\ NoLeakedLease
  /\ SnapshotPooled
  /\ AddressExclusive

(* The pool does what ProxyLease promises: every step of the manager and   *)
(* of the handlers admits, grants, gives back, discards or marks late.     *)
Held == [h \in Handler |-> IF pc[h] = "using" THEN client[h] ELSE NoClient]

Promise == INSTANCE ProxyLease
  WITH pooled <- Pooled, lease <- Held, blunt <- lateMark

ImplementsLease == Promise!LeaseSpec
=============================================================================
