--------------------------- MODULE ProxyPoolProofs ---------------------------
(***************************************************************************)
(* Theorems about ProxyPool, for every set of addresses, handlers and      *)
(* slots and every bound MaxConn.                                          *)
(***************************************************************************)
EXTENDS ProxyPool, FiniteSetTheorems, TLAPS

-----------------------------------------------------------------------------
(* Facts about the map.                                                    *)

(* The map is over a finite set of addresses, so what it holds is finite.  *)
LEMMA PooledFinite ==
  ASSUME pool \in [Addr -> Client \cup {NoClient}]
  PROVE  IsFiniteSet(Pooled) /\ Cardinality(Pooled) \in Nat
<1> DEFINE Values == {pool[a] : a \in Addr}
<1>1. pool \in Surjection(Addr, Values)
  BY DEF Surjection
<1>2. IsFiniteSet(Values)
  BY <1>1, FS_Surjection, PoolAssumption
<1>3. Pooled \in SUBSET Values
  BY DEF Pooled
<1>4. IsFiniteSet(Pooled)
  BY <1>2, <1>3, FS_Subset
<1> QED
  BY <1>4, FS_CardinalityType

(* Removing an address can only shrink the set of pooled clients.          *)
LEMMA RemoveShrinks ==
  ASSUME TypeOK, NEW a \in Addr, RemoveProxyClient(a)
  PROVE  Pooled' = {c \in Pooled : c # pool[a]}
BY PoolAssumption DEF TypeOK, RemoveProxyClient, Pooled

(* A pooled client is found under its own address.                         *)
LEMMA FiledUnder ==
  ASSUME TypeOK, NEW c \in Pooled
  PROVE  c \in Client /\ c.addr \in Addr /\ pool[c.addr] = c
<1>1. PICK a \in Addr : pool[a] = c /\ c # NoClient
  BY DEF Pooled
<1>2. c.addr = a /\ c \in Client
  BY <1>1 DEF TypeOK
<1> QED
  BY <1>1, <1>2

(* Filing a client under a free address adds it and nothing else.          *)
LEMMA AddGrows ==
  ASSUME TypeOK, NEW c \in Client, pool[c.addr] = NoClient,
         pool' = [pool EXCEPT ![c.addr] = c]
  PROVE  Pooled' = Pooled \cup {c}
BY PoolAssumption DEF TypeOK, Pooled, Client

-----------------------------------------------------------------------------
(* Type correctness.                                                       *)

(* The variables have their types initially.                               *)
LEMMA InitTypeOK == Init => TypeOK
<1> SUFFICES ASSUME Init PROVE TypeOK
  OBVIOUS
<1>1. addresses \in Seq(Addr) /\ nextIndex \in 0..Len(addresses)
  BY DEF Init
<1>2. slot \in [Slot -> [pc : {"off", "start", "add"},
                        addr : Addr \cup {NoClient}]]
  BY DEF Init, Idle
<1> QED
  BY <1>1, <1>2 DEF Init, TypeOK, Idle

(* Every step keeps the types.                                             *)
LEMMA NextTypeOK == TypeOK /\ [Next]_vars => TypeOK'
<1> SUFFICES ASSUME TypeOK, [Next]_vars PROVE TypeOK'
  OBVIOUS
<1> USE DEF TypeOK
<1> USE PoolAssumption
<1>1. CASE InitProxyManager
  BY <1>1 DEF InitProxyManager, flagVars, handlerVars, ctxVars
<1>2. CASE CountNeeded
  <2>1. toSpawn' \in Nat
    BY <1>2, PooledFinite DEF CountNeeded
  <2> QED
    BY <1>2, <2>1 DEF CountNeeded, flagVars, handlerVars, ctxVars
<1>3. ASSUME NEW s \in Slot, Spawn(s) PROVE TypeOK'
  BY <1>3 DEF Spawn, flagVars, handlerVars, ctxVars
<1>4. CASE FillerStops
  BY <1>4 DEF FillerStops, flagVars, handlerVars, ctxVars
<1>5. ASSUME NEW s \in Slot, Claim(s) PROVE TypeOK'
  <2>1. PICK from \in Lists :
          /\ from.next < Len(from.list)
          /\ addresses' = from.list
          /\ nextIndex' = from.next + 1
          /\ LET a == from.list[from.next + 1] IN
             slot' = [slot EXCEPT ![s] =
                        IF /\ pool[a] = NoClient
                           /\ Cardinality(Pooled) < MaxConn
                           /\ a \in ValidAddr
                        THEN [pc |-> "add", addr |-> a]
                        ELSE Idle]
    BY <1>5 DEF Claim
  <2>2. from.list \in Seq(Addr) /\ from.next \in Nat
    BY DEF Lists
  <2>3. addresses' \in Seq(Addr) /\ nextIndex' \in 0..Len(addresses')
    BY <2>1, <2>2
  <2>4. from.list[from.next + 1] \in Addr
    BY <2>1, <2>2
  <2>5. /\ slot' \in [Slot -> [pc : {"off", "start", "add"},
                               addr : Addr \cup {NoClient}]]
        /\ \A t \in Slot : slot'[t].pc = "add" => slot'[t].addr \in Addr
    BY <2>1, <2>4 DEF Idle
  <2> QED
    BY <1>5, <2>3, <2>5 DEF Claim, flagVars, handlerVars, ctxVars
<1>6. ASSUME NEW s \in Slot, ClaimPanics(s) PROVE TypeOK'
  <2>1. addresses' \in Seq(Addr) /\ nextIndex' \in 0..Len(addresses')
    BY <1>6 DEF ClaimPanics, Lists, Exhausted
  <2> QED
    BY <1>6, <2>1 DEF ClaimPanics, flagVars, handlerVars
<1>7. ASSUME NEW s \in Slot, Add(s) PROVE TypeOK'
  <2>1. slot[s].addr \in Addr
    BY <1>7 DEF Add
  <2>2. /\ pool' \in [Addr -> Client \cup {NoClient}]
        /\ \A a \in Addr : pool'[a] # NoClient => pool'[a].addr = a
        /\ busy' \subseteq Client
        /\ status' \subseteq Client
    <3>1. CASE RoomFor(slot[s].addr)
      <4>1. PICK g \in Gen :
              LET c == [addr |-> slot[s].addr, gen |-> g] IN
              /\ pool' = [pool EXCEPT ![slot[s].addr] = c]
              /\ status' = (status \cap Reachable) \cup {c}
              /\ busy' = busy \cap Reachable
        BY <1>7, <3>1 DEF Add
      <4>2. [addr |-> slot[s].addr, gen |-> g] \in Client
        BY <2>1 DEF Client
      <4> QED
        BY <2>1, <4>1, <4>2
    <3>2. CASE ~RoomFor(slot[s].addr)
      BY <1>7, <3>2 DEF Add, flagVars
    <3> QED
      BY <3>1, <3>2
  <2>3. slot' = [slot EXCEPT ![s] = Idle]
    BY <1>7 DEF Add
  <2>4. /\ slot' \in [Slot -> [pc : {"off", "start", "add"},
                               addr : Addr \cup {NoClient}]]
        /\ \A t \in Slot : slot'[t].pc = "add" => slot'[t].addr \in Addr
        /\ filler # "init"
    BY <1>7, <2>3 DEF Add, Idle
  <2> QED
    BY <1>7, <2>2, <2>4 DEF Add, handlerVars, ctxVars
<1>8. ASSUME NEW h \in Handler, Call(h) \/ Tick(h) PROVE TypeOK'
  <2>1. StartScan(h)
    BY <1>8 DEF Call, Tick
  <2> QED
    BY <2>1 DEF StartScan, Pooled, poolVars, flagVars, ctxVars
<1>9. ASSUME NEW h \in Handler, ReturnNil(h) PROVE TypeOK'
  BY <1>9 DEF ReturnNil, poolVars, flagVars, ctxVars
<1>10. ASSUME NEW h \in Handler, ReadFlags(h) PROVE TypeOK'
  BY <1>10 DEF ReadFlags, IsFree, poolVars, flagVars, ctxVars
<1>11. ASSUME NEW h \in Handler, EndScan(h) PROVE TypeOK'
  BY <1>11 DEF EndScan, poolVars, flagVars, ctxVars
<1>12. ASSUME NEW h \in Handler, Lease(h) PROVE TypeOK'
  BY <1>12 DEF Lease, poolVars, ctxVars
<1>13. ASSUME NEW h \in Handler, Skip(h) PROVE TypeOK'
  BY <1>13 DEF Skip, poolVars, flagVars, ctxVars
<1>14. ASSUME NEW h \in Handler, NoneLeft(h) PROVE TypeOK'
  BY <1>14 DEF NoneLeft, poolVars, flagVars, ctxVars
<1>15. ASSUME NEW h \in Handler, MarkAsNotBusy(h) PROVE TypeOK'
  BY <1>15 DEF MarkAsNotBusy, Freed, poolVars, ctxVars
<1>16. ASSUME NEW h \in Handler, MarkAsBad(h) PROVE TypeOK'
  BY <1>16 DEF MarkAsBad, RemoveProxyClient, flagVars, ctxVars
<1>17. ASSUME NEW h \in Handler, GiveUp(h) PROVE TypeOK'
  BY <1>17 DEF GiveUp, Leave, poolVars, flagVars, ctxVars
<1>18. ASSUME NEW h \in Handler, GiveUpMarkingAgain(h) PROVE TypeOK'
  BY <1>18 DEF GiveUpMarkingAgain, RemoveProxyClient, Leave, flagVars, ctxVars
<1>19. ASSUME NEW h \in Handler, GiveUpReleasing(h) PROVE TypeOK'
  BY <1>19 DEF GiveUpReleasing, Freed, Leave, poolVars, ctxVars
<1>20. CASE CancelTaskManager
  BY <1>20 DEF CancelTaskManager, poolVars, flagVars, handlerVars
<1>21. CASE Shutdown
  BY <1>21 DEF Shutdown, poolVars, flagVars, handlerVars
<1>22. CASE UNCHANGED vars
  BY <1>22 DEF vars, poolVars, flagVars, handlerVars, ctxVars
<1> QED
  BY <1>1, <1>2, <1>3, <1>4, <1>5, <1>6, <1>7, <1>8, <1>9, <1>10, <1>11,
     <1>12, <1>13, <1>14, <1>15, <1>16, <1>17, <1>18, <1>19, <1>20, <1>21,
     <1>22 DEF Next, FillerStep, SlotStep, SearchStep, EndUse, AfterFailure

(* ProxyPool is type correct: a client stays filed under its own address   *)
(* and the index within the fetched list, however the steps interleave.    *)
THEOREM TypeCorrect == Spec => []TypeOK
<1>1. Init => TypeOK
  BY InitTypeOK
<1>2. TypeOK /\ [Next]_vars => TypeOK'
  BY NextTypeOK
<1> QED
  BY <1>1, <1>2, PTL DEF Spec

-----------------------------------------------------------------------------
(* The inductive invariant.                                                *)

leaseVars == <<pool, busy, pc, unread, active, client, lateMark>>

(* A step outside this list does not touch what the invariant speaks of.   *)
LEMMA LeaseSteps ==
  ASSUME [Next]_vars
  PROVE  \/ UNCHANGED leaseVars
         \/ \E s \in Slot : Add(s)
         \/ \E h \in Handler :
              \/ Call(h) \/ Tick(h) \/ ReturnNil(h) \/ ReadFlags(h)
              \/ EndScan(h) \/ Lease(h) \/ Skip(h) \/ NoneLeft(h)
              \/ MarkAsNotBusy(h) \/ MarkAsBad(h) \/ GiveUp(h)
              \/ GiveUpMarkingAgain(h) \/ GiveUpReleasing(h)
<1>1. CASE FillerStep
  BY <1>1 DEF FillerStep, InitProxyManager, CountNeeded, Spawn, FillerStops,
     leaseVars, flagVars, handlerVars
<1>2. ASSUME NEW s \in Slot, Claim(s) \/ ClaimPanics(s)
      PROVE UNCHANGED leaseVars
  BY <1>2 DEF Claim, ClaimPanics, leaseVars, flagVars, handlerVars
<1>3. CASE CancelTaskManager \/ Shutdown
  BY <1>3 DEF CancelTaskManager, Shutdown, leaseVars, poolVars, flagVars,
     handlerVars
<1>4. CASE UNCHANGED vars
  BY <1>4 DEF vars, leaseVars, poolVars, flagVars, handlerVars
<1> QED
  BY <1>1, <1>2, <1>3, <1>4
     DEF Next, SlotStep, SearchStep, EndUse, AfterFailure

(* Each step that adds or removes an entry keeps the map within MaxConn.   *)
LEMMA NextPoolBounded == TypeOK /\ PoolBounded /\ [Next]_vars => PoolBounded'
<1> SUFFICES ASSUME TypeOK, PoolBounded, [Next]_vars PROVE PoolBounded'
  OBVIOUS
<1> USE DEF PoolBounded
<1>1. IsFiniteSet(Pooled) /\ Cardinality(Pooled) \in Nat
  BY PooledFinite DEF TypeOK
<1>2. ASSUME NEW s \in Slot, Add(s) PROVE PoolBounded'
  <2> DEFINE a == slot[s].addr
  <2>1. a \in Addr
    BY <1>2 DEF Add, TypeOK
  <2>2. CASE RoomFor(a)
    <3>1. PICK c \in Client : c.addr = a /\ pool' = [pool EXCEPT ![a] = c]
      <4>1. PICK g \in Gen :
              pool' = [pool EXCEPT ![a] = [addr |-> a, gen |-> g]]
        BY <1>2, <2>2 DEF Add
      <4>2. [addr |-> a, gen |-> g] \in Client
        BY <2>1 DEF Client
      <4> QED
        BY <4>1, <4>2
    <3>2. Pooled' = Pooled \cup {c}
      BY <3>1, <2>2, AddGrows DEF RoomFor
    <3>3. \/ Cardinality(Pooled') = Cardinality(Pooled)
          \/ Cardinality(Pooled') = Cardinality(Pooled) + 1
      BY <3>2, <1>1, FS_AddElement
    <3> QED
      BY <3>3, <2>2, <1>1, PoolAssumption DEF RoomFor
  <2>3. CASE ~RoomFor(a)
    BY <1>2, <2>3 DEF Add, Pooled
  <2> QED
    BY <2>2, <2>3
<1>3. ASSUME NEW h \in Handler, MarkAsBad(h) \/ GiveUpMarkingAgain(h)
      PROVE  PoolBounded'
  <2>1. client[h].addr \in Addr /\ RemoveProxyClient(client[h].addr)
    BY <1>3 DEF MarkAsBad, GiveUpMarkingAgain, TypeOK, Client
  <2>2. Pooled' \in SUBSET Pooled
    BY <2>1, RemoveShrinks
  <2> QED
    BY <2>2, <1>1, FS_Subset, FS_CardinalityType, PoolAssumption
<1>4. CASE UNCHANGED pool
  BY <1>4 DEF Pooled
<1> QED
  BY <1>2, <1>3, <1>4, LeaseSteps
     DEF leaseVars, Call, Tick, StartScan, ReturnNil, ReadFlags, EndScan,
         Lease, Skip, NoneLeft, MarkAsNotBusy, GiveUp, GiveUpReleasing, poolVars

(* A handler that holds a client keeps its Busy flag set and shares it     *)
(* with nobody: Lease takes only clients that are not Busy.                *)
LEMMA NextHeld ==
  TypeOK /\ HeldBusy /\ HoldExclusive /\ [Next]_vars
    => HeldBusy' /\ HoldExclusive'
<1> SUFFICES ASSUME TypeOK, HeldBusy, HoldExclusive, [Next]_vars
             PROVE  HeldBusy' /\ HoldExclusive'
  OBVIOUS
<1> USE DEF HeldBusy, HoldExclusive, Holds, TypeOK
<1>1. CASE UNCHANGED leaseVars
  BY <1>1 DEF leaseVars
<1>2. ASSUME NEW s \in Slot, Add(s) PROVE HeldBusy' /\ HoldExclusive'
  <2>1. \A h \in Handler : client[h] \in Reachable
    BY DEF Reachable
  <2>2. \A h \in Handler : client[h] \in busy => client[h] \in busy'
    BY <1>2, <2>1 DEF Add, flagVars
  <2> QED
    BY <1>2, <2>2 DEF Add, handlerVars
<1>3. ASSUME NEW h \in Handler,
             Call(h) \/ Tick(h) \/ ReturnNil(h) \/ ReadFlags(h) \/ EndScan(h)
               \/ Skip(h) \/ NoneLeft(h)
      PROVE  HeldBusy' /\ HoldExclusive'
  BY <1>3 DEF Call, Tick, StartScan, ReturnNil, ReadFlags, EndScan, Skip,
     NoneLeft, flagVars
<1>4. ASSUME NEW h \in Handler, Lease(h) PROVE HeldBusy' /\ HoldExclusive'
  <2>1. PICK c \in active[h] :
          /\ c \notin busy
          /\ busy' = busy \cup {c}
          /\ client' = [client EXCEPT ![h] = c]
    BY <1>4 DEF Lease, StillFree
  <2> QED
    BY <1>4, <2>1 DEF Lease
<1>5. ASSUME NEW h \in Handler, MarkAsNotBusy(h) \/ GiveUpReleasing(h)
      PROVE  HeldBusy' /\ HoldExclusive'
  <2>1. /\ Holds(h)
        /\ busy' = busy \ {client[h]}
        /\ pc' = [pc EXCEPT ![h] = "idle"]
        /\ client' = [client EXCEPT ![h] = NoClient]
    BY <1>5 DEF MarkAsNotBusy, GiveUpReleasing, Freed, Leave
  <2> QED
    BY <2>1
<1>6. ASSUME NEW h \in Handler,
             MarkAsBad(h) \/ GiveUp(h) \/ GiveUpMarkingAgain(h)
      PROVE  HeldBusy' /\ HoldExclusive'
  BY <1>6 DEF MarkAsBad, GiveUp, GiveUpMarkingAgain, Leave, flagVars
<1> QED
  BY <1>1, <1>2, <1>3, <1>4, <1>5, <1>6, LeaseSteps

(* Whoever goes without its client has freed it or removed its address     *)
(* first, so a pooled client stays Busy only for the handler using it.     *)
LEMMA NextNoLeak ==
  TypeOK /\ HeldBusy /\ HoldExclusive /\ NoLeakedLease /\ [Next]_vars
    => NoLeakedLease'
<1> SUFFICES ASSUME TypeOK, HeldBusy, HoldExclusive, NoLeakedLease, [Next]_vars
             PROVE  NoLeakedLease'
  OBVIOUS
<1> USE DEF NoLeakedLease, Leases
<1>1. CASE UNCHANGED leaseVars
  BY <1>1 DEF leaseVars, Pooled
<1>2. ASSUME NEW s \in Slot, Add(s) PROVE NoLeakedLease'
  <2> DEFINE a == slot[s].addr
  <2>1. a \in Addr
    BY <1>2 DEF Add, TypeOK
  <2>2. UNCHANGED <<pc, client>>
    BY <1>2 DEF Add, handlerVars
  <2>3. CASE RoomFor(a)
    <3>1. PICK c \in Client :
            /\ c.addr = a /\ c \notin Reachable
            /\ pool' = [pool EXCEPT ![a] = c]
            /\ busy' = busy \cap Reachable
      <4>1. PICK g \in Gen :
              /\ [addr |-> a, gen |-> g] \notin Reachable
              /\ pool' = [pool EXCEPT ![a] = [addr |-> a, gen |-> g]]
              /\ busy' = busy \cap Reachable
        BY <1>2, <2>3 DEF Add
      <4>2. [addr |-> a, gen |-> g] \in Client
        BY <2>1 DEF Client
      <4> QED
        BY <4>1, <4>2
    <3>2. Pooled' = Pooled \cup {c}
      BY <3>1, <2>3, AddGrows DEF RoomFor
    <3> QED
      BY <3>1, <3>2, <2>2
  <2>4. CASE ~RoomFor(a)
    BY <1>2, <2>2, <2>4 DEF Add, Pooled, flagVars
  <2> QED
    BY <2>3, <2>4
<1>3. ASSUME NEW h \in Handler,
             Call(h) \/ Tick(h) \/ ReturnNil(h) \/ ReadFlags(h) \/ EndScan(h)
               \/ Skip(h) \/ NoneLeft(h) \/ GiveUp(h)
      PROVE  NoLeakedLease'
  <2>1. /\ UNCHANGED <<pool, busy>>
        /\ pc[h] # "using"
        /\ \A k \in Handler \ {h} : pc'[k] = pc[k] /\ client'[k] = client[k]
    BY <1>3 DEF Call, Tick, StartScan, ReturnNil, ReadFlags, EndScan, Skip,
       NoneLeft, GiveUp, Leave, poolVars, flagVars, TypeOK
  <2>2. Pooled' = Pooled
    BY <2>1 DEF Pooled
  <2> QED
    BY <2>1, <2>2
<1>4. ASSUME NEW h \in Handler, Lease(h) PROVE NoLeakedLease'
  <2>1. PICK c \in active[h] :
          /\ busy' = busy \cup {c}
          /\ client' = [client EXCEPT ![h] = c]
    BY <1>4 DEF Lease
  <2>2. Pooled' = Pooled /\ pc[h] = "try" /\ pc' = [pc EXCEPT ![h] = "using"]
    BY <1>4 DEF Lease, Pooled, poolVars
  <2> QED
    BY <2>1, <2>2 DEF TypeOK
<1>5. ASSUME NEW h \in Handler, MarkAsNotBusy(h) \/ GiveUpReleasing(h)
      PROVE  NoLeakedLease'
  <2>1. /\ busy' = busy \ {client[h]}
        /\ pc' = [pc EXCEPT ![h] = "idle"]
        /\ client' = [client EXCEPT ![h] = NoClient]
        /\ Pooled' = Pooled
    BY <1>5 DEF MarkAsNotBusy, GiveUpReleasing, Freed, Leave, poolVars, Pooled
  <2> QED
    BY <2>1 DEF TypeOK
<1>6. ASSUME NEW h \in Handler, MarkAsBad(h) PROVE NoLeakedLease'
  <2>1. client[h] \in Client /\ client[h].addr \in Addr
    BY <1>6 DEF MarkAsBad, TypeOK, Client
  <2>2. Pooled' = {c \in Pooled : c # pool[client[h].addr]}
    BY <1>6, <2>1, RemoveShrinks DEF MarkAsBad
  <2>3. client[h] \notin Pooled'
    BY <2>2, FiledUnder
  <2>4. busy' = busy /\ client' = client /\ pc' = [pc EXCEPT ![h] = "failed"]
    BY <1>6 DEF MarkAsBad, flagVars
  <2> QED
    BY <2>2, <2>3, <2>4 DEF TypeOK
<1>7. ASSUME NEW h \in Handler, GiveUpMarkingAgain(h) PROVE NoLeakedLease'
  <2>1. client[h].addr \in Addr
    BY <1>7 DEF GiveUpMarkingAgain, TypeOK, Client
  <2>2. Pooled' \subseteq Pooled
    BY <1>7, <2>1, RemoveShrinks DEF GiveUpMarkingAgain
  <2>3. /\ busy' = busy /\ pc[h] = "failed"
        /\ pc' = [pc EXCEPT ![h] = "idle"]
        /\ client' = [client EXCEPT ![h] = NoClient]
    BY <1>7 DEF GiveUpMarkingAgain, Leave, flagVars
  <2> QED
    BY <2>2, <2>3 DEF TypeOK
<1> QED
  BY <1>1, <1>2, <1>3, <1>4, <1>5, <1>6, <1>7, LeaseSteps

(* Until a late mark, a client somebody's scan has seen can be leased only *)
(* if it is pooled, and a client in use is pooled: RemoveProxyClient, which *)
(* goes by address, then removes the client of the handler that calls it.  *)
LEMMA NextAddress ==
  TypeOK /\ HeldBusy /\ HoldExclusive /\ SnapshotPooled /\ AddressExclusive
    /\ [Next]_vars
    => SnapshotPooled' /\ AddressExclusive'
<1> SUFFICES ASSUME TypeOK, HeldBusy, HoldExclusive, SnapshotPooled,
                    AddressExclusive, [Next]_vars, ~lateMark'
             PROVE  SnapshotPooled' /\ AddressExclusive'
  BY DEF SnapshotPooled, AddressExclusive
<1> USE DEF SnapshotPooled, AddressExclusive
<1>1. CASE UNCHANGED leaseVars
  BY <1>1 DEF leaseVars
<1>2. ASSUME NEW s \in Slot, Add(s)
      PROVE  SnapshotPooled' /\ AddressExclusive'
  <2>1. UNCHANGED <<pc, unread, active, client, lateMark>>
    BY <1>2 DEF Add, handlerVars
  <2>2. \A a \in Addr : pool[a] # NoClient => pool'[a] = pool[a]
    BY <1>2 DEF Add, RoomFor, TypeOK
  <2>3. \A h \in Handler : \A c \in unread[h] \cup active[h] :
          /\ c.addr \in Addr /\ c # NoClient
          /\ c \in busy => c \in busy'
    <3> SUFFICES ASSUME NEW h \in Handler, NEW c \in unread[h] \cup active[h]
                 PROVE  /\ c.addr \in Addr /\ c # NoClient
                        /\ c \in busy => c \in busy'
      OBVIOUS
    <3>1. c \in Client
      BY DEF TypeOK
    <3>2. c.addr \in Addr
      BY <3>1 DEF Client
    <3>3. c \in Reachable
      BY DEF Reachable
    <3>4. busy' = busy \/ busy' = busy \cap Reachable
      BY <1>2 DEF Add, flagVars
    <3> QED
      BY <3>1, <3>2, <3>3, <3>4, PoolAssumption
  <2>4. \A h \in Handler : pc[h] = "using" =>
          client[h].addr \in Addr /\ client[h] # NoClient
    BY DEF TypeOK, Client
  <2> QED
    BY <2>1, <2>2, <2>3, <2>4
<1>3. ASSUME NEW h \in Handler, Call(h) \/ Tick(h)
      PROVE  SnapshotPooled' /\ AddressExclusive'
  <2>1. /\ pc' = [pc EXCEPT ![h] = "scan"]
        /\ unread' = [unread EXCEPT ![h] = Pooled]
        /\ client' = [client EXCEPT ![h] = NoClient]
        /\ UNCHANGED <<pool, busy, active, lateMark>>
    BY <1>3 DEF Call, Tick, StartScan, poolVars, flagVars
  <2> QED
    BY <2>1, FiledUnder DEF TypeOK
<1>4. ASSUME NEW h \in Handler,
             ReturnNil(h) \/ ReadFlags(h) \/ EndScan(h) \/ Skip(h)
               \/ NoneLeft(h) \/ GiveUp(h)
      PROVE  SnapshotPooled' /\ AddressExclusive'
  <2>1. UNCHANGED <<pool, busy, lateMark>>
    BY <1>4 DEF ReturnNil, ReadFlags, EndScan, Skip, NoneLeft, GiveUp, Leave,
       poolVars, flagVars
  <2>2. \A k \in Handler :
          unread'[k] \cup active'[k] \subseteq unread[k] \cup active[k]
    BY <1>4 DEF ReturnNil, ReadFlags, EndScan, Skip, NoneLeft, GiveUp, Leave,
       TypeOK
  <2>3. \A k \in Handler : pc'[k] = "using" =>
          pc[k] = "using" /\ client'[k] = client[k]
    BY <1>4 DEF ReturnNil, ReadFlags, EndScan, Skip, NoneLeft, GiveUp, Leave,
       TypeOK
  <2> QED
    BY <2>1, <2>2, <2>3
<1>5. ASSUME NEW h \in Handler, Lease(h)
      PROVE  SnapshotPooled' /\ AddressExclusive'
  <2>1. PICK c \in active[h] :
          /\ c \notin busy
          /\ busy' = busy \cup {c}
          /\ client' = [client EXCEPT ![h] = c]
    BY <1>5 DEF Lease, StillFree
  <2>2. /\ pc' = [pc EXCEPT ![h] = "using"]
        /\ active' = [active EXCEPT ![h] = {}]
        /\ UNCHANGED <<pool, unread, lateMark>>
    BY <1>5 DEF Lease, poolVars
  <2>3. pool[c.addr] = c
    BY <2>1, <2>2
  <2> QED
    BY <2>1, <2>2, <2>3 DEF TypeOK
<1>6. ASSUME NEW h \in Handler, MarkAsNotBusy(h)
      PROVE  SnapshotPooled' /\ AddressExclusive'
  <2>1. /\ pc[h] = "using"
        /\ busy' = busy \ {client[h]}
        /\ pc' = [pc EXCEPT ![h] = "idle"]
        /\ client' = [client EXCEPT ![h] = NoClient]
        /\ UNCHANGED <<pool, unread, active, lateMark>>
    BY <1>6 DEF MarkAsNotBusy, Freed, poolVars
  <2>2. pool[client[h].addr] = client[h]
    BY <2>1
  <2> QED
    BY <2>1, <2>2 DEF TypeOK
<1>7. ASSUME NEW h \in Handler, MarkAsBad(h)
      PROVE  SnapshotPooled' /\ AddressExclusive'
  <2> DEFINE a == client[h].addr
  <2>1. /\ pc[h] = "using"
        /\ pool' = [pool EXCEPT ![a] = NoClient]
        /\ pc' = [pc EXCEPT ![h] = "failed"]
        /\ UNCHANGED <<busy, unread, active, client, lateMark>>
    BY <1>7 DEF MarkAsBad, RemoveProxyClient, flagVars
  <2>2. pool[a] = client[h] /\ client[h] \in busy
    BY <2>1 DEF HeldBusy, Holds
  <2>3. \A b \in Addr : b # a => pool'[b] = pool[b]
    BY <2>1 DEF TypeOK
  <2>4. SnapshotPooled'
    <3> SUFFICES ASSUME NEW k \in Handler, NEW c \in unread[k] \cup active[k],
                        c \notin busy
                 PROVE  pool'[c.addr] = c
      BY <2>1
    <3>1. c \in Client /\ c.addr \in Addr /\ pool[c.addr] = c
      BY <2>1 DEF TypeOK, Client
    <3> QED
      BY <3>1, <2>2, <2>3
  <2>5. AddressExclusive'
    <3> SUFFICES ASSUME NEW k \in Handler, pc'[k] = "using"
                 PROVE  pool'[client[k].addr] = client[k]
      BY <2>1
    <3>1. k # h /\ pc[k] = "using" /\ client[k].addr \in Addr
      BY <2>1 DEF TypeOK, Client
    <3>2. client[k] # client[h] /\ pool[client[k].addr] = client[k]
      BY <2>1, <3>1 DEF HoldExclusive, Holds
    <3> QED
      BY <3>1, <3>2, <2>2, <2>3
  <2> QED
    BY <2>4, <2>5
<1>8. ASSUME NEW h \in Handler, GiveUpMarkingAgain(h)
      PROVE  SnapshotPooled' /\ AddressExclusive'
  <2>1. /\ pc' = [pc EXCEPT ![h] = "idle"]
        /\ client' = [client EXCEPT ![h] = NoClient]
        /\ UNCHANGED <<busy, unread, active, lateMark>>
        /\ pool[client[h].addr] = NoClient
        /\ pool' = [pool EXCEPT ![client[h].addr] = NoClient]
    BY <1>8 DEF GiveUpMarkingAgain, RemoveProxyClient, Leave, flagVars, TypeOK
  <2>2. pool' = pool
    BY <2>1 DEF TypeOK
  <2> QED
    BY <2>1, <2>2 DEF TypeOK
<1>9. ASSUME NEW h \in Handler, GiveUpReleasing(h)
      PROVE  SnapshotPooled' /\ AddressExclusive'
  BY <1>9 DEF GiveUpReleasing
<1> QED
  BY <1>1, <1>2, <1>3, <1>4, <1>5, <1>6, <1>7, <1>8, <1>9, LeaseSteps

(* The strengthening holds initially and is kept by every step.            *)
THEOREM InvariantHolds == Spec => []IInv
<1>1. Init => IInv
  <2> SUFFICES ASSUME Init PROVE IInv
    OBVIOUS
  <2>1. Pooled = {}
    BY DEF Init, Pooled
  <2>2. PoolBounded
    BY <2>1, FS_EmptySet, PoolAssumption DEF PoolBounded
  <2>3. HeldBusy /\ HoldExclusive /\ SnapshotPooled /\ AddressExclusive
    BY DEF Init, HeldBusy, HoldExclusive, Holds, SnapshotPooled,
       AddressExclusive
  <2> QED
    BY <2>1, <2>2, <2>3, InitTypeOK DEF IInv, NoLeakedLease
<1>2. IInv /\ [Next]_vars => IInv'
  BY NextTypeOK, NextPoolBounded, NextHeld, NextNoLeak, NextAddress DEF IInv
<1> QED
  BY <1>1, <1>2, PTL DEF Spec

(* The map never holds more than MaxConn clients, whatever the number of   *)
(* testAndAddProxy goroutines between their two critical sections.         *)
THEOREM PoolStaysBounded == Spec => []PoolBounded
<1>1. IInv => PoolBounded
  BY DEF IInv
<1> QED
  BY <1>1, InvariantHolds, PTL

(* No client is ever handed to two handlers at a time.                     *)
THEOREM LeasesExclude == Spec => []LeaseExclusive
<1>1. IInv => LeaseExclusive
  BY DEF IInv, LeaseExclusive, Leases, HoldExclusive, Holds
<1> QED
  BY <1>1, InvariantHolds, PTL

(* No pooled client stays Busy without a handler that uses it.             *)
THEOREM NoLeaseLeaks == Spec => []NoLeakedLease
<1>1. IInv => NoLeakedLease
  BY DEF IInv
<1> QED
  BY <1>1, InvariantHolds, PTL

(* Until a late mark, a client in use is the one filed under its address.  *)
THEOREM AddressesExclude == Spec => []AddressExclusive
<1>1. IInv => AddressExclusive
  BY DEF IInv
<1> QED
  BY <1>1, InvariantHolds, PTL

(* The index runs past the list only after a fetch that returned nothing.  *)
THEOREM PanicCause == Spec => []PanicOnlyOnEmptyFetch
<1>1. Init => PanicOnlyOnEmptyFetch
  BY DEF Init, PanicOnlyOnEmptyFetch
<1>2. TypeOK /\ PanicOnlyOnEmptyFetch /\ [Next]_vars => PanicOnlyOnEmptyFetch'
  <2> SUFFICES ASSUME TypeOK, PanicOnlyOnEmptyFetch, [Next]_vars
               PROVE  PanicOnlyOnEmptyFetch'
    OBVIOUS
  <2>1. CASE \E s \in Slot : ClaimPanics(s)
    <3>1. PICK from \in Lists :
            from.next >= Len(from.list) /\ addresses' = from.list
      BY <2>1 DEF ClaimPanics
    <3>2. from.list \in Seq(Addr) /\ Len(from.list) = 0
      BY <3>1, PoolAssumption DEF Lists, Exhausted, TypeOK
    <3>3. addresses' = <<>>
      BY <3>1, <3>2
    <3> QED
      BY <3>3 DEF PanicOnlyOnEmptyFetch
  <2>2. CASE \A s \in Slot : ~ClaimPanics(s)
    <3>1. CASE Next
      <4>1. ~crashed /\ crashed' = crashed
        BY <2>2, <3>1 DEF Next, FillerStep, SlotStep, SearchStep, EndUse,
           AfterFailure, InitProxyManager, CountNeeded, Spawn, FillerStops,
           Claim, Add, Call, Tick, StartScan, ReturnNil, ReadFlags, EndScan,
           Lease, Skip, NoneLeft, MarkAsNotBusy, MarkAsBad, GiveUp,
           GiveUpMarkingAgain, GiveUpReleasing, CancelTaskManager, Shutdown,
           ctxVars
      <4> QED
        BY <4>1 DEF PanicOnlyOnEmptyFetch
    <3>2. CASE UNCHANGED vars
      BY <3>2 DEF PanicOnlyOnEmptyFetch, vars, poolVars, ctxVars
    <3> QED
      BY <3>1, <3>2
  <2> QED
    BY <2>1, <2>2
<1> QED
  BY <1>1, <1>2, TypeCorrect, PTL DEF Spec

-----------------------------------------------------------------------------
(* ProxyPool implements ProxyLease.                                        *)

(* What a handler holds changes only with its own pc and client.           *)
LEMMA HeldUpdate ==
  ASSUME TypeOK, NEW h \in Handler, NEW p, NEW c,
         pc' = [pc EXCEPT ![h] = p], client' = [client EXCEPT ![h] = c]
  PROVE  Held' = [Held EXCEPT ![h] = IF p = "using" THEN c ELSE NoClient]
BY DEF Held, TypeOK

(* ProxyLease counts as ProxyPool does.                                    *)
LEMMA SameCount == \A S : Promise!Cardinality(S) = Cardinality(S)
BY DEF Promise!Cardinality, Cardinality

(* The pool starts empty and nobody holds a client.                        *)
LEMMA InitImplements == Init => Promise!LeaseInit
BY DEF Init, Promise!LeaseInit, Pooled, Held

(* Every step is a step of ProxyLease or leaves its variables alone.       *)
LEMMA NextImplements ==
  IInv /\ PoolBounded' /\ [Next]_vars => [Promise!LeaseNext]_Promise!lvars
<1> SUFFICES ASSUME IInv, PoolBounded', [Next]_vars
             PROVE  Promise!LeaseNext \/ UNCHANGED <<Pooled, Held, lateMark>>
  BY DEF Promise!lvars
<1> USE DEF IInv
<1>1. CASE UNCHANGED leaseVars
  BY <1>1 DEF leaseVars, Pooled, Held
<1>2. ASSUME NEW s \in Slot, Add(s)
      PROVE  Promise!LeaseNext \/ UNCHANGED <<Pooled, Held, lateMark>>
  <2> DEFINE a == slot[s].addr
  <2>1. a \in Addr
    BY <1>2 DEF Add, TypeOK
  <2>2. UNCHANGED <<Held, lateMark>>
    BY <1>2 DEF Add, handlerVars, Held
  <2>3. CASE RoomFor(a)
    <3>1. PICK g \in Gen : pool' = [pool EXCEPT ![a] = [addr |-> a, gen |-> g]]
      BY <1>2, <2>3 DEF Add
    <3>2. PICK c \in Client : c.addr = a /\ pool' = [pool EXCEPT ![a] = c]
      <4>1. [addr |-> a, gen |-> g] \in Client
        BY <2>1 DEF Client
      <4> QED
        BY <3>1, <4>1
    <3>3. Pooled' = Pooled \cup {c}
      BY <3>2, <2>3, AddGrows DEF RoomFor
    <3>4. \A d \in Pooled : d.addr # c.addr
      BY <2>3, <3>2, FiledUnder DEF RoomFor, Pooled
    <3>5. Promise!Admit(c)
      BY <2>2, <3>3, <3>4, SameCount DEF Promise!Admit, PoolBounded
    <3> QED
      BY <3>5 DEF Promise!LeaseNext
  <2>4. CASE ~RoomFor(a)
    BY <1>2, <2>2, <2>4 DEF Add, Pooled
  <2> QED
    BY <2>3, <2>4
<1>3. ASSUME NEW h \in Handler,
             Call(h) \/ Tick(h) \/ ReturnNil(h) \/ ReadFlags(h) \/ EndScan(h)
               \/ Skip(h) \/ NoneLeft(h) \/ GiveUp(h)
      PROVE  UNCHANGED <<Pooled, Held, lateMark>>
  <2>1. UNCHANGED <<pool, lateMark>> /\ pc[h] # "using" /\ pc'[h] # "using"
    BY <1>3 DEF Call, Tick, StartScan, ReturnNil, ReadFlags, EndScan, Skip,
       NoneLeft, GiveUp, Leave, poolVars, TypeOK
  <2>2. \A k \in Handler \ {h} : pc'[k] = pc[k] /\ client'[k] = client[k]
    BY <1>3 DEF Call, Tick, StartScan, ReturnNil, ReadFlags, EndScan, Skip,
       NoneLeft, GiveUp, Leave, TypeOK
  <2> QED
    BY <2>1, <2>2 DEF Pooled, Held
<1>4. ASSUME NEW h \in Handler, Lease(h) PROVE Promise!LeaseNext
  <2>1. PICK c \in active[h] :
          c \notin busy /\ client' = [client EXCEPT ![h] = c]
    BY <1>4 DEF Lease, StillFree
  <2>2. /\ pc[h] = "try" /\ pc' = [pc EXCEPT ![h] = "using"]
        /\ UNCHANGED <<pool, lateMark>>
    BY <1>4 DEF Lease, poolVars
  <2>3. Held[h] = NoClient /\ c \in Client /\ c # NoClient
    BY <2>1, <2>2, PoolAssumption DEF Held, TypeOK
  <2>4. \A k \in Handler : Held[k] # c
    BY <2>1, <2>3 DEF Held, HeldBusy, Holds
  <2>5. c \in Pooled \/ lateMark
    <3>1. CASE ~lateMark
      <4>1. pool[c.addr] = c
        BY <2>1, <3>1 DEF SnapshotPooled
      <4>2. c.addr \in Addr
        BY <2>3 DEF Client
      <4> QED
        BY <4>1, <4>2, <2>3 DEF Pooled
    <3> QED
      BY <3>1
  <2>6. Held' = [Held EXCEPT ![h] = c] /\ Pooled' = Pooled
    BY <2>1, <2>2, HeldUpdate DEF Pooled
  <2>7. Promise!Grant(h, c)
    BY <2>2, <2>3, <2>4, <2>5, <2>6 DEF Promise!Grant
  <2> QED
    BY <2>3, <2>7 DEF Promise!LeaseNext
<1>5. ASSUME NEW h \in Handler, MarkAsNotBusy(h) PROVE Promise!LeaseNext
  <2>1. /\ pc[h] = "using" /\ pc' = [pc EXCEPT ![h] = "idle"]
        /\ client' = [client EXCEPT ![h] = NoClient]
        /\ UNCHANGED <<pool, lateMark>>
    BY <1>5 DEF MarkAsNotBusy, poolVars
  <2>2. Held[h] # NoClient
    BY <2>1 DEF Held, TypeOK
  <2>3. Held' = [Held EXCEPT ![h] = NoClient] /\ Pooled' = Pooled
    BY <2>1, HeldUpdate DEF Pooled
  <2>4. Promise!GiveBack(h)
    BY <2>1, <2>2, <2>3 DEF Promise!GiveBack
  <2> QED
    BY <2>4 DEF Promise!LeaseNext
<1>6. ASSUME NEW h \in Handler, MarkAsBad(h) PROVE Promise!LeaseNext
  <2> DEFINE a == client[h].addr
  <2>1. /\ pc[h] = "using" /\ pc' = [pc EXCEPT ![h] = "failed"]
        /\ client' = client /\ lateMark' = lateMark
        /\ RemoveProxyClient(a)
    BY <1>6 DEF MarkAsBad
  <2>2. Held[h] = client[h] /\ client[h] \in Client /\ a \in Addr
    BY <2>1 DEF Held, TypeOK, Client
  <2>3. Held' = [Held EXCEPT ![h] = NoClient]
    BY <2>1 DEF Held, TypeOK
  <2>4. Pooled' = {c \in Pooled : c # pool[a]}
    BY <2>1, <2>2, RemoveShrinks
  <2>5. \A c \in Pooled : c # pool[a] <=> c.addr # a
    BY <2>2, FiledUnder, PoolAssumption DEF TypeOK
  <2>6. Pooled' = {c \in Pooled : c.addr # Held[h].addr}
    BY <2>2, <2>4, <2>5
  <2>7. lateMark \/ Pooled' = Pooled \ {Held[h]}
    <3>1. CASE ~lateMark
      BY <2>1, <2>2, <2>4, <3>1 DEF AddressExclusive
    <3> QED
      BY <3>1
  <2>8. Promise!Discard(h)
    BY <2>1, <2>2, <2>3, <2>6, <2>7, PoolAssumption DEF Promise!Discard
  <2> QED
    BY <2>8 DEF Promise!LeaseNext
<1>7. ASSUME NEW h \in Handler, GiveUpMarkingAgain(h)
      PROVE  Promise!LeaseNext \/ UNCHANGED <<Pooled, Held, lateMark>>
  <2> DEFINE a == client[h].addr
  <2>1. /\ pc[h] = "failed" /\ pc' = [pc EXCEPT ![h] = "idle"]
        /\ client' = [client EXCEPT ![h] = NoClient]
        /\ lateMark' = (lateMark \/ pool[a] # NoClient)
        /\ RemoveProxyClient(a)
    BY <1>7 DEF GiveUpMarkingAgain, Leave
  <2>2. a \in Addr
    BY <2>1 DEF TypeOK, Client
  <2>3. Pooled' = Pooled \ {pool[a]}
    BY <2>1, <2>2, RemoveShrinks
  <2>4. Held' = Held
    BY <2>1 DEF Held, TypeOK
  <2>5. CASE pool[a] = NoClient
    BY <2>1, <2>3, <2>4, <2>5 DEF Pooled, TypeOK
  <2>6. CASE pool[a] # NoClient
    <3>1. {pool[a]} \in SUBSET Pooled /\ Cardinality({pool[a]}) <= 1
      <4>1. pool[a] \in Pooled
        BY <2>2, <2>6 DEF Pooled
      <4>2. Cardinality({pool[a]}) = 1
        BY FS_Singleton
      <4> QED
        BY <4>1, <4>2
    <3>2. lateMark' = TRUE
      BY <2>1, <2>6
    <3>3. Promise!MarkLate
      BY <2>3, <2>4, <3>1, <3>2, SameCount DEF Promise!MarkLate
    <3> QED
      BY <3>3 DEF Promise!LeaseNext
  <2> QED
    BY <2>5, <2>6
<1>8. ASSUME NEW h \in Handler, GiveUpReleasing(h) PROVE Promise!LeaseNext
  <2>1. /\ pc[h] = "failed" /\ pc' = [pc EXCEPT ![h] = "idle"]
        /\ client' = [client EXCEPT ![h] = NoClient]
        /\ lateMark' = TRUE /\ pool' = pool
    BY <1>8 DEF GiveUpReleasing, Leave, poolVars
  <2>2. Held' = Held /\ Pooled' = Pooled
    BY <2>1 DEF Held, Pooled, TypeOK
  <2>3. {} \in SUBSET Pooled /\ Cardinality({}) <= 1
    BY FS_EmptySet
  <2>4. Promise!MarkLate
    BY <2>1, <2>2, <2>3, SameCount DEF Promise!MarkLate
  <2> QED
    BY <2>4 DEF Promise!LeaseNext
<1> QED
  BY <1>1, <1>2, <1>3, <1>4, <1>5, <1>6, <1>7, <1>8, LeaseSteps

(* The proxy pool implements the lease service, for any number of          *)
(* handlers, goroutines and addresses.                                     *)
THEOREM Implements == Spec => ImplementsLease
<1>1. IInv => PoolBounded
  BY DEF IInv
<1> QED
  BY <1>1, InitImplements, NextImplements, InvariantHolds, PTL
     DEF Spec, ImplementsLease, Promise!LeaseSpec
=============================================================================
