------------------------------ MODULE ProxyLease ------------------------------
(***************************************************************************)
(* What the proxy pool promises to the crawl handlers, without the map,    *)
(* its locks, the flags and the scans: a bounded set of clients, at most   *)
(* one per address, each of them leased to at most one handler.  The       *)
(* promise that a lease is of a pooled client is kept only until a handler *)
(* has marked a client it no longer holds.                                 *)
(***************************************************************************)
EXTENDS Naturals, FiniteSets

CONSTANTS Client, NoClient, Handler, MaxConn

VARIABLES
  pooled,   \* the clients in the pool
  lease,    \* what each handler holds: a client or NoClient
  blunt     \* a handler has marked a client it did not hold

lvars == <<pooled, lease, blunt>>

LeaseInit ==
  /\ pooled = {}
  /\ lease = [h \in Handler |-> NoClient]
  /\ blunt = FALSE

(* A new client enters, under an address that has none.                    *)
Admit(c) ==
  /\ \A d \in pooled : d.addr # c.addr
  /\ pooled' = pooled \cup {c}
  /\ Cardinality(pooled') <= MaxConn
  /\ UNCHANGED <<lease, blunt>>

(* A handler without a client gets one that nobody holds.                  *)
Grant(h, c) ==
  /\ lease[h] = NoClient
  /\ \A other \in Handler : lease[other] # c
  /\ c \in pooled \/ blunt
  /\ lease' = [lease EXCEPT ![h] = c]
  /\ UNCHANGED <<pooled, blunt>>

GiveBack(h) ==
  /\ lease[h] # NoClient
  /\ lease' = [lease EXCEPT ![h] = NoClient]
  /\ UNCHANGED <<pooled, blunt>>

(* The handler found its client bad: the client leaves the pool with it.   *)
Discard(h) ==
  /\ lease[h] # NoClient
  /\ pooled' = {d \in pooled : d.addr # lease[h].addr}
  /\ blunt \/ pooled' = pooled \ {lease[h]}
  /\ lease' = [lease EXCEPT ![h] = NoClient]
  /\ UNCHANGED blunt

(* Somebody marks a client that is no longer its own.                      *)
MarkLate ==
  /\ \E gone \in SUBSET pooled :
       /\ Cardinality(gone) <= 1
       /\ pooled' = pooled \ gone
  /\ blunt' = TRUE
  /\ UNCHANGED lease

LeaseNext ==
  \/ \E c \in Client : Admit(c)
  \/ \E h \in Handler, c \in Client : Grant(h, c)
  \/ \E h \in Handler : GiveBack(h) \/ Discard(h)
  \/ MarkLate

LeaseSpec == LeaseInit /\ [][LeaseNext]_lvars
=============================================================================
