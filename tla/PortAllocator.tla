--------------------------- MODULE PortAllocator ---------------------------
(***************************************************************************)
(* The dynamic host-port pool of one node: crates/net/src/ports.rs.        *)
(*                                                                         *)
(* `available` is the BTreeSet of free ports; `allocated` is the HashMap   *)
(* from a port to the allocation that owns it, written as a total function *)
(* that is None where the map has no entry.  `excluded` is a history    *)
(* variable: the ports the host scan of with_range found in use when this  *)
(* pool was built.                                                         *)
(*                                                                         *)
(* Every method runs under the pool's mutex, so each is one action.        *)
(***************************************************************************)
EXTENDS MillTypes, Integers

CONSTANTS
    Start, End      \* the port range, both ends included (49152..65535)

ASSUME RangeAssumption == Start \in Nat /\ End \in Nat /\ Start <= End

VARIABLES available, allocated, excluded

poolVars == <<available, allocated, excluded>>

Ports == Start .. End

Owned == {p \in Ports : allocated[p] # None}

PoolTypeOK ==
    /\ available \subseteq Ports
    /\ allocated \in [Ports -> AllocIds \cup {None}]
    /\ excluded \subseteq Ports

-----------------------------------------------------------------------------
\* with_range builds a pool without the ports inUse that the host scan found.
PoolInit ==
    \E inUse \in SUBSET Ports :
        /\ available = Ports \ inUse
        /\ allocated = [p \in Ports |-> None]
        /\ excluded = inUse

\* Faulty variant: the range of with_range runs one port too far.
RebuildOffByOne(inUse) ==
    /\ available' = (Start .. End + 1) \ inUse
    /\ allocated' = [p \in Ports |-> None]
    /\ excluded' = inUse

\* The process restarts and with_range builds a new pool.
Rebuild(inUse) ==
    /\ available' = Ports \ inUse
    /\ allocated' = [p \in Ports |-> None]
    /\ excluded' = inUse

\* Port p leaves the free set and belongs to allocation a.
Take(a, p) ==
    /\ available' = available \ {p}
    /\ allocated' = [allocated EXCEPT ![p] = a]
    /\ UNCHANGED excluded

\* allocate(a) returns the lowest free port p.  When the pool is exhausted it
\* returns None and changes nothing: there is no action for that outcome.
Allocate(a, p) ==
    /\ p \in available
    /\ \A q \in available : p <= q
    /\ Take(a, p)

\* allocate_specific(a, p) takes p whether or not p is in `available` (the
\* host scan hides the ports of containers that survived a restart); it
\* answers false and changes nothing when p is out of range or owned.
AllocateSpecific(a, p) ==
    IF p \in Ports \ Owned THEN Take(a, p) ELSE UNCHANGED poolVars

\* Faulty variant: the port is offered again but its owner is not erased.
ReleaseKeepsOwner(p) ==
    /\ available' = IF p \in Owned THEN available \cup {p} ELSE available
    /\ UNCHANGED <<allocated, excluded>>

\* release(p) gives p back if anyone owns it.  It is not told who releases.
Release(p) ==
    IF p \in Owned
    THEN /\ available' = available \cup {p}
         /\ allocated' = [allocated EXCEPT ![p] = None]
         /\ UNCHANGED excluded
    ELSE UNCHANGED poolVars

\* restore(saved), where inUse is what its own host scan finds: every saved
\* port that is not in use is marked as owned, whoever owns it now.  snapshot()
\* returns `allocated` and changes nothing.
Restore(saved, inUse) ==
    LET back == {p \in Ports : saved[p] # None} \ inUse IN
    /\ available' = available \ back
    /\ allocated' = [p \in Ports |-> IF p \in back THEN saved[p] ELSE allocated[p]]
    /\ UNCHANGED excluded

PoolNext ==
    \/ \E a \in AllocIds, p \in Ports : Allocate(a, p) \/ AllocateSpecific(a, p)
    \/ \E p \in Ports : Release(p)
    \/ \E inUse \in SUBSET Ports :
          \/ Rebuild(inUse)
          \/ \E saved \in [Ports -> AllocIds \cup {None}] : Restore(saved, inUse)

PoolSpec == PoolInit /\ [][PoolNext]_poolVars

-----------------------------------------------------------------------------
\* No port is free and owned at once, so allocate never hands out a port that
\* the map says belongs to somebody (ports.rs:50-56 against 60-79 and 87-101).
PoolPartition == available \cap Owned = {}

\* The only ports that are neither free nor owned are those the host scan of
\* with_range hid: no sequence of allocate, release and restore loses a port.
NoPortLost == Ports \subseteq available \cup Owned \cup excluded

\* Free, owned and hidden ports make up the range at every moment, whatever
\* calls of the runner came before (ports.rs:30-110): neither conjunct is
\* inductive without the type of `allocated`.
PoolInv == PoolTypeOK /\ PoolPartition /\ NoPortLost

=============================================================================
