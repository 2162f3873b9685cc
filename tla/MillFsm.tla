------------------------------ MODULE MillFsm ------------------------------
(***************************************************************************)
(* The replicated state machine: crates/raft/src/fsm/{state,command,apply} *)
(* and the status types of crates/config/src/types/runtime.rs.             *)
(*                                                                         *)
(* apply_command is a pure function of a state and a command, so each      *)
(* command is an operator that maps a state s to the next state.  A        *)
(* command that answers Error returns s itself.  A HashMap is a total      *)
(* function that is None where the map has no entry.  Addresses of nodes,  *)
(* resources, key material and timestamps are left out: no command branches*)
(* on them.                                                                *)
(***************************************************************************)
EXTENDS MillTypes

CONSTANTS
    RaftIds,        \* numeric ids of Raft members, the keys of `nodes`
    NodeIds,        \* generated node names (mill_id)
    Names,          \* service and task names
    Addresses,      \* socket addresses an allocation can be reached at
    Configs,        \* cluster configurations
    SecretNames, SecretValues,
    VolumeNames

Node == [mill_id : NodeIds, status : NodeStatuses]
Alloc == [node : NodeIds, name : Names, kind : AllocKinds,
          status : AllocStatuses, address : Addresses \cup {None}]
\* A volume is Ready (node = None) or Attached to a node.
Volume == [node : NodeIds \cup {None}]

ASSUME AbsentAssumption ==
    /\ None \notin Node \cup Alloc \cup Volume
    /\ None \notin NodeIds \cup Addresses \cup Configs \cup SecretValues

FsmState ==
    [config  : Configs \cup {None},
     nodes   : [RaftIds -> Node \cup {None}],
     allocs  : [AllocIds -> Alloc \cup {None}],
     secrets : [SecretNames -> SecretValues \cup {None}],
     volumes : [VolumeNames -> Volume \cup {None}]]

EmptyFsm ==
    [config  |-> None,
     nodes   |-> [i \in RaftIds |-> None],
     allocs  |-> [a \in AllocIds |-> None],
     secrets |-> [k \in SecretNames |-> None],
     volumes |-> [v \in VolumeNames |-> None]]

-----------------------------------------------------------------------------
(* Reading a state. *)

NodesIn(s) == {i \in RaftIds : s.nodes[i] # None}
AllocsIn(s) == {a \in AllocIds : s.allocs[a] # None}
MillIds(s) == {s.nodes[i].mill_id : i \in NodesIn(s)}

NonTerminal(s) == {a \in AllocsIn(s) : s.allocs[a].status \notin Terminal}
ActiveAllocs(s) == {a \in AllocsIn(s) : s.allocs[a].status \in Active}

\* list_service_allocs filters by name only: terminal allocations are listed.
ServiceAllocs(s, name) == {a \in AllocsIn(s) : s.allocs[a].name = name}

AllocsOn(s, m) == {a \in AllocsIn(s) : s.allocs[a].node = m}

\* raft_id_for: the raft ids registered under a node name.
RaftIdsFor(s, m) == {i \in NodesIn(s) : s.nodes[i].mill_id = m}

-----------------------------------------------------------------------------
(* The commands. *)

Deploy(s, c) == [s EXCEPT !.config = c]

NodeRegister(s, i, m) ==
    [s EXCEPT !.nodes[i] = [mill_id |-> m, status |-> "Ready"]]

\* A heartbeat of node i that reports st[a] for each a in DOMAIN st: it brings
\* a Down node back, and never takes Healthy back to Running.
NodeHeartbeat(s, i, st) ==
    LET Heard(a) ==
          /\ a \in DOMAIN st
          /\ s.allocs[a] # None
          /\ ~(s.allocs[a].status = "Healthy" /\ st[a] = "Running")
    IN  IF s.nodes[i] = None THEN s ELSE
        [s EXCEPT
           !.nodes[i].status = IF @ = "Down" THEN "Ready" ELSE @,
           !.allocs = [a \in AllocIds |->
                         IF Heard(a) THEN [@[a] EXCEPT !.status = st[a]] ELSE @[a]]]

SetNodeStatus(s, i, st) ==
    IF s.nodes[i] = None THEN s ELSE [s EXCEPT !.nodes[i].status = st]

NodeDown(s, i) == SetNodeStatus(s, i, "Down")

NodeDrain(s, i) == SetNodeStatus(s, i, "Draining")

\* An existing allocation with the same id is replaced, whatever its status.
AllocScheduled(s, a, i, name, kind) ==
    IF s.nodes[i] = None THEN s ELSE
    [s EXCEPT !.allocs[a] = [node |-> s.nodes[i].mill_id, name |-> name, kind |-> kind,
                             status |-> "Pulling", address |-> None]]

\* AllocStatus: no transition is refused.
SetAllocStatus(s, a, st) ==
    IF s.allocs[a] = None THEN s ELSE [s EXCEPT !.allocs[a].status = st]

AllocRunning(s, a, addr) ==
    IF s.allocs[a] # None /\ s.allocs[a].status \in {"Pulling", "Starting"}
    THEN [s EXCEPT !.allocs[a] = [@ EXCEPT !.status = "Running", !.address = addr]]
    ELSE s

SecretSet(s, k, v) == [s EXCEPT !.secrets[k] = v]

SecretDelete(s, k) == [s EXCEPT !.secrets[k] = None]

VolumeCreated(s, v) == [s EXCEPT !.volumes[v] = [node |-> None]]

VolumeAttached(s, v, i) ==
    IF s.nodes[i] = None \/ s.volumes[v] = None THEN s
    ELSE [s EXCEPT !.volumes[v].node = s.nodes[i].mill_id]

VolumeDetached(s, v) ==
    IF s.volumes[v] = None THEN s ELSE [s EXCEPT !.volumes[v].node = None]

VolumeDestroyed(s, v) == [s EXCEPT !.volumes[v] = None]

\* NodeRemove is refused while the node has an allocation that is not
\* terminal; otherwise the node goes together with its terminal allocations.
NodeRemoveRefused(s, i) ==
    \/ s.nodes[i] = None
    \/ AllocsOn(s, s.nodes[i].mill_id) \cap NonTerminal(s) # {}

\* Faulty variant: the check for running allocations is missing.
NodeRemoveUnguarded(s, i) ==
    IF s.nodes[i] = None THEN s ELSE
    LET gone == AllocsOn(s, s.nodes[i].mill_id) IN
    [s EXCEPT !.allocs = [a \in AllocIds |-> IF a \in gone THEN None ELSE @[a]],
              !.nodes[i] = None]

\* Faulty variant: the node goes, its terminal allocations stay.
NodeRemoveKeepsAllocs(s, i) ==
    IF NodeRemoveRefused(s, i) THEN s ELSE [s EXCEPT !.nodes[i] = None]

NodeRemove(s, i) ==
    IF NodeRemoveRefused(s, i) THEN s ELSE
    LET gone == AllocsOn(s, s.nodes[i].mill_id) IN
    [s EXCEPT !.allocs = [a \in AllocIds |-> IF a \in gone THEN None ELSE @[a]],
              !.nodes[i] = None]

=============================================================================
