----------------------------- MODULE FsmMachine -----------------------------
(***************************************************************************)
(* The FSM under every command its proposers can send, in every order: the *)
(* committed log is one sequence of commands, and apply (fsm/mod.rs)       *)
(* executes it entry by entry under the write lock.                        *)
(*                                                                         *)
(* `displaced` is a history variable: the node names whose entry a later   *)
(* NodeRegister replaced under the same raft id.  GET /v1/join-info hands  *)
(* out max(id)+1 without reserving it, so two joins that overlap register  *)
(* under one id.                                                           *)
(***************************************************************************)
EXTENDS MillFsm

VARIABLES fsm, displaced

fsmVars == <<fsm, displaced>>

FsmTypeOK ==
    /\ fsm \in FsmState
    /\ displaced \subseteq NodeIds

FsmInit == fsm = EmptyFsm /\ displaced = {}

\* apply: one committed command other than NodeRegister.
Apply(next) == fsm' = next /\ UNCHANGED displaced

\* A node that initialises the cluster or joins it registers.
Register(i, m) ==
    /\ fsm' = NodeRegister(fsm, i, m)
    /\ displaced' = IF fsm.nodes[i] = None THEN displaced
                    ELSE displaced \cup {fsm.nodes[i].mill_id}

NodeCommand(i) ==
    \/ \E m \in NodeIds : Register(i, m)
    \/ \E st \in UNION {[A -> AllocStatuses] : A \in SUBSET AllocIds} :
          Apply(NodeHeartbeat(fsm, i, st))
    \/ Apply(NodeDown(fsm, i))
    \/ Apply(NodeDrain(fsm, i))
    \/ Apply(NodeRemove(fsm, i))

AllocCommand(a) ==
    \/ \E i \in RaftIds, n \in Names, k \in AllocKinds :
          Apply(AllocScheduled(fsm, a, i, n, k))
    \/ \E st \in AllocStatuses : Apply(SetAllocStatus(fsm, a, st))
    \/ \E addr \in Addresses \cup {None} : Apply(AllocRunning(fsm, a, addr))

VolumeCommand(v) ==
    \/ Apply(VolumeCreated(fsm, v))
    \/ \E i \in RaftIds : Apply(VolumeAttached(fsm, v, i))
    \/ Apply(VolumeDetached(fsm, v))
    \/ Apply(VolumeDestroyed(fsm, v))

SecretCommand(k) ==
    \/ \E x \in SecretValues : Apply(SecretSet(fsm, k, x))
    \/ Apply(SecretDelete(fsm, k))

FsmNext ==
    \/ \E c \in Configs : Apply(Deploy(fsm, c))
    \/ \E i \in RaftIds : NodeCommand(i)
    \/ \E a \in AllocIds : AllocCommand(a)
    \/ \E v \in VolumeNames : VolumeCommand(v)
    \/ \E k \in SecretNames : SecretCommand(k)

FsmSpec == FsmInit /\ [][FsmNext]_fsmVars

-----------------------------------------------------------------------------
\* Every allocation sits on a registered node, or on one whose registration a
\* second join under the same raft id replaced: NodeRemove leaves no orphan
\* behind (apply.rs:84-99 and 179-200; the scheduler, drain and the watchdog
\* all look allocations up by node name).
AllocsOnKnownNodes ==
    \A a \in AllocsIn(fsm) : fsm.allocs[a].node \in MillIds(fsm) \cup displaced

\* An allocation that may still be running never vanishes from the FSM: only
\* terminal ones are dropped, by NodeRemove (apply.rs:180-195).
LiveAllocStays ==
    [][\A a \in AllocIds : a \in NonTerminal(fsm) => a \in AllocsIn(fsm)']_fsmVars

\* The invariant a command relies on: the state is well formed and no command
\* leaves an orphan, also when the two are proposed by concurrent handlers
\* (apply.rs:8-205).
PlacementInv == FsmTypeOK /\ AllocsOnKnownNodes

=============================================================================
