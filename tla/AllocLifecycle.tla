--------------------------- MODULE AllocLifecycle ---------------------------
(***************************************************************************)
(* The life of allocations between the primary and one node: start_alloc   *)
(* and run_scheduled_alloc (primary/deploy/mod.rs) for services, spawn_task*)
(* and kill_task (primary/tasks.rs) for tasks, the report processor        *)
(* (primary/report.rs), the replicated state, and the node's secondary     *)
(* (NodeAgent).                                                            *)
(*                                                                         *)
(* Each dispatch runs in a task of its own: what it read from the state    *)
(* machine may be stale when it proposes.  The report channel stands for   *)
(* the whole path from the secondary to the processor: it keeps order.     *)
(* An allocation with a port is a service, one without is a task.  A mesh  *)
(* address of this node is its port.                                       *)
(***************************************************************************)
EXTENDS NodeAgent, MillFsm, FiniteSets

CONSTANTS
    RaftId,         \* the node's raft id
    NodeId,         \* and its name
    Service,        \* the name all allocations here have
    SendFaults,     \* TRUE: resolve_env or router.send may fail
    MaxStops,       \* bound: Stop commands sent by operators
    Scenarios       \* bound: allocations dispatched; beats, restarts and stops to leave out

ASSUME LifecycleAssumption ==
    /\ RaftId \in RaftIds /\ NodeId \in NodeIds /\ Service \in Names
    /\ Ports \subseteq Addresses
    /\ SendFaults \in BOOLEAN
    /\ MaxStops \in Nat
    /\ 2 * Cardinality(AllocIds) + MaxStops <= MaxCmds
    /\ Scenarios \subseteq [allocs : SUBSET AllocIds, beats : 0 .. MaxBeats,
                             restarts : 0 .. MaxRestarts, stops : 0 .. MaxStops]

VARIABLES
    fsm,            \* the replicated state, as the leader has applied it
    job,            \* where the dispatch of each allocation is
    stops           \* how many Stop commands operators have sent

lifecycleVars == <<agentVars, fsm, job, stops>>

JobPCs == {"new", "scheduled", "waiting", "address", "probe", "ready", "failing", "armed", "done"}

LifecycleTypeOK ==
    /\ AgentTypeOK
    /\ fsm \in FsmState
    /\ job \in [AllocIds -> JobPCs]
    /\ stops \in 0 .. MaxStops

\* The node has registered; nothing has been dispatched.
LifecycleInit == \E sc \in Scenarios :
    /\ AgentStarts(sc.beats, sc.restarts)
    /\ fsm = NodeRegister(EmptyFsm, RaftId, NodeId)
    /\ job = [a \in AllocIds |-> IF a \in sc.allocs THEN "new" ELSE "done"]
    /\ stops = sc.stops

StatusOf(a) == fsm.allocs[a].status

JobGoto(a, from, to) ==
    job[a] = from /\ job' = [job EXCEPT ![a] = to] /\ UNCHANGED stops

-----------------------------------------------------------------------------
(* Dispatch. *)

\* start_alloc and spawn_task up to the AllocScheduled proposal.
Schedule(a) ==
    /\ JobGoto(a, "new", "scheduled")
    /\ fsm.nodes[RaftId].status = "Ready"
    /\ fsm' = AllocScheduled(fsm, a, RaftId, Service, IF a \in Ported THEN "Service" ELSE "Task")
    /\ UNCHANGED agentVars

SendRun(a) ==
    /\ JobGoto(a, "scheduled", "waiting")
    /\ SendCommand([op |-> "Run", alloc |-> a])
    /\ UNCHANGED fsm

\* Faulty variant: an error after AllocScheduled is only returned.
OnErrorIgnored(a) == "done"

\* What an error after AllocScheduled leads to: a service is marked Failed, a
\* task keeps the status it has.
OnError(a) == IF a \in Ported THEN "failing" ELSE "done"

\* resolve_env or router.send fails.
SendRunFails(a) ==
    /\ SendFaults
    /\ JobGoto(a, "scheduled", OnError(a))
    /\ UNCHANGED <<agentVars, fsm>>

Arrived(a) == fsm.allocs[a] # None /\ StatusOf(a) \in Active \cup {"Stopped"}

\* wait_for_status returns for an active and for a Stopped allocation.  After
\* it a service needs an address; a task arms its kill timer or is done.
WaitForStatus(a) ==
    /\ Arrived(a)
    /\ \/ a \in Ported /\ JobGoto(a, "waiting", "address")
       \/ a \notin Ported /\ JobGoto(a, "waiting", "armed")
       \/ a \notin Ported /\ JobGoto(a, "waiting", "done")
    /\ UNCHANGED <<agentVars, fsm>>

\* The allocation has Failed, or deploy_timeout has passed.
WaitFails(a) ==
    /\ ~Arrived(a)
    /\ JobGoto(a, "waiting", OnError(a))
    /\ UNCHANGED <<agentVars, fsm>>

\* Faulty variant: an allocation without address needs no probe.
PollForAddressSkips(a) ==
    /\ fsm.allocs[a] # None
    /\ \/ fsm.allocs[a].address # None /\ JobGoto(a, "address", "probe")
       \/ fsm.allocs[a].address = None /\ JobGoto(a, "address", "ready")
    /\ UNCHANGED <<agentVars, fsm>>

PollForAddress(a) ==
    /\ fsm.allocs[a] # None
    /\ \/ fsm.allocs[a].address # None /\ JobGoto(a, "address", "probe")
       \/ fsm.allocs[a].address = None /\ JobGoto(a, "address", "failing")
    /\ UNCHANGED <<agentVars, fsm>>

Listening(p) == \E b \in Listed : containers[b].state = "running" /\ containers[b].port = p

\* The probe can succeed while something listens on the address, and may fail
\* at any time.
Probe(a) ==
    /\ \/ JobGoto(a, "probe", "ready") /\ Listening(fsm.allocs[a].address)
       \/ JobGoto(a, "probe", "failing")
    /\ UNCHANGED <<agentVars, fsm>>

\* The probe succeeded some time ago.
ProposeHealthy(a) ==
    /\ JobGoto(a, "ready", "done")
    /\ fsm' = SetAllocStatus(fsm, a, "Healthy")
    /\ UNCHANGED agentVars

ProposeFailed(a) ==
    /\ JobGoto(a, "failing", "done")
    /\ fsm' = SetAllocStatus(fsm, a, "Failed")
    /\ UNCHANGED agentVars


\* The timer of a task fires: kill_task sends Stop, whatever the status.
KillTask(a) ==
    /\ JobGoto(a, "armed", "done")
    /\ fsm.allocs[a] # None
    /\ SendCommand([op |-> "Stop", alloc |-> a])
    /\ UNCHANGED fsm

\* A deploy, a drain or an operator stops an allocation of the state machine.
RequestStop(a) ==
    /\ a \in AllocsIn(fsm)
    /\ stops < MaxStops /\ stops' = stops + 1
    /\ SendCommand([op |-> "Stop", alloc |-> a])
    /\ UNCHANGED <<fsm, job>>

Dispatch(a) ==
    \/ SendRun(a) \/ SendRunFails(a)
    \/ WaitForStatus(a) \/ WaitFails(a) \/ PollForAddress(a) \/ Probe(a)
    \/ ProposeHealthy(a) \/ ProposeFailed(a) \/ KillTask(a)

-----------------------------------------------------------------------------
(* The report processor. *)

Applied(s, r) ==
    CASE r.type = "RunStarted" -> AllocRunning(s, r.alloc, r.port)
      [] r.type = "RunFailed" -> SetAllocStatus(s, r.alloc, "Failed")
      [] r.type = "Stopped" -> SetAllocStatus(s, r.alloc, "Stopped")
      [] r.type = "StatusUpdate" -> SetAllocStatus(s, r.alloc, r.status)
      [] r.type = "Heartbeat" -> NodeHeartbeat(s, RaftId, r.statuses)

\* Reports are proposed one at a time, in the order they arrive.
ProcessReport ==
    /\ TakeReport
    /\ fsm' = Applied(fsm, Head(reports))
    /\ UNCHANGED <<job, stops>>

-----------------------------------------------------------------------------
\* start_from_existing: the restarted node expects what the state machine has
\* on it and not terminal.
ExpectedAllocs == AllocsOn(fsm, NodeId) \cap NonTerminal(fsm)

NodeStep ==
    /\ \/ AgentStep
       \/ \E a \in AllocIds : Exit(a)
       \/ \E inUse \in SUBSET Ports : Restart(ExpectedAllocs, inUse)
    /\ UNCHANGED <<fsm, job, stops>>

LifecycleNext ==
    \/ \E a \in AllocIds : Schedule(a) \/ Dispatch(a) \/ RequestStop(a)
    \/ ProcessReport
    \/ NodeStep

\* Waits end by their timeouts; the other tasks are scheduled and the calls
\* they await return.
LifecycleFairness ==
    /\ WF_lifecycleVars(CommandLoop /\ UNCHANGED <<fsm, job, stops>>)
    /\ WF_lifecycleVars(SendHeartbeat /\ UNCHANGED <<fsm, job, stops>>)
    /\ WF_lifecycleVars(ProcessReport)
    /\ \A a \in AllocIds :
          /\ WF_lifecycleVars(Dispatch(a))
          /\ WF_lifecycleVars(/\ \E w \in waiters : w.alloc = a /\ WaiterStep(w)
                              /\ UNCHANGED <<fsm, job, stops>>)

LifecycleSpec == LifecycleInit /\ [][LifecycleNext]_lifecycleVars /\ LifecycleFairness

-----------------------------------------------------------------------------
\* An allocation the state machine calls Healthy can be routed to: it has an
\* address.  Healthy is proposed by a dispatch that polled for the address
\* some time before (deploy/mod.rs:411-429).
HealthyHasAddress ==
    \A a \in AllocsIn(fsm) : StatusOf(a) = "Healthy" => fsm.allocs[a].address # None

\* A service allocation does not stay in Pulling or Starting for good
\* (deploy/mod.rs:343-344: "any failure must mark the alloc as Failed so the
\* watchdog doesn't count it as non-terminal and block replacement allocs").
Settles ==
    \A a \in Ported :
        <>[](fsm.allocs[a] # None => StatusOf(a) \notin {"Pulling", "Starting"})

\* The pool is not exhausted when run_container asks it for a port.
PortsSuffice == loop.pc = "allocate" => available # {}

\* As long as the port pool is not exhausted, a service allocation settles:
\* every failure of a step of its dispatch, on the primary or on the node, and
\* every report lost in a restart is made up for by a timeout, a later report
\* or reconcile (deploy/mod.rs:343-355, runner.rs:43-95, reconcile.rs:47-60).
SettlesWithPorts == []PortsSuffice => Settles


\* A terminal allocation stays terminal (config/src/types/runtime.rs:89
\* "Stopped or Failed -- will not run again").
TerminalIsFinal ==
    [][\A a \in AllocsIn(fsm) :
         StatusOf(a) \in Terminal => fsm'.allocs[a].status \in Terminal]_lifecycleVars

\* The first RunStarted report of a service that is still wanted sets its
\* address (deploy/mod.rs:337 "Will be set by RunStarted report").
AddressSet ==
    [][\A a \in Ported :
         (/\ ProcessReport /\ Head(reports).type = "RunStarted" /\ Head(reports).alloc = a
          /\ StatusOf(a) \notin Terminal)
         => fsm'.allocs[a].address # None]_lifecycleVars

\* What the router believes of a Healthy allocation stays true until it ends:
\* it has an address, and no late status report, no duplicate RunStarted after a
\* restart and no heartbeat takes it back to Pulling, Starting or Running
\* (apply.rs:55-69, 112-118; deploy/mod.rs:411-429).
HealthyStands ==
    [][/\ HealthyHasAddress'
       /\ \A a \in AllocsIn(fsm) :
            StatusOf(a) = "Healthy" => fsm'.allocs[a].status \in Terminal \cup {"Healthy"}]_lifecycleVars

\* Commands and reports both get through, although the loop and the exit
\* waiters share one bounded report channel (secondary/mod.rs, runner.rs:188-205).
ReportsFlow == LoopDrains /\ ExitReported

=============================================================================
