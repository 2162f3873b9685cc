------------------------------ MODULE Watchdog ------------------------------
(***************************************************************************)
(* The primary's watchdog (primary/watchdog.rs) for one deployed service:  *)
(* nodes that miss heartbeats are marked Down and their allocations Failed,*)
(* WireGuard peers are removed and added again, and missing replicas are   *)
(* dispatched with backoff.                                                *)
(*                                                                         *)
(* The watchdog is one task; each await on a proposal is a step boundary,  *)
(* and heartbeats are processed in between.  A dispatched replica is a     *)
(* start_alloc task, here in three steps (AllocLifecycle has the details). *)
(* Time is two flags: a node's heartbeat timeout has passed (late), the    *)
(* service's backoff delay has passed (due).                               *)
(***************************************************************************)
EXTENDS MillFsm, Integers, FiniteSets

CONSTANTS
    Service, Replicas, Config,  \* the deployed service
    NameOf,         \* the node name each raft id registers with
    Scenarios       \* bound: nodes, what may go wrong (kinds below), how often

\* A node dies; a live node's heartbeat is delayed past the timeout; a start
\* fails on a live node; a container exits by itself; an operator sets a node
\* to Draining.
EventKinds == {"death", "late", "fail", "exit", "drain"}

ASSUME WatchdogAssumption ==
    /\ Service \in Names /\ Config \in Configs
    /\ Replicas \in Nat \ {0}
    /\ NameOf \in [RaftIds -> NodeIds]
    /\ \A i, j \in RaftIds : NameOf[i] = NameOf[j] => i = j
    /\ Scenarios \subseteq [nodes : SUBSET RaftIds, events : SUBSET EventKinds, left : Nat]

VARIABLES
    fsm,
    alive,          \* nodes whose daemon runs
    hosted,         \* containers running on each node
    inflight,       \* a heartbeat on its way: the containers it lists, or None
    late,           \* nodes not heard of for heartbeat_timeout
    task,           \* start_alloc tasks: "none", "schedule", "run", "probe"
    wd,             \* the watchdog: [pc, todo, node, marks]
    backoff,        \* RestartState of the service: None or [attempts, due]
    prev,           \* prev_statuses
    peers,          \* WireGuard peers
    count,          \* what may still go wrong, and how often
    stale,          \* history: one of the three stale writes named below happened
    missed          \* history: nodes back from Down unseen by AddPeers

envVars == <<alive, hosted, inflight, late>>
tickVars == <<wd, backoff, prev, peers>>
historyVars == <<stale, missed>>
watchdogVars == <<fsm, envVars, task, tickVars, count, historyVars>>

Tasks == {"none", "schedule", "run", "probe"}
Asleep == [pc |-> "idle", todo |-> {}, node |-> None, marks |-> {}]

WatchdogTypeOK ==
    /\ fsm \in FsmState
    /\ alive \subseteq RaftIds /\ late \subseteq RaftIds /\ peers \subseteq RaftIds
    /\ hosted \in [RaftIds -> SUBSET AllocIds]
    /\ inflight \in [RaftIds -> SUBSET AllocIds \cup {None}]
    /\ task \in [AllocIds -> Tasks]
    /\ wd \in [pc : {"idle", "nodes", "mark", "marking", "snapshot", "service"},
               todo : SUBSET RaftIds, node : RaftIds \cup {None}, marks : SUBSET AllocIds]
    /\ backoff \in [attempts : 0 .. 3, due : BOOLEAN] \cup {None}
    /\ prev \in [RaftIds -> NodeStatuses \cup {None}]
    /\ stale \in BOOLEAN /\ missed \subseteq RaftIds
    /\ count \in [events : SUBSET EventKinds, left : Nat]

\* All nodes are members and connected, the service is configured and nothing
\* of it runs yet.
WatchdogInit == \E sc \in Scenarios :
    /\ fsm = [EmptyFsm EXCEPT
                !.config = Config,
                !.nodes = [i \in RaftIds |-> IF i \in sc.nodes
                             THEN [mill_id |-> NameOf[i], status |-> "Ready"] ELSE None]]
    /\ alive = sc.nodes /\ late = {} /\ peers = sc.nodes
    /\ hosted = [i \in RaftIds |-> {}] /\ inflight = [i \in RaftIds |-> None]
    /\ task = [a \in AllocIds |-> "none"]
    /\ wd = Asleep /\ backoff = None
    /\ prev = [i \in RaftIds |-> None]
    /\ count = [events |-> sc.events, left |-> sc.left]
    /\ stale = FALSE /\ missed = {}

StatusOf(i) == fsm.nodes[i].status
NodeOf(a) == CHOOSE i \in RaftIds : NameOf[i] = fsm.allocs[a].node
Event(e) ==
    /\ e \in count.events /\ count.left > 0
    /\ count' = [count EXCEPT !.left = @ - 1]

-----------------------------------------------------------------------------
(* Phase 1: check_heartbeats and mark_node_allocs_failed. *)

\* A tick reads the clock and the nodes; only Ready ones are considered.
Tick ==
    /\ wd.pc = "idle"
    /\ wd' = [wd EXCEPT !.pc = "nodes",
                        !.todo = {i \in NodesIn(fsm) \cap late : StatusOf(i) = "Ready"}]
    /\ UNCHANGED <<fsm, envVars, task, backoff, prev, peers, count, historyVars>>

\* A heartbeat recorded since the tick began saves the node.
CheckNode(i) ==
    /\ wd.pc = "nodes" /\ i \in wd.todo
    /\ IF i \in late
       THEN /\ fsm' = NodeDown(fsm, i)
            /\ wd' = [wd EXCEPT !.pc = "mark", !.todo = @ \ {i}, !.node = i]
            /\ missed' = missed \ {i}
       ELSE /\ wd' = [wd EXCEPT !.todo = @ \ {i}]
            /\ UNCHANGED <<fsm, missed>>
    /\ UNCHANGED <<envVars, task, backoff, prev, peers, count, stale>>

\* remove_peer, then the allocations of the node are read.
ReadNodeAllocs ==
    /\ wd.pc = "mark"
    /\ peers' = peers \ {wd.node}
    /\ wd' = [wd EXCEPT !.pc = "marking",
                        !.marks = AllocsOn(fsm, NameOf[wd.node]) \cap NonTerminal(fsm)]
    /\ UNCHANGED <<fsm, envVars, task, backoff, prev, count, historyVars>>

\* One proposal per allocation; the backoff of the service is reset.
MarkFailed(a) ==
    /\ wd.pc = "marking" /\ a \in wd.marks
    /\ fsm' = SetAllocStatus(fsm, a, "Failed")
    /\ wd' = [wd EXCEPT !.marks = @ \ {a}]
    /\ backoff' = None
    /\ UNCHANGED <<envVars, task, prev, peers, count, historyVars>>

EndMarking ==
    /\ wd.pc = "marking" /\ wd.marks = {}
    /\ wd' = [wd EXCEPT !.pc = "nodes", !.node = None]
    /\ UNCHANGED <<fsm, envVars, task, backoff, prev, peers, count, historyVars>>

-----------------------------------------------------------------------------
(* Phase 1.5: reconcile_wireguard_peers, then snapshot_statuses. *)

AddPeersThat(status) ==
    /\ wd.pc = "nodes" /\ wd.todo = {}
    /\ peers' = peers \cup {i \in NodesIn(fsm) : prev[i] = status /\ StatusOf(i) = "Ready"}
    /\ wd' = [wd EXCEPT !.pc = "snapshot"]
    /\ UNCHANGED <<fsm, envVars, task, backoff, prev, count, historyVars>>

\* Faulty variant: only a node that was not known is added.
AddNewPeers == AddPeersThat(None)

\* A node is added when it was Down at the last tick and is Ready now.
AddPeers == AddPeersThat("Down")

SnapshotStatuses ==
    /\ wd.pc = "snapshot"
    /\ prev' = [i \in RaftIds |-> IF i \in NodesIn(fsm) THEN StatusOf(i) ELSE None]
    /\ wd' = [wd EXCEPT !.pc = "service"]
    /\ UNCHANGED <<fsm, envVars, task, backoff, peers, count, historyVars>>

-----------------------------------------------------------------------------
(* Phase 2: check_service_restarts. *)

ActiveReplicas == Cardinality(ServiceAllocs(fsm, Service) \cap ActiveAllocs(fsm))
Pipeline == Cardinality(ServiceAllocs(fsm, Service) \cap NonTerminal(fsm))

\* Ids a new replica can get: rand_suffix never repeats one, so an id is taken
\* again only when nothing refers to the allocation any more.
FreeIds ==
    {a \in AllocIds \ NonTerminal(fsm) :
        /\ task[a] = "none" /\ a \notin wd.marks
        /\ \A i \in RaftIds : a \notin hosted[i] /\ (inflight[i] # None => a \notin inflight[i])}

\* A task for each of n replicas; which ids they get makes no difference.
Dispatch(n) ==
    /\ Cardinality(FreeIds) >= n
    /\ LET new == CHOOSE ids \in SUBSET FreeIds : Cardinality(ids) = n
       IN  task' = [a \in AllocIds |-> IF a \in new THEN "schedule" ELSE task[a]]

\* One attempt more, counted up to the last index of the delay table (the code
\* takes attempts.min(len - 1)), and n dispatches.
Redispatch(n) ==
    /\ backoff' = [attempts |-> IF backoff.attempts < 3 THEN backoff.attempts + 1 ELSE 3,
                   due |-> FALSE]
    /\ Dispatch(n)

\* Faulty variant: a replica is dispatched once and never retried.
CheckServiceOnce ==
    /\ wd.pc = "service"
    /\ wd' = Asleep
    /\ \/ ActiveReplicas >= Replicas /\ backoff' = None /\ UNCHANGED task
       \/ /\ ActiveReplicas < Replicas
          /\ Pipeline >= Replicas \/ (backoff # None /\ (~backoff.due \/ backoff.attempts > 0))
          /\ UNCHANGED <<backoff, task>>
       \/ /\ Pipeline < Replicas /\ backoff = None
          /\ backoff' = [attempts |-> 0, due |-> FALSE] /\ UNCHANGED task
       \/ /\ Pipeline < Replicas /\ backoff # None /\ backoff.due /\ backoff.attempts = 0
          /\ Redispatch(Replicas - ActiveReplicas)
    /\ UNCHANGED <<fsm, envVars, prev, peers, count, historyVars>>

\* Enough active replicas reset the backoff; enough replicas in the pipeline,
\* or a delay that has not passed, leave everything as it is.  The first time
\* a service is found short only the time is noted; later one replica is
\* dispatched for each that is not active.
CheckService ==
    /\ wd.pc = "service"
    /\ wd' = Asleep
    /\ \/ ActiveReplicas >= Replicas /\ backoff' = None /\ UNCHANGED task
       \/ /\ ActiveReplicas < Replicas
          /\ Pipeline >= Replicas \/ (backoff # None /\ ~backoff.due)
          /\ UNCHANGED <<backoff, task>>
       \/ /\ Pipeline < Replicas /\ backoff = None
          /\ backoff' = [attempts |-> 0, due |-> FALSE] /\ UNCHANGED task
       \/ /\ Pipeline < Replicas /\ backoff # None /\ backoff.due
          /\ Redispatch(Replicas - ActiveReplicas)
    /\ UNCHANGED <<fsm, envVars, prev, peers, count, historyVars>>

WatchdogStep ==
    \/ Tick \/ ReadNodeAllocs \/ EndMarking \/ AddPeers \/ SnapshotStatuses \/ CheckService
    \/ \E i \in RaftIds : CheckNode(i)
    \/ \E a \in AllocIds : MarkFailed(a)

-----------------------------------------------------------------------------
(* start_alloc tasks. *)

\* Any Ready node may be picked; without one the task ends.
TaskSchedule(a) ==
    /\ task[a] = "schedule"
    /\ LET ready == {i \in NodesIn(fsm) : StatusOf(i) = "Ready"} IN
       \/ /\ ready = {} /\ task' = [task EXCEPT ![a] = "none"] /\ UNCHANGED fsm
       \/ \E i \in ready :
             /\ fsm' = AllocScheduled(fsm, a, i, Service, "Service")
             /\ task' = [task EXCEPT ![a] = "run"]
    /\ UNCHANGED <<envVars, tickVars, count, historyVars>>

\* The node starts the container, and its reports are processed.  The wait for
\* Running ends with an error when the allocation was marked Failed before.
TaskRun(a) ==
    /\ task[a] = "run" /\ NodeOf(a) \in alive
    /\ hosted' = [hosted EXCEPT ![NodeOf(a)] = @ \cup {a}]
    /\ fsm' = AllocRunning(fsm, a, None)
    /\ task' = [task EXCEPT ![a] = IF a \in ActiveAllocs(fsm') THEN "probe" ELSE "none"]
    /\ UNCHANGED <<alive, inflight, late, tickVars, count, historyVars>>

TaskHealthy(a) ==
    /\ task[a] = "probe"
    /\ a \in hosted[NodeOf(a)]
    /\ fsm' = SetAllocStatus(fsm, a, "Healthy")
    /\ task' = [task EXCEPT ![a] = "none"]
    /\ stale' = (stale \/ a \notin ActiveAllocs(fsm))
    /\ UNCHANGED <<missed, envVars, tickVars, count>>

\* A dead node never answers and a container that is gone never gets healthy;
\* otherwise a start fails now and then.
TaskFails(a) ==
    /\ task[a] \in {"run", "probe"}
    /\ IF (task[a] = "run" /\ NodeOf(a) \in alive) \/ a \in hosted[NodeOf(a)]
       THEN Event("fail") ELSE UNCHANGED count
    /\ fsm' = SetAllocStatus(fsm, a, "Failed")
    /\ task' = [task EXCEPT ![a] = "none"]
    /\ UNCHANGED <<envVars, tickVars, historyVars>>

TaskStep(a) == TaskSchedule(a) \/ TaskRun(a) \/ TaskHealthy(a) \/ TaskFails(a)

-----------------------------------------------------------------------------
(* Nodes, heartbeats and time. *)

SendBeat(i) ==
    /\ i \in alive /\ inflight[i] = None
    /\ inflight' = [inflight EXCEPT ![i] = hosted[i]]
    /\ UNCHANGED <<fsm, alive, hosted, late, task, tickVars, count, historyVars>>

\* The report processor records the heartbeat and proposes it.
RecvBeat(i) ==
    /\ inflight[i] # None
    /\ late' = late \ {i}
    /\ fsm' = NodeHeartbeat(fsm, i, [a \in inflight[i] |-> "Running"])
    /\ inflight' = [inflight EXCEPT ![i] = None]
    /\ stale' = (stale \/ ~(inflight[i] \subseteq hosted[i]))
    /\ missed' = IF StatusOf(i) = "Down" /\ (prev[i] # "Down" \/ wd.pc = "snapshot")
                 THEN missed \cup {i} ELSE missed
    /\ UNCHANGED <<alive, hosted, task, tickVars, count>>

\* heartbeat_timeout passes since the last heartbeat of i: always for a dead
\* node, now and then for a live one.
GoLate(i) ==
    /\ i \in NodesIn(fsm) \ late
    /\ IF i \in alive \/ inflight[i] # None THEN Event("late") ELSE UNCHANGED count
    /\ late' = late \cup {i}
    /\ UNCHANGED <<fsm, alive, hosted, inflight, task, tickVars, historyVars>>

BackoffDue ==
    /\ backoff # None /\ ~backoff.due
    /\ backoff' = [backoff EXCEPT !.due = TRUE]
    /\ UNCHANGED <<fsm, envVars, task, wd, prev, peers, count, historyVars>>

\* The cluster keeps a live node that is not draining.
OthersServe(i) == \E j \in alive \ {i} : StatusOf(j) # "Draining"

Die(i) ==
    /\ i \in alive /\ OthersServe(i)
    /\ Event("death")
    /\ alive' = alive \ {i}
    /\ hosted' = [hosted EXCEPT ![i] = {}]
    /\ stale' = (stale \/ StatusOf(i) = "Draining")
    /\ UNCHANGED <<missed, fsm, inflight, late, task, tickVars>>

\* A container ends, and its Stopped report is processed.
ExitContainer(i, a) ==
    /\ a \in hosted[i]
    /\ Event("exit")
    /\ hosted' = [hosted EXCEPT ![i] = @ \ {a}]
    /\ fsm' = SetAllocStatus(fsm, a, "Stopped")
    /\ UNCHANGED <<alive, inflight, late, task, tickVars, historyVars>>

Drain(i) ==
    /\ i \in NodesIn(fsm) /\ StatusOf(i) = "Ready" /\ OthersServe(i)
    /\ Event("drain")
    /\ fsm' = NodeDrain(fsm, i)
    /\ stale' = (stale \/ i \notin alive)
    /\ UNCHANGED <<missed, envVars, task, tickVars>>

Environment ==
    \/ \E i \in RaftIds : SendBeat(i) \/ RecvBeat(i) \/ GoLate(i) \/ Die(i) \/ Drain(i)
    \/ \E i \in RaftIds, a \in AllocIds : ExitContainer(i, a)
    \/ BackoffDue

WatchdogNext == WatchdogStep \/ (\E a \in AllocIds : TaskStep(a)) \/ Environment

\* The interval ticks, tasks are scheduled and their waits end, live nodes
\* send heartbeats, the processor handles them, and time passes.
WatchdogFairness ==
    /\ WF_watchdogVars(WatchdogStep)
    /\ WF_watchdogVars(BackoffDue)
    /\ \A a \in AllocIds : WF_watchdogVars(TaskStep(a))
    /\ \A i \in RaftIds :
          /\ WF_watchdogVars(SendBeat(i))
          /\ WF_watchdogVars(RecvBeat(i))
          /\ WF_watchdogVars(i \notin alive /\ inflight[i] = None /\ GoLate(i))

WatchdogSpec == WatchdogInit /\ [][WatchdogNext]_watchdogVars /\ WatchdogFairness

-----------------------------------------------------------------------------
\* The replicas that really serve.
Serving ==
    {a \in ServiceAllocs(fsm, Service) \cap ActiveAllocs(fsm) : a \in hosted[NodeOf(a)]}

\* After any number of failures within the bounds the service is fully
\* replicated again, on nodes that live (docs/arch.md:184 "Secondary dies |
\* Detected via missed heartbeats (15s). Service allocs rescheduled";
\* docs/arch.md:186 "Container crashes | Services: restart with backoff").
ServiceRecovers == []<>(Cardinality(Serving) >= Replicas)

\* Only three things can keep the service from recovering: a heartbeat that
\* lists a container that has gone since (apply.rs:62-69), Healthy proposed for
\* an allocation that was marked Failed since (deploy/mod.rs:411-429), and a
\* Draining node that dies, which check_heartbeats skips (watchdog.rs:160).
\* Without them it recovers from deaths, false alarms, exits and failed starts.
RecoversUnlessStale == []<>(stale \/ Cardinality(Serving) >= Replicas)

\* A dispatch fills up the pipeline and no more (watchdog.rs:337-338 "don't
\* double-dispatch while a deploy or previous restart is in progress").
NoDoubleDispatch ==
    [][CheckService =>
         Pipeline + Cardinality({a \in AllocIds : task[a] # task'[a]})
           <= IF Pipeline > Replicas THEN Pipeline ELSE Replicas]_watchdogVars

\* A Ready node is a WireGuard peer or will be at the next tick, unless it came
\* back from Down within the tick that found it late, or between the two reads
\* of a tick: both are compared with the wrong status, and the peer is not
\* added again (watchdog.rs:207-259).
ReadyIsPeerUnlessMissed ==
    \A i \in NodesIn(fsm) \ missed : StatusOf(i) = "Ready" => i \in peers \/ prev[i] = "Down"

\* Why it holds.  Between AddPeers and SnapshotStatuses a node that is Ready is a
\* peer; a node about to lose its peer entry is not Ready again, unless the next
\* tick will compare it with Down, or it was missed.
PeerInv ==
    /\ DOMAIN fsm = DOMAIN EmptyFsm /\ fsm.nodes \in [RaftIds -> Node \cup {None}]
    /\ wd = [pc |-> wd.pc, todo |-> wd.todo, node |-> wd.node, marks |-> wd.marks]
    /\ wd.todo \subseteq NodesIn(fsm)
    /\ wd.pc = "mark" =>
          /\ wd.node \in NodesIn(fsm)
          /\ StatusOf(wd.node) = "Ready" => wd.node \in missed \/ prev[wd.node] = "Down"
    /\ wd.pc = "snapshot" =>
          \A i \in NodesIn(fsm) \ missed : StatusOf(i) = "Ready" => i \in peers
    /\ ReadyIsPeerUnlessMissed

\* A live node that stays Ready is a WireGuard peer in the end
\* (docs/workflows/05-node-failure.md:77-78 "A resumed heartbeat flips the node
\* back to `Ready` and re-adds its WireGuard peer").
MeshHeals == \A i \in RaftIds : <>[](StatusOf(i) = "Ready") => []<>(i \in peers)

=============================================================================
