---------------------------- MODULE RollingDeploy ----------------------------
(***************************************************************************)
(* The operations of an operator that replace running containers: deploy   *)
(* and restart (primary/deploy/mod.rs) and drain (primary/nodes.rs), and   *)
(* the volumes they move or delete (primary/api/handlers.rs).              *)
(*                                                                         *)
(* Each operation is a spawned task of its own, and nothing keeps two of   *)
(* them apart: every await is a step boundary.  Commands of one node are   *)
(* executed one at a time in the order they were sent.  Tasks and progress *)
(* events are left out; start_alloc is reduced to schedule, send, probe    *)
(* and propose (AllocLifecycle has the details).  A service has at most    *)
(* one persistent volume, and there is a volume driver: without one no     *)
(* volume is ever created.                                                 *)
(***************************************************************************)
EXTENDS MillFsm, Integers, Sequences, FiniteSets, Functions

CONSTANTS
    Ops,            \* operations an operator starts
    Kinds,          \* what they may be: a subset of {"deploy", "restart", "drain", "delete"}
    Versions,       \* definitions of a service
    DefOf,          \* DefOf[c][s]: the definition of service s in config c, or None
    Replicas,       \* Replicas[d]: the replicas definition d asks for
    FixedId,        \* FixedId[s]: the ids deploy_service gives the replicas of s
    First,          \* the config that is deployed at the start
    NameOf,         \* the node name each raft id registers with
    Address,        \* the address of a started container
    VolumeOf,       \* VolumeOf[s]: the persistent volume of service s, or None
    Instances,      \* the nodes that registered with an instance_id
    MaxFails,       \* bound: starts that fail
    MaxDrops,       \* bound: Stop commands the router cannot send
    Scenarios       \* bound: configs to deploy, failing sends, operations apart or not

ASSUME DeployAssumption ==
    /\ Kinds \subseteq {"deploy", "restart", "drain", "delete"}
    /\ None \notin {"deploy", "restart", "drain", "delete"}
    /\ Replicas \in [Versions -> Nat \ {0}] /\ MaxFails \in Nat /\ MaxDrops \in Nat
    /\ None \notin Versions /\ Address \in Addresses /\ First \in Configs
    /\ DefOf \in [Configs -> [Names -> Versions \cup {None}]]
    /\ FixedId \in [Names -> Seq(AllocIds)]
    /\ \A s \in Names, d \in Versions : Replicas[d] <= Len(FixedId[s])
    /\ \A s, t \in Names : Range(FixedId[s]) \cap Range(FixedId[t]) # {} => s = t
    /\ Scenarios \subseteq [configs : SUBSET Configs, drops : 0 .. MaxDrops, apart : BOOLEAN]
    /\ NameOf \in [RaftIds -> NodeIds] /\ RaftIds # {}
    /\ \A i, j \in RaftIds : NameOf[i] = NameOf[j] => i = j
    /\ VolumeOf \in [Names -> VolumeNames \cup {None}] /\ Instances \subseteq RaftIds
    /\ \A s, t \in Names : VolumeOf[s] = VolumeOf[t] /\ VolumeOf[s] # None => s = t

VARIABLES
    fsm,
    running,        \* the definition each running container was started with, or None
    queue,          \* commands sent to each node
    cloud,          \* what the cloud provider has: the volumes, and where they are
    op,             \* the operations
    fails, drops,   \* how often a start failed, how often a send failed
    overlap,        \* history: an operation was started before all was Quiet
    scenario        \* the scenario that is played

deployVars == <<fsm, running, queue, cloud, op, fails, drops, overlap, scenario>>

Started(s) == Range(FixedId[s])
FirstReplicas(s) == {FixedId[s][r] : r \in 1 .. Replicas[DefOf[First][s]]}
ServicesIn(c) == IF c = None THEN {} ELSE {s \in Names : DefOf[c][s] # None}

\* new, old: configs; removed, added, changed: services still to do; svc: the
\* one at hand; cur: the allocation being started; prior, news: replicas there
\* were and replicas that are up; stops: those to send Stop to; vol, target: the
\* volume at hand and the node it is for; node, vols, moves: of a drain, the
\* node, what has still to be detached and to migrate; failed: has_failures.
NewOp == [kind |-> None, pc |-> "idle", new |-> None, old |-> None,
          removed |-> {}, added |-> {}, changed |-> {}, svc |-> None, cur |-> None,
          prior |-> {}, news |-> {}, stops |-> {}, vol |-> None, target |-> None,
          node |-> None, vols |-> {}, moves |-> {}, failed |-> FALSE]

Phases == {"idle", "propose", "service", "schedule", "run", "wait", "ready", "stop",
           "rollback", "remove", "collect", "migrate", "create", "created", "detach",
           "detached", "attach", "attached", "provided", "unmount", "unmounted",
           "destroy", "destroyed", "done"}
Placement == AllocIds \X NodeIds
Op == [kind : Kinds \cup {None}, pc : Phases, new : Configs \cup {None}, old : Configs \cup {None},
       removed : SUBSET Names, added : SUBSET Names, changed : SUBSET Names,
       svc : Names \cup {None}, cur : Placement \cup {None},
       prior : SUBSET Placement, news : SUBSET Placement, stops : SUBSET Placement,
       vol : VolumeNames \cup {None}, target : RaftIds \cup {None},
       node : NodeIds \cup {None}, vols : SUBSET VolumeNames, moves : SUBSET AllocIds,
       failed : BOOLEAN]

Command == [op : {"Run"}, alloc : AllocIds, def : Versions] \cup [op : {"Stop"}, alloc : AllocIds]

DeployTypeOK ==
    /\ fsm \in FsmState
    /\ running \in [AllocIds -> Versions \cup {None}]
    /\ queue \in [RaftIds -> Seq(Command)]
    /\ cloud \in [VolumeNames -> Volume \cup {None}]
    /\ op \in [Ops -> Op]
    /\ fails \in 0 .. MaxFails /\ drops \in 0 .. MaxDrops /\ overlap \in BOOLEAN
    /\ scenario \in Scenarios

\* The service the first config has runs as deploy_service left it.
DeployInit ==
    /\ fsm = [EmptyFsm EXCEPT
                !.config = First,
                !.nodes = [i \in RaftIds |-> [mill_id |-> NameOf[i], status |-> "Ready"]],
                !.allocs = [a \in AllocIds |->
                   IF \E s \in ServicesIn(First) : a \in FirstReplicas(s)
                   THEN [node |-> NameOf[CHOOSE i \in RaftIds : TRUE],
                         name |-> CHOOSE s \in ServicesIn(First) : a \in FirstReplicas(s),
                         kind |-> "Service", status |-> "Healthy", address |-> Address]
                   ELSE None],
                !.volumes = [v \in VolumeNames |->
                   IF \E s \in ServicesIn(First) : VolumeOf[s] = v
                   THEN [node |-> NameOf[CHOOSE i \in RaftIds : TRUE]] ELSE None]]
    /\ cloud = fsm.volumes
    /\ running = [a \in AllocIds |->
                    IF fsm.allocs[a] = None THEN None ELSE DefOf[First][fsm.allocs[a].name]]
    /\ queue = [i \in RaftIds |-> <<>>]
    /\ op = [o \in Ops |-> NewOp]
    /\ fails = 0 /\ drops = 0 /\ overlap = FALSE /\ scenario \in Scenarios

-----------------------------------------------------------------------------
Under(o) == op[o].pc \notin {"idle", "done"}

\* Every operation has been carried out, with the commands it has sent.
Quiet == /\ \A o \in Ops : ~Under(o)
         /\ \A i \in RaftIds : queue[i] = <<>>

ReadyNodes == {i \in NodesIn(fsm) : fsm.nodes[i].status = "Ready"}
Placed(as) == {<<a, fsm.allocs[a].node>> : a \in as}

\* scheduler::schedule: the node the volume is attached to, if it is Ready, and
\* nothing else; otherwise a Ready node.  Resources are not modelled: spreading
\* and packing may choose any of them.
Candidates(s) ==
    LET v == VolumeOf[s] IN
    IF v # None /\ fsm.volumes[v] # None /\ fsm.volumes[v].node # None
    THEN {i \in ReadyNodes : NameOf[i] = fsm.volumes[v].node}
    ELSE ReadyNodes

\* router.send: the node's queue gets the command.
Send(m, cmd) == queue' = [i \in RaftIds |-> IF NameOf[i] = m THEN Append(queue[i], cmd) ELSE queue[i]]

\* rand_suffix gives an id that was never used: which one makes no difference.
Unused == {a \in AllocIds : fsm.allocs[a] = None /\ \A s \in Names : a \notin Started(s)}
FreshIds == {a \in Unused : a = CHOOSE b \in Unused : TRUE}

-----------------------------------------------------------------------------
(* Starting an operation. *)

\* Idle operations are alike: the next one is taken.
Begin(o, kind, r) ==
    /\ kind \in Kinds /\ op[o].pc = "idle"
    /\ o = CHOOSE p \in Ops : op[p].pc = "idle"
    /\ scenario.apart => Quiet
    /\ op' = [op EXCEPT ![o] = r]
    /\ overlap' = (overlap \/ ~Quiet)
    /\ UNCHANGED <<running, queue, cloud, fails, drops, scenario>>

\* Faulty variant: a service both configs have counts as unchanged.
StartDeployByName(o, c) ==
    /\ Begin(o, "deploy",
             [NewOp EXCEPT !.kind = "deploy", !.pc = "propose", !.new = c, !.old = fsm.config,
                !.removed = ServicesIn(fsm.config) \ ServicesIn(c),
                !.added = ServicesIn(c) \ ServicesIn(fsm.config)])
    /\ UNCHANGED fsm

\* run_deploy reads the config and compares it with the new one.
StartDeploy(o, c) ==
    /\ Begin(o, "deploy",
             [NewOp EXCEPT !.kind = "deploy", !.pc = "propose", !.new = c, !.old = fsm.config,
                !.removed = ServicesIn(fsm.config) \ ServicesIn(c),
                !.added = ServicesIn(c) \ ServicesIn(fsm.config),
                !.changed = {s \in ServicesIn(c) \cap ServicesIn(fsm.config) :
                                DefOf[c][s] # DefOf[fsm.config][s]}])
    /\ UNCHANGED fsm

\* run_restart updates one service to the definition it has.
StartRestart(o, s) ==
    /\ s \in ServicesIn(fsm.config)
    /\ Begin(o, "restart",
             [NewOp EXCEPT !.kind = "restart", !.pc = "service", !.new = fsm.config,
                !.changed = {s}])
    /\ UNCHANGED fsm

StartDrain(o, i) ==
    /\ i \in NodesIn(fsm)
    /\ Begin(o, "drain",
             [NewOp EXCEPT !.kind = "drain", !.pc = "collect", !.node = NameOf[i]])
    /\ fsm' = NodeDrain(fsm, i)

\* delete_volume looks for the volume and refuses one that is attached.
StartDelete(o, v) ==
    /\ fsm.volumes[v] = [node |-> None]
    /\ Begin(o, "delete", [NewOp EXCEPT !.kind = "delete", !.pc = "destroy", !.vol = v])
    /\ UNCHANGED fsm

-----------------------------------------------------------------------------
(* run_deploy: removed services, then added ones, then changed ones. *)

\* Operation o goes from one of pcs to the record r.
Goto(o, pcs, r) == /\ op[o].pc \in pcs /\ op' = [op EXCEPT ![o] = r]
                   /\ UNCHANGED <<overlap, scenario>>

\* validate_secret_refs or validate_resource_capacity refuses the config.
Reject(o) ==
    /\ Goto(o, {"propose"}, [op[o] EXCEPT !.pc = "done"])
    /\ UNCHANGED <<fsm, running, queue, cloud, fails, drops>>

ProposeDeploy(o) ==
    /\ Goto(o, {"propose"}, [op[o] EXCEPT !.pc = "service"])
    /\ fsm' = Deploy(fsm, op[o].new)
    /\ UNCHANGED <<running, queue, cloud, fails, drops>>

\* stop_service reads the allocations of a removed service.
BeginRemoval(o, s) ==
    /\ s \in op[o].removed
    /\ Goto(o, {"service"},
            [op[o] EXCEPT !.pc = "remove", !.svc = s, !.stops = Placed(ServiceAllocs(fsm, s))])
    /\ UNCHANGED <<fsm, running, queue, cloud, fails, drops>>

\* The old allocations are read and the replicas follow.
Provided(r, s) ==
    [r EXCEPT !.pc = "schedule", !.svc = s, !.vol = None, !.target = None, !.news = {},
              !.prior = IF s \in r.changed THEN Placed(ServiceAllocs(fsm, s)) ELSE {}]

\* The service at hand is given up.
Abandoned(r, s) ==
    [r EXCEPT !.pc = "service", !.added = @ \ {s}, !.changed = @ \ {s}, !.failed = TRUE,
              !.svc = None, !.vol = None, !.target = None]

\* deploy_service and rolling_update take the first Ready node, in no
\* particular order, and see to it that the volume is there.
BeginService(o, s) ==
    LET r == op[o]
        v == VolumeOf[s]
    IN  /\ r.removed = {}
        /\ s \in r.added \/ (r.added = {} /\ s \in r.changed)
        /\ \/ \E i \in ReadyNodes :
                 Goto(o, {"service"},
                      IF v = None \/ fsm.volumes[v] = [node |-> NameOf[i]] THEN Provided(r, s)
                      ELSE [r EXCEPT !.svc = s, !.vol = v, !.target = i,
                                     !.pc = IF fsm.volumes[v] = None THEN "create"
                                            ELSE IF fsm.volumes[v].node = None THEN "attach"
                                            ELSE "detach"])
           \/ ReadyNodes = {} /\ Goto(o, {"service"}, Abandoned(r, s))
        /\ UNCHANGED <<fsm, running, queue, cloud, fails, drops>>

\* All services are done.  A deploy with failures takes the old config back.
Finish(o) ==
    LET r == op[o] IN
    /\ r.removed \cup r.added \cup r.changed = {}
    /\ Goto(o, {"service"}, [r EXCEPT !.pc = "done"])
    /\ fsm' = IF r.failed /\ r.old # None THEN Deploy(fsm, r.old) ELSE fsm
    /\ UNCHANGED <<running, queue, cloud, fails, drops>>

-----------------------------------------------------------------------------
(* create_volumes_if_needed and delete_volume: a call of the driver, then *)
(* the command that records it.                                           *)

\* The driver answers for volume v of operation o, and leaves c in the cloud.
DriverDoes(o, pc, next, c) ==
    /\ Goto(o, {pc}, [op[o] EXCEPT !.pc = next])
    /\ cloud' = [cloud EXCEPT ![op[o].vol] = c]
    /\ UNCHANGED <<fsm, running, queue, fails, drops>>

\* The driver knows the volume of operation o.
InCloud(o) == cloud[op[o].vol] # None

CreateVolume(o) == op[o].pc = "create" /\ ~InCloud(o) /\ DriverDoes(o, "create", "created", [node |-> None])
DetachVolume(o) == op[o].pc = "detach" /\ InCloud(o) /\ DriverDoes(o, "detach", "detached", [node |-> None])
DestroyVolume(o) == op[o].pc = "destroy" /\ InCloud(o) /\ DriverDoes(o, "destroy", "destroyed", None)


\* A node without an instance_id is skipped.
AttachVolume(o) ==
    /\ op[o].pc = "attach"
    /\ IF op[o].target \in Instances
       THEN InCloud(o) /\ DriverDoes(o, "attach", "attached", [node |-> NameOf[op[o].target]])
       ELSE DriverDoes(o, "attach", "attached", cloud[op[o].vol])

\* The driver refuses (the volume is there already, or is not), or an API call
\* fails: the service is given up, delete_volume returns an error.
DriverFails(o) ==
    LET r == op[o] IN
    /\ Goto(o, {"create", "detach", "attach", "destroy"},
            IF r.kind = "delete" THEN [r EXCEPT !.pc = "done"] ELSE Abandoned(r, r.svc))
    /\ r.pc = "attach" => r.target \in Instances
    /\ IF (r.pc = "create") = InCloud(o)
       THEN UNCHANGED fails ELSE fails < MaxFails /\ fails' = fails + 1
    /\ UNCHANGED <<fsm, running, queue, cloud, drops>>

\* VolumeCreated, VolumeDetached or VolumeAttached is proposed; the answer of
\* the state machine is not looked at.
RecordVolume(o) ==
    LET r == op[o] IN
    /\ Goto(o, {"created", "detached", "attached"},
            [r EXCEPT !.pc = IF r.pc = "attached" THEN "provided" ELSE "attach"])
    /\ fsm' = CASE r.pc = "created" -> VolumeCreated(fsm, r.vol)
                [] r.pc = "detached" -> VolumeDetached(fsm, r.vol)
                [] r.pc = "attached" -> VolumeAttached(fsm, r.vol, r.target)
    /\ UNCHANGED <<running, queue, cloud, fails, drops>>

BeginReplicas(o) ==
    /\ Goto(o, {"provided"}, Provided(op[o], op[o].svc))
    /\ UNCHANGED <<fsm, running, queue, cloud, fails, drops>>

RecordDestroyed(o) ==
    /\ Goto(o, {"destroyed"}, [op[o] EXCEPT !.pc = "done"])
    /\ fsm' = VolumeDestroyed(fsm, op[o].vol)
    /\ UNCHANGED <<running, queue, cloud, fails, drops>>

-----------------------------------------------------------------------------
(* start_alloc, for each replica in turn. *)

\* AllocScheduled on the node the scheduler chooses.
Schedule(o) ==
    LET r == op[o]
        ids == IF r.svc \in r.added THEN {FixedId[r.svc][Cardinality(r.news) + 1]} ELSE FreshIds
    IN  /\ r.pc = "schedule"
        /\ \E i \in Candidates(r.svc), a \in ids :
              /\ Goto(o, {"schedule"}, [r EXCEPT !.pc = "run", !.cur = <<a, NameOf[i]>>])
              /\ fsm' = AllocScheduled(fsm, a, i, r.svc, "Service")
        /\ UNCHANGED <<running, queue, cloud, fails, drops>>

SendRun(o) ==
    LET r == op[o] IN
    /\ Goto(o, {"run"}, [r EXCEPT !.pc = "wait"])
    /\ Send(r.cur[2], [op |-> "Run", alloc |-> r.cur[1], def |-> DefOf[r.new][r.svc]])
    /\ UNCHANGED <<fsm, running, cloud, fails, drops>>

\* What wait_for_status, poll_for_address and the probe need to succeed.
Answers(a) ==
    /\ running[a] # None
    /\ fsm.allocs[a].status \in Active \cup {"Stopped"}
    /\ fsm.allocs[a].address # None

Probe(o) ==
    /\ Goto(o, {"wait"}, [op[o] EXCEPT !.pc = "ready"])
    /\ Answers(op[o].cur[1])
    /\ UNCHANGED <<fsm, running, queue, cloud, fails, drops>>

\* Healthy is proposed.  After the last replica the old ones are stopped; a
\* drain needs one replica.
ProposeHealthy(o) ==
    LET r == op[o]
        news == r.news \cup Placed({r.cur[1]})
    IN  /\ Goto(o, {"ready"},
                IF r.kind = "drain" \/ Cardinality(news) = Replicas[DefOf[r.new][r.svc]]
                THEN [r EXCEPT !.pc = "stop", !.news = news, !.stops = r.prior]
                ELSE [r EXCEPT !.pc = "schedule", !.news = news])
        /\ fsm' = SetAllocStatus(fsm, r.cur[1], "Healthy")
        /\ UNCHANGED <<running, queue, cloud, fails, drops>>

\* The start of the container can still succeed.
Promising(a) ==
    \/ Answers(a)
    \/ \E i \in RaftIds : \E k \in 1 .. Len(queue[i]) : queue[i][k].op = "Run" /\ queue[i][k].alloc = a

\* A start that can no longer succeed runs into its timeout in any case.
CountFailure(r) ==
    IF r.pc = "wait" /\ ~Promising(r.cur[1])
    THEN UNCHANGED fails ELSE fails < MaxFails /\ fails' = fails + 1

\* Faulty variant: an error does not end the update.
StartFailsUnnoticed(o) ==
    LET r == op[o] IN
    /\ Goto(o, {"run", "wait"}, [r EXCEPT !.pc = "stop", !.stops = r.prior, !.failed = TRUE])
    /\ CountFailure(r)
    /\ fsm' = SetAllocStatus(fsm, r.cur[1], "Failed")
    /\ UNCHANGED <<running, queue, cloud, drops>>

\* Faulty variant: replicas that are up stay up.
StartFailsNoRollback(o) ==
    LET r == op[o] IN
    /\ Goto(o, {"run", "wait"}, [r EXCEPT !.pc = "rollback", !.stops = {}, !.failed = TRUE])
    /\ CountFailure(r)
    /\ fsm' = SetAllocStatus(fsm, r.cur[1], "Failed")
    /\ UNCHANGED <<running, queue, cloud, drops>>

\* Faulty variant: a start is given up only for a reported failure.
StartFailsNoTimeout(o) ==
    LET r == op[o] IN
    /\ Goto(o, {"wait"}, [r EXCEPT !.pc = "rollback", !.failed = TRUE, !.stops = {}])
    /\ fsm.allocs[r.cur[1]].status = "Failed"
    /\ UNCHANGED <<fsm, running, queue, cloud, fails, drops>>

\* resolve_env, the send, a wait or the probe fails: the allocation is marked
\* Failed.  rolling_update then stops the replicas it has already started.
StartFails(o) ==
    LET r == op[o] IN
    /\ Goto(o, {"run", "wait"},
            [r EXCEPT !.pc = "rollback", !.failed = TRUE,
                      !.stops = IF r.svc \in r.changed THEN r.news ELSE {}])
    /\ CountFailure(r)
    /\ fsm' = SetAllocStatus(fsm, r.cur[1], "Failed")
    /\ UNCHANGED <<running, queue, cloud, drops>>

\* No node can take the replica; nothing is scheduled.
NoNode(o) ==
    LET r == op[o] IN
    /\ Goto(o, {"schedule"},
            [r EXCEPT !.pc = "rollback", !.failed = TRUE,
                      !.stops = IF r.svc \in r.changed THEN r.news ELSE {}])
    /\ Candidates(r.svc) = {}
    /\ UNCHANGED <<fsm, running, queue, cloud, fails, drops>>

-----------------------------------------------------------------------------
(* Stopping allocations. *)

StopOne(o, p) ==
    /\ p \in op[o].stops
    /\ Goto(o, {"stop", "rollback", "remove"}, [op[o] EXCEPT !.stops = @ \ {p}])
    /\ Send(p[2], [op |-> "Stop", alloc |-> p[1]])
    /\ UNCHANGED <<fsm, running, cloud, fails, drops>>

\* router.send fails.  rolling_update goes on and fails in the end, rollback
\* and drain ignore it, and for a removed service run_deploy returns at once.
StopUnsent(o, p) ==
    LET r == op[o] IN
    /\ p \in r.stops
    /\ drops < scenario.drops /\ drops' = drops + 1
    /\ Goto(o, {"stop", "rollback", "remove"},
            IF r.pc = "remove" THEN [r EXCEPT !.pc = "done", !.stops = {}]
            ELSE [r EXCEPT !.stops = @ \ {p}, !.failed = (@ \/ r.pc = "stop")])
    /\ UNCHANGED <<fsm, running, queue, cloud, fails>>

\* On to the next service, or to the next allocation of a drained node.
EndStops(o) ==
    LET r == op[o] IN
    /\ r.stops = {}
    /\ Goto(o, {"stop", "rollback", "remove"},
            [r EXCEPT !.pc = IF r.kind = "drain" THEN "migrate" ELSE "service",
                      !.removed = @ \ {r.svc}, !.added = @ \ {r.svc}, !.changed = @ \ {r.svc},
                      !.svc = None, !.cur = None, !.prior = {}, !.news = {}])
    /\ UNCHANGED <<fsm, running, queue, cloud, fails, drops>>

-----------------------------------------------------------------------------
(* drain_node, after NodeDrain. *)

MountedOn(m) == {v \in VolumeNames : fsm.volumes[v] = [node |-> m]}

ReadVolumes(o) ==
    /\ MountedOn(op[o].node) # {}
    /\ Goto(o, {"collect"}, [op[o] EXCEPT !.pc = "unmount", !.vols = MountedOn(op[o].node)])
    /\ UNCHANGED <<fsm, running, queue, cloud, fails, drops>>

\* The driver detaches the volume, or fails, which is only logged.
UnmountVolume(o, v) ==
    /\ v \in op[o].vols
    /\ Goto(o, {"unmount"}, [op[o] EXCEPT !.pc = "unmounted", !.vol = v])
    /\ \/ cloud[v] # None /\ cloud' = [cloud EXCEPT ![v].node = None] /\ UNCHANGED fails
       \/ /\ IF cloud[v] = None THEN UNCHANGED fails ELSE fails < MaxFails /\ fails' = fails + 1
          /\ UNCHANGED cloud
    /\ UNCHANGED <<fsm, running, queue, drops>>

RecordUnmounted(o) ==
    LET r == op[o] IN
    /\ Goto(o, {"unmounted"}, [r EXCEPT !.pc = "unmount", !.vols = @ \ {r.vol}, !.vol = None])
    /\ fsm' = VolumeDetached(fsm, r.vol)
    /\ UNCHANGED <<running, queue, cloud, fails, drops>>

Collect(o) ==
    LET r == op[o] IN
    /\ IF r.pc = "collect" THEN MountedOn(r.node) = {} ELSE r.vols = {}
    /\ Goto(o, {"collect", "unmount"},
            [r EXCEPT !.pc = "migrate", !.moves = AllocsOn(fsm, r.node) \cap NonTerminal(fsm)])
    /\ UNCHANGED <<fsm, running, queue, cloud, fails, drops>>

\* A service that is still configured gets a replacement before a is stopped.
Migrate(o, a) ==
    LET r == op[o]
        old == {<<a, r.node>>}
        s == fsm.allocs[a].name
    IN  /\ a \in r.moves
        /\ Goto(o, {"migrate"},
                IF s \in ServicesIn(fsm.config)
                THEN [r EXCEPT !.pc = "schedule", !.moves = @ \ {a}, !.prior = old,
                               !.svc = s, !.new = fsm.config]
                ELSE [r EXCEPT !.pc = "stop", !.moves = @ \ {a}, !.stops = old])
        /\ UNCHANGED <<fsm, running, queue, cloud, fails, drops>>

EndDrain(o) ==
    /\ op[o].moves = {}
    /\ Goto(o, {"migrate"}, [op[o] EXCEPT !.pc = "done"])
    /\ UNCHANGED <<fsm, running, queue, cloud, fails, drops>>

-----------------------------------------------------------------------------
(* The nodes: one command at a time, with the reports that follow from it. *)

\* Run: ignored for an id that is there, otherwise the container starts, or
\* the start fails and is reported.
ExecuteRun(i) ==
    LET c == Head(queue[i]) IN
    /\ queue[i] # <<>> /\ c.op = "Run"
    /\ queue' = [queue EXCEPT ![i] = Tail(@)]
    /\ \/ running[c.alloc] # None /\ UNCHANGED <<fsm, running, fails>>
       \/ /\ running[c.alloc] = None
          /\ running' = [running EXCEPT ![c.alloc] = c.def]
          /\ fsm' = AllocRunning(fsm, c.alloc, Address)
          /\ UNCHANGED fails
       \/ /\ running[c.alloc] = None
          /\ fails < MaxFails /\ fails' = fails + 1
          /\ fsm' = SetAllocStatus(fsm, c.alloc, "Failed")
          /\ UNCHANGED running
    /\ UNCHANGED <<op, cloud, drops, overlap, scenario>>

\* Stop reports Stopped whether or not there is a container.
ExecuteStop(i) ==
    LET c == Head(queue[i]) IN
    /\ queue[i] # <<>> /\ c.op = "Stop"
    /\ queue' = [queue EXCEPT ![i] = Tail(@)]
    /\ running' = [running EXCEPT ![c.alloc] = None]
    /\ fsm' = SetAllocStatus(fsm, c.alloc, "Stopped")
    /\ UNCHANGED <<op, cloud, fails, drops, overlap, scenario>>

-----------------------------------------------------------------------------
Request(o) ==
    \/ \E c \in scenario.configs : StartDeploy(o, c)
    \/ \E s \in Names : StartRestart(o, s)
    \/ \E i \in RaftIds : StartDrain(o, i)
    \/ \E v \in VolumeNames : StartDelete(o, v)

OpStep(o) ==
    \/ Reject(o) \/ ProposeDeploy(o) \/ Finish(o)
    \/ \E s \in Names : BeginRemoval(o, s) \/ BeginService(o, s)
    \/ CreateVolume(o) \/ DetachVolume(o) \/ AttachVolume(o) \/ DriverFails(o)
    \/ RecordVolume(o) \/ BeginReplicas(o) \/ DestroyVolume(o) \/ RecordDestroyed(o)
    \/ Schedule(o) \/ SendRun(o) \/ Probe(o) \/ ProposeHealthy(o) \/ StartFails(o) \/ NoNode(o)
    \/ \E p \in op[o].stops : StopOne(o, p) \/ StopUnsent(o, p)
    \/ EndStops(o)
    \/ ReadVolumes(o) \/ RecordUnmounted(o) \/ Collect(o) \/ EndDrain(o)
    \/ \E v \in VolumeNames : UnmountVolume(o, v)
    \/ \E a \in AllocIds : Migrate(o, a)

Execute(i) == ExecuteRun(i) \/ ExecuteStop(i)

AllDone == (\A o \in Ops : op[o].pc = "done") /\ Quiet /\ UNCHANGED deployVars

DeployNext ==
    \/ \E o \in Ops : Request(o) \/ OpStep(o)
    \/ \E i \in RaftIds : Execute(i)
    \/ AllDone

\* Spawned tasks are scheduled, their waits time out, and nodes execute what
\* they are sent.  Nobody has to start an operation.
DeployFairness ==
    /\ \A o \in Ops : WF_deployVars(OpStep(o))
    /\ \A i \in RaftIds : WF_deployVars(Execute(i))

DeploySpec == DeployInit /\ [][DeployNext]_deployVars /\ DeployFairness

-----------------------------------------------------------------------------
Live(s) == {a \in ServiceAllocs(fsm, s) : running[a] # None}
Serving(s) == {a \in Live(s) : fsm.allocs[a].status = "Healthy"}

\* The services every config has, the first one included.
Lasting == {s \in Names : \A c \in scenario.configs \cup {First} : DefOf[c][s] # None}

\* However deploys, restarts and drains overlap, and wherever they fail, a
\* service that stays configured always has a healthy container
\* (rolling_update stops what it read before it started its own replicas,
\* deploy/mod.rs:227-267; drain_node starts the replacement first, nodes.rs:92-121).
NoDowntime == \A s \in Lasting : Serving(s) # {}

\* Operations that do not overlap and meet no failure leave exactly what the
\* config asks for: the right number of containers of the right definition,
\* and none of a removed service (deploy/mod.rs:73-129).
UpdateConverges ==
    (Quiet /\ ~overlap /\ fails = 0 /\ drops = 0) =>
        \A s \in Names :
            /\ s \in ServicesIn(fsm.config) =>
                  Cardinality(Live(s)) = Replicas[DefOf[fsm.config][s]]
            /\ \A a \in Live(s) : running[a] = DefOf[fsm.config][s]

\* A drain starts replacements from the config, which a failed deploy has
\* taken back although some services have been updated to it.
DrainedByOldConfig == (\E o \in Ops : op[o].failed) /\ (\E o \in Ops : op[o].kind = "drain")

\* Operations that do not overlap leave each service with its full number of
\* healthy containers, all of one definition: an update that fails at any
\* replica is taken back, one that succeeds replaces all
\* (deploy/mod.rs:247-267; docs/workflows/04-deploy-rollback.md:86).  The number
\* is that of the definition they run, unless a drain has replaced them by
\* those of the config a failed deploy went back to (nodes.rs:74-113).
PerServiceAtomic ==
    (Quiet /\ ~overlap /\ drops = 0) =>
        \A s \in Lasting : \E d, e \in Versions :
            /\ Cardinality(Serving(s)) = Replicas[d]
            /\ \A a \in Serving(s) : running[a] = e
            /\ d = e \/ DrainedByOldConfig

\* What the state says of volumes and what the cloud has.
RecordsAgree ==
    \A v \in VolumeNames :
        /\ (fsm.volumes[v] = None) <=> (cloud[v] = None)
        /\ \A i \in Instances : fsm.volumes[v] = [node |-> NameOf[i]] => cloud[v] = fsm.volumes[v]

\* Wherever an operation fails among driver calls and commands, the cloud has
\* the volumes the state has, and one that is recorded as attached is there
\* (deploy/mod.rs:575-617 records each call after it has succeeded,
\* handlers.rs:415-423 destroys before it forgets).
AttachmentRecorded == (Quiet /\ ~overlap) => RecordsAgree

\* After operations that do not overlap and meet no failure, the containers of
\* a service run where its volume is attached (scheduler.rs:36-46;
\* docs/workflows/09-volume-affinity.md:89 "Scheduler pins services to the
\* volume's node automatically").
PinnedToVolume ==
    (Quiet /\ ~overlap /\ fails = 0 /\ drops = 0) =>
        \A s \in Names : \A a \in Live(s), i \in RaftIds :
            (VolumeOf[s] # None /\ fsm.volumes[VolumeOf[s]] = [node |-> NameOf[i]])
                => fsm.allocs[a].node = NameOf[i]

\* The same of overlapping operations: what is recorded as attached is there.
RacesAgree == Quiet => RecordsAgree

\* The same when an update fails: a service does not lose its volume
\* (docs/workflows/09-volume-affinity.md:55 "Volume-bound services never move
\* unless the volume moves").
VolumeStays ==
    Quiet => \A s \in Names : \A a \in Serving(s), i \in RaftIds :
        (VolumeOf[s] # None /\ fsm.volumes[VolumeOf[s]] = [node |-> NameOf[i]])
            => fsm.allocs[a].node = NameOf[i]

\* A volume whose service is running is not destroyed
\* (docs/workflows/09-volume-affinity.md:92 "mill volume delete refuses if a
\* service uses it").
UsedIsKept ==
    \A s \in Names : Live(s) # {} /\ VolumeOf[s] # None => cloud[VolumeOf[s]] # None

\* Every operation comes to an end, whatever starts fail, sends fail, or
\* containers another operation stops under it (the timeouts of
\* wait_for_status and poll_for_address, deploy/mod.rs:447-502).  An operation
\* that has begun is never idle again, so it ends if it is not under way for ever.
OperationsEnd == \A o \in Ops : []<>~Under(o)

\* A container whose start was given up does not keep running
\* (docs/workflows/04-deploy-rollback.md:85 "The new alloc is always killed on
\* failure").
FailedIsKilled ==
    Quiet => \A a \in AllocsIn(fsm) : fsm.allocs[a].status = "Failed" => running[a] = None

\* An update replaces one replica at a time, so there is never more than one
\* replica too many (deploy/mod.rs:216 "for each replica, start new -> health
\* check -> stop old"; docs/workflows/03-rolling-update.md:50-60).
OneReplicaAtATime ==
    \A s \in ServicesIn(First) :
        Cardinality(ServiceAllocs(fsm, s) \cap NonTerminal(fsm)) <= Replicas[DefOf[First][s]] + 1


=============================================================================
