----------------------------- MODULE NodeProofs -----------------------------
(***************************************************************************)
(* One node's secondary keeps its ports and its containers in sight, for   *)
(* every set of allocations, every port range, every capacity of the       *)
(* report channel and any number of commands, exits and restarts; and the  *)
(* leader's watchdog keeps the WireGuard peers of the nodes that are       *)
(* ready, for any number of nodes, allocations and failures.               *)
(***************************************************************************)
EXTENDS NodeAgent, Watchdog, TLAPS


-----------------------------------------------------------------------------
(* The port pool keeps its partition, whatever the host scans return. *)

USE RangeAssumption, NoneAssumption

\* with_range starts from a pool that satisfies the invariant.
LEMMA PoolInitEstablishes == PoolInit => PoolInv
  BY Zenon DEF PoolInit, PoolInv, PoolTypeOK, PoolPartition, NoPortLost, Owned, Ports

\* Taking a free or hidden port keeps the invariant (allocate and
\* allocate_specific share this step).
LEMMA TakeKeeps ==
  ASSUME PoolInv, NEW a \in AllocIds, NEW p \in Ports, Take(a, p)
  PROVE  PoolInv'
<1>1. Owned' = Owned \cup {p}
  BY Zenon DEF PoolInv, PoolTypeOK, Take, Owned, Ports
<1> QED
  BY <1>1, Zenon DEF PoolInv, PoolTypeOK, PoolPartition, NoPortLost, Take, Ports

\* Each operation of the pool keeps the invariant.
LEMMA PoolNextKeeps == PoolInv /\ [PoolNext]_poolVars => PoolInv'
<1> SUFFICES ASSUME PoolInv, [PoolNext]_poolVars PROVE PoolInv'
  BY Zenon
<1>1. ASSUME NEW a \in AllocIds, NEW p \in Ports, Allocate(a, p) PROVE PoolInv'
  BY <1>1, TakeKeeps, Zenon DEF Allocate
<1>2. ASSUME NEW a \in AllocIds, NEW p \in Ports, AllocateSpecific(a, p) PROVE PoolInv'
  <2>1. CASE p \in Ports \ Owned
    BY <1>2, <2>1, TakeKeeps, Zenon DEF AllocateSpecific
  <2>2. CASE p \notin Ports \ Owned
    BY <1>2, <2>2, Zenon DEF AllocateSpecific, PoolInv, PoolTypeOK, PoolPartition,
                      NoPortLost, Owned, Ports, poolVars
  <2> QED BY <2>1, <2>2, Zenon
<1>3. ASSUME NEW p \in Ports, Release(p) PROVE PoolInv'
  <2>1. CASE p \in Owned
    <3>1. Owned' = Owned \ {p}
      BY <1>3, <2>1, Zenon DEF Release, PoolInv, PoolTypeOK, Owned, Ports
    <3> QED
      BY <1>3, <2>1, <3>1, Zenon DEF Release, PoolInv, PoolTypeOK, PoolPartition, NoPortLost, Ports
  <2>2. CASE p \notin Owned
    BY <1>3, <2>2, Zenon DEF Release, PoolInv, PoolTypeOK, PoolPartition, NoPortLost,
                      Owned, Ports, poolVars
  <2> QED BY <2>1, <2>2, Zenon
<1>4. ASSUME NEW inUse \in SUBSET Ports, Rebuild(inUse) PROVE PoolInv'
  BY <1>4, Zenon DEF Rebuild, PoolInv, PoolTypeOK, PoolPartition, NoPortLost, Owned, Ports
<1>5. ASSUME NEW inUse \in SUBSET Ports,
             NEW saved \in [Ports -> AllocIds \cup {None}], Restore(saved, inUse)
      PROVE  PoolInv'
  <2> DEFINE back == {p \in Ports : saved[p] # None} \ inUse
  <2>1. Owned' = Owned \cup back
    BY <1>5, Zenon DEF Restore, PoolInv, PoolTypeOK, Owned, Ports
  <2>2. available' = available \ back
    BY <1>5, Zenon DEF Restore
  <2>3. allocated' \in [Ports -> AllocIds \cup {None}] /\ UNCHANGED excluded
    BY <1>5, Zenon DEF Restore, PoolInv, PoolTypeOK
  <2> HIDE DEF back
  <2> QED BY <2>1, <2>2, <2>3, Zenon DEF PoolInv, PoolTypeOK, PoolPartition, NoPortLost, Ports
<1>6. CASE UNCHANGED poolVars
  BY <1>6, Zenon DEF PoolInv, PoolTypeOK, PoolPartition, NoPortLost, Owned, Ports, poolVars
<1> QED BY <1>1, <1>2, <1>3, <1>4, <1>5, <1>6, Zenon DEF PoolNext

\* Free, owned and hidden ports make up the range for every range, every set of
\* owners and every host scan: no port is offered while it is owned, and no
\* sequence of calls loses one.
THEOREM PoolInvHolds == PoolSpec => []PoolInv
  BY PoolInitEstablishes, PoolNextKeeps, PTL DEF PoolSpec

-----------------------------------------------------------------------------
(* The node. *)

USE AgentAssumption

-----------------------------------------------------------------------------
(* Types. *)

\* The reports the node builds are reports.
LEMMA ReportTypes ==
  ASSUME NEW a \in AllocIds
  PROVE  /\ Status(a, "Pulling") \in Reports /\ Status(a, "Starting") \in Reports
         /\ RunFailed(a) \in Reports /\ Stopped(a) \in Reports
         /\ \A p \in PortOrNone : Started(a, p) \in Reports
BY Zenon DEF Status, RunFailed, Stopped, Started, Reports

\* Sending on the bounded channel keeps it within its capacity.
LEMMA ReportKeeps ==
  ASSUME reports \in Seq(Reports), Len(reports) <= ReportCap, NEW r \in Reports, Report(r)
  PROVE  reports' \in Seq(Reports) /\ Len(reports') <= ReportCap
BY DEF Report

-----------------------------------------------------------------------------
(* The invariant in two parts: the channels, and everything else. *)

ChannelsOK ==
    /\ cmds \in Seq(Commands)
    /\ reports \in Seq(Reports) /\ Len(reports) <= ReportCap
    /\ beat \in StatusMaps \cup {None}
    /\ sent \in 0 .. MaxCmds /\ beats \in 0 .. MaxBeats /\ restarts \in 0 .. MaxRestarts

LoopTypeOK == loop \in [pc : LoopPCs, alloc : AllocIds \cup {None}, port : PortOrNone]

Containers == [state : {"running", "exited"}, run : Nat, port : PortOrNone]

TasksOK ==
    /\ PoolTypeOK /\ LoopTypeOK
    /\ orphans \subseteq AllocIds /\ expected \subseteq AllocIds
    /\ map \in [AllocIds -> [status : AllocStatuses, port : PortOrNone] \cup {None}]
    /\ containers \in [AllocIds -> Containers \cup {None}]
    /\ runs \in Nat /\ lost \subseteq 1 .. runs
    /\ waiters \subseteq Waiters

LoopInv ==
    /\ loop.pc \notin {"recv", "reconcile"} => loop.alloc \in AllocIds
    /\ loop.pc \in {"insert", "started"} => containers[loop.alloc] # None
    /\ loop.pc \in {"release", "forget"} => Unseen(loop.alloc)

RunsNumbered ==
    /\ \A a \in Listed : containers[a].run \in 1 .. runs
    /\ \A w \in waiters : w.run \in 1 .. runs /\ (w.pc # "wait" => Exited(w))

CoreInv == TasksOK /\ LoopInv /\ RunsNumbered /\ PoolInv /\ NoPortLeak /\ LiveTracked

coreVars == <<poolVars, loop, recoveryVars, map, runtimeVars, waiters>>

\* The two parts are the whole.
LEMMA InvParts == AgentInv <=> ChannelsOK /\ CoreInv
BY Zenon DEF AgentInv, ChannelsOK, CoreInv, AgentTypeOK, TasksOK, LoopTypeOK, Containers, LoopInv,
       RunsNumbered, PoolInv

\* A step that touches the channels only keeps the rest.
LEMMA CoreFrame == CoreInv /\ UNCHANGED coreVars => CoreInv'
BY DEF coreVars, poolVars, recoveryVars, runtimeVars, CoreInv, TasksOK, LoopTypeOK, LoopInv,
       RunsNumbered, PoolInv, PoolTypeOK, PoolPartition, NoPortLost, Owned, NoPortLeak,
       LoopHolds, WaiterHolds, LiveTracked, Listed, Unseen, Exited

-----------------------------------------------------------------------------
(* The command loop moves on and nothing else changes. *)

\* A step of the loop that takes it from a point where it holds no port to
\* another such point keeps the invariant: during reconcile only when it stays
\* in reconcile or is done with it.
LEMMA LoopMoves ==
  ASSUME CoreInv, UNCHANGED <<poolVars, recoveryVars, map, runtimeVars, waiters>>,
         LoopTypeOK',
         loop'.pc \notin {"recv", "reconcile"} => loop'.alloc \in AllocIds,
         loop'.pc \notin {"insert", "started", "release", "forget"},
         loop.pc \notin {"run", "insert", "started"},
         loop.pc \in {"reconcile", "rehydrated"} =>
            loop'.pc = "reconcile" \/ (orphans = {} /\ expected = {}),
         loop.pc = "reconcile" => orphans = {} /\ expected = {}
  PROVE  CoreInv'
<1> USE DEF poolVars, recoveryVars, runtimeVars
<1>1. TasksOK'
  BY Zenon DEF CoreInv, TasksOK, PoolTypeOK
<1>2. LoopInv'
  BY Zenon DEF LoopInv
<1>3. RunsNumbered'
  BY Zenon DEF CoreInv, RunsNumbered, Listed, Exited
<1>4. PoolInv'
  BY Zenon DEF CoreInv, PoolInv, PoolTypeOK, PoolPartition, NoPortLost, Owned
<1>5. NoPortLeak'
  BY Zenon DEF CoreInv, NoPortLeak, Owned, LoopHolds, WaiterHolds
<1>6. LiveTracked'
  BY Zenon DEF CoreInv, LiveTracked, Listed
<1> QED BY <1>1, <1>2, <1>3, <1>4, <1>5, <1>6, Zenon DEF CoreInv

\* The loop's idle state, and where it goes when it takes a command.
LEMMA IdleType == Idle.pc = "recv" /\ Idle \in [pc : LoopPCs, alloc : AllocIds \cup {None},
                                                port : PortOrNone]
BY Zenon DEF Idle, LoopPCs, PortOrNone

\* The steps of the loop that change nothing but itself and the channels.
LEMMA QuietLoopKeeps ==
  ASSUME CoreInv,
         \/ \E a \in AllocIds : RecvRun(a) \/ RecvStop(a)
         \/ PullImage \/ ReportFailed \/ ReportStopped \/ ReportRehydrated \/ EndReconcile
  PROVE  CoreInv'
<1>1. LoopTypeOK /\ LoopInv
  BY Zenon DEF CoreInv, TasksOK
<1>2. ASSUME NEW a \in AllocIds, RecvRun(a) PROVE CoreInv'
  <2>1. CASE map[a] # None
    BY <1>2, <2>1, CoreFrame, Zenon DEF RecvRun, coreVars
  <2>2. CASE map[a] = None
    <3>1. loop' = [pc |-> "pull", alloc |-> a, port |-> None] /\ loop.pc = "recv"
      BY <1>2, <2>2, Zenon DEF RecvRun
    <3>2. LoopTypeOK'
      BY <3>1, Zenon DEF LoopTypeOK, LoopPCs, PortOrNone
    <3> QED BY <1>2, <3>1, <3>2, LoopMoves, Zenon DEF RecvRun
  <2> QED BY <2>1, <2>2, Zenon
<1>3. ASSUME NEW a \in AllocIds, RecvStop(a) PROVE CoreInv'
  <2>1. /\ loop' = [pc |-> "stop", alloc |-> a,
                    port |-> IF map[a] = None THEN None ELSE map[a].port]
        /\ loop.pc = "recv"
    BY <1>3, Zenon DEF RecvStop
  <2>2. LoopTypeOK'
    BY <2>1, Zenon DEF LoopTypeOK, LoopPCs, PortOrNone, CoreInv, TasksOK
  <2> QED BY <1>3, <2>1, <2>2, LoopMoves DEF RecvStop
<1>4. CASE PullImage
  <2>1. loop.pc = "pull" /\ (loop' = [loop EXCEPT !.pc = "allocate"] \/ loop' = Idle)
    BY <1>4, Zenon DEF PullImage, Goto
  <2>2. /\ LoopTypeOK' /\ loop'.pc \in {"allocate", "recv"}
        /\ loop'.pc = "allocate" => loop'.alloc \in AllocIds
    BY <1>1, <2>1, IdleType, Zenon DEF LoopTypeOK, LoopPCs, LoopInv
  <2> QED BY <1>4, <2>1, <2>2, LoopMoves, Zenon DEF PullImage
<1>5. CASE ReportFailed \/ ReportStopped \/ EndReconcile
  <2>1. loop' = Idle
    BY <1>5, Zenon DEF ReportFailed, ReportStopped, EndReconcile
  <2>2. LoopTypeOK' /\ loop'.pc = "recv"
    BY <2>1, IdleType, Zenon DEF LoopTypeOK
  <2> QED BY <1>5, <2>2, LoopMoves, Zenon DEF ReportFailed, ReportStopped, EndReconcile
<1>6. CASE ReportRehydrated
  <2>1. loop' = [pc |-> "reconcile", alloc |-> None, port |-> None] /\ loop.pc = "rehydrated"
    BY <1>6, Zenon DEF ReportRehydrated
  <2>2. LoopTypeOK' /\ loop'.pc = "reconcile"
    BY <2>1, Zenon DEF LoopTypeOK, LoopPCs, PortOrNone
  <2> QED BY <1>6, <2>1, <2>2, LoopMoves, Zenon DEF ReportRehydrated
<1> QED BY <1>2, <1>3, <1>4, <1>5, <1>6, Zenon

-----------------------------------------------------------------------------
(* Ports. *)

\* Giving a port back, if there is one: what the pool owned otherwise stays.
LEMMA ReleaseOptKeeps ==
  ASSUME PoolInv, NEW p \in PortOrNone, ReleaseOpt(p)
  PROVE  PoolInv' /\ PoolTypeOK' /\ Owned' = Owned \ {p}
<1>1. CASE p = None
  <2>1. PoolInv' /\ Owned' = Owned
    BY <1>1, Zenon DEF ReleaseOpt, poolVars, PoolInv, PoolTypeOK, PoolPartition, NoPortLost, Owned
  <2>2. p \notin Owned
    BY <1>1, AgentAbsentAssumption DEF Owned, Ports
  <2> QED BY <2>1, <2>2, Zenon DEF PoolInv
<1>2. CASE p # None
  <2>1. p \in Ports /\ Release(p)
    BY <1>2, Zenon DEF PortOrNone, ReleaseOpt
  <2>2. PoolInv'
    BY <2>1, PoolNextKeeps, Zenon DEF PoolNext
  <2>3. Owned' = Owned \ {p}
    BY <2>1, Zenon DEF Release, Owned, PoolInv, PoolTypeOK, poolVars
  <2> QED BY <2>2, <2>3, Zenon DEF PoolInv
<1> QED BY <1>1, <1>2, Zenon

\* allocate and allocate_specific add the port to the owned ones.
LEMMA TakeOwns ==
  ASSUME PoolInv, NEW a \in AllocIds, NEW p \in Ports, Take(a, p)
  PROVE  PoolInv' /\ PoolTypeOK' /\ Owned' = Owned \cup {p}
<1>1. PoolInv'
  BY TakeKeeps, Zenon
<1>2. Owned' = Owned \cup {p}
  BY NoneAssumption, SMTT(30) DEF Take, Owned, PoolInv, PoolTypeOK
<1> QED BY <1>1, <1>2, Zenon DEF PoolInv

\* The port is taken for the allocation the loop is starting.
LEMMA AllocatePortKeeps ==
  ASSUME CoreInv, AllocatePort
  PROVE  CoreInv'
<1> USE DEF recoveryVars, runtimeVars
<1>1. loop.pc = "allocate" /\ LoopTypeOK /\ loop.alloc \in AllocIds /\ PoolInv /\ TasksOK
  BY ZenonT(30) DEF AllocatePort, CoreInv, TasksOK, LoopInv
<1>2. UNCHANGED <<orphans, expected, map, containers, runs, lost, waiters>>
  BY Zenon DEF AllocatePort
<1>3. CASE UNCHANGED poolVars /\ loop' = Idle
  BY <1>1, <1>2, <1>3, IdleType, LoopMoves, Zenon DEF LoopTypeOK
<1>4. ASSUME LoopTypeOK', loop'.pc = "run", loop'.alloc = loop.alloc,
             PoolInv', PoolTypeOK', Owned' \subseteq Owned \cup {loop'.port}
      PROVE  CoreInv'
  <2>1. TasksOK'
    BY <1>1, <1>2, <1>4, Zenon DEF TasksOK
  <2>2. LoopInv' /\ RunsNumbered'
    BY <1>1, <1>2, <1>4, Zenon DEF CoreInv, LoopInv, RunsNumbered, Listed, Exited
  <2>3. NoPortLeak'
    BY <1>1, <1>2, <1>4, Zenon DEF CoreInv, NoPortLeak, LoopHolds, WaiterHolds
  <2>4. LiveTracked'
    BY <1>1, <1>2, <1>4, Zenon DEF CoreInv, LiveTracked, Listed
  <2> QED BY <1>4, <2>1, <2>2, <2>3, <2>4, Zenon DEF CoreInv
<1>5. CASE Goto("run") /\ UNCHANGED poolVars
  <2>1. LoopTypeOK' /\ loop'.pc = "run" /\ loop'.alloc = loop.alloc
    BY <1>1, <1>5, Zenon DEF LoopTypeOK, LoopPCs, Goto
  <2>2. PoolInv' /\ PoolTypeOK' /\ Owned' = Owned
    BY <1>1, <1>5, Zenon DEF PoolInv, PoolTypeOK, PoolPartition, NoPortLost, Owned, poolVars
  <2> QED BY <1>4, <2>1, <2>2, Zenon
<1>6. ASSUME NEW p \in Ports, Allocate(loop.alloc, p),
             loop' = [loop EXCEPT !.pc = "run", !.port = p]
      PROVE  CoreInv'
  <2>1. PoolInv' /\ PoolTypeOK' /\ Owned' = Owned \cup {p}
    BY <1>1, <1>6, TakeOwns, Zenon DEF Allocate
  <2>2. LoopTypeOK' /\ loop'.pc = "run" /\ loop'.port = p /\ loop'.alloc = loop.alloc
    BY <1>1, <1>6, Zenon DEF LoopTypeOK, LoopPCs, PortOrNone
  <2> QED BY <1>4, <2>1, <2>2, Zenon
<1> QED BY <1>3, <1>5, <1>6, ZenonT(30) DEF AllocatePort

-----------------------------------------------------------------------------
(* Containers. *)

\* The runtime only ends and removes containers; it starts none.
OnlyEnds ==
    /\ containers' \in [AllocIds -> Containers \cup {None}]
    /\ \A a \in AllocIds :
          containers'[a] # None =>
             /\ containers[a] # None /\ containers'[a].run = containers[a].run
             /\ containers'[a].state = "running" => containers[a].state = "running"

\* Ending containers keeps the numbering and what the waiters have seen.
LEMMA OnlyEndsKeeps ==
  ASSUME TasksOK, RunsNumbered, OnlyEnds, UNCHANGED <<runs, waiters>>
  PROVE  RunsNumbered'
<1>1. \A a \in Listed' : a \in Listed /\ containers'[a].run = containers[a].run
  BY Zenon DEF Listed, OnlyEnds
<1>2. \A w \in waiters : w.alloc \in AllocIds
  BY Zenon DEF TasksOK, Waiters
<1>3. \A w \in waiters : Exited(w) => Exited(w)'
  BY <1>2, Zenon DEF Exited, OnlyEnds
<1> QED BY <1>1, <1>3, Zenon DEF RunsNumbered

\* runtime.stop and runtime.remove: afterwards nothing runs under a that the
\* node has not lost sight of, and the other containers are as before.
LEMMA StopAndRemoveEnds ==
  ASSUME TasksOK, RunsNumbered, NEW a \in AllocIds, StopAndRemove(a), UNCHANGED runs
  PROVE  /\ OnlyEnds /\ Unseen(a)'
         /\ lost \subseteq lost' /\ lost' \subseteq 1 .. runs
         /\ \A b \in AllocIds \ {a} : containers'[b] = containers[b]
<1>1. containers \in [AllocIds -> Containers \cup {None}] /\ lost \subseteq 1 .. runs
  BY Zenon DEF TasksOK
<1>2. CASE containers' = [containers EXCEPT ![a] = None] /\ UNCHANGED lost
  BY <1>1, <1>2, Zenon DEF OnlyEnds, Unseen
<1>3. CASE containers[a] # None /\ UNCHANGED containers /\ lost' = lost \cup {containers[a].run}
  <2>1. containers[a].run \in 1 .. runs
    BY <1>3, Zenon DEF RunsNumbered, Listed
  <2> QED BY <1>1, <1>3, <2>1, Zenon DEF OnlyEnds, Unseen
<1>4. CASE /\ containers[a] # None /\ UNCHANGED lost
           /\ containers' = [containers EXCEPT ![a].state = "exited"]
  <2>1. containers[a] \in Containers
    BY <1>1, <1>4, Zenon
  <2>2. containers'[a] = [containers[a] EXCEPT !.state = "exited"]
        /\ \A b \in AllocIds \ {a} : containers'[b] = containers[b]
    BY <1>1, <1>4, Zenon
  <2>3. containers'[a] \in Containers /\ containers'[a].state = "exited"
        /\ containers'[a].run = containers[a].run
    BY <2>1, <2>2, Zenon DEF Containers
  <2>4. containers' \in [AllocIds -> Containers \cup {None}]
    BY <1>1, <1>4, <2>1, <2>3, Zenon
  <2> QED BY <1>1, <1>4, <2>2, <2>3, <2>4, Zenon DEF OnlyEnds, Unseen
<1> QED BY <1>2, <1>3, <1>4, Zenon DEF StopAndRemove

\* A container ends by itself.
LEMMA ExitKeeps ==
  ASSUME CoreInv, NEW a \in AllocIds, Exit(a)
  PROVE  CoreInv'
<1> USE DEF poolVars, recoveryVars
<1>1. containers \in [AllocIds -> Containers \cup {None}] /\ TasksOK /\ LoopInv /\ RunsNumbered
  BY Zenon DEF CoreInv, TasksOK
<1>2. containers[a] \in Containers /\ containers[a] # None
  BY <1>1, Zenon DEF Exit
<1>3. containers'[a] = [containers[a] EXCEPT !.state = "exited"]
      /\ \A b \in AllocIds \ {a} : containers'[b] = containers[b]
  BY <1>1, Zenon DEF Exit
<1>4. /\ containers'[a] \in Containers /\ containers'[a] # None
      /\ containers'[a].state = "exited" /\ containers'[a].run = containers[a].run
  BY <1>2, <1>3, AgentAbsentAssumption DEF Containers, PortOrNone, Ports
<1>5. OnlyEnds
  BY <1>1, <1>2, <1>3, <1>4, Zenon DEF OnlyEnds, Exit
<1>6. UNCHANGED <<available, allocated, excluded, loop, orphans, expected, map, runs, lost,
                  waiters>>
  BY Zenon DEF Exit
<1>7. TasksOK' /\ RunsNumbered'
  BY <1>1, <1>5, <1>6, OnlyEndsKeeps, Zenon DEF TasksOK, OnlyEnds, LoopTypeOK, PoolTypeOK
<1>8. LoopInv'
  BY <1>1, <1>2, <1>3, <1>4, <1>6, Zenon DEF LoopInv, Unseen
<1>9. PoolInv' /\ NoPortLeak'
  BY <1>6 DEF CoreInv, PoolInv, PoolTypeOK, PoolPartition, NoPortLost, Owned, NoPortLeak,
              LoopHolds, WaiterHolds
<1>10. LiveTracked'
  BY <1>3, <1>4, <1>6, Zenon DEF CoreInv, LiveTracked, Listed
<1> QED BY <1>7, <1>8, <1>9, <1>10, Zenon DEF CoreInv

\* runtime.run: a new container with a new number, or the port is given back.
LEMMA StartContainerKeeps ==
  ASSUME CoreInv, StartContainer
  PROVE  CoreInv'
<1> USE DEF recoveryVars
<1>1. /\ TasksOK /\ LoopTypeOK /\ LoopInv /\ RunsNumbered /\ PoolInv /\ loop.pc = "run"
      /\ loop.alloc \in AllocIds /\ loop.port \in PortOrNone
      /\ containers \in [AllocIds -> Containers \cup {None}] /\ runs \in Nat
  BY Zenon DEF CoreInv, TasksOK, LoopTypeOK, LoopInv, StartContainer
<1>2. UNCHANGED <<orphans, expected, map, waiters>>
  BY Zenon DEF StartContainer
<1>3. CASE StartFails
  <2>1. UNCHANGED <<containers, runs, lost>> /\ loop' = [loop EXCEPT !.pc = "failed"]
    BY <1>3, Zenon DEF StartFails, runtimeVars, Goto
  <2>2. PoolInv' /\ PoolTypeOK' /\ Owned' = Owned \ {loop.port}
    BY <1>1, <1>3, ReleaseOptKeeps, Zenon DEF StartFails
  <2>3. LoopTypeOK' /\ loop'.pc = "failed" /\ loop'.alloc = loop.alloc
    BY <1>1, <2>1, Zenon DEF LoopTypeOK, LoopPCs
  <2>4. TasksOK'
    BY <1>1, <1>2, <2>1, <2>2, <2>3, Zenon DEF TasksOK
  <2>5. LoopInv' /\ RunsNumbered'
    BY <1>1, <1>2, <2>1, <2>3, Zenon DEF LoopInv, RunsNumbered, Listed, Exited
  <2>6. NoPortLeak'
    BY <1>2, <2>2, Zenon DEF CoreInv, NoPortLeak, LoopHolds, WaiterHolds
  <2>7. LiveTracked'
    BY <1>1, <1>2, <2>1, <2>3, Zenon DEF CoreInv, LiveTracked, Listed
  <2> QED BY <2>2, <2>4, <2>5, <2>6, <2>7, Zenon DEF CoreInv
<1>4. CASE /\ containers[loop.alloc] = None
           /\ containers' = [containers EXCEPT ![loop.alloc] =
                               [state |-> "running", run |-> runs + 1, port |-> loop.port]]
           /\ runs' = runs + 1
           /\ Goto("insert")
           /\ UNCHANGED <<poolVars, lost>>
  <2> DEFINE c == [state |-> "running", run |-> runs + 1, port |-> loop.port]
  <2>1. c \in Containers /\ c # None /\ c.run = runs + 1
    BY <1>1, AgentAbsentAssumption DEF Containers, PortOrNone, Ports
  <2>2. /\ containers'[loop.alloc] = c
        /\ \A b \in AllocIds \ {loop.alloc} : containers'[b] = containers[b]
        /\ containers' \in [AllocIds -> Containers \cup {None}]
    BY <1>1, <1>4, <2>1, Zenon
  <2> HIDE DEF c
  <2>3. LoopTypeOK' /\ loop'.pc = "insert" /\ loop'.alloc = loop.alloc /\ loop'.port = loop.port
    BY <1>1, <1>4, Zenon DEF LoopTypeOK, LoopPCs, Goto
  <2>4. PoolInv' /\ PoolTypeOK' /\ Owned' = Owned
    BY <1>1, <1>4, Zenon DEF poolVars, PoolInv, PoolTypeOK, PoolPartition, NoPortLost, Owned
  <2>5. runs' \in Nat /\ lost' \subseteq 1 .. runs'
    BY <1>1, <1>4 DEF TasksOK
  <2>6. TasksOK'
    BY <1>1, <1>2, <2>2, <2>3, <2>4, <2>5, Zenon DEF TasksOK
  <2>7. LoopInv'
    BY <1>1, <2>1, <2>2, <2>3, Zenon DEF LoopInv
  <2>8. RunsNumbered'
    <3>1. ASSUME NEW a \in Listed' PROVE containers'[a].run \in 1 .. runs'
      BY <1>1, <1>4, <2>1, <2>2 DEF RunsNumbered, Listed
    <3>2. ASSUME NEW w \in waiters' PROVE w.run \in 1 .. runs' /\ (w.pc # "wait" => Exited(w)')
      <4>1. w \in waiters /\ w.alloc \in AllocIds /\ w.run \in 1 .. runs
        BY <1>1, <1>2, Zenon DEF TasksOK, Waiters, RunsNumbered
      <4>2. w.run # runs + 1 /\ w.run \in 1 .. runs'
        BY <1>1, <1>4, <4>1
      <4>3. Exited(w) => Exited(w)'
        BY <2>1, <2>2, <4>1, <4>2, Zenon DEF Exited
      <4> QED BY <1>1, <4>1, <4>2, <4>3, Zenon DEF RunsNumbered
    <3> QED BY <3>1, <3>2, Zenon DEF RunsNumbered
  <2>9. NoPortLeak'
    BY <1>1, <1>2, <2>3, <2>4, Zenon DEF CoreInv, NoPortLeak, LoopHolds, WaiterHolds
  <2>10. LiveTracked'
    BY <1>1, <1>2, <1>4, <2>2, <2>3, Zenon DEF CoreInv, LiveTracked, Listed
  <2> QED BY <2>4, <2>6, <2>7, <2>8, <2>9, <2>10, Zenon DEF CoreInv
<1> QED BY <1>3, <1>4, Zenon DEF StartContainer

\* What insert does to the map.
LEMMA InsertMaps ==
  ASSUME map \in [AllocIds -> [status : AllocStatuses, port : PortOrNone] \cup {None}],
         NEW a \in AllocIds, NEW p \in PortOrNone, Insert(a, p)
  PROVE  /\ map' \in [AllocIds -> [status : AllocStatuses, port : PortOrNone] \cup {None}]
         /\ map'[a] # None
         /\ \A b \in AllocIds : map[b] # None => map'[b] # None
<1> DEFINE e == [status |-> "Running", port |-> p]
<1>1. e \in [status : AllocStatuses, port : PortOrNone] /\ e # None
  BY AgentAbsentAssumption DEF AllocStatuses, PortOrNone, Ports
<1> HIDE DEF e
<1>2. map' = IF map[a] = None THEN [map EXCEPT ![a] = e] ELSE map
  BY Zenon DEF Insert, e
<1> QED BY <1>1, <1>2, Zenon

\* The container is entered into the map.
LEMMA InsertAllocKeeps ==
  ASSUME CoreInv, InsertAlloc
  PROVE  CoreInv'
<1> USE DEF poolVars, recoveryVars, runtimeVars
<1>1. /\ TasksOK /\ LoopTypeOK /\ LoopInv /\ RunsNumbered /\ loop.pc = "insert"
      /\ loop.alloc \in AllocIds /\ loop.port \in PortOrNone
      /\ map \in [AllocIds -> [status : AllocStatuses, port : PortOrNone] \cup {None}]
  BY Zenon DEF CoreInv, TasksOK, LoopTypeOK, LoopInv, InsertAlloc
<1>2. UNCHANGED <<available, allocated, excluded, orphans, expected, containers, runs, lost,
                  waiters>>
  BY Zenon DEF InsertAlloc
<1>3. LoopTypeOK' /\ loop'.pc = "started" /\ loop'.alloc = loop.alloc /\ loop'.port = loop.port
  BY <1>1, Zenon DEF InsertAlloc, Goto, LoopTypeOK, LoopPCs
<1>4. /\ map' \in [AllocIds -> [status : AllocStatuses, port : PortOrNone] \cup {None}]
      /\ map'[loop.alloc] # None
      /\ \A b \in AllocIds : map[b] # None => map'[b] # None
  BY <1>1, InsertMaps, Zenon DEF InsertAlloc
<1>5. TasksOK'
  BY <1>1, <1>2, <1>3, <1>4, Zenon DEF TasksOK, PoolTypeOK
<1>6. LoopInv' /\ RunsNumbered'
  BY <1>1, <1>2, <1>3, Zenon DEF LoopInv, RunsNumbered, Listed, Exited
<1>7. PoolInv' /\ NoPortLeak'
  BY <1>1, <1>2, <1>3 DEF CoreInv, PoolInv, PoolTypeOK, PoolPartition, NoPortLost, Owned,
                          NoPortLeak, LoopHolds, WaiterHolds
<1>8. LiveTracked'
  BY <1>1, <1>2, <1>3, <1>4, Zenon DEF CoreInv, LiveTracked, Listed
<1> QED BY <1>5, <1>6, <1>7, <1>8, Zenon DEF CoreInv

\* The waiter takes over the port.
LEMMA ReportStartedKeeps ==
  ASSUME CoreInv, ReportStarted
  PROVE  CoreInv'
<1> USE DEF poolVars, recoveryVars, runtimeVars
<1> DEFINE n == [run |-> containers[loop.alloc].run, alloc |-> loop.alloc,
                 port |-> loop.port, pc |-> "wait"]
<1>1. /\ TasksOK /\ LoopTypeOK /\ LoopInv /\ RunsNumbered /\ loop.pc = "started"
      /\ loop.alloc \in AllocIds /\ loop.port \in PortOrNone
      /\ containers[loop.alloc] # None
  BY Zenon DEF CoreInv, TasksOK, LoopTypeOK, LoopInv, ReportStarted
<1>2. /\ UNCHANGED <<available, allocated, excluded, orphans, expected, map, containers, runs,
                     lost>>
      /\ waiters' = waiters \cup {n} /\ loop' = Idle
  BY Zenon DEF ReportStarted, Spawn
<1>3. containers[loop.alloc].run \in 1 .. runs /\ runs \in Nat
  BY <1>1, Zenon DEF RunsNumbered, Listed, TasksOK
<1>4. n \in Waiters /\ n.run \in 1 .. runs /\ n.pc = "wait" /\ n.port = loop.port
  BY <1>1, <1>3 DEF Waiters
<1> HIDE DEF n
<1>5. LoopTypeOK' /\ loop'.pc = "recv"
  BY <1>2, IdleType, Zenon DEF LoopTypeOK
<1>6. TasksOK'
  BY <1>1, <1>2, <1>4, <1>5, Zenon DEF TasksOK, PoolTypeOK
<1>7. LoopInv' /\ RunsNumbered'
  BY <1>1, <1>2, <1>4, <1>5, Zenon DEF LoopInv, RunsNumbered, Listed, Exited
<1>8. PoolInv' /\ Owned' = Owned
  BY <1>2, Zenon DEF CoreInv, PoolInv, PoolTypeOK, PoolPartition, NoPortLost, Owned
<1>9. NoPortLeak'
  BY <1>2, <1>4, <1>8, Zenon DEF CoreInv, NoPortLeak, LoopHolds, WaiterHolds
<1>10. LiveTracked'
  BY <1>1, <1>2, <1>5, Zenon DEF CoreInv, LiveTracked, Listed
<1> QED BY <1>6, <1>7, <1>8, <1>9, <1>10, Zenon DEF CoreInv

-----------------------------------------------------------------------------
(* stop_container. *)

\* After stop and remove nothing runs in sight under the loop's allocation.
LEMMA StopContainerKeeps ==
  ASSUME CoreInv, StopContainer
  PROVE  CoreInv'
<1> USE DEF poolVars, recoveryVars
<1>1. TasksOK /\ LoopTypeOK /\ RunsNumbered /\ loop.pc = "stop" /\ loop.alloc \in AllocIds
  BY Zenon DEF CoreInv, TasksOK, LoopInv, StopContainer
<1>2. UNCHANGED <<available, allocated, excluded, orphans, expected, map, runs, waiters>>
  BY Zenon DEF StopContainer
<1>3. /\ OnlyEnds /\ Unseen(loop.alloc)'
      /\ lost \subseteq lost' /\ lost' \subseteq 1 .. runs
      /\ \A b \in AllocIds \ {loop.alloc} : containers'[b] = containers[b]
  <2>1. StopAndRemove(loop.alloc) /\ UNCHANGED runs
    BY Zenon DEF StopContainer
  <2>2. \A a \in AllocIds : StopAndRemove(a) =>
           /\ OnlyEnds
           /\ containers'[a] = None \/ containers'[a].state # "running" \/ containers'[a].run \in lost'
           /\ lost \subseteq lost' /\ lost' \subseteq 1 .. runs
           /\ \A b \in AllocIds \ {a} : containers'[b] = containers[b]
    BY <1>1, <2>1, StopAndRemoveEnds, Zenon DEF Unseen
  <2>3. LoopTypeOK' /\ loop'.alloc = loop.alloc
    BY <1>1, Zenon DEF StopContainer, Goto, LoopTypeOK, LoopPCs
  <2> QED BY <1>1, <2>1, <2>2, <2>3, Zenon DEF Unseen
<1>4. LoopTypeOK' /\ loop'.pc = "release" /\ loop'.alloc = loop.alloc
  BY <1>1, Zenon DEF StopContainer, Goto, LoopTypeOK, LoopPCs
<1>5. TasksOK'
  BY <1>1, <1>2, <1>3, <1>4, Zenon DEF TasksOK, PoolTypeOK, OnlyEnds
<1>6. RunsNumbered'
  BY <1>1, <1>2, <1>3, OnlyEndsKeeps, Zenon
<1>7. LoopInv'
  BY <1>1, <1>3, <1>4, Zenon DEF LoopInv
<1>8. PoolInv' /\ NoPortLeak'
  BY <1>1, <1>2 DEF CoreInv, PoolInv, PoolTypeOK, PoolPartition, NoPortLost, Owned,
                    NoPortLeak, LoopHolds, WaiterHolds
<1>9. LiveTracked'
  BY <1>1, <1>2, <1>3, <1>4, Zenon DEF CoreInv, LiveTracked, Listed, Unseen
<1> QED BY <1>5, <1>6, <1>7, <1>8, <1>9, Zenon DEF CoreInv

\* stop_container gives the port back.
LEMMA ReleasePortKeeps ==
  ASSUME CoreInv, ReleasePort
  PROVE  CoreInv'
<1> USE DEF recoveryVars, runtimeVars
<1>1. /\ TasksOK /\ LoopTypeOK /\ LoopInv /\ RunsNumbered /\ PoolInv /\ loop.pc = "release"
      /\ loop.alloc \in AllocIds /\ loop.port \in PortOrNone
  BY Zenon DEF CoreInv, TasksOK, LoopTypeOK, LoopInv, ReleasePort
<1>2. UNCHANGED <<orphans, expected, map, containers, runs, lost, waiters>>
  BY Zenon DEF ReleasePort
<1>3. PoolInv' /\ PoolTypeOK' /\ Owned' = Owned \ {loop.port}
  BY <1>1, ReleaseOptKeeps, Zenon DEF ReleasePort
<1>4. LoopTypeOK' /\ loop'.pc = "forget" /\ loop'.alloc = loop.alloc
  BY <1>1, Zenon DEF ReleasePort, Goto, LoopTypeOK, LoopPCs
<1>5. TasksOK'
  BY <1>1, <1>2, <1>3, <1>4, Zenon DEF TasksOK
<1>6. LoopInv' /\ RunsNumbered'
  BY <1>1, <1>2, <1>4, Zenon DEF LoopInv, RunsNumbered, Listed, Exited, Unseen
<1>7. NoPortLeak'
  BY <1>1, <1>2, <1>3, Zenon DEF CoreInv, NoPortLeak, LoopHolds, WaiterHolds
<1>8. LiveTracked'
  BY <1>1, <1>2, <1>4, Zenon DEF CoreInv, LiveTracked, Listed
<1> QED BY <1>3, <1>5, <1>6, <1>7, <1>8, Zenon DEF CoreInv

\* The entry of the stopped allocation goes.
LEMMA ForgetAllocKeeps ==
  ASSUME CoreInv, ForgetAlloc
  PROVE  CoreInv'
<1> USE DEF poolVars, recoveryVars, runtimeVars
<1>1. /\ TasksOK /\ LoopTypeOK /\ RunsNumbered /\ loop.pc = "forget"
      /\ loop.alloc \in AllocIds /\ Unseen(loop.alloc)
      /\ map \in [AllocIds -> [status : AllocStatuses, port : PortOrNone] \cup {None}]
  BY Zenon DEF CoreInv, TasksOK, LoopInv, ForgetAlloc
<1>2. UNCHANGED <<available, allocated, excluded, orphans, expected, containers, runs, lost,
                  waiters>>
  BY Zenon DEF ForgetAlloc
<1>3. LoopTypeOK' /\ loop'.pc = "stopped" /\ loop'.alloc = loop.alloc
  BY <1>1, Zenon DEF ForgetAlloc, Goto, LoopTypeOK, LoopPCs
<1>4. /\ map' \in [AllocIds -> [status : AllocStatuses, port : PortOrNone] \cup {None}]
      /\ \A b \in AllocIds \ {loop.alloc} : map'[b] = map[b]
  BY <1>1, Zenon DEF ForgetAlloc
<1>5. TasksOK'
  BY <1>1, <1>2, <1>3, <1>4, Zenon DEF TasksOK, PoolTypeOK
<1>6. LoopInv' /\ RunsNumbered'
  BY <1>1, <1>2, <1>3, SMTT(30) DEF LoopInv, RunsNumbered, Listed, Exited
<1>7. PoolInv' /\ NoPortLeak'
  BY <1>1, <1>2 DEF CoreInv, PoolInv, PoolTypeOK, PoolPartition, NoPortLost, Owned,
                    NoPortLeak, LoopHolds, WaiterHolds
<1>8. LiveTracked'
  BY <1>1, <1>2, <1>3, <1>4, Zenon DEF CoreInv, LiveTracked, Listed, Unseen
<1> QED BY <1>5, <1>6, <1>7, <1>8, Zenon DEF CoreInv

-----------------------------------------------------------------------------
(* Exit waiters. *)

\* A waiter moves on: the others stay, and it keeps its run, port and allocation.
LEMMA WaiterMoves ==
  ASSUME waiters \subseteq Waiters, NEW w \in waiters,
         NEW pc \in {"wait", "release", "forget", "report"}, WaiterGoto(w, pc)
  PROVE  \E v \in Waiters : /\ waiters' = (waiters \ {w}) \cup {v}
                            /\ v.run = w.run /\ v.alloc = w.alloc /\ v.port = w.port /\ v.pc = pc
<1> DEFINE v == [w EXCEPT !.pc = pc]
<1>1. v \in Waiters /\ v.run = w.run /\ v.alloc = w.alloc /\ v.port = w.port /\ v.pc = pc
  BY Zenon DEF Waiters
<1>2. waiters' = (waiters \ {w}) \cup {v}
  BY Zenon DEF WaiterGoto
<1> QED BY <1>1, <1>2, Zenon

\* The waiter sees its container exit and sets the status.
LEMMA ExitObservedKeeps ==
  ASSUME CoreInv, NEW w \in waiters, ExitObserved(w)
  PROVE  CoreInv'
<1> USE DEF poolVars, recoveryVars, runtimeVars
<1>1. /\ TasksOK /\ LoopTypeOK /\ LoopInv /\ RunsNumbered /\ waiters \subseteq Waiters
      /\ w \in Waiters /\ w.alloc \in AllocIds /\ w.pc = "wait" /\ Exited(w)
      /\ map \in [AllocIds -> [status : AllocStatuses, port : PortOrNone] \cup {None}]
  BY Zenon DEF CoreInv, TasksOK, ExitObserved, Waiters
<1>2. UNCHANGED <<available, allocated, excluded, loop, orphans, expected, containers, runs, lost>>
  BY Zenon DEF ExitObserved
<1>3. PICK v \in Waiters : /\ waiters' = (waiters \ {w}) \cup {v}
                           /\ v.run = w.run /\ v.alloc = w.alloc /\ v.port = w.port
                           /\ v.pc = "release"
  BY <1>1, WaiterMoves, Zenon DEF ExitObserved
<1>4. /\ map' \in [AllocIds -> [status : AllocStatuses, port : PortOrNone] \cup {None}]
      /\ \A b \in AllocIds : map[b] # None => map'[b] # None
  <2>1. PICK st \in Terminal :
           map' = IF map[w.alloc] = None THEN map ELSE [map EXCEPT ![w.alloc].status = st]
    BY Zenon DEF ExitObserved
  <2>2. CASE map[w.alloc] = None
    BY <1>1, <2>1, <2>2, Zenon
  <2>3. CASE map[w.alloc] # None
    <3> DEFINE e == [map[w.alloc] EXCEPT !.status = st]
    <3>1. map[w.alloc] \in [status : AllocStatuses, port : PortOrNone]
      BY <1>1, <2>3, Zenon
    <3>2. e \in [status : AllocStatuses, port : PortOrNone]
      BY <3>1, Zenon DEF Terminal, AllocStatuses
    <3>3. e # None
      BY <3>2, AgentAbsentAssumption DEF PortOrNone, Ports
    <3>4. map' = [map EXCEPT ![w.alloc] = e]
      BY <2>1, <2>3, Zenon
    <3> HIDE DEF e
    <3> QED BY <1>1, <3>2, <3>3, <3>4, Zenon
  <2> QED BY <2>2, <2>3, Zenon
<1>5. TasksOK'
  BY <1>1, <1>2, <1>3, <1>4, Zenon DEF TasksOK, LoopTypeOK, PoolTypeOK
<1>6. LoopInv'
  BY <1>1, <1>2, SMTT(30) DEF LoopInv, Unseen
<1>7. RunsNumbered'
  BY <1>1, <1>2, <1>3, Zenon DEF RunsNumbered, Listed, Exited
<1>8. PoolInv' /\ Owned' = Owned
  BY <1>2, Zenon DEF CoreInv, PoolInv, PoolTypeOK, PoolPartition, NoPortLost, Owned
<1>9. NoPortLeak'
  BY <1>1, <1>2, <1>3, <1>8 DEF CoreInv, NoPortLeak, LoopHolds, WaiterHolds
<1>10. LiveTracked'
  BY <1>2, <1>4, Zenon DEF CoreInv, LiveTracked, Listed
<1> QED BY <1>5, <1>6, <1>7, <1>8, <1>9, <1>10, Zenon DEF CoreInv

\* The waiter gives its port back.
LEMMA WaiterReleaseKeeps ==
  ASSUME CoreInv, NEW w \in waiters, WaiterRelease(w)
  PROVE  CoreInv'
<1> USE DEF recoveryVars, runtimeVars
<1>1. /\ TasksOK /\ LoopTypeOK /\ LoopInv /\ RunsNumbered /\ PoolInv /\ waiters \subseteq Waiters
      /\ w \in Waiters /\ w.alloc \in AllocIds /\ w.port \in PortOrNone /\ w.pc = "release"
  BY Zenon DEF CoreInv, TasksOK, WaiterRelease, Waiters
<1>2. UNCHANGED <<loop, orphans, expected, map, containers, runs, lost>>
  BY Zenon DEF WaiterRelease
<1>3. PICK v \in Waiters : /\ waiters' = (waiters \ {w}) \cup {v}
                           /\ v.run = w.run /\ v.alloc = w.alloc /\ v.port = w.port
                           /\ v.pc = "forget"
  BY <1>1, WaiterMoves, Zenon DEF WaiterRelease
<1>4. PoolInv' /\ PoolTypeOK' /\ Owned' = Owned \ {w.port}
  BY <1>1, ReleaseOptKeeps, Zenon DEF WaiterRelease
<1>5. TasksOK'
  BY <1>1, <1>2, <1>3, <1>4, Zenon DEF TasksOK, LoopTypeOK
<1>6. LoopInv'
  BY <1>1, <1>2, Zenon DEF LoopInv, Unseen
<1>7. RunsNumbered'
  BY <1>1, <1>2, <1>3, SMTT(30) DEF RunsNumbered, Listed, Exited
<1>8. NoPortLeak'
  BY <1>1, <1>2, <1>3, <1>4 DEF CoreInv, NoPortLeak, LoopHolds, WaiterHolds
<1>9. LiveTracked'
  BY <1>2, Zenon DEF CoreInv, LiveTracked, Listed
<1> QED BY <1>4, <1>5, <1>6, <1>7, <1>8, <1>9, Zenon DEF CoreInv

\* The waiter removes the entry: if another run is there, the node loses it.
LEMMA WaiterForgetKeeps ==
  ASSUME CoreInv, NEW w \in waiters, WaiterForget(w)
  PROVE  CoreInv'
<1> USE DEF poolVars, recoveryVars
<1>1. /\ TasksOK /\ LoopTypeOK /\ LoopInv /\ RunsNumbered /\ waiters \subseteq Waiters
      /\ w \in Waiters /\ w.alloc \in AllocIds /\ w.pc = "forget" /\ Exited(w)
      /\ map \in [AllocIds -> [status : AllocStatuses, port : PortOrNone] \cup {None}]
      /\ lost \subseteq 1 .. runs
  BY SMTT(30) DEF CoreInv, TasksOK, RunsNumbered, WaiterForget, Waiters
<1>2. UNCHANGED <<available, allocated, excluded, loop, orphans, expected, containers, runs>>
  BY Zenon DEF WaiterForget
<1>3. PICK v \in Waiters : /\ waiters' = (waiters \ {w}) \cup {v}
                           /\ v.run = w.run /\ v.alloc = w.alloc /\ v.port = w.port
                           /\ v.pc = "report"
  BY <1>1, WaiterMoves, Zenon DEF WaiterForget
<1>4. /\ map' \in [AllocIds -> [status : AllocStatuses, port : PortOrNone] \cup {None}]
      /\ \A b \in AllocIds \ {w.alloc} : map'[b] = map[b]
  BY <1>1, Zenon DEF WaiterForget
<1>5. /\ lost \subseteq lost' /\ lost' \subseteq 1 .. runs
      /\ w.alloc \in Listed /\ containers[w.alloc].run # w.run => containers[w.alloc].run \in lost'
  BY <1>1, Zenon DEF WaiterForget, RunsNumbered
<1>6. TasksOK'
  BY <1>1, <1>2, <1>3, <1>4, <1>5, Zenon DEF TasksOK, LoopTypeOK, PoolTypeOK
<1>7. LoopInv'
  BY <1>1, <1>2, <1>5, Zenon DEF LoopInv, Unseen
<1>8. RunsNumbered'
  BY <1>1, <1>2, <1>3, Zenon DEF RunsNumbered, Listed, Exited
<1>9. PoolInv' /\ Owned' = Owned
  BY <1>2, Zenon DEF CoreInv, PoolInv, PoolTypeOK, PoolPartition, NoPortLost, Owned
<1>10. NoPortLeak'
  BY <1>1, <1>2, <1>3, <1>9, Zenon DEF CoreInv, NoPortLeak, LoopHolds, WaiterHolds
<1>11. LiveTracked'
  BY <1>1, <1>2, <1>4, <1>5, Zenon DEF CoreInv, LiveTracked, Listed, Exited
<1> QED BY <1>6, <1>7, <1>8, <1>9, <1>10, <1>11, Zenon DEF CoreInv

\* The waiter reports and ends.
LEMMA WaiterReportKeeps ==
  ASSUME CoreInv, NEW w \in waiters, WaiterReport(w)
  PROVE  CoreInv'
<1> USE DEF poolVars, recoveryVars, runtimeVars
<1>1. TasksOK /\ LoopInv /\ RunsNumbered /\ w.pc = "report"
  BY Zenon DEF CoreInv, WaiterReport
<1>2. /\ UNCHANGED <<available, allocated, excluded, loop, orphans, expected, map, containers,
                     runs, lost>>
      /\ waiters' = waiters \ {w}
  BY Zenon DEF WaiterReport
<1>3. TasksOK' /\ LoopInv' /\ RunsNumbered'
  BY <1>1, <1>2, Zenon DEF TasksOK, LoopTypeOK, PoolTypeOK, LoopInv, Unseen, RunsNumbered, Listed, Exited
<1>4. PoolInv' /\ Owned' = Owned
  BY <1>2, Zenon DEF CoreInv, PoolInv, PoolTypeOK, PoolPartition, NoPortLost, Owned
<1>5. NoPortLeak'
  BY <1>1, <1>2, <1>4, Zenon DEF CoreInv, NoPortLeak, LoopHolds, WaiterHolds
<1>6. LiveTracked'
  BY <1>2, Zenon DEF CoreInv, LiveTracked, Listed
<1> QED BY <1>3, <1>4, <1>5, <1>6, Zenon DEF CoreInv

-----------------------------------------------------------------------------
(* Restart and reconcile. *)

\* The daemon restarts: no port is owned, and every container that is there is
\* either on one of reconcile's lists or out of sight.
LEMMA RestartKeeps ==
  ASSUME CoreInv, NEW exp \in SUBSET AllocIds, NEW inUse \in SUBSET Ports, Restart(exp, inUse)
  PROVE  CoreInv'
<1>1. TasksOK /\ RunsNumbered /\ PoolInv /\ lost \subseteq 1 .. runs
  BY Zenon DEF CoreInv, TasksOK
<1>2. UNCHANGED <<containers, runs>> /\ waiters' = {} /\ map' = [a \in AllocIds |-> None]
  BY Zenon DEF Restart
<1>3. PoolInv' /\ PoolTypeOK' /\ Owned' = {}
  <2>1. Rebuild(inUse)
    BY Zenon DEF Restart
  <2>2. PoolInv'
    BY <1>1, <2>1, PoolNextKeeps, Zenon DEF PoolNext
  <2>3. Owned' = {}
    BY <2>1, SMTT(30) DEF Rebuild, Owned
  <2> QED BY <2>2, <2>3, Zenon DEF PoolInv
<1>4. /\ LoopTypeOK' /\ loop'.pc \in {"recv", "reconcile"}
      /\ orphans' \subseteq AllocIds /\ expected' \subseteq AllocIds
      /\ lost \subseteq lost' /\ lost' \subseteq 1 .. runs
      /\ loop'.pc = "reconcile" => Listed \subseteq orphans' \cup expected'
      /\ loop'.pc = "recv" => \A a \in Listed : containers[a].run \in lost'
  <2>1. CASE /\ loop' = [pc |-> "reconcile", alloc |-> None, port |-> None]
             /\ orphans' = Listed \ exp /\ expected' = exp /\ UNCHANGED lost
    BY <1>1, <2>1, Zenon DEF LoopTypeOK, LoopPCs, PortOrNone, Listed
  <2>2. CASE /\ loop' = Idle /\ orphans' = {} /\ expected' = {}
             /\ lost' = lost \cup {containers[a].run : a \in Listed}
    BY <1>1, <2>2, IdleType, ZenonT(30) DEF LoopTypeOK, RunsNumbered
  <2> QED BY <2>1, <2>2, Zenon DEF Restart
<1>5. TasksOK'
  BY <1>1, <1>2, <1>3, <1>4, Zenon DEF TasksOK
<1>6. LoopInv' /\ RunsNumbered'
  BY <1>1, <1>2, <1>4, Zenon DEF LoopInv, RunsNumbered, Listed
<1>7. NoPortLeak'
  BY <1>3, Zenon DEF NoPortLeak
<1>8. LiveTracked'
  BY <1>2, <1>4, Zenon DEF LiveTracked, Listed
<1> QED BY <1>3, <1>5, <1>6, <1>7, <1>8, Zenon DEF CoreInv

\* Reconcile stops a container nobody expects.
LEMMA StopOrphanKeeps ==
  ASSUME CoreInv, NEW a \in AllocIds, StopOrphan(a)
  PROVE  CoreInv'
<1> USE DEF poolVars
<1>1. TasksOK /\ RunsNumbered /\ loop.pc = "reconcile"
  BY Zenon DEF CoreInv, StopOrphan
<1>2. /\ UNCHANGED <<available, allocated, excluded, loop, expected, map, runs, waiters>>
      /\ orphans' = orphans \ {a}
  BY Zenon DEF StopOrphan
<1>3. /\ OnlyEnds /\ Unseen(a)'
      /\ lost \subseteq lost' /\ lost' \subseteq 1 .. runs
      /\ \A b \in AllocIds \ {a} : containers'[b] = containers[b]
  BY <1>1, <1>2, StopAndRemoveEnds, SMTT(30) DEF StopOrphan
<1>4. TasksOK'
  BY <1>1, <1>2, <1>3, Zenon DEF TasksOK, LoopTypeOK, PoolTypeOK, OnlyEnds
<1>5. RunsNumbered'
  BY <1>1, <1>2, <1>3, OnlyEndsKeeps, Zenon
<1>6. LoopInv'
  BY <1>1, <1>2, Zenon DEF LoopInv
<1>7. PoolInv' /\ NoPortLeak'
  BY <1>2 DEF CoreInv, PoolInv, PoolTypeOK, PoolPartition, NoPortLost, Owned,
              NoPortLeak, LoopHolds, WaiterHolds
<1>8. LiveTracked'
  BY <1>1, <1>2, <1>3, ZenonT(30) DEF CoreInv, LiveTracked, Listed, Unseen
<1> QED BY <1>4, <1>5, <1>6, <1>7, <1>8, Zenon DEF CoreInv

\* Reconcile takes an expected container over, or gives it up.
LEMMA RehydrateKeeps ==
  ASSUME CoreInv, NEW a \in AllocIds, Rehydrate(a)
  PROVE  CoreInv'
<1>1. /\ TasksOK /\ LoopTypeOK /\ LoopInv /\ RunsNumbered /\ PoolInv /\ loop.pc = "reconcile"
      /\ orphans = {} /\ runs \in Nat /\ lost \subseteq 1 .. runs
      /\ map \in [AllocIds -> [status : AllocStatuses, port : PortOrNone] \cup {None}]
      /\ containers \in [AllocIds -> Containers \cup {None}]
  BY ZenonT(30) DEF CoreInv, TasksOK, Rehydrate
<1>2. UNCHANGED <<orphans, containers, runs>> /\ expected' = expected \ {a}
  BY Zenon DEF Rehydrate
<1>3. ASSUME UNCHANGED <<poolVars, loop, map, waiters>>, lost \subseteq lost', lost' \subseteq 1 .. runs,
             containers[a] = None \/ containers[a].run \in lost'
      PROVE  CoreInv'
  <2> USE DEF poolVars
  <2>1. TasksOK'
    BY <1>1, <1>2, <1>3, ZenonT(30) DEF TasksOK, LoopTypeOK, PoolTypeOK
  <2>2. LoopInv' /\ RunsNumbered'
    BY <1>1, <1>2, <1>3, ZenonT(30) DEF LoopInv, RunsNumbered, Listed, Exited
  <2>3. PoolInv' /\ NoPortLeak'
    BY <1>3, SMTT(30) DEF CoreInv, PoolInv, PoolTypeOK, PoolPartition, NoPortLost, Owned,
                NoPortLeak, LoopHolds, WaiterHolds
  <2>4. LiveTracked'
    BY <1>1, <1>2, <1>3, ZenonT(30) DEF CoreInv, LiveTracked, Listed
  <2> QED BY <2>1, <2>2, <2>3, <2>4, SMTT(30) DEF CoreInv
<1>4. CASE containers[a] = None /\ UNCHANGED <<poolVars, loop, map, lost, waiters>>
  BY <1>1, <1>3, <1>4, Zenon
<1>5. CASE /\ containers[a] # None /\ lost' = lost \cup {containers[a].run}
           /\ UNCHANGED <<poolVars, loop, map, waiters, reports>>
  <2>1. containers[a].run \in 1 .. runs
    BY <1>1, <1>5, Zenon DEF RunsNumbered, Listed
  <2> QED BY <1>1, <1>3, <1>5, <2>1, Zenon
<1>6. CASE /\ containers[a] # None
           /\ LET p == containers[a].port IN
              /\ IF p = None THEN UNCHANGED poolVars ELSE AllocateSpecific(a, p)
              /\ Insert(a, p)
              /\ Spawn(a, p)
              /\ loop' = [pc |-> "rehydrated", alloc |-> a, port |-> p]
           /\ UNCHANGED <<lost, reports>>
  <2> DEFINE p == containers[a].port
             n == [run |-> containers[a].run, alloc |-> a, port |-> p, pc |-> "wait"]
  <2>1. p \in PortOrNone /\ containers[a].run \in 1 .. runs
    BY <1>1, <1>6, Zenon DEF Containers, RunsNumbered, Listed
  <2>2. n \in Waiters /\ n.run \in 1 .. runs /\ n.port = p /\ n.pc = "wait"
    BY <1>1, <2>1 DEF Waiters
  <2>3. waiters' = waiters \cup {n} /\ lost' = lost
    BY <1>6, Zenon DEF Spawn
  <2>4. /\ map' \in [AllocIds -> [status : AllocStatuses, port : PortOrNone] \cup {None}]
        /\ map'[a] # None
        /\ \A b \in AllocIds : map[b] # None => map'[b] # None
    BY <1>1, <1>6, <2>1, InsertMaps, SMTT(30)
  <2>5. LoopTypeOK' /\ loop'.pc = "rehydrated" /\ loop'.alloc = a
    BY <1>6, <2>1, Zenon DEF LoopTypeOK, LoopPCs
  <2>6. PoolInv' /\ PoolTypeOK' /\ Owned' \subseteq Owned \cup {p}
    <3>1. CASE UNCHANGED poolVars
      BY <1>1, <3>1, Zenon DEF poolVars, PoolInv, PoolTypeOK, PoolPartition, NoPortLost, Owned
    <3>2. CASE p # None /\ p \in Ports \ Owned /\ Take(a, p)
      BY <1>1, <3>2, TakeOwns, SMTT(30)
    <3> QED BY <1>6, <3>1, <3>2, <2>1, Zenon DEF AllocateSpecific, PortOrNone
  <2> HIDE DEF p, n
  <2>7. TasksOK'
    BY <1>1, <1>2, <2>2, <2>3, <2>4, <2>5, <2>6, Zenon DEF TasksOK
  <2>8. LoopInv'
    BY <2>5, Zenon DEF LoopInv
  <2>9. RunsNumbered'
    BY <1>1, <1>2, <2>2, <2>3, SMTT(30) DEF RunsNumbered, Listed, Exited
  <2>10. NoPortLeak'
    BY <1>1, <2>2, <2>3, <2>6, SMTT(30) DEF CoreInv, NoPortLeak, LoopHolds, WaiterHolds
  <2>11. LiveTracked'
    BY <1>1, <1>2, <2>3, <2>4, <2>5, Zenon DEF CoreInv, LiveTracked, Listed
  <2> QED BY <2>6, <2>7, <2>8, <2>9, <2>10, <2>11, Zenon DEF CoreInv
<1> QED BY <1>4, <1>5, <1>6, Zenon DEF Rehydrate

-----------------------------------------------------------------------------
(* The channels. *)

\* Commands and reports stay what they are, and the report channel within its
\* capacity: every sender waits for room.
LEMMA ChannelsKeep ==
  ASSUME ChannelsOK, CoreInv, AgentNext
  PROVE  ChannelsOK'
<1> USE DEF countVars
<1>1. /\ cmds \in Seq(Commands) /\ reports \in Seq(Reports) /\ Len(reports) <= ReportCap
      /\ sent \in 0 .. MaxCmds /\ beats \in 0 .. MaxBeats /\ restarts \in 0 .. MaxRestarts
  BY Zenon DEF ChannelsOK
<1>2. LoopTypeOK /\ LoopInv /\ waiters \subseteq Waiters
      /\ map \in [AllocIds -> [status : AllocStatuses, port : PortOrNone] \cup {None}]
  BY Zenon DEF CoreInv, TasksOK
<1>3. /\ loop.pc \notin {"recv", "reconcile"} => loop.alloc \in AllocIds
      /\ loop.port \in PortOrNone /\ \A w \in waiters : w.alloc \in AllocIds
  BY <1>2, Zenon DEF LoopInv, LoopTypeOK, Waiters
<1>4. ASSUME UNCHANGED <<cmds, beat, countVars>>, NEW r \in Reports, Report(r) PROVE ChannelsOK'
  BY <1>1, <1>4, ReportKeeps, Zenon DEF ChannelsOK
<1>5. CASE UNCHANGED <<cmds, reports, beat, countVars>>
  BY <1>5, Zenon DEF ChannelsOK
<1>6. ASSUME NEW c \in Commands, SendCommand(c) PROVE ChannelsOK'
  <2>1. cmds' \in Seq(Commands)
    BY <1>1, <1>6 DEF SendCommand
  <2>2. sent' \in 0 .. MaxCmds
    BY <1>1, <1>6 DEF SendCommand
  <2> QED BY <1>6, <2>1, <2>2, Zenon DEF SendCommand, ChannelsOK
<1>7. CASE TakeReport
  BY <1>1, <1>7 DEF TakeReport, ChannelsOK
<1>8. ASSUME NEW a \in AllocIds, RecvRun(a) PROVE ChannelsOK'
  <2>1. cmds' \in Seq(Commands) /\ UNCHANGED <<beat, countVars>>
    BY <1>1, <1>8, SMTT(30) DEF RecvRun
  <2>2. reports' \in Seq(Reports) /\ Len(reports') <= ReportCap
    BY <1>1, <1>8, ReportTypes, ReportKeeps, Zenon DEF RecvRun
  <2> QED BY <2>1, <2>2, Zenon DEF ChannelsOK
<1>9. ASSUME NEW a \in AllocIds, RecvStop(a) PROVE ChannelsOK'
  <2>1. cmds' \in Seq(Commands) /\ UNCHANGED <<reports, beat, countVars>>
    BY <1>1, <1>9, SMTT(30) DEF RecvStop
  <2> QED BY <2>1, SMTT(30) DEF ChannelsOK
<1>10. CASE PullImage
  BY <1>3, <1>4, <1>10, ReportTypes, Zenon DEF PullImage
<1>11. CASE ReportFailed \/ ReportStopped \/ ReportStarted \/ ReportRehydrated
  BY <1>3, <1>4, <1>11, ReportTypes, Zenon DEF ReportFailed, ReportStopped, ReportStarted, ReportRehydrated
<1>12. CASE \/ AllocatePort \/ StartContainer \/ InsertAlloc \/ StopContainer \/ ReleasePort
            \/ ForgetAlloc \/ EndReconcile
  BY <1>5, <1>12, Zenon DEF AllocatePort, StartContainer, InsertAlloc, StopContainer, ReleasePort,
                     ForgetAlloc, EndReconcile
<1>13. ASSUME NEW a \in AllocIds, StopOrphan(a) \/ Exit(a) PROVE ChannelsOK'
  BY <1>5, <1>13, SMTT(30) DEF StopOrphan, Exit
<1>14. ASSUME NEW a \in AllocIds, Rehydrate(a) PROVE ChannelsOK'
  BY <1>4, <1>5, <1>14, ReportTypes, Zenon DEF Rehydrate
<1>15. ASSUME NEW w \in waiters, WaiterStep(w) PROVE ChannelsOK'
  BY <1>3, <1>4, <1>5, <1>15, ReportTypes, Zenon
     DEF WaiterStep, ExitObserved, WaiterRelease, WaiterForget, WaiterReport
<1>16. CASE ReadStatuses
  <2> DEFINE A == {x \in AllocIds : map[x] # None}
  <2>1. beat' = [a \in A |-> map[a].status] /\ UNCHANGED <<cmds, reports, sent, restarts>>
    BY <1>16, Zenon DEF ReadStatuses
  <2>2. \A a \in A : map[a].status \in AllocStatuses
    BY <1>2, SMTT(30)
  <2>3. A \in SUBSET AllocIds /\ beat' \in [A -> AllocStatuses]
    BY <2>1, <2>2, Zenon
  <2>4. beats' \in 0 .. MaxBeats
    <3>1. beats < MaxBeats /\ beats' = beats + 1
      BY <1>16, Zenon DEF ReadStatuses
    <3> QED BY <1>1, <3>1
  <2> HIDE DEF A
  <2>5. beat' \in StatusMaps
    BY <2>3, Zenon DEF StatusMaps
  <2> QED BY <1>1, <2>1, <2>4, <2>5, SMTT(30) DEF ChannelsOK
<1>17. CASE SendHeartbeat
  <2>1. [type |-> "Heartbeat", statuses |-> beat] \in Reports
    BY <1>17, Zenon DEF SendHeartbeat, ChannelsOK, Reports
  <2>2. reports' \in Seq(Reports) /\ Len(reports') <= ReportCap
    BY <1>1, <1>17, <2>1, ReportKeeps, Zenon DEF SendHeartbeat
  <2> QED BY <1>1, <1>17, <2>2, Zenon DEF SendHeartbeat, ChannelsOK
<1>18. ASSUME NEW exp \in SUBSET AllocIds, NEW inUse \in SUBSET Ports, Restart(exp, inUse)
       PROVE  ChannelsOK'
  <2>1. cmds' = <<>> /\ reports' = <<>> /\ beat' = None /\ UNCHANGED <<sent, beats>>
    BY <1>18, Zenon DEF Restart
  <2>2. restarts' \in 0 .. MaxRestarts
    BY <1>1, <1>18 DEF Restart
  <2> QED BY <1>1, <2>1, <2>2 DEF ChannelsOK
<1> QED BY <1>6, <1>7, <1>8, <1>9, <1>10, <1>11, <1>12, <1>13, <1>14, <1>15, <1>16, <1>17, <1>18, Zenon
        DEF AgentNext, AgentStep, CommandLoop, Heartbeats

\* Everything but the channels, by action.
LEMMA CoreKeeps ==
  ASSUME CoreInv, AgentNext
  PROVE  CoreInv'
<1>1. ASSUME NEW c \in Commands, SendCommand(c) PROVE CoreInv'
  BY <1>1, CoreFrame, SMTT(30) DEF SendCommand, coreVars
<1>2. CASE TakeReport \/ Heartbeats
  BY <1>2, CoreFrame, Zenon DEF TakeReport, Heartbeats, ReadStatuses, SendHeartbeat, coreVars
<1>3. CASE CommandLoop
  BY <1>3, QuietLoopKeeps, AllocatePortKeeps, StartContainerKeeps, InsertAllocKeeps,
     ReportStartedKeeps, StopContainerKeeps, ReleasePortKeeps, ForgetAllocKeeps,
     StopOrphanKeeps, RehydrateKeeps, Zenon DEF CommandLoop
<1>4. ASSUME NEW w \in waiters, WaiterStep(w) PROVE CoreInv'
  BY <1>4, ExitObservedKeeps, WaiterReleaseKeeps, WaiterForgetKeeps, WaiterReportKeeps, Zenon
     DEF WaiterStep
<1>5. ASSUME NEW a \in AllocIds, Exit(a) PROVE CoreInv'
  BY <1>5, ExitKeeps, Zenon
<1>6. ASSUME NEW exp \in SUBSET AllocIds, NEW inUse \in SUBSET Ports, Restart(exp, inUse)
      PROVE  CoreInv'
  BY <1>6, RestartKeeps, SMTT(30)
<1> QED BY <1>1, <1>2, <1>3, <1>4, <1>5, <1>6, Zenon DEF AgentNext, AgentStep

\* A new node satisfies the invariant.
LEMMA AgentInitEstablishes == AgentInit => AgentInv
<1> SUFFICES ASSUME AgentInit PROVE ChannelsOK /\ CoreInv
  BY InvParts, Zenon
<1> USE DEF AgentInit, AgentStarts
<1>1. ChannelsOK
  BY DEF ChannelsOK
<1>2. PoolInv
  BY PoolInitEstablishes, Zenon
<1>3. Owned = {}
  BY Zenon DEF PoolInit, Owned
<1>4. LoopTypeOK /\ loop.pc = "recv"
  BY IdleType, Zenon DEF LoopTypeOK
<1>5. Listed = {}
  BY Zenon DEF Listed
<1>6. TasksOK
  BY <1>2, <1>4, Zenon DEF TasksOK, PoolInv
<1> QED BY <1>1, <1>2, <1>3, <1>4, <1>5, <1>6, Zenon
        DEF CoreInv, LoopInv, RunsNumbered, NoPortLeak, LiveTracked

-----------------------------------------------------------------------------
\* The invariant of the secondary holds in every behaviour.
THEOREM AgentInvHolds == AgentSpec => []AgentInv
<1>1. AgentInit => AgentInv
  BY AgentInitEstablishes, Zenon
<1>2. AgentInv /\ [AgentNext]_agentVars => AgentInv'
  <2> SUFFICES ASSUME ChannelsOK, CoreInv, [AgentNext]_agentVars PROVE ChannelsOK' /\ CoreInv'
    BY InvParts, PTL
  <2>1. CASE AgentNext
    BY <2>1, ChannelsKeep, CoreKeeps, Zenon
  <2>2. CASE UNCHANGED agentVars
    <3>1. UNCHANGED coreVars /\ UNCHANGED <<cmds, reports, beat, countVars>>
      BY <2>2, Zenon DEF agentVars, taskVars, coreVars
    <3> QED BY <3>1, CoreFrame, Zenon DEF ChannelsOK, countVars
  <2> QED BY <2>1, <2>2, Zenon
<1> QED BY <1>1, <1>2, PTL DEF AgentSpec

\* Every owned port has somebody who will release it, for any number of
\* allocations, ports, commands and restarts (runner.rs:66-95, 134-157, 188-205).
THEOREM PortsAreReleased == AgentSpec => []NoPortLeak
<1>1. AgentInv => NoPortLeak
  BY Zenon DEF AgentInv
<1> QED BY <1>1, AgentInvHolds, PTL

\* A running container is in sight, or was lost in one of the four ways the code
\* has (runner.rs:102-110, 134-157, 188-205; reconcile.rs:33-112).
THEOREM LiveContainersTracked == AgentSpec => []LiveTracked
<1>1. AgentInv => LiveTracked
  BY Zenon DEF AgentInv
<1> QED BY <1>1, AgentInvHolds, PTL

\* Whatever the tasks of the node do to the pool is a call of the pool.
LEMMA AgentStepIsPoolStep == AgentInv /\ [AgentNext]_agentVars => [PoolNext]_poolVars
<1> SUFFICES ASSUME CoreInv, [AgentNext]_agentVars PROVE [PoolNext]_poolVars
  BY InvParts, Zenon
<1>1. /\ LoopInv /\ loop.port \in PortOrNone /\ \A w \in waiters : w.port \in PortOrNone
      /\ \A a \in AllocIds : containers[a] # None => containers[a].port \in PortOrNone
  BY Zenon DEF CoreInv, TasksOK, LoopTypeOK, Waiters, Containers
<1>2. ASSUME NEW p \in PortOrNone, ReleaseOpt(p) PROVE [PoolNext]_poolVars
  BY <1>2, SMTT(30) DEF ReleaseOpt, PortOrNone, PoolNext
<1>3. CASE AllocatePort
  BY <1>1, <1>3, Zenon DEF AllocatePort, LoopInv, PoolNext
<1>4. CASE StartContainer
  BY <1>1, <1>2, <1>4, SMTT(30) DEF StartContainer, StartFails
<1>5. CASE ReleasePort
  BY <1>1, <1>2, <1>5, SMTT(30) DEF ReleasePort
<1>6. ASSUME NEW a \in AllocIds, Rehydrate(a) PROVE [PoolNext]_poolVars
  <2>1. CASE UNCHANGED poolVars
    BY <2>1, Zenon
  <2>2. CASE containers[a].port \in Ports /\ AllocateSpecific(a, containers[a].port)
    BY <2>2, Zenon DEF PoolNext
  <2> QED BY <1>1, <1>6, <2>1, <2>2, Zenon DEF Rehydrate, PortOrNone
<1>7. CASE \/ \E a \in AllocIds : RecvRun(a) \/ RecvStop(a) \/ StopOrphan(a) \/ Exit(a)
           \/ PullImage \/ ReportFailed \/ InsertAlloc \/ ReportStarted \/ StopContainer
           \/ ForgetAlloc \/ ReportStopped \/ ReportRehydrated \/ EndReconcile
           \/ Heartbeats \/ TakeReport \/ \E c \in Commands : SendCommand(c)
  BY <1>7, Zenon DEF RecvRun, RecvStop, StopOrphan, Exit, PullImage, ReportFailed, InsertAlloc,
              ReportStarted, StopContainer, ForgetAlloc, ReportStopped, ReportRehydrated,
              EndReconcile, Heartbeats, ReadStatuses, SendHeartbeat, TakeReport, SendCommand
<1>8. ASSUME NEW w \in waiters, WaiterStep(w) PROVE [PoolNext]_poolVars
  BY <1>1, <1>2, <1>8, SMTT(30) DEF WaiterStep, ExitObserved, WaiterRelease, WaiterForget, WaiterReport
<1>9. ASSUME NEW exp \in SUBSET AllocIds, NEW inUse \in SUBSET Ports, Restart(exp, inUse)
      PROVE  [PoolNext]_poolVars
  BY <1>9, Zenon DEF Restart, PoolNext
<1>10. CASE UNCHANGED agentVars
  BY <1>10, Zenon DEF agentVars
<1> QED BY <1>3, <1>4, <1>5, <1>6, <1>7, <1>8, <1>9, <1>10, Zenon
        DEF AgentNext, AgentStep, CommandLoop

\* The secondary uses the pool through its methods only: seen from the pool, it
\* is a sequence of allocate, allocate_specific, release and with_range, so what
\* is proved of the pool alone holds in the node (ports.rs:30-110).
THEOREM AgentImplementsPool == AgentSpec => PoolSpec
<1>1. AgentInit => PoolInit
  BY Zenon DEF AgentInit, AgentStarts
<1> QED BY <1>1, AgentStepIsPoolStep, AgentInvHolds, PTL DEF AgentSpec, PoolSpec

-----------------------------------------------------------------------------
(* The watchdog's bookkeeping of WireGuard peers. Only the nodes of the FSM *)
(* matter here: each command is reduced to what it does to them.            *)

USE AbsentAssumption

-----------------------------------------------------------------------------
(* What the commands do to the nodes. *)

\* A value with the fields of the FSM and a map of nodes.
HasNodes(s) == DOMAIN s = DOMAIN EmptyFsm /\ s.nodes \in [RaftIds -> Node \cup {None}]

\* The fields of the FSM.
LEMMA Fields ==
  ASSUME NEW s, HasNodes(s)
  PROVE  "nodes" \in DOMAIN s /\ "allocs" \in DOMAIN s
BY Zenon DEF HasNodes, EmptyFsm

\* Commands on allocations leave the nodes alone.
LEMMA AllocCommandsKeepNodes ==
  ASSUME NEW s, HasNodes(s), NEW a
  PROVE  /\ \A st : HasNodes(SetAllocStatus(s, a, st)) /\ SetAllocStatus(s, a, st).nodes = s.nodes
         /\ \A i, n, k : /\ HasNodes(AllocScheduled(s, a, i, n, k))
                         /\ AllocScheduled(s, a, i, n, k).nodes = s.nodes
         /\ \A addr : HasNodes(AllocRunning(s, a, addr)) /\ AllocRunning(s, a, addr).nodes = s.nodes
<1>1. ASSUME NEW al PROVE HasNodes([s EXCEPT !.allocs = al]) /\ [s EXCEPT !.allocs = al].nodes = s.nodes
  BY Fields, Zenon DEF HasNodes
<1>2. ASSUME NEW st
      PROVE  HasNodes(SetAllocStatus(s, a, st)) /\ SetAllocStatus(s, a, st).nodes = s.nodes
  <2>1. SetAllocStatus(s, a, st) = s
        \/ SetAllocStatus(s, a, st) = [s EXCEPT !.allocs = [s.allocs EXCEPT ![a].status = st]]
    BY Zenon DEF SetAllocStatus
  <2> QED BY <1>1, <2>1, Zenon
<1>3. ASSUME NEW i, NEW n, NEW k
      PROVE  HasNodes(AllocScheduled(s, a, i, n, k)) /\ AllocScheduled(s, a, i, n, k).nodes = s.nodes
  <2>1. AllocScheduled(s, a, i, n, k) = s
        \/ \E x : AllocScheduled(s, a, i, n, k) = [s EXCEPT !.allocs = [s.allocs EXCEPT ![a] = x]]
    BY Zenon DEF AllocScheduled
  <2> QED BY <1>1, <2>1, Zenon
<1>4. ASSUME NEW addr
      PROVE  HasNodes(AllocRunning(s, a, addr)) /\ AllocRunning(s, a, addr).nodes = s.nodes
  <2>1. AllocRunning(s, a, addr) = s
        \/ \E x : AllocRunning(s, a, addr) = [s EXCEPT !.allocs = [s.allocs EXCEPT ![a] = x]]
    BY Zenon DEF AllocRunning
  <2> QED BY <1>1, <2>1, Zenon
<1> QED BY <1>2, <1>3, <1>4, Zenon

\* A command that sets the status of one node.
OneNode(s, t, i, st) ==
    /\ HasNodes(t) /\ NodesIn(t) = NodesIn(s)
    /\ \A j \in RaftIds \ {i} : t.nodes[j] = s.nodes[j]
    /\ i \in NodesIn(s) => t.nodes[i].status = st

\* NodeDown and NodeDrain.
LEMMA SetStatusOneNode ==
  ASSUME NEW s, HasNodes(s), NEW i \in RaftIds, NEW st \in NodeStatuses
  PROVE  OneNode(s, SetNodeStatus(s, i, st), i, st)
<1>1. CASE s.nodes[i] = None
  BY <1>1, Zenon DEF SetNodeStatus, OneNode, NodesIn
<1>2. CASE s.nodes[i] # None
  <2> DEFINE nn == [s.nodes EXCEPT ![i].status = st]
  <2>1. SetNodeStatus(s, i, st) = [s EXCEPT !.nodes = nn]
    BY <1>2, Zenon DEF SetNodeStatus
  <2>2. s.nodes[i] \in Node
    BY <1>2, Zenon DEF HasNodes
  <2>3. /\ nn \in [RaftIds -> Node \cup {None}] /\ nn[i].status = st /\ nn[i] # None
        /\ \A j \in RaftIds \ {i} : nn[j] = s.nodes[j]
    BY <2>2, Zenon DEF HasNodes, Node
  <2> HIDE DEF nn
  <2>4. HasNodes([s EXCEPT !.nodes = nn]) /\ [s EXCEPT !.nodes = nn].nodes = nn
    BY <2>3, Fields, Zenon DEF HasNodes
  <2> QED BY <1>2, <2>1, <2>3, <2>4 DEF OneNode, NodesIn
<1> QED BY <1>1, <1>2, Zenon

\* A heartbeat brings a node that is Down back.
LEMMA HeartbeatOneNode ==
  ASSUME NEW s, HasNodes(s), NEW i \in RaftIds, NEW st
  PROVE  OneNode(s, NodeHeartbeat(s, i, st), i,
                 IF s.nodes[i].status = "Down" THEN "Ready" ELSE s.nodes[i].status)
<1>1. CASE s.nodes[i] = None
  BY <1>1, Zenon DEF NodeHeartbeat, OneNode, NodesIn
<1>2. CASE s.nodes[i] # None
  <2> DEFINE up == IF s.nodes[i].status = "Down" THEN "Ready" ELSE s.nodes[i].status
             nn == [s.nodes EXCEPT ![i].status = IF @ = "Down" THEN "Ready" ELSE @]
  <2>1. PICK al : NodeHeartbeat(s, i, st) = [s EXCEPT !.nodes = nn, !.allocs = al]
    BY <1>2, Zenon DEF NodeHeartbeat
  <2>2. s.nodes[i] \in Node
    BY <1>2, Zenon DEF HasNodes
  <2>3. /\ nn \in [RaftIds -> Node \cup {None}] /\ nn[i].status = up /\ nn[i] # None
        /\ \A j \in RaftIds \ {i} : nn[j] = s.nodes[j]
    BY <2>2, Zenon DEF HasNodes, Node, NodeStatuses
  <2> HIDE DEF nn
  <2>4. /\ HasNodes([s EXCEPT !.nodes = nn, !.allocs = al])
        /\ [s EXCEPT !.nodes = nn, !.allocs = al].nodes = nn
    BY <2>3, Fields, Zenon DEF HasNodes
  <2> QED BY <1>2, <2>1, <2>3, <2>4 DEF OneNode, NodesIn
<1> QED BY <1>1, <1>2, Zenon

-----------------------------------------------------------------------------
(* The steps. *)

\* A step that leaves nodes, peers and prev_statuses alone, and neither begins to
\* remove a peer nor goes on to the snapshot.
LEMMA PeersUntouched ==
  ASSUME PeerInv, HasNodes(fsm'), fsm'.nodes = fsm.nodes, UNCHANGED <<peers, prev, missed>>,
         wd' = wd \/ (/\ wd' = [pc |-> wd'.pc, todo |-> wd'.todo, node |-> wd'.node, marks |-> wd'.marks]
                      /\ wd'.pc \notin {"mark", "snapshot"}
                      /\ wd'.todo \subseteq NodesIn(fsm))
  PROVE  PeerInv'
<1>1. NodesIn(fsm)' = NodesIn(fsm) /\ \A i : StatusOf(i)' = StatusOf(i)
  BY Zenon DEF NodesIn, StatusOf
<1>2. ReadyIsPeerUnlessMissed'
  BY <1>1, Zenon DEF PeerInv, ReadyIsPeerUnlessMissed
<1>3. CASE wd' = wd
  BY <1>1, <1>2, <1>3, Zenon DEF PeerInv, HasNodes
<1>4. CASE wd' # wd
  BY <1>1, <1>2, <1>4, Zenon DEF PeerInv, HasNodes
<1> QED BY <1>3, <1>4, Zenon

\* Everything but the steps below is of that kind: commands on allocations, and
\* what does not write to the FSM.
LEMMA OthersKeep ==
  ASSUME PeerInv,
         \/ Tick \/ EndMarking \/ CheckService \/ BackoffDue
         \/ \E a \in AllocIds : MarkFailed(a) \/ TaskStep(a)
         \/ \E i \in RaftIds : SendBeat(i) \/ GoLate(i) \/ Die(i)
         \/ \E i \in RaftIds, a \in AllocIds : ExitContainer(i, a)
         \/ UNCHANGED watchdogVars
  PROVE  PeerInv'
<1>1. HasNodes(fsm)
  BY Zenon DEF PeerInv, HasNodes
<1>2. CASE \E a \in AllocIds : TaskStep(a)
  <2>1. PICK a \in AllocIds : TaskStep(a)
    BY <1>2, Zenon
  <2>2. UNCHANGED <<peers, prev, missed, wd>>
    BY <2>1, Zenon DEF TaskStep, TaskSchedule, TaskRun, TaskHealthy, TaskFails, tickVars, historyVars
  <2>3. HasNodes(fsm') /\ fsm'.nodes = fsm.nodes
    BY <1>1, <2>1, AllocCommandsKeepNodes DEF TaskStep, TaskSchedule, TaskRun, TaskHealthy, TaskFails
  <2> QED BY <2>2, <2>3, PeersUntouched, Zenon
<1>3. CASE \E i \in RaftIds, a \in AllocIds : ExitContainer(i, a)
  <2>1. UNCHANGED <<peers, prev, missed, wd>>
    BY <1>3, Zenon DEF ExitContainer, tickVars, historyVars
  <2>2. HasNodes(fsm') /\ fsm'.nodes = fsm.nodes
    BY <1>1, <1>3, AllocCommandsKeepNodes DEF ExitContainer
  <2> QED BY <2>1, <2>2, PeersUntouched, Zenon
<1>4. CASE BackoffDue \/ (\E i \in RaftIds : SendBeat(i) \/ GoLate(i) \/ Die(i)) \/ UNCHANGED watchdogVars
  <2>1. UNCHANGED <<fsm, peers, prev, missed, wd>>
    BY <1>4, Zenon DEF BackoffDue, SendBeat, GoLate, Die, watchdogVars, tickVars, historyVars
  <2> QED BY <1>1, <2>1, PeersUntouched, Zenon
<1>5. CASE Tick \/ EndMarking \/ CheckService
  <2>1. UNCHANGED <<fsm, peers, prev, missed>>
    BY <1>5, Zenon DEF Tick, EndMarking, CheckService, historyVars
  <2>2. CASE Tick
    <3> DEFINE todo == {i \in NodesIn(fsm) \cap late : StatusOf(i) = "Ready"}
    <3>1. todo \subseteq NodesIn(fsm)
      BY Zenon
    <3> HIDE DEF todo
    <3>2. wd' = [wd EXCEPT !.pc = "nodes", !.todo = todo]
      BY <2>2, Zenon DEF Tick, todo
    <3>3. wd' = [pc |-> wd'.pc, todo |-> wd'.todo, node |-> wd'.node, marks |-> wd'.marks]
          /\ wd'.pc = "nodes" /\ wd'.todo = todo
      BY <3>2, Zenon DEF PeerInv
    <3> QED BY <1>1, <2>1, <3>1, <3>3, PeersUntouched, Zenon
  <2>3. CASE EndMarking
    <3>1. wd' = [pc |-> wd'.pc, todo |-> wd'.todo, node |-> wd'.node, marks |-> wd'.marks]
          /\ wd'.pc = "nodes" /\ wd'.todo = wd.todo
      BY <2>3, Zenon DEF PeerInv, EndMarking
    <3>2. wd.todo \subseteq NodesIn(fsm)
      BY Zenon DEF PeerInv
    <3> QED BY <1>1, <2>1, <3>1, <3>2, PeersUntouched, Zenon
  <2>4. CASE CheckService
    <3>1. wd' = [pc |-> wd'.pc, todo |-> wd'.todo, node |-> wd'.node, marks |-> wd'.marks]
          /\ wd'.pc = "idle" /\ wd'.todo = {}
      BY <2>4, Zenon DEF CheckService, Asleep
    <3> QED BY <1>1, <2>1, <3>1, PeersUntouched, Zenon
  <2> QED BY <1>5, <2>2, <2>3, <2>4, Zenon
<1>6. CASE \E a \in AllocIds : MarkFailed(a)
  <2>1. UNCHANGED <<peers, prev, missed>>
    BY <1>6, Zenon DEF MarkFailed, historyVars
  <2>2. HasNodes(fsm') /\ fsm'.nodes = fsm.nodes
    BY <1>1, <1>6, AllocCommandsKeepNodes DEF MarkFailed
  <2>3. wd' = [pc |-> wd'.pc, todo |-> wd'.todo, node |-> wd'.node, marks |-> wd'.marks]
        /\ wd'.pc = "marking" /\ wd'.todo = wd.todo
    BY <1>6, Zenon DEF PeerInv, MarkFailed
  <2>4. wd.todo \subseteq NodesIn(fsm)
    BY Zenon DEF PeerInv
  <2> QED BY <2>1, <2>2, <2>3, <2>4, PeersUntouched, Zenon
<1> QED BY <1>2, <1>3, <1>4, <1>5, <1>6, Zenon

\* check_heartbeats finds a node late and proposes NodeDown: the node is not Ready.
LEMMA CheckNodeKeeps ==
  ASSUME PeerInv, NEW i \in RaftIds, CheckNode(i)
  PROVE  PeerInv'
<1>1. HasNodes(fsm) /\ i \in NodesIn(fsm) /\ wd.pc = "nodes" /\ wd.todo \subseteq NodesIn(fsm)
      /\ UNCHANGED <<peers, prev>>
  BY Zenon DEF PeerInv, HasNodes, CheckNode
<1>2. CASE i \in late
  <2>1. fsm' = SetNodeStatus(fsm, i, "Down") /\ missed' = missed \ {i}
    BY <1>2, Zenon DEF CheckNode, NodeDown
  <2>2. /\ HasNodes(fsm') /\ NodesIn(fsm') = NodesIn(fsm)
        /\ \A j \in RaftIds \ {i} : fsm'.nodes[j] = fsm.nodes[j]
        /\ fsm'.nodes[i].status = "Down"
    <3>1. OneNode(fsm, SetNodeStatus(fsm, i, "Down"), i, "Down")
      BY <1>1, SetStatusOneNode, Zenon DEF NodeStatuses
    <3>2. OneNode(fsm, fsm', i, "Down")
      BY <2>1, <3>1, Zenon
    <3> QED BY <1>1, <3>2, Zenon DEF OneNode
  <2>3. wd' = [pc |-> wd'.pc, todo |-> wd'.todo, node |-> wd'.node, marks |-> wd'.marks]
        /\ wd'.pc = "mark" /\ wd'.node = i /\ wd'.todo \subseteq wd.todo
    BY <1>2, ZenonT(90) DEF CheckNode, PeerInv
  <2>4. ReadyIsPeerUnlessMissed'
    BY <1>1, <2>1, <2>2, Zenon DEF PeerInv, ReadyIsPeerUnlessMissed, StatusOf, NodesIn
  <2> QED BY <1>1, <2>2, <2>3, <2>4, Zenon DEF PeerInv, HasNodes, StatusOf
<1>3. CASE i \notin late
  <2>1. UNCHANGED <<fsm, missed>>
    BY <1>3, Zenon DEF CheckNode
  <2>2. wd' = [pc |-> wd'.pc, todo |-> wd'.todo, node |-> wd'.node, marks |-> wd'.marks]
        /\ wd'.pc = "nodes" /\ wd'.todo \subseteq wd.todo
    BY <1>1, <1>3, Zenon DEF CheckNode, PeerInv
  <2> QED BY <1>1, <2>1, <2>2, PeersUntouched, Zenon
<1> QED BY <1>2, <1>3, Zenon

\* remove_peer comes after the proposal, and the node may be back by then.
LEMMA RemovePeerKeeps ==
  ASSUME PeerInv, ReadNodeAllocs
  PROVE  PeerInv'
<1>1. UNCHANGED <<fsm, prev, missed>> /\ peers' = peers \ {wd.node} /\ wd.pc = "mark"
  BY Zenon DEF ReadNodeAllocs, historyVars
<1>2. wd' = [pc |-> wd'.pc, todo |-> wd'.todo, node |-> wd'.node, marks |-> wd'.marks]
      /\ wd'.pc = "marking" /\ wd'.todo = wd.todo
  BY Zenon DEF PeerInv, ReadNodeAllocs
<1>3. NodesIn(fsm)' = NodesIn(fsm) /\ \A i : StatusOf(i)' = StatusOf(i)
  BY <1>1, Zenon DEF NodesIn, StatusOf
<1>4. ReadyIsPeerUnlessMissed'
  BY <1>1, <1>3, Zenon DEF PeerInv, ReadyIsPeerUnlessMissed
<1> QED BY <1>1, <1>2, <1>3, <1>4, Zenon DEF PeerInv

\* reconcile_wireguard_peers makes up for what the last tick left, and the
\* statuses are compared with from then on.
LEMMA ReconcileKeeps ==
  ASSUME PeerInv, AddPeers \/ SnapshotStatuses
  PROVE  PeerInv'
<1>1. UNCHANGED <<fsm, missed>>
  BY Zenon DEF AddPeers, AddPeersThat, SnapshotStatuses, historyVars
<1>2. NodesIn(fsm)' = NodesIn(fsm) /\ \A i : StatusOf(i)' = StatusOf(i)
  BY <1>1, Zenon DEF NodesIn, StatusOf
<1>3. CASE AddPeers
  <2>1. /\ UNCHANGED prev
        /\ peers' = peers \cup {i \in NodesIn(fsm) : prev[i] = "Down" /\ StatusOf(i) = "Ready"}
    BY <1>3, Zenon DEF AddPeers, AddPeersThat
  <2>2. wd' = [pc |-> wd'.pc, todo |-> wd'.todo, node |-> wd'.node, marks |-> wd'.marks]
        /\ wd'.pc = "snapshot" /\ wd'.todo = wd.todo
    BY <1>3, Zenon DEF PeerInv, AddPeers, AddPeersThat
  <2>3. \A i \in NodesIn(fsm) \ missed : StatusOf(i) = "Ready" => i \in peers'
    BY <2>1, Zenon DEF PeerInv, ReadyIsPeerUnlessMissed
  <2>4. ReadyIsPeerUnlessMissed'
    BY <1>1, <1>2, <2>3, Zenon DEF ReadyIsPeerUnlessMissed
  <2> QED BY <1>1, <1>2, <2>2, <2>3, <2>4, Zenon DEF PeerInv
<1>4. CASE SnapshotStatuses
  <2>1. wd' = [pc |-> wd'.pc, todo |-> wd'.todo, node |-> wd'.node, marks |-> wd'.marks]
        /\ wd'.pc = "service" /\ wd'.todo = wd.todo /\ wd.pc = "snapshot" /\ UNCHANGED peers
    BY <1>4, Zenon DEF PeerInv, SnapshotStatuses
  <2>2. ReadyIsPeerUnlessMissed'
    BY <1>1, <1>2, <2>1, Zenon DEF PeerInv, ReadyIsPeerUnlessMissed
  <2> QED BY <1>1, <1>2, <2>1, <2>2, Zenon DEF PeerInv
<1> QED BY <1>3, <1>4, Zenon

\* A heartbeat makes a node Ready that was Down: the next tick adds it, or it is
\* missed.  An operator who drains a node takes it out of the Ready ones.
LEMMA NodeChangeKeeps ==
  ASSUME PeerInv, NEW i \in RaftIds, RecvBeat(i) \/ Drain(i)
  PROVE  PeerInv'
<1>1. HasNodes(fsm) /\ UNCHANGED <<wd, peers, prev>>
  BY Zenon DEF PeerInv, HasNodes, RecvBeat, Drain, tickVars
<1>2. PICK st : OneNode(fsm, fsm', i, st)
                /\ (st = "Ready" /\ i \in NodesIn(fsm) =>
                      \/ StatusOf(i) = "Ready"
                      \/ i \in missed' \/ (prev[i] = "Down" /\ wd.pc # "snapshot"))
  <2>1. CASE RecvBeat(i)
    <3> DEFINE st == IF fsm.nodes[i].status = "Down" THEN "Ready" ELSE fsm.nodes[i].status
    <3>1. OneNode(fsm, fsm', i, st)
      BY <1>1, <2>1, HeartbeatOneNode, Zenon DEF RecvBeat
    <3>2. st = "Ready" => \/ StatusOf(i) = "Ready"
                          \/ i \in missed' \/ (prev[i] = "Down" /\ wd.pc # "snapshot")
      BY <2>1, Zenon DEF RecvBeat, StatusOf
    <3> QED BY <3>1, <3>2, Zenon
  <2>2. CASE Drain(i)
    <3>1. OneNode(fsm, fsm', i, "Draining")
      BY <1>1, <2>2, SetStatusOneNode, Zenon DEF Drain, NodeDrain, NodeStatuses
    <3> QED BY <3>1
  <2> QED BY <2>1, <2>2, Zenon
<1>3. missed \subseteq missed'
  BY Zenon DEF RecvBeat, Drain
<1>4. /\ HasNodes(fsm') /\ NodesIn(fsm)' = NodesIn(fsm)
      /\ \A j \in NodesIn(fsm) : StatusOf(j)' = IF j = i THEN st ELSE StatusOf(j)
  BY <1>2, Zenon DEF OneNode, StatusOf, NodesIn
<1>5. ReadyIsPeerUnlessMissed'
  BY <1>1, <1>2, <1>3, <1>4, Zenon DEF PeerInv, ReadyIsPeerUnlessMissed
<1>6. wd.pc = "mark" =>
        (StatusOf(wd.node)' = "Ready" => wd.node \in missed' \/ prev[wd.node] = "Down")
  <2> SUFFICES ASSUME wd.pc = "mark", StatusOf(wd.node)' = "Ready"
               PROVE  wd.node \in missed' \/ prev[wd.node] = "Down"
    BY Zenon
  <2>1. wd.node \in NodesIn(fsm) /\ wd.node = wd'.node
    BY <1>1, Zenon DEF PeerInv
  <2>2. PICK j \in NodesIn(fsm) : j = wd.node
    BY <2>1, Zenon
  <2>3. StatusOf(j)' = "Ready"
    BY <2>1, <2>2, Zenon DEF StatusOf
  <2>4. StatusOf(j) = "Ready" => j \in missed \/ prev[j] = "Down"
    BY <2>2, Zenon DEF PeerInv, StatusOf
  <2> QED BY <1>2, <1>3, <1>4, <2>2, <2>3, <2>4, Zenon
<1>7. wd.pc = "snapshot" =>
        \A j \in NodesIn(fsm) \ missed' : StatusOf(j)' = "Ready" => j \in peers
  BY <1>2, <1>3, <1>4, Zenon DEF PeerInv
<1>8. StatusOf(wd.node)' = fsm'.nodes[wd.node].status
  BY <1>1, Zenon DEF StatusOf
<1> QED BY <1>1, <1>4, <1>5, <1>6, <1>7, <1>8, Zenon DEF PeerInv, HasNodes

-----------------------------------------------------------------------------
\* All nodes are Ready and peers at first.
LEMMA PeerInitInv == WatchdogInit => PeerInv
<1> SUFFICES ASSUME WatchdogInit PROVE PeerInv
  BY SMTT(30)
<1>1. PICK sc \in Scenarios :
        /\ fsm = [EmptyFsm EXCEPT
                    !.config = Config,
                    !.nodes = [i \in RaftIds |-> IF i \in sc.nodes
                                 THEN [mill_id |-> NameOf[i], status |-> "Ready"] ELSE None]]
        /\ peers = sc.nodes /\ wd = Asleep
  BY Zenon DEF WatchdogInit
<1> DEFINE nn == [i \in RaftIds |-> IF i \in sc.nodes
                     THEN [mill_id |-> NameOf[i], status |-> "Ready"] ELSE None]
<1>2. nn \in [RaftIds -> Node \cup {None}] /\ \A i \in RaftIds : nn[i] # None => i \in sc.nodes
  BY WatchdogAssumption, Zenon DEF Node, NodeStatuses
<1> HIDE DEF nn
<1>3. DOMAIN fsm = DOMAIN EmptyFsm /\ fsm.nodes = nn
  BY <1>1, Zenon DEF nn, EmptyFsm
<1>4. wd = [pc |-> wd.pc, todo |-> wd.todo, node |-> wd.node, marks |-> wd.marks]
      /\ wd.pc = "idle" /\ wd.todo = {}
  BY <1>1, Zenon DEF Asleep
<1>5. \A i \in NodesIn(fsm) : i \in peers
  BY <1>1, <1>2, <1>3, Zenon DEF NodesIn
<1> QED BY <1>2, <1>3, <1>4, <1>5, Zenon DEF PeerInv, ReadyIsPeerUnlessMissed

\* The inductive invariant of the peers holds in every behaviour.
THEOREM PeerInvHolds == WatchdogSpec => []PeerInv
<1>1. ASSUME PeerInv, [WatchdogNext]_watchdogVars PROVE PeerInv'
  BY <1>1, OthersKeep, CheckNodeKeeps, RemovePeerKeeps, ReconcileKeeps, NodeChangeKeeps, Zenon
     DEF WatchdogNext, WatchdogStep, Environment
<1> QED BY PeerInitInv, <1>1, PTL DEF WatchdogSpec

\* A Ready node is a WireGuard peer or will be at the next tick, unless it came
\* back from Down within the tick that found it late, or between the two reads
\* of a tick (watchdog.rs:207-259): for any number of nodes.
THEOREM ReadyIsPeer == WatchdogSpec => []ReadyIsPeerUnlessMissed
<1>1. PeerInv => ReadyIsPeerUnlessMissed
  BY Zenon DEF PeerInv
<1> QED BY PeerInvHolds, <1>1, PTL

=============================================================================
