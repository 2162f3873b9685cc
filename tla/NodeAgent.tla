----------------------------- MODULE NodeAgent -----------------------------
(***************************************************************************)
(* The secondary role of one node: crates/node/src/secondary.              *)
(*                                                                         *)
(* Three kinds of task run concurrently: the command loop (mod.rs), which  *)
(* first reconciles and then executes Run and Stop one after the other;    *)
(* one exit waiter per started container (runner.rs); and the heartbeat    *)
(* loop (heartbeat.rs).  They share the allocation map, the port pool and  *)
(* the report channel, and every await between two shared accesses is a    *)
(* step boundary here.                                                     *)
(*                                                                         *)
(* The container runtime is external: containers survive a restart of the  *)
(* daemon, and a container that exits keeps its record until it is removed.*)
(***************************************************************************)
EXTENDS PortAllocator, Sequences

CONSTANTS
    Ported,         \* allocations whose spec has a port (services do)
    Faults,         \* runtime calls that may fail: "pull", "run", "stop", "list", "recover"
    ReportCap,      \* capacity of the report channel (CHANNEL_BUFFER)
    MaxCmds,        \* bound: commands the primary sends
    MaxBeats,       \* bound: heartbeats taken
    MaxRestarts     \* bound: restarts of the daemon

ASSUME AgentAssumption ==
    /\ Ported \subseteq AllocIds
    /\ Faults \subseteq {"pull", "run", "stop", "list", "recover"}
    /\ ReportCap \in Nat \ {0}
    /\ MaxCmds \in Nat /\ MaxBeats \in Nat /\ MaxRestarts \in Nat

\* None is no port, no entry of the map and no container.
ASSUME AgentAbsentAssumption ==
    /\ None \notin Int
    /\ None \notin [status : AllocStatuses, port : Int \cup {None}]
    /\ None \notin [state : {"running", "exited"}, run : Int, port : Int \cup {None}]

VARIABLES
    cmds,           \* command channel: NodeCommand values not yet received
    loop,           \* the command loop: [pc, alloc, port]
    orphans, expected,  \* what reconcile has still to visit
    map,            \* AllocationMap: None or [status, port]
    containers,     \* the runtime: None or [state, run, port]
    runs,           \* containers started so far; numbers them
    lost,           \* history: runs the node has lost sight of (LiveTracked)
    waiters,        \* exit waiters: a set of [run, alloc, port, pc]
    reports,        \* report channel: NodeReport values not yet delivered
    beat,           \* statuses the heartbeat loop has read and not yet sent
    sent, beats, restarts

recoveryVars == <<orphans, expected>>
runtimeVars == <<containers, runs, lost>>
taskVars == <<cmds, loop, recoveryVars, map, runtimeVars, waiters, reports, beat>>
countVars == <<sent, beats, restarts>>
agentVars == <<poolVars, taskVars, countVars>>

PortOrNone == Ports \cup {None}

Commands == [op : {"Run", "Stop"}, alloc : AllocIds]

LoopPCs == {"recv", "pull", "allocate", "run", "failed", "insert", "started",
            "stop", "release", "forget", "stopped", "reconcile", "rehydrated"}

\* What all_statuses may return.
StatusMaps == UNION {[A -> AllocStatuses] : A \in SUBSET AllocIds}

Reports ==
    [type : {"StatusUpdate"}, alloc : AllocIds, status : {"Pulling", "Starting"}]
      \cup [type : {"RunStarted"}, alloc : AllocIds, port : PortOrNone]
      \cup [type : {"RunFailed", "Stopped"}, alloc : AllocIds]
      \cup [type : {"Heartbeat"}, statuses : StatusMaps]

Waiters == [run : Nat, alloc : AllocIds, port : PortOrNone,
            pc : {"wait", "release", "forget", "report"}]

AgentTypeOK ==
    /\ PoolTypeOK
    /\ cmds \in Seq(Commands)
    /\ loop \in [pc : LoopPCs, alloc : AllocIds \cup {None}, port : PortOrNone]
    /\ orphans \subseteq AllocIds /\ expected \subseteq AllocIds
    /\ map \in [AllocIds -> [status : AllocStatuses, port : PortOrNone] \cup {None}]
    /\ containers \in [AllocIds -> [state : {"running", "exited"}, run : Nat,
                                    port : PortOrNone] \cup {None}]
    /\ runs \in Nat /\ lost \subseteq 1 .. runs
    /\ waiters \subseteq Waiters
    /\ reports \in Seq(Reports) /\ Len(reports) <= ReportCap
    /\ beat \in StatusMaps \cup {None}
    /\ sent \in 0 .. MaxCmds /\ beats \in 0 .. MaxBeats /\ restarts \in 0 .. MaxRestarts

Idle == [pc |-> "recv", alloc |-> None, port |-> None]

\* A new node: nothing expected, nothing running (daemon init and join).
AgentStarts(b, r) ==
    /\ PoolInit
    /\ cmds = <<>> /\ loop = Idle
    /\ orphans = {} /\ expected = {}
    /\ map = [a \in AllocIds |-> None]
    /\ containers = [a \in AllocIds |-> None]
    /\ runs = 0 /\ lost = {} /\ waiters = {}
    /\ reports = <<>> /\ beat = None
    /\ sent = 0 /\ beats = b /\ restarts = r

AgentInit == AgentStarts(0, 0)

-----------------------------------------------------------------------------
(* The two channels. *)

\* report_tx.send waits for room in the bounded channel.
Report(r) == Len(reports) < ReportCap /\ reports' = Append(reports, r)

Status(a, st) == [type |-> "StatusUpdate", alloc |-> a, status |-> st]
Started(a, p) == [type |-> "RunStarted", alloc |-> a, port |-> p]
RunFailed(a) == [type |-> "RunFailed", alloc |-> a]
Stopped(a) == [type |-> "Stopped", alloc |-> a]

\* The primary sends a command (external to the node).
SendCommand(c) ==
    /\ sent < MaxCmds
    /\ cmds' = Append(cmds, c)
    /\ sent' = sent + 1
    /\ UNCHANGED <<poolVars, loop, recoveryVars, map, runtimeVars, waiters, reports, beat, beats, restarts>>

\* The connection to the primary takes a report off the channel.
TakeReport ==
    /\ reports # <<>>
    /\ reports' = Tail(reports)
    /\ UNCHANGED <<poolVars, cmds, loop, recoveryVars, map, runtimeVars, waiters, beat, countVars>>

-----------------------------------------------------------------------------
(* run_container. *)

Goto(pc) == loop' = [loop EXCEPT !.pc = pc]

\* Receive Run: an id already in the map is an error that is only logged.
RecvRun(a) ==
    /\ loop.pc = "recv" /\ cmds # <<>> /\ Head(cmds) = [op |-> "Run", alloc |-> a]
    /\ cmds' = Tail(cmds)
    /\ IF map[a] # None
       THEN UNCHANGED <<loop, reports>>
       ELSE /\ Report(Status(a, "Pulling"))
            /\ loop' = [pc |-> "pull", alloc |-> a, port |-> None]
    /\ UNCHANGED <<poolVars, recoveryVars, map, runtimeVars, waiters, beat, countVars>>

PullImage ==
    /\ loop.pc = "pull"
    /\ \/ Report(Status(loop.alloc, "Starting")) /\ Goto("allocate")
       \/ "pull" \in Faults /\ Report(RunFailed(loop.alloc)) /\ loop' = Idle
    /\ UNCHANGED <<poolVars, cmds, recoveryVars, map, runtimeVars, waiters, beat, countVars>>

\* With the pool exhausted run_container returns an error and reports nothing.
AllocatePort ==
    /\ loop.pc = "allocate"
    /\ \/ loop.alloc \notin Ported /\ Goto("run") /\ UNCHANGED poolVars
       \/ loop.alloc \in Ported /\ available = {} /\ loop' = Idle /\ UNCHANGED poolVars
       \/ /\ loop.alloc \in Ported
          /\ \E p \in Ports : /\ Allocate(loop.alloc, p)
                              /\ loop' = [loop EXCEPT !.pc = "run", !.port = p]
    /\ UNCHANGED <<cmds, recoveryVars, map, runtimeVars, waiters, reports, beat, countVars>>

ReleaseOpt(p) == IF p = None THEN UNCHANGED poolVars ELSE Release(p)

\* Faulty variant: the failure path keeps the port.
StartFailsLeaking ==
    /\ containers[loop.alloc] # None \/ "run" \in Faults
    /\ Goto("failed")
    /\ UNCHANGED <<poolVars, runtimeVars>>

\* runtime.run refuses an id whose container record still exists; the port is
\* given back before the failure is reported.
StartFails ==
    /\ containers[loop.alloc] # None \/ "run" \in Faults
    /\ ReleaseOpt(loop.port)
    /\ Goto("failed")
    /\ UNCHANGED runtimeVars

StartContainer ==
    /\ loop.pc = "run"
    /\ \/ /\ containers[loop.alloc] = None
          /\ containers' = [containers EXCEPT ![loop.alloc] =
                              [state |-> "running", run |-> runs + 1, port |-> loop.port]]
          /\ runs' = runs + 1
          /\ Goto("insert")
          /\ UNCHANGED <<poolVars, lost>>
       \/ StartFails
    /\ UNCHANGED <<cmds, recoveryVars, map, waiters, reports, beat, countVars>>

ReportFailed ==
    /\ loop.pc = "failed"
    /\ Report(RunFailed(loop.alloc))
    /\ loop' = Idle
    /\ UNCHANGED <<poolVars, cmds, recoveryVars, map, runtimeVars, waiters, beat, countVars>>

\* Faulty variant: the occupied check is inverted.
InsertInverted(a, p) ==
    map' = IF map[a] = None THEN map ELSE [map EXCEPT ![a] = [status |-> "Running", port |-> p]]

\* An id that is already present is left alone.
Insert(a, p) ==
    map' = IF map[a] = None THEN [map EXCEPT ![a] = [status |-> "Running", port |-> p]] ELSE map

InsertAlloc ==
    /\ loop.pc = "insert"
    /\ Insert(loop.alloc, loop.port)
    /\ Goto("started")
    /\ UNCHANGED <<poolVars, cmds, recoveryVars, runtimeVars, waiters, reports, beat, countVars>>

Spawn(a, p) ==
    waiters' = waiters \cup {[run |-> containers[a].run, alloc |-> a, port |-> p, pc |-> "wait"]}

\* Report RunStarted, then spawn the exit waiter.
ReportStarted ==
    /\ loop.pc = "started"
    /\ Report(Started(loop.alloc, loop.port))
    /\ Spawn(loop.alloc, loop.port)
    /\ loop' = Idle
    /\ UNCHANGED <<poolVars, cmds, recoveryVars, map, runtimeVars, beat, countVars>>

-----------------------------------------------------------------------------
(* stop_container. *)

\* The port is read from the map before anything else happens.
RecvStop(a) ==
    /\ loop.pc = "recv" /\ cmds # <<>> /\ Head(cmds) = [op |-> "Stop", alloc |-> a]
    /\ cmds' = Tail(cmds)
    /\ loop' = [pc |-> "stop", alloc |-> a,
                port |-> IF map[a] = None THEN None ELSE map[a].port]
    /\ UNCHANGED <<poolVars, recoveryVars, map, runtimeVars, waiters, reports, beat, countVars>>

\* runtime.stop, then runtime.remove.  Either may fail: the container keeps
\* running, or it has exited and its record stays.
StopAndRemove(a) ==
    \/ containers' = [containers EXCEPT ![a] = None] /\ UNCHANGED lost
    \/ /\ "stop" \in Faults /\ containers[a] # None
       /\ \/ UNCHANGED containers /\ lost' = lost \cup {containers[a].run}
          \/ containers' = [containers EXCEPT ![a].state = "exited"] /\ UNCHANGED lost

\* The clean-up below follows whatever the runtime answers.
StopContainer ==
    /\ loop.pc = "stop"
    /\ StopAndRemove(loop.alloc)
    /\ Goto("release")
    /\ UNCHANGED <<poolVars, cmds, recoveryVars, map, runs, waiters, reports, beat, countVars>>

ReleasePort ==
    /\ loop.pc = "release"
    /\ ReleaseOpt(loop.port)
    /\ Goto("forget")
    /\ UNCHANGED <<cmds, recoveryVars, map, runtimeVars, waiters, reports, beat, countVars>>

ForgetAlloc ==
    /\ loop.pc = "forget"
    /\ map' = [map EXCEPT ![loop.alloc] = None]
    /\ Goto("stopped")
    /\ UNCHANGED <<poolVars, cmds, recoveryVars, runtimeVars, waiters, reports, beat, countVars>>

ReportStopped ==
    /\ loop.pc = "stopped"
    /\ Report(Stopped(loop.alloc))
    /\ loop' = Idle
    /\ UNCHANGED <<poolVars, cmds, recoveryVars, map, runtimeVars, waiters, beat, countVars>>

-----------------------------------------------------------------------------
(* The runtime, and spawn_exit_waiter. *)

\* A container's process ends by itself.
Exit(a) ==
    /\ containers[a] # None /\ containers[a].state = "running"
    /\ containers' = [containers EXCEPT ![a].state = "exited"]
    /\ UNCHANGED <<poolVars, cmds, loop, recoveryVars, map, runs, lost, waiters, reports, beat, countVars>>

Listed == {a \in AllocIds : containers[a] # None}

\* The container this waiter was spawned for is no longer running.
Exited(w) ==
    LET c == containers[w.alloc] IN ~(c # None /\ c.run = w.run /\ c.state = "running")

WaiterGoto(w, pc) == waiters' = (waiters \ {w}) \cup {[w EXCEPT !.pc = pc]}

\* Faulty variant: the waiter gives up when the entry is already gone.
ExitObservedIfMapped(w) ==
    /\ w.pc = "wait" /\ Exited(w) /\ map[w.alloc] # None
    /\ \E st \in Terminal : map' = [map EXCEPT ![w.alloc].status = st]
    /\ WaiterGoto(w, "release")
    /\ UNCHANGED <<poolVars, cmds, loop, recoveryVars, runtimeVars, reports, beat, countVars>>

\* set_status with the terminal status, if the map still has the id.
ExitObserved(w) ==
    /\ w.pc = "wait" /\ Exited(w)
    /\ \E st \in Terminal :
          map' = IF map[w.alloc] = None THEN map ELSE [map EXCEPT ![w.alloc].status = st]
    /\ WaiterGoto(w, "release")
    /\ UNCHANGED <<poolVars, cmds, loop, recoveryVars, runtimeVars, reports, beat, countVars>>

WaiterRelease(w) ==
    /\ w.pc = "release"
    /\ ReleaseOpt(w.port)
    /\ WaiterGoto(w, "forget")
    /\ UNCHANGED <<cmds, loop, recoveryVars, map, runtimeVars, reports, beat, countVars>>

\* The entry goes, whichever container of that id it is about.
WaiterForget(w) ==
    /\ w.pc = "forget"
    /\ map' = [map EXCEPT ![w.alloc] = None]
    /\ lost' = lost \cup ({containers[a].run : a \in {w.alloc} \cap Listed} \ {w.run})
    /\ WaiterGoto(w, "report")
    /\ UNCHANGED <<poolVars, cmds, loop, recoveryVars, containers, runs, reports, beat, countVars>>

WaiterReport(w) ==
    /\ w.pc = "report"
    /\ Report(Stopped(w.alloc))
    /\ waiters' = waiters \ {w}
    /\ UNCHANGED <<poolVars, cmds, loop, recoveryVars, map, runtimeVars, beat, countVars>>

WaiterStep(w) == ExitObserved(w) \/ WaiterRelease(w) \/ WaiterForget(w) \/ WaiterReport(w)

-----------------------------------------------------------------------------
(* heartbeat_loop: the statuses are read, and sent some awaits later.  The  *)
(* loop is spawned once reconcile has finished.                             *)

Reconciling == loop.pc \in {"reconcile", "rehydrated"}

ReadStatuses ==
    /\ ~Reconciling /\ beat = None /\ beats < MaxBeats
    /\ beat' = [a \in {x \in AllocIds : map[x] # None} |-> map[a].status]
    /\ beats' = beats + 1
    /\ UNCHANGED <<poolVars, cmds, loop, recoveryVars, map, runtimeVars, waiters, reports,
                   sent, restarts>>

SendHeartbeat ==
    /\ beat # None
    /\ Report([type |-> "Heartbeat", statuses |-> beat])
    /\ beat' = None
    /\ UNCHANGED <<poolVars, cmds, loop, recoveryVars, map, runtimeVars, waiters, countVars>>

-----------------------------------------------------------------------------
(* Restart of the daemon, and reconcile. *)

BoundPorts == {containers[a].port : a \in {x \in Listed : containers[x].state = "running"}} \ {None}

\* Tasks, channels, map and pool are gone; containers are not.  The new pool
\* hides the ports some of the running containers already listen on.  exp is
\* what the FSM of the restarted node expects (start_from_existing).  When
\* list_managed fails reconcile does nothing.
Restart(exp, inUse) ==
    /\ restarts < MaxRestarts
    /\ restarts' = restarts + 1
    /\ inUse \subseteq BoundPorts
    /\ Rebuild(inUse)
    /\ cmds' = <<>> /\ waiters' = {} /\ reports' = <<>> /\ beat' = None
    /\ map' = [a \in AllocIds |-> None]
    /\ \/ /\ loop' = [pc |-> "reconcile", alloc |-> None, port |-> None]
          /\ orphans' = Listed \ exp
          /\ expected' = exp
          /\ UNCHANGED lost
       \/ /\ "list" \in Faults
          /\ loop' = Idle /\ orphans' = {} /\ expected' = {}
          /\ lost' = lost \cup {containers[a].run : a \in Listed}
    /\ UNCHANGED <<containers, runs, sent, beats>>

\* Orphans are stopped and removed first; nothing is reported about them.
StopOrphan(a) ==
    /\ loop.pc = "reconcile" /\ a \in orphans
    /\ orphans' = orphans \ {a}
    /\ StopAndRemove(a)
    /\ UNCHANGED <<poolVars, cmds, loop, expected, map, runs, waiters, reports, beat, countVars>>

\* An expected container is reported as stopped when it is gone, skipped when
\* its labels cannot be read, and taken over otherwise.
Rehydrate(a) ==
    /\ loop.pc = "reconcile" /\ orphans = {} /\ a \in expected
    /\ expected' = expected \ {a}
    /\ \/ /\ containers[a] = None
          /\ Report(Stopped(a))
          /\ UNCHANGED <<poolVars, loop, map, lost, waiters>>
       \/ /\ containers[a] # None /\ "recover" \in Faults
          /\ lost' = lost \cup {containers[a].run}
          /\ UNCHANGED <<poolVars, loop, map, waiters, reports>>
       \/ /\ containers[a] # None
          /\ LET p == containers[a].port IN
             /\ IF p = None THEN UNCHANGED poolVars ELSE AllocateSpecific(a, p)
             /\ Insert(a, p)
             /\ Spawn(a, p)
             /\ loop' = [pc |-> "rehydrated", alloc |-> a, port |-> p]
          /\ UNCHANGED <<lost, reports>>
    /\ UNCHANGED <<cmds, orphans, containers, runs, beat, countVars>>

ReportRehydrated ==
    /\ loop.pc = "rehydrated"
    /\ Report(Started(loop.alloc, loop.port))
    /\ loop' = [pc |-> "reconcile", alloc |-> None, port |-> None]
    /\ UNCHANGED <<poolVars, cmds, recoveryVars, map, runtimeVars, waiters, beat, countVars>>

EndReconcile ==
    /\ loop.pc = "reconcile" /\ orphans = {} /\ expected = {}
    /\ loop' = Idle
    /\ UNCHANGED <<poolVars, cmds, recoveryVars, map, runtimeVars, waiters, reports, beat, countVars>>

-----------------------------------------------------------------------------
CommandLoop ==
    \/ \E a \in AllocIds : RecvRun(a) \/ RecvStop(a) \/ StopOrphan(a) \/ Rehydrate(a)
    \/ PullImage \/ AllocatePort \/ StartContainer \/ ReportFailed \/ InsertAlloc \/ ReportStarted
    \/ StopContainer \/ ReleasePort \/ ForgetAlloc \/ ReportStopped
    \/ ReportRehydrated \/ EndReconcile

Heartbeats == ReadStatuses \/ SendHeartbeat

AgentStep ==
    \/ CommandLoop
    \/ \E w \in waiters : WaiterStep(w)
    \/ Heartbeats

AgentNext ==
    \/ \E c \in Commands : SendCommand(c)
    \/ AgentStep
    \/ TakeReport
    \/ \E a \in AllocIds : Exit(a)
    \/ \E exp \in SUBSET AllocIds, inUse \in SUBSET Ports : Restart(exp, inUse)

\* Every task of the process is scheduled again and again, runtime calls
\* return, and the connection drains the report channel.
AgentFairness ==
    /\ WF_agentVars(CommandLoop)
    /\ \A a \in AllocIds : WF_agentVars(\E w \in waiters : w.alloc = a /\ WaiterStep(w))
    /\ WF_agentVars(TakeReport)

AgentSpec == AgentInit /\ [][AgentNext]_agentVars /\ AgentFairness

-----------------------------------------------------------------------------
\* The command loop holds p between allocating it and spawning the waiter.
LoopHolds(p) == loop.port = p /\ loop.pc \in {"run", "insert", "started"}

\* An exit waiter will release p.
WaiterHolds(p) == \E w \in waiters : w.port = p /\ w.pc \in {"wait", "release"}

\* Every port the pool counts as owned has somebody who will release it: the
\* command loop that is starting a container on it, or an exit waiter.  No
\* failure path of run_container, no race between stop_container and the
\* waiter, and no restart leaks a port (runner.rs:66-95, 134-157, 188-205).
NoPortLeak == \A p \in Owned : LoopHolds(p) \/ WaiterHolds(p)

\* A running container is in the allocation map, unless the loop is about to
\* insert it or reconcile has not reached it: heartbeats and Stop see it.  The
\* node loses sight of one in four ways only: stop fails and the entry is
\* removed all the same, list_managed or the recovery of its labels fails, or
\* the late waiter of an earlier container of the same id removes its entry
\* (runner.rs:102-110, 134-157, 188-205; reconcile.rs:33-112).
LiveTracked ==
    \A a \in Listed :
        containers[a].state = "running" =>
            \/ map[a] # None
            \/ loop.alloc = a /\ loop.pc = "insert"
            \/ loop.pc = "reconcile" /\ a \in orphans \cup expected
            \/ loop.pc = "rehydrated" /\ a \in expected
            \/ containers[a].run \in lost

\* The node has lost sight of what runs under a, or nothing runs there.
Unseen(a) ==
    containers[a] = None \/ containers[a].state # "running" \/ containers[a].run \in lost

\* Why the two properties above hold.  The loop knows its container between
\* starting it and spawning the waiter; the port and the entry it gives up
\* belong to nothing that still runs in sight; containers and waiters carry the
\* numbers of past runs, so that a waiter past its wait never speaks of a
\* container started later.
AgentInv ==
    /\ AgentTypeOK
    /\ loop.pc \notin {"recv", "reconcile"} => loop.alloc \in AllocIds
    /\ loop.pc \in {"insert", "started"} => containers[loop.alloc] # None
    /\ loop.pc \in {"release", "forget"} => Unseen(loop.alloc)
    /\ \A a \in Listed : containers[a].run \in 1 .. runs
    /\ \A w \in waiters : w.run \in 1 .. runs /\ (w.pc # "wait" => Exited(w))
    /\ PoolInv /\ NoPortLeak /\ LiveTracked

\* The pool names the allocation that uses a port as its owner for as long as
\* its container runs (ports.rs:17-18 "tracking which allocation owns each
\* port").
OwnerTracked ==
    \A a \in AllocIds :
        (/\ map[a] # None /\ map[a].port # None
         /\ containers[a] # None /\ containers[a].state = "running"
         /\ ~(loop.alloc = a /\ loop.pc \in {"release", "forget"}))
        => allocated[map[a].port] = a

\* The command loop always comes back to an empty command channel: neither
\* the bounded report channel, a failing run nor a restart blocks it for good.
LoopDrains == []<>(loop.pc = "recv" /\ cmds = <<>>)

\* Every exit of a container that has a waiter is reported: its waiter gets
\* through, even when stop_container removed the map entry first
\* (runner.rs:188-205).
ExitReported ==
    \A a \in AllocIds :
        (\E w \in waiters : w.alloc = a /\ Exited(w)) ~>
        ~(\E w \in waiters : w.alloc = a /\ Exited(w))

=============================================================================
