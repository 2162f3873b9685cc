-------------------------- MODULE ContainerRuntime --------------------------
(***************************************************************************)
(* The client of containerd (crates/containerd) call by call.  NodeAgent   *)
(* takes Containers::run, stop and remove as single steps; here each of    *)
(* them is the sequence of gRPC calls it really is, every call may fail,   *)
(* and the daemon may die between any two of them.  containerd itself      *)
(* survives the daemon: its snapshots, containers and tasks are found      *)
(* again by reconcile.  One alloc id is used again by a later dispatch, as *)
(* a deploy does, possibly with another image.                             *)
(*                                                                         *)
(* The secondary executes one command at a time (op).  A report reaches    *)
(* the FSM at once: AllocLifecycle has its delay.  The host port of an     *)
(* alloc is its own: PortAllocator has the pool.                           *)
(***************************************************************************)
EXTENDS ContainerSpecs

CONSTANTS
    Allocs,         \* alloc ids
    FirstConfigs,   \* the raw configurations a first deploy submits
    NextConfigs,    \* the raw configurations a later deploy submits
    MaxSubmits,     \* configurations submitted
    MaxRuns,        \* Run commands dispatched
    MaxFaults,      \* calls that fail
    MaxCrashes      \* deaths of the daemon

\* None is neither a number nor a list, and the definitions have the fields
\* their specifications are made from.
ASSUME ConfigAssumption ==
    /\ None \notin Int /\ None # <<>>
    /\ \A c \in FirstConfigs \cup NextConfigs :
          /\ \A n \in DOMAIN c.service :
                /\ {"env", "volumes"} \subseteq DOMAIN c.service[n]
                /\ Mounts(c.service[n].volumes) # None
          /\ \A n \in DOMAIN c.task :
                /\ {"env", "timeout"} \subseteq DOMAIN c.task[n]
                /\ c.task[n].timeout \in Nat \cup {None, Bad}

\* The specifications of the allocs of a configuration whose environment
\* resolves, and the metadata create_container stores for one.
SpecsOf(cfg) ==
    {ServiceSpec(d) : d \in {e \in Range(cfg.services) : ResolvesEnv(e.env)}}
      \cup {TaskSpec(d) : d \in {e \in Range(cfg.tasks) : ResolvesEnv(e.env)}}

Container(spec) ==
    [image |-> spec.image, labels |-> BuildLabels(spec),
     oci |-> BuildOciSpec(spec, ImageInfo(spec.image))]

\* None is no container.
ASSUME ContainerAssumption ==
    \A c \in FirstConfigs \cup NextConfigs :
        LET cfg == Resolve(c)
        IN  cfg # None =>
              \A spec \in SpecsOf(cfg), a \in Allocs :
                  ImageInfo(spec.image) # None => Container(WithPort(spec, a)) # None

VARIABLES
    raw, config,    \* the configuration submitted last, and its resolution
    cached,         \* containerd: the images in its store
    snap,           \* containerd: alloc -> chain id under the rootfs, or None
    record,         \* containerd: alloc -> container metadata, or None
    task,           \* containerd: alloc -> state of the task
    fifo,           \* alloc -> the log fifos exist
    fsm,            \* alloc -> the FSM holds it as active ("live") or not
    local,          \* secondary: alloc -> the spec in the AllocationMap, or None
    waits,          \* secondary: allocs with an exit waiter
    op,             \* secondary: the command being executed
    recover,        \* secondary: expected allocs reconcile has still to visit
    orphans,        \* secondary: orphans reconcile has still to remove
    count,          \* submits, runs, faults, crashes so far
    made,           \* history: alloc -> spec its container was created from
    leaked,         \* history: allocs with a snapshot that an attempt left behind
    unkilled,       \* history: allocs whose stop failed on a live task
    torn,           \* history: allocs reconcile could not take over
    stranded        \* history: allocs whose log readers lost their fifos unopened

configVars == <<raw, config>>
containerdVars == <<cached, snap, record, task, fifo>>
agentVars == <<fsm, local, waits>>
recoveryVars == <<recover, orphans>>
historyVars == <<made, leaked, unkilled, torn, stranded>>
runtimeVars == <<configVars, containerdVars, agentVars, op, recoveryVars, count, historyVars>>

Idle == [kind |-> "idle"]
Op(kind, a, pc, spec) ==
    [kind |-> kind, alloc |-> a, pc |-> pc, spec |-> spec, undo |-> <<>>]

\* The commands run and stop, and reconcile's removal of an orphan, by step.
RunSteps == {"pull", "info", "prepare", "create", "fifos", "task", "start", "insert"}
StopSteps == {"term", "wait", "kill"}
\* What is still to delete: after a failed run, and by remove.
UndoSteps == {"task", "record", "snap", "fifo"}

RuntimeTypeOK ==
    /\ cached \subseteq DOMAIN ImageStore
    /\ \A a \in Allocs :
        /\ task[a] \in {"none", "created", "running", "exited"}
        /\ fifo[a] \in BOOLEAN
        /\ fsm[a] \in {"none", "live", "dead"}
        /\ record[a] = None \/ DOMAIN record[a] = {"image", "oci", "labels"}
        /\ local[a] # None => a \in waits
    /\ waits \cup recover \cup orphans \cup leaked \cup unkilled \cup torn \cup stranded
          \subseteq Allocs
    /\ op.kind \in {"idle", "boot", "run", "stop", "orphan", "undo"}
    /\ op.kind \notin {"idle", "boot"} =>
        /\ op.kind = "run" => op.pc \in RunSteps
        /\ op.kind = "undo" => op.pc = "delete"
        /\ op.kind \in {"stop", "orphan"} => op.pc \in StopSteps \cup {"delete"}
        /\ op.undo \in Seq(UndoSteps)
        \* Only a run that reached the step holds what the step before it made.
        /\ op.kind = "run" /\ op.pc \in {"task", "start", "insert"} =>
             record[op.alloc] # None /\ fifo[op.alloc]
        /\ op.kind = "run" /\ op.pc = "start" => task[op.alloc] = "created"

RuntimeInit ==
    /\ raw = None /\ config = None
    /\ cached = {}
    /\ snap = [a \in Allocs |-> None] /\ record = [a \in Allocs |-> None]
    /\ task = [a \in Allocs |-> "none"] /\ fifo = [a \in Allocs |-> FALSE]
    /\ fsm = [a \in Allocs |-> "none"] /\ local = [a \in Allocs |-> None]
    /\ waits = {} /\ op = Idle /\ recover = {} /\ orphans = {}
    /\ count = [submits |-> 0, runs |-> 0, faults |-> 0, crashes |-> 0]
    /\ made = [a \in Allocs |-> None]
    /\ leaked = {} /\ unkilled = {} /\ torn = {} /\ stranded = {}

-----------------------------------------------------------------------------
(* The primary: a configuration is submitted, an alloc of it dispatched    *)

\* POST /deploy: the configuration is resolved, or rejected.
Submit(c) ==
    /\ count.submits < MaxSubmits
    /\ raw' = c /\ config' = Resolve(c)
    /\ count' = [count EXCEPT !.submits = @ + 1]
    /\ UNCHANGED <<containerdVars, agentVars, op, recoveryVars, historyVars>>

Specs == SpecsOf(config)

Ready == op = Idle /\ recover = {} /\ orphans = {}

\* run_container up to the pull: the alloc must not be in the AllocationMap.
\* The exit waiter of the id's last run has ended: NodeAgent has the overlap.
Dispatch(a, spec) ==
    /\ config # None /\ Ready
    /\ count.runs < MaxRuns
    /\ fsm[a] # "live" /\ local[a] = None /\ a \notin waits
    /\ fsm' = [fsm EXCEPT ![a] = "live"]
    /\ op' = Op("run", a, "pull", WithPort(spec, a))
    /\ count' = [count EXCEPT !.runs = @ + 1]
    /\ UNCHANGED <<configVars, containerdVars, local, waits, recoveryVars, historyVars>>

\* kill_task, drain and the deploys send Stop for an alloc that is active.
Stop(a) ==
    /\ Ready /\ fsm[a] = "live"
    /\ op' = Op("stop", a, "term", None)
    /\ UNCHANGED <<configVars, containerdVars, agentVars, recoveryVars, count, historyVars>>

-----------------------------------------------------------------------------
(* create_and_start, call by call                                          *)

\* The gRPC or file system call of this step fails.
Fault ==
    /\ count.faults < MaxFaults
    /\ count' = [count EXCEPT !.faults = @ + 1]

At(pc) == op.kind = "run" /\ op.pc = pc
Goto(pc) == op' = [op EXCEPT !.pc = pc]
Fails(undo) == op' = [op EXCEPT !.kind = "undo", !.pc = "delete", !.undo = undo]
Leaks == leaked' = leaked \cup {op.alloc}

\* The part of the state a step of the run leaves alone.
runFrame == <<configVars, agentVars, recoveryVars, made, unkilled, torn>>

\* An image in the store is not pulled again.
PullImage ==
    /\ At("pull")
    /\ \/ cached' = cached \cup {op.spec.image} /\ Goto("info") /\ UNCHANGED count
       \/ op.spec.image \notin cached /\ Fault /\ Fails(<<>>) /\ UNCHANGED cached
    /\ UNCHANGED <<runFrame, snap, record, task, fifo, leaked, stranded>>

ReadImageInfo ==
    /\ At("info")
    /\ \/ ImageInfo(op.spec.image) # None /\ Goto("prepare") /\ UNCHANGED count
       \/ ImageInfo(op.spec.image) = None /\ Fails(<<>>) /\ UNCHANGED count
       \/ Fault /\ Fails(<<>>)
    /\ UNCHANGED <<runFrame, containerdVars, leaked, stranded>>

\* A snapshot that exists under this key is taken as it is.  One made beside a
\* container that has lost its own stays behind: the create that follows fails.
PrepareSnapshot ==
    /\ At("prepare")
    /\ \/ /\ snap' = [snap EXCEPT ![op.alloc] =
                           IF @ = None THEN ImageInfo(op.spec.image).chain_id ELSE @]
          /\ IF snap[op.alloc] = None /\ record[op.alloc] # None THEN Leaks ELSE UNCHANGED leaked
          /\ Goto("create") /\ UNCHANGED count
       \/ Fault /\ Fails(<<>>) /\ UNCHANGED <<snap, leaked>>
    /\ UNCHANGED <<runFrame, cached, record, task, fifo, stranded>>

\* A container that exists is an error; the snapshot stays in any case.
CreateContainer ==
    /\ At("create")
    /\ \/ /\ record[op.alloc] = None
          /\ record' = [record EXCEPT ![op.alloc] = Container(op.spec)]
          /\ made' = [made EXCEPT ![op.alloc] = op.spec]
          /\ Goto("fifos") /\ UNCHANGED <<count, leaked>>
       \/ record[op.alloc] # None /\ Fails(<<>>) /\ UNCHANGED <<record, made, count, leaked>>
       \/ record[op.alloc] = None /\ Fault /\ Fails(<<>>) /\ Leaks /\ UNCHANGED <<record, made>>
    /\ UNCHANGED <<configVars, agentVars, recoveryVars, cached, snap, task, fifo,
                   unkilled, torn, stranded>>

\* A failure here deletes the container and leaves the snapshot.
SetupFifos ==
    /\ At("fifos")
    /\ \/ fifo' = [fifo EXCEPT ![op.alloc] = TRUE] /\ Goto("task") /\ UNCHANGED <<count, leaked>>
       \/ Fault /\ Fails(<<"record">>) /\ Leaks /\ UNCHANGED fifo
    /\ UNCHANGED <<runFrame, cached, snap, record, task, stranded>>

\* Without a task nothing ever opens the fifos: their readers stay blocked.
CreateTask ==
    /\ At("task")
    /\ \/ /\ task[op.alloc] = "none"
          /\ task' = [task EXCEPT ![op.alloc] = "created"]
          /\ Goto("start") /\ UNCHANGED <<count, stranded>>
       \/ /\ (task[op.alloc] # "none" /\ UNCHANGED count) \/ Fault
          /\ Fails(<<"record", "snap", "fifo">>)
          /\ stranded' = stranded \cup {op.alloc} /\ UNCHANGED task
    /\ UNCHANGED <<runFrame, cached, snap, record, fifo, leaked>>

StartTask ==
    /\ At("start")
    /\ \/ task' = [task EXCEPT ![op.alloc] = "running"] /\ Goto("insert") /\ UNCHANGED count
       \/ Fault /\ Fails(<<"task", "record", "snap", "fifo">>) /\ UNCHANGED task
    /\ UNCHANGED <<runFrame, cached, snap, record, fifo, leaked, stranded>>

\* run_container after run: AllocationMap, RunStarted, exit waiter.
InsertAlloc ==
    /\ At("insert")
    /\ local' = [local EXCEPT ![op.alloc] = op.spec]
    /\ waits' = waits \cup {op.alloc}
    /\ op' = Idle
    /\ UNCHANGED <<configVars, containerdVars, fsm, recoveryVars, count, historyVars>>

RunFailed ==
    /\ op.kind = "undo" /\ op.undo = <<>>
    /\ fsm' = [fsm EXCEPT ![op.alloc] = "dead"]
    /\ op' = Idle
    /\ UNCHANGED <<configVars, containerdVars, local, waits, recoveryVars, count, historyVars>>

-----------------------------------------------------------------------------
(* stop and remove                                                         *)

RemovalKeepsSnapshot == <<"task", "record", "fifo">>
RemoveSteps == <<"task", "record", "snap", "fifo">>

Removes == op' = [op EXCEPT !.pc = "delete", !.undo = RemoveSteps]
InStop(pc) == op.kind \in {"stop", "orphan"} /\ op.pc = pc
Alive(a) == task[a] \in {"created", "running"}

\* stop returns an error; remove follows all the same.
StopFails ==
    /\ Removes
    /\ unkilled' = IF Alive(op.alloc) THEN unkilled \cup {op.alloc} ELSE unkilled

stopFrame == <<configVars, agentVars, recoveryVars, cached, snap, record, fifo,
               made, leaked, torn, stranded>>

Terminate ==
    /\ InStop("term")
    /\ \/ Alive(op.alloc) /\ Goto("wait") /\ UNCHANGED <<unkilled, count>>
       \/ ~Alive(op.alloc) /\ StopFails /\ UNCHANGED count
       \/ Alive(op.alloc) /\ Fault /\ StopFails
    /\ UNCHANGED <<stopFrame, task>>

\* WaitGivesUp takes the timeout for the end of the process.
WaitEnds(late, undo) ==
    /\ InStop("wait")
    /\ \/ ~Alive(op.alloc) /\ Removes /\ UNCHANGED <<unkilled, count>>
       \/ Alive(op.alloc) /\ op' = [op EXCEPT !.pc = late, !.undo = undo] /\ UNCHANGED <<unkilled, count>>
       \/ Fault /\ StopFails
    /\ UNCHANGED <<stopFrame, task>>

WaitGivesUp == WaitEnds("delete", RemoveSteps)
WaitExit == WaitEnds("kill", <<>>)

\* SIGKILL; a task that exits just before it makes the call an error.
Kill ==
    /\ InStop("kill")
    /\ \/ /\ Alive(op.alloc)
          /\ task' = [task EXCEPT ![op.alloc] = "exited"]
          /\ Removes /\ UNCHANGED <<unkilled, count>>
       \/ ~Alive(op.alloc) /\ StopFails /\ UNCHANGED <<task, count>>
       \/ Alive(op.alloc) /\ Fault /\ StopFails /\ UNCHANGED task
    /\ UNCHANGED stopFrame

\* The deletions of remove, and of a run that failed, each of them ignored when
\* it fails but for the container in remove, which returns at once.  A running
\* task cannot be deleted.
Deleting == op.kind \in {"stop", "orphan", "undo"} /\ op.undo # <<>>
Continue(undo) == op' = [op EXCEPT !.undo = undo]

Delete ==
    /\ Deleting
    /\ LET a == op.alloc
           what == Head(op.undo)
       IN  /\ task' = IF what = "task" /\ task[a] # "running"
                      THEN [task EXCEPT ![a] = "none"] ELSE task
           /\ record' = IF what = "record" THEN [record EXCEPT ![a] = None] ELSE record
           /\ snap' = IF what = "snap" THEN [snap EXCEPT ![a] = None] ELSE snap
           /\ leaked' = IF what = "snap" THEN leaked \ {a} ELSE leaked
           /\ fifo' = IF what = "fifo" THEN [fifo EXCEPT ![a] = FALSE] ELSE fifo
    /\ Continue(Tail(op.undo))
    /\ UNCHANGED <<configVars, agentVars, recoveryVars, cached, count, made, unkilled, torn, stranded>>

DeleteFails ==
    /\ Deleting /\ Head(op.undo) # "fifo" /\ Fault
    /\ Continue(IF Head(op.undo) = "record" /\ op.kind # "undo" THEN <<>> ELSE Tail(op.undo))
    /\ IF Head(op.undo) = "snap" THEN Leaks ELSE UNCHANGED leaked
    /\ UNCHANGED <<runFrame, containerdVars, stranded>>

\* stop_container forgets the alloc and reports Stopped; reconcile goes on.
RemoveEnds ==
    /\ InStop("delete") /\ op.undo = <<>>
    /\ op' = Idle
    /\ IF op.kind = "stop"
       THEN /\ local' = [local EXCEPT ![op.alloc] = None]
            /\ fsm' = [fsm EXCEPT ![op.alloc] = "dead"]
            /\ UNCHANGED orphans
       ELSE orphans' = orphans \ {op.alloc} /\ UNCHANGED <<local, fsm>>
    /\ UNCHANGED <<configVars, containerdVars, waits, recover, count, historyVars>>

-----------------------------------------------------------------------------
(* The process, its exit waiter, and the death of the daemon               *)

ProcessExits(a) ==
    /\ task[a] = "running"
    /\ task' = [task EXCEPT ![a] = "exited"]
    /\ UNCHANGED <<configVars, cached, snap, record, fifo, agentVars, op, recoveryVars,
                   count, historyVars>>

\* A wait that fails counts as exit code -1.  The container stays in containerd.
WaiterEnds(a) ==
    /\ a \in waits
    /\ (~Alive(a) /\ UNCHANGED count) \/ Fault
    /\ waits' = waits \ {a}
    /\ local' = [local EXCEPT ![a] = None]
    /\ fsm' = [fsm EXCEPT ![a] = "dead"]
    /\ UNCHANGED <<configVars, containerdVars, op, recoveryVars, historyVars>>

\* The daemon dies at any point and starts again.
Crash ==
    /\ count.crashes < MaxCrashes
    /\ LET busy == IF op.kind \in {"idle", "boot"} THEN {} ELSE {op.alloc}
       IN  leaked' = leaked \cup {a \in busy : snap[a] # None /\ record[a] = None}
    /\ torn' = torn \cup {a \in Allocs : fsm[a] = "live" /\ task[a] = "created"}
    /\ op' = [kind |-> "boot"] /\ recover' = {} /\ orphans' = {}
    /\ waits' = {} /\ local' = [a \in Allocs |-> None] /\ stranded' = {}
    /\ count' = [count EXCEPT !.crashes = @ + 1]
    /\ UNCHANGED <<configVars, containerdVars, fsm, made, unkilled>>

\* reconcile lists the containers, running or not; when that fails it returns
\* without looking at any alloc.
ListManaged ==
    /\ op.kind = "boot"
    /\ op' = Idle
    /\ LET live == {a \in Allocs : fsm[a] = "live"}
       IN  \/ /\ recover' = live
              /\ orphans' = {a \in Allocs : record[a] # None} \ live
              /\ UNCHANGED <<torn, count>>
           \/ Fault /\ torn' = torn \cup live /\ UNCHANGED recoveryVars
    /\ UNCHANGED <<configVars, containerdVars, agentVars, made, leaked, unkilled, stranded>>

StopOrphan(a) ==
    /\ op = Idle /\ a \in orphans
    /\ op' = Op("orphan", a, "term", None)
    /\ UNCHANGED <<configVars, containerdVars, agentVars, recoveryVars, count, historyVars>>

\* An expected alloc without a container is reported stopped, any other is
\* taken over from its labels; RehydrateSkips leaves the missing one out.
Rehydrates(a, missing) ==
    /\ op = Idle /\ orphans = {} /\ a \in recover
    /\ recover' = recover \ {a}
    /\ \/ /\ record[a] = None
          /\ fsm' = [fsm EXCEPT ![a] = missing]
          /\ UNCHANGED <<local, waits, torn, stranded, count>>
       \/ /\ record[a] # None
          /\ local' = [local EXCEPT ![a] = Recovered(record[a].image, record[a].labels)]
          /\ waits' = waits \cup {a}
          /\ stranded' = IF fifo[a] /\ ~Alive(a) THEN stranded \cup {a} ELSE stranded
          /\ UNCHANGED <<fsm, torn, count>>
       \/ /\ record[a] # None /\ Fault
          /\ torn' = torn \cup {a}
          /\ UNCHANGED <<agentVars, stranded>>
    /\ UNCHANGED <<configVars, containerdVars, op, orphans, made, leaked, unkilled>>

RehydrateSkips(a) == Rehydrates(a, "live")
Rehydrate(a) == Rehydrates(a, "dead")

-----------------------------------------------------------------------------
Run ==
    \/ PullImage \/ ReadImageInfo \/ PrepareSnapshot \/ CreateContainer \/ SetupFifos
    \/ CreateTask \/ StartTask \/ InsertAlloc \/ RunFailed

StopAndRemove == Terminate \/ WaitExit \/ Kill \/ Delete \/ DeleteFails \/ RemoveEnds

Reconcile == ListManaged \/ \E a \in Allocs : StopOrphan(a) \/ Rehydrate(a)

RuntimeNext ==
    \/ \E c \in IF raw = None THEN FirstConfigs ELSE NextConfigs : Submit(c)
    \/ config # None /\ \E a \in Allocs, spec \in Specs : Dispatch(a, spec)
    \/ \E a \in Allocs : Stop(a) \/ ProcessExits(a) \/ WaiterEnds(a)
    \/ Run \/ StopAndRemove \/ Reconcile \/ Crash

\* The command loop, reconcile and the exit waiters are tasks of a running
\* daemon; nothing makes a process exit or a command arrive.
RuntimeSpec ==
    /\ RuntimeInit /\ [][RuntimeNext]_runtimeVars
    /\ WF_runtimeVars(Run \/ StopAndRemove \/ Reconcile)
    /\ \A a \in Allocs : WF_runtimeVars(WaiterEnds(a))

-----------------------------------------------------------------------------
(* Properties                                                              *)

\* A container runs on the layers of its own image (create_and_start gives the
\* chain id of the image as the parent of the rootfs).
RootfsIsImage ==
    \A a \in Allocs : Alive(a) /\ record[a] # None =>
        snap[a] \in {None, ImageInfo(record[a].image).chain_id}

\* The same, while no earlier attempt of this id left a snapshot behind: the
\* snapshot of a failed attempt is taken as it is (container.rs:95-105), so a
\* later run of the id with another image starts on the old one.
RootfsIsImageUnlessLeaked ==
    \A a \in Allocs \ leaked : Alive(a) /\ record[a] # None =>
        snap[a] \in {None, ImageInfo(record[a].image).chain_id}

\* A running process has a container, without which list_managed, and so every
\* later reconcile, cannot see it.
NoInvisibleProcess == \A a \in Allocs : task[a] = "running" => record[a] # None

\* The same, but for a stop that failed on a live task: stop_container removes
\* the container "regardless of stop result" (runner.rs:141), and cannot remove
\* the task.
NoInvisibleProcessUnlessUnkilled ==
    \A a \in Allocs \ unkilled : task[a] = "running" => record[a] # None

\* What the AllocationMap says of an alloc is what its container was created
\* from, before and after a restart: the labels carry everything but the
\* environment and the fraction of a second of the timeout.
RecoveredIsMade ==
    \A a \in Allocs : local[a] # None =>
        /\ \A f \in {"kind", "command", "image", "host_port", "cpu", "memory", "volumes"} :
              local[a][f] = made[a][f]
        /\ IF made[a].timeout = None THEN local[a].timeout = None
           ELSE made[a].timeout - local[a].timeout \in 0..999

\* The port the secondary advertises for an alloc is the PORT its process was
\* given, whatever the image and the configuration set PORT to, and after a
\* restart too.
AdvertisedPortIsBound ==
    \A a \in Allocs : local[a] # None /\ record[a] # None /\ local[a].host_port # None =>
        record[a].oci.env["PORT"] = <<local[a].host_port>>

\* The text of a part.
Unparsed(part) ==
    CASE part.part = "literal" -> part.text
      [] part.part = "secret"  -> <<"${", "secret(">> \o part.text \o <<")", "}">>
      [] part.part = "address" -> <<"${", "service.">> \o part.text \o <<".address", "}">>

\* parse_env_value neither drops nor moves text: the parts of a value, written
\* out again, are the value.
ParseIsLossless ==
    raw # None =>
        \A d \in Range(raw.service) \cup Range(raw.task) : \A k \in DOMAIN d.env :
            LET parts == ParseEnvValue(d.env[k]).parts
            IN  Concatenated(LAMBDA i : Unparsed(parts[i]), Len(parts)) = d.env[k]

\* No process is given the text of an interpolation: what resolve accepts is
\* either plain text or is replaced before the Run command is sent.
NoRawInterpolation ==
    config # None =>
        \A spec \in Specs : \A k \in DOMAIN spec.env : "${" \notin Range(spec.env[k])

\* An active alloc does not stay active without a process: it runs, or the
\* failure of its run, its exit or its absence after a restart is reported.
Settles == []<>(\A a \in Allocs : fsm[a] = "live" => task[a] = "running")

\* The same, but for an alloc that reconcile could not take over: the listing
\* or the recovery failed, or the crash left its task created and never
\* started, for whose exit the new waiter waits forever.
SettlesUnlessTorn ==
    []<>(\A a \in Allocs \ torn : fsm[a] = "live" => task[a] = "running")

\* The readers of the log fifos have fifos to open.
ReadersHaveFifos == stranded = {}


-----------------------------------------------------------------------------
(* Why they hold.                                                          *)

\* The deletions a command can have left.
Undos ==
    {<<>>, <<"fifo">>, <<"snap", "fifo">>, <<"record">>, <<"record", "snap", "fifo">>, RemoveSteps}

OpOK ==
    op.kind \notin {"idle", "boot"} =>
        /\ op = [kind |-> op.kind, alloc |-> op.alloc, pc |-> op.pc, spec |-> op.spec, undo |-> op.undo]
        /\ op.kind \in {"run", "stop", "orphan", "undo"}
        /\ op.alloc \in Allocs /\ op.undo \in Undos

StoresOK ==
    /\ task \in [Allocs -> {"none", "created", "running", "exited"}]
    /\ record = [a \in Allocs |-> record[a]] /\ snap = [a \in Allocs |-> snap[a]]
    /\ OpOK

\* A container is created only where no process runs, and deleted only where none
\* does, unless its stop failed.
ProcessInv ==
    /\ NoInvisibleProcessUnlessUnkilled
    /\ op.kind = "run" /\ op.pc \in {"prepare", "create"} => ImageInfo(op.spec.image) # None
    /\ op.kind = "run" /\ op.pc \in {"fifos", "task", "start"} =>
          /\ record[op.alloc] # None
          /\ op.alloc \notin unkilled => task[op.alloc] # "running"
    /\ Deleting /\ op.alloc \notin unkilled => task[op.alloc] # "running"

\* A snapshot without a container belongs to the command that has just made it
\* or is about to delete it, or was left behind.
SnapshotInv ==
    /\ \A a \in Allocs \ leaked :
          /\ record[a] # None => snap[a] \in {None, ImageInfo(record[a].image).chain_id}
          /\ record[a] = None /\ snap[a] # None =>
                \/ At("create") /\ op.alloc = a /\ snap[a] = ImageInfo(op.spec.image).chain_id
                \/ Deleting /\ op.alloc = a /\ op.undo = <<"snap", "fifo">>
    /\ Deleting /\ op.undo = <<"record">> => op.alloc \in leaked
    /\ op.kind \notin {"idle", "boot"} /\ op.pc # "delete" => op.undo = <<>>

\* What a specification has to be for its labels to be read back.
SpecOK(spec) ==
    /\ spec.timeout \in Int \cup {None} /\ spec.volumes # None
    /\ ImageInfo(spec.image) # None => Container(spec) # None
    /\ spec.host_port # None => "PORT" \in DOMAIN spec.env /\ spec.env["PORT"] = <<spec.host_port>>

\* A container carries the specification it was made from, which is the one the
\* run in progress is about to put into the AllocationMap.
MadeInv ==
    /\ config = None \/ (raw \in FirstConfigs \cup NextConfigs /\ config = Resolve(raw))
    /\ made = [a \in Allocs |-> made[a]] /\ local = [a \in Allocs |-> local[a]]
    /\ \A a \in Allocs : record[a] # None =>
          SpecOK(made[a]) /\ record[a] = Container(made[a])
    /\ op.kind = "run" =>
          /\ local[op.alloc] = None /\ SpecOK(op.spec)
          /\ op.pc \in {"fifos", "task", "start", "insert"} => made[op.alloc] = op.spec
    /\ RecoveredIsMade

RuntimeInv == StoresOK /\ ProcessInv /\ SnapshotInv /\ MadeInv

=============================================================================
