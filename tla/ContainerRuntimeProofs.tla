----------------------- MODULE ContainerRuntimeProofs -----------------------
(***************************************************************************)
(* No process without a container, no container on another image's layers, *)
(* and no specification lost over a restart: for any number of allocations,*)
(* configurations, runs, failing calls and deaths of the daemon.           *)
(***************************************************************************)
EXTENDS ContainerRuntime, TLAPS

-----------------------------------------------------------------------------
(* The command being executed. *)

Busy == op.kind \notin {"idle", "boot"}

\* The command keeps its alloc and its specification.
Moves(kind, pc, undo) ==
    /\ OpOK' /\ Busy'
    /\ op'.kind = kind /\ op'.pc = pc /\ op'.undo = undo
    /\ op'.alloc = op.alloc /\ op'.spec = op.spec

\* It goes on to the next call.
LEMMA GotoMoves ==
  ASSUME OpOK, Busy, NEW pc, Goto(pc)
  PROVE  Moves(op.kind, pc, op.undo)
BY Zenon DEF OpOK, Busy, Goto, Moves

\* A run that fails has to undo some of what it did.
LEMMA FailsMoves ==
  ASSUME OpOK, Busy, NEW undo \in Undos, Fails(undo)
  PROVE  Moves("undo", "delete", undo)
BY Zenon DEF OpOK, Busy, Fails, Moves

\* A stop goes on to the deletions of remove.
LEMMA StopMoves ==
  ASSUME OpOK, Busy, NEW pc, NEW undo \in Undos, op' = [op EXCEPT !.pc = pc, !.undo = undo]
  PROVE  Moves(op.kind, pc, undo)
BY Zenon DEF OpOK, Busy, Moves

\* The next deletion.
LEMMA ContinueMoves ==
  ASSUME OpOK, Busy, NEW undo \in Undos, Continue(undo)
  PROVE  Moves(op.kind, op.pc, undo)
BY Zenon DEF OpOK, Busy, Continue, Moves

\* A new command has nothing to delete.
LEMMA NewOp ==
  ASSUME NEW kind \in {"run", "stop", "orphan"}, NEW a \in Allocs, NEW pc, NEW spec,
         op' = Op(kind, a, pc, spec)
  PROVE  /\ OpOK' /\ op'.kind = kind /\ op'.alloc = a /\ op'.pc = pc /\ op'.spec = spec
         /\ op'.undo = <<>>
BY Zenon DEF Op, OpOK, Undos

\* Idle.
LEMMA IdleOp ==
  ASSUME op' = Idle \/ op' = [kind |-> "boot"]
  PROVE  OpOK' /\ op'.kind \in {"idle", "boot"} /\ ~Deleting' /\ \A pc : ~At(pc)'
BY DEF Idle, OpOK, Deleting, At

\* The orders of deletion.
LEMMA UndoOrder ==
  /\ <<>> \in Undos /\ <<"record">> \in Undos /\ <<"record", "snap", "fifo">> \in Undos
  /\ RemoveSteps \in Undos /\ RemoveSteps # <<>> /\ RemoveSteps # <<"record">>
  /\ RemoveSteps = <<"task", "record", "snap", "fifo">>
  /\ \A u \in Undos \ {<<>>} :
        /\ Tail(u) \in Undos /\ Head(u) \in UndoSteps
        /\ Head(u) = "task" => Tail(u) = <<"record", "snap", "fifo">>
        /\ Head(u) = "record" => u = <<"record">> \/ Tail(u) = <<"snap", "fifo">>
        /\ Head(u) = "snap" => u = <<"snap", "fifo">>
        /\ Tail(u) # <<"record">>
        /\ u = <<"record">> => Head(u) = "record"
        /\ u = <<"snap", "fifo">> => Head(u) = "snap"
<1>1. /\ <<>> \in Undos /\ <<"record">> \in Undos /\ <<"record", "snap", "fifo">> \in Undos
      /\ RemoveSteps \in Undos /\ RemoveSteps # <<>> /\ RemoveSteps # <<"record">>
      /\ RemoveSteps = <<"task", "record", "snap", "fifo">>
  BY Zenon DEF Undos, RemoveSteps
<1>2. Tail(<<"task", "record", "snap", "fifo">>) = <<"record", "snap", "fifo">>
  OBVIOUS
<1>3. Tail(<<"record", "snap", "fifo">>) = <<"snap", "fifo">>
  OBVIOUS
<1>4. Tail(<<"snap", "fifo">>) = <<"fifo">>
  OBVIOUS
<1>5. Tail(<<"fifo">>) = <<>> /\ Tail(<<"record">>) = <<>>
  OBVIOUS
<1>6. /\ Head(<<"task", "record", "snap", "fifo">>) = "task" /\ Head(<<"record", "snap", "fifo">>) = "record"
      /\ Head(<<"snap", "fifo">>) = "snap" /\ Head(<<"fifo">>) = "fifo" /\ Head(<<"record">>) = "record"
  OBVIOUS
<1>7. <<"snap", "fifo">> # <<"record">> /\ <<"record", "snap", "fifo">> # <<"record">>
      /\ <<"fifo">> # <<"record">> /\ <<>> # <<"record">>
  BY Zenon
<1> QED BY <1>1, <1>2, <1>3, <1>4, <1>5, <1>6, <1>7, Zenon DEF Undos, UndoSteps

-----------------------------------------------------------------------------
(* The stores of containerd. *)

\* An empty containerd and no command: no container, no snapshot, no process.
LEMMA InitStores == RuntimeInit => StoresOK /\ ProcessInv /\ SnapshotInv
<1> SUFFICES ASSUME RuntimeInit PROVE StoresOK /\ ProcessInv /\ SnapshotInv
  BY Zenon
<1>1. op.kind = "idle" /\ OpOK /\ ~Deleting /\ ~At("create")
  BY Zenon DEF RuntimeInit, Idle, OpOK, Deleting, At
<1>2. StoresOK
  BY <1>1, Zenon DEF RuntimeInit, StoresOK
<1>3. ProcessInv
  BY <1>1, Zenon DEF RuntimeInit, ProcessInv, NoInvisibleProcessUnlessUnkilled
<1>4. SnapshotInv
  BY <1>1, Zenon DEF RuntimeInit, SnapshotInv
<1> QED BY <1>2, <1>3, <1>4, Zenon

\* What a step of the run does to the command: it goes on, or it fails with
\* deletions still to make.
LEMMA RunMoves ==
  ASSUME StoresOK
  PROVE  /\ PullImage => Moves("run", "info", op.undo) \/ Moves("undo", "delete", <<>>)
         /\ ReadImageInfo => Moves("run", "prepare", op.undo) \/ Moves("undo", "delete", <<>>)
         /\ PrepareSnapshot => Moves("run", "create", op.undo) \/ Moves("undo", "delete", <<>>)
         /\ CreateContainer => Moves("run", "fifos", op.undo) \/ Moves("undo", "delete", <<>>)
         /\ SetupFifos => Moves("run", "task", op.undo) \/ Moves("undo", "delete", <<"record">>)
         /\ CreateTask =>
               Moves("run", "start", op.undo) \/ Moves("undo", "delete", <<"record", "snap", "fifo">>)
         /\ StartTask => Moves("run", "insert", op.undo) \/ Moves("undo", "delete", RemoveSteps)
<1>1. ASSUME NEW pc, At(pc) PROVE OpOK /\ Busy /\ op.kind = "run"
  BY <1>1, Zenon DEF StoresOK, At, Busy
<1>2. /\ <<>> \in Undos /\ <<"record">> \in Undos /\ <<"record", "snap", "fifo">> \in Undos
      /\ RemoveSteps \in Undos /\ RemoveSteps = <<"task", "record", "snap", "fifo">>
  BY UndoOrder, Zenon
<1>3. PullImage => Moves("run", "info", op.undo) \/ Moves("undo", "delete", <<>>)
  BY <1>1, <1>2, GotoMoves, FailsMoves, Zenon DEF PullImage
<1>4. ReadImageInfo => Moves("run", "prepare", op.undo) \/ Moves("undo", "delete", <<>>)
  BY <1>1, <1>2, GotoMoves, FailsMoves, Zenon DEF ReadImageInfo
<1>5. PrepareSnapshot => Moves("run", "create", op.undo) \/ Moves("undo", "delete", <<>>)
  BY <1>1, <1>2, GotoMoves, FailsMoves, Zenon DEF PrepareSnapshot
<1>6. CreateContainer => Moves("run", "fifos", op.undo) \/ Moves("undo", "delete", <<>>)
  BY <1>1, <1>2, GotoMoves, FailsMoves, Zenon DEF CreateContainer
<1>7. SetupFifos => Moves("run", "task", op.undo) \/ Moves("undo", "delete", <<"record">>)
  BY <1>1, <1>2, GotoMoves, FailsMoves, Zenon DEF SetupFifos
<1>8. CreateTask =>
         Moves("run", "start", op.undo) \/ Moves("undo", "delete", <<"record", "snap", "fifo">>)
  BY <1>1, <1>2, GotoMoves, FailsMoves, Zenon DEF CreateTask
<1>9. StartTask => Moves("run", "insert", op.undo) \/ Moves("undo", "delete", RemoveSteps)
  BY <1>1, <1>2, GotoMoves, FailsMoves, Zenon DEF StartTask
<1> QED BY <1>3, <1>4, <1>5, <1>6, <1>7, <1>8, <1>9, Zenon

\* What a step of a stop or of a deletion does to the command.
LEMMA StopAndDeleteMove ==
  ASSUME StoresOK
  PROVE  /\ Terminate => Moves(op.kind, "wait", op.undo) \/ Moves(op.kind, "delete", RemoveSteps)
         /\ WaitExit => Moves(op.kind, "kill", <<>>) \/ Moves(op.kind, "delete", RemoveSteps)
         /\ Kill => Moves(op.kind, "delete", RemoveSteps)
         /\ Delete => Moves(op.kind, op.pc, Tail(op.undo))
         /\ DeleteFails =>
              Moves(op.kind, op.pc, IF Head(op.undo) = "record" /\ op.kind # "undo"
                                    THEN <<>> ELSE Tail(op.undo))
<1>1. OpOK
  BY Zenon DEF StoresOK
<1>2. /\ <<>> \in Undos /\ RemoveSteps \in Undos
      /\ \A u \in Undos \ {<<>>} : Tail(u) \in Undos
  BY UndoOrder, Zenon
<1>3. ASSUME NEW pc, InStop(pc) PROVE Busy
  BY <1>3, Zenon DEF InStop, Busy
<1>4. Deleting => Busy /\ Tail(op.undo) \in Undos
  BY <1>1, <1>2, SMTT(30) DEF OpOK, Deleting, Busy
<1>5. Removes /\ Busy => Moves(op.kind, "delete", RemoveSteps)
  BY <1>1, <1>2, StopMoves, Zenon DEF Removes
<1>6. Terminate => Moves(op.kind, "wait", op.undo) \/ Moves(op.kind, "delete", RemoveSteps)
  BY <1>1, <1>3, <1>5, GotoMoves, SMTT(30) DEF Terminate, StopFails
<1>7. WaitExit => Moves(op.kind, "kill", <<>>) \/ Moves(op.kind, "delete", RemoveSteps)
  BY <1>1, <1>2, <1>3, <1>5, StopMoves, Zenon DEF WaitExit, WaitEnds, StopFails
<1>8. Kill => Moves(op.kind, "delete", RemoveSteps)
  BY <1>3, <1>5, Zenon DEF Kill, StopFails
<1>9. Delete => Moves(op.kind, op.pc, Tail(op.undo))
  BY <1>1, <1>4, ContinueMoves, Zenon DEF Delete
<1>10. DeleteFails =>
         Moves(op.kind, op.pc, IF Head(op.undo) = "record" /\ op.kind # "undo"
                               THEN <<>> ELSE Tail(op.undo))
  BY <1>1, <1>2, <1>4, ContinueMoves, Zenon DEF DeleteFails
<1> QED BY <1>6, <1>7, <1>8, <1>9, <1>10, Zenon

\* Every action keeps the types of the stores and of the command.
LEMMA StoresStep == StoresOK /\ [RuntimeNext]_runtimeVars => StoresOK'
<1> SUFFICES ASSUME StoresOK, [RuntimeNext]_runtimeVars PROVE StoresOK'
  BY Zenon
<1>a. /\ task \in [Allocs -> {"none", "created", "running", "exited"}]
      /\ record = [a \in Allocs |-> record[a]] /\ snap = [a \in Allocs |-> snap[a]] /\ OpOK
  BY Zenon DEF StoresOK
<1>m. ASSUME NEW kind, NEW pc, NEW undo, Moves(kind, pc, undo) PROVE OpOK'
  BY <1>m, Zenon DEF Moves
<1>u. UNCHANGED op => OpOK'
  BY <1>a, Zenon DEF OpOK
<1>1. ASSUME NEW c, Submit(c) PROVE StoresOK'
  BY <1>1, <1>a, <1>u, Zenon DEF Submit, containerdVars, StoresOK
<1>2. ASSUME NEW a \in Allocs, NEW spec, Dispatch(a, spec) PROVE StoresOK'
  <2>1. OpOK'
    BY <1>2, NewOp, Zenon DEF Dispatch
  <2> QED BY <2>1, <1>2, <1>a, Zenon DEF Dispatch, containerdVars, StoresOK
<1>3. ASSUME NEW a \in Allocs, Stop(a) \/ StopOrphan(a) PROVE StoresOK'
  <2>1. OpOK'
    BY <1>3, NewOp, Zenon DEF Stop, StopOrphan
  <2> QED BY <2>1, <1>3, <1>a, Zenon DEF Stop, StopOrphan, containerdVars, StoresOK
<1>4. ASSUME NEW a \in Allocs, ProcessExits(a) PROVE StoresOK'
  BY <1>4, <1>a, <1>u, Zenon DEF ProcessExits, StoresOK
<1>5. ASSUME NEW a \in Allocs, WaiterEnds(a) \/ Rehydrate(a) PROVE StoresOK'
  BY <1>5, <1>a, <1>u, Zenon DEF WaiterEnds, Rehydrate, Rehydrates, containerdVars, StoresOK
<1>6. CASE PullImage \/ ReadImageInfo
  <2>1. OpOK'
    BY <1>6, <1>m, RunMoves, Zenon
  <2> QED BY <2>1, <1>6, <1>a, Zenon DEF PullImage, ReadImageInfo, containerdVars, StoresOK
<1>7. CASE PrepareSnapshot
  <2>1. OpOK'
    BY <1>7, <1>m, RunMoves, Zenon
  <2> QED BY <2>1, <1>7, <1>a, Zenon DEF PrepareSnapshot, StoresOK
<1>8. CASE CreateContainer
  <2>1. OpOK'
    BY <1>8, <1>m, RunMoves, Zenon
  <2> QED BY <2>1, <1>8, <1>a, Zenon DEF CreateContainer, StoresOK
<1>9. CASE SetupFifos
  <2>1. OpOK'
    BY <1>9, <1>m, RunMoves, Zenon
  <2> QED BY <2>1, <1>9, <1>a, Zenon DEF SetupFifos, StoresOK
<1>10. CASE CreateTask
  <2>1. OpOK'
    BY <1>10, <1>m, RunMoves, Zenon
  <2> QED BY <2>1, <1>10, <1>a, Zenon DEF CreateTask, StoresOK
<1>11. CASE StartTask
  <2>1. OpOK'
    BY <1>11, <1>m, RunMoves, Zenon
  <2> QED BY <2>1, <1>11, <1>a, Zenon DEF StartTask, StoresOK
<1>12. CASE InsertAlloc \/ RunFailed \/ RemoveEnds \/ ListManaged \/ Crash
  <2>1. OpOK'
    BY <1>12, IdleOp, Zenon DEF InsertAlloc, RunFailed, RemoveEnds, ListManaged, Crash
  <2> QED BY <2>1, <1>12, <1>a, Zenon
      DEF InsertAlloc, RunFailed, RemoveEnds, ListManaged, Crash, containerdVars, StoresOK
<1>13. CASE Terminate \/ WaitExit
  <2>1. OpOK'
    BY <1>13, <1>m, StopAndDeleteMove, Zenon
  <2> QED BY <2>1, <1>13, <1>a, Zenon DEF Terminate, WaitExit, WaitEnds, stopFrame, StoresOK
<1>14. CASE Kill
  <2>1. OpOK'
    BY <1>14, <1>m, StopAndDeleteMove, Zenon
  <2> QED BY <2>1, <1>14, <1>a, Zenon DEF Kill, stopFrame, StoresOK
<1>15. CASE Delete
  <2>1. OpOK'
    BY <1>15, <1>m, StopAndDeleteMove, Zenon
  <2> QED BY <2>1, <1>15, <1>a, Zenon DEF Delete, StoresOK
<1>16. CASE DeleteFails
  <2>1. OpOK'
    BY <1>16, <1>m, StopAndDeleteMove, Zenon
  <2> QED BY <2>1, <1>16, <1>a, Zenon DEF DeleteFails, containerdVars, StoresOK
<1>17. CASE UNCHANGED runtimeVars
  BY <1>17, <1>a, <1>u, Zenon DEF runtimeVars, containerdVars, StoresOK
<1> QED BY <1>1, <1>2, <1>3, <1>4, <1>5, <1>6, <1>7, <1>8, <1>9, <1>10, <1>11, <1>12, <1>13,
           <1>14, <1>15, <1>16, <1>17, Zenon DEF RuntimeNext, Run, StopAndRemove, Reconcile

-----------------------------------------------------------------------------
(* No process without a container. *)

\* No action leaves a process without a container, but for a stop that failed:
\* the container is created where no process runs, a run fails before its
\* process does, and a stop that goes on to remove has seen the task dead or
\* counts as failed.
LEMMA ProcessStep ==
  StoresOK /\ ProcessInv /\ MadeInv /\ [RuntimeNext]_runtimeVars => ProcessInv'
<1> SUFFICES ASSUME StoresOK, ProcessInv, MadeInv, [RuntimeNext]_runtimeVars PROVE ProcessInv'
  BY Zenon
<1>a. /\ task \in [Allocs -> {"none", "created", "running", "exited"}]
      /\ record = [a \in Allocs |-> record[a]]
      /\ Busy => op.alloc \in Allocs
  BY Zenon DEF StoresOK, OpOK, Busy
<1>b. /\ \A a \in Allocs \ unkilled : task[a] = "running" => record[a] # None
      /\ op.kind = "run" /\ op.pc \in {"prepare", "create"} => ImageInfo(op.spec.image) # None
      /\ op.kind = "run" /\ op.pc \in {"fifos", "task", "start"} =>
            /\ record[op.alloc] # None
            /\ op.alloc \notin unkilled => task[op.alloc] # "running"
      /\ Deleting /\ op.alloc \notin unkilled => task[op.alloc] # "running"
  BY Zenon DEF ProcessInv, NoInvisibleProcessUnlessUnkilled
<1> DEFINE Early(o) == o.kind = "run" /\ o.pc \in {"prepare", "create"}
           Late(o) == o.kind = "run" /\ o.pc \in {"fifos", "task", "start"}
\* A step that leaves the containers and the command alone.
<1>e. ASSUME UNCHANGED <<record, op, unkilled>>,
             \A a \in Allocs : task'[a] = "running" => task[a] = "running"
      PROVE  ProcessInv'
  BY <1>a, <1>b, <1>e, Zenon DEF ProcessInv, NoInvisibleProcessUnlessUnkilled, Deleting, Busy
\* A step that leaves the containers alone.
<1>f. ASSUME UNCHANGED record, unkilled \subseteq unkilled',
             \A a \in Allocs : task'[a] = "running" => task[a] = "running",
             ~Early(op') /\ ~Late(op'),
             Deleting' => op'.alloc \in unkilled' \/ task'[op'.alloc] # "running"
      PROVE  ProcessInv'
  BY <1>b, <1>f, Zenon DEF ProcessInv, NoInvisibleProcessUnlessUnkilled
<1>n. ASSUME op'.undo = <<>> \/ op'.kind \in {"idle", "boot", "run"} PROVE ~Deleting'
  BY <1>n, Zenon DEF Deleting
<1>1. ASSUME NEW c, Submit(c) PROVE ProcessInv'
  BY <1>1, <1>e, Zenon DEF Submit, containerdVars, historyVars
<1>2. ASSUME NEW a \in Allocs, NEW spec, Dispatch(a, spec) PROVE ProcessInv'
  BY <1>2, <1>f, <1>n, NewOp DEF Dispatch, containerdVars, historyVars
<1>3. ASSUME NEW a \in Allocs, Stop(a) \/ StopOrphan(a) PROVE ProcessInv'
  BY <1>3, <1>f, <1>n, NewOp, Zenon DEF Stop, StopOrphan, containerdVars, historyVars
<1>4. ASSUME NEW a \in Allocs, ProcessExits(a) PROVE ProcessInv'
  BY <1>4, <1>a, <1>e, Zenon DEF ProcessExits, historyVars
<1>5. ASSUME NEW a \in Allocs, WaiterEnds(a) \/ Rehydrate(a) PROVE ProcessInv'
  BY <1>5, <1>e, Zenon DEF WaiterEnds, Rehydrate, Rehydrates, containerdVars, historyVars
<1>6. CASE PullImage
  <2>1. ~Deleting' /\ ~Early(op') /\ ~Late(op')
    BY <1>6, <1>n, RunMoves, Zenon DEF Moves
  <2> QED BY <2>1, <1>6, <1>f, Zenon DEF PullImage, runFrame
<1>7. CASE ReadImageInfo
  <2>1. op'.kind = "run" => Goto("prepare")
    BY <1>7, UndoOrder, FailsMoves, Zenon DEF ReadImageInfo, At, StoresOK, Busy, Moves
  <2>2. op'.kind = "run" => ImageInfo(op.spec.image) # None
    BY <1>7, UndoOrder, FailsMoves, Zenon DEF ReadImageInfo, At, StoresOK, Busy, Moves
  <2>3. ~Deleting' /\ ~Late(op') /\ op'.spec = op.spec
    BY <1>7, <1>n, RunMoves, Zenon DEF Moves
  <2>4. UNCHANGED <<record, task, unkilled>>
    BY <1>7, Zenon DEF ReadImageInfo, containerdVars, runFrame
  <2> QED BY <2>2, <2>3, <2>4, <1>b, Zenon DEF ProcessInv, NoInvisibleProcessUnlessUnkilled
<1>8. CASE PrepareSnapshot
  <2>1. ~Deleting' /\ ~Late(op') /\ op'.spec = op.spec
    BY <1>8, <1>n, RunMoves, Zenon DEF Moves
  <2>2. UNCHANGED <<record, task, unkilled>> /\ At("prepare")
    BY <1>8, Zenon DEF PrepareSnapshot, runFrame
  <2> QED BY <2>1, <2>2, <1>b, Zenon DEF ProcessInv, NoInvisibleProcessUnlessUnkilled, At
<1>9. CASE CreateContainer
  <2>1. /\ At("create") /\ op.alloc \in Allocs /\ UNCHANGED <<task, unkilled>>
    BY <1>9, <1>a, Zenon DEF CreateContainer, At, Busy
  <2>2. ~Deleting' /\ ~Early(op') /\ op'.alloc = op.alloc
    BY <1>9, <1>n, RunMoves, Zenon DEF Moves
  <2>3. CASE /\ record[op.alloc] = None
             /\ record' = [record EXCEPT ![op.alloc] = Container(op.spec)]
    <3>1. op.alloc \in unkilled \/ task[op.alloc] # "running"
      BY <2>1, <2>3, <1>b, Zenon
    <3>2. Container(op.spec) # None
      BY <2>1, <1>b, Zenon DEF At, MadeInv, SpecOK
    <3>3. record'[op.alloc] # None /\ \A a \in Allocs : a # op.alloc => record'[a] = record[a]
      BY <1>a, <2>1, <2>3, <3>2, Zenon
    <3> HIDE <2>3
    <3> QED BY <2>1, <2>2, <3>1, <3>3, <1>b, Zenon DEF ProcessInv, NoInvisibleProcessUnlessUnkilled
  <2>4. CASE UNCHANGED record /\ Fails(<<>>)
    <3>1. op'.kind = "undo"
      BY <2>1, <2>4, UndoOrder, FailsMoves, Zenon DEF StoresOK, At, Busy, Moves
    <3> QED BY <2>1, <2>2, <2>4, <3>1, <1>f, Zenon
  <2> QED BY <1>9, <2>3, <2>4, Zenon DEF CreateContainer
<1>10. CASE SetupFifos
  <2>1. /\ op'.alloc = op.alloc /\ ~Early(op') /\ record[op.alloc] # None
        /\ op.alloc \in unkilled \/ task[op.alloc] # "running"
    BY <1>10, <1>b, RunMoves, Zenon DEF SetupFifos, At, Moves
  <2>2. UNCHANGED <<record, task, unkilled>>
    BY <1>10, Zenon DEF SetupFifos, runFrame
  <2> QED BY <2>1, <2>2, <1>b, Zenon DEF ProcessInv, NoInvisibleProcessUnlessUnkilled
<1>11. CASE CreateTask
  <2>1. /\ op'.alloc = op.alloc /\ op.alloc \in Allocs /\ ~Early(op') /\ record[op.alloc] # None
        /\ op.alloc \in unkilled \/ task[op.alloc] # "running"
    BY <1>11, <1>a, <1>b, RunMoves, Zenon DEF CreateTask, At, Moves, Busy
  <2>2. /\ \A a \in Allocs : task'[a] = "running" => task[a] = "running"
        /\ op.alloc \in unkilled \/ task'[op.alloc] # "running"
    BY <1>11, <1>a, <2>1, Zenon DEF CreateTask
  <2>3. UNCHANGED <<record, unkilled>>
    BY <1>11, Zenon DEF CreateTask, runFrame
  <2> QED BY <2>1, <2>2, <2>3, <1>b, Zenon DEF ProcessInv, NoInvisibleProcessUnlessUnkilled
<1>12. CASE StartTask
  <2>1. /\ op'.alloc = op.alloc /\ op.alloc \in Allocs /\ ~Early(op') /\ ~Late(op')
        /\ record[op.alloc] # None
    BY <1>12, <1>a, <1>b, RunMoves, Zenon DEF StartTask, At, Moves, Busy
  <2>2. UNCHANGED <<record, unkilled>>
    BY <1>12, Zenon DEF StartTask, runFrame
  <2>3. CASE Goto("insert") /\ task' = [task EXCEPT ![op.alloc] = "running"]
    <3>1. ~Deleting'
      BY <1>12, <2>3, GotoMoves, <1>n, Zenon DEF StartTask, At, StoresOK, Busy, Moves
    <3>2. NoInvisibleProcessUnlessUnkilled'
      BY <2>1, <2>2, <2>3, <1>a, <1>b, Zenon DEF NoInvisibleProcessUnlessUnkilled
    <3> QED BY <2>1, <3>1, <3>2, Zenon DEF ProcessInv
  <2>4. CASE UNCHANGED task
    <3>1. op.alloc \in unkilled \/ task[op.alloc] # "running"
      BY <1>12, <1>b, Zenon DEF StartTask, At
    <3> QED BY <2>1, <2>2, <2>4, <3>1, <1>f, Zenon
  <2> QED BY <1>12, <2>3, <2>4, Zenon DEF StartTask
<1>13. CASE InsertAlloc \/ RunFailed \/ RemoveEnds \/ ListManaged \/ Crash
  <2>1. ~Deleting' /\ ~Early(op') /\ ~Late(op')
    BY <1>13, IdleOp, Zenon DEF InsertAlloc, RunFailed, RemoveEnds, ListManaged, Crash
  <2> QED BY <2>1, <1>13, <1>f, Zenon
      DEF InsertAlloc, RunFailed, RemoveEnds, ListManaged, Crash, containerdVars, historyVars
<1>14. CASE Terminate
  <2>1. /\ op.kind \in {"stop", "orphan"} /\ op'.kind = op.kind /\ op'.alloc = op.alloc
        /\ UNCHANGED <<record, task>> /\ unkilled \subseteq unkilled'
    BY <1>14, StopAndDeleteMove, Zenon DEF Terminate, InStop, Moves, stopFrame, StopFails
  <2>2. StopFails => op.alloc \in unkilled' \/ task[op.alloc] # "running"
    BY Zenon DEF StopFails, Alive
  <2>3. Goto("wait") /\ Alive(op.alloc) => op'.pc = "wait" /\ op'.undo = op.undo
    BY <2>1, GotoMoves, Zenon DEF StoresOK, Busy, Moves
  <2> QED BY <1>14, <2>1, <2>2, <2>3, <1>b, <1>f, Zenon DEF Terminate, Deleting
<1>15. CASE WaitExit
  <2>1. /\ op.kind \in {"stop", "orphan"} /\ op'.kind = op.kind /\ op'.alloc = op.alloc
        /\ UNCHANGED <<record, task>> /\ unkilled \subseteq unkilled'
    BY <1>15, StopAndDeleteMove, Zenon DEF WaitExit, WaitEnds, InStop, Moves, stopFrame, StopFails
  <2>2. \/ op.alloc \in unkilled' \/ task[op.alloc] # "running"
        \/ op' = [op EXCEPT !.pc = "kill", !.undo = <<>>]
    BY <1>15, Zenon DEF WaitExit, WaitEnds, StopFails, Alive
  <2>3. op' = [op EXCEPT !.pc = "kill", !.undo = <<>>] => ~Deleting'
    <3>1. OpOK /\ Busy /\ <<>> \in Undos
      BY <2>1, UndoOrder, SMTT(30) DEF StoresOK, Busy
    <3>2. op' = [op EXCEPT !.pc = "kill", !.undo = <<>>] => Moves(op.kind, "kill", <<>>)
      BY <3>1, StopMoves, Zenon
    <3> QED BY <3>2, <1>n, Zenon DEF Moves
  <2> QED BY <2>1, <2>2, <2>3, <1>f, Zenon
<1>16. CASE Kill
  <2>1. /\ op.kind \in {"stop", "orphan"} /\ op'.kind = op.kind /\ op'.alloc = op.alloc
        /\ UNCHANGED record /\ unkilled \subseteq unkilled' /\ op.alloc \in Allocs
    BY <1>16, <1>a, StopAndDeleteMove, Zenon DEF Kill, InStop, Moves, stopFrame, StopFails, Busy
  <2>2. /\ op.alloc \in unkilled' \/ task'[op.alloc] # "running"
        /\ \A a \in Allocs : task'[a] = "running" => task[a] = "running"
    BY <1>16, <2>1, <1>a, Zenon DEF Kill, StopFails, Alive
  <2> QED BY <2>1, <2>2, <1>f, Zenon
<1>17. CASE Delete
  <2>1. /\ Deleting /\ op.alloc \in Allocs /\ op'.kind = op.kind /\ op'.alloc = op.alloc
        /\ op.kind # "run" /\ UNCHANGED unkilled
    BY <1>17, <1>a, StopAndDeleteMove, Zenon DEF Delete, Deleting, Moves, Busy
  <2>2. op.alloc \in unkilled \/ task[op.alloc] # "running"
    BY <2>1, <1>b, Zenon
  <2>3. /\ \A a \in Allocs : task'[a] = "running" => task[a] = "running"
        /\ op.alloc \in unkilled \/ task'[op.alloc] # "running"
    BY <1>17, <2>1, <2>2, <1>a, Zenon DEF Delete
  <2>4. \A a \in Allocs : a # op.alloc => record'[a] = record[a]
    BY <1>17, <1>a, Zenon DEF Delete
  <2>5. NoInvisibleProcessUnlessUnkilled'
    BY <2>1, <2>3, <2>4, <1>b, Zenon DEF NoInvisibleProcessUnlessUnkilled
  <2> QED BY <2>1, <2>3, <2>5, Zenon DEF ProcessInv
<1>18. CASE DeleteFails
  <2>1. /\ Deleting /\ op'.kind = op.kind /\ op'.alloc = op.alloc
        /\ op.kind # "run" /\ UNCHANGED <<record, task, unkilled>>
    BY <1>18, StopAndDeleteMove, Zenon DEF DeleteFails, Deleting, Moves, runFrame, containerdVars
  <2> QED BY <2>1, <1>b, <1>f, Zenon
<1>19. CASE UNCHANGED runtimeVars
  BY <1>19, <1>e, Zenon DEF runtimeVars, containerdVars, historyVars
<1> QED BY <1>1, <1>2, <1>3, <1>4, <1>5, <1>6, <1>7, <1>8, <1>9, <1>10, <1>11, <1>12, <1>13,
           <1>14, <1>15, <1>16, <1>17, <1>18, <1>19, Zenon DEF RuntimeNext, Run, StopAndRemove, Reconcile

-----------------------------------------------------------------------------
(* A container on the layers of its own image. *)

\* No action puts a container on another image's snapshot, but for one left
\* behind: a snapshot is deleted after its container, and an attempt that ends
\* without deleting the snapshot it made leaves it behind.
LEMMA SnapshotStep ==
  StoresOK /\ ProcessInv /\ SnapshotInv /\ MadeInv /\ [RuntimeNext]_runtimeVars => SnapshotInv'
<1> SUFFICES ASSUME StoresOK, ProcessInv, SnapshotInv, MadeInv, [RuntimeNext]_runtimeVars PROVE SnapshotInv'
  BY Zenon
<1> DEFINE Claims == At("create") \/ (Deleting /\ op.undo = <<"snap", "fifo">>)
           Served(a) == record[a] # None => snap[a] \in {None, ImageInfo(record[a].image).chain_id}
           Owned(a) ==
              record[a] = None /\ snap[a] # None =>
                \/ At("create") /\ op.alloc = a /\ snap[a] = ImageInfo(op.spec.image).chain_id
                \/ Deleting /\ op.alloc = a /\ op.undo = <<"snap", "fifo">>
<1>a. /\ record = [a \in Allocs |-> record[a]] /\ snap = [a \in Allocs |-> snap[a]]
      /\ Busy => op.alloc \in Allocs /\ op.undo \in Undos
  BY Zenon DEF StoresOK, OpOK, Busy
<1>b. /\ \A a \in Allocs \ leaked : Served(a) /\ Owned(a)
      /\ Deleting /\ op.undo = <<"record">> => op.alloc \in leaked
      /\ Busy /\ op.pc # "delete" => op.undo = <<>>
  BY Zenon DEF SnapshotInv, Busy
<1>c. ASSUME NEW a \in Allocs \ leaked, ~Claims \/ op.alloc # a, record[a] = None PROVE snap[a] = None
  BY <1>b, <1>c, Zenon
<1>d. ASSUME op.kind \notin {"stop", "orphan", "undo"} \/ op.undo = <<>>, ~At("create") PROVE ~Claims
  BY <1>d, Zenon DEF Deleting
<1> HIDE DEF Claims
<1>q. /\ <<>> # <<"record">> /\ <<"record", "snap", "fifo">> # <<"record">>
      /\ RemoveSteps # <<"record">> /\ <<"snap", "fifo">> # <<>>
  BY Zenon DEF RemoveSteps
\* A step that leaves the containers, the snapshots and the command alone.
<1>e. ASSUME UNCHANGED <<record, snap, op, leaked>> PROVE SnapshotInv'
  BY <1>e, Zenon DEF SnapshotInv, Deleting, At
\* A step that leaves the containers and the snapshots alone, of a command that
\* claims no snapshot or leaves its snapshot behind.
<1>f. ASSUME UNCHANGED <<record, snap>>, leaked \subseteq leaked',
             Claims => op.alloc \in leaked' \/ record[op.alloc] # None \/ snap[op.alloc] = None,
             Busy' /\ op'.pc # "delete" => op'.undo = <<>>,
             Deleting' /\ op'.undo = <<"record">> => op'.alloc \in leaked'
      PROVE  SnapshotInv'
  <2>1. ASSUME NEW a \in Allocs \ leaked' PROVE Served(a) /\ (record[a] = None => snap[a] = None)
    <3>1. a \notin leaked
      BY <2>1, <1>f, Zenon
    <3> QED BY <3>1, <2>1, <1>b, <1>c, <1>f, Zenon
  <2>2. \A a \in Allocs \ leaked' : Served(a)' /\ Owned(a)'
    BY <2>1, <1>f, Zenon
  <2> QED BY <2>2, <1>f, Zenon DEF SnapshotInv, Busy
<1>n. ASSUME op'.kind \in {"idle", "boot"}
      PROVE  ~Busy' /\ ~Deleting'
  BY <1>n, Zenon DEF Busy, Deleting
<1>1. ASSUME NEW c, Submit(c) PROVE SnapshotInv'
  BY <1>1, <1>e, Zenon DEF Submit, containerdVars, historyVars
<1>2. ASSUME NEW a \in Allocs, NEW spec, Dispatch(a, spec) PROVE SnapshotInv'
  <2>1. ~Claims
    BY <1>2, <1>d, Zenon DEF Dispatch, Ready, Idle, At
  <2>2. op'.undo = <<>> /\ <<>> # <<"record">>
    BY <1>2, NewOp, Zenon DEF Dispatch
  <2> QED BY <1>2, <2>1, <2>2, <1>f, Zenon DEF Dispatch, containerdVars, historyVars
<1>3. ASSUME NEW a \in Allocs, Stop(a) \/ StopOrphan(a) PROVE SnapshotInv'
  <2>1. ~Claims
    BY <1>3, <1>d DEF Stop, StopOrphan, Ready, Idle, At
  <2>2. op'.undo = <<>> /\ <<>> # <<"record">>
    BY <1>3, NewOp, Zenon DEF Stop, StopOrphan
  <2> QED BY <1>3, <2>1, <2>2, <1>f, Zenon DEF Stop, StopOrphan, containerdVars, historyVars
<1>4. ASSUME NEW a \in Allocs, ProcessExits(a) \/ WaiterEnds(a) \/ Rehydrate(a) PROVE SnapshotInv'
  BY <1>4, <1>e, SMTT(30) DEF ProcessExits, WaiterEnds, Rehydrate, Rehydrates, containerdVars, historyVars
<1>5. CASE PullImage \/ ReadImageInfo
  <2>1. ~Claims /\ op.undo = <<>>
    BY <1>5, <1>b, <1>d, Zenon DEF PullImage, ReadImageInfo, At, Busy
  <2>2. op'.undo = <<>> /\ <<>> # <<"record">>
    BY <1>5, <2>1, RunMoves, SMTT(30) DEF Moves
  <2> QED BY <1>5, <2>1, <2>2, <1>f, Zenon DEF PullImage, ReadImageInfo, containerdVars, runFrame
<1>6. CASE PrepareSnapshot
  <2>1. ~Claims /\ op.undo = <<>> /\ op.alloc \in Allocs
    BY <1>6, <1>a, <1>b, <1>d, Zenon DEF PrepareSnapshot, At, Busy
  <2>2. op'.undo = <<>> /\ op'.alloc = op.alloc /\ op'.spec = op.spec /\ <<>> # <<"record">>
    BY <1>6, <2>1, RunMoves, SMTT(30) DEF Moves
  <2>3. UNCHANGED record
    BY <1>6, Zenon DEF PrepareSnapshot
  <2>4. CASE UNCHANGED <<snap, leaked>>
    BY <2>1, <2>2, <2>3, <2>4, <1>f, Zenon
  <2>5. CASE /\ snap' = [snap EXCEPT ![op.alloc] =
                            IF @ = None THEN ImageInfo(op.spec.image).chain_id ELSE @]
             /\ IF snap[op.alloc] = None /\ record[op.alloc] # None THEN Leaks ELSE UNCHANGED leaked
             /\ Goto("create")
    <3>1. At("create")'
      BY <1>6, <2>5, GotoMoves, Zenon DEF PrepareSnapshot, At, StoresOK, Busy, Moves
    <3>2. leaked \subseteq leaked'
      BY <2>5, Zenon DEF Leaks
    <3>3. ASSUME NEW a \in Allocs \ leaked', a # op.alloc PROVE Served(a)' /\ Owned(a)'
      <4>1. snap'[a] = snap[a] /\ record'[a] = record[a] /\ Served(a) /\ (record[a] = None => snap[a] = None)
        BY <2>1, <2>3, <2>5, <3>2, <3>3, <1>a, <1>b, <1>c, Zenon
      <4> QED BY <4>1, Zenon
    <3>4. ASSUME op.alloc \notin leaked' PROVE Served(op.alloc)' /\ Owned(op.alloc)'
      <4>1. CASE record[op.alloc] # None
        <5>1. snap[op.alloc] # None
          BY <2>5, <3>4, <4>1, Zenon DEF Leaks
        <5>2. UNCHANGED snap
          BY <5>1, <2>1, <2>5, <1>a, Zenon
        <5> QED BY <2>1, <2>2, <2>3, <3>2, <3>4, <4>1, <5>2, <1>b, Zenon
      <4>2. CASE record[op.alloc] = None
        <5>1. snap[op.alloc] = None
          BY <2>1, <3>2, <3>4, <4>2, <1>c, Zenon
        <5>2. snap'[op.alloc] = ImageInfo(op.spec.image).chain_id
          BY <5>1, <2>1, <2>5, <1>a, Zenon
        <5> QED BY <2>2, <2>3, <3>1, <4>2, <5>2, Zenon
      <4> QED BY <4>1, <4>2, Zenon
    <3>5. \A a \in Allocs \ leaked' : Served(a)' /\ Owned(a)'
      BY <2>2, <3>3, <3>4, Zenon
    <3> QED BY <2>2, <3>5, Zenon DEF SnapshotInv, Deleting
  <2> QED BY <1>6, <2>4, <2>5, Zenon DEF PrepareSnapshot
<1>7. CASE CreateContainer
  <2>1. At("create") /\ op.undo = <<>> /\ op.alloc \in Allocs /\ UNCHANGED snap
    BY <1>7, <1>a, <1>b, Zenon DEF CreateContainer, At, Busy
  <2>2. op'.undo = <<>> /\ <<>> # <<"record">>
    BY <1>7, <2>1, RunMoves, Zenon DEF Moves
  <2>3. CASE record[op.alloc] # None /\ UNCHANGED <<record, leaked>>
    BY <2>1, <2>2, <2>3, <1>f, Zenon
  <2>4. CASE Leaks /\ UNCHANGED record
    BY <2>1, <2>2, <2>4, <1>f, Zenon DEF Leaks
  <2>5. CASE /\ record[op.alloc] = None /\ UNCHANGED leaked
             /\ record' = [record EXCEPT ![op.alloc] = Container(op.spec)]
    <3>1. Container(op.spec) # None
      BY <2>1, Zenon DEF At, ProcessInv, MadeInv, SpecOK
    <3>2. record'[op.alloc].image = op.spec.image /\ record'[op.alloc] # None
      BY <2>1, <2>5, <3>1, <1>a, Zenon DEF Container
    <3>3. ASSUME NEW a \in Allocs \ leaked', a # op.alloc PROVE Served(a)' /\ Owned(a)'
      <4>1. /\ snap'[a] = snap[a] /\ record'[a] = record[a] /\ Served(a)
            /\ record[a] = None => snap[a] = None
        BY <2>1, <2>5, <3>3, <1>a, <1>b, <1>c, Zenon
      <4> QED BY <4>1, Zenon
    <3>4. ASSUME op.alloc \notin leaked' PROVE Served(op.alloc)' /\ Owned(op.alloc)'
      <4>1. snap[op.alloc] \in {None, ImageInfo(op.spec.image).chain_id}
        BY <2>1, <2>5, <3>4, <1>b, SMTT(30) DEF Deleting
      <4>2. op'.alloc = op.alloc
        BY <1>7, RunMoves, Zenon DEF Moves
      <4> QED BY <2>1, <3>2, <4>1, <4>2, Zenon
    <3>5. op'.alloc = op.alloc
      BY <1>7, RunMoves, SMTT(30) DEF Moves
    <3>6. \A a \in Allocs \ leaked' : Served(a)' /\ Owned(a)'
      BY <3>3, <3>4, <3>5, Zenon
    <3> QED BY <2>2, <3>6, Zenon DEF SnapshotInv, Deleting
  <2> QED BY <1>7, <2>3, <2>4, <2>5, Zenon DEF CreateContainer
<1>8. CASE SetupFifos
  <2>1. ~Claims /\ op.undo = <<>>
    BY <1>8, <1>b, <1>d, Zenon DEF SetupFifos, At, Busy
  <2>2. CASE Goto("task") /\ UNCHANGED leaked
    <3>1. op'.undo = <<>> /\ <<>> # <<"record">>
      BY <1>8, <2>1, <2>2, GotoMoves, Zenon DEF SetupFifos, At, StoresOK, Busy, Moves
    <3> QED BY <1>8, <2>1, <2>2, <3>1, <1>f, Zenon DEF SetupFifos, runFrame
  <2>3. CASE Fails(<<"record">>) /\ Leaks
    <3>1. op'.pc = "delete" /\ op'.alloc = op.alloc
      BY <1>8, <2>3, FailsMoves, UndoOrder, Zenon DEF SetupFifos, At, StoresOK, Busy, Moves
    <3> QED BY <1>8, <2>1, <2>3, <3>1, <1>f, Zenon DEF SetupFifos, runFrame, Leaks
  <2> QED BY <1>8, <2>2, <2>3, Zenon DEF SetupFifos
<1>9. CASE CreateTask \/ StartTask
  <2>1. ~Claims /\ op.undo = <<>>
    BY <1>9, <1>b, <1>d, Zenon DEF CreateTask, StartTask, At, Busy
  <2>2. op'.undo # <<"record">> /\ (op'.pc # "delete" => op'.undo = <<>>)
    <3>1. \/ op'.undo = op.undo
          \/ op'.pc = "delete" /\ op'.undo \in {<<"record", "snap", "fifo">>, RemoveSteps}
      BY <1>9, RunMoves, Zenon DEF Moves
    <3> QED BY <2>1, <3>1, <1>q, Zenon
  <2> QED BY <1>9, <2>1, <2>2, <1>f, Zenon DEF CreateTask, StartTask, runFrame
<1>10. CASE InsertAlloc \/ RunFailed \/ RemoveEnds \/ ListManaged
  <2>1. ~Claims
    BY <1>10, <1>d, Zenon DEF InsertAlloc, RunFailed, RemoveEnds, ListManaged, At, InStop
  <2>2. op'.kind \in {"idle", "boot"}
    BY <1>10, IdleOp, Zenon DEF InsertAlloc, RunFailed, RemoveEnds, ListManaged
  <2> QED BY <1>10, <2>1, <2>2, <1>f, <1>n, Zenon
      DEF InsertAlloc, RunFailed, RemoveEnds, ListManaged, containerdVars, historyVars
<1>11. CASE Crash
  <2>1. op'.kind \in {"idle", "boot"}
    BY <1>11, IdleOp, Zenon DEF Crash
  <2>2. Claims => Busy
    BY Zenon DEF Claims, At, Deleting, Busy
  <2>3. Claims => op.alloc \in leaked' \/ record[op.alloc] # None \/ snap[op.alloc] = None
    BY <1>11, <2>2, Zenon DEF Crash, Busy
  <2>4. UNCHANGED <<record, snap>> /\ leaked \subseteq leaked'
    BY <1>11, Zenon DEF Crash, containerdVars
  <2> QED BY <2>1, <2>3, <2>4, <1>f, <1>n, Zenon
<1>12. CASE Terminate \/ WaitExit \/ Kill
  <2>1. ~Claims /\ op.undo = <<>>
    BY <1>12, <1>b, <1>d, Zenon DEF Terminate, WaitExit, WaitEnds, Kill, InStop, At, Busy
  <2>2. op'.undo # <<"record">> /\ (op'.pc # "delete" => op'.undo = <<>>)
    <3>1. op'.undo \in {<<>>, op.undo} \/ (op'.pc = "delete" /\ op'.undo = RemoveSteps)
      BY <1>12, StopAndDeleteMove, Zenon DEF Moves
    <3> QED BY <2>1, <3>1, <1>q, Zenon
  <2> QED BY <1>12, <2>1, <2>2, <1>f, Zenon DEF Terminate, WaitExit, WaitEnds, Kill, stopFrame
<1>13. CASE Delete
  <2>1. /\ Deleting /\ op.alloc \in Allocs /\ op.undo \in Undos \ {<<>>} /\ op.pc = "delete" /\ ~At("create")
    BY <1>13, <1>a, <1>b, Zenon DEF Delete, Deleting, Busy, At
  <2>2. /\ op'.kind = op.kind /\ op'.pc = op.pc /\ op'.alloc = op.alloc /\ op'.undo = Tail(op.undo)
    BY <1>13, StopAndDeleteMove, Zenon DEF Moves
  <2>3. op'.undo # <<"record">>
    BY <2>1, <2>2, UndoOrder, Zenon
  <2>4. ASSUME NEW a \in Allocs \ leaked', a # op.alloc PROVE Served(a)' /\ Owned(a)'
    <3>1. snap'[a] = snap[a] /\ record'[a] = record[a] /\ a \notin leaked
      BY <1>13, <2>4, <1>a, Zenon DEF Delete
    <3>2. Served(a) /\ (record[a] = None => snap[a] = None)
      BY <2>4, <3>1, <1>b, <1>c, SMTT(30)
    <3> QED BY <3>1, <3>2, Zenon
  <2>5. ASSUME op.alloc \notin leaked' PROVE Served(op.alloc)' /\ Owned(op.alloc)'
    <3>1. CASE Head(op.undo) = "snap"
      <4>1. snap'[op.alloc] = None
        BY <1>13, <2>1, <3>1, <1>a, SMTT(30) DEF Delete
      <4> QED BY <2>2, <4>1, Zenon
    <3>2. CASE Head(op.undo) = "record"
      <4>1. op.alloc \notin leaked /\ record'[op.alloc] = None /\ UNCHANGED snap
        BY <1>13, <2>1, <2>5, <3>2, <1>a, Zenon DEF Delete
      <4>2. op.undo # <<"record">>
        BY <2>1, <4>1, <1>b, Zenon
      <4>3. op'.undo = <<"snap", "fifo">>
        BY <2>1, <2>2, <3>2, <4>2, UndoOrder, Zenon
      <4>4. Deleting'
        BY <2>1, <2>2, <4>3, <1>q, Zenon DEF Deleting
      <4> QED BY <2>2, <4>1, <4>3, <4>4, Zenon
    <3>3. CASE Head(op.undo) \notin {"snap", "record"}
      <4>1. op.undo # <<"snap", "fifo">>
        BY <2>1, <3>3, UndoOrder, Zenon
      <4>2. ~Claims
        BY <2>1, <4>1, Zenon DEF Claims
      <4>3. UNCHANGED <<record, snap, leaked>>
        BY <1>13, <3>3, Zenon DEF Delete
      <4>4. Served(op.alloc) /\ (record[op.alloc] = None => snap[op.alloc] = None)
        BY <2>1, <2>5, <4>2, <4>3, <1>b, <1>c, Zenon
      <4> QED BY <2>2, <4>3, <4>4, Zenon
    <3> QED BY <3>1, <3>2, <3>3, Zenon
  <2>6. \A a \in Allocs \ leaked' : Served(a)' /\ Owned(a)'
    BY <2>2, <2>4, <2>5, Zenon
  <2> QED BY <2>1, <2>2, <2>3, <2>6, Zenon DEF SnapshotInv
<1>14. CASE DeleteFails
  <2>1. /\ Deleting /\ op.undo \in Undos \ {<<>>} /\ op.pc = "delete" /\ ~At("create")
    BY <1>14, <1>a, <1>b, Zenon DEF DeleteFails, Deleting, Busy, At
  <2>2. /\ op'.pc = op.pc
        /\ op'.undo = IF Head(op.undo) = "record" /\ op.kind # "undo" THEN <<>> ELSE Tail(op.undo)
    BY <1>14, StopAndDeleteMove, Zenon DEF Moves
  <2>3. op'.undo # <<"record">>
    BY <2>1, <2>2, UndoOrder, SMTT(30)
  <2>4. leaked \subseteq leaked' /\ (Claims => op.alloc \in leaked')
    BY <1>14, <2>1, UndoOrder, Zenon DEF DeleteFails, Leaks, Claims
  <2> QED BY <1>14, <2>1, <2>2, <2>3, <2>4, <1>f, Zenon DEF DeleteFails, containerdVars
<1>15. CASE UNCHANGED runtimeVars
  BY <1>15, <1>e, Zenon DEF runtimeVars, containerdVars, historyVars
<1> QED BY <1>1, <1>2, <1>3, <1>4, <1>5, <1>6, <1>7, <1>8, <1>9, <1>10, <1>11, <1>12, <1>13,
           <1>14, <1>15, Zenon DEF RuntimeNext, Run, StopAndRemove, Reconcile

-----------------------------------------------------------------------------
(* The specification of a container. *)

\* What resolve keeps of a definition it accepts (services.rs:49-141).
LEMMA ResolvedDefinitions ==
  ASSUME NEW c \in FirstConfigs \cup NextConfigs, Resolve(c) # None
  PROVE  /\ \A d \in Range(Resolve(c).services) : Mounts(d.volumes) # None
         /\ \A d \in Range(Resolve(c).tasks) : d.timeout \in Nat \cup {None}
<1> DEFINE services == [n \in DOMAIN c.service |-> ResolveService(c.service[n])]
           tasks == [n \in DOMAIN c.task |-> ResolveTask(c.task[n])]
<1>1. /\ \A d \in Range(services) \cup Range(tasks) : d # None
      /\ Resolve(c) = [services |-> services, tasks |-> tasks]
  BY Zenon DEF Resolve
<1> HIDE DEF services, tasks
<1>2. Resolve(c).services = services /\ Resolve(c).tasks = tasks
  BY <1>1
<1>3. ASSUME NEW d \in Range(services) PROVE Mounts(d.volumes) # None
  <2>1. PICK n \in DOMAIN c.service : d = ResolveService(c.service[n])
    BY <1>3, Zenon DEF services, Range
  <2>2. d = [c.service[n] EXCEPT !.env = ParseEnvMap(@)]
    BY <2>1, <1>1, <1>3, Zenon DEF ResolveService
  <2>3. {"env", "volumes"} \subseteq DOMAIN c.service[n] /\ Mounts(c.service[n].volumes) # None
    BY ConfigAssumption, Zenon
  <2>4. d.volumes = c.service[n].volumes
    BY <2>2, <2>3, Zenon
  <2> QED BY <2>3, <2>4, Zenon
<1>4. ASSUME NEW d \in Range(tasks) PROVE d.timeout \in Nat \cup {None}
  <2>1. PICK n \in DOMAIN c.task : d = ResolveTask(c.task[n])
    BY <1>4, Zenon DEF tasks, Range
  <2>2. /\ d = [c.task[n] EXCEPT !.env = ParseEnvMap(@)]
        /\ c.task[n].timeout # Bad
    BY <2>1, <1>1, <1>4, Zenon DEF ResolveTask
  <2>3. {"env", "timeout"} \subseteq DOMAIN c.task[n] /\ c.task[n].timeout \in Nat \cup {None, Bad}
    BY ConfigAssumption, Zenon
  <2>4. d.timeout = c.task[n].timeout
    BY <2>2, <2>3, Zenon
  <2> QED BY <2>2, <2>3, <2>4, Zenon
<1> QED BY <1>2, <1>3, <1>4, Zenon

\* The specification dispatched to a secondary can be read back from its labels,
\* and its process finds the port it has to bind (alloc/mod.rs, run_container).
LEMMA DispatchedSpec ==
  ASSUME NEW c \in FirstConfigs \cup NextConfigs, Resolve(c) # None,
         NEW spec \in SpecsOf(Resolve(c)), NEW a \in Allocs
  PROVE  SpecOK(WithPort(spec, a))
<1>1. /\ spec = [kind |-> spec.kind, timeout |-> spec.timeout, command |-> spec.command,
                 image |-> spec.image, env |-> spec.env, port |-> spec.port,
                 host_port |-> None, cpu |-> spec.cpu, memory |-> spec.memory,
                 volumes |-> spec.volumes]
      /\ spec.timeout \in Int \cup {None} /\ spec.volumes # None
  <2>1. CASE spec \in {ServiceSpec(d) : d \in {e \in Range(Resolve(c).services) : ResolvesEnv(e.env)}}
    <3>1. PICK d \in Range(Resolve(c).services) : spec = ServiceSpec(d)
      BY <2>1, Zenon
    <3>2. Mounts(d.volumes) # None
      BY ResolvedDefinitions, Zenon
    <3> QED BY <3>1, <3>2, Zenon DEF ServiceSpec
  <2>2. CASE spec \in {TaskSpec(d) : d \in {e \in Range(Resolve(c).tasks) : ResolvesEnv(e.env)}}
    <3>1. PICK d \in Range(Resolve(c).tasks) : spec = TaskSpec(d)
      BY <2>2, Zenon
    <3>2. d.timeout \in Int \cup {None}
      BY ResolvedDefinitions
    <3> QED BY <3>1, <3>2, ConfigAssumption, Zenon DEF TaskSpec
  <2> QED BY <2>1, <2>2, Zenon DEF SpecsOf
<1>2. CASE spec.port = None
  <2>1. WithPort(spec, a) = spec /\ spec.host_port = None
    BY <1>1, <1>2 DEF WithPort
  <2>2. ImageInfo(spec.image) # None => Container(WithPort(spec, a)) # None
    BY ContainerAssumption, Zenon
  <2> QED BY <1>1, <2>1, <2>2, Zenon DEF SpecOK
<1>3. CASE spec.port # None
  <2> DEFINE env == Overlay([k \in {"PORT"} |-> <<a>>], spec.env)
             ported == WithPort(spec, a)
  <2>1. "PORT" \in DOMAIN env /\ env["PORT"] = <<a>>
    BY Zenon DEF Overlay
  <2> HIDE DEF env
  <2>2. ported = [spec EXCEPT !.host_port = a, !.env = env]
    BY <1>3, Zenon DEF WithPort, env
  <2>3. /\ ported.timeout = spec.timeout /\ ported.volumes = spec.volumes /\ ported.image = spec.image
        /\ ported.host_port = a /\ ported.env = env
    BY <2>2, <1>1, Zenon
  <2>4. ImageInfo(spec.image) # None => Container(ported) # None
    BY ContainerAssumption, Zenon
  <2> HIDE DEF ported
  <2>5. SpecOK(ported)
    BY <1>1, <2>1, <2>3, <2>4, Zenon DEF SpecOK
  <2> QED BY <2>5, Zenon DEF ported
<1> QED BY <1>2, <1>3, Zenon

\* The specification of the AllocationMap against the one a container was made
\* from.
SameSpec(back, spec) ==
    /\ \A f \in {"kind", "command", "image", "host_port", "cpu", "memory", "volumes"} :
          back[f] = spec[f]
    /\ IF spec.timeout = None THEN back.timeout = None
       ELSE spec.timeout - back.timeout \in 0..999

\* What recover_info reads from the labels is what build_labels wrote, up to the
\* environment and the fraction of a second of the timeout.
LEMMA LabelsRoundTrip ==
  ASSUME NEW spec, SpecOK(spec)
  PROVE  SameSpec(Recovered(Container(spec).image, Container(spec).labels), spec)
<1> DEFINE labels == BuildLabels(spec)
           back == Recovered(Container(spec).image, Container(spec).labels)
<1>1. Container(spec).image = spec.image /\ Container(spec).labels = labels
  BY SMTT(30) DEF Container
<1>2. /\ labels.host_port = spec.host_port /\ labels.cpu = spec.cpu /\ labels.memory = spec.memory
      /\ labels.kind = spec.kind /\ labels.command = spec.command
      /\ labels.volumes = IF spec.volumes = <<>> THEN None ELSE spec.volumes
      /\ labels.timeout = IF spec.timeout = None THEN None ELSE spec.timeout \div 1000
  BY SMTT(30) DEF BuildLabels, Labels
<1> HIDE DEF labels
<1>3. /\ back.kind = labels.kind /\ back.command = labels.command /\ back.image = spec.image
      /\ back.host_port = labels.host_port /\ back.cpu = labels.cpu /\ back.memory = labels.memory
      /\ back.volumes = IF labels.volumes = None THEN <<>> ELSE labels.volumes
      /\ back.timeout = IF labels.timeout = None THEN None ELSE labels.timeout * 1000
  BY <1>1, ZenonT(30) DEF Recovered
<1> HIDE DEF back
<1>4. spec.volumes # None /\ spec.timeout \in Int \cup {None}
  BY Zenon DEF SpecOK
<1>5. back.volumes = spec.volumes
  BY <1>2, <1>3, <1>4, ZenonT(30)
<1>6. IF spec.timeout = None THEN back.timeout = None ELSE spec.timeout - back.timeout \in 0..999
  <2>1. CASE spec.timeout = None
    BY <1>2, <1>3, <2>1, SMTT(30)
  <2>2. CASE spec.timeout # None
    <3>1. PICK t \in Int : t = spec.timeout
      BY <1>4, <2>2, Zenon
    <3>2. labels.timeout = t \div 1000 /\ t \div 1000 \in Int
      BY <1>2, <2>2, <3>1
    <3>3. labels.timeout # None
      BY <3>2, ConfigAssumption
    <3>4. back.timeout = (t \div 1000) * 1000
      BY <1>3, <3>2, <3>3
    <3>5. PICK b \in Int : b = (t \div 1000) * 1000 /\ t - b \in 0..999
      BY SMTT(30)
    <3>6. spec.timeout = t /\ back.timeout = b /\ t - b \in 0..999
      BY <3>1, <3>4, <3>5, Zenon
    <3> HIDE <3>1, <3>5
    <3>7. spec.timeout - back.timeout \in 0..999
      BY <3>6
    <3> QED BY <2>2, <3>7, ZenonT(30)
  <2> QED BY <2>1, <2>2, Zenon
<1>7. \A f \in {"kind", "command", "image", "host_port", "cpu", "memory", "volumes"} : back[f] = spec[f]
  BY <1>2, <1>3, <1>5, SMTT(30)
<1>8. SameSpec(back, spec)
  BY <1>6, <1>7, Zenon DEF SameSpec
<1> QED BY <1>8, Zenon DEF back

\* Nothing configured, nothing made.
LEMMA InitMade == RuntimeInit => MadeInv
<1> SUFFICES ASSUME RuntimeInit PROVE MadeInv
  BY Zenon
<1>1. op.kind = "idle"
  BY Zenon DEF RuntimeInit, Idle
<1> QED BY <1>1, Zenon DEF RuntimeInit, MadeInv, RecoveredIsMade

\* Every action keeps a container the image of the specification it was made
\* from, and the AllocationMap the image of its containers.
LEMMA MadeStep == StoresOK /\ MadeInv /\ [RuntimeNext]_runtimeVars => MadeInv'
<1> SUFFICES ASSUME StoresOK, MadeInv, [RuntimeNext]_runtimeVars PROVE MadeInv'
  BY SMTT(30)
<1> DEFINE Late == {"fifos", "task", "start", "insert"}
           Kept(a) == record[a] # None => SpecOK(made[a]) /\ record[a] = Container(made[a])
           Running ==
              op.kind = "run" =>
                /\ local[op.alloc] = None /\ SpecOK(op.spec)
                /\ op.pc \in Late => made[op.alloc] = op.spec
           Configured ==
              config = None \/ (raw \in FirstConfigs \cup NextConfigs /\ config = Resolve(raw))
<1>a. /\ Configured /\ Running
      /\ made = [a \in Allocs |-> made[a]] /\ local = [a \in Allocs |-> local[a]]
      /\ record = [a \in Allocs |-> record[a]]
      /\ \A a \in Allocs : Kept(a)
      /\ \A a \in Allocs : local[a] # None => SameSpec(local[a], made[a])
      /\ Busy => op.alloc \in Allocs
  BY ZenonT(30) DEF MadeInv, StoresOK, OpOK, Busy, RecoveredIsMade, SameSpec
<1>b. ASSUME Configured', Running',
             made' = [a \in Allocs |-> made'[a]], local' = [a \in Allocs |-> local'[a]],
             \A a \in Allocs : Kept(a)',
             \A a \in Allocs : local'[a] # None => SameSpec(local'[a], made'[a])
      PROVE  MadeInv'
  BY <1>b, Zenon DEF MadeInv, RecoveredIsMade, SameSpec
<1> HIDE DEF Configured
<1>c. UNCHANGED configVars => Configured'
  BY <1>a, Zenon DEF Configured, configVars
\* A step that makes nothing and takes nothing over.
<1>f. ASSUME UNCHANGED <<configVars, made>>,
             record' = [a \in Allocs |-> record'[a]], local' = [a \in Allocs |-> local'[a]],
             \A a \in Allocs : record'[a] \in {record[a], None} /\ local'[a] \in {local[a], None},
             Running'
      PROVE  MadeInv'
  <2>1. \A a \in Allocs : Kept(a)'
    BY <1>a, <1>f, Zenon
  <2>2. \A a \in Allocs : local'[a] # None => SameSpec(local'[a], made'[a])
    BY <1>a, <1>f, Zenon
  <2>3. made' = [a \in Allocs |-> made'[a]]
    BY <1>a, <1>f, Zenon
  <2> QED BY <2>1, <2>2, <2>3, <1>b, <1>c, <1>f, Zenon
\* The same, where the command does not get past the creation.
<1>g. ASSUME UNCHANGED <<configVars, made, local>>,
             record' = [a \in Allocs |-> record'[a]],
             \A a \in Allocs : record'[a] \in {record[a], None},
             \/ UNCHANGED op
             \/ op'.kind # "run"
             \/ /\ op.kind = "run" /\ op'.alloc = op.alloc /\ op'.spec = op.spec
                /\ op'.pc \in Late => op.pc \in Late
      PROVE  MadeInv'
  <2>1. Running'
    BY <1>a, <1>g, Zenon
  <2>2. /\ local' = [a \in Allocs |-> local'[a]]
        /\ \A a \in Allocs : local'[a] \in {local[a], None}
    BY <1>a, <1>g, Zenon
  <2> QED BY <2>1, <2>2, <1>f, <1>g, Zenon
<1>r. UNCHANGED record =>
         /\ record' = [a \in Allocs |-> record'[a]]
         /\ \A a \in Allocs : record'[a] \in {record[a], None}
  BY <1>a, Zenon
<1>1. ASSUME NEW c \in FirstConfigs \cup NextConfigs, Submit(c) PROVE MadeInv'
  <2>1. Configured'
    BY <1>1, Zenon DEF Submit, Configured
  <2>2. UNCHANGED <<record, local, made, op>>
    BY <1>1, Zenon DEF Submit, containerdVars, agentVars, historyVars
  <2> QED BY <2>1, <2>2, <1>a, <1>b, Zenon
<1>2. ASSUME NEW a \in Allocs, NEW spec \in Specs, config # None, Dispatch(a, spec) PROVE MadeInv'
  <2>1. SpecOK(WithPort(spec, a))
    BY <1>2, <1>a, DispatchedSpec, Zenon DEF Configured, Specs
  <2>2. /\ op'.kind = "run" /\ op'.alloc = a /\ op'.pc = "pull" /\ op'.spec = WithPort(spec, a)
        /\ local[a] = None
    BY <1>2, NewOp, Zenon DEF Dispatch
  <2>3. UNCHANGED <<record, local, made, configVars>>
    BY <1>2, Zenon DEF Dispatch, containerdVars, historyVars
  <2>4. Running'
    BY <2>1, <2>2, <2>3, Zenon
  <2> QED BY <2>3, <2>4, <1>a, <1>b, <1>c, Zenon
<1>3. ASSUME NEW a \in Allocs, Stop(a) \/ StopOrphan(a) PROVE MadeInv'
  <2>1. op'.kind # "run"
    BY <1>3, NewOp, Zenon DEF Stop, StopOrphan
  <2> QED BY <1>3, <2>1, <1>g, <1>r, SMTT(30) DEF Stop, StopOrphan, containerdVars, agentVars, historyVars
<1>4. ASSUME NEW a \in Allocs, ProcessExits(a) PROVE MadeInv'
  BY <1>4, <1>g, <1>r, Zenon DEF ProcessExits, agentVars, historyVars
<1>5. ASSUME NEW a \in Allocs, WaiterEnds(a) PROVE MadeInv'
  <2>1. UNCHANGED <<record, made, configVars, op>> /\ local' = [local EXCEPT ![a] = None]
    BY <1>5, Zenon DEF WaiterEnds, containerdVars, historyVars
  <2>2. /\ local' = [b \in Allocs |-> local'[b]]
        /\ \A b \in Allocs : local'[b] \in {local[b], None}
    BY <2>1, <1>a, Zenon
  <2>3. Running'
    BY <2>1, <2>2, <1>a, Zenon DEF Busy
  <2> QED BY <2>1, <2>2, <2>3, <1>f, <1>r, Zenon
<1>6. ASSUME NEW a \in Allocs, Rehydrate(a) PROVE MadeInv'
  <2>1. UNCHANGED <<record, made, configVars, op>> /\ op.kind = "idle"
    BY <1>6, Zenon DEF Rehydrate, Rehydrates, containerdVars, Idle
  <2>2. CASE UNCHANGED local
    BY <2>1, <2>2, <1>g, <1>r, Zenon
  <2>3. CASE /\ record[a] # None
             /\ local' = [local EXCEPT ![a] = Recovered(record[a].image, record[a].labels)]
    <3>1. SpecOK(made[a]) /\ record[a] = Container(made[a])
      BY <2>3, <1>a, SMTT(30)
    <3>2. SameSpec(Recovered(record[a].image, record[a].labels), made[a])
      <4>1. PICK m : m = made[a] /\ SpecOK(m) /\ record[a] = Container(m)
        BY <3>1, Zenon
      <4>2. SameSpec(Recovered(Container(m).image, Container(m).labels), m)
        BY <4>1, LabelsRoundTrip, Zenon
      <4> QED BY <4>1, <4>2, Zenon
    <3>3. /\ local' = [b \in Allocs |-> local'[b]]
          /\ \A b \in Allocs : b # a => local'[b] = local[b]
          /\ local'[a] = Recovered(record[a].image, record[a].labels)
      BY <2>3, <1>a, Zenon
    <3>4. \A b \in Allocs : local'[b] # None => SameSpec(local'[b], made'[b])
      BY <2>1, <3>2, <3>3, <1>a, Zenon
    <3>5. Running'
      BY <2>1, Zenon
    <3> QED BY <2>1, <3>3, <3>4, <3>5, <1>a, <1>b, <1>c, Zenon
  <2> QED BY <1>6, <2>2, <2>3, SMTT(30) DEF Rehydrate, Rehydrates, agentVars
<1>7. CASE PullImage \/ ReadImageInfo \/ PrepareSnapshot
  <2>1. /\ op.kind = "run" /\ op'.alloc = op.alloc /\ op'.spec = op.spec
        /\ op'.pc \notin Late
    BY <1>7, RunMoves, ZenonT(30) DEF PullImage, ReadImageInfo, PrepareSnapshot, At, Moves
  <2>2. UNCHANGED <<record, local, made, configVars>>
    BY <1>7, Zenon DEF PullImage, ReadImageInfo, PrepareSnapshot, runFrame, agentVars, containerdVars
  <2> QED BY <2>1, <2>2, <1>g, <1>r, SMTT(30)
<1>8. CASE CreateContainer
  <2>1. /\ op.kind = "run" /\ op.alloc \in Allocs /\ local[op.alloc] = None /\ SpecOK(op.spec)
        /\ op'.alloc = op.alloc /\ op'.spec = op.spec
    BY <1>8, <1>a, RunMoves, Zenon DEF CreateContainer, At, Busy, Moves
  <2>2. UNCHANGED <<local, configVars>>
    BY <1>8, Zenon DEF CreateContainer, agentVars
  <2>3. CASE UNCHANGED <<record, made>> /\ Fails(<<>>)
    <3>1. op'.kind # "run"
      BY <2>1, <2>3, FailsMoves, UndoOrder, Zenon DEF StoresOK, Busy, Moves
    <3> QED BY <2>2, <2>3, <3>1, <1>g, <1>r, Zenon
  <2>4. CASE /\ record' = [record EXCEPT ![op.alloc] = Container(op.spec)]
             /\ made' = [made EXCEPT ![op.alloc] = op.spec]
    <3>1. /\ record'[op.alloc] = Container(op.spec) /\ made'[op.alloc] = op.spec
          /\ \A a \in Allocs : a # op.alloc => record'[a] = record[a] /\ made'[a] = made[a]
          /\ made' = [a \in Allocs |-> made'[a]]
      BY <2>1, <2>4, <1>a, Zenon
    <3>2. \A a \in Allocs : Kept(a)'
      BY <2>1, <3>1, <1>a, Zenon
    <3>3. \A a \in Allocs : local'[a] # None => SameSpec(local'[a], made'[a])
      BY <2>1, <2>2, <3>1, <1>a, Zenon
    <3>4. Running'
      BY <2>1, <2>2, <3>1, Zenon
    <3>5. local' = [a \in Allocs |-> local'[a]]
      BY <2>2, <1>a, Zenon
    <3> QED BY <2>2, <3>1, <3>2, <3>3, <3>4, <3>5, <1>b, <1>c, Zenon
  <2> QED BY <1>8, <2>3, <2>4, SMTT(30) DEF CreateContainer
<1>9. CASE SetupFifos \/ CreateTask \/ StartTask
  <2>1. /\ op.kind = "run" /\ op.pc \in Late /\ op'.alloc = op.alloc /\ op'.spec = op.spec
    BY <1>9, RunMoves, Zenon DEF SetupFifos, CreateTask, StartTask, At, Moves
  <2>2. UNCHANGED <<record, local, made, configVars>>
    BY <1>9, Zenon DEF SetupFifos, CreateTask, StartTask, runFrame, agentVars
  <2> QED BY <2>1, <2>2, <1>g, <1>r, SMTT(30)
<1>10. CASE InsertAlloc
  <2>1. op.alloc \in Allocs /\ op'.kind = "idle" /\ SpecOK(op.spec) /\ made[op.alloc] = op.spec
    BY <1>10, <1>a, Zenon DEF InsertAlloc, At, Busy, Idle
  <2>2. UNCHANGED <<record, made, configVars>> /\ local' = [local EXCEPT ![op.alloc] = op.spec]
    BY <1>10, SMTT(30) DEF InsertAlloc, containerdVars, historyVars
  <2>3. SameSpec(op.spec, op.spec)
    <3>1. PICK t : t = op.spec.timeout /\ t \in Int \cup {None}
      BY <2>1, Zenon DEF SpecOK
    <3>2. \A n \in Int : n - n \in 0..999
      OBVIOUS
    <3>3. t # None => t - t \in 0..999
      BY <3>1, <3>2, ZenonT(30)
    <3> QED BY <3>1, <3>3, ZenonT(30) DEF SameSpec
  <2>4. /\ local' = [a \in Allocs |-> local'[a]] /\ local'[op.alloc] = op.spec
        /\ \A a \in Allocs : a # op.alloc => local'[a] = local[a]
    BY <2>1, <2>2, <1>a, Zenon
  <2>5. \A a \in Allocs : local'[a] # None => SameSpec(local'[a], made'[a])
    BY <2>1, <2>2, <2>3, <2>4, <1>a, Zenon
  <2>6. Running'
    BY <2>1, Zenon
  <2> QED BY <2>2, <2>4, <2>5, <2>6, <1>a, <1>b, <1>c, Zenon
<1>11. CASE RunFailed \/ ListManaged
  <2>1. op'.kind # "run"
    BY <1>11, IdleOp, Zenon DEF RunFailed, ListManaged
  <2> QED BY <1>11, <2>1, <1>g, <1>r, Zenon DEF RunFailed, ListManaged, containerdVars, agentVars, historyVars
<1>12. CASE RemoveEnds \/ Crash
  <2>1. op'.kind # "run"
    BY <1>12, IdleOp, Zenon DEF RemoveEnds, Crash
  <2>2. UNCHANGED <<record, made, configVars>>
    BY <1>12, Zenon DEF RemoveEnds, Crash, containerdVars, historyVars
  <2>3. /\ local' = [a \in Allocs |-> local'[a]]
        /\ \A a \in Allocs : local'[a] \in {local[a], None}
    BY <1>12, <1>a, Zenon DEF RemoveEnds, Crash
  <2> QED BY <2>1, <2>2, <2>3, <1>f, <1>r, Zenon
<1>13. CASE Terminate \/ WaitExit \/ Kill
  <2>1. op'.kind # "run"
    BY <1>13, StopAndDeleteMove, Zenon DEF Terminate, WaitExit, WaitEnds, Kill, InStop, Moves
  <2> QED BY <1>13, <2>1, <1>g, <1>r, Zenon DEF Terminate, WaitExit, WaitEnds, Kill, stopFrame, agentVars
<1>14. CASE Delete
  <2>1. op'.kind # "run" /\ op.alloc \in Allocs
    BY <1>14, <1>a, StopAndDeleteMove, Zenon DEF Delete, Deleting, Moves, Busy
  <2>2. /\ record' = [a \in Allocs |-> record'[a]]
        /\ \A a \in Allocs : record'[a] \in {record[a], None}
    BY <1>14, <2>1, <1>a, Zenon DEF Delete
  <2> QED BY <1>14, <2>1, <2>2, <1>g, SMTT(30) DEF Delete, agentVars
<1>15. CASE DeleteFails
  <2>1. op'.kind # "run"
    BY <1>15, StopAndDeleteMove, Zenon DEF DeleteFails, Deleting, Moves
  <2> QED BY <1>15, <2>1, <1>g, <1>r, SMTT(30) DEF DeleteFails, runFrame, containerdVars, agentVars
<1>16. CASE UNCHANGED runtimeVars
  BY <1>16, <1>g, <1>r, Zenon DEF runtimeVars, containerdVars, agentVars, historyVars
<1> QED BY <1>1, <1>2, <1>3, <1>4, <1>5, <1>6, <1>7, <1>8, <1>9, <1>10, <1>11, <1>12, <1>13,
           <1>14, <1>15, <1>16, Zenon DEF RuntimeNext, Run, StopAndRemove, Reconcile

-----------------------------------------------------------------------------
(* The theorems *)

\* The inductive invariant of the client of containerd, call by call.
THEOREM RuntimeInvHolds == RuntimeSpec => []RuntimeInv
<1>1. RuntimeInit => RuntimeInv
  BY InitStores, InitMade, Zenon DEF RuntimeInv
<1>2. RuntimeInv /\ [RuntimeNext]_runtimeVars => RuntimeInv'
  BY StoresStep, ProcessStep, SnapshotStep, MadeStep, Zenon DEF RuntimeInv
<1> QED BY <1>1, <1>2, PTL DEF RuntimeSpec

\* A running process has a container, by which list_managed finds it after a
\* restart, unless a stop failed on its live task.
THEOREM ProcessesAreVisible == RuntimeSpec => []NoInvisibleProcessUnlessUnkilled
<1>1. RuntimeInv => NoInvisibleProcessUnlessUnkilled
  BY Zenon DEF RuntimeInv, ProcessInv
<1> QED BY <1>1, RuntimeInvHolds, PTL

\* create_and_start runs a container on the layers of its own image, unless an
\* earlier attempt of the id left its snapshot behind.
THEOREM RootfsIsOfImage == RuntimeSpec => []RootfsIsImageUnlessLeaked
<1>1. RuntimeInv => RootfsIsImageUnlessLeaked
  BY Zenon DEF RuntimeInv, SnapshotInv, RootfsIsImageUnlessLeaked
<1> QED BY <1>1, RuntimeInvHolds, PTL

\* What the secondary knows of an alloc, before and after a restart, is what its
\* container was made from, and the port it advertises is the one the process
\* was given.
THEOREM ContainersAreRecovered == RuntimeSpec => [](RecoveredIsMade /\ AdvertisedPortIsBound)
<1>1. RuntimeInv => RecoveredIsMade
  BY Zenon DEF RuntimeInv, MadeInv
<1>2. RuntimeInv => AdvertisedPortIsBound
  <2> SUFFICES ASSUME RuntimeInv, NEW a \in Allocs,
                      local[a] # None, record[a] # None, local[a].host_port # None
               PROVE  record[a].oci.env["PORT"] = <<local[a].host_port>>
    BY Zenon DEF AdvertisedPortIsBound
  <2>1. SpecOK(made[a]) /\ record[a] = Container(made[a]) /\ local[a].host_port = made[a].host_port
    <3>1. SpecOK(made[a]) /\ record[a] = Container(made[a])
      BY SMTT(30) DEF RuntimeInv, MadeInv
    <3>2. local[a].host_port = made[a].host_port
      BY <1>1, Zenon DEF RecoveredIsMade
    <3> QED BY <3>1, <3>2, Zenon
  <2>2. "PORT" \in DOMAIN made[a].env /\ made[a].env["PORT"] = <<local[a].host_port>>
    BY <2>1, SMTT(30) DEF SpecOK
  <2>3. \A spec : Container(spec).oci.env = Overlay(spec.env, ImageInfo(spec.image).default_env)
    BY Zenon DEF Container, BuildOciSpec
  <2>4. \A env, base : "PORT" \in DOMAIN env => Overlay(env, base)["PORT"] = env["PORT"]
    BY Zenon DEF Overlay
  <2>5. PICK spec : spec = made[a]
    BY Zenon
  <2>6. record[a] = Container(spec) /\ "PORT" \in DOMAIN spec.env
    BY <2>1, <2>2, <2>5, Zenon
  <2>7. record[a].oci.env["PORT"] = spec.env["PORT"]
    <3>1. record[a].oci.env = Overlay(spec.env, ImageInfo(spec.image).default_env)
      BY <2>3, <2>6, Zenon
    <3>2. Overlay(spec.env, ImageInfo(spec.image).default_env)["PORT"] = spec.env["PORT"]
      BY <2>4, <2>6, Zenon
    <3> QED BY <3>1, <3>2, Zenon
  <2> QED BY <2>2, <2>5, <2>7, Zenon
<1> QED BY <1>1, <1>2, RuntimeInvHolds, PTL

=============================================================================
