-------------------------- MODULE RollingDeployTypes --------------------------
(***************************************************************************)
(* What an operation of RollingDeploy has at hand in each of its phases,   *)
(* and that the types of the state are kept, for every value of the        *)
(* constants.                                                              *)
(***************************************************************************)
EXTENDS RollingDeploy, FiniteSetTheorems, TLAPS

-----------------------------------------------------------------------------
(* The phases of an operation. *)

Volumetric == {"create", "created", "detach", "detached", "attach", "attached"}
Replacing == {"schedule", "run", "wait", "ready"}
Starting == {"run", "wait", "ready"}
Draining == {"collect", "unmount", "unmounted", "migrate"}

\* What an operation r has at hand in each phase; known are the allocations
\* of the state.
PhaseOK(r, known) ==
    /\ r.pc \in {"propose", "service", "remove", "provided"} \cup Volumetric =>
          r.kind \in {"deploy", "restart"}
    /\ r.pc \in {"stop", "rollback"} \cup Replacing => r.kind \in {"deploy", "restart", "drain"}
    /\ r.kind \in {"deploy", "restart"} =>
          r.new \in Configs /\ r.added \cup r.changed \subseteq ServicesIn(r.new)
    /\ r.pc \in Draining => r.kind = "drain" /\ r.news = {}
    /\ r.kind = "drain" => r.node \in NodeIds
    /\ r.pc \in {"provided"} \cup Volumetric \cup Replacing =>
          r.new \in Configs /\ r.svc \in ServicesIn(r.new)
    /\ r.pc \in {"unmounted", "destroy", "destroyed"} \cup Volumetric => r.vol \in VolumeNames
    /\ r.pc \in {"destroy", "destroyed"} => r.kind = "delete"
    /\ r.pc \in Volumetric => r.target \in RaftIds
    /\ r.pc \in Replacing =>
          IsFiniteSet(r.news) /\ Cardinality(r.news) < Replicas[DefOf[r.new][r.svc]]
    /\ r.pc \in Starting => r.cur \in Placement /\ r.cur[1] \in known

TypeInv == DeployTypeOK /\ \A o \in Ops : PhaseOK(op[o], AllocsIn(fsm))

-----------------------------------------------------------------------------
(* What the commands do to the state. *)

\* Deploy and the commands about nodes and volumes leave the allocations alone,
\* and all but Deploy the config.
LEMMA OtherCommands ==
  ASSUME NEW s \in FsmState
  PROVE  /\ \A c \in Configs : /\ Deploy(s, c) \in FsmState /\ Deploy(s, c).allocs = s.allocs
                               /\ Deploy(s, c).config = c
         /\ \A i \in RaftIds : /\ NodeDrain(s, i) \in FsmState /\ NodeDrain(s, i).allocs = s.allocs
                               /\ NodeDrain(s, i).config = s.config
         /\ \A v \in VolumeNames :
              /\ VolumeCreated(s, v) \in FsmState /\ VolumeCreated(s, v).allocs = s.allocs
              /\ VolumeCreated(s, v).config = s.config
              /\ VolumeDetached(s, v) \in FsmState /\ VolumeDetached(s, v).allocs = s.allocs
              /\ VolumeDetached(s, v).config = s.config
              /\ VolumeDestroyed(s, v) \in FsmState /\ VolumeDestroyed(s, v).allocs = s.allocs
              /\ VolumeDestroyed(s, v).config = s.config
              /\ \A i \in RaftIds :
                   /\ VolumeAttached(s, v, i) \in FsmState /\ VolumeAttached(s, v, i).allocs = s.allocs
                   /\ VolumeAttached(s, v, i).config = s.config
<1>1. /\ s = [config |-> s.config, nodes |-> s.nodes, allocs |-> s.allocs,
              secrets |-> s.secrets, volumes |-> s.volumes]
      /\ s.config \in Configs \cup {None} /\ s.nodes \in [RaftIds -> Node \cup {None}]
      /\ s.allocs \in [AllocIds -> Alloc \cup {None}]
      /\ s.secrets \in [SecretNames -> SecretValues \cup {None}]
      /\ s.volumes \in [VolumeNames -> Volume \cup {None}]
  BY Zenon DEF FsmState
<1>2. \A c \in Configs : /\ Deploy(s, c) \in FsmState /\ Deploy(s, c).allocs = s.allocs
                         /\ Deploy(s, c).config = c
  BY <1>1, Zenon DEF Deploy, FsmState
<1>3. \A i \in RaftIds : /\ NodeDrain(s, i) \in FsmState /\ NodeDrain(s, i).allocs = s.allocs
                         /\ NodeDrain(s, i).config = s.config
  <2>. SUFFICES ASSUME NEW i \in RaftIds, s.nodes[i] # None
                PROVE  /\ NodeDrain(s, i) \in FsmState /\ NodeDrain(s, i).allocs = s.allocs
                       /\ NodeDrain(s, i).config = s.config
    BY <1>1, Zenon DEF NodeDrain, SetNodeStatus
  <2>1. s.nodes[i] \in Node
    BY <1>1, Zenon
  <2>2. [s.nodes[i] EXCEPT !.status = "Draining"] \in Node
    BY <2>1, Zenon DEF Node, NodeStatuses
  <2>. QED
    BY <1>1, <2>2, Zenon DEF NodeDrain, SetNodeStatus, FsmState
<1>4. ASSUME NEW v \in VolumeNames, NEW x \in Volume \cup {None}
      PROVE  /\ [s EXCEPT !.volumes[v] = x] \in FsmState
             /\ [s EXCEPT !.volumes[v] = x].allocs = s.allocs
             /\ [s EXCEPT !.volumes[v] = x].config = s.config
  BY <1>1, Zenon DEF FsmState
<1>5. [node |-> None] \in Volume
  BY Zenon DEF Volume
<1>6. \A v \in VolumeNames :
         /\ VolumeCreated(s, v) \in FsmState /\ VolumeCreated(s, v).allocs = s.allocs
         /\ VolumeCreated(s, v).config = s.config
         /\ VolumeDestroyed(s, v) \in FsmState /\ VolumeDestroyed(s, v).allocs = s.allocs
         /\ VolumeDestroyed(s, v).config = s.config
  BY <1>4, <1>5, Zenon DEF VolumeCreated, VolumeDestroyed
<1>7. ASSUME NEW v \in VolumeNames, s.volumes[v] # None, NEW m \in NodeIds \cup {None}
      PROVE  /\ [s EXCEPT !.volumes[v].node = m] \in FsmState
             /\ [s EXCEPT !.volumes[v].node = m].allocs = s.allocs
             /\ [s EXCEPT !.volumes[v].node = m].config = s.config
  <2>1. [s.volumes[v] EXCEPT !.node = m] \in Volume
    BY <1>1, <1>7, Zenon DEF Volume
  <2>. QED
    BY <1>1, <2>1, Zenon DEF FsmState
<1>8. \A v \in VolumeNames : /\ VolumeDetached(s, v) \in FsmState /\ VolumeDetached(s, v).allocs = s.allocs
                             /\ VolumeDetached(s, v).config = s.config
  BY <1>7, Zenon DEF VolumeDetached
<1>9. \A v \in VolumeNames, i \in RaftIds :
         /\ VolumeAttached(s, v, i) \in FsmState /\ VolumeAttached(s, v, i).allocs = s.allocs
         /\ VolumeAttached(s, v, i).config = s.config
  <2>1. \A i \in RaftIds : s.nodes[i] # None => s.nodes[i].mill_id \in NodeIds
    BY <1>1, Zenon DEF Node
  <2>. QED
    BY <1>7, <2>1, Zenon DEF VolumeAttached
<1>. QED
  BY <1>2, <1>3, <1>6, <1>8, <1>9, Zenon

\* AllocScheduled puts one allocation in place of what there was.
LEMMA ScheduledAlloc ==
  ASSUME NEW s \in FsmState, NEW a \in AllocIds, NEW i \in RaftIds, NEW t \in Names,
         s.nodes[i] # None
  PROVE  LET n == AllocScheduled(s, a, i, t, "Service") IN
         /\ n \in FsmState /\ n.config = s.config
         /\ n.allocs[a] # None /\ n.allocs[a].name = t /\ n.allocs[a].status = "Pulling"
         /\ \A b \in AllocIds : b # a => n.allocs[b] = s.allocs[b]
<1>1. /\ s = [config |-> s.config, nodes |-> s.nodes, allocs |-> s.allocs,
              secrets |-> s.secrets, volumes |-> s.volumes]
      /\ s.config \in Configs \cup {None} /\ s.nodes \in [RaftIds -> Node \cup {None}]
      /\ s.allocs \in [AllocIds -> Alloc \cup {None}]
      /\ s.secrets \in [SecretNames -> SecretValues \cup {None}]
      /\ s.volumes \in [VolumeNames -> Volume \cup {None}]
  BY Zenon DEF FsmState
<1>. DEFINE x == [node |-> s.nodes[i].mill_id, name |-> t, kind |-> "Service",
                  status |-> "Pulling", address |-> None]
<1>2. s.nodes[i].mill_id \in NodeIds
  BY <1>1, Zenon DEF Node
<1>3. x \in Alloc /\ x # None /\ x.name = t /\ x.status = "Pulling"
  BY <1>2, AbsentAssumption DEF Alloc, AllocKinds, AllocStatuses
<1>4. AllocScheduled(s, a, i, t, "Service") = [s EXCEPT !.allocs[a] = x]
  BY Zenon DEF AllocScheduled
<1>. HIDE DEF x
<1>. QED
  BY <1>1, <1>3, <1>4 DEF FsmState

\* A report changes status and address of an allocation there is, and nothing
\* else.
LEMMA ReportedAlloc ==
  ASSUME NEW s \in FsmState, NEW a \in AllocIds
  PROVE  /\ \A st \in AllocStatuses :
              LET n == SetAllocStatus(s, a, st) IN
              /\ n \in FsmState /\ n.config = s.config
              /\ s.allocs[a] # None => n.allocs[a].status = st
              /\ \A b \in AllocIds : /\ b # a => n.allocs[b] = s.allocs[b]
                                     /\ (n.allocs[b] = None) <=> (s.allocs[b] = None)
                                     /\ n.allocs[b].name = s.allocs[b].name
         /\ LET n == AllocRunning(s, a, Address) IN
            /\ n \in FsmState /\ n.config = s.config
            /\ \A b \in AllocIds : /\ b # a => n.allocs[b] = s.allocs[b]
                                   /\ (n.allocs[b] = None) <=> (s.allocs[b] = None)
                                   /\ n.allocs[b].name = s.allocs[b].name
<1>1. /\ s = [config |-> s.config, nodes |-> s.nodes, allocs |-> s.allocs,
              secrets |-> s.secrets, volumes |-> s.volumes]
      /\ s.config \in Configs \cup {None} /\ s.nodes \in [RaftIds -> Node \cup {None}]
      /\ s.allocs \in [AllocIds -> Alloc \cup {None}]
      /\ s.secrets \in [SecretNames -> SecretValues \cup {None}]
      /\ s.volumes \in [VolumeNames -> Volume \cup {None}]
  BY Zenon DEF FsmState
<1>2. ASSUME NEW x \in Alloc, s.allocs[a] # None, x.name = s.allocs[a].name
      PROVE  LET n == [s EXCEPT !.allocs[a] = x] IN
             /\ n \in FsmState /\ n.config = s.config /\ n.allocs[a] = x
             /\ \A b \in AllocIds : /\ b # a => n.allocs[b] = s.allocs[b]
                                    /\ (n.allocs[b] = None) <=> (s.allocs[b] = None)
                                    /\ n.allocs[b].name = s.allocs[b].name
  <2>1. x # None
    BY AbsentAssumption, Zenon
  <2>. QED
    BY <1>1, <1>2, <2>1, Zenon DEF FsmState
<1>3. ASSUME NEW st \in AllocStatuses
      PROVE  LET n == SetAllocStatus(s, a, st) IN
             /\ n \in FsmState /\ n.config = s.config
             /\ s.allocs[a] # None => n.allocs[a].status = st
             /\ \A b \in AllocIds : /\ b # a => n.allocs[b] = s.allocs[b]
                                    /\ (n.allocs[b] = None) <=> (s.allocs[b] = None)
                                    /\ n.allocs[b].name = s.allocs[b].name
  <2>1. CASE s.allocs[a] = None
    BY <2>1, Zenon DEF SetAllocStatus
  <2>2. CASE s.allocs[a] # None
    <3>. DEFINE x == [s.allocs[a] EXCEPT !.status = st]
    <3>1. x \in Alloc /\ x.name = s.allocs[a].name /\ x.status = st
      BY <1>1, <2>2, Zenon DEF Alloc
    <3>2. SetAllocStatus(s, a, st) = [s EXCEPT !.allocs[a] = x]
      BY <2>2, Zenon DEF SetAllocStatus
    <3>. HIDE DEF x
    <3>. QED
      BY <1>2, <2>2, <3>1, <3>2
  <2>. QED
    BY <2>1, <2>2, Zenon
<1>4. LET n == AllocRunning(s, a, Address) IN
      /\ n \in FsmState /\ n.config = s.config
      /\ \A b \in AllocIds : /\ b # a => n.allocs[b] = s.allocs[b]
                             /\ (n.allocs[b] = None) <=> (s.allocs[b] = None)
                             /\ n.allocs[b].name = s.allocs[b].name
  <2>1. CASE ~(s.allocs[a] # None /\ s.allocs[a].status \in {"Pulling", "Starting"})
    BY <2>1, Zenon DEF AllocRunning
  <2>2. CASE s.allocs[a] # None /\ s.allocs[a].status \in {"Pulling", "Starting"}
    <3>. DEFINE x == [s.allocs[a] EXCEPT !.status = "Running", !.address = Address]
    <3>0. Address \in Addresses
      BY DeployAssumption, Zenon
    <3>1. x \in Alloc /\ x.name = s.allocs[a].name
      BY <1>1, <2>2, <3>0, ZenonT(30) DEF Alloc, AllocStatuses
    <3>2. AllocRunning(s, a, Address) = [s EXCEPT !.allocs[a] = x]
      BY <2>2, Zenon DEF AllocRunning
    <3>. HIDE DEF x
    <3>. QED
      BY <1>2, <2>2, <3>1, <3>2
  <2>. QED
    BY <2>1, <2>2, Zenon
<1>. QED
  BY <1>3, <1>4, Zenon

-----------------------------------------------------------------------------
(* Types and phases are kept. *)

\* The facts about the constants that the proofs need.
LEMMA Constants ==
  /\ None \notin Configs /\ None \notin Versions /\ None \notin AllocIds
  /\ First \in Configs /\ RaftIds # {}
  /\ Address \in Addresses
  /\ \A c \in Configs, s \in Names : DefOf[c][s] \in Versions \cup {None}
  /\ \A d \in Versions : Replicas[d] \in Nat /\ Replicas[d] > 0
  /\ \A s \in Names : FixedId[s] \in Seq(AllocIds)
  /\ \A s \in Names, d \in Versions : Replicas[d] <= Len(FixedId[s])
  /\ \A s, t \in Names : Range(FixedId[s]) \cap Range(FixedId[t]) # {} => s = t
  /\ \A i \in RaftIds : NameOf[i] \in NodeIds
  /\ \A s \in Names : VolumeOf[s] \in VolumeNames \cup {None}
  /\ \A x \in Scenarios : x.configs \subseteq Configs /\ x.drops \in 0 .. MaxDrops
  /\ MaxFails \in Nat /\ MaxDrops \in Nat
<1>1. /\ Replicas \in [Versions -> Nat \ {0}] /\ DefOf \in [Configs -> [Names -> Versions \cup {None}]]
      /\ Scenarios \subseteq [configs : SUBSET Configs, drops : 0 .. MaxDrops, apart : BOOLEAN]
      /\ MaxDrops \in Nat
  BY DeployAssumption, Zenon
<1>2. /\ \A d \in Versions : Replicas[d] \in Nat /\ Replicas[d] > 0
      /\ \A c \in Configs, s \in Names : DefOf[c][s] \in Versions \cup {None}
  BY <1>1
<1>3. \A x \in Scenarios : x.configs \subseteq Configs /\ x.drops \in 0 .. MaxDrops
  BY <1>1, Zenon
<1>. QED
  BY <1>2, <1>3, DeployAssumption, AbsentAssumption, NoneAssumption, Zenon

\* The services of a config have a definition, with at least one replica.
LEMMA Services ==
  ASSUME NEW c \in Configs
  PROVE  /\ ServicesIn(c) \subseteq Names
         /\ \A s \in ServicesIn(c) : DefOf[c][s] \in Versions
         /\ \A s \in Names : s \in ServicesIn(c) <=> DefOf[c][s] # None
BY Constants, Zenon DEF ServicesIn

\* Commands that are sent, and those that are left after one is executed.
LEMMA SendCommand ==
  ASSUME queue \in [RaftIds -> Seq(Command)], NEW m, NEW c \in Command, Send(m, c)
  PROVE  /\ queue' \in [RaftIds -> Seq(Command)]
         /\ \A i \in RaftIds : \A k \in 1 .. Len(queue'[i]) :
              queue'[i][k] = c \/ \E j \in 1 .. Len(queue[i]) : queue'[i][k] = queue[i][j]
BY DEF Send

LEMMA TakeCommand ==
  ASSUME queue \in [RaftIds -> Seq(Command)], NEW i \in RaftIds, queue[i] # <<>>,
         queue' = [queue EXCEPT ![i] = Tail(@)]
  PROVE  /\ queue' \in [RaftIds -> Seq(Command)]
         /\ Head(queue[i]) \in Command /\ 1 \in 1 .. Len(queue[i]) /\ Head(queue[i]) = queue[i][1]
         /\ \A j \in RaftIds : \A k \in 1 .. Len(queue'[j]) :
              \E l \in 1 .. Len(queue[j]) : queue'[j][k] = queue[j][l]
<1>1. queue[i] \in Seq(Command) /\ Tail(queue[i]) \in Seq(Command)
  OBVIOUS
<1>2. \A k \in 1 .. Len(Tail(queue[i])) : /\ k + 1 \in 1 .. Len(queue[i])
                                          /\ Tail(queue[i])[k] = queue[i][k + 1]
  BY <1>1
<1>3. Head(queue[i]) \in Command /\ 1 \in 1 .. Len(queue[i]) /\ Head(queue[i]) = queue[i][1]
  BY <1>1
<1>4. queue' \in [RaftIds -> Seq(Command)]
  BY <1>1, Zenon
<1>5. \A j \in RaftIds : queue'[j] = IF j = i THEN Tail(queue[i]) ELSE queue[j]
  BY Zenon
<1>. QED
  BY <1>2, <1>3, <1>4, <1>5

\* An operation whose field changes to a value of the field's type.
LEMMA OpWith ==
  \A q \in Op :
    /\ \A x \in Phases : [q EXCEPT !.pc = x] \in Op
    /\ \A x \in Configs \cup {None} : [q EXCEPT !.new = x] \in Op
    /\ \A x \in SUBSET Names : /\ [q EXCEPT !.removed = x] \in Op
                               /\ [q EXCEPT !.added = x] \in Op
                               /\ [q EXCEPT !.changed = x] \in Op
    /\ \A x \in Names \cup {None} : [q EXCEPT !.svc = x] \in Op
    /\ \A x \in Placement \cup {None} : [q EXCEPT !.cur = x] \in Op
    /\ \A x \in SUBSET Placement : /\ [q EXCEPT !.prior = x] \in Op
                                   /\ [q EXCEPT !.news = x] \in Op
                                   /\ [q EXCEPT !.stops = x] \in Op
    /\ \A x \in VolumeNames \cup {None} : [q EXCEPT !.vol = x] \in Op
    /\ \A x \in RaftIds \cup {None} : [q EXCEPT !.target = x] \in Op
    /\ \A x \in SUBSET VolumeNames : [q EXCEPT !.vols = x] \in Op
    /\ \A x \in SUBSET AllocIds : [q EXCEPT !.moves = x] \in Op
    /\ \A x \in BOOLEAN : [q EXCEPT !.failed = x] \in Op
<1>. SUFFICES ASSUME NEW q \in Op
              PROVE  /\ \A x \in Phases : [q EXCEPT !.pc = x] \in Op
                     /\ \A x \in Configs \cup {None} : [q EXCEPT !.new = x] \in Op
                     /\ \A x \in SUBSET Names : /\ [q EXCEPT !.removed = x] \in Op
                                                /\ [q EXCEPT !.added = x] \in Op
                                                /\ [q EXCEPT !.changed = x] \in Op
                     /\ \A x \in Names \cup {None} : [q EXCEPT !.svc = x] \in Op
                     /\ \A x \in Placement \cup {None} : [q EXCEPT !.cur = x] \in Op
                     /\ \A x \in SUBSET Placement : /\ [q EXCEPT !.prior = x] \in Op
                                                    /\ [q EXCEPT !.news = x] \in Op
                                                    /\ [q EXCEPT !.stops = x] \in Op
                     /\ \A x \in VolumeNames \cup {None} : [q EXCEPT !.vol = x] \in Op
                     /\ \A x \in RaftIds \cup {None} : [q EXCEPT !.target = x] \in Op
                     /\ \A x \in SUBSET VolumeNames : [q EXCEPT !.vols = x] \in Op
                     /\ \A x \in SUBSET AllocIds : [q EXCEPT !.moves = x] \in Op
                     /\ \A x \in BOOLEAN : [q EXCEPT !.failed = x] \in Op
  BY Zenon
<1>1. \A x \in Phases : [q EXCEPT !.pc = x] \in Op
  BY Zenon DEF Op
<1>2. \A x \in Configs \cup {None} : [q EXCEPT !.new = x] \in Op
  BY Zenon DEF Op
<1>3. \A x \in SUBSET Names : /\ [q EXCEPT !.removed = x] \in Op
                              /\ [q EXCEPT !.added = x] \in Op
                              /\ [q EXCEPT !.changed = x] \in Op
  BY ZenonT(30) DEF Op
<1>4. \A x \in Names \cup {None} : [q EXCEPT !.svc = x] \in Op
  BY Zenon DEF Op
<1>5. \A x \in Placement \cup {None} : [q EXCEPT !.cur = x] \in Op
  BY Zenon DEF Op
<1>6. \A x \in SUBSET Placement : /\ [q EXCEPT !.prior = x] \in Op
                                  /\ [q EXCEPT !.news = x] \in Op
                                  /\ [q EXCEPT !.stops = x] \in Op
  BY ZenonT(30) DEF Op
<1>7. \A x \in VolumeNames \cup {None} : [q EXCEPT !.vol = x] \in Op
  BY Zenon DEF Op
<1>8. \A x \in RaftIds \cup {None} : [q EXCEPT !.target = x] \in Op
  BY Zenon DEF Op
<1>9. \A x \in SUBSET VolumeNames : [q EXCEPT !.vols = x] \in Op
  BY Zenon DEF Op
<1>10. \A x \in SUBSET AllocIds : [q EXCEPT !.moves = x] \in Op
  BY Zenon DEF Op
<1>11. \A x \in BOOLEAN : [q EXCEPT !.failed = x] \in Op
  BY Zenon DEF Op
<1>. QED
  BY <1>1, <1>2, <1>3, <1>4, <1>5, <1>6, <1>7, <1>8, <1>9, <1>10, <1>11, Zenon

\* An operation that changes to r; allocations do not go away.
LEMMA OpTyped ==
  ASSUME TypeInv, NEW o \in Ops, NEW r \in Op, op' = [op EXCEPT ![o] = r],
         PhaseOK(r, AllocsIn(fsm)'), AllocsIn(fsm) \subseteq AllocsIn(fsm)'
  PROVE  op' \in [Ops -> Op] /\ \A p \in Ops : PhaseOK(op[p], AllocsIn(fsm))'
<1>1. op \in [Ops -> Op]
  BY Zenon DEF TypeInv, DeployTypeOK
<1>2. \A p \in Ops : PhaseOK(op[p], AllocsIn(fsm))
  BY Zenon DEF TypeInv
<1>3. \A p \in Ops : PhaseOK(op[p], AllocsIn(fsm)')
  BY <1>2, Zenon DEF PhaseOK
<1>. QED
  BY <1>1, <1>3, Zenon

\* A step is typed if what it changes is.
LEMMA TypedStep ==
  ASSUME TypeInv, NEW o \in Ops, NEW r \in Op, op' = [op EXCEPT ![o] = r],
         PhaseOK(r, AllocsIn(fsm)'), AllocsIn(fsm) \subseteq AllocsIn(fsm)',
         fsm' \in FsmState, running' \in [AllocIds -> Versions \cup {None}],
         queue' \in [RaftIds -> Seq(Command)], cloud' \in [VolumeNames -> Volume \cup {None}],
         fails' \in 0 .. MaxFails, drops' \in 0 .. MaxDrops, overlap' \in BOOLEAN,
         scenario' \in Scenarios
  PROVE  TypeInv'
<1>1. op' \in [Ops -> Op] /\ \A p \in Ops : PhaseOK(op[p], AllocsIn(fsm))'
  BY OpTyped, Zenon
<1>. QED
  BY <1>1, Zenon DEF TypeInv, DeployTypeOK

\* A new operation has the type and is in its phase.
LEMMA BegunTyped ==
  ASSUME TypeInv, NEW o \in Ops, Request(o)
  PROVE  TypeInv'
<1>. DEFINE K == AllocsIn(fsm)
<1>1. /\ fsm \in FsmState /\ running \in [AllocIds -> Versions \cup {None}]
      /\ queue \in [RaftIds -> Seq(Command)] /\ cloud \in [VolumeNames -> Volume \cup {None}]
      /\ fails \in 0 .. MaxFails /\ drops \in 0 .. MaxDrops /\ overlap \in BOOLEAN
      /\ scenario \in Scenarios
  BY Zenon DEF TypeInv, DeployTypeOK
<1>2. fsm.config \in Configs \cup {None}
  BY <1>1, Zenon DEF FsmState
<1>3. \A c \in Configs \cup {None} : ServicesIn(c) \subseteq Names
  BY Zenon DEF ServicesIn
<1>4. ASSUME NEW r \in Op, NEW k, Begin(o, k, r), PhaseOK(r, K), fsm' \in FsmState,
             fsm'.allocs = fsm.allocs
      PROVE  TypeInv'
  <2>1. AllocsIn(fsm)' = K
    BY <1>4, Zenon DEF AllocsIn
  <2>2. /\ op' = [op EXCEPT ![o] = r] /\ overlap' \in BOOLEAN
        /\ UNCHANGED <<running, queue, cloud, fails, drops, scenario>>
    BY <1>1, <1>4, Zenon DEF Begin, Quiet
  <2>. QED
    BY <1>1, <1>4, <2>1, <2>2, TypedStep, Zenon
<1>5. ASSUME NEW c \in scenario.configs, StartDeploy(o, c)
      PROVE  TypeInv'
  <2>1. PICK r : r = [NewOp EXCEPT !.kind = "deploy", !.pc = "propose", !.new = c, !.old = fsm.config,
                        !.removed = ServicesIn(fsm.config) \ ServicesIn(c),
                        !.added = ServicesIn(c) \ ServicesIn(fsm.config),
                        !.changed = {s \in ServicesIn(c) \cap ServicesIn(fsm.config) :
                                        DefOf[c][s] # DefOf[fsm.config][s]}]
    BY Zenon
  <2>2. Begin(o, "deploy", r) /\ UNCHANGED fsm /\ "deploy" \in Kinds
    BY <1>5, <2>1, Zenon DEF StartDeploy, Begin
  <2>3. c \in Configs
    BY <1>1, Constants, Zenon
  <2>4. /\ ServicesIn(fsm.config) \ ServicesIn(c) \subseteq Names
        /\ ServicesIn(c) \ ServicesIn(fsm.config) \subseteq Names
        /\ {s \in ServicesIn(c) \cap ServicesIn(fsm.config) :
                                        DefOf[c][s] # DefOf[fsm.config][s]} \subseteq Names
    BY <1>2, <1>3, <2>3, Zenon
  <2>5. r \in Op
    BY <1>2, <2>1, <2>2, <2>3, <2>4, ZenonT(30) DEF NewOp, Op, Phases
  <2>6. /\ r.kind = "deploy" /\ r.pc = "propose" /\ r.new = c
        /\ r.added \cup r.changed \subseteq ServicesIn(c)
    BY <2>1, Zenon DEF NewOp
  <2>7. PhaseOK(r, K)
    BY <2>3, <2>6, Zenon DEF PhaseOK, Volumetric, Replacing, Starting, Draining
  <2>. QED
    BY <1>1, <1>4, <2>2, <2>5, <2>7, Zenon
<1>6. ASSUME NEW s \in Names, StartRestart(o, s)
      PROVE  TypeInv'
  <2>1. PICK r : r = [NewOp EXCEPT !.kind = "restart", !.pc = "service", !.new = fsm.config,
                        !.changed = {s}]
    BY Zenon
  <2>2. Begin(o, "restart", r) /\ UNCHANGED fsm /\ "restart" \in Kinds /\ s \in ServicesIn(fsm.config)
    BY <1>6, <2>1, Zenon DEF StartRestart, Begin
  <2>3. fsm.config \in Configs
    BY <1>2, <2>2, Zenon DEF ServicesIn
  <2>4. r \in Op
    BY <1>2, <2>1, <2>2, ZenonT(30) DEF NewOp, Op, Phases
  <2>5. r.kind = "restart" /\ r.pc = "service" /\ r.new = fsm.config /\ r.added = {} /\ r.changed = {s}
    BY <2>1, Zenon DEF NewOp
  <2>6. PhaseOK(r, K)
    BY <2>2, <2>3, <2>5, Zenon DEF PhaseOK, Volumetric, Replacing, Starting, Draining
  <2>. QED
    BY <1>1, <1>4, <2>2, <2>4, <2>6, Zenon
<1>7. ASSUME NEW i \in RaftIds, StartDrain(o, i)
      PROVE  TypeInv'
  <2>1. PICK r : r = [NewOp EXCEPT !.kind = "drain", !.pc = "collect", !.node = NameOf[i]]
    BY Zenon
  <2>2. Begin(o, "drain", r) /\ fsm' = NodeDrain(fsm, i) /\ "drain" \in Kinds
    BY <1>7, <2>1, Zenon DEF StartDrain, Begin
  <2>. NameOf[i] \in NodeIds
    BY Constants, Zenon
  <2>3. r \in Op
    BY <2>1, <2>2, ZenonT(30) DEF NewOp, Op, Phases
  <2>4. r.kind = "drain" /\ r.pc = "collect" /\ r.news = {} /\ r.node \in NodeIds
    BY <2>1, Zenon DEF NewOp
  <2>5. PhaseOK(r, K)
    BY <2>4, Zenon DEF PhaseOK, Volumetric, Replacing, Starting, Draining
  <2>6. fsm' \in FsmState /\ fsm'.allocs = fsm.allocs
    BY <1>1, <2>2, OtherCommands, Zenon
  <2>. QED
    BY <1>4, <2>2, <2>3, <2>5, <2>6, Zenon
<1>8. ASSUME NEW v \in VolumeNames, StartDelete(o, v)
      PROVE  TypeInv'
  <2>1. PICK r : r = [NewOp EXCEPT !.kind = "delete", !.pc = "destroy", !.vol = v]
    BY Zenon
  <2>2. Begin(o, "delete", r) /\ UNCHANGED fsm /\ "delete" \in Kinds
    BY <1>8, <2>1, Zenon DEF StartDelete, Begin
  <2>3. r \in Op
    BY <2>1, <2>2, ZenonT(30) DEF NewOp, Op, Phases
  <2>4. r.kind = "delete" /\ r.pc = "destroy" /\ r.vol = v
    BY <2>1, Zenon DEF NewOp
  <2>5. PhaseOK(r, K)
    BY <2>4, Zenon DEF PhaseOK, Volumetric, Replacing, Starting, Draining
  <2>. QED
    BY <1>1, <1>4, <2>2, <2>3, <2>5, Zenon
<1>. QED
  BY <1>5, <1>6, <1>7, <1>8, Zenon DEF Request

\* A step of an operation that leaves allocations, containers and queues alone.
LEMMA QuietTyped ==
  ASSUME TypeInv, NEW o \in Ops, NEW r \in Op, NEW pcs, Goto(o, pcs, r), PhaseOK(r, AllocsIn(fsm)),
         fsm' \in FsmState, fsm'.allocs = fsm.allocs, UNCHANGED <<running, queue>>,
         cloud' \in [VolumeNames -> Volume \cup {None}], fails' \in 0 .. MaxFails,
         drops' \in 0 .. MaxDrops
  PROVE  TypeInv'
<1>1. AllocsIn(fsm)' = AllocsIn(fsm)
  BY Zenon DEF AllocsIn
<1>2. /\ running \in [AllocIds -> Versions \cup {None}] /\ queue \in [RaftIds -> Seq(Command)]
      /\ overlap \in BOOLEAN /\ scenario \in Scenarios
  BY Zenon DEF TypeInv, DeployTypeOK
<1>3. op' = [op EXCEPT ![o] = r] /\ UNCHANGED <<overlap, scenario>>
  BY Zenon DEF Goto
<1>. QED
  BY <1>1, <1>2, <1>3, TypedStep, Zenon

\* An operation that gives a service up goes on with the others.
LEMMA AbandonedTyped ==
  ASSUME NEW q \in Op, NEW K, PhaseOK(q, K), q.kind \in {"deploy", "restart"}, NEW s
  PROVE  Abandoned(q, s) \in Op /\ PhaseOK(Abandoned(q, s), K)
<1>1. PICK added \in SUBSET Names, changed \in SUBSET Names :
         added = q.added \ {s} /\ changed = q.changed \ {s}
  BY Zenon DEF Op
<1>2. PICK r : r = [q EXCEPT !.pc = "service", !.added = added, !.changed = changed,
                             !.failed = TRUE, !.svc = None, !.vol = None, !.target = None]
  BY Zenon
<1>3. r = Abandoned(q, s)
  BY <1>1, <1>2, Zenon DEF Abandoned
<1>4. r \in Op
  BY <1>2, OpWith, Zenon DEF Phases
<1>5. /\ r.pc = "service" /\ r.kind = q.kind /\ r.new = q.new
      /\ r.added \cup r.changed \subseteq q.added \cup q.changed
  BY <1>1, <1>2, Zenon DEF Op
<1>6. PhaseOK(r, K)
  BY <1>5, Zenon DEF PhaseOK, Volumetric, Replacing, Starting, Draining
<1>. QED
  BY <1>3, <1>4, <1>6, Zenon

\* The phases of a deploy between its services, and of the volumes they need.
LEMMA ServiceTyped ==
  ASSUME TypeInv, NEW o \in Ops,
         \/ Reject(o) \/ ProposeDeploy(o) \/ Finish(o)
         \/ \E s \in Names : BeginRemoval(o, s) \/ BeginService(o, s)
         \/ BeginReplicas(o)
  PROVE  TypeInv'
<1>. DEFINE K == AllocsIn(fsm)
<1>1. /\ fsm \in FsmState /\ cloud \in [VolumeNames -> Volume \cup {None}]
      /\ fails \in 0 .. MaxFails /\ drops \in 0 .. MaxDrops
  BY Zenon DEF TypeInv, DeployTypeOK
<1>2. op[o] \in Op /\ PhaseOK(op[o], K)
  BY Zenon DEF TypeInv, DeployTypeOK
<1>3. ASSUME NEW a \in SUBSET K
      PROVE  Placed(a) \subseteq Placement
  <2>1. \A b \in K : b \in AllocIds /\ fsm.allocs[b].node \in NodeIds
    BY <1>1, Zenon DEF AllocsIn, FsmState, Alloc
  <2>. QED
    BY <2>1 DEF Placed, Placement
<1>4. \A s \in Names : Placed(ServiceAllocs(fsm, s)) \in SUBSET Placement
  BY <1>3, Zenon DEF ServiceAllocs
<1>5. ASSUME Reject(o)
      PROVE  TypeInv'
  <2>1. PICK r : r = [op[o] EXCEPT !.pc = "done"]
    BY Zenon
  <2>2. r \in Op
    BY <1>2, <2>1, OpWith, Zenon DEF Phases
  <2>3. PhaseOK(r, K)
    BY <1>2, <2>1, Zenon DEF PhaseOK, Volumetric, Replacing, Starting, Draining, Op
  <2>. QED
    BY <1>1, <1>5, <2>1, <2>2, <2>3, QuietTyped, Zenon DEF Reject
<1>6. ASSUME ProposeDeploy(o)
      PROVE  TypeInv'
  <2>1. PICK r : r = [op[o] EXCEPT !.pc = "service"]
    BY Zenon
  <2>2. r \in Op
    BY <1>2, <2>1, OpWith, Zenon DEF Phases
  <2>3. Goto(o, {"propose"}, r) /\ op[o].pc = "propose" /\ fsm' = Deploy(fsm, op[o].new)
    BY <1>6, <2>1, Zenon DEF ProposeDeploy, Goto
  <2>4. PhaseOK(r, K) /\ op[o].new \in Configs
    BY <1>2, <2>1, <2>3, Zenon DEF PhaseOK, Volumetric, Replacing, Starting, Draining, Op
  <2>5. fsm' \in FsmState /\ fsm'.allocs = fsm.allocs
    BY <1>1, <2>3, <2>4, OtherCommands, Zenon
  <2>. QED
    BY <1>1, <1>6, <2>1, <2>2, <2>3, <2>4, <2>5, QuietTyped, Zenon DEF ProposeDeploy
<1>7. ASSUME Finish(o)
      PROVE  TypeInv'
  <2>1. PICK r : r = [op[o] EXCEPT !.pc = "done"]
    BY Zenon
  <2>2. r \in Op
    BY <1>2, <2>1, OpWith, Zenon DEF Phases
  <2>3. PhaseOK(r, K)
    BY <1>2, <2>1, Zenon DEF PhaseOK, Volumetric, Replacing, Starting, Draining, Op
  <2>4. fsm' = fsm \/ (fsm' = Deploy(fsm, op[o].old) /\ op[o].old \in Configs)
    BY <1>2, <1>7, Zenon DEF Finish, Op
  <2>5. fsm' \in FsmState /\ fsm'.allocs = fsm.allocs
    BY <1>1, <2>4, OtherCommands
  <2>. QED
    BY <1>1, <1>7, <2>1, <2>2, <2>3, <2>5, QuietTyped, ZenonT(30) DEF Finish
<1>8. ASSUME NEW s \in Names, BeginRemoval(o, s)
      PROVE  TypeInv'
  <2>0. PICK stops \in SUBSET Placement : stops = Placed(ServiceAllocs(fsm, s))
    BY <1>4, Zenon
  <2>2. [op[o] EXCEPT !.pc = "remove", !.svc = s, !.stops = stops] \in Op
    BY <1>2, OpWith, Zenon DEF Phases
  <2>1. PICK r \in Op : r = [op[o] EXCEPT !.pc = "remove", !.svc = s, !.stops = stops]
    BY <2>2, Zenon
  <2>3. Goto(o, {"service"}, r) /\ op[o].pc = "service"
    BY <1>8, <2>0, <2>1, Zenon DEF BeginRemoval, Goto
  <2>4. PhaseOK(r, K)
    BY <1>2, <2>1, <2>3 DEF PhaseOK, Volumetric, Replacing, Starting, Draining, Op
  <2>. QED
    BY <1>1, <1>8, <2>3, <2>4, QuietTyped, Zenon DEF BeginRemoval
<1>9. ASSUME NEW s \in Names, NEW r, r = Provided(op[o], s), op[o].kind \in {"deploy", "restart"},
             s \in ServicesIn(op[o].new)
      PROVE  r \in Op /\ PhaseOK(r, K)
  <2>1. op[o].new \in Configs
    BY <1>2, <1>9, Zenon DEF PhaseOK
  <2>2. PICK prior \in SUBSET Placement :
           r = [op[o] EXCEPT !.pc = "schedule", !.svc = s, !.vol = None, !.target = None,
                             !.news = {}, !.prior = prior]
    BY <1>4, <1>9, Zenon DEF Provided
  <2>3. r \in Op
    BY <1>2, <2>2, OpWith, Zenon DEF Phases
  <2>4. IsFiniteSet({}) /\ Cardinality({}) = 0
    BY FS_EmptySet, Zenon
  <2>5. DefOf[op[o].new][s] \in Versions
    BY <1>9, <2>1, Services, Zenon
  <2>6. 0 < Replicas[DefOf[op[o].new][s]]
    BY <2>5, Constants, Zenon
  <2>7. /\ r.pc = "schedule" /\ r.svc = s /\ r.news = {} /\ r.kind = op[o].kind
        /\ r.new = op[o].new /\ r.added = op[o].added /\ r.changed = op[o].changed
    BY <1>2, <2>2, Zenon DEF Op
  <2>8. PhaseOK(r, K)
    BY <1>2, <1>9, <2>1, <2>4, <2>6, <2>7, Zenon DEF PhaseOK, Volumetric, Replacing, Starting, Draining
  <2>. QED
    BY <2>3, <2>8, Zenon
<1>10. ASSUME NEW s \in Names, BeginService(o, s)
       PROVE  TypeInv'
  <2>. DEFINE v == VolumeOf[s]
  <2>1. op[o].pc = "service"
    BY <1>10, Zenon DEF BeginService, Goto
  <2>2. op[o].kind \in {"deploy", "restart"} /\ op[o].new \in Configs /\ s \in ServicesIn(op[o].new)
    BY <1>2, <1>10, <2>1, Zenon DEF PhaseOK, BeginService
  <2>3. CASE Goto(o, {"service"}, Provided(op[o], s))
    BY <1>1, <1>9, <1>10, <2>2, <2>3, QuietTyped, Zenon DEF BeginService
  <2>4. CASE Goto(o, {"service"}, Abandoned(op[o], s))
    <3>1. PICK r : r = Abandoned(op[o], s)
      BY Zenon
    <3>2. r \in Op /\ PhaseOK(r, K)
      BY <1>2, <2>2, <3>1, AbandonedTyped, Zenon
    <3>. QED
      BY <1>1, <1>10, <2>4, <3>1, <3>2, QuietTyped, Zenon DEF BeginService
  <2>5. ASSUME NEW i \in ReadyNodes, NEW pc \in {"create", "attach", "detach"}, v # None,
               Goto(o, {"service"}, [op[o] EXCEPT !.svc = s, !.vol = v, !.target = i, !.pc = pc])
        PROVE  TypeInv'
    <3>1. PICK r : r = [op[o] EXCEPT !.svc = s, !.vol = v, !.target = i, !.pc = pc]
      BY Zenon
    <3>2. v \in VolumeNames /\ i \in RaftIds
      BY <2>5, Constants, Zenon DEF ReadyNodes, NodesIn
    <3>3. r \in Op
      BY <1>2, <3>1, <3>2, OpWith, Zenon DEF Phases
    <3>4. PhaseOK(r, K)
      BY <1>2, <2>1, <2>2, <3>1, <3>2, Zenon DEF PhaseOK, Volumetric, Replacing, Starting, Draining, Op
    <3>. QED
      BY <1>1, <1>10, <2>5, <3>1, <3>3, <3>4, QuietTyped, Zenon DEF BeginService
  <2>. QED
    BY <1>10, <2>3, <2>4, <2>5, Zenon DEF BeginService
<1>11. ASSUME BeginReplicas(o)
       PROVE  TypeInv'
  <2>1. op[o].pc = "provided"
    BY <1>11, Zenon DEF BeginReplicas, Goto
  <2>2. op[o].kind \in {"deploy", "restart"} /\ op[o].new \in Configs /\ op[o].svc \in ServicesIn(op[o].new)
    BY <1>2, <2>1, Zenon DEF PhaseOK
  <2>3. op[o].svc \in Names
    BY <2>2, Services, Zenon
  <2>. QED
    BY <1>1, <1>9, <1>11, <2>2, <2>3, QuietTyped, Zenon DEF BeginReplicas
<1>. QED
  BY <1>5, <1>6, <1>7, <1>8, <1>10, <1>11, Zenon

\* The calls of the driver and the commands that record them.
LEMMA VolumesTyped ==
  ASSUME TypeInv, NEW o \in Ops,
         \/ CreateVolume(o) \/ DetachVolume(o) \/ AttachVolume(o) \/ DestroyVolume(o)
         \/ DriverFails(o) \/ RecordVolume(o) \/ RecordDestroyed(o)
  PROVE  TypeInv'
<1>. DEFINE K == AllocsIn(fsm)
<1>1. /\ fsm \in FsmState /\ cloud \in [VolumeNames -> Volume \cup {None}]
      /\ fails \in 0 .. MaxFails /\ drops \in 0 .. MaxDrops
  BY Zenon DEF TypeInv, DeployTypeOK
<1>2. op[o] \in Op /\ PhaseOK(op[o], K)
  BY Zenon DEF TypeInv, DeployTypeOK
<1>3. ASSUME NEW pc, NEW next, NEW c \in Volume \cup {None}, DriverDoes(o, pc, next, c),
             \/ (pc = "create" /\ next = "created") \/ (pc = "detach" /\ next = "detached")
             \/ (pc = "attach" /\ next = "attached") \/ (pc = "destroy" /\ next = "destroyed")
      PROVE  TypeInv'
  <2>1. PICK r : r = [op[o] EXCEPT !.pc = next]
    BY Zenon
  <2>2. r \in Op
    BY <1>2, <1>3, <2>1, OpWith, Zenon DEF Phases
  <2>3. Goto(o, {pc}, r) /\ op[o].pc = pc /\ UNCHANGED <<fsm, running, queue, fails, drops>>
    BY <1>3, <2>1, Zenon DEF DriverDoes, Goto
  <2>4. cloud' \in [VolumeNames -> Volume \cup {None}]
    BY <1>1, <1>3, Zenon DEF DriverDoes
  <2>5. PhaseOK(r, K)
    BY <1>2, <1>3, <2>1, <2>3, Zenon DEF PhaseOK, Volumetric, Replacing, Starting, Draining, Op
  <2>. QED
    BY <1>1, <2>2, <2>3, <2>4, <2>5, QuietTyped, Zenon
<1>4. [node |-> None] \in Volume /\ \A i \in RaftIds : [node |-> NameOf[i]] \in Volume
  BY Constants, Zenon DEF Volume
<1>5. CASE CreateVolume(o)
  BY <1>3, <1>4, <1>5, Zenon DEF CreateVolume
<1>6. CASE DetachVolume(o)
  BY <1>3, <1>4, <1>6, Zenon DEF DetachVolume
<1>7. CASE DestroyVolume(o)
  BY <1>3, <1>7, Zenon DEF DestroyVolume
<1>8. CASE AttachVolume(o)
  <2>1. op[o].vol \in VolumeNames /\ op[o].target \in RaftIds
    BY <1>2, <1>8, Zenon DEF AttachVolume, PhaseOK, Volumetric
  <2>2. cloud[op[o].vol] \in Volume \cup {None} /\ [node |-> NameOf[op[o].target]] \in Volume
    BY <1>1, <1>4, <2>1, Zenon
  <2>. QED
    BY <1>3, <1>8, <2>2, Zenon DEF AttachVolume
<1>9. CASE DriverFails(o)
  <2>1. op[o].pc \in {"create", "detach", "attach", "destroy"}
    BY <1>9, Zenon DEF DriverFails, Goto
  <2>2. op[o].kind # "delete" => op[o].kind \in {"deploy", "restart"}
    BY <1>2, <2>1, Zenon DEF PhaseOK, Volumetric
  <2>3. fails' \in 0 .. MaxFails
    BY <1>1, <1>9, Constants DEF DriverFails
  <2>4. CASE op[o].kind = "delete"
    <3>1. PICK r : r = [op[o] EXCEPT !.pc = "done"]
      BY Zenon
    <3>2. r \in Op
      BY <1>2, <3>1, OpWith, Zenon DEF Phases
    <3>3. PhaseOK(r, K)
      BY <1>2, <3>1, Zenon DEF PhaseOK, Volumetric, Replacing, Starting, Draining, Op
    <3>. QED
      BY <1>1, <1>9, <2>3, <2>4, <3>1, <3>2, <3>3, QuietTyped, Zenon DEF DriverFails
  <2>5. CASE op[o].kind # "delete"
    <3>1. PICK r : r = Abandoned(op[o], op[o].svc)
      BY Zenon
    <3>2. r \in Op /\ PhaseOK(r, K)
      BY <1>2, <2>2, <2>5, <3>1, AbandonedTyped, Zenon
    <3>. QED
      BY <1>1, <1>9, <2>3, <2>5, <3>1, <3>2, QuietTyped, Zenon DEF DriverFails
  <2>. QED
    BY <2>4, <2>5, Zenon
<1>10. CASE RecordVolume(o)
  <2>1. PICK pc \in {"provided", "attach"} : pc = IF op[o].pc = "attached" THEN "provided" ELSE "attach"
    BY Zenon
  <2>2. PICK r : r = [op[o] EXCEPT !.pc = pc]
    BY Zenon
  <2>. pc \in Phases
    BY <2>1, Zenon DEF Phases
  <2>3. r \in Op
    BY <1>2, <2>2, OpWith, Zenon
  <2>4. Goto(o, {"created", "detached", "attached"}, r) /\ op[o].pc \in {"created", "detached", "attached"}
    BY <1>10, <2>1, <2>2, Zenon DEF RecordVolume, Goto
  <2>5. PhaseOK(r, K)
    BY <1>2, <2>1, <2>2, <2>4, Zenon DEF PhaseOK, Volumetric, Replacing, Starting, Draining, Op
  <2>6. op[o].vol \in VolumeNames /\ op[o].target \in RaftIds
    BY <1>2, <2>4, Zenon DEF PhaseOK, Volumetric
  <2>7. \/ fsm' = VolumeCreated(fsm, op[o].vol) \/ fsm' = VolumeDetached(fsm, op[o].vol)
        \/ fsm' = VolumeAttached(fsm, op[o].vol, op[o].target)
    BY <1>10, <2>4, Zenon DEF RecordVolume
  <2>8. fsm' \in FsmState /\ fsm'.allocs = fsm.allocs
    <3>1. PICK v \in VolumeNames, i \in RaftIds :
             \/ fsm' = VolumeCreated(fsm, v) \/ fsm' = VolumeDetached(fsm, v)
             \/ fsm' = VolumeAttached(fsm, v, i)
      BY <2>6, <2>7, Zenon
    <3>2. CASE fsm' = VolumeCreated(fsm, v)
      BY <1>1, <3>2, OtherCommands, Zenon
    <3>3. CASE fsm' = VolumeDetached(fsm, v)
      BY <1>1, <3>3, OtherCommands, Zenon
    <3>4. CASE fsm' = VolumeAttached(fsm, v, i)
      BY <1>1, <3>4, OtherCommands, Zenon
    <3>. QED
      BY <3>1, <3>2, <3>3, <3>4, Zenon
  <2>. QED
    BY <1>1, <1>10, <2>3, <2>4, <2>5, <2>8, QuietTyped, Zenon DEF RecordVolume
<1>11. CASE RecordDestroyed(o)
  <2>1. PICK r : r = [op[o] EXCEPT !.pc = "done"]
    BY Zenon
  <2>2. r \in Op
    BY <1>2, <2>1, OpWith, Zenon DEF Phases
  <2>3. PhaseOK(r, K)
    BY <1>2, <2>1, Zenon DEF PhaseOK, Volumetric, Replacing, Starting, Draining, Op
  <2>4. op[o].vol \in VolumeNames
    BY <1>2, <1>11, Zenon DEF RecordDestroyed, Goto, PhaseOK
  <2>5. fsm' \in FsmState /\ fsm'.allocs = fsm.allocs
    BY <1>1, <1>11, <2>4, OtherCommands, Zenon DEF RecordDestroyed
  <2>. QED
    BY <1>1, <1>11, <2>1, <2>2, <2>3, <2>5, QuietTyped, ZenonT(30) DEF RecordDestroyed
<1>. QED
  BY <1>5, <1>6, <1>7, <1>8, <1>9, <1>10, <1>11, Zenon

\* Schedule takes an id of its own for a service that is added, and an unused
\* one otherwise.
LEMMA ScheduleStep ==
  ASSUME TypeInv, NEW o \in Ops, Schedule(o)
  PROVE  \E a \in AllocIds, i \in RaftIds :
           /\ op[o].pc = "schedule" /\ op[o].svc \in Names
           /\ fsm.nodes[i] # None
           /\ op' = [op EXCEPT ![o] = [op[o] EXCEPT !.pc = "run", !.cur = <<a, NameOf[i]>>]]
           /\ fsm' = AllocScheduled(fsm, a, i, op[o].svc, "Service")
           /\ IF op[o].svc \in op[o].added THEN a \in Started(op[o].svc) ELSE a \in Unused
           /\ UNCHANGED <<running, queue, cloud, fails, drops, overlap, scenario>>
<1>1. op[o] \in Op /\ PhaseOK(op[o], AllocsIn(fsm)) /\ op[o].pc = "schedule"
  BY Zenon DEF TypeInv, DeployTypeOK, Schedule
<1>2. PICK r : r = op[o]
  BY Zenon
<1>3. r.new \in Configs /\ r.svc \in ServicesIn(r.new) /\ IsFiniteSet(r.news)
      /\ Cardinality(r.news) < Replicas[DefOf[r.new][r.svc]]
  BY <1>1, <1>2, Zenon DEF PhaseOK, Replacing
<1>4. r.svc \in Names /\ DefOf[r.new][r.svc] \in Versions
  BY <1>3, Services, Zenon
<1>5. PICK n : n = Cardinality(r.news)
  BY Zenon
<1>6. n \in Nat
  BY <1>3, <1>5, FS_CardinalityType, Zenon
<1>7. n + 1 \in 1 .. Len(FixedId[r.svc]) /\ FixedId[r.svc] \in Seq(AllocIds)
  <2>1. PICK d \in Versions : d = DefOf[r.new][r.svc]
    BY <1>4, Zenon
  <2>2. n < Replicas[d] /\ Replicas[d] \in Nat /\ Replicas[d] <= Len(FixedId[r.svc])
    BY <1>3, <1>4, <1>5, <2>1, Constants, Zenon
  <2>3. FixedId[r.svc] \in Seq(AllocIds)
    BY <1>4, Constants, Zenon
  <2>. QED
    BY <1>6, <2>2, <2>3
<1>8. FixedId[r.svc][n + 1] \in AllocIds /\ FixedId[r.svc][n + 1] \in Started(r.svc)
  BY <1>7 DEF Started, Range
<1>9. PICK i \in Candidates(r.svc), a \in IF r.svc \in r.added THEN {FixedId[r.svc][n + 1]} ELSE FreshIds :
         /\ Goto(o, {"schedule"}, [r EXCEPT !.pc = "run", !.cur = <<a, NameOf[i]>>])
         /\ fsm' = AllocScheduled(fsm, a, i, r.svc, "Service")
  BY <1>2, <1>5, Zenon DEF Schedule
<1>10. i \in RaftIds /\ fsm.nodes[i] # None
  BY Zenon DEF Candidates, ReadyNodes, NodesIn
<1>11. IF r.svc \in r.added THEN a \in Started(r.svc) ELSE a \in Unused
  BY <1>8, <1>9, Zenon DEF FreshIds
<1>12. a \in AllocIds
  BY <1>8, <1>9, <1>11, Zenon DEF Unused
<1>13. UNCHANGED <<running, queue, cloud, fails, drops, overlap, scenario>>
  BY <1>9, Zenon DEF Schedule, Goto
<1>. QED
  BY <1>1, <1>2, <1>4, <1>9, <1>10, <1>11, <1>12, <1>13, Zenon DEF Goto

\* The steps of start_alloc.
LEMMA StartTyped ==
  ASSUME TypeInv, NEW o \in Ops,
         Schedule(o) \/ SendRun(o) \/ Probe(o) \/ ProposeHealthy(o) \/ StartFails(o) \/ NoNode(o)
  PROVE  TypeInv'
<1>. DEFINE K == AllocsIn(fsm)
<1>1. /\ fsm \in FsmState /\ cloud \in [VolumeNames -> Volume \cup {None}]
      /\ running \in [AllocIds -> Versions \cup {None}] /\ queue \in [RaftIds -> Seq(Command)]
      /\ fails \in 0 .. MaxFails /\ drops \in 0 .. MaxDrops /\ overlap \in BOOLEAN
      /\ scenario \in Scenarios
  BY Zenon DEF TypeInv, DeployTypeOK
<1>2. op[o] \in Op /\ PhaseOK(op[o], K)
  BY Zenon DEF TypeInv, DeployTypeOK
<1>3. op[o].pc \in Replacing => /\ op[o].new \in Configs /\ op[o].svc \in Names
                                /\ DefOf[op[o].new][op[o].svc] \in Versions
  BY <1>2, Services, Zenon DEF PhaseOK
<1>4. op[o].pc \in Starting => op[o].cur \in Placement /\ op[o].cur[1] \in K /\ op[o].cur[1] \in AllocIds
                               /\ op[o].cur[2] \in NodeIds
  BY <1>2, Zenon DEF PhaseOK, Placement
<1>5. ASSUME NEW a \in AllocIds, NEW st \in AllocStatuses, fsm' = SetAllocStatus(fsm, a, st)
      PROVE  fsm' \in FsmState /\ AllocsIn(fsm)' = K
  <2>1. fsm' \in FsmState /\ \A b \in AllocIds : (fsm'.allocs[b] = None) <=> (fsm.allocs[b] = None)
    BY <1>1, <1>5, ReportedAlloc, SMTT(30)
  <2>. QED
    BY <2>1, Zenon DEF AllocsIn
<1>6. op[o].prior \in SUBSET Placement /\ op[o].news \in SUBSET Placement
  BY <1>2, Zenon DEF Op
<1>7. CASE Schedule(o)
  <2>1. PICK a \in AllocIds, i \in RaftIds :
           /\ op[o].pc = "schedule" /\ op[o].svc \in Names /\ fsm.nodes[i] # None
           /\ op' = [op EXCEPT ![o] = [op[o] EXCEPT !.pc = "run", !.cur = <<a, NameOf[i]>>]]
           /\ fsm' = AllocScheduled(fsm, a, i, op[o].svc, "Service")
           /\ UNCHANGED <<running, queue, cloud, fails, drops, overlap, scenario>>
    BY <1>7, ScheduleStep, Zenon
  <2>2. fsm' \in FsmState /\ AllocsIn(fsm)' = K \cup {a}
    BY <1>1, <2>1, ScheduledAlloc DEF AllocsIn
  <2>3. PICK p \in Placement : p = <<a, NameOf[i]>>
    BY Constants, Zenon DEF Placement
  <2>4. PICK r : r = [op[o] EXCEPT !.pc = "run", !.cur = p]
    BY Zenon
  <2>5. r \in Op
    BY <1>2, <2>4, OpWith, Zenon DEF Phases
  <2>6. PhaseOK(r, K \cup {a})
    BY <1>2, <2>1, <2>3, <2>4, Zenon DEF PhaseOK, Volumetric, Replacing, Starting, Draining, Op
  <2>7. PhaseOK(r, AllocsIn(fsm)') /\ AllocsIn(fsm) \subseteq AllocsIn(fsm)'
    BY <2>2, <2>6, Zenon
  <2>8. op' = [op EXCEPT ![o] = r]
    BY <2>1, <2>3, <2>4, Zenon
  <2>. QED
    BY <1>1, <2>1, <2>2, <2>5, <2>7, <2>8, TypedStep, Zenon
<1>8. CASE SendRun(o)
  <2>1. PICK r : r = [op[o] EXCEPT !.pc = "wait"]
    BY Zenon
  <2>2. r \in Op
    BY <1>2, <2>1, OpWith, Zenon DEF Phases
  <2>3. /\ op[o].pc = "run" /\ op' = [op EXCEPT ![o] = r]
        /\ UNCHANGED <<fsm, running, cloud, fails, drops, overlap, scenario>>
    BY <1>8, <2>1, Zenon DEF SendRun, Goto
  <2>4. PhaseOK(r, K)
    BY <1>2, <2>1, <2>3, Zenon DEF PhaseOK, Volumetric, Replacing, Starting, Draining, Op
  <2>5. [op |-> "Run", alloc |-> op[o].cur[1], def |-> DefOf[op[o].new][op[o].svc]] \in Command
    BY <1>3, <1>4, <2>3, Zenon DEF Command, Replacing, Starting
  <2>6. queue' \in [RaftIds -> Seq(Command)]
    BY <1>1, <1>8, <2>5, SendCommand, Zenon DEF SendRun
  <2>7. AllocsIn(fsm)' = K
    BY <2>3, Zenon DEF AllocsIn
  <2>. QED
    BY <1>1, <2>2, <2>3, <2>4, <2>6, <2>7, TypedStep, Zenon
<1>9. CASE Probe(o)
  <2>1. PICK r : r = [op[o] EXCEPT !.pc = "ready"]
    BY Zenon
  <2>2. r \in Op
    BY <1>2, <2>1, OpWith, Zenon DEF Phases
  <2>3. Goto(o, {"wait"}, r) /\ op[o].pc = "wait"
    BY <1>9, <2>1, Zenon DEF Probe, Goto
  <2>4. PhaseOK(r, K)
    BY <1>2, <2>1, <2>3, Zenon DEF PhaseOK, Volumetric, Replacing, Starting, Draining, Op
  <2>. QED
    BY <1>1, <1>9, <2>2, <2>3, <2>4, QuietTyped, Zenon DEF Probe
<1>10. CASE ProposeHealthy(o)
  <2>1. op[o].pc = "ready" /\ fsm' = SetAllocStatus(fsm, op[o].cur[1], "Healthy")
        /\ UNCHANGED <<running, queue, cloud, fails, drops, overlap, scenario>>
    BY <1>10, Zenon DEF ProposeHealthy, Goto
  <2>2. fsm' \in FsmState /\ AllocsIn(fsm)' = K
    BY <1>4, <1>5, <2>1, Zenon DEF Starting, AllocStatuses
  <2>3. PICK p \in Placement : Placed({op[o].cur[1]}) = {p}
    <3>1. PICK a \in K : a = op[o].cur[1]
      BY <1>4, <2>1, Zenon DEF Starting
    <3>2. a \in AllocIds /\ fsm.allocs[a].node \in NodeIds
      BY <1>1, <3>1, Zenon DEF FsmState, AllocsIn, Alloc
    <3>3. Placed({a}) = {<<a, fsm.allocs[a].node>>}
      BY Zenon DEF Placed
    <3>. QED
      BY <3>1, <3>2, <3>3, Zenon DEF Placement
  <2>4. PICK news \in SUBSET Placement : news = op[o].news \cup {p}
    BY <1>6, Zenon
  <2>5. \/ op' = [op EXCEPT ![o] = [op[o] EXCEPT !.pc = "stop", !.news = news, !.stops = op[o].prior]]
        \/ /\ op[o].kind # "drain" /\ Cardinality(news) # Replicas[DefOf[op[o].new][op[o].svc]]
           /\ op' = [op EXCEPT ![o] = [op[o] EXCEPT !.pc = "schedule", !.news = news]]
    BY <1>10, <2>3, <2>4, Zenon DEF ProposeHealthy, Goto
  <2>6. ASSUME op' = [op EXCEPT ![o] = [op[o] EXCEPT !.pc = "stop", !.news = news, !.stops = op[o].prior]]
        PROVE  TypeInv'
    <3>1. PICK r : r = [op[o] EXCEPT !.pc = "stop", !.news = news, !.stops = op[o].prior]
      BY Zenon
    <3>2. r \in Op
      BY <1>2, <1>6, <3>1, OpWith, Zenon DEF Phases
    <3>3. PhaseOK(r, K)
      BY <1>2, <2>1, <3>1, Zenon DEF PhaseOK, Volumetric, Replacing, Starting, Draining, Op
    <3>. QED
      BY <1>1, <2>1, <2>2, <2>6, <3>1, <3>2, <3>3, TypedStep, Zenon
  <2>7. ASSUME Cardinality(news) # Replicas[DefOf[op[o].new][op[o].svc]],
               op' = [op EXCEPT ![o] = [op[o] EXCEPT !.pc = "schedule", !.news = news]]
        PROVE  TypeInv'
    <3>1. PICK r : r = [op[o] EXCEPT !.pc = "schedule", !.news = news]
      BY Zenon
    <3>2. r \in Op
      BY <1>2, <3>1, OpWith, Zenon DEF Phases
    <3>3. PICK n \in Nat : n = Replicas[DefOf[op[o].new][op[o].svc]]
      BY <1>3, <2>1, Constants, Zenon DEF Replacing
    <3>4. IsFiniteSet(op[o].news) /\ Cardinality(op[o].news) < n
      BY <1>2, <2>1, <3>3, Zenon DEF PhaseOK, Replacing
    <3>5. /\ IsFiniteSet(news) /\ Cardinality(news) \in Nat /\ Cardinality(op[o].news) \in Nat
          /\ Cardinality(news) \in {Cardinality(op[o].news), Cardinality(op[o].news) + 1}
      BY <2>4, <3>4, FS_AddElement, FS_CardinalityType, ZenonT(30)
    <3>6. Cardinality(news) < n
      BY <2>7, <3>3, <3>4, <3>5
    <3>7. PhaseOK(r, K)
      BY <1>2, <2>1, <3>1, <3>3, <3>5, <3>6, Zenon DEF PhaseOK, Volumetric, Replacing, Starting, Draining, Op
    <3>. QED
      BY <1>1, <2>1, <2>2, <2>7, <3>1, <3>2, <3>7, TypedStep, Zenon
  <2>. QED
    BY <2>5, <2>6, <2>7, Zenon
<1>11. PICK stops \in SUBSET Placement : stops = IF op[o].svc \in op[o].changed THEN op[o].news ELSE {}
  BY <1>6, Zenon
<1>12. PICK back : back = [op[o] EXCEPT !.pc = "rollback", !.failed = TRUE, !.stops = stops]
  BY Zenon
<1>13. back \in Op
  BY <1>2, <1>12, OpWith, Zenon DEF Phases
<1>14. ASSUME op[o].pc \in Replacing
       PROVE  PhaseOK(back, K)
  BY <1>2, <1>12, <1>14, Zenon DEF PhaseOK, Volumetric, Replacing, Starting, Draining, Op
<1>15. CASE StartFails(o)
  <2>1. /\ op[o].pc \in {"run", "wait"} /\ op' = [op EXCEPT ![o] = back]
        /\ fsm' = SetAllocStatus(fsm, op[o].cur[1], "Failed")
        /\ UNCHANGED <<running, queue, cloud, drops, overlap, scenario>>
    BY <1>11, <1>12, <1>15, Zenon DEF StartFails, Goto
  <2>2. fsm' \in FsmState /\ AllocsIn(fsm)' = K
    BY <1>4, <1>5, <2>1, Zenon DEF Starting, AllocStatuses
  <2>3. fails' \in 0 .. MaxFails
    BY <1>1, <1>15, Constants DEF StartFails, CountFailure
  <2>4. PhaseOK(back, K)
    BY <1>14, <2>1, Zenon DEF Replacing
  <2>. QED
    BY <1>1, <1>13, <2>1, <2>2, <2>3, <2>4, TypedStep, Zenon
<1>16. CASE NoNode(o)
  <2>1. Goto(o, {"schedule"}, back) /\ op[o].pc = "schedule"
    BY <1>11, <1>12, <1>16, Zenon DEF NoNode, Goto
  <2>2. PhaseOK(back, K)
    BY <1>14, <2>1, Zenon DEF Replacing
  <2>. QED
    BY <1>1, <1>13, <1>16, <2>1, <2>2, QuietTyped, Zenon DEF NoNode
<1>. QED
  BY <1>7, <1>8, <1>9, <1>10, <1>15, <1>16, Zenon

\* Stop commands, sent or not, and the end of a service.
LEMMA StopsTyped ==
  ASSUME TypeInv, NEW o \in Ops,
         (\E p \in op[o].stops : StopOne(o, p) \/ StopUnsent(o, p)) \/ EndStops(o)
  PROVE  TypeInv'
<1>. DEFINE K == AllocsIn(fsm)
<1>1. /\ fsm \in FsmState /\ cloud \in [VolumeNames -> Volume \cup {None}]
      /\ running \in [AllocIds -> Versions \cup {None}] /\ queue \in [RaftIds -> Seq(Command)]
      /\ fails \in 0 .. MaxFails /\ drops \in 0 .. MaxDrops /\ overlap \in BOOLEAN
      /\ scenario \in Scenarios
  BY Zenon DEF TypeInv, DeployTypeOK
<1>2. op[o] \in Op /\ PhaseOK(op[o], K)
  BY Zenon DEF TypeInv, DeployTypeOK
<1>3. op[o].stops \in SUBSET Placement
  BY <1>2, Zenon DEF Op
<1>4. ASSUME NEW p \in op[o].stops, StopOne(o, p)
      PROVE  TypeInv'
  <2>1. PICK stops \in SUBSET Placement : stops = op[o].stops \ {p}
    BY <1>3, Zenon
  <2>2. PICK r : r = [op[o] EXCEPT !.stops = stops]
    BY Zenon
  <2>3. r \in Op
    BY <1>2, <2>2, OpWith, Zenon
  <2>4. /\ op[o].pc \in {"stop", "rollback", "remove"} /\ op' = [op EXCEPT ![o] = r]
        /\ UNCHANGED <<fsm, running, cloud, fails, drops, overlap, scenario>>
    BY <1>4, <2>1, <2>2, Zenon DEF StopOne, Goto
  <2>5. PhaseOK(r, K)
    BY <1>2, <2>2, <2>4, Zenon DEF PhaseOK, Volumetric, Replacing, Starting, Draining, Op
  <2>6. [op |-> "Stop", alloc |-> p[1]] \in Command
    BY <1>3, Zenon DEF Command, Placement
  <2>7. queue' \in [RaftIds -> Seq(Command)]
    BY <1>1, <1>4, <2>6, SendCommand, Zenon DEF StopOne
  <2>8. AllocsIn(fsm)' = K
    BY <2>4, Zenon DEF AllocsIn
  <2>. QED
    BY <1>1, <2>3, <2>4, <2>5, <2>7, <2>8, TypedStep, Zenon
<1>5. ASSUME NEW p \in op[o].stops, StopUnsent(o, p)
      PROVE  TypeInv'
  <2>1. drops' \in 0 .. MaxDrops
    <3>1. scenario.drops \in 0 .. MaxDrops
      BY <1>1, Constants, Zenon
    <3>2. MaxDrops \in Nat
      BY Constants, Zenon
    <3>3. drops < scenario.drops /\ drops' = drops + 1
      BY <1>5, Zenon DEF StopUnsent
    <3>. QED
      BY <1>1, <3>1, <3>2, <3>3
  <2>2. op[o].pc \in {"stop", "rollback", "remove"}
    BY <1>5, Zenon DEF StopUnsent, Goto
  <2>3. CASE op[o].pc = "remove"
    <3>1. PICK r : r = [op[o] EXCEPT !.pc = "done", !.stops = {}]
      BY Zenon
    <3>2. r \in Op
      BY <1>2, <3>1, OpWith, Zenon DEF Phases
    <3>3. PhaseOK(r, K)
      BY <1>2, <3>1, ZenonT(30) DEF PhaseOK, Volumetric, Replacing, Starting, Draining, Op
    <3>4. Goto(o, {"stop", "rollback", "remove"}, r)
      BY <1>5, <2>3, <3>1, Zenon DEF StopUnsent
    <3>. QED
      BY <1>1, <1>5, <2>1, <3>2, <3>3, <3>4, QuietTyped, Zenon DEF StopUnsent
  <2>4. CASE op[o].pc # "remove"
    <3>1. PICK stops \in SUBSET Placement : stops = op[o].stops \ {p}
      BY <1>3, Zenon
    <3>2. PICK b \in BOOLEAN : b = (op[o].failed \/ op[o].pc = "stop")
      BY Zenon
    <3>3. PICK r : r = [op[o] EXCEPT !.stops = stops, !.failed = b]
      BY Zenon
    <3>4. r \in Op
      BY <1>2, <3>3, OpWith, Zenon
    <3>5. PhaseOK(r, K)
      BY <1>2, <2>2, <3>3, Zenon DEF PhaseOK, Volumetric, Replacing, Starting, Draining, Op
    <3>6. Goto(o, {"stop", "rollback", "remove"}, r)
      BY <1>5, <2>4, <3>1, <3>2, <3>3, Zenon DEF StopUnsent
    <3>. QED
      BY <1>1, <1>5, <2>1, <3>4, <3>5, <3>6, QuietTyped, Zenon DEF StopUnsent
  <2>. QED
    BY <2>3, <2>4, Zenon
<1>6. ASSUME EndStops(o)
      PROVE  TypeInv'
  <2>1. PICK A \in SUBSET Names, B \in SUBSET Names, C \in SUBSET Names :
           /\ A = op[o].removed \ {op[o].svc} /\ B = op[o].added \ {op[o].svc}
           /\ C = op[o].changed \ {op[o].svc}
    BY <1>2, Zenon DEF Op
  <2>2. PICK pc \in {"migrate", "service"} : pc = IF op[o].kind = "drain" THEN "migrate" ELSE "service"
    BY Zenon
  <2>. pc \in Phases
    BY <2>2, Zenon DEF Phases
  <2>3. PICK r : r = [op[o] EXCEPT !.pc = pc, !.removed = A, !.added = B, !.changed = C,
                                   !.svc = None, !.cur = None, !.prior = {}, !.news = {}]
    BY Zenon
  <2>4. r \in Op
    BY <1>2, <2>3, OpWith, ZenonT(30)
  <2>5. Goto(o, {"stop", "rollback", "remove"}, r) /\ op[o].pc \in {"stop", "rollback", "remove"}
    BY <1>6, <2>1, <2>2, <2>3, Zenon DEF EndStops, Goto
  <2>6. /\ r.pc = pc /\ r.kind = op[o].kind /\ r.new = op[o].new /\ r.news = {}
        /\ r.node = op[o].node
        /\ r.added \cup r.changed \subseteq op[o].added \cup op[o].changed
    BY <1>2, <2>1, <2>3, Zenon DEF Op
  <2>7. PhaseOK(r, K)
    BY <1>2, <2>2, <2>5, <2>6, Zenon DEF PhaseOK, Volumetric, Replacing, Starting, Draining
  <2>. QED
    BY <1>1, <1>6, <2>4, <2>5, <2>7, QuietTyped, Zenon DEF EndStops
<1>. QED
  BY <1>4, <1>5, <1>6, Zenon

\* The steps of a drain.
LEMMA DrainTyped ==
  ASSUME TypeInv, NEW o \in Ops,
         \/ ReadVolumes(o) \/ RecordUnmounted(o) \/ Collect(o) \/ EndDrain(o)
         \/ \E v \in VolumeNames : UnmountVolume(o, v)
         \/ \E a \in AllocIds : Migrate(o, a)
  PROVE  TypeInv'
<1>. DEFINE K == AllocsIn(fsm)
<1>1. /\ fsm \in FsmState /\ cloud \in [VolumeNames -> Volume \cup {None}]
      /\ fails \in 0 .. MaxFails /\ drops \in 0 .. MaxDrops
  BY Zenon DEF TypeInv, DeployTypeOK
<1>2. op[o] \in Op /\ PhaseOK(op[o], K)
  BY Zenon DEF TypeInv, DeployTypeOK
<1>3. CASE ReadVolumes(o)
  <2>1. PICK V \in SUBSET VolumeNames : V = MountedOn(op[o].node)
    BY Zenon DEF MountedOn
  <2>2. PICK r : r = [op[o] EXCEPT !.pc = "unmount", !.vols = V]
    BY Zenon
  <2>3. r \in Op
    BY <1>2, <2>2, OpWith, Zenon DEF Phases
  <2>4. Goto(o, {"collect"}, r) /\ op[o].pc = "collect"
    BY <1>3, <2>1, <2>2, Zenon DEF ReadVolumes, Goto
  <2>5. PhaseOK(r, K)
    BY <1>2, <2>2, <2>4, Zenon DEF PhaseOK, Volumetric, Replacing, Starting, Draining, Op
  <2>. QED
    BY <1>1, <1>3, <2>3, <2>4, <2>5, QuietTyped, Zenon DEF ReadVolumes
<1>4. CASE RecordUnmounted(o)
  <2>1. PICK V \in SUBSET VolumeNames : V = op[o].vols \ {op[o].vol}
    BY <1>2, Zenon DEF Op
  <2>2. PICK r : r = [op[o] EXCEPT !.pc = "unmount", !.vols = V, !.vol = None]
    BY Zenon
  <2>3. r \in Op
    BY <1>2, <2>2, OpWith, Zenon DEF Phases
  <2>4. Goto(o, {"unmounted"}, r) /\ op[o].pc = "unmounted" /\ fsm' = VolumeDetached(fsm, op[o].vol)
    BY <1>4, <2>1, <2>2, Zenon DEF RecordUnmounted, Goto
  <2>5. PhaseOK(r, K) /\ op[o].vol \in VolumeNames
    BY <1>2, <2>2, <2>4, Zenon DEF PhaseOK, Volumetric, Replacing, Starting, Draining, Op
  <2>6. fsm' \in FsmState /\ fsm'.allocs = fsm.allocs
    BY <1>1, <2>4, <2>5, OtherCommands, Zenon
  <2>. QED
    BY <1>1, <1>4, <2>3, <2>4, <2>5, <2>6, QuietTyped, Zenon DEF RecordUnmounted
<1>5. CASE Collect(o)
  <2>1. PICK M \in SUBSET AllocIds : M = AllocsOn(fsm, op[o].node) \cap NonTerminal(fsm)
    BY Zenon DEF AllocsOn, AllocsIn
  <2>2. PICK r : r = [op[o] EXCEPT !.pc = "migrate", !.moves = M]
    BY Zenon
  <2>3. r \in Op
    BY <1>2, <2>2, OpWith, Zenon DEF Phases
  <2>4. Goto(o, {"collect", "unmount"}, r) /\ op[o].pc \in {"collect", "unmount"}
    BY <1>5, <2>1, <2>2, Zenon DEF Collect, Goto
  <2>5. PhaseOK(r, K)
    BY <1>2, <2>2, <2>4, ZenonT(30) DEF PhaseOK, Volumetric, Replacing, Starting, Draining, Op
  <2>. QED
    BY <1>1, <1>5, <2>3, <2>4, <2>5, QuietTyped, Zenon DEF Collect
<1>6. CASE EndDrain(o)
  <2>1. PICK r : r = [op[o] EXCEPT !.pc = "done"]
    BY Zenon
  <2>2. r \in Op
    BY <1>2, <2>1, OpWith, Zenon DEF Phases
  <2>3. PhaseOK(r, K)
    BY <1>2, <2>1, Zenon DEF PhaseOK, Volumetric, Replacing, Starting, Draining, Op
  <2>. QED
    BY <1>1, <1>6, <2>1, <2>2, <2>3, QuietTyped, Zenon DEF EndDrain
<1>7. ASSUME NEW v \in VolumeNames, UnmountVolume(o, v)
      PROVE  TypeInv'
  <2>1. PICK r : r = [op[o] EXCEPT !.pc = "unmounted", !.vol = v]
    BY Zenon
  <2>2. r \in Op
    BY <1>2, <2>1, OpWith, Zenon DEF Phases
  <2>3. Goto(o, {"unmount"}, r) /\ op[o].pc = "unmount"
    BY <1>7, <2>1, Zenon DEF UnmountVolume, Goto
  <2>4. PhaseOK(r, K)
    BY <1>2, <2>1, <2>3, Zenon DEF PhaseOK, Volumetric, Replacing, Starting, Draining, Op
  <2>5. fails' \in 0 .. MaxFails
    <3>1. MaxFails \in Nat
      BY Constants, Zenon
    <3>2. fails' = fails \/ (fails < MaxFails /\ fails' = fails + 1)
      BY <1>7, Zenon DEF UnmountVolume
    <3>. QED
      BY <1>1, <3>1, <3>2
  <2>6. cloud' \in [VolumeNames -> Volume \cup {None}]
    <3>1. cloud[v] # None => [cloud[v] EXCEPT !.node = None] \in Volume
      BY <1>1, Zenon DEF Volume
    <3>2. cloud' = cloud \/ (cloud[v] # None /\ cloud' = [cloud EXCEPT ![v] = [cloud[v] EXCEPT !.node = None]])
      BY <1>7, Zenon DEF UnmountVolume
    <3>. QED
      BY <1>1, <3>1, <3>2, Zenon
  <2>. QED
    BY <1>1, <1>7, <2>2, <2>3, <2>4, <2>5, <2>6, QuietTyped, Zenon DEF UnmountVolume
<1>8. ASSUME NEW a \in AllocIds, Migrate(o, a)
      PROVE  TypeInv'
  <2>1. PICK s : s = fsm.allocs[a].name
    BY Zenon
  <2>2. PICK M \in SUBSET AllocIds, P \in SUBSET Placement :
           M = op[o].moves \ {a} /\ P = {<<a, op[o].node>>}
    <3>1. op[o].kind = "drain" /\ op[o].moves \in SUBSET AllocIds
      BY <1>2, <1>8, Zenon DEF Migrate, Goto, PhaseOK, Draining, Op
    <3>2. op[o].node \in NodeIds
      BY <1>2, <3>1, Zenon DEF PhaseOK
    <3>3. <<a, op[o].node>> \in Placement
      BY <3>2, Zenon DEF Placement
    <3>4. op[o].moves \ {a} \in SUBSET AllocIds /\ {<<a, op[o].node>>} \in SUBSET Placement
      BY <3>1, <3>3, Zenon
    <3>. QED
      BY <3>4, Zenon
  <2>3. CASE s \in ServicesIn(fsm.config)
    <3>1. fsm.config \in Configs \cup {None}
      BY <1>1, Zenon DEF FsmState
    <3>2. fsm.config \in Configs
      BY <2>3, <3>1, Zenon DEF ServicesIn
    <3>3. s \in Names /\ DefOf[fsm.config][s] \in Versions
      BY <2>3, <3>2, Services, Zenon
    <3>4. PICK r : r = [op[o] EXCEPT !.pc = "schedule", !.moves = M, !.prior = P, !.svc = s,
                                     !.new = fsm.config]
      BY Zenon
    <3>5. r \in Op
      BY <1>2, <3>2, <3>3, <3>4, OpWith, Zenon DEF Phases
    <3>6. Goto(o, {"migrate"}, r) /\ op[o].pc = "migrate"
      BY <1>8, <2>1, <2>2, <2>3, <3>4, Zenon DEF Migrate, Goto
    <3>7. op[o].news = {} /\ op[o].kind = "drain" /\ op[o].node \in NodeIds
      BY <1>2, <3>6, Zenon DEF PhaseOK, Draining
    <3>8. IsFiniteSet({}) /\ Cardinality({}) = 0 /\ 0 < Replicas[DefOf[fsm.config][s]]
      BY <3>3, FS_EmptySet, Constants, Zenon
    <3>9. /\ r.pc = "schedule" /\ r.kind = "drain" /\ r.news = {} /\ r.svc = s
          /\ r.new = fsm.config /\ r.node \in NodeIds
      BY <1>2, <3>4, <3>7, Zenon DEF Op
    <3>10. PhaseOK(r, K)
      BY <2>3, <3>2, <3>8, <3>9, ZenonT(30) DEF PhaseOK, Volumetric, Replacing, Starting, Draining
    <3>. QED
      BY <1>1, <1>8, <3>5, <3>6, <3>10, QuietTyped, Zenon DEF Migrate
  <2>4. CASE s \notin ServicesIn(fsm.config)
    <3>1. PICK r : r = [op[o] EXCEPT !.pc = "stop", !.moves = M, !.stops = P]
      BY Zenon
    <3>2. r \in Op
      BY <1>2, <3>1, OpWith, Zenon DEF Phases
    <3>3. Goto(o, {"migrate"}, r) /\ op[o].pc = "migrate"
      BY <1>8, <2>1, <2>2, <2>4, <3>1, Zenon DEF Migrate, Goto
    <3>4. PhaseOK(r, K)
      BY <1>2, <3>1, <3>3, Zenon DEF PhaseOK, Volumetric, Replacing, Starting, Draining, Op
    <3>. QED
      BY <1>1, <1>8, <3>2, <3>3, <3>4, QuietTyped, Zenon DEF Migrate
  <2>. QED
    BY <2>3, <2>4, Zenon
<1>. QED
  BY <1>3, <1>4, <1>5, <1>6, <1>7, <1>8, Zenon

\* The nodes execute what they are sent.
LEMMA ExecuteTyped ==
  ASSUME TypeInv, NEW i \in RaftIds, Execute(i)
  PROVE  TypeInv'
<1>1. /\ fsm \in FsmState /\ cloud \in [VolumeNames -> Volume \cup {None}]
      /\ running \in [AllocIds -> Versions \cup {None}] /\ queue \in [RaftIds -> Seq(Command)]
      /\ op \in [Ops -> Op] /\ fails \in 0 .. MaxFails /\ drops \in 0 .. MaxDrops
      /\ overlap \in BOOLEAN /\ scenario \in Scenarios
      /\ \A o \in Ops : PhaseOK(op[o], AllocsIn(fsm))
  BY Zenon DEF TypeInv, DeployTypeOK
<1>2. PICK c : c = Head(queue[i])
  BY Zenon
<1>3. /\ queue[i] # <<>> /\ queue' = [queue EXCEPT ![i] = Tail(@)]
      /\ UNCHANGED <<op, cloud, drops, overlap, scenario>>
  BY Zenon DEF Execute, ExecuteRun, ExecuteStop
<1>4. queue' \in [RaftIds -> Seq(Command)] /\ c \in Command
  BY <1>1, <1>2, <1>3, TakeCommand, Zenon
<1>5. c.alloc \in AllocIds /\ (c.op = "Run" => c.def \in Versions)
  BY <1>4, Zenon DEF Command
<1>6. /\ \/ fsm' = fsm \/ fsm' = AllocRunning(fsm, c.alloc, Address)
         \/ \E st \in AllocStatuses : fsm' = SetAllocStatus(fsm, c.alloc, st)
      /\ \/ running' = running \/ running' = [running EXCEPT ![c.alloc] = None]
         \/ c.op = "Run" /\ running' = [running EXCEPT ![c.alloc] = c.def]
      /\ fails' = fails \/ (fails < MaxFails /\ fails' = fails + 1)
  <2>1. "Failed" \in AllocStatuses /\ "Stopped" \in AllocStatuses
    BY Zenon DEF AllocStatuses
  <2>. QED
    BY <1>2, <2>1, Zenon DEF Execute, ExecuteRun, ExecuteStop
<1>7. fsm' \in FsmState /\ \A b \in AllocIds : (fsm'.allocs[b] = None) <=> (fsm.allocs[b] = None)
  <2>1. PICK a \in AllocIds : a = c.alloc
    BY <1>5, Zenon
  <2>2. CASE fsm' = fsm
    BY <1>1, <2>2, Zenon
  <2>3. CASE fsm' = AllocRunning(fsm, a, Address)
    BY <1>1, <2>3, ReportedAlloc, Zenon
  <2>4. ASSUME NEW st \in AllocStatuses, fsm' = SetAllocStatus(fsm, a, st)
        PROVE  fsm' \in FsmState /\ \A b \in AllocIds : (fsm'.allocs[b] = None) <=> (fsm.allocs[b] = None)
    BY <1>1, <2>4, ReportedAlloc, SMTT(30)
  <2>. QED
    BY <1>6, <2>1, <2>2, <2>3, <2>4, Zenon
<1>8. AllocsIn(fsm)' = AllocsIn(fsm)
  BY <1>7, Zenon DEF AllocsIn
<1>9. running' \in [AllocIds -> Versions \cup {None}]
  BY <1>1, <1>5, <1>6, Zenon
<1>10. MaxFails \in Nat
  BY Constants, Zenon
<1>11. fails' \in 0 .. MaxFails
  BY <1>1, <1>6, <1>10
<1>12. \A o \in Ops : PhaseOK(op[o], AllocsIn(fsm))'
  BY <1>1, <1>3, <1>8, Zenon
<1>. QED
  BY <1>1, <1>3, <1>4, <1>7, <1>9, <1>11, <1>12, Zenon DEF TypeInv, DeployTypeOK

\* The state at the start: the first config runs as it was deployed.
LEMMA InitTyped ==
  ASSUME DeployInit
  PROVE  TypeInv
<1>1. PICK i \in RaftIds : i = CHOOSE j \in RaftIds : TRUE
  BY Constants, Zenon
<1>2. First \in Configs /\ NameOf[i] \in NodeIds /\ Address \in Addresses
      /\ \A j \in RaftIds : NameOf[j] \in NodeIds
  BY Constants, Zenon
<1>3. ServicesIn(First) \subseteq Names /\ \A s \in ServicesIn(First) : DefOf[First][s] \in Versions
  BY <1>2, Services, Zenon
<1>4. PICK nodes \in [RaftIds -> Node \cup {None}] :
         nodes = [j \in RaftIds |-> [mill_id |-> NameOf[j], status |-> "Ready"]]
  BY <1>2, Zenon DEF Node, NodeStatuses
<1>5. PICK allocs \in [AllocIds -> Alloc \cup {None}] :
         /\ allocs = [a \in AllocIds |->
                   IF \E s \in ServicesIn(First) : a \in FirstReplicas(s)
                   THEN [node |-> NameOf[i],
                         name |-> CHOOSE s \in ServicesIn(First) : a \in FirstReplicas(s),
                         kind |-> "Service", status |-> "Healthy", address |-> Address]
                   ELSE None]
         /\ \A a \in AllocIds : allocs[a] # None => allocs[a].name \in ServicesIn(First)
  <2>. DEFINE new(a) == [node |-> NameOf[i],
                         name |-> CHOOSE s \in ServicesIn(First) : a \in FirstReplicas(s),
                         kind |-> "Service", status |-> "Healthy", address |-> Address]
  <2>1. ASSUME NEW a \in AllocIds, \E s \in ServicesIn(First) : a \in FirstReplicas(s)
        PROVE  new(a) \in Alloc /\ new(a).name \in ServicesIn(First)
    <3>1. PICK t : t = CHOOSE s \in ServicesIn(First) : a \in FirstReplicas(s)
      BY Zenon
    <3>2. t \in ServicesIn(First)
      BY <2>1, <3>1, Zenon
    <3>3. [node |-> NameOf[i], name |-> t, kind |-> "Service", status |-> "Healthy",
           address |-> Address] \in Alloc
      BY <1>2, <1>3, <3>2, Zenon DEF Alloc, AllocKinds, AllocStatuses
    <3>. QED
      BY <3>1, <3>2, <3>3, Zenon
  <2>2. PICK allocs : allocs = [a \in AllocIds |-> IF \E s \in ServicesIn(First) : a \in FirstReplicas(s)
                                                   THEN new(a) ELSE None]
    BY Zenon
  <2>. HIDE DEF new
  <2>3. allocs \in [AllocIds -> Alloc \cup {None}]
    BY <2>1, <2>2, Zenon
  <2>4. \A a \in AllocIds : allocs[a] # None => allocs[a].name \in ServicesIn(First)
    BY <2>1, <2>2, Zenon
  <2>. QED
    BY <2>2, <2>3, <2>4, Zenon DEF new
<1>6. PICK volumes \in [VolumeNames -> Volume \cup {None}] :
         volumes = [v \in VolumeNames |->
                   IF \E s \in ServicesIn(First) : VolumeOf[s] = v
                   THEN [node |-> NameOf[i]] ELSE None]
  BY <1>2, Zenon DEF Volume
<1>7. fsm = [EmptyFsm EXCEPT !.config = First, !.nodes = nodes, !.allocs = allocs, !.volumes = volumes]
  BY <1>1, <1>4, <1>5, <1>6, Zenon DEF DeployInit
<1>8. fsm \in FsmState /\ fsm.config = First /\ fsm.allocs = allocs /\ fsm.volumes = volumes
  BY <1>2, <1>4, <1>5, <1>6, <1>7, Zenon DEF EmptyFsm, FsmState
<1>9. running \in [AllocIds -> Versions \cup {None}]
  <2>1. \A a \in AllocIds : allocs[a] # None => DefOf[First][allocs[a].name] \in Versions
    BY <1>3, <1>5, Zenon
  <2>. QED
    BY <1>8, <2>1, Zenon DEF DeployInit
<1>10. queue \in [RaftIds -> Seq(Command)] /\ cloud \in [VolumeNames -> Volume \cup {None}]
  BY <1>6, <1>8 DEF DeployInit
<1>11. NewOp \in Op /\ PhaseOK(NewOp, AllocsIn(fsm))
  <2>1. NewOp \in Op
    BY Zenon DEF NewOp, Op, Phases
  <2>2. NewOp.kind \notin {"deploy", "restart", "drain", "delete"} /\ NewOp.pc = "idle"
    BY DeployAssumption, Zenon DEF NewOp
  <2>3. PhaseOK(NewOp, AllocsIn(fsm))
    BY <2>2, Zenon DEF PhaseOK, Volumetric, Replacing, Starting, Draining
  <2>. QED
    BY <2>1, <2>3, Zenon
<1>12. op \in [Ops -> Op] /\ \A o \in Ops : PhaseOK(op[o], AllocsIn(fsm))
  BY <1>11, Zenon DEF DeployInit
<1>13. MaxFails \in Nat /\ MaxDrops \in Nat
  BY Constants, Zenon
<1>14. fails \in 0 .. MaxFails /\ drops \in 0 .. MaxDrops /\ overlap \in BOOLEAN /\ scenario \in Scenarios
  <2>1. fails = 0 /\ drops = 0 /\ overlap = FALSE /\ scenario \in Scenarios
    BY Zenon DEF DeployInit
  <2>2. 0 \in 0 .. MaxFails /\ 0 \in 0 .. MaxDrops
    BY <1>13
  <2>. QED
    BY <2>1, <2>2, Zenon
<1>. QED
  BY <1>8, <1>9, <1>10, <1>12, <1>14, Zenon DEF TypeInv, DeployTypeOK

\* Every step keeps the types.
LEMMA TypedNext ==
  ASSUME TypeInv, [DeployNext]_deployVars
  PROVE  TypeInv'
<1>1. CASE UNCHANGED deployVars
  BY <1>1, Zenon DEF deployVars, TypeInv, DeployTypeOK, AllocsIn
<1>2. ASSUME NEW o \in Ops, OpStep(o)
      PROVE  TypeInv'
  BY <1>2, ServiceTyped, VolumesTyped, StartTyped, StopsTyped, DrainTyped, Zenon DEF OpStep
<1>. QED
  BY <1>1, <1>2, BegunTyped, ExecuteTyped, Zenon DEF DeployNext, AllDone

\* The deployments are well typed: whatever the operations do, the state stays
\* a state of the FSM, and the volumes, nodes, ids and commands an operation
\* has at hand are there (deploy/mod.rs, nodes.rs, handlers.rs).
THEOREM DeployTyped == DeploySpec => []DeployTypeOK
<1>1. DeployInit => TypeInv
  BY InitTyped, Zenon
<1>2. TypeInv /\ [DeployNext]_deployVars => TypeInv'
  BY TypedNext, Zenon
<1>3. TypeInv => DeployTypeOK
  BY Zenon DEF TypeInv
<1>. QED
  BY <1>1, <1>2, <1>3, PTL DEF DeploySpec

=============================================================================
