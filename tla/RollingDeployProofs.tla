------------------------- MODULE RollingDeployProofs -------------------------
(***************************************************************************)
(* However deploys, restarts and drains overlap and wherever they fail, a  *)
(* service that every config has always has a healthy container: for any   *)
(* number of operations, nodes, services and replicas, and any bound on    *)
(* the failures.                                                           *)
(***************************************************************************)
EXTENDS RollingDeployTypes

-----------------------------------------------------------------------------
(* Why a service does not go down.                                         *)
(*                                                                         *)
(* Allocations are ranked by when they were scheduled.  Each service that  *)
(* every config has is kept by a survivor: a healthy container nobody has  *)
(* been told to stop, that no update counts among the replicas it may take *)
(* back, and such that a later container of an update is spared as well:   *)
(* when that update is complete and stops what was there before, the later *)
(* one takes over.                                                         *)

Played == scenario.configs \cup {First}
Ids(ps) == {p[1] : p \in ps}

\* The replicas an update in progress has started.
Mine(r) == Ids(r.news) \cup (IF r.pc \in Starting THEN {r.cur[1]} ELSE {})

\* The allocations a Stop is on its way to, or will be sent to.
Stopping == {a \in AllocIds : \E i \in RaftIds : \E k \in 1 .. Len(queue[i]) :
                 queue[i][k] = [op |-> "Stop", alloc |-> a]}
Doomed == {a \in AllocIds : a \in Stopping \/ \E o \in Ops : a \in Ids(op[o].stops)}

\* Allocation a is there, and is one of service s.
Named(allocs, a, s) == a \in AllocIds /\ allocs[a] # None /\ allocs[a].name = s

\* What holds of each operation: a deploy neither adds nor removes a service
\* every config has, and what an update replaces was there before what it starts.
OpInv(r, rank, allocs, played, last) ==
    /\ r.old \in played \cup {None} /\ (r.pc = "propose" => r.new \in played)
    /\ r.removed \cap last = {} /\ r.added \cap last = {}
    /\ \A a \in Ids(r.stops) \cup r.moves : a \in AllocIds /\ allocs[a] # None
    /\ r.pc \in Replacing => \A a \in Ids(r.prior) \cup Mine(r) : Named(allocs, a, r.svc)
    /\ r.pc \in Starting /\ r.svc \in last => \A a \in Ids(r.prior) : rank[a] < rank[r.cur[1]]

\* What holds of the operations together, and of the state.
BaseInv(rank, n) ==
    /\ fsm.config \in Played
    /\ \A a \in AllocsIn(fsm) : /\ rank[a] <= n
                                /\ \A u \in Names : a \in Started(u) => fsm.allocs[a].name = u
    /\ Stopping \subseteq AllocsIn(fsm)
    /\ \A o \in Ops : OpInv(op[o], rank, fsm.allocs, Played, Lasting)
    /\ \A o, p \in Ops : (o # p /\ op[o].pc \in Replacing /\ op[p].pc \in Replacing
                           /\ op[o].svc \in Lasting) => Mine(op[o]) \cap Mine(op[p]) = {}

\* The container of r that is being started is spared.
Safe(r, doomed, run) ==
    r.cur[1] \notin doomed /\ (r.pc = "ready" => run[r.cur[1]] # None)

\* m keeps service s up: ops are the operations, serving the healthy containers
\* of s, doomed those that are stopped, run the running ones.
Survives(m, s, rank, ops, serving, doomed, run) ==
    /\ m \in serving /\ m \notin doomed
    /\ \A o \in Ops : ops[o].pc \in Replacing => m \notin Mine(ops[o])
    /\ \A o \in Ops : (ops[o].pc \in Starting /\ ops[o].svc = s /\ rank[m] < rank[ops[o].cur[1]])
                         => Safe(ops[o], doomed, run)

SurvivorInv(rank) ==
    \A s \in Lasting : \E m \in AllocIds : Survives(m, s, rank, op, Serving(s), Doomed, running)

Ranked(rank, n) == BaseInv(rank, n) /\ SurvivorInv(rank)

DownInv == \E rank \in [AllocIds -> Nat], n \in Nat : Ranked(rank, n)

-----------------------------------------------------------------------------
(* Steps that start nothing and stop nothing a lasting service needs. *)

\* What an operation keeps when allocations keep their names.
LEMMA OpInvKept ==
  ASSUME NEW r, NEW rank, NEW rank2, NEW al, NEW al2, NEW played, NEW last,
         OpInv(r, rank, al, played, last),
         \A a \in AllocIds : al[a] # None =>
             /\ al2[a] # None /\ al2[a].name = al[a].name
             /\ al[a].name \in last => rank2[a] = rank[a]
  PROVE  OpInv(r, rank2, al2, played, last)
<1>1. r.pc \in Replacing => \A a \in Ids(r.prior) \cup Mine(r) : Named(al2, a, r.svc)
  BY Zenon DEF OpInv, Named
<1>2. ASSUME r.pc \in Starting, r.svc \in last, NEW a \in Ids(r.prior)
      PROVE  rank2[a] < rank2[r.cur[1]]
  <2>1. r.pc \in Replacing /\ r.cur[1] \in Mine(r)
    BY <1>2, Zenon DEF Replacing, Starting, Mine
  <2>2. Named(al, a, r.svc) /\ Named(al, r.cur[1], r.svc) /\ rank[a] < rank[r.cur[1]]
    BY <1>2, <2>1, Zenon DEF OpInv
  <2>. QED
    BY <1>2, <2>2, Zenon DEF Named
<1>. QED
  BY <1>1, <1>2, Zenon DEF OpInv

\* The state keeps its allocations and their names; each operation keeps what
\* it has, or goes on to what satisfies OpInv with no replica of another one.
LEMMA BaseStep ==
  ASSUME NEW rank, NEW n, BaseInv(rank, n), UNCHANGED scenario, fsm'.config \in Played,
         \A a \in AllocIds : /\ (fsm'.allocs[a] = None) <=> (fsm.allocs[a] = None)
                             /\ fsm'.allocs[a].name = fsm.allocs[a].name,
         Stopping' \subseteq AllocsIn(fsm),
         \A p \in Ops : \/ op'[p] = op[p]
                        \/ /\ OpInv(op'[p], rank, fsm.allocs, Played, Lasting)
                           /\ op'[p].pc \in Replacing =>
                                \/ Mine(op'[p]) = {}
                                \/ /\ op[p].pc \in Replacing /\ op'[p].svc = op[p].svc
                                   /\ Mine(op'[p]) \subseteq Mine(op[p])
  PROVE  BaseInv(rank, n)'
<1>1. Played' = Played /\ Lasting' = Lasting /\ AllocsIn(fsm)' = AllocsIn(fsm)
  BY Zenon DEF Played, Lasting, AllocsIn
<1>2. \A p \in Ops : OpInv(op'[p], rank, fsm'.allocs, Played, Lasting)
  <2>. SUFFICES ASSUME NEW p \in Ops
                PROVE  OpInv(op'[p], rank, fsm'.allocs, Played, Lasting)
    BY Zenon
  <2>1. OpInv(op'[p], rank, fsm.allocs, Played, Lasting)
    BY Zenon DEF BaseInv
  <2>. QED
    BY <2>1, OpInvKept
<1>3. ASSUME NEW o \in Ops, NEW p \in Ops, o # p, op'[o].pc \in Replacing, op'[p].pc \in Replacing,
             op'[o].svc \in Lasting
      PROVE  Mine(op'[o]) \cap Mine(op'[p]) = {}
  <2>1. Mine(op'[o]) = {} \/ (/\ op[o].pc \in Replacing /\ op'[o].svc = op[o].svc
                             /\ Mine(op'[o]) \subseteq Mine(op[o]))
    BY <1>3, Zenon
  <2>2. Mine(op'[p]) = {} \/ (op[p].pc \in Replacing /\ Mine(op'[p]) \subseteq Mine(op[p]))
    BY <1>3, Zenon
  <2>. QED
    BY <1>3, <2>1, <2>2, Zenon DEF BaseInv
<1>4. \A a \in AllocsIn(fsm) : /\ rank[a] <= n
                               /\ \A u \in Names : a \in Started(u) => fsm'.allocs[a].name = u
  BY Zenon DEF BaseInv, AllocsIn
<1>. QED
  BY <1>1, <1>2, <1>3, <1>4, Zenon DEF BaseInv, Started

\* The survivor of a lasting service is an allocation of it, as is every
\* replica of one of its updates.
LEMMA LastingNames ==
  ASSUME NEW rank, NEW n, BaseInv(rank, n), NEW s \in Lasting
  PROVE  /\ \A m \in Serving(s) : m \in AllocIds /\ fsm.allocs[m].name = s
         /\ \A p \in Ops : op[p].pc \in Starting /\ op[p].svc = s =>
              /\ op[p].pc \in Replacing /\ op[p].cur[1] \in Mine(op[p])
              /\ op[p].cur[1] \in AllocIds /\ fsm.allocs[op[p].cur[1]].name = s
<1>1. \A m \in Serving(s) : m \in AllocIds /\ fsm.allocs[m].name = s
  BY Zenon DEF Serving, Live, ServiceAllocs, AllocsIn
<1>2. ASSUME NEW p \in Ops, op[p].pc \in Starting
      PROVE  op[p].pc \in Replacing /\ op[p].cur[1] \in Mine(op[p])
  BY <1>2, Zenon DEF Starting, Replacing, Mine
<1>3. \A p \in Ops : op[p].pc \in Replacing => \A a \in Mine(op[p]) : Named(fsm.allocs, a, op[p].svc)
  BY Zenon DEF BaseInv, OpInv
<1>. QED
  BY <1>1, <1>2, <1>3, Zenon DEF Named

\* What becomes doomed when operation o becomes r and at most S is told to stop.
LEMMA DoomedStep ==
  ASSUME NEW o \in Ops, NEW r, op' = [op EXCEPT ![o] = r], op \in [Ops -> Op],
         NEW S, Stopping' \subseteq Stopping \cup S
  PROVE  Doomed' \subseteq Doomed \cup S \cup Ids(r.stops)
<1>1. \A p \in Ops : op'[p] = IF p = o THEN r ELSE op[p]
  BY Zenon
<1>. QED
  BY <1>1, Zenon DEF Doomed

\* A step of o that leaves containers and queues alone, starts no replica, and
\* dooms only what is no replica of a lasting service, or one of the update that
\* o gives up.
LEMMA NeutralKeeps ==
  ASSUME NEW rank, NEW n, Ranked(rank, n), op \in [Ops -> Op], NEW o \in Ops, NEW r,
         op' = [op EXCEPT ![o] = r], fsm'.config \in Played, UNCHANGED <<running, queue, scenario>>,
         \A a \in AllocIds : /\ (fsm'.allocs[a] = None) <=> (fsm.allocs[a] = None)
                             /\ fsm'.allocs[a].name = fsm.allocs[a].name
                             /\ \/ fsm'.allocs[a] = fsm.allocs[a]
                                \/ op[o].pc \in Replacing /\ a \in Mine(op[o]),
         OpInv(r, rank, fsm.allocs, Played, Lasting),
         r.pc \in Replacing => r.pc = "schedule" /\ r.news = {},
         \A a \in Ids(r.stops) : \/ a \in Doomed \/ fsm.allocs[a].name \notin Lasting
                                 \/ /\ op[o].pc \in Replacing /\ r.pc \notin Replacing
                                    /\ a \in Mine(op[o])
  PROVE  Ranked(rank, n)'
<1>1. BaseInv(rank, n) /\ SurvivorInv(rank)
  BY Zenon DEF Ranked
<1>2. \A p \in Ops : op'[p] = IF p = o THEN r ELSE op[p]
  BY Zenon
<1>3. Stopping' = Stopping
  BY Zenon DEF Stopping
<1>4. r.pc \in Replacing => Mine(r) = {} /\ r.pc \notin Starting
  BY Zenon DEF Mine, Ids, Starting
<1>5. BaseInv(rank, n)'
  <2>1. Stopping' \subseteq AllocsIn(fsm)
    BY <1>1, <1>3, Zenon DEF BaseInv
  <2>. QED
    BY <1>1, <1>2, <1>4, <2>1, BaseStep, Zenon
<1>6. Lasting' = Lasting
  BY Zenon DEF Lasting
<1>7. ASSUME NEW s \in Lasting, NEW m \in AllocIds,
             Survives(m, s, rank, op, Serving(s), Doomed, running)
      PROVE  Survives(m, s, rank, op', Serving(s)', Doomed', running)
  <2>1. m \in Serving(s) /\ m \notin Doomed /\ fsm.allocs[m].name = s
    BY <1>1, <1>7, LastingNames, Zenon DEF Survives
  <2>2. Doomed' \subseteq Doomed \cup Ids(r.stops)
    BY <1>3, DoomedStep, Zenon
  <2>3. m \notin Doomed'
    BY <1>7, <2>1, <2>2, Zenon DEF Survives
  <2>4. \A p \in Ops : op'[p].pc \in Replacing => m \notin Mine(op'[p])
    BY <1>2, <1>4, <1>7, Zenon DEF Survives
  <2>5. ASSUME NEW p \in Ops, op'[p].pc \in Starting, op'[p].svc = s,
               rank[m] < rank[op'[p].cur[1]]
        PROVE  Safe(op'[p], Doomed', running)
    <3>1. p # o /\ op'[p] = op[p]
      BY <1>2, <1>4, <2>5, Zenon DEF Starting, Replacing
    <3>2. PICK c : c = op[p].cur[1]
      BY Zenon
    <3>3. op[p].pc \in Replacing /\ c \in Mine(op[p]) /\ fsm.allocs[c].name = s
      BY <1>1, <2>5, <3>1, <3>2, LastingNames, Zenon
    <3>4. c \notin Doomed /\ (op[p].pc = "ready" => running[c] # None)
      BY <1>7, <2>5, <3>1, <3>2, Zenon DEF Survives, Safe
    <3>5. op[o].pc \in Replacing => c \notin Mine(op[o])
      BY <1>1, <2>5, <3>1, <3>3, Zenon DEF BaseInv
    <3>6. c \notin Doomed'
      BY <2>2, <3>3, <3>4, <3>5, Zenon
    <3>. QED
      BY <3>1, <3>2, <3>4, <3>6, Zenon DEF Safe
  <2>6. m \in Serving(s)'
    <3>1. fsm'.allocs[m] = fsm.allocs[m]
      BY <1>7, Zenon DEF Survives
    <3>. QED
      BY <2>1, <3>1, Zenon DEF Serving, Live, ServiceAllocs, AllocsIn
  <2>. QED
    BY <2>3, <2>4, <2>5, <2>6, Zenon DEF Survives
<1>8. SurvivorInv(rank)'
  <2>1. \A s \in Lasting : \E m \in AllocIds : Survives(m, s, rank, op', Serving(s)', Doomed', running)
    BY <1>1, <1>7, Zenon DEF SurvivorInv
  <2>. QED
    BY <1>6, <2>1, Zenon DEF SurvivorInv
<1>. QED
  BY <1>5, <1>8, Zenon DEF Ranked

\* Allocations, containers and queues stay as they are.
Unmoved == fsm'.allocs = fsm.allocs /\ fsm'.config \in Played /\ UNCHANGED <<running, queue, scenario>>

\* r starts nothing, and forgets at most some of what q had to do.
Quieter(r, q) ==
    /\ r.pc \notin Replacing \cup {"propose"} /\ r.old = q.old
    /\ r.removed \subseteq q.removed /\ r.added \subseteq q.added
    /\ r.stops \subseteq q.stops /\ r.moves \subseteq q.moves

LEMMA QuietKeeps ==
  ASSUME NEW rank, NEW n, Ranked(rank, n), op \in [Ops -> Op], NEW o \in Ops, NEW r,
         op' = [op EXCEPT ![o] = r], Unmoved, Quieter(r, op[o])
  PROVE  Ranked(rank, n)'
<1>1. OpInv(op[o], rank, fsm.allocs, Played, Lasting)
  BY Zenon DEF Ranked, BaseInv
<1>2. Ids(r.stops) \subseteq Ids(op[o].stops)
  BY Zenon DEF Ids, Quieter
<1>3. r.pc \notin Starting \cup Replacing
  BY Zenon DEF Starting, Replacing, Quieter
<1>4. OpInv(r, rank, fsm.allocs, Played, Lasting)
  BY <1>1, <1>2, <1>3, Zenon DEF OpInv, Quieter
<1>5. \A a \in Ids(r.stops) : a \in Doomed
  BY <1>1, <1>2, Zenon DEF Doomed, OpInv
<1>. QED
  BY <1>3, <1>4, <1>5, NeutralKeeps, Zenon DEF Unmoved

\* Every config in play has the lasting services.
LEMMA LastingIn ==
  ASSUME TypeInv
  PROVE  /\ Lasting \subseteq Names
         /\ \A c \in Played : c \in Configs /\ Lasting \subseteq ServicesIn(c)
<1>1. scenario.configs \subseteq Configs
  BY Constants, Zenon DEF TypeInv, DeployTypeOK
<1>2. Played \subseteq Configs
  BY <1>1, Constants, Zenon DEF Played
<1>. QED
  BY <1>2, Services, Zenon DEF Lasting, Played

\* An operation that begins.
LEMMA BeginKeeps ==
  ASSUME TypeInv, NEW rank, NEW n, Ranked(rank, n), NEW o \in Ops, Request(o)
  PROVE  Ranked(rank, n)'
<1>1. fsm \in FsmState /\ op \in [Ops -> Op] /\ scenario \in Scenarios
  BY Zenon DEF TypeInv, DeployTypeOK
<1>2. fsm.config \in Played /\ Lasting \subseteq Names
  BY LastingIn, Zenon DEF Ranked, BaseInv
<1>3. ASSUME NEW r, op' = [op EXCEPT ![o] = r], Unmoved,
             r.pc \notin Replacing, r.stops = {}, r.moves = {},
             r.old \in Played \cup {None}, r.pc = "propose" => r.new \in Played,
             r.removed \cap Lasting = {}, r.added \cap Lasting = {}
      PROVE  Ranked(rank, n)'
  <2>1. Ids(r.stops) = {} /\ r.pc \notin Starting
    BY <1>3, Zenon DEF Ids, Starting, Replacing
  <2>2. OpInv(r, rank, fsm.allocs, Played, Lasting)
    BY <1>3, <2>1, Zenon DEF OpInv
  <2>. QED
    BY <1>1, <1>3, <2>1, <2>2, NeutralKeeps, Zenon DEF Unmoved
<1>4. ASSUME NEW c \in scenario.configs, StartDeploy(o, c)
      PROVE  Ranked(rank, n)'
  <2>. DEFINE r == [NewOp EXCEPT !.kind = "deploy", !.pc = "propose", !.new = c, !.old = fsm.config,
                    !.removed = ServicesIn(fsm.config) \ ServicesIn(c),
                    !.added = ServicesIn(c) \ ServicesIn(fsm.config),
                    !.changed = {s \in ServicesIn(c) \cap ServicesIn(fsm.config) :
                                    DefOf[c][s] # DefOf[fsm.config][s]}]
  <2>0. op' = [op EXCEPT ![o] = r]
    BY <1>4, Zenon DEF StartDeploy, Begin
  <2>1. /\ r.pc = "propose" /\ r.new = c /\ r.old = fsm.config
        /\ r.removed = ServicesIn(fsm.config) \ ServicesIn(c)
        /\ r.added = ServicesIn(c) \ ServicesIn(fsm.config)
        /\ r.stops = {} /\ r.moves = {}
    BY Zenon DEF NewOp
  <2>. HIDE DEF r
  <2>2. c \in Played
    BY Zenon DEF Played
  <2>3. r.removed \cap Lasting = {} /\ r.added \cap Lasting = {}
    BY <1>2, <2>1, <2>2, LastingIn, Zenon
  <2>4. Unmoved
    BY <1>2, <1>4, Zenon DEF StartDeploy, Begin, Unmoved
  <2>. QED
    BY <1>2, <1>3, <2>0, <2>1, <2>2, <2>3, <2>4, Zenon DEF Replacing
<1>5. ASSUME NEW s \in Names, StartRestart(o, s)
      PROVE  Ranked(rank, n)'
  <2>. DEFINE r == [NewOp EXCEPT !.kind = "restart", !.pc = "service", !.new = fsm.config,
                                      !.changed = {s}]
  <2>0. op' = [op EXCEPT ![o] = r]
    BY <1>5, Zenon DEF StartRestart, Begin
  <2>1. /\ r.pc = "service" /\ r.old = None
        /\ r.removed = {} /\ r.added = {} /\ r.stops = {} /\ r.moves = {}
    BY Zenon DEF NewOp
  <2>. HIDE DEF r
  <2>2. Unmoved
    BY <1>2, <1>5, Zenon DEF StartRestart, Begin, Unmoved
  <2>. QED
    BY <1>3, <2>0, <2>1, <2>2, Zenon DEF Replacing
<1>6. ASSUME NEW i \in RaftIds, StartDrain(o, i)
      PROVE  Ranked(rank, n)'
  <2>. DEFINE r == [NewOp EXCEPT !.kind = "drain", !.pc = "collect", !.node = NameOf[i]]
  <2>0. op' = [op EXCEPT ![o] = r]
    BY <1>6, Zenon DEF StartDrain, Begin
  <2>1. /\ r.pc = "collect" /\ r.old = None
        /\ r.removed = {} /\ r.added = {} /\ r.stops = {} /\ r.moves = {}
    BY Zenon DEF NewOp
  <2>. HIDE DEF r
  <2>2. fsm'.allocs = fsm.allocs /\ fsm'.config = fsm.config
    BY <1>1, <1>6, OtherCommands, Zenon DEF StartDrain
  <2>3. Unmoved
    BY <1>2, <1>6, <2>2, Zenon DEF StartDrain, Begin, Unmoved
  <2>. QED
    BY <1>3, <2>0, <2>1, <2>3, Zenon DEF Replacing
<1>7. ASSUME NEW v \in VolumeNames, StartDelete(o, v)
      PROVE  Ranked(rank, n)'
  <2>. DEFINE r == [NewOp EXCEPT !.kind = "delete", !.pc = "destroy", !.vol = v]
  <2>0. op' = [op EXCEPT ![o] = r]
    BY <1>7, Zenon DEF StartDelete, Begin
  <2>1. /\ r.pc = "destroy" /\ r.old = None
        /\ r.removed = {} /\ r.added = {} /\ r.stops = {} /\ r.moves = {}
    BY Zenon DEF NewOp
  <2>. HIDE DEF r
  <2>2. Unmoved
    BY <1>2, <1>7, Zenon DEF StartDelete, Begin, Unmoved
  <2>. QED
    BY <1>3, <2>0, <2>1, <2>2, Zenon DEF Replacing
<1>. QED
  BY <1>4, <1>5, <1>6, <1>7, Zenon DEF Request

\* Steps of an operation that send nothing, start nothing and find nothing new
\* to stop.
LEMMA QuietSteps ==
  ASSUME TypeInv, NEW rank, NEW n, Ranked(rank, n), NEW o \in Ops,
         \/ Reject(o) \/ ProposeDeploy(o) \/ Finish(o) \/ DriverFails(o)
         \/ CreateVolume(o) \/ DetachVolume(o) \/ DestroyVolume(o) \/ AttachVolume(o)
         \/ RecordVolume(o) \/ RecordDestroyed(o) \/ EndStops(o) \/ EndDrain(o)
         \/ ReadVolumes(o) \/ RecordUnmounted(o)
         \/ \E v \in VolumeNames : UnmountVolume(o, v)
         \/ \E p \in op[o].stops : StopUnsent(o, p)
  PROVE  Ranked(rank, n)'
<1>1. fsm \in FsmState /\ op \in [Ops -> Op] /\ op[o] \in Op /\ PhaseOK(op[o], AllocsIn(fsm))
  BY Zenon DEF TypeInv, DeployTypeOK
<1>2. fsm.config \in Played /\ op[o].old \in Played \cup {None}
      /\ (op[o].pc = "propose" => op[o].new \in Played)
  BY Zenon DEF Ranked, BaseInv, OpInv
<1>3. \A c \in Played : c \in Configs
  BY LastingIn, Zenon
<1>4. ASSUME NEW r, op' = [op EXCEPT ![o] = r], Unmoved, Quieter(r, op[o])
      PROVE  Ranked(rank, n)'
  BY <1>1, <1>4, QuietKeeps, Zenon
<1>5. \A x \in Phases : x \notin Replacing \cup {"propose"} =>
         Quieter([op[o] EXCEPT !.pc = x], op[o])
  BY <1>1, Zenon DEF Quieter, Op
<1>6. CASE Reject(o)
  BY <1>2, <1>4, <1>5, <1>6, Zenon DEF Reject, Goto, Unmoved, Phases, Replacing
<1>7. CASE ProposeDeploy(o)
  <2>1. fsm'.allocs = fsm.allocs /\ fsm'.config \in Played
    BY <1>1, <1>2, <1>3, <1>7, OtherCommands, Zenon DEF ProposeDeploy, Goto
  <2>. QED
    BY <1>4, <1>5, <1>7, <2>1, Zenon DEF ProposeDeploy, Goto, Unmoved, Phases, Replacing
<1>8. CASE Finish(o)
  <2>1. fsm'.allocs = fsm.allocs /\ fsm'.config \in Played
    BY <1>1, <1>2, <1>3, <1>8, OtherCommands DEF Finish
  <2>. QED
    BY <1>4, <1>5, <1>8, <2>1, Zenon DEF Finish, Goto, Unmoved, Phases, Replacing
<1>9. ASSUME NEW pc, NEW next \in Phases, NEW c, DriverDoes(o, pc, next, c),
             next \notin Replacing \cup {"propose"}
      PROVE  Ranked(rank, n)'
  BY <1>2, <1>4, <1>5, <1>9, Zenon DEF DriverDoes, Goto, Unmoved
<1>10. CASE CreateVolume(o) \/ DetachVolume(o) \/ DestroyVolume(o) \/ AttachVolume(o)
  BY <1>9, <1>10, Zenon DEF CreateVolume, DetachVolume, DestroyVolume, AttachVolume, Phases, Replacing
<1>11. CASE DriverFails(o)
  <2>1. Unmoved
    BY <1>2, <1>11, Zenon DEF DriverFails, Goto, Unmoved
  <2>2. CASE op[o].kind = "delete"
    BY <1>4, <1>5, <1>11, <2>1, <2>2, Zenon DEF DriverFails, Goto, Phases, Replacing
  <2>3. CASE op[o].kind # "delete"
    <3>1. Quieter(Abandoned(op[o], op[o].svc), op[o])
      BY <1>1, Zenon DEF Quieter, Abandoned, Op, Replacing
    <3>2. op' = [op EXCEPT ![o] = Abandoned(op[o], op[o].svc)]
      BY <1>11, <2>3, Zenon DEF DriverFails, Goto
    <3>. QED
      BY <1>4, <2>1, <3>1, <3>2, Zenon
  <2>. QED
    BY <2>2, <2>3, Zenon
<1>12. CASE RecordVolume(o)
  <2>1. op[o].pc \in {"created", "detached", "attached"}
    BY <1>12, Zenon DEF RecordVolume, Goto
  <2>2. op[o].vol \in VolumeNames /\ op[o].target \in RaftIds
    BY <1>1, <2>1, Zenon DEF PhaseOK, Volumetric
  <2>3. fsm'.allocs = fsm.allocs /\ fsm'.config = fsm.config
    BY <1>1, <1>12, <2>1, <2>2, OtherCommands, Zenon DEF RecordVolume
  <2>4. Unmoved
    BY <1>2, <1>12, <2>3, Zenon DEF RecordVolume, Goto, Unmoved
  <2>5. PICK x \in {"provided", "attach"} : op' = [op EXCEPT ![o] = [op[o] EXCEPT !.pc = x]]
    BY <1>12, Zenon DEF RecordVolume, Goto
  <2>. QED
    BY <1>4, <1>5, <2>4, <2>5, Zenon DEF Phases, Replacing
<1>13. CASE RecordDestroyed(o)
  <2>1. op[o].vol \in VolumeNames
    BY <1>1, <1>13, Zenon DEF RecordDestroyed, Goto, PhaseOK
  <2>2. fsm'.allocs = fsm.allocs /\ fsm'.config = fsm.config
    BY <1>1, <1>13, <2>1, OtherCommands, Zenon DEF RecordDestroyed
  <2>. QED
    BY <1>2, <1>4, <1>5, <1>13, <2>2, Zenon DEF RecordDestroyed, Goto, Unmoved, Phases, Replacing
<1>14. CASE EndStops(o)
  <2>. DEFINE r == [op[o] EXCEPT !.pc = IF op[o].kind = "drain" THEN "migrate" ELSE "service",
                      !.removed = @ \ {op[o].svc}, !.added = @ \ {op[o].svc}, !.changed = @ \ {op[o].svc},
                      !.svc = None, !.cur = None, !.prior = {}, !.news = {}]
  <2>1. op' = [op EXCEPT ![o] = r]
    BY <1>14, Zenon DEF EndStops, Goto
  <2>2. r.pc \in {"migrate", "service"} /\ r.old = op[o].old /\ r.removed \subseteq op[o].removed
        /\ r.added \subseteq op[o].added /\ r.stops = op[o].stops /\ r.moves = op[o].moves
    BY <1>1, Zenon DEF Op
  <2>. HIDE DEF r
  <2>3. Quieter(r, op[o])
    BY <2>2, Zenon DEF Quieter, Replacing
  <2>4. Unmoved
    BY <1>2, <1>14, Zenon DEF EndStops, Goto, Unmoved
  <2>. QED
    BY <1>4, <2>1, <2>3, <2>4, Zenon
<1>15. CASE EndDrain(o)
  BY <1>2, <1>4, <1>5, <1>15, Zenon DEF EndDrain, Goto, Unmoved, Phases, Replacing
<1>16. CASE ReadVolumes(o)
  <2>. DEFINE r == [op[o] EXCEPT !.pc = "unmount", !.vols = MountedOn(op[o].node)]
  <2>1. op' = [op EXCEPT ![o] = r]
    BY <1>16, Zenon DEF ReadVolumes, Goto
  <2>2. Quieter(r, op[o])
    BY <1>1, Zenon DEF Quieter, Op, Replacing
  <2>3. Unmoved
    BY <1>2, <1>16, Zenon DEF ReadVolumes, Goto, Unmoved
  <2>. QED
    BY <1>4, <2>1, <2>2, <2>3, Zenon
<1>17. CASE RecordUnmounted(o)
  <2>. DEFINE r == [op[o] EXCEPT !.pc = "unmount", !.vols = @ \ {op[o].vol}, !.vol = None]
  <2>1. op' = [op EXCEPT ![o] = r]
    BY <1>17, Zenon DEF RecordUnmounted, Goto
  <2>2. Quieter(r, op[o])
    BY <1>1, Zenon DEF Quieter, Op, Replacing
  <2>3. op[o].vol \in VolumeNames
    BY <1>1, <1>17, Zenon DEF RecordUnmounted, Goto, PhaseOK
  <2>4. fsm'.allocs = fsm.allocs /\ fsm'.config = fsm.config
    BY <1>1, <1>17, <2>3, OtherCommands, Zenon DEF RecordUnmounted
  <2>5. Unmoved
    BY <1>2, <1>17, <2>4, Zenon DEF RecordUnmounted, Goto, Unmoved
  <2>. QED
    BY <1>4, <2>1, <2>2, <2>5, Zenon
<1>18. ASSUME NEW v \in VolumeNames, UnmountVolume(o, v)
       PROVE  Ranked(rank, n)'
  <2>. DEFINE r == [op[o] EXCEPT !.pc = "unmounted", !.vol = v]
  <2>1. op' = [op EXCEPT ![o] = r]
    BY <1>18, Zenon DEF UnmountVolume, Goto
  <2>2. Quieter(r, op[o])
    BY <1>1, Zenon DEF Quieter, Op, Replacing
  <2>3. Unmoved
    BY <1>2, <1>18, Zenon DEF UnmountVolume, Goto, Unmoved
  <2>. QED
    BY <1>4, <2>1, <2>2, <2>3, Zenon
<1>19. ASSUME NEW p \in op[o].stops, StopUnsent(o, p)
       PROVE  Ranked(rank, n)'
  <2>. DEFINE r1 == [op[o] EXCEPT !.pc = "done", !.stops = {}]
              r2 == [op[o] EXCEPT !.stops = @ \ {p}, !.failed = (@ \/ op[o].pc = "stop")]
  <2>1. op' = [op EXCEPT ![o] = r1] \/ op' = [op EXCEPT ![o] = r2]
    BY <1>19, Zenon DEF StopUnsent, Goto
  <2>2. op[o].pc \in {"stop", "rollback", "remove"}
    BY <1>19, Zenon DEF StopUnsent, Goto
  <2>3. Quieter(r1, op[o])
    BY <1>1, Zenon DEF Quieter, Op, Replacing
  <2>4. r2.pc = op[o].pc /\ r2.old = op[o].old /\ r2.removed = op[o].removed /\ r2.added = op[o].added
        /\ r2.stops = op[o].stops \ {p} /\ r2.moves = op[o].moves
    BY <1>1, Zenon DEF Op
  <2>. HIDE DEF r1, r2
  <2>5. Quieter(r2, op[o])
    BY <2>2, <2>4, Zenon DEF Quieter, Replacing
  <2>6. Unmoved
    BY <1>2, <1>19, Zenon DEF StopUnsent, Goto, Unmoved
  <2>. QED
    BY <1>4, <2>1, <2>3, <2>5, <2>6, Zenon
<1>. QED
  BY <1>6, <1>7, <1>8, <1>10, <1>11, <1>12, <1>13, <1>14, <1>15, <1>16, <1>17, <1>18, <1>19, SMTT(30)

\* Allocations that are read from the state, with the node each is on.
LEMMA PlacedIds ==
  ASSUME NEW S \in SUBSET AllocIds
  PROVE  Ids(Placed(S)) = S
<1>1. \A a \in S : <<a, fsm.allocs[a].node>>[1] = a
  BY Zenon
<1>. QED
  BY <1>1, Zenon DEF Ids, Placed

\* The replicas of service s are about to be started by operation o.
LEMMA ProvidedKeeps ==
  ASSUME TypeInv, NEW rank, NEW n, Ranked(rank, n), NEW o \in Ops, NEW s \in Names, Unmoved,
         op' = [op EXCEPT ![o] = Provided(op[o], s)]
  PROVE  Ranked(rank, n)'
<1>1. op \in [Ops -> Op] /\ op[o] \in Op /\ OpInv(op[o], rank, fsm.allocs, Played, Lasting)
  BY Zenon DEF TypeInv, DeployTypeOK, Ranked, BaseInv
<1>2. PICK r : r = Provided(op[o], s)
  BY Zenon
<1>3. /\ r.pc = "schedule" /\ r.svc = s /\ r.news = {} /\ r.old = op[o].old
      /\ r.removed = op[o].removed /\ r.added = op[o].added
      /\ r.stops = op[o].stops /\ r.moves = op[o].moves
      /\ r.prior = IF s \in op[o].changed THEN Placed(ServiceAllocs(fsm, s)) ELSE {}
  BY <1>1, <1>2, Zenon DEF Provided, Op
<1>4. ServiceAllocs(fsm, s) \in SUBSET AllocIds
      /\ \A a \in ServiceAllocs(fsm, s) : Named(fsm.allocs, a, s)
  BY Zenon DEF ServiceAllocs, AllocsIn, Named
<1>5. Ids(r.prior) \subseteq ServiceAllocs(fsm, s)
  <2>1. Ids({}) = {}
    BY Zenon DEF Ids
  <2>. QED
    BY <1>3, <1>4, <2>1, PlacedIds, Zenon
<1>6. Mine(r) = {} /\ r.pc \notin Starting /\ r.pc # "propose"
  BY <1>3, Zenon DEF Mine, Ids, Starting
<1>7. OpInv(r, rank, fsm.allocs, Played, Lasting)
  BY <1>1, <1>3, <1>4, <1>5, <1>6, Zenon DEF OpInv
<1>8. \A a \in Ids(r.stops) : a \in Doomed
  BY <1>1, <1>3, Zenon DEF OpInv, Doomed
<1>. QED
  BY <1>1, <1>2, <1>3, <1>7, <1>8, NeutralKeeps, Zenon DEF Unmoved

\* Steps that find new work for an operation.
LEMMA ReadingSteps ==
  ASSUME TypeInv, NEW rank, NEW n, Ranked(rank, n), NEW o \in Ops,
         \/ \E s \in Names : BeginRemoval(o, s) \/ BeginService(o, s)
         \/ BeginReplicas(o) \/ NoNode(o) \/ Collect(o)
         \/ \E a \in AllocIds : Migrate(o, a)
  PROVE  Ranked(rank, n)'
<1>1. fsm \in FsmState /\ op \in [Ops -> Op] /\ op[o] \in Op /\ PhaseOK(op[o], AllocsIn(fsm))
  BY Zenon DEF TypeInv, DeployTypeOK
<1>2. fsm.config \in Played /\ OpInv(op[o], rank, fsm.allocs, Played, Lasting)
  BY Zenon DEF Ranked, BaseInv
<1>3. \A a \in Ids(op[o].stops) : a \in Doomed
  BY <1>2, Zenon DEF OpInv, Doomed
<1>4. ASSUME NEW s \in Names, BeginRemoval(o, s)
      PROVE  Ranked(rank, n)'
  <2>. DEFINE r == [op[o] EXCEPT !.pc = "remove", !.svc = s, !.stops = Placed(ServiceAllocs(fsm, s))]
  <2>1. op' = [op EXCEPT ![o] = r] /\ s \in op[o].removed
    BY <1>4, Zenon DEF BeginRemoval, Goto
  <2>2. /\ r.pc = "remove" /\ r.stops = Placed(ServiceAllocs(fsm, s)) /\ r.old = op[o].old
        /\ r.removed = op[o].removed /\ r.added = op[o].added /\ r.moves = op[o].moves
    BY <1>1, Zenon DEF Op
  <2>. HIDE DEF r
  <2>3. ServiceAllocs(fsm, s) \in SUBSET AllocIds
        /\ \A a \in ServiceAllocs(fsm, s) : fsm.allocs[a] # None /\ fsm.allocs[a].name = s
    BY Zenon DEF ServiceAllocs, AllocsIn
  <2>4. Ids(r.stops) = ServiceAllocs(fsm, s) /\ s \notin Lasting
    BY <1>2, <2>1, <2>2, <2>3, PlacedIds, Zenon DEF OpInv
  <2>5. r.pc \notin Replacing /\ r.pc \notin Starting /\ r.pc # "propose"
    BY <2>2, Zenon DEF Replacing, Starting
  <2>6. OpInv(r, rank, fsm.allocs, Played, Lasting)
    BY <1>2, <2>2, <2>3, <2>4, <2>5, Zenon DEF OpInv
  <2>7. Unmoved
    BY <1>2, <1>4, Zenon DEF BeginRemoval, Goto, Unmoved
  <2>. QED
    BY <1>1, <2>1, <2>3, <2>4, <2>5, <2>6, <2>7, NeutralKeeps, Zenon DEF Unmoved
<1>5. ASSUME NEW s \in Names, BeginService(o, s)
      PROVE  Ranked(rank, n)'
  <2>1. Unmoved
    BY <1>2, <1>5, Zenon DEF BeginService, Goto, Unmoved
  <2>2. CASE op' = [op EXCEPT ![o] = Provided(op[o], s)]
    BY <2>1, <2>2, ProvidedKeeps, Zenon
  <2>3. CASE op' = [op EXCEPT ![o] = Abandoned(op[o], s)]
    <3>1. Quieter(Abandoned(op[o], s), op[o])
      BY <1>1, Zenon DEF Quieter, Abandoned, Op, Replacing
    <3>. QED
      BY <1>1, <2>1, <2>3, <3>1, QuietKeeps, Zenon
  <2>4. ASSUME NEW i, NEW x \in {"create", "attach", "detach"},
               op' = [op EXCEPT ![o] = [op[o] EXCEPT !.svc = s, !.vol = VolumeOf[s],
                                                     !.target = i, !.pc = x]]
        PROVE  Ranked(rank, n)'
    <3>1. Quieter([op[o] EXCEPT !.svc = s, !.vol = VolumeOf[s], !.target = i, !.pc = x], op[o])
      BY <1>1, Zenon DEF Quieter, Op, Replacing
    <3>. QED
      BY <1>1, <2>1, <2>4, <3>1, QuietKeeps, Zenon
  <2>5. CASE ReadyNodes = {} /\ Goto(o, {"service"}, Abandoned(op[o], s))
    BY <2>3, <2>5, Zenon DEF Goto
  <2>6. CASE \E i \in ReadyNodes :
          Goto(o, {"service"},
               IF VolumeOf[s] = None \/ fsm.volumes[VolumeOf[s]] = [node |-> NameOf[i]]
               THEN Provided(op[o], s)
               ELSE [op[o] EXCEPT !.svc = s, !.vol = VolumeOf[s], !.target = i,
                              !.pc = IF fsm.volumes[VolumeOf[s]] = None THEN "create"
                                     ELSE IF fsm.volumes[VolumeOf[s]].node = None THEN "attach"
                                     ELSE "detach"])
    <3>1. PICK i \in ReadyNodes :
             op' = [op EXCEPT ![o] =
               IF VolumeOf[s] = None \/ fsm.volumes[VolumeOf[s]] = [node |-> NameOf[i]]
               THEN Provided(op[o], s)
               ELSE [op[o] EXCEPT !.svc = s, !.vol = VolumeOf[s], !.target = i,
                              !.pc = IF fsm.volumes[VolumeOf[s]] = None THEN "create"
                                     ELSE IF fsm.volumes[VolumeOf[s]].node = None THEN "attach"
                                     ELSE "detach"]]
      BY <2>6, Zenon DEF Goto
    <3>2. PICK x \in {"create", "attach", "detach"} :
             x = IF fsm.volumes[VolumeOf[s]] = None THEN "create"
                 ELSE IF fsm.volumes[VolumeOf[s]].node = None THEN "attach" ELSE "detach"
      BY Zenon
    <3>3. \/ op' = [op EXCEPT ![o] = Provided(op[o], s)]
          \/ op' = [op EXCEPT ![o] = [op[o] EXCEPT !.svc = s, !.vol = VolumeOf[s],
                                                  !.target = i, !.pc = x]]
      BY <3>1, <3>2, Zenon
    <3>. QED
      BY <2>2, <2>4, <3>3, Zenon
  <2>. QED
    BY <1>5, <2>5, <2>6, Zenon DEF BeginService
<1>6. CASE BeginReplicas(o)
  <2>1. Unmoved /\ op' = [op EXCEPT ![o] = Provided(op[o], op[o].svc)] /\ op[o].pc = "provided"
    BY <1>2, <1>6, Zenon DEF BeginReplicas, Goto, Unmoved
  <2>2. op[o].svc \in Names
    BY <1>1, <2>1, Services, Zenon DEF PhaseOK
  <2>. QED
    BY <2>1, <2>2, ProvidedKeeps, Zenon
<1>7. CASE NoNode(o)
  <2>. DEFINE x == IF op[o].svc \in op[o].changed THEN op[o].news ELSE {}
              r == [op[o] EXCEPT !.pc = "rollback", !.failed = TRUE, !.stops = x]
  <2>1. op' = [op EXCEPT ![o] = r] /\ op[o].pc = "schedule"
    BY <1>7, Zenon DEF NoNode, Goto
  <2>2. /\ r.pc = "rollback" /\ r.stops \subseteq op[o].news /\ r.old = op[o].old
        /\ r.removed = op[o].removed /\ r.added = op[o].added /\ r.moves = op[o].moves
    BY <1>1, Zenon DEF Op
  <2>. HIDE DEF r
  <2>3. Ids(r.stops) \subseteq Mine(op[o]) /\ op[o].pc \in Replacing
    BY <2>1, <2>2, Zenon DEF Mine, Ids, Replacing
  <2>4. r.pc \notin Replacing /\ r.pc \notin Starting /\ r.pc # "propose"
    BY <2>2, Zenon DEF Replacing, Starting
  <2>5. OpInv(r, rank, fsm.allocs, Played, Lasting)
    BY <1>2, <2>2, <2>3, <2>4, Zenon DEF OpInv, Named
  <2>6. Unmoved
    BY <1>2, <1>7, Zenon DEF NoNode, Goto, Unmoved
  <2>. QED
    BY <1>1, <2>1, <2>3, <2>4, <2>5, <2>6, NeutralKeeps, Zenon DEF Unmoved
<1>8. CASE Collect(o)
  <2>. DEFINE x == AllocsOn(fsm, op[o].node) \cap NonTerminal(fsm)
              r == [op[o] EXCEPT !.pc = "migrate", !.moves = x]
  <2>1. op' = [op EXCEPT ![o] = r]
    BY <1>8, Zenon DEF Collect, Goto
  <2>2. /\ r.pc = "migrate" /\ r.stops = op[o].stops /\ r.old = op[o].old
        /\ r.removed = op[o].removed /\ r.added = op[o].added /\ r.moves = x
    BY <1>1, Zenon DEF Op
  <2>. HIDE DEF r
  <2>3. \A a \in r.moves : a \in AllocIds /\ fsm.allocs[a] # None
    BY <2>2, Zenon DEF AllocsOn, AllocsIn
  <2>4. r.pc \notin Replacing /\ r.pc \notin Starting /\ r.pc # "propose"
    BY <2>2, Zenon DEF Replacing, Starting
  <2>5. OpInv(r, rank, fsm.allocs, Played, Lasting)
    BY <1>2, <2>2, <2>3, <2>4, Zenon DEF OpInv
  <2>6. Unmoved
    BY <1>2, <1>8, Zenon DEF Collect, Goto, Unmoved
  <2>. QED
    BY <1>1, <1>3, <2>1, <2>2, <2>4, <2>5, <2>6, NeutralKeeps, Zenon DEF Unmoved
<1>9. ASSUME NEW a \in AllocIds, Migrate(o, a)
      PROVE  Ranked(rank, n)'
  <2>1. op[o].pc = "migrate" /\ a \in op[o].moves /\ Unmoved
    BY <1>2, <1>9, Zenon DEF Migrate, Goto, Unmoved
  <2>2. fsm.allocs[a] # None /\ op[o].news = {}
    BY <1>1, <1>2, <2>1, Zenon DEF OpInv, PhaseOK, Draining
  <2>3. PICK old : old = {<<a, op[o].node>>}
    BY Zenon
  <2>4. Ids(old) = {a}
    BY <2>3 DEF Ids
  <2>5. PICK s : s = fsm.allocs[a].name
    BY Zenon
  <2>6. CASE s \in ServicesIn(fsm.config)
    <3>. DEFINE r == [op[o] EXCEPT !.pc = "schedule", !.moves = @ \ {a}, !.prior = old,
                                   !.svc = s, !.new = fsm.config]
    <3>1. op' = [op EXCEPT ![o] = r]
      BY <1>9, <2>3, <2>5, <2>6, Zenon DEF Migrate, Goto
    <3>2. /\ r.pc = "schedule" /\ r.stops = op[o].stops /\ r.old = op[o].old /\ r.svc = s
          /\ r.removed = op[o].removed /\ r.added = op[o].added /\ r.moves \subseteq op[o].moves
          /\ r.news = {} /\ r.prior = old
      BY <1>1, <2>2, Zenon DEF Op
    <3>. HIDE DEF r
    <3>3. Mine(r) = {} /\ r.pc \notin Starting /\ r.pc # "propose"
      BY <3>2, Zenon DEF Mine, Ids, Starting
    <3>4. OpInv(r, rank, fsm.allocs, Played, Lasting)
      BY <1>2, <2>2, <2>4, <2>5, <3>2, <3>3, Zenon DEF OpInv, Named
    <3>. QED
      BY <1>1, <1>3, <2>1, <3>1, <3>2, <3>4, NeutralKeeps, Zenon DEF Unmoved
  <2>7. CASE s \notin ServicesIn(fsm.config)
    <3>. DEFINE r == [op[o] EXCEPT !.pc = "stop", !.moves = @ \ {a}, !.stops = old]
    <3>1. op' = [op EXCEPT ![o] = r]
      BY <1>9, <2>3, <2>5, <2>7, Zenon DEF Migrate, Goto
    <3>2. /\ r.pc = "stop" /\ r.stops = old /\ r.old = op[o].old
          /\ r.removed = op[o].removed /\ r.added = op[o].added /\ r.moves \subseteq op[o].moves
      BY <1>1, Zenon DEF Op
    <3>. HIDE DEF r
    <3>3. r.pc \notin Replacing /\ r.pc \notin Starting /\ r.pc # "propose"
      BY <3>2, Zenon DEF Replacing, Starting
    <3>4. OpInv(r, rank, fsm.allocs, Played, Lasting)
      BY <1>2, <2>2, <2>4, <3>2, <3>3, Zenon DEF OpInv
    <3>5. s \notin Lasting
      BY <1>2, <2>7, LastingIn, Zenon
    <3>. QED
      BY <1>1, <2>1, <2>4, <2>5, <3>1, <3>2, <3>3, <3>4, <3>5, NeutralKeeps, Zenon DEF Unmoved
  <2>. QED
    BY <2>6, <2>7, Zenon
<1>. QED
  BY <1>4, <1>5, <1>6, <1>7, <1>8, <1>9, Zenon

-----------------------------------------------------------------------------
(* Steps that send, start or stop. *)

\* What a command that is sent, or one that is taken, does to what is stopped.
LEMMA SendStops ==
  ASSUME queue \in [RaftIds -> Seq(Command)], NEW m, NEW c \in Command, Send(m, c)
  PROVE  Stopping' \subseteq Stopping \cup {a \in AllocIds : c = [op |-> "Stop", alloc |-> a]}
<1>1. \A i \in RaftIds : \A k \in 1 .. Len(queue'[i]) :
         queue'[i][k] = c \/ \E j \in 1 .. Len(queue[i]) : queue'[i][k] = queue[i][j]
  BY SendCommand, Zenon
<1>2. ASSUME NEW a \in Stopping', c # [op |-> "Stop", alloc |-> a]
      PROVE  a \in Stopping
  <2>1. a \in AllocIds
        /\ \E i \in RaftIds : \E k \in 1 .. Len(queue'[i]) : queue'[i][k] = [op |-> "Stop", alloc |-> a]
    BY <1>2, Zenon DEF Stopping
  <2>2. PICK i \in RaftIds : \E k \in 1 .. Len(queue'[i]) : queue'[i][k] = [op |-> "Stop", alloc |-> a]
    BY <2>1, Zenon
  <2>3. \E j \in 1 .. Len(queue[i]) : queue[i][j] = [op |-> "Stop", alloc |-> a]
    BY <1>1, <1>2, <2>2, Zenon
  <2>. QED
    BY <2>1, <2>3, Zenon DEF Stopping
<1>3. Stopping' \subseteq AllocIds
  BY Zenon DEF Stopping
<1>. QED
  BY <1>2, <1>3, Zenon

LEMMA TakeStops ==
  ASSUME queue \in [RaftIds -> Seq(Command)], NEW i \in RaftIds, queue[i] # <<>>,
         queue' = [queue EXCEPT ![i] = Tail(@)]
  PROVE  Stopping' \subseteq Stopping
BY TakeCommand DEF Stopping

\* What is doomed is there.
LEMMA DoomedKnown ==
  ASSUME NEW rank, NEW n, BaseInv(rank, n)
  PROVE  Doomed \subseteq AllocsIn(fsm)
BY Zenon DEF Doomed, BaseInv, OpInv, AllocsIn

\* A step of o that changes nothing but its own record and the queues, starts
\* nothing new and dooms nothing new.
LEMMA SparedKeeps ==
  ASSUME NEW rank, NEW n, Ranked(rank, n), op \in [Ops -> Op], NEW o \in Ops, NEW r,
         op' = [op EXCEPT ![o] = r], UNCHANGED <<fsm, running, scenario>>,
         Stopping' \subseteq AllocsIn(fsm), Doomed' \subseteq Doomed,
         OpInv(r, rank, fsm.allocs, Played, Lasting),
         r.pc \in Replacing => /\ op[o].pc \in Replacing /\ r.svc = op[o].svc
                               /\ Mine(r) \subseteq Mine(op[o]),
         r.pc \in Starting => /\ op[o].pc \in Starting /\ r.cur = op[o].cur
                              /\ r.pc = "ready" => op[o].pc = "ready" \/ running[r.cur[1]] # None
  PROVE  Ranked(rank, n)'
<1>1. BaseInv(rank, n) /\ SurvivorInv(rank)
  BY Zenon DEF Ranked
<1>2. \A p \in Ops : op'[p] = IF p = o THEN r ELSE op[p]
  BY Zenon
<1>3. BaseInv(rank, n)'
  <2>1. fsm'.config \in Played
    BY <1>1, Zenon DEF BaseInv
  <2>. QED
    BY <1>1, <1>2, <2>1, BaseStep, Zenon
<1>4. Lasting' = Lasting /\ \A s : Serving(s)' = Serving(s)
  BY Zenon DEF Lasting, Serving, Live, ServiceAllocs, AllocsIn
<1>5. ASSUME NEW s \in Lasting, NEW m \in AllocIds,
             Survives(m, s, rank, op, Serving(s), Doomed, running)
      PROVE  Survives(m, s, rank, op', Serving(s), Doomed', running)
  <2>1. m \in Serving(s) /\ m \notin Doomed'
    BY <1>5, Zenon DEF Survives
  <2>2. \A p \in Ops : op'[p].pc \in Replacing => m \notin Mine(op'[p])
    BY <1>2, <1>5, Zenon DEF Survives
  <2>3. ASSUME NEW p \in Ops, op'[p].pc \in Starting, op'[p].svc = s,
               rank[m] < rank[op'[p].cur[1]]
        PROVE  Safe(op'[p], Doomed', running)
    <3>1. op'[p].pc \in Replacing
      BY <2>3, Zenon DEF Starting, Replacing
    <3>2. /\ op[p].pc \in Starting /\ op[p].svc = s /\ op[p].cur = op'[p].cur
          /\ op'[p].pc = "ready" => op[p].pc = "ready" \/ running[op'[p].cur[1]] # None
      BY <1>2, <2>3, <3>1, Zenon
    <3>3. Safe(op[p], Doomed, running)
      BY <1>5, <2>3, <3>2, Zenon DEF Survives
    <3>. QED
      BY <3>2, <3>3, Zenon DEF Safe
  <2>. QED
    BY <2>1, <2>2, <2>3, Zenon DEF Survives
<1>6. SurvivorInv(rank)'
  <2>1. \A s \in Lasting : \E m \in AllocIds : Survives(m, s, rank, op', Serving(s), Doomed', running)
    BY <1>1, <1>5, Zenon DEF SurvivorInv
  <2>. QED
    BY <1>4, <2>1, Zenon DEF SurvivorInv
<1>. QED
  BY <1>3, <1>6, Zenon DEF Ranked

\* SendRun, Probe and StopOne.
LEMMA SendingSteps ==
  ASSUME TypeInv, NEW rank, NEW n, Ranked(rank, n), NEW o \in Ops,
         SendRun(o) \/ Probe(o) \/ \E p \in op[o].stops : StopOne(o, p)
  PROVE  Ranked(rank, n)'
<1>1. /\ op \in [Ops -> Op] /\ op[o] \in Op /\ PhaseOK(op[o], AllocsIn(fsm))
      /\ queue \in [RaftIds -> Seq(Command)]
  BY Zenon DEF TypeInv, DeployTypeOK
<1>2. BaseInv(rank, n) /\ OpInv(op[o], rank, fsm.allocs, Played, Lasting) /\ Stopping \subseteq AllocsIn(fsm)
  BY Zenon DEF Ranked, BaseInv
<1>3. ASSUME NEW x \in Starting, op[o].pc \in Starting,
             op' = [op EXCEPT ![o] = [op[o] EXCEPT !.pc = x]],
             UNCHANGED <<fsm, running, scenario>>, Stopping' \subseteq Stopping,
             x = "ready" => running[op[o].cur[1]] # None
      PROVE  Ranked(rank, n)'
  <2>. DEFINE r == [op[o] EXCEPT !.pc = x]
  <2>1. /\ r.pc = x /\ r.old = op[o].old /\ r.removed = op[o].removed /\ r.added = op[o].added
        /\ r.stops = op[o].stops /\ r.moves = op[o].moves /\ r.prior = op[o].prior
        /\ r.news = op[o].news /\ r.cur = op[o].cur /\ r.svc = op[o].svc
    BY <1>1, Zenon DEF Op
  <2>. HIDE DEF r
  <2>2. x \in Replacing /\ op[o].pc \in Replacing /\ x # "propose"
    BY <1>3, Zenon DEF Starting, Replacing
  <2>3. Mine(r) = Mine(op[o])
    BY <1>3, <2>1, Zenon DEF Mine
  <2>4. OpInv(r, rank, fsm.allocs, Played, Lasting)
    BY <1>2, <1>3, <2>1, <2>2, <2>3, Zenon DEF OpInv
  <2>5. Ids(r.stops) \subseteq Doomed
    BY <1>2, <2>1, Zenon DEF OpInv, Doomed
  <2>6. op' = [op EXCEPT ![o] = r]
    BY <1>3, Zenon DEF r
  <2>7. Stopping' \subseteq Stopping \cup {}
    BY <1>3, Zenon
  <2>8. Doomed' \subseteq Doomed
    BY <1>1, <2>5, <2>6, <2>7, DoomedStep, Zenon
  <2>9. Stopping' \subseteq AllocsIn(fsm) /\ UNCHANGED <<fsm, running, scenario>>
    BY <1>2, <1>3, Zenon
  <2>10. op[o].pc \in Replacing /\ r.svc = op[o].svc /\ Mine(r) \subseteq Mine(op[o])
    BY <2>1, <2>2, <2>3, Zenon
  <2>11. /\ op[o].pc \in Starting /\ r.cur = op[o].cur
         /\ r.pc = "ready" => op[o].pc = "ready" \/ running[r.cur[1]] # None
    BY <1>3, <2>1, Zenon
  <2>. QED
    BY <1>1, <2>4, <2>6, <2>8, <2>9, <2>10, <2>11, SparedKeeps, Zenon
<1>4. CASE SendRun(o)
  <2>1. op[o].pc = "run" /\ op' = [op EXCEPT ![o] = [op[o] EXCEPT !.pc = "wait"]]
        /\ UNCHANGED <<fsm, running, scenario>>
    BY <1>4, Zenon DEF SendRun, Goto
  <2>2. op[o].cur[1] \in AllocIds /\ DefOf[op[o].new][op[o].svc] \in Versions
    <3>1. op[o].cur \in Placement /\ op[o].new \in Configs /\ op[o].svc \in ServicesIn(op[o].new)
      BY <1>1, <2>1, Zenon DEF PhaseOK, Starting, Replacing
    <3>2. op[o].cur[1] \in AllocIds
      BY <3>1, Zenon DEF Placement
    <3>. QED
      BY <3>1, <3>2, Services, Zenon
  <2>3. PICK c : c = [op |-> "Run", alloc |-> op[o].cur[1], def |-> DefOf[op[o].new][op[o].svc]]
    BY Zenon
  <2>4. c \in Command /\ \A a \in AllocIds : c # [op |-> "Stop", alloc |-> a]
    BY <2>2, <2>3, Zenon DEF Command
  <2>5. Send(op[o].cur[2], c)
    BY <1>4, <2>3, Zenon DEF SendRun
  <2>6. Stopping' \subseteq Stopping
    BY <1>1, <2>4, <2>5, SendStops, Zenon
  <2>. QED
    BY <1>3, <2>1, <2>6, Zenon DEF Starting
<1>5. CASE Probe(o)
  <2>1. op[o].pc = "wait" /\ op' = [op EXCEPT ![o] = [op[o] EXCEPT !.pc = "ready"]]
        /\ UNCHANGED <<fsm, running, scenario, queue>> /\ running[op[o].cur[1]] # None
    BY <1>5, Zenon DEF Probe, Goto, Answers
  <2>2. Stopping' = Stopping
    BY <2>1, Zenon DEF Stopping
  <2>. QED
    BY <1>3, <2>1, <2>2, Zenon DEF Starting
<1>6. ASSUME NEW p \in op[o].stops, StopOne(o, p)
      PROVE  Ranked(rank, n)'
  <2>. DEFINE r == [op[o] EXCEPT !.stops = @ \ {p}]
  <2>1. op' = [op EXCEPT ![o] = r] /\ op[o].pc \in {"stop", "rollback", "remove"}
        /\ UNCHANGED <<fsm, running, scenario>>
    BY <1>6, Zenon DEF StopOne, Goto
  <2>2. r.pc = op[o].pc /\ r.stops \subseteq op[o].stops /\ Quieter(r, op[o])
    BY <1>1, <2>1, Zenon DEF Op, Quieter, Replacing
  <2>. HIDE DEF r
  <2>3. r.pc \notin Replacing /\ r.pc \notin Starting
    BY <2>1, <2>2, Zenon DEF Replacing, Starting
  <2>4. Ids(r.stops) \subseteq Ids(op[o].stops) /\ p[1] \in Ids(op[o].stops)
    BY <2>2, Zenon DEF Ids
  <2>5. Ids(op[o].stops) \subseteq Doomed /\ p[1] \in AllocsIn(fsm) /\ p[1] \in AllocIds
    BY <1>2, <2>4, Zenon DEF OpInv, Doomed, AllocsIn
  <2>6. OpInv(r, rank, fsm.allocs, Played, Lasting)
    BY <1>2, <2>2, <2>3, <2>4, Zenon DEF OpInv, Quieter
  <2>7. PICK c : c = [op |-> "Stop", alloc |-> p[1]]
    BY Zenon
  <2>8. c \in Command /\ \A a \in AllocIds : c = [op |-> "Stop", alloc |-> a] => a = p[1]
    BY <2>5, <2>7, Zenon DEF Command
  <2>9. Send(p[2], c)
    BY <1>6, <2>7, Zenon DEF StopOne
  <2>10. Stopping' \subseteq Stopping \cup {p[1]}
    BY <1>1, <2>8, <2>9, SendStops
  <2>11. Stopping' \subseteq AllocsIn(fsm)
    BY <1>2, <2>5, <2>10, Zenon
  <2>12. Doomed' \subseteq Doomed \cup {p[1]} \cup Ids(r.stops)
    BY <1>1, <2>1, <2>10, DoomedStep, Zenon
  <2>13. Doomed' \subseteq Doomed
    BY <2>4, <2>5, <2>12, Zenon
  <2>. QED
    BY <1>1, <2>1, <2>3, <2>6, <2>11, <2>13, SparedKeeps, Zenon
<1>. QED
  BY <1>4, <1>5, <1>6, Zenon

\* A start that fails: its update is given up with what it has started.
LEMMA FailingStep ==
  ASSUME TypeInv, NEW rank, NEW n, Ranked(rank, n), NEW o \in Ops, StartFails(o)
  PROVE  Ranked(rank, n)'
<1>1. fsm \in FsmState /\ op \in [Ops -> Op] /\ op[o] \in Op /\ PhaseOK(op[o], AllocsIn(fsm))
  BY Zenon DEF TypeInv, DeployTypeOK
<1>2. fsm.config \in Played /\ OpInv(op[o], rank, fsm.allocs, Played, Lasting)
  BY Zenon DEF Ranked, BaseInv
<1>. DEFINE x == IF op[o].svc \in op[o].changed THEN op[o].news ELSE {}
            r == [op[o] EXCEPT !.pc = "rollback", !.failed = TRUE, !.stops = x]
<1>3. /\ op' = [op EXCEPT ![o] = r] /\ op[o].pc \in {"run", "wait"}
      /\ fsm' = SetAllocStatus(fsm, op[o].cur[1], "Failed") /\ UNCHANGED <<running, queue, scenario>>
  BY <1>2, Zenon DEF StartFails, Goto
<1>4. /\ r.pc = "rollback" /\ r.stops \subseteq op[o].news /\ r.old = op[o].old
      /\ r.removed = op[o].removed /\ r.added = op[o].added /\ r.moves = op[o].moves
  BY <1>1, Zenon DEF Op
<1>. HIDE DEF r
<1>5. op[o].pc \in Replacing /\ op[o].pc \in Starting /\ op[o].cur \in Placement
  BY <1>1, <1>3, Zenon DEF Replacing, Starting, PhaseOK
<1>6. Ids(r.stops) \subseteq Mine(op[o]) /\ op[o].cur[1] \in Mine(op[o]) /\ op[o].cur[1] \in AllocIds
  BY <1>4, <1>5, Zenon DEF Mine, Ids, Placement
<1>7. r.pc \notin Replacing /\ r.pc \notin Starting /\ r.pc # "propose"
  BY <1>4, Zenon DEF Replacing, Starting
<1>8. OpInv(r, rank, fsm.allocs, Played, Lasting)
  <2>1. \A a \in Mine(op[o]) : a \in AllocIds /\ fsm.allocs[a] # None
    BY <1>2, <1>5, Zenon DEF OpInv, Named
  <2>2. \A a \in r.moves : a \in AllocIds /\ fsm.allocs[a] # None
    BY <1>2, <1>4, Zenon DEF OpInv
  <2>3. r.old \in Played \cup {None} /\ r.removed \cap Lasting = {} /\ r.added \cap Lasting = {}
    BY <1>2, <1>4, ZenonT(30) DEF OpInv
  <2>. QED
    BY <1>6, <1>7, <2>1, <2>2, <2>3, Zenon DEF OpInv
<1>9. fsm'.config = fsm.config
      /\ \A b \in AllocIds : /\ b # op[o].cur[1] => fsm'.allocs[b] = fsm.allocs[b]
                             /\ (fsm'.allocs[b] = None) <=> (fsm.allocs[b] = None)
                             /\ fsm'.allocs[b].name = fsm.allocs[b].name
  <2>1. PICK c \in AllocIds : c = op[o].cur[1]
    BY <1>6, Zenon
  <2>2. fsm' = SetAllocStatus(fsm, c, "Failed") /\ "Failed" \in AllocStatuses
    BY <1>3, <2>1, Zenon DEF AllocStatuses
  <2>. QED
    BY <1>1, <2>1, <2>2, ReportedAlloc, SMTT(30)
<1>10. fsm'.config \in Played
      /\ \A b \in AllocIds : /\ (fsm'.allocs[b] = None) <=> (fsm.allocs[b] = None)
                             /\ fsm'.allocs[b].name = fsm.allocs[b].name
                             /\ \/ fsm'.allocs[b] = fsm.allocs[b]
                                \/ op[o].pc \in Replacing /\ b \in Mine(op[o])
  BY <1>2, <1>5, <1>6, <1>9, Zenon
<1>11. \A a \in Ids(r.stops) : op[o].pc \in Replacing /\ r.pc \notin Replacing /\ a \in Mine(op[o])
  BY <1>5, <1>6, <1>7, Zenon
<1>. QED
  BY <1>1, <1>3, <1>7, <1>8, <1>10, <1>11, NeutralKeeps, Zenon

\* A node executes a command for b, which is doomed or not running; where it
\* does nothing, b is no allocation.
LEMMA ExecuteKeeps ==
  ASSUME NEW rank, NEW n, Ranked(rank, n), op \in [Ops -> Op], NEW b, UNCHANGED <<op, scenario>>,
         fsm'.config = fsm.config, Stopping' \subseteq Stopping,
         \A a \in AllocIds : /\ (fsm'.allocs[a] = None) <=> (fsm.allocs[a] = None)
                             /\ fsm'.allocs[a].name = fsm.allocs[a].name
                             /\ a # b => /\ fsm'.allocs[a] = fsm.allocs[a]
                                         /\ running[a] # None => running'[a] # None,
         b \in AllocIds => b \in Doomed \/ running[b] = None
  PROVE  Ranked(rank, n)'
<1>1. BaseInv(rank, n) /\ SurvivorInv(rank)
  BY Zenon DEF Ranked
<1>2. BaseInv(rank, n)'
  <2>1. fsm'.config \in Played /\ Stopping' \subseteq AllocsIn(fsm)
    BY <1>1, Zenon DEF BaseInv
  <2>. QED
    BY <1>1, <2>1, BaseStep, Zenon
<1>3. Doomed' \subseteq Doomed /\ Lasting' = Lasting
  BY Zenon DEF Doomed, Lasting
<1>4. ASSUME NEW s \in Lasting, NEW m \in AllocIds,
             Survives(m, s, rank, op, Serving(s), Doomed, running)
      PROVE  Survives(m, s, rank, op', Serving(s)', Doomed', running')
  <2>1. m \in Serving(s) /\ m \notin Doomed /\ running[m] # None
    BY <1>4, Zenon DEF Survives, Serving, Live
  <2>2. m # b
    BY <2>1, Zenon
  <2>3. m \in Serving(s)'
    BY <2>1, <2>2, Zenon DEF Serving, Live, ServiceAllocs, AllocsIn
  <2>4. ASSUME NEW p \in Ops, op[p].pc \in Starting, op[p].svc = s, rank[m] < rank[op[p].cur[1]]
        PROVE  Safe(op[p], Doomed', running')
    <3>1. Safe(op[p], Doomed, running) /\ op[p].cur[1] \in AllocIds
      BY <1>1, <1>4, <2>4, LastingNames, Zenon DEF Survives
    <3>. QED
      BY <1>3, <3>1, Zenon DEF Safe
  <2>. QED
    BY <1>3, <1>4, <2>3, <2>4, Zenon DEF Survives
<1>5. SurvivorInv(rank)'
  <2>1. \A s \in Lasting : \E m \in AllocIds : Survives(m, s, rank, op', Serving(s)', Doomed', running')
    BY <1>1, <1>4, Zenon DEF SurvivorInv
  <2>. QED
    BY <1>3, <2>1, Zenon DEF SurvivorInv
<1>. QED
  BY <1>2, <1>5, Zenon DEF Ranked

\* What nodes do.
LEMMA ExecutingSteps ==
  ASSUME TypeInv, NEW rank, NEW n, Ranked(rank, n), NEW i \in RaftIds, Execute(i)
  PROVE  Ranked(rank, n)'
<1>1. /\ fsm \in FsmState /\ op \in [Ops -> Op] /\ queue \in [RaftIds -> Seq(Command)]
      /\ running \in [AllocIds -> Versions \cup {None}]
  BY Zenon DEF TypeInv, DeployTypeOK
<1>2. /\ queue[i] # <<>> /\ queue' = [queue EXCEPT ![i] = Tail(@)] /\ UNCHANGED <<op, scenario>>
  BY Zenon DEF Execute, ExecuteRun, ExecuteStop
<1>3. PICK c : c = Head(queue[i])
  BY Zenon
<1>4. c \in Command /\ 1 \in 1 .. Len(queue[i]) /\ c = queue[i][1] /\ Stopping' \subseteq Stopping
  BY <1>1, <1>2, <1>3, TakeCommand, TakeStops, Zenon
<1>5. c.alloc \in AllocIds
  BY <1>4, Zenon DEF Command
<1>6. ASSUME fsm' = fsm \/ fsm' = AllocRunning(fsm, c.alloc, Address)
               \/ \E st \in AllocStatuses : fsm' = SetAllocStatus(fsm, c.alloc, st),
             \A a \in AllocIds : a # c.alloc /\ running[a] # None => running'[a] # None,
             c.alloc \in Doomed \/ running[c.alloc] = None
      PROVE  Ranked(rank, n)'
  <2>1. fsm'.config = fsm.config
        /\ \A a \in AllocIds : /\ (fsm'.allocs[a] = None) <=> (fsm.allocs[a] = None)
                               /\ fsm'.allocs[a].name = fsm.allocs[a].name
                               /\ a # c.alloc => fsm'.allocs[a] = fsm.allocs[a]
    <3>1. CASE fsm' = fsm
      BY <3>1, Zenon
    <3>2. CASE fsm' = AllocRunning(fsm, c.alloc, Address)
      BY <1>1, <1>5, <3>2, ReportedAlloc, SMTT(30)
    <3>3. CASE \E st \in AllocStatuses : fsm' = SetAllocStatus(fsm, c.alloc, st)
      BY <1>1, <1>5, <3>3, ReportedAlloc, SMTT(30)
    <3>. QED
      BY <1>6, <3>1, <3>2, <3>3, Zenon
  <2>. QED
    BY <1>1, <1>2, <1>4, <1>6, <2>1, ExecuteKeeps, ZenonT(30)
<1>7. CASE ExecuteRun(i)
  <2>1. CASE running[c.alloc] # None
    <3>1. UNCHANGED <<fsm, running>>
      BY <1>3, <1>7, <2>1, Zenon DEF ExecuteRun
    <3>2. None \notin AllocIds
      BY Constants, Zenon
    <3>. QED
      BY <1>1, <1>2, <1>4, <3>1, <3>2, ExecuteKeeps, Zenon
  <2>2. CASE running[c.alloc] = None
    <3>1. fsm' = AllocRunning(fsm, c.alloc, Address) \/ fsm' = SetAllocStatus(fsm, c.alloc, "Failed")
      BY <1>3, <1>7, <2>2, Zenon DEF ExecuteRun
    <3>2. running' = [running EXCEPT ![c.alloc] = c.def] \/ running' = running
      BY <1>3, <1>7, <2>2, Zenon DEF ExecuteRun
    <3>3. \A a \in AllocIds : a # c.alloc /\ running[a] # None => running'[a] # None
      BY <1>1, <3>2, Zenon
    <3>. QED
      BY <1>6, <2>2, <3>1, <3>3, Zenon DEF AllocStatuses
  <2>. QED
    BY <2>1, <2>2, Zenon
<1>8. CASE ExecuteStop(i)
  <2>1. c.op = "Stop" /\ fsm' = SetAllocStatus(fsm, c.alloc, "Stopped")
        /\ running' = [running EXCEPT ![c.alloc] = None]
    BY <1>3, <1>8, Zenon DEF ExecuteStop
  <2>2. c = [op |-> "Stop", alloc |-> c.alloc]
    BY <1>4, <2>1, Zenon DEF Command
  <2>3. c.alloc \in Doomed
    BY <1>4, <1>5, <2>2, Zenon DEF Doomed, Stopping
  <2>4. \A a \in AllocIds : a # c.alloc /\ running[a] # None => running'[a] # None
    BY <1>1, <2>1, Zenon
  <2>. QED
    BY <1>6, <2>1, <2>3, <2>4, Zenon DEF AllocStatuses
<1>. QED
  BY <1>7, <1>8, Zenon DEF Execute

\* A replica is recorded as healthy.  If it is the last one of its update, what
\* was there before is doomed, and the replica takes over from a survivor that
\* was among it.
LEMMA HealthyStep ==
  ASSUME TypeInv, NEW rank \in [AllocIds -> Nat], NEW n, Ranked(rank, n), NEW o \in Ops,
         ProposeHealthy(o)
  PROVE  Ranked(rank, n)'
<1>1. fsm \in FsmState /\ op \in [Ops -> Op] /\ op[o] \in Op /\ PhaseOK(op[o], AllocsIn(fsm))
  BY Zenon DEF TypeInv, DeployTypeOK
<1>2. BaseInv(rank, n) /\ SurvivorInv(rank) /\ OpInv(op[o], rank, fsm.allocs, Played, Lasting)
  BY Zenon DEF Ranked, BaseInv
<1>3. op[o].pc = "ready" /\ op[o].pc \in Starting /\ op[o].pc \in Replacing
  BY Zenon DEF ProposeHealthy, Goto, Starting, Replacing
<1>4. op[o].cur \in Placement
  BY <1>1, <1>3, Zenon DEF PhaseOK
<1>5. PICK c \in AllocIds : c = op[o].cur[1]
  BY <1>4, Zenon DEF Placement
<1>. DEFINE new == op[o].news \cup Placed({c})
            r1 == [op[o] EXCEPT !.pc = "stop", !.news = new, !.stops = op[o].prior]
            r2 == [op[o] EXCEPT !.pc = "schedule", !.news = new]
<1>6. /\ fsm' = SetAllocStatus(fsm, c, "Healthy") /\ UNCHANGED <<running, queue, scenario>>
      /\ op' = [op EXCEPT ![o] = r1] \/ op' = [op EXCEPT ![o] = r2]
  BY <1>5, Zenon DEF ProposeHealthy, Goto
<1>7. PICK r : /\ r = r1 \/ r = r2
               /\ op' = [op EXCEPT ![o] = r]
  BY <1>6, Zenon
<1>8. /\ r.old = op[o].old /\ r.removed = op[o].removed /\ r.added = op[o].added
      /\ r.moves = op[o].moves /\ r.prior = op[o].prior /\ r.svc = op[o].svc /\ r.news = new
      /\ \/ r.pc = "stop" /\ r.stops = op[o].prior
         \/ r.pc = "schedule" /\ r.stops = op[o].stops
  <2>. HIDE DEF new
  <2>1. CASE r = r1
    BY <1>1, <2>1, Zenon DEF Op
  <2>2. CASE r = r2
    BY <1>1, <2>2, Zenon DEF Op
  <2>. QED
    BY <1>7, <2>1, <2>2, Zenon
<1>9. Ids(new) = Mine(op[o])
  <2>1. Ids(Placed({c})) = {c}
    BY PlacedIds
  <2>. QED
    BY <1>3, <1>5, <2>1, Zenon DEF Ids, Mine
<1>. HIDE DEF new, r1, r2
<1>10. r.pc \notin Starting /\ Mine(r) = Mine(op[o]) /\ r.pc # "propose"
  BY <1>8, <1>9, Zenon DEF Starting, Mine
<1>11. c \in Mine(op[o]) /\ Named(fsm.allocs, c, op[o].svc)
       /\ \A a \in Ids(op[o].prior) : Named(fsm.allocs, a, op[o].svc)
  BY <1>2, <1>3, <1>5, Zenon DEF Mine, OpInv
<1>12. OpInv(r, rank, fsm.allocs, Played, Lasting)
  <2>1. \A a \in Ids(r.stops) \cup r.moves : a \in AllocIds /\ fsm.allocs[a] # None
    BY <1>2, <1>8, <1>11, Zenon DEF OpInv, Named
  <2>. QED
    BY <1>2, <1>3, <1>8, <1>10, <2>1, Zenon DEF OpInv
<1>13. /\ fsm'.config = fsm.config /\ fsm'.allocs[c].status = "Healthy"
       /\ \A b \in AllocIds : /\ b # c => fsm'.allocs[b] = fsm.allocs[b]
                              /\ (fsm'.allocs[b] = None) <=> (fsm.allocs[b] = None)
                              /\ fsm'.allocs[b].name = fsm.allocs[b].name
  <2>1. "Healthy" \in AllocStatuses /\ fsm.allocs[c] # None
    BY <1>11, Zenon DEF AllocStatuses, Named
  <2>. QED
    BY <1>1, <1>6, <2>1, ReportedAlloc, SMTT(30)
<1>14. \A p \in Ops : op'[p] = IF p = o THEN r ELSE op[p]
  BY <1>1, <1>7, Zenon
<1>15. Stopping' = Stopping /\ Lasting' = Lasting
  BY <1>6, Zenon DEF Stopping, Lasting
<1>16. BaseInv(rank, n)'
  <2>1. fsm'.config \in Played /\ Stopping' \subseteq AllocsIn(fsm)
    BY <1>2, <1>13, <1>15, Zenon DEF BaseInv
  <2>2. \A p \in Ops : \/ op'[p] = op[p]
                       \/ /\ OpInv(op'[p], rank, fsm.allocs, Played, Lasting)
                          /\ op[p].pc \in Replacing /\ op'[p].svc = op[p].svc
                          /\ Mine(op'[p]) \subseteq Mine(op[p])
    BY <1>3, <1>8, <1>10, <1>12, <1>14
  <2>. QED
    BY <1>2, <1>6, <1>13, <2>1, <2>2, BaseStep, Zenon
<1>17. Doomed' \subseteq Doomed \cup Ids(r.stops)
  BY <1>1, <1>7, <1>15, DoomedStep, Zenon
<1>18. Ids(op[o].stops) \subseteq Doomed
  BY <1>2, Zenon DEF OpInv, Doomed
<1>19. ASSUME NEW s \in Lasting
       PROVE  \E m \in AllocIds : Survives(m, s, rank, op', Serving(s)', Doomed', running')
  <2>1. PICK m \in AllocIds : Survives(m, s, rank, op, Serving(s), Doomed, running)
    BY <1>2, Zenon DEF SurvivorInv
  <2>2. m \in Serving(s) /\ m \notin Doomed /\ fsm.allocs[m].name = s
    BY <1>2, <2>1, LastingNames, Zenon DEF Survives
  <2>3. m # c /\ m \notin Mine(op[o])
    BY <1>3, <1>11, <2>1, Zenon DEF Survives
  <2>4. m \in Serving(s)'
    BY <1>6, <1>13, <2>2, <2>3, Zenon DEF Serving, Live, ServiceAllocs, AllocsIn
  <2>5. ASSUME NEW p \in Ops, op'[p].pc \in Starting, op'[p].svc = s
        PROVE  /\ p # o /\ op'[p] = op[p] /\ op[p].pc \in Starting /\ op[p].svc = s
               /\ op[p].cur[1] \in AllocIds /\ fsm.allocs[op[p].cur[1]].name = s
    <3>1. p # o /\ op'[p] = op[p]
      BY <1>10, <1>14, <2>5, Zenon
    <3>. QED
      BY <1>2, <2>5, <3>1, LastingNames, Zenon
  <2>6. \A p \in Ops : op'[p].pc \in Replacing => m \notin Mine(op'[p])
    BY <1>10, <1>14, <2>1, <2>3, Zenon DEF Survives
  \* m goes on if neither it nor a later container is among what is stopped.
  <2>7. ASSUME m \notin Ids(r.stops) \/ r.stops = op[o].stops,
               \A p \in Ops : (op[p].pc \in Starting /\ op[p].svc = s /\ rank[m] < rank[op[p].cur[1]])
                  => op[p].cur[1] \notin Ids(r.stops) \/ r.stops = op[o].stops
        PROVE  Survives(m, s, rank, op', Serving(s)', Doomed', running')
    <3>1. m \notin Doomed'
      BY <1>17, <1>18, <2>2, <2>7, Zenon
    <3>2. ASSUME NEW p \in Ops, op'[p].pc \in Starting, op'[p].svc = s,
                 rank[m] < rank[op'[p].cur[1]]
          PROVE  Safe(op'[p], Doomed', running')
      <4>1. op'[p] = op[p] /\ Safe(op[p], Doomed, running)
        BY <2>1, <2>5, <3>2, Zenon DEF Survives
      <4>2. op[p].cur[1] \notin Doomed'
        BY <1>17, <1>18, <2>5, <2>7, <3>2, <4>1, SMTT(30) DEF Safe
      <4>. QED
        BY <1>6, <4>1, <4>2, Zenon DEF Safe
    <3>. QED
      BY <2>4, <2>6, <3>1, <3>2, Zenon DEF Survives
  <2>8. CASE r.pc = "schedule"
    BY <1>8, <2>7, <2>8, Zenon
  <2>9. CASE r.pc = "stop" /\ op[o].svc # s
    <3>1. \A a \in Ids(r.stops) : fsm.allocs[a].name # s
      BY <1>8, <1>11, <2>9, Zenon DEF Named
    <3>2. m \notin Ids(r.stops)
      BY <2>2, <3>1, Zenon
    <3>3. \A p \in Ops : op[p].pc \in Starting /\ op[p].svc = s => op[p].cur[1] \notin Ids(r.stops)
      BY <1>2, <3>1, LastingNames, Zenon
    <3>. QED
      BY <2>7, <3>2, <3>3, Zenon
  <2>10. CASE r.pc = "stop" /\ op[o].svc = s
    <3>1. \A a \in Ids(r.stops) : a \in AllocIds /\ rank[a] < rank[c]
      BY <1>2, <1>3, <1>5, <1>8, <1>11, <2>10, Zenon DEF OpInv, Named
    <3>2. CASE rank[c] <= rank[m]
      <4>1. m \notin Ids(r.stops)
        BY <3>1, <3>2
      <4>2. \A p \in Ops : (op[p].pc \in Starting /\ op[p].svc = s /\ rank[m] < rank[op[p].cur[1]])
              => op[p].cur[1] \notin Ids(r.stops)
        BY <3>1, <3>2
      <4>. QED
        BY <2>7, <4>1, <4>2, Zenon
    <3>3. CASE rank[m] < rank[c]
      <4>1. c \notin Doomed /\ running[c] # None
        BY <1>3, <1>5, <2>1, <2>10, <3>3, ZenonT(30) DEF Survives, Safe
      <4>2. c \notin Doomed'
        BY <1>17, <3>1, <4>1
      <4>3. c \in Serving(s)'
        BY <1>6, <1>11, <1>13, <2>10, <4>1, ZenonT(30) DEF Serving, Live, ServiceAllocs, AllocsIn, Named
      <4>4. ASSUME NEW p \in Ops, op'[p].pc \in Replacing
            PROVE  c \notin Mine(op'[p])
        <5>1. p # o /\ op'[p] = op[p]
          BY <1>14, <2>10, <4>4, Zenon DEF Replacing
        <5>. QED
          BY <1>2, <1>3, <1>11, <2>10, <4>4, <5>1, ZenonT(30) DEF BaseInv
      <4>5. ASSUME NEW p \in Ops, op'[p].pc \in Starting, op'[p].svc = s,
                   rank[c] < rank[op'[p].cur[1]]
            PROVE  Safe(op'[p], Doomed', running')
        <5>1. op'[p] = op[p] /\ op[p].pc \in Starting /\ op[p].svc = s /\ op[p].cur[1] \in AllocIds
          BY <2>5, <4>5, Zenon
        <5>2. rank[m] < rank[op[p].cur[1]]
          BY <3>3, <4>5, <5>1
        <5>3. Safe(op[p], Doomed, running)
          BY <2>1, <5>1, <5>2, Zenon DEF Survives
        <5>4. op[p].cur[1] \notin Ids(r.stops)
          BY <3>1, <4>5, <5>1
        <5>. QED
          BY <1>6, <1>17, <5>1, <5>3, <5>4, ZenonT(30) DEF Safe
      <4>. QED
        BY <4>2, <4>3, <4>4, <4>5, Zenon DEF Survives
    <3>. QED
      BY <3>2, <3>3
  <2>. QED
    BY <1>8, <2>8, <2>9, <2>10, Zenon
<1>20. SurvivorInv(rank)'
  BY <1>15, <1>19, Zenon DEF SurvivorInv
<1>. QED
  BY <1>16, <1>20, Zenon DEF Ranked

\* A replica is scheduled: it gets the highest rank.  Its id is new, or one that
\* was given to its service before, which some config lacks.
LEMMA ScheduleKeeps ==
  ASSUME TypeInv, NEW rank \in [AllocIds -> Nat], NEW n \in Nat, Ranked(rank, n), NEW o \in Ops,
         Schedule(o)
  PROVE  \E a \in AllocIds : Ranked([rank EXCEPT ![a] = n + 1], n + 1)'
<1>1. fsm \in FsmState /\ op \in [Ops -> Op] /\ op[o] \in Op
  BY Zenon DEF TypeInv, DeployTypeOK
<1>2. BaseInv(rank, n) /\ SurvivorInv(rank) /\ OpInv(op[o], rank, fsm.allocs, Played, Lasting)
  BY Zenon DEF Ranked, BaseInv
<1>3. PICK a \in AllocIds, i \in RaftIds :
         /\ op[o].pc = "schedule" /\ op[o].svc \in Names
         /\ fsm.nodes[i] # None
         /\ op' = [op EXCEPT ![o] = [op[o] EXCEPT !.pc = "run", !.cur = <<a, NameOf[i]>>]]
         /\ fsm' = AllocScheduled(fsm, a, i, op[o].svc, "Service")
         /\ IF op[o].svc \in op[o].added THEN a \in Started(op[o].svc) ELSE a \in Unused
         /\ UNCHANGED <<running, queue, cloud, fails, drops, overlap, scenario>>
  BY ScheduleStep, Zenon
<1>4. PICK svc \in Names : svc = op[o].svc
  BY <1>3, Zenon
<1>5. PICK r : r = [op[o] EXCEPT !.pc = "run", !.cur = <<a, NameOf[i]>>]
  BY Zenon
<1>6. /\ r.pc = "run" /\ r.cur[1] = a /\ r.old = op[o].old /\ r.removed = op[o].removed
      /\ r.added = op[o].added /\ r.stops = op[o].stops /\ r.moves = op[o].moves
      /\ r.prior = op[o].prior /\ r.news = op[o].news /\ r.svc = svc
  BY <1>1, <1>4, <1>5, ZenonT(30) DEF Op
<1>7. /\ fsm'.config = fsm.config /\ fsm'.allocs[a] # None /\ fsm'.allocs[a].name = svc
      /\ \A b \in AllocIds : b # a => fsm'.allocs[b] = fsm.allocs[b]
  BY <1>1, <1>3, <1>4, ScheduledAlloc
\* The id is unknown, or the one of an allocation of a service that does not last.
<1>8. fsm.allocs[a] # None => fsm.allocs[a].name = svc /\ svc \notin Lasting
  <2>1. CASE svc \in op[o].added
    <3>1. svc \notin Lasting /\ a \in Started(svc)
      BY <1>2, <1>3, <1>4, <2>1, Zenon DEF OpInv
    <3>. QED
      BY <1>2, <3>1, Zenon DEF BaseInv, AllocsIn
  <2>2. CASE svc \notin op[o].added
    BY <1>3, <1>4, <2>2, Zenon DEF Unused
  <2>. QED
    BY <2>1, <2>2, Zenon
<1>9. \A u \in Names : a \in Started(u) => u = svc
  <2>1. CASE svc \in op[o].added
    <3>1. \A s, t \in Names : Range(FixedId[s]) \cap Range(FixedId[t]) # {} => s = t
      BY Constants, Zenon
    <3>. QED
      BY <1>3, <1>4, <2>1, <3>1, Zenon DEF Started
  <2>2. CASE svc \notin op[o].added
    BY <1>3, <1>4, <2>2, Zenon DEF Unused
  <2>. QED
    BY <2>1, <2>2, Zenon
<1>10. PICK rank2 \in [AllocIds -> Nat] : rank2 = [rank EXCEPT ![a] = n + 1]
  <2>1. [rank EXCEPT ![a] = n + 1] \in [AllocIds -> Nat]
    OBVIOUS
  <2>. QED
    BY <2>1, Zenon
<1>11. rank2[a] = n + 1 /\ \A b \in AllocIds : b # a => rank2[b] = rank[b]
  BY <1>10, Zenon
<1>12. /\ \A p \in Ops : op'[p] = IF p = o THEN r ELSE op[p]
       /\ op' = [op EXCEPT ![o] = r]
  BY <1>1, <1>3, <1>5, Zenon
<1>13. Played' = Played /\ Lasting' = Lasting /\ Stopping' = Stopping
       /\ AllocsIn(fsm)' = AllocsIn(fsm) \cup {a}
  BY <1>3, <1>7, Zenon DEF Played, Lasting, Stopping, AllocsIn
<1>14. ASSUME NEW q, OpInv(q, rank, fsm.allocs, Played, Lasting)
       PROVE  OpInv(q, rank2, fsm'.allocs, Played, Lasting)
  <2>1. \A b \in AllocIds : fsm.allocs[b] # None =>
             /\ fsm'.allocs[b] # None /\ fsm'.allocs[b].name = fsm.allocs[b].name
             /\ fsm.allocs[b].name \in Lasting => rank2[b] = rank[b]
    BY <1>7, <1>8, <1>11, Zenon
  <2>. QED
    BY <1>14, <2>1, OpInvKept, ZenonT(30)
<1>15. Mine(r) = Mine(op[o]) \cup {a} /\ r.pc \in Replacing /\ op[o].pc \in Replacing
       /\ r.pc # "propose"
  BY <1>3, <1>6, ZenonT(30) DEF Mine, Starting, Replacing
<1>16. OpInv(r, rank2, fsm'.allocs, Played, Lasting)
  <2>1. OpInv(op[o], rank2, fsm'.allocs, Played, Lasting)
    BY <1>2, <1>14, Zenon
  <2>2. \A b \in Ids(r.prior) \cup Mine(r) : Named(fsm'.allocs, b, svc)
    BY <1>4, <1>6, <1>7, <1>15, <2>1, ZenonT(30) DEF OpInv, Named
  <2>3. ASSUME svc \in Lasting, NEW b \in Ids(r.prior)
        PROVE  rank2[b] < rank2[a]
    <3>1. b \in AllocIds /\ fsm.allocs[b] # None /\ fsm.allocs[a] = None
      BY <1>2, <1>6, <1>8, <1>15, <2>3, SMTT(30) DEF OpInv, Named
    <3>2. b # a /\ rank[b] <= n /\ rank[b] \in Nat
      BY <1>2, <3>1, Zenon DEF BaseInv, AllocsIn
    <3>. QED
      BY <1>11, <3>1, <3>2, SMTT(30)
  <2>. QED
    BY <1>6, <1>15, <2>1, <2>2, <2>3, SMTT(30) DEF OpInv
\* The id is none of another update of a lasting service.
<1>17. ASSUME NEW p \in Ops, p # o, op[p].pc \in Replacing, svc \in Lasting \/ op[p].svc \in Lasting
       PROVE  a \notin Mine(op[p])
  <2>1. \A b \in Mine(op[p]) : fsm.allocs[b] # None /\ fsm.allocs[b].name = op[p].svc
    BY <1>2, <1>17, Zenon DEF BaseInv, OpInv, Named
  <2>. QED
    BY <1>8, <1>17, <2>1, Zenon
<1>18. BaseInv(rank2, n + 1)'
  <2>1. fsm'.config \in Played /\ Stopping' \subseteq AllocsIn(fsm)'
    BY <1>2, <1>7, <1>13, Zenon DEF BaseInv
  <2>2. ASSUME NEW b \in AllocsIn(fsm)'
        PROVE  /\ rank2[b] <= n + 1
               /\ \A u \in Names : b \in Started(u) => fsm'.allocs[b].name = u
    <3>1. CASE b = a
      BY <1>7, <1>9, <1>11, <3>1, SMTT(30)
    <3>2. CASE b # a
      <4>1. b \in AllocsIn(fsm) /\ b \in AllocIds
        BY <1>13, <3>2, Zenon DEF AllocsIn
      <4>2. rank[b] <= n /\ rank[b] \in Nat
            /\ \A u \in Names : b \in Started(u) => fsm.allocs[b].name = u
        BY <1>2, <4>1, Zenon DEF BaseInv
      <4>. QED
        BY <1>7, <1>11, <3>2, <4>1, <4>2, SMTT(30)
    <3>. QED
      BY <3>1, <3>2, Zenon
  <2>3. \A p \in Ops : OpInv(op'[p], rank2, fsm'.allocs, Played, Lasting)
    BY <1>2, <1>12, <1>14, <1>16, Zenon DEF BaseInv
  <2>4. ASSUME NEW p \in Ops, NEW q \in Ops, p # q, op'[p].pc \in Replacing, op'[q].pc \in Replacing,
               op'[p].svc \in Lasting
        PROVE  Mine(op'[p]) \cap Mine(op'[q]) = {}
    <3>1. CASE p # o /\ q # o
      BY <1>2, <1>12, <2>4, <3>1, Zenon DEF BaseInv
    <3>2. CASE p = o
      <4>1. svc \in Lasting /\ op[q].pc \in Replacing /\ op'[q] = op[q]
        BY <1>6, <1>12, <2>4, <3>2, ZenonT(30)
      <4>2. Mine(op[o]) \cap Mine(op[q]) = {} /\ a \notin Mine(op[q])
        BY <1>2, <1>4, <1>15, <1>17, <2>4, <3>2, <4>1, SMTT(30) DEF BaseInv
      <4>. QED
        BY <1>12, <1>15, <3>2, <4>1, <4>2, ZenonT(30)
    <3>3. CASE q = o
      <4>1. op[p].pc \in Replacing /\ op'[p] = op[p] /\ op[p].svc \in Lasting
        BY <1>12, <2>4, <3>3, ZenonT(30)
      <4>2. Mine(op[p]) \cap Mine(op[o]) = {} /\ a \notin Mine(op[p])
        BY <1>2, <1>15, <1>17, <2>4, <3>3, <4>1, SMTT(30) DEF BaseInv
      <4>. QED
        BY <1>12, <1>15, <3>3, <4>1, <4>2, SMTT(30)
    <3>. QED
      BY <3>1, <3>2, <3>3, Zenon
  <2>. QED
    BY <1>13, <2>1, <2>2, <2>3, <2>4, Zenon DEF BaseInv, Started
<1>19. Doomed' \subseteq Doomed
  <2>1. Doomed' \subseteq Doomed \cup {} \cup Ids(r.stops)
    BY <1>1, <1>12, <1>13, DoomedStep, Zenon
  <2>2. Ids(r.stops) \subseteq Doomed
    BY <1>2, <1>6, Zenon DEF OpInv, Doomed
  <2>. QED
    BY <2>1, <2>2, Zenon
<1>20. ASSUME NEW s \in Lasting, NEW m \in AllocIds,
              Survives(m, s, rank, op, Serving(s), Doomed, running)
       PROVE  Survives(m, s, rank2, op', Serving(s)', Doomed', running')
  <2>1. m \in Serving(s) /\ fsm.allocs[m] # None /\ fsm.allocs[m].name = s
    BY <1>20, Zenon DEF Survives, Serving, Live, ServiceAllocs, AllocsIn
  <2>2. m # a /\ m \notin Doomed'
    BY <1>8, <1>19, <1>20, <2>1, Zenon DEF Survives
  <2>3. m \in Serving(s)'
    BY <1>3, <1>7, <2>1, <2>2, Zenon DEF Serving, Live, ServiceAllocs, AllocsIn
  <2>4. \A p \in Ops : op'[p].pc \in Replacing => m \notin Mine(op'[p])
    BY <1>12, <1>15, <1>20, <2>2, Zenon DEF Survives
  <2>5. ASSUME NEW p \in Ops, op'[p].pc \in Starting, op'[p].svc = s,
               rank2[m] < rank2[op'[p].cur[1]]
        PROVE  Safe(op'[p], Doomed', running')
    <3>1. CASE p = o
      <4>1. fsm.allocs[a] = None
        BY <1>6, <1>8, <1>12, <2>5, <3>1, Zenon
      <4>2. a \notin Doomed'
        BY <1>2, <1>19, <4>1, DoomedKnown, Zenon DEF AllocsIn
      <4>. QED
        BY <1>6, <1>12, <3>1, <4>2, ZenonT(30) DEF Safe
    <3>2. CASE p # o
      <4>1. op'[p] = op[p]
        BY <1>12, <3>2, ZenonT(30)
      <4>2. PICK c \in AllocIds : c = op[p].cur[1] /\ Named(fsm.allocs, c, s)
        <5>1. /\ op[p].pc \in Replacing /\ op[p].cur[1] \in Mine(op[p])
          BY <1>2, <2>5, <4>1, LastingNames, ZenonT(30)
        <5>. QED
          BY <1>2, <2>5, <4>1, <5>1 DEF BaseInv, OpInv, Named
      <4>3. c # a
        BY <1>8, <4>2, Zenon DEF Named
      <4>4. rank[m] < rank[c]
        BY <1>11, <2>2, <2>5, <4>1, <4>2, <4>3, Zenon
      <4>5. Safe(op[p], Doomed, running)
        BY <1>20, <2>5, <4>1, <4>2, <4>4, ZenonT(30) DEF Survives
      <4>. QED
        BY <1>3, <1>19, <4>1, <4>5, Zenon DEF Safe
    <3>. QED
      BY <3>1, <3>2, Zenon
  <2>. QED
    BY <2>2, <2>3, <2>4, <2>5, Zenon DEF Survives
<1>21. SurvivorInv(rank2)'
  <2>1. \A s \in Lasting : \E m \in AllocIds : Survives(m, s, rank2, op', Serving(s)', Doomed', running')
    BY <1>2, <1>20, Zenon DEF SurvivorInv
  <2>. QED
    BY <1>13, <2>1, Zenon DEF SurvivorInv
<1>22. Ranked(rank2, n + 1)'
  BY <1>18, <1>21, Zenon DEF Ranked
<1>. QED
  BY <1>10, <1>22, Zenon

\* What is there at the start: the replicas of the first config, healthy.
LEMMA InitAllocs ==
  ASSUME DeployInit
  PROVE  /\ fsm.config = First
         /\ \A a \in AllocIds, s \in ServicesIn(First) : a \in FirstReplicas(s) => fsm.allocs[a] # None
         /\ \A a \in AllocIds : fsm.allocs[a] # None =>
              /\ fsm.allocs[a].name \in ServicesIn(First) /\ a \in FirstReplicas(fsm.allocs[a].name)
              /\ fsm.allocs[a].status = "Healthy"
         /\ running = [a \in AllocIds |->
                         IF fsm.allocs[a] = None THEN None ELSE DefOf[First][fsm.allocs[a].name]]
<1>. DEFINE new(a) == [node |-> NameOf[CHOOSE j \in RaftIds : TRUE],
                       name |-> CHOOSE s \in ServicesIn(First) : a \in FirstReplicas(s),
                       kind |-> "Service", status |-> "Healthy", address |-> Address]
            first(a) == \E s \in ServicesIn(First) : a \in FirstReplicas(s)
<1>1. PICK allocs : allocs = [a \in AllocIds |-> IF first(a) THEN new(a) ELSE None]
  BY Zenon
<1>2. fsm.allocs = allocs /\ fsm.config = First
  BY <1>1, Zenon DEF DeployInit, EmptyFsm
<1>3. ASSUME NEW a \in AllocIds, first(a)
      PROVE  /\ new(a) # None /\ new(a).status = "Healthy"
             /\ new(a).name \in ServicesIn(First) /\ a \in FirstReplicas(new(a).name)
  <2>1. PICK t : t = CHOOSE s \in ServicesIn(First) : a \in FirstReplicas(s)
    BY Zenon
  <2>2. t \in ServicesIn(First) /\ a \in FirstReplicas(t)
    BY <1>3, <2>1, Zenon
  <2>3. PICK i \in RaftIds : i = CHOOSE j \in RaftIds : TRUE
    BY Constants, Zenon
  <2>4. First \in Configs /\ NameOf[i] \in NodeIds /\ Address \in Addresses
    BY Constants, Zenon
  <2>5. t \in Names
    BY <2>2, <2>4, Services, Zenon
  <2>6. PICK x : x = [node |-> NameOf[i], name |-> t, kind |-> "Service", status |-> "Healthy",
                      address |-> Address]
    BY Zenon
  <2>7. x \in Alloc /\ x.status = "Healthy" /\ x.name = t
    BY <2>4, <2>5, <2>6, Zenon DEF Alloc, AllocKinds, AllocStatuses
  <2>8. x = new(a) /\ x # None
    BY <2>1, <2>3, <2>6, <2>7, AbsentAssumption, Zenon
  <2>. QED
    BY <2>2, <2>7, <2>8, Zenon
<1>4. \A a \in AllocIds, s \in ServicesIn(First) : a \in FirstReplicas(s) => first(a)
  BY Zenon
<1>5. running = [a \in AllocIds |->
                   IF fsm.allocs[a] = None THEN None ELSE DefOf[First][fsm.allocs[a].name]]
  BY Zenon DEF DeployInit
<1>. HIDE DEF new, first
<1>6. \A a \in AllocIds : allocs[a] = IF first(a) THEN new(a) ELSE None
  BY <1>1, Zenon
<1>. QED
  BY <1>2, <1>3, <1>4, <1>5, <1>6, ZenonT(30)

\* The first replica of each service survives the start.
LEMMA InitRanked ==
  ASSUME DeployInit
  PROVE  Ranked([a \in AllocIds |-> 0], 0)
<1>. DEFINE rank == [a \in AllocIds |-> 0]
<1>1. /\ fsm.config = First
      /\ \A a \in AllocIds, s \in ServicesIn(First) : a \in FirstReplicas(s) => fsm.allocs[a] # None
      /\ \A a \in AllocIds : fsm.allocs[a] # None =>
           /\ fsm.allocs[a].name \in ServicesIn(First) /\ a \in FirstReplicas(fsm.allocs[a].name)
           /\ fsm.allocs[a].status = "Healthy"
      /\ running = [a \in AllocIds |->
                         IF fsm.allocs[a] = None THEN None ELSE DefOf[First][fsm.allocs[a].name]]
  BY InitAllocs, Zenon
<1>2. First \in Configs /\ First \in Played
  BY Constants, Zenon DEF Played
<1>3. \A s \in ServicesIn(First) : /\ s \in Names /\ DefOf[First][s] \in Versions
                                   /\ FixedId[s] \in Seq(AllocIds)
                                   /\ Replicas[DefOf[First][s]] \in Nat
                                   /\ Replicas[DefOf[First][s]] > 0
                                   /\ Replicas[DefOf[First][s]] <= Len(FixedId[s])
  <2>1. /\ \A d \in Versions : Replicas[d] \in Nat /\ Replicas[d] > 0
        /\ \A s \in Names : FixedId[s] \in Seq(AllocIds)
        /\ \A s \in Names, d \in Versions : Replicas[d] <= Len(FixedId[s])
    BY Constants, Zenon
  <2>2. \A s \in ServicesIn(First) : s \in Names /\ DefOf[First][s] \in Versions
    BY <1>2, Services, Zenon
  <2>. QED
    BY <2>1, <2>2, Zenon
<1>4. \A s \in ServicesIn(First) : /\ FirstReplicas(s) \subseteq Started(s)
                                   /\ FixedId[s][1] \in FirstReplicas(s) /\ FixedId[s][1] \in AllocIds
  <2>. SUFFICES ASSUME NEW s \in ServicesIn(First)
                PROVE  /\ FirstReplicas(s) \subseteq Started(s)
                       /\ FixedId[s][1] \in FirstReplicas(s) /\ FixedId[s][1] \in AllocIds
    BY Zenon
  <2>1. PICK k \in Nat : k = Replicas[DefOf[First][s]] /\ k > 0 /\ k <= Len(FixedId[s])
    BY <1>3, Zenon
  <2>2. FixedId[s] \in Seq(AllocIds)
    BY <1>3, Zenon
  <2>3. \A j \in 1 .. k : j \in 1 .. Len(FixedId[s]) /\ j \in DOMAIN FixedId[s]
    BY <2>1, <2>2
  <2>4. 1 \in 1 .. k /\ FixedId[s][1] \in AllocIds
    BY <2>1, <2>2, <2>3
  <2>. QED
    BY <2>1, <2>3, <2>4, Zenon DEF FirstReplicas, Started, Range
<1>5. \A s, t \in Names : Started(s) \cap Started(t) # {} => s = t
  BY Constants, Zenon DEF Started
<1>6. Stopping = {}
  BY DEF DeployInit, Stopping
<1>7. \A o \in Ops : /\ op[o].pc = "idle" /\ op[o].old = None /\ op[o].stops = {} /\ op[o].moves = {}
                     /\ op[o].removed = {} /\ op[o].added = {}
  BY Zenon DEF DeployInit, NewOp
<1>8. \A o \in Ops : op[o].pc \notin Replacing /\ op[o].pc \notin Starting /\ op[o].pc # "propose"
  BY <1>7, Zenon DEF Replacing, Starting
<1>9. \A o \in Ops : Ids(op[o].stops) = {}
  BY <1>7, Zenon DEF Ids
<1>10. \A o \in Ops : OpInv(op[o], rank, fsm.allocs, Played, Lasting)
  <2>. SUFFICES ASSUME NEW o \in Ops
                PROVE  OpInv(op[o], rank, fsm.allocs, Played, Lasting)
    BY Zenon
  <2>. HIDE DEF rank
  <2>. QED
    BY <1>7, <1>8, <1>9, Zenon DEF OpInv
<1>11. \A a \in AllocsIn(fsm) : /\ rank[a] <= 0
                                /\ \A u \in Names : a \in Started(u) => fsm.allocs[a].name = u
  <2>. SUFFICES ASSUME NEW a \in AllocsIn(fsm)
                PROVE  /\ rank[a] <= 0
                       /\ \A u \in Names : a \in Started(u) => fsm.allocs[a].name = u
    BY Zenon
  <2>1. a \in AllocIds /\ fsm.allocs[a] # None
    BY Zenon DEF AllocsIn
  <2>2. fsm.allocs[a].name \in Names /\ a \in Started(fsm.allocs[a].name)
    BY <1>1, <1>3, <1>4, <2>1, ZenonT(30)
  <2>. QED
    BY <1>5, <2>1, <2>2
<1>12. BaseInv(rank, 0)
  <2>. HIDE DEF rank
  <2>. QED
    BY <1>1, <1>2, <1>6, <1>8, <1>10, <1>11, SMTT(30) DEF BaseInv
<1>13. ASSUME NEW s \in Lasting
       PROVE  \E m \in AllocIds : Survives(m, s, rank, op, Serving(s), Doomed, running)
  <2>1. s \in ServicesIn(First)
    BY <1>2, Services, Zenon DEF Lasting
  <2>2. PICK m \in AllocIds : m \in FirstReplicas(s)
    BY <1>4, <2>1, Zenon
  <2>3. fsm.allocs[m] # None /\ fsm.allocs[m].status = "Healthy" /\ m \in Started(s)
        /\ fsm.allocs[m].name \in ServicesIn(First) /\ m \in Started(fsm.allocs[m].name)
    BY <1>1, <1>4, <2>1, <2>2, Zenon
  <2>4. fsm.allocs[m].name = s
    BY <1>3, <1>5, <2>1, <2>3, ZenonT(30)
  <2>5. running[m] # None
    <3>1. None \notin Versions
      BY Constants, Zenon
    <3>. QED
      BY <1>1, <1>3, <2>1, <2>3, <2>4, <3>1, SMTT(30)
  <2>6. m \in Serving(s)
    BY <2>3, <2>4, <2>5, Zenon DEF Serving, Live, ServiceAllocs, AllocsIn
  <2>7. m \notin Doomed
    BY <1>6, <1>9, Zenon DEF Doomed
  <2>. HIDE DEF rank
  <2>. QED
    BY <1>8, <2>6, <2>7, Zenon DEF Survives
<1>. QED
  BY <1>12, <1>13, Zenon DEF Ranked, SurvivorInv

\* Every step keeps a survivor of each lasting service.
LEMMA DownStep ==
  ASSUME TypeInv, DownInv, [DeployNext]_deployVars
  PROVE  DownInv'
<1>1. PICK rank \in [AllocIds -> Nat], n \in Nat : Ranked(rank, n)
  BY Zenon DEF DownInv
<1>2. Ranked(rank, n)' => DownInv'
  BY Zenon DEF DownInv
<1>3. CASE UNCHANGED deployVars
  <2>1. Ranked(rank, n)'
    BY <1>1, <1>3, ZenonT(30) DEF deployVars, Ranked, BaseInv, SurvivorInv, Played, Lasting, Serving, Live,
       Doomed, Stopping, Started
  <2>. QED
    BY <1>2, <2>1, Zenon
<1>4. ASSUME NEW o \in Ops, Schedule(o)
      PROVE  DownInv'
  <2>1. PICK a \in AllocIds : Ranked([rank EXCEPT ![a] = n + 1], n + 1)'
    BY <1>1, <1>4, ScheduleKeeps, Zenon
  <2>2. [rank EXCEPT ![a] = n + 1] \in [AllocIds -> Nat] /\ n + 1 \in Nat
    OBVIOUS
  <2>. QED
    BY <2>1, <2>2, Zenon DEF DownInv
<1>5. ASSUME NEW o \in Ops, OpStep(o)
      PROVE  DownInv'
  BY <1>1, <1>2, <1>4, <1>5, QuietSteps, ReadingSteps, SendingSteps, FailingStep, HealthyStep, ZenonT(30)
     DEF OpStep
<1>. QED
  BY <1>1, <1>2, <1>3, <1>5, BeginKeeps, ExecutingSteps, ZenonT(30) DEF DeployNext, AllDone

\* A service that every config has always has a healthy container, however
\* deploys, restarts, drains and deletions overlap and wherever they fail
\* (rolling_update stops what it read before it started its own replicas,
\* deploy/mod.rs:227-267; drain_node starts the replacement first,
\* nodes.rs:92-121).
THEOREM NoDowntimeHolds == DeploySpec => []NoDowntime
<1>1. DeployInit => TypeInv /\ DownInv
  <2>. SUFFICES ASSUME DeployInit PROVE TypeInv /\ DownInv
    BY Zenon
  <2>1. Ranked([a \in AllocIds |-> 0], 0)
    BY InitRanked, Zenon
  <2>2. [a \in AllocIds |-> 0] \in [AllocIds -> Nat] /\ 0 \in Nat
    BY Zenon
  <2>. QED
    BY <2>1, <2>2, InitTyped, Zenon DEF DownInv
<1>2. TypeInv /\ DownInv /\ [DeployNext]_deployVars => (TypeInv /\ DownInv)'
  BY TypedNext, DownStep, Zenon
<1>3. DownInv => NoDowntime
  BY Zenon DEF DownInv, Ranked, SurvivorInv, Survives, NoDowntime
<1>. QED
  BY <1>1, <1>2, <1>3, PTL DEF DeploySpec

=============================================================================
