------------------------------ MODULE Cluster ------------------------------
(***************************************************************************)
(* Forming a cluster (daemon/mod.rs, the join handlers of                  *)
(* primary/api/handlers.rs, net/src/wireguard, raft/src/lib.rs,            *)
(* raft/src/network/http.rs, raft/src/log_store.rs): `mill init`, `mill    *)
(* join`, `mill leave`, the daemon's restart, who becomes a voter, which   *)
(* tunnel address a daemon has, which peers it knows, and what it still    *)
(* knows after a restart.                                                  *)
(*                                                                         *)
(* A host keeps its WireGuard key for ever, so the host itself stands for  *)
(* the key.  A tunnel address is its offset in the subnet; 0 is none.      *)
(* openraft is external: a leader appends an entry when it reaches a       *)
(* majority of the voters, and every member it reaches holds the entry at  *)
(* once; members that were out of reach catch up later.                    *)
(***************************************************************************)
EXTENDS Integers, Sequences, Sequencing, FiniteSets, FiniteSetsExt

CONSTANTS
    Hosts, First,   \* the machines; the one that ran `mill init`
    None,           \* an absent value
    MaxJoins,       \* bound: how often `mill join` is run
    MaxEvents       \* bound: failures, removals, snapshots, NodeDowns together

ASSUME ClusterAssumption ==
    /\ IsFiniteSet(Hosts) /\ First \in Hosts /\ None \notin Hosts
    /\ MaxJoins \in Nat /\ MaxEvents \in Nat

VARIABLES
    pc,             \* the daemon process of a host
    info,           \* the JoinInfoResponse a joining daemon works with, or None
    identity,       \* node.json, or None
    ip, mesh,       \* the WireGuard interface: own address, address of each peer key
    urls,           \* HttpNetwork.peers: the address of each raft id
    rpc,            \* does the daemon run an RpcServer
    log, snap,      \* the Raft log in memory; the snapshot on disk
    leader, term,
    count,          \* joins and other bounded events so far
    joined,         \* history: hosts whose join returned Ok, not removed since
    admitted,       \* history: the leader that took a joining host as its peer, until
                    \* one of them restarts or the watchdog removes the peer
    overlap,        \* history: two joins worked with the same or with stale answers
    lost,           \* history: a leader was elected without an acknowledged entry
    acked,          \* history: the log of the last leader
    durable         \* history: the longest log a majority of its voters had on disk

wire == <<ip, mesh, urls, rpc>>
raft == <<log, snap, leader, term>>
hist == <<joined, admitted, overlap, lost, acked, durable>>
clusterVars == <<pc, info, identity, wire, raft, count, hist>>

MaxId == MaxJoins + 1
Ids == 1 .. MaxId
Addresses == 0 .. MaxId
Event == count.events < MaxEvents /\ count' = [count EXCEPT !.events = @ + 1]

Joining == {"info", "open", "peered", "learner", "voter", "registered"}
Listening == {"open", "peered", "learner", "voter", "registered", "up", "leaving"}
Serving == {"up", "leaving"}

Peer == [raft : Ids, ip : Addresses, key : Hosts]
\* A generated node id: unique, here the number of the join.
MillIds == 0 .. MaxJoins

-----------------------------------------------------------------------------
(* What a log says.  Every entry has the same fields; `ids` is used by the  *)
(* membership entries, `node` by NodeRegister.                              *)

NoNode == [mill |-> 0, ip |-> 0, key |-> First]
Entry(op, id, ids, node) == [op |-> op, id |-> id, ids |-> ids, node |-> node, term |-> term]

\* The entries of `lg` about id, by kind, that nothing later overrides.
LastEntry(lg, id, ops) ==
    LET at == {k \in DOMAIN lg : lg[k].op \in ops /\ lg[k].id = id}
    IN  IF at = {} THEN None ELSE lg[Max(at)]

\* fsm.nodes, and the node of a raft id (NodeRegister inserts or replaces).
Registered(lg) ==
    {i \in Ids : LET e == LastEntry(lg, i, {"register", "remove"})
                 IN  e # None /\ e.op = "register"}
NodeAt(lg, i) == LastEntry(lg, i, {"register"}).node
Down(lg) == {i \in Registered(lg) : LastEntry(lg, i, {"register", "down"}).op = "down"}
RaftIdFor(lg, mill) == {i \in Registered(lg) : NodeAt(lg, i).mill = mill}

\* The membership: initialize and AddVoterIds add voters, nothing removes one.
Voters(lg) == UNION {lg[k].ids : k \in {k \in DOMAIN lg : lg[k].op = "voters"}}
Members(lg) == Voters(lg) \cup {lg[k].id : k \in {k \in DOMAIN lg : lg[k].op = "learner"}}

Majority(part, all) == 2 * Cardinality(part \cap all) > Cardinality(all)

-----------------------------------------------------------------------------
(* The mesh and the Raft transport over it. *)

NoMesh == [h \in Hosts |-> 0]
NoUrls == [i \in Ids |-> 0]

\* `wg set peer <key> allowed-ips <ip>/32`: an address belongs to one key.
AddPeer(table, key, addr) ==
    [k \in Hosts |-> IF k = key THEN addr ELSE IF table[k] = addr THEN 0 ELSE table[k]]
RemovePeer(table, key) == [table EXCEPT ![key] = 0]

\* The peers a daemon is given at join or finds in node.json; its own key is
\* no peer.
MeshOf(h, peers) ==
    [k \in Hosts |-> IF \E p \in peers : p.key = k /\ k # h
                     THEN (CHOOSE p \in peers : p.key = k).ip ELSE 0]
UrlsOf(peers) ==
    [i \in Ids |-> IF \E p \in peers : p.raft = i
                   THEN (CHOOSE p \in peers : p.raft = i).ip ELSE 0]

\* parse_subnet_first_ip of 10.99.0.0/16.
FirstIp == 1

\* Two daemons exchange packets when each holds the other's key with the
\* address the other has.
Link(a, b) ==
    /\ a # b /\ ip[a] # 0 /\ ip[b] # 0 /\ ip[a] # ip[b]
    /\ mesh[a][b] = ip[b] /\ mesh[b][a] = ip[a]

OwnId(h) == IF info[h] # None THEN info[h].raft ELSE identity[h].raft

\* The daemons that answer a request of `a` to raft id i: the address comes
\* from the peer map, and nothing compares the id.
Answers(a, i) ==
    {b \in Hosts : urls[a][i] # 0 /\ urls[a][i] = ip[b] /\ Link(a, b) /\ pc[b] \in Listening}
Reached(a, ids) == {i \in ids : i = OwnId(a) \/ Answers(a, i) # {}}

-----------------------------------------------------------------------------
(* openraft. *)

\* client_write, add_learner and change_membership of the leader: the entry
\* needs a majority of the voters before and after it.
CanCommit(e) ==
    LET new == Append(log[leader], e)
    IN  /\ leader # None
        /\ Majority(Reached(leader, Voters(log[leader])), Voters(log[leader]))
        /\ Majority(Reached(leader, Voters(new)), Voters(new))

Commit(e) ==
    LET new == Append(log[leader], e)
        got == {leader} \cup UNION {Answers(leader, i) : i \in Members(new)}
    IN  /\ CanCommit(e)
        /\ log' = [h \in Hosts |-> IF h \in got THEN new ELSE log[h]]
        /\ acked' = new
        /\ UNCHANGED <<snap, leader, term>>

\* append_entries or full_snapshot to a member that is behind.
CatchUp(h) ==
    /\ leader # None /\ log[h] # log[leader]
    /\ \E i \in Members(log[leader]) : h \in Answers(leader, i)
    /\ log' = [log EXCEPT ![h] = log[leader]]
    /\ UNCHANGED <<pc, info, identity, wire, snap, leader, term, count, hist>>

LastTerm(lg) == IF lg = <<>> THEN 0 ELSE lg[Len(lg)].term
UpToDate(mine, yours) ==
    \/ LastTerm(mine) > LastTerm(yours)
    \/ LastTerm(mine) = LastTerm(yours) /\ Len(mine) >= Len(yours)

\* The votes candidate h gathers.
Granted(h) ==
    {i \in Voters(log[h]) : \/ i = OwnId(h)
                            \/ \E b \in Answers(h, i) : UpToDate(log[h], log[b])}
CanLead(h) ==
    /\ pc[h] \in Listening
    /\ OwnId(h) \in Voters(log[h])
    /\ Majority(Granted(h), Voters(log[h]))

Elect(h) ==
    /\ leader = None /\ CanLead(h)
    /\ leader' = h /\ term' = term + 1
    /\ acked' = log[h]
    /\ lost' = (lost \/ ~ Begins(acked, log[h]))
    /\ UNCHANGED <<pc, info, identity, wire, log, snap, count, joined, admitted, overlap, durable>>

\* The prefix of lg that a majority of its voters have in their snapshots.
OnDisk(lg, snaps) ==
    LET held(n) == {i \in Voters(SubSeq(lg, 1, n)) :
                       \E b \in Hosts : /\ identity[b] # None /\ identity[b].raft = i
                                        /\ Begins(SubSeq(lg, 1, n), snaps[b])}
    IN  SubSeq(lg, 1, Max({0} \cup {n \in DOMAIN lg :
                                      Majority(held(n), Voters(SubSeq(lg, 1, n)))}))

\* build_snapshot: the policy LogsSinceLast may ask for one after any entry.
Snapshot(h) ==
    /\ pc[h] \in Serving /\ snap[h] # log[h]
    /\ Event
    /\ snap' = [snap EXCEPT ![h] = log[h]]
    /\ LET safe == OnDisk(log[h], snap')
       IN  durable' = IF Len(safe) > Len(durable) THEN safe ELSE durable
    /\ UNCHANGED <<pc, info, identity, wire, log, leader, term, joined, admitted, overlap, lost, acked>>

-----------------------------------------------------------------------------
(* `mill init` has run on First: it is the only voter, is registered and    *)
(* leads.  init starts no RpcServer.                                        *)

ClusterInit ==
    LET self == [raft |-> 1, ip |-> FirstIp, key |-> First]
        start == << [op |-> "voters", id |-> 1, ids |-> {1}, node |-> NoNode, term |-> 1],
                    [op |-> "register", id |-> 1, ids |-> {}, term |-> 1,
                     node |-> [mill |-> 0, ip |-> FirstIp, key |-> First]] >>
    IN  /\ pc = [h \in Hosts |-> IF h = First THEN "up" ELSE "off"]
        /\ info = [h \in Hosts |-> None]
        /\ identity = [h \in Hosts |-> IF h = First THEN [mill |-> 0, raft |-> 1, peers |-> {}]
                                       ELSE None]
        /\ ip = [h \in Hosts |-> IF h = First THEN self.ip ELSE 0]
        /\ mesh = [h \in Hosts |-> NoMesh] /\ urls = [h \in Hosts |-> NoUrls]
        /\ rpc = [h \in Hosts |-> FALSE]
        /\ log = [h \in Hosts |-> IF h = First THEN start ELSE <<>>]
        /\ snap = [h \in Hosts |-> <<>>]
        /\ leader = First /\ term = 1
        /\ count = [joins |-> 0, events |-> 0]
        /\ joined = {First} /\ admitted = [h \in Hosts |-> None]
        /\ overlap = FALSE /\ lost = FALSE /\ acked = start /\ durable = <<>>

-----------------------------------------------------------------------------
(* `mill join`: each call of daemon::join that another process can see is a *)
(* step.                                                                    *)

\* The peers of the answer: every registered node, with its address.
JoinPeers(lg) ==
    {[raft |-> i, ip |-> NodeAt(lg, i).ip, key |-> NodeAt(lg, i).key] : i \in Registered(lg)}

\* Faulty variant: nodes that are Down are not counted.
NextRaftIdOfReady(lg) == Max({0} \cup (Registered(lg) \ Down(lg))) + 1

NextRaftId(lg) == Max({0} \cup Registered(lg)) + 1

\* Faulty variant: the number of nodes plus one.
AllocateTunnelIpByCount(lg) == Cardinality(Registered(lg)) + 1

\* The first address no registered node has.
AllocateTunnelIp(lg) == Min((1 .. MaxId + 1) \ {NodeAt(lg, i).ip : i \in Registered(lg)})

\* GET /v1/join-info of any serving daemon, from its own state; nothing is
\* reserved.
GetJoinInfo(h, s) ==
    /\ pc[h] = "off" /\ pc[s] \in Serving
    /\ count.joins < MaxJoins /\ count' = [count EXCEPT !.joins = @ + 1]
    /\ NextRaftId(log[s]) \in Ids /\ AllocateTunnelIp(log[s]) \in Ids
    /\ info' = [info EXCEPT ![h] = [raft |-> NextRaftId(log[s]), ip |-> AllocateTunnelIp(log[s]),
                                    peers |-> JoinPeers(log[s]), via |-> s, mill |-> count.joins + 1]]
    /\ pc' = [pc EXCEPT ![h] = "info"]
    /\ overlap' = (overlap \/ (\E k \in Hosts : pc[k] \in Joining) \/ log[s] # acked)
    /\ joined' = joined \ {h}
    /\ admitted' = [admitted EXCEPT ![h] = None]
    /\ UNCHANGED <<identity, wire, raft, lost, acked, durable>>


OpenedLog(h) == snap[h]

\* WireGuard::join, the cluster key, node.json with the peers, the peer map,
\* MillRaft::open and the Raft listener: nobody sees the steps in between.
JoinPrepares(h) ==
    /\ pc[h] = "info"
    /\ pc' = [pc EXCEPT ![h] = "open"]
    /\ ip' = [ip EXCEPT ![h] = info[h].ip]
    /\ mesh' = [mesh EXCEPT ![h] = MeshOf(h, info[h].peers)]
    /\ identity' = [identity EXCEPT ![h] = [mill |-> info[h].mill, raft |-> info[h].raft,
                                            peers |-> info[h].peers]]
    /\ urls' = [urls EXCEPT ![h] = UrlsOf(info[h].peers)]
    /\ rpc' = [rpc EXCEPT ![h] = FALSE]
    /\ log' = [log EXCEPT ![h] = OpenedLog(h)]
    /\ UNCHANGED <<info, snap, leader, term, count, hist>>

\* require_leader: another daemon than the leader redirects to the leader's
\* tunnel address.
ReachesLeader(h) == leader # None /\ (info[h].via = leader \/ Link(h, leader))

Req(h) == info[h]
Handled(h) == leader # None /\ Req(h).via = leader

\* post_join, 1 and 2: the leader, and only the leader, learns the new peer.
PostPeers(h) ==
    /\ pc[h] = "open" /\ ReachesLeader(h)
    /\ mesh' = [mesh EXCEPT ![leader] = AddPeer(@, h, Req(h).ip)]
    /\ urls' = [urls EXCEPT ![leader][Req(h).raft] = Req(h).ip]
    /\ pc' = [pc EXCEPT ![h] = "peered"]
    /\ info' = [info EXCEPT ![h].via = leader]
    /\ admitted' = [admitted EXCEPT ![h] = leader]
    /\ UNCHANGED <<identity, ip, rpc, raft, count, joined, overlap, lost, acked, durable>>

\* post_join, 3: add_learner.
PostLearner(h) ==
    /\ pc[h] = "peered" /\ Handled(h)
    /\ Commit(Entry("learner", Req(h).raft, {}, NoNode))
    /\ pc' = [pc EXCEPT ![h] = "learner"]
    /\ UNCHANGED <<info, identity, wire, count, joined, admitted, overlap, lost, durable>>

\* add_learner returns once the learner has caught up; post_join, 4:
\* AddVoterIds of the registered nodes and the new one, all of them members.
PostVoter(h) ==
    LET ids == Registered(log[leader]) \cup {Req(h).raft}
    IN  /\ pc[h] = "learner" /\ Handled(h)
        /\ \E b \in Answers(leader, Req(h).raft) : log[b] = log[leader]
        /\ ids \subseteq Members(log[leader])
        /\ Commit(Entry("voters", 0, ids, NoNode))
        /\ pc' = [pc EXCEPT ![h] = "voter"]
        /\ UNCHANGED <<info, identity, wire, count, joined, admitted, overlap, lost, durable>>

\* post_join, 5: NodeRegister.
PostRegister(h) ==
    /\ pc[h] = "voter" /\ Handled(h)
    /\ Commit(Entry("register", Req(h).raft, {}, [mill |-> Req(h).mill, ip |-> Req(h).ip, key |-> h]))
    /\ pc' = [pc EXCEPT ![h] = "registered"]
    /\ joined' = joined \cup {h}
    /\ UNCHANGED <<info, identity, wire, count, admitted, overlap, lost, durable>>

\* The subsystems, the secondary and the primary start; no RpcServer.
JoinReturns(h) ==
    /\ pc[h] = "registered"
    /\ pc' = [pc EXCEPT ![h] = "up"]
    /\ info' = [info EXCEPT ![h] = None]
    /\ UNCHANGED <<identity, wire, raft, count, hist>>

-----------------------------------------------------------------------------
(* Removal, leaving, and the watchdog's NodeDown. *)

\* DELETE /v1/nodes/<mill id>: NodeRemove, and nothing else: the voters and
\* the WireGuard peers stay.
DeleteNode(i) ==
    /\ i \in Registered(log[leader])
    /\ Commit(Entry("remove", i, {}, NoNode))
    /\ joined' = {h \in joined : identity[h].mill # NodeAt(log[leader], i).mill}

\* `mill remove` by an operator.
RemoveNode(i) ==
    /\ leader # None /\ Event
    /\ DeleteNode(i)
    /\ UNCHANGED <<pc, info, identity, wire, admitted, overlap, lost, durable>>

\* `mill leave` on h, through the local API: the leader itself, or a redirect
\* to the leader's tunnel address.  The drain before it is RollingDeploy's.
Leave(h) ==
    /\ leader # None /\ pc[h] = "up" /\ (h = leader \/ Link(h, leader))
    /\ Event
    /\ \E i \in RaftIdFor(log[leader], identity[h].mill) : DeleteNode(i)
    /\ pc' = [pc EXCEPT ![h] = "leaving"]
    /\ UNCHANGED <<info, identity, wire, admitted, overlap, lost, durable>>

\* What a stopped process loses: its log, the requests it was handling, its
\* part in what it admitted.
Forget(h) ==
    /\ log' = [log EXCEPT ![h] = <<>>]
    /\ leader' = IF leader = h THEN None ELSE leader
    /\ info' = [k \in Hosts |->
                   IF k = h THEN None
                   ELSE IF pc[k] \in {"peered", "learner", "voter"} /\ info[k].via = h
                   THEN [info[k] EXCEPT !.via = None] ELSE info[k]]
    /\ admitted' = [k \in Hosts |-> IF k = h \/ admitted[k] = h THEN None ELSE admitted[k]]

\* The interface is deleted, node.json removed, the daemon signalled.
LeaveTearsDown(h) ==
    /\ pc[h] = "leaving"
    /\ pc' = [pc EXCEPT ![h] = "off"]
    /\ ip' = [ip EXCEPT ![h] = 0] /\ mesh' = [mesh EXCEPT ![h] = NoMesh]
    /\ identity' = [identity EXCEPT ![h] = None]
    /\ Forget(h)
    /\ UNCHANGED <<urls, rpc, snap, term, count, joined, overlap, lost, acked, durable>>

\* The process ends; the kernel keeps the interface, the disk keeps node.json.
Exit(h) ==
    /\ pc' = [pc EXCEPT ![h] = "off"]
    /\ Forget(h)
    /\ UNCHANGED <<identity, wire, snap, term, joined, overlap, lost, acked, durable>>

\* A crash or a signal.
Stop(h) == pc[h] \in Serving /\ Event /\ Exit(h)

\* A call of the join failed, was refused or timed out, or a subsystem did not
\* start: daemon::join returns the error and undoes nothing.
JoinFails(h) == pc[h] \in Joining /\ Event /\ Exit(h)

\* start_from_existing: WireGuard::init gives the interface the first address
\* of the subnet; the peers are those node.json was written with.
Boot(h) ==
    /\ pc[h] = "off" /\ identity[h] # None
    /\ pc' = [pc EXCEPT ![h] = "up"]
    /\ ip' = [ip EXCEPT ![h] = FirstIp]
    /\ mesh' = [mesh EXCEPT ![h] = MeshOf(h, identity[h].peers)]
    /\ urls' = [urls EXCEPT ![h] = UrlsOf(identity[h].peers)]
    /\ rpc' = [rpc EXCEPT ![h] = TRUE]
    /\ log' = [log EXCEPT ![h] = OpenedLog(h)]
    /\ UNCHANGED <<info, identity, snap, leader, term, count, hist>>

\* A node whose reports do not reach the leader: its connection watcher dials
\* the registered address, where an RpcServer must run.
Silent(i) ==
    LET n == NodeAt(log[leader], i)
    IN  /\ i # OwnId(leader)
        /\ ~ (rpc[n.key] /\ pc[n.key] \in Serving /\ ip[n.key] = n.ip /\ Link(leader, n.key))

\* check_heartbeats on the leader: NodeDown, then the peer is removed.
WatchdogDown(i) ==
    /\ leader # None /\ i \in Registered(log[leader]) \ Down(log[leader]) /\ Silent(i)
    /\ Event
    /\ Commit(Entry("down", i, {}, NoNode))
    /\ mesh' = [mesh EXCEPT ![leader] = RemovePeer(@, NodeAt(log[leader], i).key)]
    /\ admitted' = [admitted EXCEPT ![NodeAt(log[leader], i).key] = None]
    /\ UNCHANGED <<pc, info, identity, ip, urls, rpc, joined, overlap, lost, durable>>

-----------------------------------------------------------------------------
Join(h) ==
    \/ \E s \in Hosts : GetJoinInfo(h, s)
    \/ JoinPrepares(h)
    \/ PostPeers(h) \/ PostLearner(h) \/ PostVoter(h) \/ PostRegister(h)
    \/ JoinReturns(h) \/ JoinFails(h)

ClusterNext ==
    \/ \E h \in Hosts : \/ Join(h) \/ Leave(h) \/ LeaveTearsDown(h)
                        \/ Stop(h) \/ Boot(h)
                        \/ CatchUp(h) \/ Elect(h) \/ Snapshot(h)
    \/ \E i \in Ids : RemoveNode(i) \/ WatchdogDown(i)

ClusterSpec == ClusterInit /\ [][ClusterNext]_clusterVars

-----------------------------------------------------------------------------
(* Properties. *)

\* The values the variables hold; None is none of them.
Nodes == [mill : MillIds, ip : Addresses, key : Hosts]
Entries == [op : {"voters", "learner", "register", "remove", "down"}, id : 0 .. MaxId,
            ids : SUBSET Ids, node : Nodes, term : Nat]
Infos == [raft : Ids, ip : Ids, peers : SUBSET Peer, via : Hosts \cup {None}, mill : MillIds]
Identities == [mill : MillIds, raft : Ids, peers : SUBSET Peer]

ASSUME NoneAssumption == None \notin Entries \cup Infos \cup Identities

\* Every variable holds a value of its type; a daemon has a join in hand
\* exactly while it joins, and a listening one has its identity on disk.
ClusterTypeOK ==
    /\ pc \in [Hosts -> {"off"} \cup Joining \cup Serving]
    /\ info \in [Hosts -> Infos \cup {None}] /\ identity \in [Hosts -> Identities \cup {None}]
    /\ ip \in [Hosts -> Addresses] /\ mesh \in [Hosts -> [Hosts -> Addresses]]
    /\ urls \in [Hosts -> [Ids -> Addresses]] /\ rpc \in [Hosts -> BOOLEAN]
    /\ log \in [Hosts -> Seq(Entries)] /\ snap \in [Hosts -> Seq(Entries)]
    /\ leader \in Hosts \cup {None} /\ term \in Nat
    /\ count \in [joins : 0 .. MaxJoins, events : 0 .. MaxEvents]
    /\ joined \subseteq Hosts /\ admitted \in [Hosts -> Hosts \cup {None}]
    /\ overlap \in BOOLEAN /\ lost \in BOOLEAN
    /\ acked \in Seq(Entries) /\ durable \in Seq(Entries)
    /\ \A h \in Hosts : /\ info[h] # None <=> pc[h] \in Joining
                        /\ pc[h] \in Listening => identity[h] # None
    /\ leader # None => pc[leader] \in Listening

\* Whatever step of a join failed, in whatever order joins, removals and
\* restarts came, on every daemon and in every snapshot: a node the state
\* machine knows is a voter (post_join promotes before it registers).
RegisteredIsVoter ==
    \A h \in Hosts : /\ Registered(log[h]) \subseteq Voters(log[h])
                     /\ Registered(snap[h]) \subseteq Voters(snap[h])

\* A node that joined stays registered under its own node id until it is
\* removed: no later join, and no id used again after a removal, replaces it.
\* Two joins that worked with the same answer, or with a stale one, are the
\* exception (GetJoinInfo reserves nothing), and a log lost by restarts.
JoinedIsRegisteredUnlessOverlap ==
    leader # None /\ ~ overlap /\ ~ lost =>
        \A h \in joined : RaftIdFor(log[leader], identity[h].mill) = {identity[h].raft}

JoinedIsRegistered ==
    leader # None /\ ~ lost =>
        \A h \in joined : RaftIdFor(log[leader], identity[h].mill) = {identity[h].raft}

\* The leader that admitted a node reaches it, and no other daemon under its
\* raft id, until one of them restarts or the watchdog drops the peer: the
\* address handed out was free, and mesh and peer map agree on it.
AdmittedIsReachedUnlessOverlap ==
    ~ overlap =>
        \A h \in joined :
            admitted[h] # None /\ pc[h] \in Listening => Answers(admitted[h], OwnId(h)) = {h}


\* "No data loss: All state is in the Raft log, replicated to a majority."
NothingLost == ~ lost

\* "Every join broadcasts an updated peer list": two daemons that joined and
\* still run have each other as peers.
MeshIsFull ==
    \A a, b \in joined :
        a # b /\ pc[a] = "up" /\ pc[b] = "up" /\ count.events = 0 /\ ~ overlap => Link(a, b)

\* "With 3 voters the cluster tolerates 1 failure (quorum = 2)": when two of
\* three voters never stopped and hold all that was acknowledged, there is a
\* leader or one of them can be elected.
ToleratesOneFailure ==
    LET intact == {h \in joined : pc[h] = "up" /\ log[h] = acked /\ ~ rpc[h]}
    IN  ~ overlap /\ Voters(acked) = 1 .. 3 /\ Cardinality(intact) = 2 =>
            leader # None \/ \E h \in intact : CanLead(h)

\* "A recovered node catches up": a daemon that runs with a registered
\* identity has the tunnel address it is registered with.
KeepsTunnelIp ==
    leader # None /\ ~ overlap =>
        \A h \in joined : pc[h] = "up" /\ identity[h].raft \in Registered(log[leader])
                              => ip[h] = NodeAt(log[leader], identity[h].raft).ip

\* The state machine and openraft agree on the members: what is registered is a
\* voter, and who joined is registered until removed.
MembersAgreeUnlessOverlap == RegisteredIsVoter /\ JoinedIsRegisteredUnlessOverlap

=============================================================================
