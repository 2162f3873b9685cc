---------------------------- MODULE ClusterProofs ----------------------------
(***************************************************************************)
(* What module Cluster promises for any number of hosts, joins and         *)
(* failures: the members of the state machine and of openraft agree, and   *)
(* the leader that admitted a node reaches it, unless two joins overlapped *)
(* or entries were lost. First what an appended entry changes in what a    *)
(* log says, and the types; then ClusterInv, the inductive invariant, in   *)
(* layers: a step keeps each one given those before it.                    *)
(***************************************************************************)
EXTENDS Cluster, WellFoundedInduction, TLAPS

USE ClusterAssumption, NoneAssumption, ZenonT(40)

-----------------------------------------------------------------------------
(* Numbers and sequences. *)

\* A set of natural numbers that is not empty has a least member, and Min is
\* that member (allocate_tunnel_ip takes the first free address).
LEMMA MinOf ==
    ASSUME NEW S \in SUBSET Nat, S # {}
    PROVE  Min(S) \in S /\ \A y \in S : Min(S) =< y
<1>1. PICK m \in S : \A y \in S : <<y, m>> \notin OpToRel(<, Nat)
  BY NatLessThanWellFounded, WFMin
<1>2. ASSUME NEW y \in S PROVE ~ (y < m)
  <2>1. <<y, m>> \in Nat \X Nat /\ <<y, m>>[1] = y /\ <<y, m>>[2] = m
    OBVIOUS
  <2> QED
    BY <1>1, <2>1 DEF OpToRel
<1>3. \A y \in S : m =< y
  BY <1>2, SMTT(30)
<1> QED
  BY <1>3 DEF Min

\* The same of the greatest member of a bounded set: the least of its upper
\* bounds (NextRaftId takes the greatest id, LastEntry the last place).
LEMMA MaxOf ==
    ASSUME NEW n \in Nat, NEW S \in SUBSET (0 .. n), S # {}
    PROVE  Max(S) \in S /\ \A y \in S : Max(S) >= y
<1> DEFINE U == {u \in Nat : \A y \in S : u >= y}
<1>1. n \in U /\ U \subseteq Nat
  BY SMTT(30)
<1>2. PICK m \in U : \A u \in U : m =< u
  BY <1>1, MinOf
<1>3. ASSUME m \notin S PROVE FALSE
  <2>1. m \in Nat /\ \A y \in S : y \in Nat /\ m >= y /\ m # y
    BY <1>3, SMTT(30)
  <2>2. PICK x \in S : TRUE
    OBVIOUS
  <2>3. m - 1 \in U /\ ~ (m =< m - 1)
    BY <2>1, SMTT(30)
  <2> QED
    BY <1>2, <2>3
<1> QED
  BY <1>2, <1>3 DEF Max

\* The bounds are numbers, and 0 is no id.
LEMMA Bounds == /\ MaxId \in Nat /\ MaxId >= 1 /\ 1 \in Ids /\ 0 \notin Ids
                /\ Ids \subseteq Nat /\ Addresses \subseteq Nat /\ Ids \subseteq Addresses
                /\ FirstIp \in Ids /\ 0 \in Addresses /\ 0 \in MillIds
BY SMTT(30) DEF MaxId, Ids, Addresses, FirstIp, MillIds

\* A log is a prefix of itself, the empty log of every log.
LEMMA PrefixSelf ==
    ASSUME NEW s \in Seq(Entries)
    PROVE  Begins(s, s) /\ Begins(<<>>, s)
BY SMTT(30) DEF Begins

\* What a leader appends leaves every prefix of its log a prefix.
LEMMA PrefixAppend ==
    ASSUME NEW s \in Seq(Entries), NEW t \in Seq(Entries), NEW e \in Entries, Begins(s, t)
    PROVE  Begins(s, Append(t, e))
BY SMTT(30) DEF Begins

\* Two logs that are prefixes of one another are the same log (Elect of a
\* leader that has all that was acknowledged).
LEMMA PrefixBoth ==
    ASSUME NEW s \in Seq(Entries), NEW t \in Seq(Entries), Begins(s, t), Begins(t, s)
    PROVE  s = t
BY SMTT(30) DEF Begins

-----------------------------------------------------------------------------
(* What a log says, and how an appended entry changes it. *)

\* Every node id a log mentions was generated by one of the first n joins.
MillsUpTo(lg, n) == \A k \in DOMAIN lg : lg[k].node.mill =< n

\* The places LastEntry looks at.
Places(lg, id, ops) == {k \in DOMAIN lg : lg[k].op \in ops /\ lg[k].id = id}

\* LastEntry takes the last of the places.
LEMMA LastPlace ==
    ASSUME NEW lg \in Seq(Entries), NEW id, NEW ops, Places(lg, id, ops) # {}
    PROVE  /\ Max(Places(lg, id, ops)) \in Places(lg, id, ops)
           /\ \A k \in Places(lg, id, ops) : Max(Places(lg, id, ops)) >= k
           /\ LastEntry(lg, id, ops) = lg[Max(Places(lg, id, ops))]
<1> DEFINE S == Places(lg, id, ops)
<1>1. DOMAIN lg = 1 .. Len(lg) /\ Len(lg) \in Nat
  BY SMTT(30)
<1>2. S \subseteq 1 .. Len(lg)
  BY <1>1 DEF Places
<1>3. S \in SUBSET (0 .. Len(lg))
  BY <1>1, <1>2, SMTT(30)
<1>5. Max(S) \in S /\ \A y \in S : Max(S) >= y
  BY <1>1, <1>3, MaxOf
<1>6. LastEntry(lg, id, ops) = lg[Max(S)]
  BY DEF LastEntry, Places
<1> QED
  BY <1>5, <1>6

\* What LastEntry returns: an entry of that kind about that id, or None.
LEMMA LastIsEntry ==
    ASSUME NEW lg \in Seq(Entries), NEW id, NEW ops
    PROVE  /\ LastEntry(lg, id, ops) = None <=> Places(lg, id, ops) = {}
           /\ LastEntry(lg, id, ops) # None =>
                 /\ LastEntry(lg, id, ops) \in Entries
                 /\ LastEntry(lg, id, ops).op \in ops /\ LastEntry(lg, id, ops).id = id
                 /\ \E k \in DOMAIN lg : LastEntry(lg, id, ops) = lg[k]
<1>1. \A k \in DOMAIN lg : lg[k] \in Entries
  BY SMTT(30)
<1>2. CASE Places(lg, id, ops) = {}
  BY <1>2 DEF LastEntry, Places
<1>3. CASE Places(lg, id, ops) # {}
  <2>1. None \notin Entries
    OBVIOUS
  <2>2. PICK m \in Places(lg, id, ops) : LastEntry(lg, id, ops) = lg[m]
    BY <1>3, LastPlace
  <2> QED
    BY <1>1, <1>3, <2>1, <2>2 DEF Places
<1> QED
  BY <1>2, <1>3

\* An appended entry is the last of its kind about its id and changes nothing
\* else.
LEMMA LastAppend ==
    ASSUME NEW lg \in Seq(Entries), NEW e \in Entries, NEW id, NEW ops
    PROVE  LastEntry(Append(lg, e), id, ops) =
               IF e.op \in ops /\ e.id = id THEN e ELSE LastEntry(lg, id, ops)
<1> DEFINE new == Append(lg, e)
           n == Len(lg)
<1>1. /\ n \in Nat /\ new \in Seq(Entries) /\ DOMAIN lg = 1 .. n /\ DOMAIN new = 1 .. n + 1
      /\ new[n + 1] = e /\ \A k \in 1 .. n : new[k] = lg[k]
  BY SMTT(30)
<1>2. 1 .. n + 1 = (1 .. n) \cup {n + 1} /\ \A k \in 1 .. n : ~ (k >= n + 1)
  BY <1>1, SMTT(30)
<1> HIDE DEF new, n
<1>3. CASE e.op \in ops /\ e.id = id
  <2>1. n + 1 \in Places(new, id, ops)
    BY <1>1, <1>2, <1>3 DEF Places
  <2>2. PICK m \in Places(new, id, ops) :
            LastEntry(new, id, ops) = new[m] /\ \A k \in Places(new, id, ops) : m >= k
    BY <1>1, <2>1, LastPlace
  <2>3. m = n + 1
    BY <1>1, <1>2, <2>1, <2>2 DEF Places
  <2> QED
    BY <1>1, <1>3, <2>2, <2>3 DEF new
<1>4. CASE ~ (e.op \in ops /\ e.id = id)
  <2>1. Places(new, id, ops) = Places(lg, id, ops)
    BY <1>1, <1>2, <1>4 DEF Places
  <2>2. CASE Places(lg, id, ops) = {}
    <3>1. LastEntry(lg, id, ops) = None /\ LastEntry(new, id, ops) = None
      BY <1>1, <2>1, <2>2, LastIsEntry, SMTT(30)
    <3> QED
      BY <1>4, <3>1 DEF new
  <2>3. CASE Places(lg, id, ops) # {}
    <3> DEFINE m == Max(Places(lg, id, ops))
    <3>1. m \in Places(lg, id, ops) /\ LastEntry(lg, id, ops) = lg[m]
      BY <2>3, LastPlace
    <3>2. LastEntry(new, id, ops) = new[Max(Places(new, id, ops))]
      BY <1>1, <2>1, <2>3, LastPlace
    <3>3. m \in 1 .. n
      BY <1>1, <3>1 DEF Places
    <3> QED
      BY <1>1, <1>4, <2>1, <3>1, <3>2, <3>3 DEF new
  <2> QED
    BY <2>2, <2>3
<1> QED
  BY <1>3, <1>4

\* The nodes, the voters and the learners after an entry: NodeRegister adds a
\* node, NodeRemove removes one, AddVoterIds adds voters, NodeDown none of it.
LEMMA RegisteredAppend ==
    ASSUME NEW lg \in Seq(Entries), NEW e \in Entries
    PROVE  Registered(Append(lg, e)) =
               IF e.op = "register" THEN Registered(lg) \cup (Ids \cap {e.id})
               ELSE IF e.op = "remove" THEN Registered(lg) \ {e.id}
               ELSE Registered(lg)
<1> DEFINE L(l, i) == LastEntry(l, i, {"register", "remove"})
<1>1. \A i \in Ids : L(Append(lg, e), i) =
          IF e.op \in {"register", "remove"} /\ e.id = i THEN e ELSE L(lg, i)
  BY LastAppend, SMTT(30)
<1>2. None # e
  OBVIOUS
<1>3. \A l : Registered(l) = {i \in Ids : L(l, i) # None /\ L(l, i).op = "register"}
  BY DEF Registered
<1> HIDE DEF L
<1>4. CASE e.op = "register"
  BY <1>1, <1>2, <1>3, <1>4, SMTT(30)
<1>5. CASE e.op = "remove"
  BY <1>1, <1>2, <1>3, <1>5, SMTT(30)
<1>6. CASE e.op \notin {"register", "remove"}
  BY <1>1, <1>3, <1>6
<1> QED
  BY <1>4, <1>5, <1>6

\* What NodeRegister wrote of an id is what NodeAt reads from then on.
LEMMA NodeAppend ==
    ASSUME NEW lg \in Seq(Entries), NEW e \in Entries, NEW i
    PROVE  NodeAt(Append(lg, e), i) =
               IF e.op = "register" /\ e.id = i THEN e.node ELSE NodeAt(lg, i)
<1>1. LastEntry(Append(lg, e), i, {"register"}) =
          IF e.op \in {"register"} /\ e.id = i THEN e ELSE LastEntry(lg, i, {"register"})
  BY LastAppend, SMTT(30)
<1> QED
  BY <1>1 DEF NodeAt

\* AddVoterIds adds voters, and no entry takes one away.
LEMMA VotersAppend ==
    ASSUME NEW lg \in Seq(Entries), NEW e \in Entries
    PROVE  Voters(Append(lg, e)) =
               IF e.op = "voters" THEN Voters(lg) \cup e.ids ELSE Voters(lg)
<1> DEFINE new == Append(lg, e)
           n == Len(lg)
           K(l) == {k \in DOMAIN l : l[k].op = "voters"}
<1>1. /\ n \in Nat /\ DOMAIN lg = 1 .. n /\ DOMAIN new = 1 .. n + 1
      /\ new[n + 1] = e /\ \A k \in 1 .. n : new[k] = lg[k]
  BY SMTT(30)
<1>2. 1 .. n + 1 = (1 .. n) \cup {n + 1}
  BY <1>1, SMTT(30)
<1>3. \A l, x : x \in Voters(l) <=> \E k \in DOMAIN l : l[k].op = "voters" /\ x \in l[k].ids
  BY DEF Voters
<1> HIDE DEF new, n
<1>4. \A x : x \in Voters(new) <=> x \in Voters(lg) \/ (e.op = "voters" /\ x \in e.ids)
  BY <1>1, <1>2, <1>3, SMTT(30)
<1> QED
  BY <1>4 DEF new

\* A registered node has an entry that says its node id, address and key.
LEMMA NodeTyped ==
    ASSUME NEW lg \in Seq(Entries), NEW i \in Registered(lg)
    PROVE  /\ i \in Ids /\ NodeAt(lg, i) \in Nodes
           /\ \E k \in DOMAIN lg : NodeAt(lg, i) = lg[k].node
<1>1. /\ i \in Ids /\ LastEntry(lg, i, {"register", "remove"}) # None
      /\ LastEntry(lg, i, {"register", "remove"}).op = "register"
  BY DEF Registered
<1>2. PICK k \in DOMAIN lg : lg[k].op = "register" /\ lg[k].id = i
  BY <1>1, LastIsEntry, SMTT(30)
<1>3. k \in Places(lg, i, {"register"})
  BY <1>2 DEF Places
<1>4. LastEntry(lg, i, {"register"}) # None
  BY <1>3, LastIsEntry
<1>5. /\ LastEntry(lg, i, {"register"}) \in Entries
      /\ \E j \in DOMAIN lg : LastEntry(lg, i, {"register"}) = lg[j]
  BY <1>4, LastIsEntry, SMTT(30)
<1>6. \A e \in Entries : e.node \in Nodes
  BY SMTT(30) DEF Entries
<1> QED
  BY <1>1, <1>5, <1>6 DEF NodeAt

\* A log is empty after a restart without snapshot: no node, no voter.
LEMMA EmptyLog == Registered(<<>>) = {} /\ \A n : MillsUpTo(<<>>, n)
<1>1. <<>> \in Seq(Entries) /\ DOMAIN <<>> = {}
  BY SMTT(30)
<1>2. \A id, ops : Places(<<>>, id, ops) = {}
  BY <1>1 DEF Places
<1>3. \A id, ops : LastEntry(<<>>, id, ops) = None
  BY <1>1, <1>2, LastIsEntry
<1> QED
  BY <1>1, <1>3 DEF Registered, MillsUpTo

-----------------------------------------------------------------------------
(* The types. *)

\* The processes: a part of ClusterTypeOK, as the next three are.
ProcessOK ==
    /\ pc \in [Hosts -> {"off"} \cup Joining \cup Serving]
    /\ info \in [Hosts -> Infos \cup {None}] /\ identity \in [Hosts -> Identities \cup {None}]
    /\ \A h \in Hosts : /\ info[h] # None <=> pc[h] \in Joining
                        /\ pc[h] \in Listening => identity[h] # None

\* Addresses, meshes, the URLs of peers and the listening RPC servers.
WireOK ==
    /\ ip \in [Hosts -> Addresses] /\ mesh \in [Hosts -> [Hosts -> Addresses]]
    /\ urls \in [Hosts -> [Ids -> Addresses]] /\ rpc \in [Hosts -> BOOLEAN]

\* Logs, snapshots and the leader, which listens.
RaftOK ==
    /\ log \in [Hosts -> Seq(Entries)] /\ snap \in [Hosts -> Seq(Entries)]
    /\ leader \in Hosts \cup {None} /\ term \in Nat
    /\ acked \in Seq(Entries) /\ durable \in Seq(Entries)
    /\ leader # None => pc[leader] \in Listening

\* The counts of joins and events, and what is recorded of the past.
HistoryOK ==
    /\ count \in [joins : 0 .. MaxJoins, events : 0 .. MaxEvents]
    /\ joined \subseteq Hosts /\ admitted \in [Hosts -> Hosts \cup {None}]
    /\ overlap \in BOOLEAN /\ lost \in BOOLEAN

\* The four parts are all of ClusterTypeOK.
LEMMA TypeParts == ClusterTypeOK <=> ProcessOK /\ WireOK /\ RaftOK /\ HistoryOK
BY DEF ClusterTypeOK, ProcessOK, WireOK, RaftOK, HistoryOK

\* The states of a daemon, told apart.
LEMMA States ==
    /\ "off" \notin Joining /\ "off" \notin Listening /\ "off" \notin Serving
    /\ "info" \in Joining /\ "info" \notin Listening /\ "info" \notin Serving
    /\ "up" \in Serving /\ "up" \notin Joining /\ "leaving" \in Serving /\ "leaving" \notin Joining
    /\ \A s \in {"open", "peered", "learner", "voter", "registered"} :
          s \in Joining /\ s \in Listening /\ s \notin Serving
    /\ \A s \in Serving : s \in Listening /\ s \notin Joining
    /\ \A s \in Joining : s = "info" \/ s \in Listening
BY SMTT(30) DEF Joining, Listening, Serving

\* The fields of what a joining daemon was told, of node.json, of an entry.
LEMMA Fields ==
    /\ \A r \in Infos : /\ r.raft \in Ids /\ r.ip \in Ids /\ r.peers \in SUBSET Peer
                        /\ r.via \in Hosts \cup {None} /\ r.mill \in MillIds
    /\ \A r \in Identities : r.raft \in Ids /\ r.peers \in SUBSET Peer /\ r.mill \in MillIds
    /\ \A r \in Nodes : r.ip \in Addresses /\ r.key \in Hosts /\ r.mill \in MillIds
    /\ \A r \in Peer : r.raft \in Ids /\ r.ip \in Addresses /\ r.key \in Hosts
    /\ None \notin Infos /\ None \notin Identities /\ None \notin Entries /\ None \notin Hosts
    /\ NoNode \in Nodes
<1>1. None \notin Infos /\ None \notin Identities /\ None \notin Entries /\ None \notin Hosts
  OBVIOUS
<1> QED
  BY <1>1, Bounds, SMTT(30) DEF Infos, Identities, Nodes, Peer, NoNode

\* The entries a leader proposes.
LEMMA EntryTyped ==
    ASSUME RaftOK, NEW op \in {"voters", "learner", "register", "remove", "down"},
           NEW id \in Ids \cup {0}, NEW ids \in SUBSET Ids, NEW n \in Nodes
    PROVE  Entry(op, id, ids, n) \in Entries
<1>1. id \in 0 .. MaxId
  BY Bounds, SMTT(30) DEF Ids
<1>2. term \in Nat
  BY DEF RaftOK
<1> QED
  BY <1>1, <1>2, SMTT(30) DEF Entry, Entries

\* A committed entry is the last of the leader's log and of what is
\* acknowledged; another daemon has it too or keeps its log.
LEMMA CommitFacts ==
    ASSUME RaftOK, NEW e \in Entries, Commit(e)
    PROVE  /\ leader \in Hosts /\ leader # None
           /\ log[leader] \in Seq(Entries)
           /\ log' \in [Hosts -> Seq(Entries)]
           /\ log'[leader] = Append(log[leader], e) /\ acked' = log'[leader]
           /\ acked' \in Seq(Entries)
           /\ \A h \in Hosts : log'[h] = log[h] \/ log'[h] = log'[leader]
           /\ snap' = snap /\ leader' = leader /\ term' = term
<1>1. leader \in Hosts /\ leader # None
  BY DEF Commit, CanCommit, RaftOK
<1>2. log \in [Hosts -> Seq(Entries)] /\ log[leader] \in Seq(Entries)
  BY <1>1 DEF RaftOK
<1> DEFINE new == Append(log[leader], e)
           got == {leader} \cup UNION {Answers(leader, i) : i \in Members(new)}
<1>3. new \in Seq(Entries)
  BY <1>2, SMTT(30)
<1>4. /\ log' = [h \in Hosts |-> IF h \in got THEN new ELSE log[h]]
      /\ acked' = new /\ snap' = snap /\ leader' = leader /\ term' = term
  BY DEF Commit
<1>5. leader \in got
  OBVIOUS
<1> HIDE DEF new, got
<1>6. log'[leader] = new /\ \A h \in Hosts : log'[h] = log[h] \/ log'[h] = new
  BY <1>1, <1>4, <1>5
<1>7. log' \in [Hosts -> Seq(Entries)]
  BY <1>2, <1>3, <1>4, SMTT(30)
<1> QED
  BY <1>1, <1>2, <1>3, <1>4, <1>6, <1>7 DEF new

\* The tables a daemon starts with.
LEMMA TablesTyped ==
    ASSUME NEW h, NEW peers \in SUBSET Peer
    PROVE  MeshOf(h, peers) \in [Hosts -> Addresses] /\ UrlsOf(peers) \in [Ids -> Addresses]
<1>1. \A k : (\E p \in peers : p.key = k) => (CHOOSE p \in peers : p.key = k) \in peers
  OBVIOUS
<1>2. \A i : (\E p \in peers : p.raft = i) => (CHOOSE p \in peers : p.raft = i) \in peers
  OBVIOUS
<1>3. \A p \in peers : p.ip \in Addresses
  BY Fields
<1> QED
  BY <1>1, <1>2, <1>3, Bounds DEF MeshOf, UrlsOf

\* The peers of GET /v1/join-info.
LEMMA JoinPeersTyped ==
    ASSUME NEW lg \in Seq(Entries)
    PROVE  JoinPeers(lg) \in SUBSET Peer
<1>1. \A i \in Registered(lg) : i \in Ids /\ NodeAt(lg, i) \in Nodes
  BY NodeTyped
<1>2. \A i \in Registered(lg) : NodeAt(lg, i).ip \in Addresses /\ NodeAt(lg, i).key \in Hosts
  BY <1>1, Fields
<1>3. \A i \in Registered(lg) : [raft |-> i, ip |-> NodeAt(lg, i).ip, key |-> NodeAt(lg, i).key] \in Peer
  BY <1>1, <1>2 DEF Peer
<1> QED
  BY <1>3 DEF JoinPeers

\* An event is one of the bounded ones.
LEMMA EventTyped ==
    ASSUME HistoryOK, Event
    PROVE  /\ count' \in [joins : 0 .. MaxJoins, events : 0 .. MaxEvents]
           /\ count'.joins = count.joins
BY SMTT(30) DEF HistoryOK, Event

\* The prefix a majority has on disk is a log.
LEMMA OnDiskTyped ==
    ASSUME NEW lg \in Seq(Entries), NEW snaps
    PROVE  OnDisk(lg, snaps) \in Seq(Entries)
<1> DEFINE held(n) == {i \in Voters(SubSeq(lg, 1, n)) :
                          \E b \in Hosts : /\ identity[b] # None /\ identity[b].raft = i
                                           /\ Begins(SubSeq(lg, 1, n), snaps[b])}
           S == {0} \cup {n \in DOMAIN lg : Majority(held(n), Voters(SubSeq(lg, 1, n)))}
<1>1. OnDisk(lg, snaps) = SubSeq(lg, 1, Max(S))
  BY DEF OnDisk
<1>2. Len(lg) \in Nat /\ DOMAIN lg = 1 .. Len(lg) /\ {0} \cup DOMAIN lg = 0 .. Len(lg)
  BY SMTT(30)
<1>3. S \subseteq 0 .. Len(lg) /\ S # {}
  BY <1>2
<1> HIDE DEF S
<1>6. Max(S) \in 0 .. Len(lg)
  BY <1>2, <1>3, MaxOf
<1>7. \A m \in 0 .. Len(lg) : SubSeq(lg, 1, m) \in Seq(Entries)
  BY <1>2, SMTT(30)
<1> QED
  BY <1>1, <1>6, <1>7

\* `mill init` leaves values of the types.
LEMMA InitTyped == ClusterInit => ClusterTypeOK
<1> SUFFICES ASSUME ClusterInit PROVE ClusterTypeOK
  BY SMTT(30)
<1> USE Bounds, Fields, States
<1> DEFINE a == [op |-> "voters", id |-> 1, ids |-> {1}, node |-> NoNode, term |-> 1]
           n == [mill |-> 0, ip |-> FirstIp, key |-> First]
           b == [op |-> "register", id |-> 1, ids |-> {}, term |-> 1, node |-> n]
<1>1. n \in Nodes
  BY DEF Nodes
<1>2. a \in Entries /\ b \in Entries
  BY <1>1, SMTT(30) DEF Entries
<1>3. /\ pc = [h \in Hosts |-> IF h = First THEN "up" ELSE "off"]
      /\ info = [h \in Hosts |-> None]
      /\ identity = [h \in Hosts |-> IF h = First THEN [mill |-> 0, raft |-> 1, peers |-> {}] ELSE None]
      /\ ip = [h \in Hosts |-> IF h = First THEN FirstIp ELSE 0]
      /\ mesh = [h \in Hosts |-> NoMesh] /\ urls = [h \in Hosts |-> NoUrls]
      /\ rpc = [h \in Hosts |-> FALSE]
      /\ log = [h \in Hosts |-> IF h = First THEN <<a, b>> ELSE <<>>]
      /\ snap = [h \in Hosts |-> <<>>]
      /\ leader = First /\ term = 1
      /\ count = [joins |-> 0, events |-> 0]
      /\ joined = {First} /\ admitted = [h \in Hosts |-> None]
      /\ overlap = FALSE /\ lost = FALSE /\ acked = <<a, b>> /\ durable = <<>>
  BY SMTT(30) DEF ClusterInit
<1> HIDE DEF a, b, n
<1>4. <<a, b>> \in Seq(Entries) /\ <<>> \in Seq(Entries)
  BY <1>2, SMTT(30)
<1>5. [mill |-> 0, raft |-> 1, peers |-> {}] \in Identities
  BY SMTT(30) DEF Identities
<1>6. ProcessOK
  <2>1. pc \in [Hosts -> {"off"} \cup Joining \cup Serving]
    BY <1>3, SMTT(30)
  <2>2. info \in [Hosts -> Infos \cup {None}] /\ identity \in [Hosts -> Identities \cup {None}]
    BY <1>3, <1>5, SMTT(30)
  <2>3. ASSUME NEW h \in Hosts
        PROVE  /\ (info[h] # None) <=> (pc[h] \in Joining)
               /\ (pc[h] \in Listening) => (identity[h] # None)
    <3>1. CASE h = First
      <4>1. pc[h] = "up" /\ info[h] = None /\ identity[h] = [mill |-> 0, raft |-> 1, peers |-> {}]
        BY <1>3, <3>1
      <4> QED
        BY <1>3, <1>5, <4>1
    <3>2. CASE h # First
      BY <1>3, <3>2, SMTT(30)
    <3> QED
      BY <3>1, <3>2
  <2> QED
    BY <2>1, <2>2, <2>3 DEF ProcessOK
<1>7. WireOK
  BY <1>3, SMTT(30) DEF WireOK, NoMesh, NoUrls
<1>8. RaftOK
  BY <1>3, <1>4, SMTT(30) DEF RaftOK
<1>9. HistoryOK
  <2>1. count \in [joins : 0 .. MaxJoins, events : 0 .. MaxEvents]
    BY <1>3, SMTT(30)
  <2> QED
    BY <1>3, <2>1 DEF HistoryOK
<1> QED
  BY <1>6, <1>7, <1>8, <1>9, TypeParts

\* GET /v1/join-info.
LEMMA GetJoinInfoTyped ==
    ASSUME ProcessOK, WireOK, RaftOK, HistoryOK, NEW h \in Hosts, NEW s \in Hosts, GetJoinInfo(h, s)
    PROVE  (ProcessOK /\ WireOK /\ RaftOK /\ HistoryOK)'
<1>1. log[s] \in Seq(Entries)
  BY DEF RaftOK
<1>2. JoinPeers(log[s]) \in SUBSET Peer
  BY <1>1, JoinPeersTyped
<1>3. count.joins \in 0 .. MaxJoins /\ count.joins < MaxJoins
  BY SMTT(30) DEF HistoryOK, GetJoinInfo
<1>4. count.joins + 1 \in MillIds
  BY <1>3, SMTT(30) DEF MillIds
<1> DEFINE r == [raft |-> NextRaftId(log[s]), ip |-> AllocateTunnelIp(log[s]),
                 peers |-> JoinPeers(log[s]), via |-> s, mill |-> count.joins + 1]
<1>5. NextRaftId(log[s]) \in Ids /\ AllocateTunnelIp(log[s]) \in Ids
  BY DEF GetJoinInfo
<1>6. r \in Infos
  BY <1>2, <1>4, <1>5 DEF Infos
<1>7. info' = [info EXCEPT ![h] = r] /\ pc' = [pc EXCEPT ![h] = "info"] /\ identity' = identity
  BY DEF GetJoinInfo
<1> HIDE DEF r
<1>8. ProcessOK'
  BY <1>6, <1>7, Fields, States, SMTT(30) DEF ProcessOK
<1>9. WireOK'
  BY DEF GetJoinInfo, WireOK, wire
<1>10. RaftOK'
  <2>1. UNCHANGED <<log, snap, leader, term, acked, durable>>
    BY DEF GetJoinInfo, raft
  <2>2. leader # None => pc'[leader] \in Listening
    <3>1. pc[h] = "off"
      BY DEF GetJoinInfo
    <3> QED
      BY <1>7, <3>1, States DEF RaftOK, ProcessOK
  <2> QED
    BY <2>1, <2>2 DEF RaftOK
<1>11. HistoryOK'
  BY <1>3, SMTT(30) DEF GetJoinInfo, HistoryOK
<1> QED
  BY <1>8, <1>9, <1>10, <1>11

\* The interface, node.json and the Raft listener of a joining daemon.
LEMMA JoinPreparesTyped ==
    ASSUME ProcessOK, WireOK, RaftOK, HistoryOK, NEW h \in Hosts, JoinPrepares(h)
    PROVE  (ProcessOK /\ WireOK /\ RaftOK /\ HistoryOK)'
<1>1. pc[h] = "info" /\ info[h] \in Infos
  BY States DEF JoinPrepares, ProcessOK
<1> DEFINE d == [mill |-> info[h].mill, raft |-> info[h].raft, peers |-> info[h].peers]
<1>2. d \in Identities
  BY <1>1, Fields DEF Identities
<1>3. info' = info /\ pc' = [pc EXCEPT ![h] = "open"] /\ identity' = [identity EXCEPT ![h] = d]
  BY DEF JoinPrepares
<1> HIDE DEF d
<1>4. ProcessOK'
  BY <1>1, <1>2, <1>3, Fields, States, SMTT(30) DEF ProcessOK
<1>5. WireOK'
  BY <1>1, Fields, Bounds, TablesTyped DEF JoinPrepares, WireOK
<1>6. RaftOK'
  <2>1. UNCHANGED <<snap, leader, term, acked, durable>> /\ log' = [log EXCEPT ![h] = snap[h]]
    BY DEF JoinPrepares, hist, OpenedLog
  <2>2. leader # None => pc'[leader] \in Listening
    BY <1>3, States DEF RaftOK, ProcessOK
  <2> QED
    BY <2>1, <2>2 DEF RaftOK
<1>7. HistoryOK'
  BY DEF JoinPrepares, HistoryOK, hist
<1> QED
  BY <1>4, <1>5, <1>6, <1>7

\* The leader learns the peer.
LEMMA PostPeersTyped ==
    ASSUME ProcessOK, WireOK, RaftOK, HistoryOK, NEW h \in Hosts, PostPeers(h)
    PROVE  (ProcessOK /\ WireOK /\ RaftOK /\ HistoryOK)'
<1>1. pc[h] = "open" /\ info[h] \in Infos /\ leader \in Hosts
  BY States DEF PostPeers, ReachesLeader, ProcessOK, RaftOK
<1>2. /\ info' = [info EXCEPT ![h].via = leader] /\ pc' = [pc EXCEPT ![h] = "peered"]
      /\ identity' = identity
  BY DEF PostPeers
<1>3. [info[h] EXCEPT !.via = leader] \in Infos
  BY <1>1, SMTT(30) DEF Infos
<1>4. ProcessOK'
  BY <1>1, <1>2, <1>3, Fields, States, SMTT(30) DEF ProcessOK
<1>5. WireOK'
  BY <1>1, Fields, Bounds, SMTT(30) DEF WireOK, AddPeer, PostPeers, Req
<1>6. RaftOK'
  BY <1>2, States DEF PostPeers, raft, RaftOK, ProcessOK
<1>7. HistoryOK'
  BY <1>1 DEF PostPeers, HistoryOK
<1> QED
  BY <1>4, <1>5, <1>6, <1>7

\* A commit leaves the parts typed that it touches.
LEMMA CommitTyped ==
    ASSUME ProcessOK, RaftOK, NEW e \in Entries, Commit(e), durable' = durable,
           leader # None => pc'[leader] \in Listening
    PROVE  RaftOK'
<1>1. /\ log' \in [Hosts -> Seq(Entries)] /\ acked' \in Seq(Entries)
      /\ snap' = snap /\ leader' = leader /\ term' = term
  BY CommitFacts
<1> QED
  BY <1>1 DEF RaftOK

\* A step of a join that only moves its program counter within the join.
LEMMA StepTyped ==
    ASSUME ProcessOK, RaftOK, NEW h \in Hosts, NEW p \in {"learner", "voter", "registered"},
           pc[h] \in Listening, pc[h] \in Joining, pc' = [pc EXCEPT ![h] = p], info' = info, identity' = identity
    PROVE  ProcessOK' /\ (leader # None => pc'[leader] \in Listening)
<1>1. p \in Joining /\ p \in Listening /\ p \notin Serving /\ p \in {"off"} \cup Joining \cup Serving
  BY States
<1>2. pc' \in [Hosts -> {"off"} \cup Joining \cup Serving]
  BY <1>1 DEF ProcessOK
<1>3. \A k \in Hosts : pc'[k] = IF k = h THEN p ELSE pc[k]
  BY DEF ProcessOK
<1> QED
  BY <1>1, <1>2, <1>3 DEF ProcessOK, RaftOK

\* add_learner of the request.
LEMMA PostLearnerTyped ==
    ASSUME ProcessOK, WireOK, RaftOK, HistoryOK, NEW h \in Hosts, PostLearner(h)
    PROVE  (ProcessOK /\ WireOK /\ RaftOK /\ HistoryOK)'
<1>1. pc[h] = "peered" /\ info[h] \in Infos
  BY States DEF PostLearner, ProcessOK
<1>2. Entry("learner", Req(h).raft, {}, NoNode) \in Entries
  BY <1>1, EntryTyped, Fields DEF Req
<1>3. ProcessOK' /\ (leader # None => pc'[leader] \in Listening)
  BY <1>1, States, StepTyped DEF PostLearner
<1>4. RaftOK'
  BY <1>2, <1>3, CommitTyped DEF PostLearner
<1>5. WireOK' /\ HistoryOK'
  BY DEF PostLearner, WireOK, HistoryOK, wire
<1> QED
  BY <1>3, <1>4, <1>5

\* AddVoterIds of the request (change_membership).
LEMMA PostVoterTyped ==
    ASSUME ProcessOK, WireOK, RaftOK, HistoryOK, NEW h \in Hosts, PostVoter(h)
    PROVE  (ProcessOK /\ WireOK /\ RaftOK /\ HistoryOK)'
<1> DEFINE ids == Registered(log[leader]) \cup {Req(h).raft}
<1>1. pc[h] = "learner" /\ info[h] \in Infos
  BY States DEF PostVoter, ProcessOK
<1>2. ids \in SUBSET Ids
  BY <1>1, Fields DEF Req, Registered
<1>3. Commit(Entry("voters", 0, ids, NoNode))
  BY DEF PostVoter
<1> HIDE DEF ids
<1>4. Entry("voters", 0, ids, NoNode) \in Entries
  BY <1>2, EntryTyped, Fields
<1>5. ProcessOK' /\ (leader # None => pc'[leader] \in Listening)
  BY <1>1, States, StepTyped DEF PostVoter
<1>6. RaftOK'
  BY <1>3, <1>4, <1>5, CommitTyped DEF PostVoter
<1>7. WireOK' /\ HistoryOK'
  BY DEF PostVoter, WireOK, HistoryOK, wire
<1> QED
  BY <1>5, <1>6, <1>7

\* NodeRegister of the request, with the address the node was told.
LEMMA PostRegisterTyped ==
    ASSUME ProcessOK, WireOK, RaftOK, HistoryOK, NEW h \in Hosts, PostRegister(h)
    PROVE  (ProcessOK /\ WireOK /\ RaftOK /\ HistoryOK)'
<1> DEFINE n == [mill |-> Req(h).mill, ip |-> Req(h).ip, key |-> h]
<1>1. pc[h] = "voter" /\ info[h] \in Infos
  BY States DEF PostRegister, ProcessOK
<1>2. n \in Nodes
  BY <1>1, Fields, Bounds DEF Req, Nodes
<1>3. Commit(Entry("register", Req(h).raft, {}, n))
  BY DEF PostRegister
<1> HIDE DEF n
<1>4. Entry("register", Req(h).raft, {}, n) \in Entries
  BY <1>1, <1>2, EntryTyped, Fields DEF Req
<1>5. ProcessOK' /\ (leader # None => pc'[leader] \in Listening)
  BY <1>1, States, StepTyped DEF PostRegister
<1>6. RaftOK'
  BY <1>3, <1>4, <1>5, CommitTyped DEF PostRegister
<1>7. WireOK' /\ HistoryOK'
  BY DEF PostRegister, WireOK, HistoryOK, wire
<1> QED
  BY <1>5, <1>6, <1>7

\* The subsystems run.
LEMMA JoinReturnsTyped ==
    ASSUME ProcessOK, WireOK, RaftOK, HistoryOK, NEW h \in Hosts, JoinReturns(h)
    PROVE  (ProcessOK /\ WireOK /\ RaftOK /\ HistoryOK)'
<1>1. /\ pc[h] = "registered" /\ info' = [info EXCEPT ![h] = None] /\ pc' = [pc EXCEPT ![h] = "up"]
      /\ identity' = identity
  BY DEF JoinReturns
<1>2. ProcessOK'
  BY <1>1, Fields, States, SMTT(30) DEF ProcessOK
<1>3. RaftOK'
  BY <1>1, States DEF JoinReturns, raft, hist, RaftOK, ProcessOK
<1>4. WireOK' /\ HistoryOK'
  BY DEF JoinReturns, WireOK, HistoryOK, wire, hist
<1> QED
  BY <1>2, <1>3, <1>4

\* NodeRemove, by an operator and by `mill leave`.
LEMMA DeleteNodeTyped ==
    ASSUME ProcessOK, RaftOK, HistoryOK, NEW i \in Ids, DeleteNode(i), durable' = durable,
           leader # None => pc'[leader] \in Listening
    PROVE  RaftOK' /\ joined' \subseteq Hosts
<1>1. Entry("remove", i, {}, NoNode) \in Entries
  BY EntryTyped, Fields
<1>2. RaftOK'
  BY <1>1, CommitTyped DEF DeleteNode
<1> QED
  BY <1>2 DEF DeleteNode, HistoryOK

\* The API's removal of a node is one NodeRemove.
LEMMA RemoveNodeTyped ==
    ASSUME ProcessOK, WireOK, RaftOK, HistoryOK, NEW i \in Ids, RemoveNode(i)
    PROVE  (ProcessOK /\ WireOK /\ RaftOK /\ HistoryOK)'
<1>1. pc' = pc /\ durable' = durable /\ DeleteNode(i)
  BY DEF RemoveNode
<1>2. leader # None => pc'[leader] \in Listening
  BY <1>1 DEF RaftOK
<1>3. RaftOK' /\ joined' \subseteq Hosts
  BY <1>1, <1>2, DeleteNodeTyped
<1>4. ProcessOK' /\ WireOK'
  BY DEF RemoveNode, ProcessOK, WireOK, wire
<1>5. HistoryOK'
  BY <1>3, EventTyped DEF RemoveNode, HistoryOK
<1> QED
  BY <1>3, <1>4, <1>5

\* leave of a daemon that is up: NodeRemove of its own node.
LEMMA LeaveTyped ==
    ASSUME ProcessOK, WireOK, RaftOK, HistoryOK, NEW h \in Hosts, Leave(h)
    PROVE  (ProcessOK /\ WireOK /\ RaftOK /\ HistoryOK)'
<1>1. /\ pc[h] = "up" /\ pc' = [pc EXCEPT ![h] = "leaving"] /\ UNCHANGED <<info, identity>>
      /\ durable' = durable
  BY DEF Leave
<1>2. PICK i \in RaftIdFor(log[leader], identity[h].mill) : DeleteNode(i)
  BY DEF Leave
<1>3. i \in Ids
  BY <1>2 DEF RaftIdFor, Registered
<1>4. leader # None => pc'[leader] \in Listening
  BY <1>1, States DEF RaftOK, ProcessOK
<1>5. RaftOK' /\ joined' \subseteq Hosts
  BY <1>1, <1>2, <1>3, <1>4, DeleteNodeTyped
<1>6. ProcessOK'
  BY <1>1, States, SMTT(30) DEF ProcessOK
<1>7. WireOK'
  BY DEF Leave, WireOK, wire
<1>8. HistoryOK'
  BY <1>5, EventTyped DEF Leave, HistoryOK
<1> QED
  BY <1>5, <1>6, <1>7, <1>8

\* What the end of a process leaves: the logs and the leader,
LEMMA ForgetLog ==
    ASSUME ProcessOK, RaftOK, HistoryOK, NEW h \in Hosts, Forget(h), pc' = [pc EXCEPT ![h] = "off"]
    PROVE  /\ log' \in [Hosts -> Seq(Entries)] /\ log'[h] = <<>> /\ pc'[h] = "off"
           /\ \A k \in Hosts : k # h => log'[k] = log[k] /\ pc'[k] = pc[k]
           /\ leader' \in Hosts \cup {None} /\ (leader' # None => leader' = leader /\ leader # h)
           /\ leader' = None => leader = None \/ leader = h
<1>1. log' = [log EXCEPT ![h] = <<>>] /\ leader' = IF leader = h THEN None ELSE leader
  BY DEF Forget
<1>2. /\ log' \in [Hosts -> Seq(Entries)] /\ log'[h] = <<>>
      /\ \A k \in Hosts \ {h} : log'[k] = log[k]
  <2>1. <<>> \in Seq(Entries)
    BY SMTT(30)
  <2> QED
    BY <1>1, <2>1 DEF RaftOK
<1>3. pc'[h] = "off" /\ \A k \in Hosts \ {h} : pc'[k] = pc[k]
  BY DEF ProcessOK
<1>4. /\ leader' \in Hosts \cup {None} /\ (leader' # None => leader' = leader /\ leader # h)
      /\ leader' = None => leader = None \/ leader = h
  BY <1>1 DEF RaftOK
<1> QED
  BY <1>2, <1>3, <1>4

\* who was admitted by whom,
LEMMA ForgetAdmitted ==
    ASSUME ProcessOK, RaftOK, HistoryOK, NEW h \in Hosts, Forget(h), pc' = [pc EXCEPT ![h] = "off"]
    PROVE  /\ admitted' \in [Hosts -> Hosts \cup {None}] /\ admitted'[h] = None
           /\ \A k \in Hosts : admitted'[k] # None => admitted'[k] = admitted[k] /\ admitted[k] # h /\ k # h
<1>5. admitted' = [k \in Hosts |-> IF k = h \/ admitted[k] = h THEN None ELSE admitted[k]]
  BY DEF Forget
<1>6. /\ admitted' \in [Hosts -> Hosts \cup {None}] /\ admitted'[h] = None
      /\ \A k \in Hosts : admitted'[k] # None => admitted'[k] = admitted[k] /\ admitted[k] # h /\ k # h
  BY <1>5, SMTT(30) DEF HistoryOK
<1> QED
  BY <1>6

\* and the requests it was handling.
LEMMA ForgetInfo ==
    ASSUME ProcessOK, RaftOK, HistoryOK, NEW h \in Hosts, Forget(h), pc' = [pc EXCEPT ![h] = "off"]
    PROVE  /\ info' \in [Hosts -> Infos \cup {None}] /\ info'[h] = None
           /\ \A k \in Hosts : k # h => (info'[k] # None <=> info[k] # None)
           /\ \A k \in Hosts : k # h =>
                 /\ info'[k].raft = info[k].raft /\ info'[k].ip = info[k].ip
                 /\ info'[k].mill = info[k].mill /\ info'[k].peers = info[k].peers
           /\ \A k \in Hosts : k # h /\ info'[k].via # None => info'[k].via = info[k].via
           /\ \A k \in Hosts : k # h /\ pc[k] \in {"peered", "learner", "voter"} => info'[k].via # h
<1> DEFINE cut(k) == pc[k] \in {"peered", "learner", "voter"} /\ info[k].via = h
<1>7. info' = [k \in Hosts |-> IF k = h THEN None
                                ELSE IF cut(k) THEN [info[k] EXCEPT !.via = None] ELSE info[k]]
  BY DEF Forget
<1> HIDE DEF cut
<1>8. /\ info'[h] = None
      /\ \A k \in Hosts : k # h => info'[k] = IF cut(k) THEN [info[k] EXCEPT !.via = None] ELSE info[k]
  BY <1>7
<1>9. ASSUME NEW k \in Hosts, k # h
      PROVE  /\ info'[k] \in Infos \cup {None}
             /\ info'[k] # None <=> info[k] # None
             /\ info'[k].raft = info[k].raft /\ info'[k].ip = info[k].ip
             /\ info'[k].mill = info[k].mill /\ info'[k].peers = info[k].peers
             /\ info'[k].via # None => info'[k].via = info[k].via
             /\ pc[k] \in {"peered", "learner", "voter"} => info'[k].via # h
  <2>1. CASE cut(k)
    <3>1. pc[k] \in {"peered", "learner", "voter"} /\ info[k].via = h
      BY <2>1 DEF cut
    <3>2. pc[k] \in Joining
      BY <3>1, States
    <3>3. info[k] \in Infos
      BY <3>2 DEF ProcessOK
    <3> DEFINE r == [info[k] EXCEPT !.via = None]
    <3>4. /\ r \in Infos /\ r.via = None /\ r.raft = info[k].raft /\ r.ip = info[k].ip
          /\ r.mill = info[k].mill /\ r.peers = info[k].peers
      BY <3>3 DEF Infos
    <3> HIDE DEF r
    <3>5. info'[k] = r
      BY <1>8, <1>9, <2>1 DEF r
    <3> QED
      BY <3>1, <3>3, <3>4, <3>5, Fields
  <2>2. CASE ~ cut(k)
    BY <1>8, <1>9, <2>2 DEF cut, ProcessOK
  <2> QED
    BY <2>1, <2>2
<1>10. info' \in [Hosts -> Infos \cup {None}]
  BY <1>8, <1>9, <1>7
<1> QED
  BY <1>8, <1>9, <1>10

\* It leaves the answer of get_join_info with every other daemon.
LEMMA ForgetKeeps ==
    ASSUME ProcessOK, RaftOK, HistoryOK, NEW h \in Hosts, Forget(h), pc' = [pc EXCEPT ![h] = "off"],
           NEW k \in Hosts, k # h
    PROVE  /\ info'[k].raft = info[k].raft /\ info'[k].ip = info[k].ip
           /\ info'[k].mill = info[k].mill
<1>1. info'[k].raft = info[k].raft
  BY ForgetInfo
<1>2. info'[k].ip = info[k].ip
  BY ForgetInfo
<1>3. info'[k].mill = info[k].mill
  BY ForgetInfo
<1> QED
  BY <1>1, <1>2, <1>3

\* A request that is still open is at the daemon it was at, and not at the one
\* that ended.
LEMMA ForgetRequest ==
    ASSUME ProcessOK, RaftOK, HistoryOK, NEW h \in Hosts, Forget(h), pc' = [pc EXCEPT ![h] = "off"],
           NEW k \in Hosts, k # h,
           pc[k] \in {"peered", "learner", "voter"}, info'[k].via # None
    PROVE  info[k].via = info'[k].via /\ info[k].via # h
<1>1. info'[k].via = info[k].via
  BY ForgetInfo
<1>2. info'[k].via # h
  BY ForgetInfo
<1> QED
  BY <1>1, <1>2

\* The types after it.
LEMMA ForgetTyped ==
    ASSUME ProcessOK, RaftOK, HistoryOK, NEW h \in Hosts, Forget(h), pc' = [pc EXCEPT ![h] = "off"],
           identity' \in [Hosts -> Identities \cup {None}],
           \A k \in Hosts : k # h => identity'[k] = identity[k],
           UNCHANGED <<snap, term, acked, durable>>
    PROVE  ProcessOK' /\ RaftOK'
<1>1. pc' \in [Hosts -> {"off"} \cup Joining \cup Serving]
  BY DEF ProcessOK
<1>2. \A k \in Hosts : /\ info'[k] # None <=> pc'[k] \in Joining
                       /\ pc'[k] \in Listening => identity'[k] # None
  <2>0. pc'[h] = "off" /\ \A k \in Hosts : k # h => pc'[k] = pc[k]
    BY ForgetLog
  <2>1. info'[h] = None /\ \A k \in Hosts : k # h => (info'[k] # None <=> info[k] # None)
    BY ForgetInfo
  <2>2. \A k \in Hosts : /\ info[k] # None <=> pc[k] \in Joining
                         /\ pc[k] \in Listening => identity[k] # None
    BY DEF ProcessOK
  <2> QED
    BY <2>0, <2>1, <2>2, States
<1>3. info' \in [Hosts -> Infos \cup {None}] /\ log' \in [Hosts -> Seq(Entries)]
  BY ForgetLog, ForgetInfo
<1>4. leader' \in Hosts \cup {None} /\ (leader' # None => pc'[leader'] \in Listening)
  BY ForgetLog DEF RaftOK
<1> QED
  BY <1>1, <1>2, <1>3, <1>4 DEF ProcessOK, RaftOK

\* The end of a process: leaving, a crash or signal, a join that failed.
LEMMA LeaveTearsDownTyped ==
    ASSUME ProcessOK, WireOK, RaftOK, HistoryOK, NEW h \in Hosts, LeaveTearsDown(h)
    PROVE  (ProcessOK /\ WireOK /\ RaftOK /\ HistoryOK)'
<1>1. /\ pc' = [pc EXCEPT ![h] = "off"] /\ Forget(h) /\ identity' = [identity EXCEPT ![h] = None]
      /\ ip' = [ip EXCEPT ![h] = 0] /\ mesh' = [mesh EXCEPT ![h] = NoMesh]
      /\ UNCHANGED <<urls, rpc, snap, term, count, joined, overlap, lost, acked, durable>>
  BY DEF LeaveTearsDown
<1>2. identity' \in [Hosts -> Identities \cup {None}] /\ \A k \in Hosts : k # h => identity'[k] = identity[k]
  BY <1>1 DEF ProcessOK
<1>3. ProcessOK' /\ RaftOK'
  BY <1>1, <1>2, ForgetTyped
<1>4. WireOK'
  BY <1>1, Bounds DEF NoMesh, WireOK
<1>5. HistoryOK'
  BY <1>1, ForgetAdmitted DEF HistoryOK
<1> QED
  BY <1>3, <1>4, <1>5

\* A daemon that stops or fails keeps its identity and its snapshot.
LEMMA ExitTyped ==
    ASSUME ProcessOK, WireOK, RaftOK, HistoryOK, NEW h \in Hosts, Event, Exit(h)
    PROVE  (ProcessOK /\ WireOK /\ RaftOK /\ HistoryOK)'
<1>1. /\ pc' = [pc EXCEPT ![h] = "off"] /\ Forget(h)
      /\ UNCHANGED <<identity, wire, snap, term, joined, overlap, lost, acked, durable>>
  BY DEF Exit
<1>2. ProcessOK' /\ RaftOK'
  BY <1>1, ForgetTyped DEF ProcessOK
<1>3. WireOK'
  BY <1>1 DEF WireOK, wire
<1>4. HistoryOK'
  BY <1>1, ForgetAdmitted, EventTyped DEF HistoryOK
<1> QED
  BY <1>2, <1>3, <1>4

\* A daemon starts from node.json.
LEMMA BootTyped ==
    ASSUME ProcessOK, WireOK, RaftOK, HistoryOK, NEW h \in Hosts, Boot(h)
    PROVE  (ProcessOK /\ WireOK /\ RaftOK /\ HistoryOK)'
<1>1. /\ pc[h] = "off" /\ identity[h] # None /\ pc' = [pc EXCEPT ![h] = "up"]
      /\ UNCHANGED <<info, identity>>
  BY DEF Boot
<1>2. identity[h] \in Identities
  BY <1>1 DEF ProcessOK
<1>3. ProcessOK'
  BY <1>1, States, SMTT(30) DEF ProcessOK
<1>4. WireOK'
  BY <1>2, Fields, Bounds, TablesTyped DEF Boot, WireOK
<1>5. RaftOK'
  BY <1>1, States DEF Boot, hist, OpenedLog, RaftOK, ProcessOK
<1>6. HistoryOK'
  BY DEF Boot, HistoryOK, hist
<1> QED
  BY <1>3, <1>4, <1>5, <1>6

\* Replication, an election, a snapshot.
LEMMA CatchUpTyped ==
    ASSUME ProcessOK, WireOK, RaftOK, HistoryOK, NEW h \in Hosts, CatchUp(h)
    PROVE  (ProcessOK /\ WireOK /\ RaftOK /\ HistoryOK)'
BY DEF CatchUp, ProcessOK, WireOK, RaftOK, HistoryOK, wire, hist

\* An election changes only who leads, and what was lost.
LEMMA ElectTyped ==
    ASSUME ProcessOK, WireOK, RaftOK, HistoryOK, NEW h \in Hosts, Elect(h)
    PROVE  (ProcessOK /\ WireOK /\ RaftOK /\ HistoryOK)'
<1>1. ProcessOK' /\ WireOK'
  BY DEF Elect, ProcessOK, WireOK, wire
<1>2. RaftOK'
  <2>1. \A n \in Nat : n + 1 \in Nat
    BY SMTT(30)
  <2> QED
    BY <2>1 DEF Elect, CanLead, RaftOK
<1>3. HistoryOK'
  BY DEF Elect, HistoryOK
<1> QED
  BY <1>1, <1>2, <1>3

\* A snapshot is the log of the daemon that takes it.
LEMMA SnapshotTyped ==
    ASSUME ProcessOK, WireOK, RaftOK, HistoryOK, NEW h \in Hosts, Snapshot(h)
    PROVE  (ProcessOK /\ WireOK /\ RaftOK /\ HistoryOK)'
<1>1. ProcessOK' /\ WireOK'
  BY DEF Snapshot, ProcessOK, WireOK, wire
<1>2. RaftOK'
  BY OnDiskTyped, SMTT(30) DEF RaftOK, Snapshot
<1>3. HistoryOK'
  BY EventTyped DEF Snapshot, HistoryOK
<1> QED
  BY <1>1, <1>2, <1>3

\* The watchdog's NodeDown.
LEMMA WatchdogDownTyped ==
    ASSUME ProcessOK, WireOK, RaftOK, HistoryOK, NEW i \in Ids, WatchdogDown(i)
    PROVE  (ProcessOK /\ WireOK /\ RaftOK /\ HistoryOK)'
<1> DEFINE key == NodeAt(log[leader], i).key
<1>1. leader \in Hosts /\ log[leader] \in Seq(Entries) /\ i \in Registered(log[leader])
  BY DEF WatchdogDown, RaftOK
<1>2. key \in Hosts
  BY <1>1, NodeTyped, Fields
<1>3. Entry("down", i, {}, NoNode) \in Entries
  BY EntryTyped, Fields
<1>4. RaftOK'
  BY <1>3, CommitTyped DEF WatchdogDown, RaftOK
<1>5. mesh' = [mesh EXCEPT ![leader] = RemovePeer(mesh[leader], key)] /\ admitted' = [admitted EXCEPT ![key] = None]
  BY DEF WatchdogDown
<1> HIDE DEF key
<1>6. RemovePeer(mesh[leader], key) \in [Hosts -> Addresses]
  BY <1>1, <1>2, Bounds DEF WireOK, RemovePeer
<1>7. WireOK'
  <2>1. mesh' \in [Hosts -> [Hosts -> Addresses]]
    BY <1>1, <1>5, <1>6 DEF WireOK
  <2> QED
    BY <2>1 DEF WatchdogDown, WireOK
<1>8. ProcessOK'
  BY DEF WatchdogDown, ProcessOK
<1>9. HistoryOK'
  BY <1>2, <1>5, EventTyped DEF WatchdogDown, HistoryOK
<1> QED
  BY <1>4, <1>7, <1>8, <1>9

\* Every step keeps the types.
LEMMA NextTyped == ClusterTypeOK /\ [ClusterNext]_clusterVars => ClusterTypeOK'
<1> SUFFICES ASSUME ProcessOK, WireOK, RaftOK, HistoryOK, [ClusterNext]_clusterVars
             PROVE  (ProcessOK /\ WireOK /\ RaftOK /\ HistoryOK)'
  BY TypeParts DEF ClusterTypeOK, ProcessOK, WireOK, RaftOK, HistoryOK
<1>1. CASE UNCHANGED clusterVars
  BY <1>1 DEF clusterVars, wire, raft, hist, ProcessOK, WireOK, RaftOK, HistoryOK
<1>2. ASSUME NEW h \in Hosts, Join(h) PROVE (ProcessOK /\ WireOK /\ RaftOK /\ HistoryOK)'
  BY <1>2, GetJoinInfoTyped, JoinPreparesTyped, PostPeersTyped, PostLearnerTyped, PostVoterTyped,
     PostRegisterTyped, JoinReturnsTyped, ExitTyped DEF Join, JoinFails
<1>3. ASSUME NEW h \in Hosts, \/ Leave(h) \/ LeaveTearsDown(h) \/ Stop(h) \/ Boot(h)
                              \/ CatchUp(h) \/ Elect(h) \/ Snapshot(h)
      PROVE  (ProcessOK /\ WireOK /\ RaftOK /\ HistoryOK)'
  BY <1>3, LeaveTyped, LeaveTearsDownTyped, ExitTyped, BootTyped, CatchUpTyped, ElectTyped,
     SnapshotTyped DEF Stop
<1>4. ASSUME NEW i \in Ids, RemoveNode(i) \/ WatchdogDown(i)
      PROVE  (ProcessOK /\ WireOK /\ RaftOK /\ HistoryOK)'
  BY <1>4, RemoveNodeTyped, WatchdogDownTyped
<1> QED
  BY <1>1, <1>2, <1>3, <1>4 DEF ClusterNext

\* Every variable of the cluster keeps its type: a daemon has a join in hand
\* exactly while it joins, and listens only with an identity on disk.
THEOREM ClusterTyped == ClusterSpec => []ClusterTypeOK
BY InitTyped, NextTyped, PTL DEF ClusterSpec

-----------------------------------------------------------------------------
(* The requests of joining daemons, and the leader's log. *)

\* The phases of a join before its node is registered.
Before == Joining \ {"registered"}
\* The leader works on the request.
Posted == {"peered", "learner", "voter"}
\* The daemon listens under the identity it was told.
After == Joining \ {"info"}

\* A request the leader works on is dropped when that leader stops.
ViaInv == \A h \in Hosts : pc[h] \in Posted /\ info[h].via # None => info[h].via = leader

\* A listening daemon that joins has what it was told: identity and address.
MatchInv ==
    \A h \in Hosts : pc[h] \in After => /\ identity[h].mill = info[h].mill
                                        /\ identity[h].raft = info[h].raft
                                        /\ ip[h] = info[h].ip

\* Who joins or leaves counts as joined only once it is registered.
MemberInv ==
    \A h \in Hosts : /\ pc[h] \in Before \cup {"leaving"} => h \notin joined
                     /\ h \in joined => identity[h] # None

\* What is acknowledged is what the leader has.
LeadInv == leader # None => log[leader] = acked

\* The phases, told apart.
LEMMA Phases ==
    /\ "off" \notin Before /\ "off" \notin Posted /\ "off" \notin After
    /\ "up" \notin Before /\ "up" \notin Posted /\ "up" \notin After /\ "up" # "leaving"
    /\ "leaving" \notin Before /\ "leaving" \notin Posted /\ "leaving" \notin After
    /\ "info" \in Before /\ "info" \notin Posted /\ "info" \notin After /\ "info" # "leaving"
    /\ "open" \in Before /\ "open" \notin Posted /\ "open" \in After
    /\ \A p \in Posted : p \in Before /\ p \in After /\ p \in Listening /\ p # "leaving"
    /\ "peered" \in Posted /\ "learner" \in Posted /\ "voter" \in Posted
    /\ "registered" \notin Before /\ "registered" \notin Posted /\ "registered" \in After
    /\ "registered" # "leaving" /\ "off" # "leaving"
    /\ \A p \in Before : p \in Joining
    /\ \A p \in After : p \in Joining /\ p \in Listening
    /\ \A p \in Joining : p \in Before \/ p = "registered"
BY SMTT(30) DEF Before, Posted, After, Joining, Listening

\* The end of a process drops the requests it worked on.
LEMMA ForgetVia ==
    ASSUME ProcessOK, RaftOK, HistoryOK, ViaInv, NEW h \in Hosts, Forget(h), pc' = [pc EXCEPT ![h] = "off"]
    PROVE  ViaInv'
<1> SUFFICES ASSUME NEW k \in Hosts, pc'[k] \in Posted, info'[k].via # None PROVE info'[k].via = leader'
  BY DEF ViaInv
<1>1. k # h /\ pc'[k] = pc[k]
  BY ForgetLog, Phases
<1>2. info'[k].via = info[k].via /\ info[k].via # h
  BY <1>1, ForgetRequest DEF Posted
<1>3. info[k].via = leader /\ leader # h
  BY <1>1, <1>2 DEF ViaInv
<1> QED
  BY <1>2, <1>3 DEF Forget

\* Only the leader works on requests.
LEMMA ViaStep ==
    ASSUME ProcessOK, WireOK, RaftOK, HistoryOK, ViaInv, [ClusterNext]_clusterVars
    PROVE  ViaInv'
<1>1. CASE UNCHANGED clusterVars
  BY <1>1 DEF clusterVars, wire, raft, hist, ViaInv
<1>2. ASSUME NEW h \in Hosts, NEW s \in Hosts, GetJoinInfo(h, s) PROVE ViaInv'
  BY <1>2, Phases DEF GetJoinInfo, raft, ProcessOK, ViaInv
<1>3. ASSUME NEW h \in Hosts, JoinPrepares(h) PROVE ViaInv'
  BY <1>3, Phases DEF JoinPrepares, ViaInv, ProcessOK
<1>4. ASSUME NEW h \in Hosts, PostPeers(h) PROVE ViaInv'
  BY <1>4, States, SMTT(30) DEF PostPeers, raft, ProcessOK, Infos, ViaInv
<1>5. ASSUME NEW h \in Hosts, PostLearner(h) PROVE ViaInv'
  BY <1>5, Phases DEF PostLearner, Commit, ProcessOK, ViaInv
<1>6. ASSUME NEW h \in Hosts, PostVoter(h) PROVE ViaInv'
  BY <1>6, Phases DEF PostVoter, Commit, ProcessOK, ViaInv
<1>7. ASSUME NEW h \in Hosts, PostRegister(h) PROVE ViaInv'
  BY <1>7, Phases DEF PostRegister, Commit, ProcessOK, ViaInv
<1>8. ASSUME NEW h \in Hosts, JoinReturns(h) PROVE ViaInv'
  BY <1>8, Phases DEF JoinReturns, raft, ProcessOK, ViaInv
<1>9. ASSUME NEW h \in Hosts, Event, Exit(h) PROVE ViaInv'
  BY <1>9, ForgetVia DEF Exit
<1>10. ASSUME NEW h \in Hosts, Leave(h) PROVE ViaInv'
  <2>1. leader' = leader /\ info' = info /\ pc' = [pc EXCEPT ![h] = "leaving"]
    BY <1>10 DEF Leave, DeleteNode, Commit
  <2> QED
    BY <2>1, Phases DEF ViaInv, ProcessOK
<1>11. ASSUME NEW h \in Hosts, LeaveTearsDown(h) PROVE ViaInv'
  BY <1>11, ForgetVia DEF LeaveTearsDown
<1>12. ASSUME NEW h \in Hosts, Boot(h) PROVE ViaInv'
  BY <1>12, Phases DEF Boot, ViaInv, ProcessOK
<1>13. ASSUME NEW h \in Hosts, CatchUp(h) PROVE ViaInv'
  BY <1>13 DEF CatchUp, ViaInv
<1>14. ASSUME NEW h \in Hosts, Elect(h) PROVE ViaInv'
  BY <1>14 DEF Elect, ViaInv
<1>15. ASSUME NEW h \in Hosts, Snapshot(h) PROVE ViaInv'
  BY <1>15 DEF Snapshot, ViaInv
<1>16. ASSUME NEW i \in Ids, RemoveNode(i) PROVE ViaInv'
  BY <1>16 DEF RemoveNode, DeleteNode, Commit, ViaInv
<1>17. ASSUME NEW i \in Ids, WatchdogDown(i) PROVE ViaInv'
  BY <1>17 DEF WatchdogDown, Commit, ViaInv
<1> QED
  BY <1>1, <1>2, <1>3, <1>4, <1>5, <1>6, <1>7, <1>8, <1>9, <1>10, <1>11, <1>12, <1>13, <1>14, <1>15,
     <1>16, <1>17 DEF ClusterNext, Join, JoinFails, Stop

\* The end of a process changes no identity or address of another daemon.
LEMMA ForgetMatch ==
    ASSUME ProcessOK, RaftOK, HistoryOK, MatchInv, NEW h \in Hosts, Forget(h), pc' = [pc EXCEPT ![h] = "off"],
           \A k \in Hosts : k # h => identity'[k] = identity[k] /\ ip'[k] = ip[k]
    PROVE  MatchInv'
<1> SUFFICES ASSUME NEW k \in Hosts, pc'[k] \in After
             PROVE  /\ identity'[k].mill = info'[k].mill /\ identity'[k].raft = info'[k].raft
                    /\ ip'[k] = info'[k].ip
  BY DEF MatchInv
<1>1. k # h /\ pc'[k] = pc[k]
  BY ForgetLog, Phases
<1>2. info'[k].raft = info[k].raft /\ info'[k].ip = info[k].ip /\ info'[k].mill = info[k].mill
  BY <1>1, ForgetKeeps
<1> QED
  BY <1>1, <1>2 DEF MatchInv

\* A joining daemon keeps identity and address.
LEMMA MatchStep ==
    ASSUME ProcessOK, WireOK, RaftOK, HistoryOK, MatchInv, [ClusterNext]_clusterVars
    PROVE  MatchInv'
<1>1. CASE UNCHANGED clusterVars
  BY <1>1 DEF clusterVars, wire, raft, hist, MatchInv
<1>2. ASSUME NEW h \in Hosts, NEW s \in Hosts, GetJoinInfo(h, s) PROVE MatchInv'
  BY <1>2, Phases DEF GetJoinInfo, wire, ProcessOK, MatchInv
<1>3. ASSUME NEW h \in Hosts, JoinPrepares(h) PROVE MatchInv'
  <2> DEFINE d == [mill |-> info[h].mill, raft |-> info[h].raft, peers |-> info[h].peers]
  <2>1. /\ info' = info /\ pc' = [pc EXCEPT ![h] = "open"] /\ identity' = [identity EXCEPT ![h] = d]
        /\ ip' = [ip EXCEPT ![h] = info[h].ip]
    BY <1>3 DEF JoinPrepares
  <2>2. d.mill = info[h].mill /\ d.raft = info[h].raft
    OBVIOUS
  <2> HIDE DEF d
  <2>3. identity'[h] = d /\ ip'[h] = info[h].ip
    BY <2>1 DEF ProcessOK, WireOK
  <2>4. \A k \in Hosts : k # h => pc'[k] = pc[k] /\ identity'[k] = identity[k] /\ ip'[k] = ip[k]
    BY <2>1 DEF ProcessOK, WireOK
  <2> QED
    BY <2>1, <2>2, <2>3, <2>4 DEF MatchInv
<1>4. ASSUME NEW h \in Hosts, PostPeers(h) PROVE MatchInv'
  BY <1>4, States, Phases, SMTT(30) DEF PostPeers, ProcessOK, Infos, MatchInv
<1>5. ASSUME NEW h \in Hosts, PostLearner(h) PROVE MatchInv'
  BY <1>5, Phases DEF PostLearner, ProcessOK, wire, MatchInv
<1>6. ASSUME NEW h \in Hosts, PostVoter(h) PROVE MatchInv'
  BY <1>6, Phases DEF PostVoter, ProcessOK, wire, MatchInv
<1>7. ASSUME NEW h \in Hosts, PostRegister(h) PROVE MatchInv'
  BY <1>7, Phases DEF PostRegister, ProcessOK, wire, MatchInv
<1>8. ASSUME NEW h \in Hosts, JoinReturns(h) PROVE MatchInv'
  BY <1>8, Phases DEF JoinReturns, wire, ProcessOK, MatchInv
<1>9. ASSUME NEW h \in Hosts, Event, Exit(h) PROVE MatchInv'
  BY <1>9, ForgetMatch DEF Exit, wire
<1>10. ASSUME NEW h \in Hosts, Leave(h) PROVE MatchInv'
  BY <1>10, Phases DEF Leave, wire, MatchInv, ProcessOK
<1>11. ASSUME NEW h \in Hosts, LeaveTearsDown(h) PROVE MatchInv'
  BY <1>11, ForgetMatch DEF LeaveTearsDown, ProcessOK, WireOK
<1>12. ASSUME NEW h \in Hosts, Boot(h) PROVE MatchInv'
  BY <1>12, Phases DEF Boot, WireOK, MatchInv, ProcessOK
<1>13. ASSUME NEW h \in Hosts, CatchUp(h) PROVE MatchInv'
  BY <1>13 DEF CatchUp, wire, MatchInv
<1>14. ASSUME NEW h \in Hosts, Elect(h) PROVE MatchInv'
  BY <1>14 DEF Elect, wire, MatchInv
<1>15. ASSUME NEW h \in Hosts, Snapshot(h) PROVE MatchInv'
  BY <1>15 DEF Snapshot, wire, MatchInv
<1>16. ASSUME NEW i \in Ids, RemoveNode(i) PROVE MatchInv'
  BY <1>16 DEF RemoveNode, wire, MatchInv
<1>17. ASSUME NEW i \in Ids, WatchdogDown(i) PROVE MatchInv'
  <2>1. UNCHANGED <<pc, info, identity, ip>>
    BY <1>17 DEF WatchdogDown, wire
  <2> QED
    BY <2>1 DEF MatchInv
<1> QED
  BY <1>1, <1>2, <1>3, <1>4, <1>5, <1>6, <1>7, <1>8, <1>9, <1>10, <1>11, <1>12, <1>13, <1>14, <1>15,
     <1>16, <1>17 DEF ClusterNext, Join, JoinFails, Stop

\* Who leaves is no member any more, and who joins is not one yet.
LEMMA MemberStep ==
    ASSUME ProcessOK, WireOK, RaftOK, HistoryOK, MemberInv, [ClusterNext]_clusterVars
    PROVE  MemberInv'
<1>1. CASE UNCHANGED clusterVars
  BY <1>1 DEF clusterVars, wire, raft, hist, MemberInv
<1>2. ASSUME NEW h \in Hosts, NEW s \in Hosts, GetJoinInfo(h, s) PROVE MemberInv'
  BY <1>2, Phases DEF GetJoinInfo, MemberInv, ProcessOK
<1>3. ASSUME NEW h \in Hosts, JoinPrepares(h) PROVE MemberInv'
  BY <1>3, Phases DEF JoinPrepares, hist, ProcessOK, MemberInv
<1>4. ASSUME NEW h \in Hosts, PostPeers(h) PROVE MemberInv'
  BY <1>4, Phases DEF PostPeers, ProcessOK, MemberInv
<1>5. ASSUME NEW h \in Hosts, PostLearner(h) PROVE MemberInv'
  BY <1>5, Phases DEF PostLearner, ProcessOK, MemberInv
<1>6. ASSUME NEW h \in Hosts, PostVoter(h) PROVE MemberInv'
  BY <1>6, Phases DEF PostVoter, ProcessOK, MemberInv
<1>7. ASSUME NEW h \in Hosts, PostRegister(h) PROVE MemberInv'
  BY <1>7, States, Phases DEF PostRegister, ProcessOK, MemberInv
<1>8. ASSUME NEW h \in Hosts, JoinReturns(h) PROVE MemberInv'
  BY <1>8, Phases DEF JoinReturns, hist, MemberInv, ProcessOK
<1>9. ASSUME NEW h \in Hosts, Event, Exit(h) PROVE MemberInv'
  BY <1>9, Phases DEF Exit, MemberInv, ProcessOK
<1>10. ASSUME NEW h \in Hosts, Leave(h) PROVE MemberInv'
  BY <1>10, Phases DEF Leave, DeleteNode, RaftIdFor, MemberInv, ProcessOK
<1>11. ASSUME NEW h \in Hosts, LeaveTearsDown(h) PROVE MemberInv'
  BY <1>11, Phases DEF LeaveTearsDown, ProcessOK, MemberInv
<1>12. ASSUME NEW h \in Hosts, Boot(h) PROVE MemberInv'
  BY <1>12, Phases DEF Boot, hist, MemberInv, ProcessOK
<1>13. ASSUME NEW h \in Hosts, CatchUp(h) PROVE MemberInv'
  BY <1>13 DEF CatchUp, hist, MemberInv
<1>14. ASSUME NEW h \in Hosts, Elect(h) PROVE MemberInv'
  BY <1>14 DEF Elect, hist, MemberInv
<1>15. ASSUME NEW h \in Hosts, Snapshot(h) PROVE MemberInv'
  BY <1>15 DEF Snapshot, hist, MemberInv
<1>16. ASSUME NEW i \in Ids, RemoveNode(i) PROVE MemberInv'
  BY <1>16 DEF RemoveNode, DeleteNode, MemberInv
<1>17. ASSUME NEW i \in Ids, WatchdogDown(i) PROVE MemberInv'
  BY <1>17 DEF WatchdogDown, hist, MemberInv
<1> QED
  BY <1>1, <1>2, <1>3, <1>4, <1>5, <1>6, <1>7, <1>8, <1>9, <1>10, <1>11, <1>12, <1>13, <1>14, <1>15,
     <1>16, <1>17 DEF ClusterNext, Join, JoinFails, Stop

\* add_learner of a request appends an entry about no node.
LEMMA PostLearnerCommits ==
    ASSUME ProcessOK, RaftOK, NEW h \in Hosts, PostLearner(h)
    PROVE  \E e \in Entries : Commit(e) /\ e.op = "learner" /\ e.node = NoNode
<1>1. info[h] \in Infos
  BY States DEF PostLearner, ProcessOK
<1> DEFINE e == Entry("learner", Req(h).raft, {}, NoNode)
<1>2. e \in Entries /\ e.op = "learner" /\ e.node = NoNode
  BY <1>1, EntryTyped, Fields DEF Req, Entry
<1>3. Commit(e)
  BY DEF PostLearner
<1> HIDE DEF e
<1> QED
  BY <1>2, <1>3

\* AddVoterIds of a request names its id.
LEMMA PostVoterCommits ==
    ASSUME ProcessOK, RaftOK, NEW h \in Hosts, PostVoter(h)
    PROVE  \E e \in Entries : Commit(e) /\ e.op = "voters" /\ e.node = NoNode /\ info[h].raft \in e.ids
<1>1. info[h] \in Infos
  BY States DEF PostVoter, ProcessOK
<1> DEFINE ids == Registered(log[leader]) \cup {Req(h).raft}
           e == Entry("voters", 0, ids, NoNode)
<1>2. ids \in SUBSET Ids /\ info[h].raft \in ids
  BY <1>1, Fields DEF Req, Registered
<1>3. Commit(e)
  BY DEF PostVoter
<1> HIDE DEF ids
<1>4. e \in Entries /\ e.op = "voters" /\ e.node = NoNode /\ e.ids = ids
  BY <1>2, EntryTyped, Fields DEF Entry
<1> HIDE DEF e
<1> QED
  BY <1>2, <1>3, <1>4

\* NodeRegister of a request has the id, the address and the key of its daemon.
LEMMA PostRegisterCommits ==
    ASSUME ProcessOK, RaftOK, NEW h \in Hosts, PostRegister(h)
    PROVE  \E e \in Entries : /\ Commit(e) /\ e.op = "register" /\ e.id = info[h].raft
                              /\ e.node = [mill |-> info[h].mill, ip |-> info[h].ip, key |-> h]
<1>1. info[h] \in Infos
  BY States DEF PostRegister, ProcessOK
<1> DEFINE n == [mill |-> Req(h).mill, ip |-> Req(h).ip, key |-> h]
           e == Entry("register", Req(h).raft, {}, n)
<1>2. n \in Nodes
  BY <1>1, Fields, Bounds DEF Req, Nodes
<1>3. Commit(e) /\ n = [mill |-> info[h].mill, ip |-> info[h].ip, key |-> h]
  BY DEF PostRegister, Req
<1> HIDE DEF n
<1>4. e \in Entries /\ e.op = "register" /\ e.id = info[h].raft /\ e.node = n
  BY <1>1, <1>2, EntryTyped, Fields DEF Req, Entry
<1> HIDE DEF e
<1> QED
  BY <1>3, <1>4

\* delete_node appends one NodeRemove.
LEMMA RemoveCommits ==
    ASSUME RaftOK, NEW i \in Ids, DeleteNode(i)
    PROVE  \E e \in Entries : Commit(e) /\ e.op = "remove" /\ e.node = NoNode /\ e.id = i
<1> DEFINE e == Entry("remove", i, {}, NoNode)
<1>1. e \in Entries /\ e.op = "remove" /\ e.node = NoNode /\ e.id = i
  BY EntryTyped, Fields DEF Entry
<1>2. Commit(e)
  BY DEF DeleteNode
<1> HIDE DEF e
<1> QED
  BY <1>1, <1>2

\* The watchdog appends one NodeDown.
LEMMA WatchdogDownCommits ==
    ASSUME RaftOK, NEW i \in Ids, WatchdogDown(i)
    PROVE  \E e \in Entries : Commit(e) /\ e.op = "down" /\ e.node = NoNode
<1> DEFINE e == Entry("down", i, {}, NoNode)
<1>1. e \in Entries /\ e.op = "down" /\ e.node = NoNode
  BY EntryTyped, Fields DEF Entry
<1>2. Commit(e)
  BY DEF WatchdogDown
<1> HIDE DEF e
<1> QED
  BY <1>1, <1>2

\* The API's removal is delete_node of that id.
LEMMA RemoveNodeCommits ==
    ASSUME RaftOK, NEW i \in Ids, RemoveNode(i)
    PROVE  \E e \in Entries : Commit(e) /\ e.op = "remove" /\ e.node = NoNode /\ e.id = i
BY RemoveCommits DEF RemoveNode

\* A leaving daemon removes an id registered under its own node id.
LEMMA LeaveCommits ==
    ASSUME RaftOK, NEW h \in Hosts, Leave(h)
    PROVE  \E i \in RaftIdFor(log[leader], identity[h].mill), e \in Entries :
               DeleteNode(i) /\ Commit(e) /\ e.op = "remove" /\ e.node = NoNode /\ e.id = i
<1>1. PICK i \in RaftIdFor(log[leader], identity[h].mill) : DeleteNode(i)
  BY DEF Leave
<1>2. i \in Ids
  BY DEF RaftIdFor, Registered
<1>3. PICK e \in Entries : Commit(e) /\ e.op = "remove" /\ e.node = NoNode /\ e.id = i
  BY <1>1, <1>2, RemoveCommits
<1> QED
  BY <1>1, <1>3

\* The leader's log is what is acknowledged.
LEMMA LeadStep ==
    ASSUME ProcessOK, WireOK, RaftOK, HistoryOK, LeadInv, [ClusterNext]_clusterVars
    PROVE  LeadInv'
<1>1. CASE UNCHANGED clusterVars
  BY <1>1 DEF clusterVars, wire, raft, hist, LeadInv
<1>2. ASSUME NEW h \in Hosts, NEW s \in Hosts, GetJoinInfo(h, s) PROVE LeadInv'
  BY <1>2 DEF GetJoinInfo, raft, hist, LeadInv
<1>3. ASSUME NEW h \in Hosts, JoinPrepares(h) PROVE LeadInv'
  BY <1>3, States DEF JoinPrepares, hist, RaftOK, LeadInv
<1>4. ASSUME NEW h \in Hosts, PostPeers(h) PROVE LeadInv'
  BY <1>4 DEF PostPeers, raft, hist, LeadInv
<1>5. ASSUME NEW h \in Hosts, PostLearner(h) PROVE LeadInv'
  BY <1>5, PostLearnerCommits, CommitFacts DEF LeadInv
<1>6. ASSUME NEW h \in Hosts, PostVoter(h) PROVE LeadInv'
  BY <1>6, PostVoterCommits, CommitFacts DEF LeadInv
<1>7. ASSUME NEW h \in Hosts, PostRegister(h) PROVE LeadInv'
  BY <1>7, PostRegisterCommits, CommitFacts DEF LeadInv
<1>8. ASSUME NEW h \in Hosts, JoinReturns(h) PROVE LeadInv'
  BY <1>8 DEF JoinReturns, raft, hist, LeadInv
<1>9. ASSUME NEW h \in Hosts, Event, Exit(h) PROVE LeadInv'
  BY <1>9, ForgetLog DEF Exit, RaftOK, LeadInv
<1>10. ASSUME NEW h \in Hosts, Leave(h) PROVE LeadInv'
  BY <1>10, LeaveCommits, CommitFacts DEF LeadInv
<1>11. ASSUME NEW h \in Hosts, LeaveTearsDown(h) PROVE LeadInv'
  BY <1>11, ForgetLog DEF LeaveTearsDown, RaftOK, LeadInv
<1>12. ASSUME NEW h \in Hosts, Boot(h) PROVE LeadInv'
  BY <1>12, States DEF Boot, hist, RaftOK, LeadInv
<1>13. ASSUME NEW h \in Hosts, CatchUp(h) PROVE LeadInv'
  BY <1>13 DEF CatchUp, hist, RaftOK, LeadInv
<1>14. ASSUME NEW h \in Hosts, Elect(h) PROVE LeadInv'
  BY <1>14 DEF Elect, LeadInv
<1>15. ASSUME NEW h \in Hosts, Snapshot(h) PROVE LeadInv'
  BY <1>15 DEF Snapshot, raft, hist, LeadInv
<1>16. ASSUME NEW i \in Ids, RemoveNode(i) PROVE LeadInv'
  BY <1>16, RemoveNodeCommits, CommitFacts DEF LeadInv
<1>17. ASSUME NEW i \in Ids, WatchdogDown(i) PROVE LeadInv'
  BY <1>17, WatchdogDownCommits, CommitFacts DEF LeadInv
<1> QED
  BY <1>1, <1>2, <1>3, <1>4, <1>5, <1>6, <1>7, <1>8, <1>9, <1>10, <1>11, <1>12, <1>13, <1>14, <1>15,
     <1>16, <1>17 DEF ClusterNext, Join, JoinFails, Stop

-----------------------------------------------------------------------------
(* What a node of the state machine is to openraft. *)

\* In a log, the registered nodes are voters.
Good(lg) == Registered(lg) \subseteq Voters(lg)

\* In every log and snapshot; and a request that is to be registered has its
\* id among the leader's voters.
VoterInv ==
    /\ \A h \in Hosts : Good(log[h]) /\ Good(snap[h])
    /\ \A h \in Hosts : pc[h] = "voter" /\ info[h].via # None => info[h].raft \in Voters(log[leader])

\* An entry keeps a log good when it registers only a voter.
LEMMA GoodAppend ==
    ASSUME NEW lg \in Seq(Entries), NEW e \in Entries, Good(lg), e.op = "register" => e.id \in Voters(lg)
    PROVE  Good(Append(lg, e)) /\ Voters(lg) \subseteq Voters(Append(lg, e))
<1> DEFINE new == Append(lg, e)
<1>1. Voters(new) = IF e.op = "voters" THEN Voters(lg) \cup e.ids ELSE Voters(lg)
  BY VotersAppend
<1>2. Registered(new) = IF e.op = "register" THEN Registered(lg) \cup (Ids \cap {e.id})
                        ELSE IF e.op = "remove" THEN Registered(lg) \ {e.id} ELSE Registered(lg)
  BY RegisteredAppend
<1> HIDE DEF new
<1>3. Voters(lg) \subseteq Voters(new)
  BY <1>1
<1>4. Registered(new) \subseteq Registered(lg) \cup (IF e.op = "register" THEN {e.id} ELSE {})
  BY <1>2
<1>5. Registered(new) \subseteq Voters(new)
  BY <1>3, <1>4 DEF Good
<1> QED
  BY <1>3, <1>5 DEF Good, new

\* A committed entry keeps the logs good, and every voter of the leader.
LEMMA CommitGood ==
    ASSUME RaftOK, VoterInv, NEW e \in Entries, Commit(e),
           e.op = "register" => e.id \in Voters(log[leader])
    PROVE  /\ \A h \in Hosts : Good(log'[h]) /\ Good(snap'[h])
           /\ Voters(log[leader]) \subseteq Voters(log'[leader']) /\ leader' = leader
           /\ Voters(log'[leader']) = IF e.op = "voters" THEN Voters(log[leader]) \cup e.ids
                                      ELSE Voters(log[leader])
<1>1. /\ leader \in Hosts /\ log[leader] \in Seq(Entries) /\ log'[leader] = Append(log[leader], e)
      /\ \A h \in Hosts : log'[h] = log[h] \/ log'[h] = log'[leader]
      /\ snap' = snap /\ leader' = leader
  BY CommitFacts
<1>2. Good(log[leader])
  BY <1>1 DEF VoterInv
<1>3. Good(log'[leader]) /\ Voters(log[leader]) \subseteq Voters(log'[leader])
  BY <1>1, <1>2, GoodAppend
<1>4. Voters(log'[leader]) = IF e.op = "voters" THEN Voters(log[leader]) \cup e.ids ELSE Voters(log[leader])
  BY <1>1, VotersAppend
<1>5. \A h \in Hosts : Good(log'[h]) /\ Good(snap'[h])
  BY <1>1, <1>3 DEF VoterInv
<1> QED
  BY <1>1, <1>3, <1>4, <1>5

\* post_join promotes before it registers: what is registered is a voter.
LEMMA VoterStep ==
    ASSUME ProcessOK, WireOK, RaftOK, HistoryOK, ViaInv, VoterInv, [ClusterNext]_clusterVars
    PROVE  VoterInv'
<1>1. CASE UNCHANGED clusterVars
  BY <1>1 DEF clusterVars, wire, raft, hist, VoterInv
<1>2. ASSUME NEW h \in Hosts, NEW s \in Hosts, GetJoinInfo(h, s) PROVE VoterInv'
  BY <1>2 DEF GetJoinInfo, raft, ProcessOK, VoterInv
<1>3. ASSUME NEW h \in Hosts, JoinPrepares(h) PROVE VoterInv'
  <2>1. /\ UNCHANGED <<snap, leader>> /\ (log'[h] = snap[h] \/ (leader # None /\ log'[h] = log[leader]))
        /\ \A k \in Hosts : k # h => log'[k] = log[k]
    BY <1>3 DEF JoinPrepares, OpenedLog, RaftOK
  <2>2. leader # h
    BY <1>3, States DEF JoinPrepares, RaftOK
  <2>3. \A k \in Hosts : Good(log'[k]) /\ Good(snap'[k])
    BY <2>1 DEF VoterInv, RaftOK
  <2>4. info' = info /\ \A k \in Hosts : pc'[k] = "voter" => pc[k] = "voter"
    BY <1>3 DEF JoinPrepares, ProcessOK
  <2>5. leader # None => log'[leader] = log[leader]
    BY <2>1, <2>2 DEF RaftOK
  <2> QED
    BY <2>1, <2>3, <2>4, <2>5 DEF VoterInv, ViaInv, Posted
<1>4. ASSUME NEW h \in Hosts, PostPeers(h) PROVE VoterInv'
  BY <1>4 DEF PostPeers, raft, ProcessOK, VoterInv
<1>5. ASSUME NEW h \in Hosts, PostLearner(h) PROVE VoterInv'
  BY <1>5, PostLearnerCommits, CommitGood DEF PostLearner, ProcessOK, VoterInv
<1>6. ASSUME NEW h \in Hosts, PostVoter(h) PROVE VoterInv'
  <2>1. PICK e \in Entries : Commit(e) /\ e.op = "voters" /\ info[h].raft \in e.ids
    BY <1>6, PostVoterCommits
  <2>2. e.op # "register"
    BY <2>1
  <2>3. /\ \A k \in Hosts : Good(log'[k]) /\ Good(snap'[k])
        /\ Voters(log'[leader']) = Voters(log[leader]) \cup e.ids
    BY <2>1, <2>2, CommitGood
  <2>4. info' = info /\ \A k \in Hosts : k # h => pc'[k] = pc[k]
    BY <1>6 DEF PostVoter, ProcessOK
  <2> QED
    BY <2>1, <2>3, <2>4 DEF VoterInv
<1>7. ASSUME NEW h \in Hosts, PostRegister(h) PROVE VoterInv'
  <2>1. PICK e \in Entries : Commit(e) /\ e.op = "register" /\ e.id = info[h].raft
    BY <1>7, PostRegisterCommits
  <2>2. e.id \in Voters(log[leader])
    BY <1>7, <2>1 DEF PostRegister, Handled, Req, VoterInv
  <2>3. /\ \A k \in Hosts : Good(log'[k]) /\ Good(snap'[k])
        /\ Voters(log[leader]) \subseteq Voters(log'[leader'])
    BY <2>1, <2>2, CommitGood
  <2>4. info' = info /\ \A k \in Hosts : pc'[k] = "voter" => pc[k] = "voter"
    BY <1>7 DEF PostRegister, ProcessOK
  <2> QED
    BY <2>3, <2>4 DEF VoterInv
<1>8. ASSUME NEW h \in Hosts, JoinReturns(h) PROVE VoterInv'
  BY <1>8 DEF JoinReturns, raft, ProcessOK, VoterInv
<1>9. ASSUME NEW h \in Hosts, Event, Exit(h) PROVE VoterInv'
  <2>1. Forget(h) /\ pc' = [pc EXCEPT ![h] = "off"] /\ snap' = snap
    BY <1>9 DEF Exit
  <2>2. \A k \in Hosts : Good(log'[k]) /\ Good(snap'[k])
    BY <2>1, ForgetLog, EmptyLog DEF Good, VoterInv
  <2>3. ASSUME NEW k \in Hosts, pc'[k] = "voter", info'[k].via # None
        PROVE  info'[k].raft \in Voters(log'[leader'])
    <3>1. k # h /\ pc[k] = "voter"
      BY <2>1, <2>3, ForgetLog
    <3>2. info'[k].raft = info[k].raft
      BY <2>1, <3>1, ForgetKeeps
    <3>3. info[k].via # None /\ info[k].via # h
      BY <2>1, <2>3, <3>1, ForgetRequest
    <3>4. leader # None /\ leader # h /\ info[k].raft \in Voters(log[leader])
      BY <3>1, <3>3 DEF ViaInv, VoterInv, Posted
    <3>5. leader' = leader /\ log'[leader] = log[leader]
      <4>1. leader' = leader
        BY <2>1, <3>4 DEF Forget
      <4>2. leader \in Hosts
        BY <3>4 DEF RaftOK
      <4> QED
        BY <2>1, <3>4, <4>1, <4>2, ForgetLog
    <3> QED
      BY <3>2, <3>4, <3>5
  <2> QED
    BY <2>2, <2>3 DEF VoterInv
<1>10. ASSUME NEW h \in Hosts, Leave(h) PROVE VoterInv'
  BY <1>10, LeaveCommits, CommitGood DEF Leave, ProcessOK, VoterInv
<1>11. ASSUME NEW h \in Hosts, LeaveTearsDown(h) PROVE VoterInv'
  <2>1. Forget(h) /\ pc' = [pc EXCEPT ![h] = "off"] /\ snap' = snap
    BY <1>11 DEF LeaveTearsDown
  <2>2. \A k \in Hosts : Good(log'[k]) /\ Good(snap'[k])
    BY <2>1, ForgetLog, EmptyLog DEF Good, VoterInv
  <2>3. ASSUME NEW k \in Hosts, pc'[k] = "voter", info'[k].via # None
        PROVE  info'[k].raft \in Voters(log'[leader'])
    <3>1. k # h /\ pc[k] = "voter"
      BY <2>1, <2>3, ForgetLog
    <3>2. info'[k].raft = info[k].raft
      BY <2>1, <3>1, ForgetKeeps
    <3>3. info[k].via # None /\ info[k].via # h
      BY <2>1, <2>3, <3>1, ForgetRequest
    <3>4. leader # None /\ leader # h /\ info[k].raft \in Voters(log[leader])
      BY <3>1, <3>3 DEF ViaInv, VoterInv, Posted
    <3>5. leader' = leader /\ log'[leader] = log[leader]
      <4>1. leader' = leader
        BY <2>1, <3>4 DEF Forget
      <4>2. leader \in Hosts
        BY <3>4 DEF RaftOK
      <4> QED
        BY <2>1, <3>4, <4>1, <4>2, ForgetLog
    <3> QED
      BY <3>2, <3>4, <3>5
  <2> QED
    BY <2>2, <2>3 DEF VoterInv
<1>12. ASSUME NEW h \in Hosts, Boot(h) PROVE VoterInv'
  BY <1>12, States DEF Boot, OpenedLog, RaftOK, VoterInv, ProcessOK, ViaInv, Posted
<1>13. ASSUME NEW h \in Hosts, CatchUp(h) PROVE VoterInv'
  BY <1>13 DEF CatchUp, OpenedLog, RaftOK, VoterInv, ProcessOK, ViaInv, Posted
<1>14. ASSUME NEW h \in Hosts, Elect(h) PROVE VoterInv'
  BY <1>14 DEF Elect, ViaInv, Posted, VoterInv
<1>15. ASSUME NEW h \in Hosts, Snapshot(h) PROVE VoterInv'
  BY <1>15 DEF Snapshot, RaftOK, VoterInv
<1>16. ASSUME NEW i \in Ids, RemoveNode(i) PROVE VoterInv'
  BY <1>16, RemoveNodeCommits, CommitGood DEF RemoveNode, ProcessOK, VoterInv
<1>17. ASSUME NEW i \in Ids, WatchdogDown(i) PROVE VoterInv'
  BY <1>17, WatchdogDownCommits, CommitGood DEF WatchdogDown, ProcessOK, VoterInv
<1> QED
  BY <1>1, <1>2, <1>3, <1>4, <1>5, <1>6, <1>7, <1>8, <1>9, <1>10, <1>11, <1>12, <1>13, <1>14, <1>15,
     <1>16, <1>17 DEF ClusterNext, Join, JoinFails, Stop

-----------------------------------------------------------------------------
(* What the logs and snapshots are parts of. *)

\* While nothing acknowledged is lost, every log and every snapshot is a prefix
\* of what is acknowledged.
PrefixInv == ~ lost => \A h \in Hosts : Begins(log[h], acked) /\ Begins(snap[h], acked)

\* A committed entry extends what is acknowledged.
LEMMA CommitPrefix ==
    ASSUME RaftOK, LeadInv, PrefixInv, NEW e \in Entries, Commit(e), lost' = lost
    PROVE  PrefixInv'
<1>1. /\ log[leader] = acked /\ acked \in Seq(Entries) /\ acked' = Append(acked, e) /\ acked' \in Seq(Entries)
      /\ \A h \in Hosts : log'[h] = log[h] \/ log'[h] = acked'
      /\ snap' = snap
  BY CommitFacts DEF LeadInv
<1>2. Begins(acked', acked')
  BY <1>1, PrefixSelf
<1>3. \A h \in Hosts : log[h] \in Seq(Entries) /\ snap[h] \in Seq(Entries)
  BY DEF RaftOK
<1>4. ~ lost => \A h \in Hosts : Begins(log[h], acked') /\ Begins(snap[h], acked')
  BY <1>1, <1>3, PrefixAppend DEF PrefixInv
<1> QED
  BY <1>1, <1>2, <1>4 DEF PrefixInv

\* What a daemon reads from its disk or is sent is a part of the leader's log.
LEMMA PrefixStep ==
    ASSUME ProcessOK, WireOK, RaftOK, HistoryOK, LeadInv, PrefixInv, [ClusterNext]_clusterVars
    PROVE  PrefixInv'
<1>1. CASE UNCHANGED clusterVars
  BY <1>1 DEF clusterVars, wire, raft, hist, PrefixInv
<1>2. ASSUME NEW h \in Hosts, NEW s \in Hosts, GetJoinInfo(h, s) PROVE PrefixInv'
  BY <1>2 DEF GetJoinInfo, raft, hist, PrefixInv
<1>3. ASSUME NEW h \in Hosts, JoinPrepares(h) PROVE PrefixInv'
  BY <1>3 DEF JoinPrepares, OpenedLog, RaftOK, hist, PrefixInv
<1>4. ASSUME NEW h \in Hosts, PostPeers(h) PROVE PrefixInv'
  BY <1>4 DEF PostPeers, raft, hist, PrefixInv
<1>5. ASSUME NEW h \in Hosts, PostLearner(h) PROVE PrefixInv'
  BY <1>5, PostLearnerCommits, CommitPrefix DEF PostLearner
<1>6. ASSUME NEW h \in Hosts, PostVoter(h) PROVE PrefixInv'
  BY <1>6, PostVoterCommits, CommitPrefix DEF PostVoter
<1>7. ASSUME NEW h \in Hosts, PostRegister(h) PROVE PrefixInv'
  BY <1>7, PostRegisterCommits, CommitPrefix DEF PostRegister
<1>8. ASSUME NEW h \in Hosts, JoinReturns(h) PROVE PrefixInv'
  BY <1>8 DEF JoinReturns, raft, hist, PrefixInv
<1>9. ASSUME NEW h \in Hosts, Event, Exit(h) PROVE PrefixInv'
  BY <1>9, ForgetLog, PrefixSelf DEF Exit, RaftOK, PrefixInv
<1>10. ASSUME NEW h \in Hosts, Leave(h) PROVE PrefixInv'
  BY <1>10, LeaveCommits, CommitPrefix DEF Leave
<1>11. ASSUME NEW h \in Hosts, LeaveTearsDown(h) PROVE PrefixInv'
  BY <1>11, ForgetLog, PrefixSelf DEF LeaveTearsDown, RaftOK, PrefixInv
<1>12. ASSUME NEW h \in Hosts, Boot(h) PROVE PrefixInv'
  BY <1>12 DEF Boot, OpenedLog, RaftOK, hist, PrefixInv
<1>13. ASSUME NEW h \in Hosts, CatchUp(h) PROVE PrefixInv'
  BY <1>13 DEF CatchUp, OpenedLog, RaftOK, hist, PrefixInv
<1>14. ASSUME NEW h \in Hosts, Elect(h) PROVE PrefixInv'
  BY <1>14, PrefixBoth DEF Elect, RaftOK, PrefixInv
<1>15. ASSUME NEW h \in Hosts, Snapshot(h) PROVE PrefixInv'
  BY <1>15 DEF Snapshot, RaftOK, PrefixInv
<1>16. ASSUME NEW i \in Ids, RemoveNode(i) PROVE PrefixInv'
  BY <1>16, RemoveNodeCommits, CommitPrefix DEF RemoveNode
<1>17. ASSUME NEW i \in Ids, WatchdogDown(i) PROVE PrefixInv'
  BY <1>17, WatchdogDownCommits, CommitPrefix DEF WatchdogDown
<1> QED
  BY <1>1, <1>2, <1>3, <1>4, <1>5, <1>6, <1>7, <1>8, <1>9, <1>10, <1>11, <1>12, <1>13, <1>14, <1>15,
     <1>16, <1>17 DEF ClusterNext, Join, JoinFails, Stop

\* Every node id in use was generated by a join so far.
MillInv ==
    /\ \A h \in Hosts : MillsUpTo(log[h], count.joins) /\ MillsUpTo(snap[h], count.joins)
    /\ MillsUpTo(acked, count.joins)
    /\ \A h \in Hosts : pc[h] \in Joining => info[h].mill =< count.joins

\* An entry with a node id so far keeps the bound.
LEMMA MillsAppend ==
    ASSUME NEW lg \in Seq(Entries), NEW e \in Entries, NEW n \in Nat, MillsUpTo(lg, n), e.node.mill =< n
    PROVE  MillsUpTo(Append(lg, e), n)
<1> DEFINE new == Append(lg, e)
           m == Len(lg)
<1>1. /\ m \in Nat /\ DOMAIN lg = 1 .. m /\ DOMAIN new = 1 .. m + 1
      /\ new[m + 1] = e /\ \A k \in 1 .. m : new[k] = lg[k]
  BY SMTT(30)
<1>2. 1 .. m + 1 = (1 .. m) \cup {m + 1}
  BY <1>1, SMTT(30)
<1> HIDE DEF new, m
<1> QED
  BY <1>1, <1>2 DEF MillsUpTo, new

\* A further join only raises the bound.
LEMMA MillsMore ==
    ASSUME NEW lg \in Seq(Entries), NEW n \in Nat, MillsUpTo(lg, n)
    PROVE  MillsUpTo(lg, n + 1)
<1> SUFFICES ASSUME NEW k \in DOMAIN lg PROVE lg[k].node.mill =< n + 1
  BY DEF MillsUpTo
<1>1. lg[k] \in Entries
  BY SMTT(30)
<1>2. lg[k].node \in Nodes
  BY <1>1 DEF Entries
<1>3. lg[k].node.mill \in Nat
  BY <1>2, Fields, SMTT(30) DEF MillIds
<1>4. lg[k].node.mill =< n
  BY DEF MillsUpTo
<1> QED
  BY <1>3, <1>4, SMTT(30)

\* A committed entry names no node, or that of a request.
LEMMA CommitMills ==
    ASSUME RaftOK, HistoryOK, LeadInv, MillInv, NEW e \in Entries, Commit(e), count'.joins = count.joins,
           e.node.mill =< count.joins, \A h \in Hosts : pc'[h] \in Joining => pc[h] \in Joining, info' = info
    PROVE  MillInv'
<1>1. /\ leader \in Hosts /\ log[leader] \in Seq(Entries) /\ log'[leader] = Append(log[leader], e) /\ acked' = log'[leader]
      /\ \A h \in Hosts : log'[h] = log[h] \/ log'[h] = log'[leader]
      /\ snap' = snap
  BY CommitFacts
<1>2. count.joins \in Nat
  BY SMTT(30) DEF HistoryOK
<1>3. MillsUpTo(log'[leader], count.joins)
  BY <1>1, <1>2, MillsAppend DEF MillInv
<1> QED
  BY <1>1, <1>3 DEF MillInv

\* A join generates a node id that no log has.
LEMMA MillStep ==
    ASSUME ProcessOK, WireOK, RaftOK, HistoryOK, LeadInv, MillInv, [ClusterNext]_clusterVars
    PROVE  MillInv'
<1>1. CASE UNCHANGED clusterVars
  BY <1>1 DEF clusterVars, wire, raft, hist, MillInv
<1>2. ASSUME NEW h \in Hosts, NEW s \in Hosts, GetJoinInfo(h, s) PROVE MillInv'
  <2>1. UNCHANGED <<log, snap, acked>>
    BY <1>2 DEF GetJoinInfo, raft
  <2>2. count'.joins = count.joins + 1 /\ count.joins \in Nat
    BY <1>2, SMTT(30) DEF GetJoinInfo, HistoryOK
  <2>3. \A lg \in Seq(Entries) : MillsUpTo(lg, count.joins) => MillsUpTo(lg, count'.joins)
    BY <2>2, MillsMore
  <2>4. /\ \A k \in Hosts : MillsUpTo(log'[k], count'.joins) /\ MillsUpTo(snap'[k], count'.joins)
        /\ MillsUpTo(acked', count'.joins)
    BY <2>1, <2>3 DEF MillInv, RaftOK
  <2>5. ASSUME NEW k \in Hosts, pc'[k] \in Joining PROVE info'[k].mill =< count'.joins
    BY <1>2, <2>2, <2>5, Fields, SMTT(30) DEF GetJoinInfo, ProcessOK, MillInv, MillIds
  <2> QED
    BY <2>4, <2>5 DEF MillInv
<1>3. ASSUME NEW h \in Hosts, JoinPrepares(h) PROVE MillInv'
  BY <1>3, States DEF JoinPrepares, OpenedLog, RaftOK, hist, ProcessOK, MillInv
<1>4. ASSUME NEW h \in Hosts, PostPeers(h) PROVE MillInv'
  BY <1>4, Fields, States, SMTT(30) DEF PostPeers, raft, hist, ProcessOK, MillInv
<1>5. ASSUME NEW h \in Hosts, PostLearner(h) PROVE MillInv'
  <2>1. PICK e \in Entries : Commit(e) /\ e.node = NoNode
    BY <1>5, PostLearnerCommits
  <2>2. info' = info /\ \A k \in Hosts : pc'[k] \in Joining => pc[k] \in Joining
    BY <1>5, States DEF PostLearner, ProcessOK
  <2>3. count'.joins = count.joins
    BY <1>5 DEF PostLearner
  <2>4. e.node.mill =< count.joins
    BY <2>1, SMTT(30) DEF NoNode, HistoryOK
  <2> QED
    BY <2>1, <2>2, <2>3, <2>4, CommitMills
<1>6. ASSUME NEW h \in Hosts, PostVoter(h) PROVE MillInv'
  <2>1. PICK e \in Entries : Commit(e) /\ e.node = NoNode
    BY <1>6, PostVoterCommits
  <2>2. info' = info /\ \A k \in Hosts : pc'[k] \in Joining => pc[k] \in Joining
    BY <1>6, States DEF PostVoter, ProcessOK
  <2>3. count'.joins = count.joins
    BY <1>6 DEF PostVoter
  <2>4. e.node.mill =< count.joins
    BY <2>1, SMTT(30) DEF NoNode, HistoryOK
  <2> QED
    BY <2>1, <2>2, <2>3, <2>4, CommitMills
<1>7. ASSUME NEW h \in Hosts, PostRegister(h) PROVE MillInv'
  <2>1. PICK e \in Entries : Commit(e) /\ e.node = [mill |-> info[h].mill, ip |-> info[h].ip, key |-> h]
    BY <1>7, PostRegisterCommits
  <2>2. info' = info /\ \A k \in Hosts : pc'[k] \in Joining => pc[k] \in Joining
    BY <1>7, States DEF PostRegister, ProcessOK
  <2>3. count'.joins = count.joins
    BY <1>7 DEF PostRegister
  <2>4. e.node.mill =< count.joins
    BY <1>7, <2>1, States, SMTT(30) DEF PostRegister, MillInv
  <2> QED
    BY <2>1, <2>2, <2>3, <2>4, CommitMills
<1>8. ASSUME NEW h \in Hosts, JoinReturns(h) PROVE MillInv'
  BY <1>8, States DEF JoinReturns, raft, hist, ProcessOK, MillInv
<1>9. ASSUME NEW h \in Hosts, Event, Exit(h) PROVE MillInv'
  <2>1. Forget(h) /\ pc' = [pc EXCEPT ![h] = "off"] /\ UNCHANGED <<snap, acked>>
    BY <1>9 DEF Exit
  <2>2. log'[h] = <<>> /\ pc'[h] = "off" /\ \A k \in Hosts : k # h => log'[k] = log[k] /\ pc'[k] = pc[k]
    BY <2>1, ForgetLog
  <2>3. \A k \in Hosts : k # h => info'[k].mill = info[k].mill
    BY <2>1, ForgetKeeps
  <2>4. count'.joins = count.joins
    BY <1>9 DEF Exit, Event, HistoryOK
  <2> QED
    BY <2>1, <2>2, <2>3, <2>4, EmptyLog, States DEF MillInv
<1>10. ASSUME NEW h \in Hosts, Leave(h) PROVE MillInv'
  <2>1. PICK e \in Entries : Commit(e) /\ e.node = NoNode
    BY <1>10, LeaveCommits, SMTT(30)
  <2>2. info' = info /\ \A k \in Hosts : pc'[k] \in Joining => pc[k] \in Joining
    BY <1>10, States DEF Leave, ProcessOK
  <2>3. count'.joins = count.joins
    BY <1>10 DEF Leave, Event, HistoryOK
  <2>4. e.node.mill =< count.joins
    BY <2>1, SMTT(30) DEF NoNode, HistoryOK
  <2> QED
    BY <2>1, <2>2, <2>3, <2>4, CommitMills
<1>11. ASSUME NEW h \in Hosts, LeaveTearsDown(h) PROVE MillInv'
  <2>1. Forget(h) /\ pc' = [pc EXCEPT ![h] = "off"] /\ UNCHANGED <<snap, acked>>
    BY <1>11 DEF LeaveTearsDown
  <2>2. log'[h] = <<>> /\ pc'[h] = "off" /\ \A k \in Hosts : k # h => log'[k] = log[k] /\ pc'[k] = pc[k]
    BY <2>1, ForgetLog
  <2>3. \A k \in Hosts : k # h => info'[k].mill = info[k].mill
    BY <2>1, ForgetKeeps
  <2>4. count'.joins = count.joins
    BY <1>11 DEF LeaveTearsDown, Event, HistoryOK
  <2> QED
    BY <2>1, <2>2, <2>3, <2>4, EmptyLog, States DEF MillInv
<1>12. ASSUME NEW h \in Hosts, Boot(h) PROVE MillInv'
  BY <1>12, States DEF Boot, OpenedLog, RaftOK, hist, ProcessOK, MillInv
<1>13. ASSUME NEW h \in Hosts, CatchUp(h) PROVE MillInv'
  BY <1>13, States DEF CatchUp, OpenedLog, RaftOK, hist, ProcessOK, MillInv
<1>14. ASSUME NEW h \in Hosts, Elect(h) PROVE MillInv'
  BY <1>14 DEF Elect, MillInv
<1>15. ASSUME NEW h \in Hosts, Snapshot(h) PROVE MillInv'
  BY <1>15 DEF Snapshot, RaftOK, Event, HistoryOK, MillInv
<1>16. ASSUME NEW i \in Ids, RemoveNode(i) PROVE MillInv'
  BY <1>16, RemoveNodeCommits, States, CommitMills, SMTT(30) DEF RemoveNode, ProcessOK, Event, HistoryOK,
     NoNode
<1>17. ASSUME NEW i \in Ids, WatchdogDown(i) PROVE MillInv'
  <2>1. PICK e \in Entries : Commit(e) /\ e.node = NoNode
    BY <1>17, WatchdogDownCommits
  <2>2. info' = info /\ \A k \in Hosts : pc'[k] \in Joining => pc[k] \in Joining
    BY <1>17, States DEF WatchdogDown, ProcessOK
  <2>3. count'.joins = count.joins
    BY <1>17 DEF WatchdogDown, Event, HistoryOK
  <2>4. e.node.mill =< count.joins
    BY <2>1, SMTT(30) DEF NoNode, HistoryOK
  <2> QED
    BY <2>1, <2>2, <2>3, <2>4, CommitMills
<1> QED
  BY <1>1, <1>2, <1>3, <1>4, <1>5, <1>6, <1>7, <1>8, <1>9, <1>10, <1>11, <1>12, <1>13, <1>14, <1>15,
     <1>16, <1>17 DEF ClusterNext, Join, JoinFails, Stop

-----------------------------------------------------------------------------
(* Joins one at a time. *)

\* While joins do not overlap, at most one daemon joins.
OneJoin == ~ overlap => \A h, k \in Hosts : pc[h] \in Joining /\ pc[k] \in Joining => h = k

\* What the joining daemon was told is not in use.
FreshInv ==
    ~ overlap /\ ~ lost =>
        \A h \in Hosts : pc[h] \in Before =>
            /\ info[h].raft \notin Registered(acked)
            /\ \A i \in Registered(acked) : NodeAt(acked, i).mill # info[h].mill

\* Who joined is registered, under its own node id and nowhere else.
JoinedInv ==
    ~ overlap /\ ~ lost =>
        \A h \in joined : RaftIdFor(acked, identity[h].mill) = {identity[h].raft}

\* overlap records the second join.
LEMMA OneJoinStep ==
    ASSUME ProcessOK, OneJoin, [ClusterNext]_clusterVars
    PROVE  OneJoin'
<1>1. CASE UNCHANGED clusterVars
  BY <1>1 DEF clusterVars, wire, raft, hist, OneJoin
<1>2. ASSUME NEW h \in Hosts, NEW s \in Hosts, GetJoinInfo(h, s) PROVE OneJoin'
  BY <1>2 DEF GetJoinInfo, ProcessOK, OneJoin
<1>3. ASSUME NEW h \in Hosts, JoinPrepares(h) PROVE OneJoin'
  <2>1. overlap' = overlap
    BY <1>3 DEF JoinPrepares, hist
  <2>2. \A k \in Hosts : pc'[k] \in Joining => pc[k] \in Joining
    BY <1>3, States DEF JoinPrepares, ProcessOK
  <2> QED
    BY <2>1, <2>2 DEF OneJoin
<1>4. ASSUME NEW h \in Hosts, PostPeers(h) PROVE OneJoin'
  <2>1. overlap' = overlap
    BY <1>4 DEF PostPeers, hist
  <2>2. \A k \in Hosts : pc'[k] \in Joining => pc[k] \in Joining
    BY <1>4, States DEF PostPeers, ProcessOK
  <2> QED
    BY <2>1, <2>2 DEF OneJoin
<1>5. ASSUME NEW h \in Hosts, PostLearner(h) PROVE OneJoin'
  <2>1. overlap' = overlap
    BY <1>5 DEF PostLearner, hist
  <2>2. \A k \in Hosts : pc'[k] \in Joining => pc[k] \in Joining
    BY <1>5, States DEF PostLearner, ProcessOK
  <2> QED
    BY <2>1, <2>2 DEF OneJoin
<1>6. ASSUME NEW h \in Hosts, PostVoter(h) PROVE OneJoin'
  BY <1>6, States DEF PostVoter, hist, ProcessOK, OneJoin
<1>7. ASSUME NEW h \in Hosts, PostRegister(h) PROVE OneJoin'
  <2>1. overlap' = overlap
    BY <1>7 DEF PostRegister, hist
  <2>2. \A k \in Hosts : pc'[k] \in Joining => pc[k] \in Joining
    BY <1>7, States DEF PostRegister, ProcessOK
  <2> QED
    BY <2>1, <2>2 DEF OneJoin
<1>8. ASSUME NEW h \in Hosts, JoinReturns(h) PROVE OneJoin'
  <2>1. overlap' = overlap
    BY <1>8 DEF JoinReturns, hist
  <2>2. \A k \in Hosts : pc'[k] \in Joining => pc[k] \in Joining
    BY <1>8, States DEF JoinReturns, ProcessOK
  <2> QED
    BY <2>1, <2>2 DEF OneJoin
<1>9. ASSUME NEW h \in Hosts, Event, Exit(h) PROVE OneJoin'
  <2>1. overlap' = overlap
    BY <1>9 DEF Exit, hist
  <2>2. \A k \in Hosts : pc'[k] \in Joining => pc[k] \in Joining
    BY <1>9, States DEF Exit, ProcessOK
  <2> QED
    BY <2>1, <2>2 DEF OneJoin
<1>10. ASSUME NEW h \in Hosts, Leave(h) PROVE OneJoin'
  <2>1. overlap' = overlap
    BY <1>10 DEF Leave, hist
  <2>2. \A k \in Hosts : pc'[k] \in Joining => pc[k] \in Joining
    BY <1>10, States DEF Leave, ProcessOK
  <2> QED
    BY <2>1, <2>2 DEF OneJoin
<1>11. ASSUME NEW h \in Hosts, LeaveTearsDown(h) PROVE OneJoin'
  <2>1. overlap' = overlap
    BY <1>11 DEF LeaveTearsDown, hist
  <2>2. \A k \in Hosts : pc'[k] \in Joining => pc[k] \in Joining
    BY <1>11, States DEF LeaveTearsDown, ProcessOK
  <2> QED
    BY <2>1, <2>2 DEF OneJoin
<1>12. ASSUME NEW h \in Hosts, Boot(h) PROVE OneJoin'
  BY <1>12, States DEF Boot, hist, ProcessOK, OneJoin
<1>13. ASSUME NEW h \in Hosts, CatchUp(h) PROVE OneJoin'
  BY <1>13, States DEF CatchUp, hist, ProcessOK, OneJoin
<1>14. ASSUME NEW h \in Hosts, Elect(h) PROVE OneJoin'
  BY <1>14, States DEF Elect, hist, ProcessOK, OneJoin
<1>15. ASSUME NEW h \in Hosts, Snapshot(h) PROVE OneJoin'
  BY <1>15, States DEF Snapshot, hist, ProcessOK, OneJoin
<1>16. ASSUME NEW i \in Ids, RemoveNode(i) PROVE OneJoin'
  BY <1>16, States DEF RemoveNode, hist, ProcessOK, OneJoin
<1>17. ASSUME NEW i \in Ids, WatchdogDown(i) PROVE OneJoin'
  BY <1>17, States DEF WatchdogDown, hist, ProcessOK, OneJoin
<1> QED
  BY <1>1, <1>2, <1>3, <1>4, <1>5, <1>6, <1>7, <1>8, <1>9, <1>10, <1>11, <1>12, <1>13, <1>14, <1>15,
     <1>16, <1>17 DEF ClusterNext, Join, JoinFails, Stop

\* get_join_info: the next raft id is that of no registered node.
LEMMA NextRaftIdIsNew ==
    ASSUME NEW lg \in Seq(Entries)
    PROVE  NextRaftId(lg) \notin Registered(lg)
<1> DEFINE S == {0} \cup Registered(lg)
<1>1. S \subseteq 0 .. MaxId
  BY Bounds, SMTT(30) DEF Registered, Ids
<1>2. MaxId \in Nat
  BY Bounds
<1>3. S \in SUBSET Int /\ S # {}
  BY <1>1, SMTT(30)
<1>4. Max(S) \in S /\ \A y \in S : Max(S) >= y
  BY <1>1, <1>2, <1>3, MaxOf
<1>5. NextRaftId(lg) = Max(S) + 1
  BY DEF NextRaftId
<1> HIDE DEF S
<1>6. ~ (Max(S) >= Max(S) + 1)
  <2>1. Max(S) \in Int
    BY <1>3, <1>4
  <2>2. \A x \in Int : ~ (x >= x + 1)
    BY SMTT(30)
  <2> QED
    BY <2>1, <2>2
<1>7. Max(S) + 1 \notin S
  BY <1>4, <1>6
<1> QED
  BY <1>5, <1>7 DEF S

\* allocate_tunnel_ip: the address is that of no registered node.
LEMMA TunnelIpIsFree ==
    ASSUME NEW lg \in Seq(Entries), NEW i \in Registered(lg)
    PROVE  NodeAt(lg, i).ip # AllocateTunnelIp(lg)
<1> DEFINE used == {NodeAt(lg, j).ip : j \in Registered(lg)}
           S == (1 .. MaxId + 1) \ used
<1>1. MaxId \in Nat /\ MaxId + 1 \in 1 .. MaxId + 1 /\ MaxId + 1 \notin Addresses
  BY Bounds, SMTT(30) DEF Addresses
<1>2. used \subseteq Addresses
  BY NodeTyped, Fields
<1>3. MaxId + 1 \in S
  BY <1>1, <1>2
<1>6. S \in SUBSET Nat
  BY <1>1, SMTT(30)
<1>7. Min(S) \in S
  BY <1>3, <1>6, MinOf
<1> QED
  BY <1>7 DEF AllocateTunnelIp

\* The daemons that answer to a node id after an entry.
LEMMA RaftIdAppend ==
    ASSUME NEW lg \in Seq(Entries), NEW e \in Entries, NEW m, NEW i \in Ids
    PROVE  i \in RaftIdFor(Append(lg, e), m) <=>
               \/ e.op = "register" /\ e.id = i /\ e.node.mill = m
               \/ ~ (e.op \in {"register", "remove"} /\ e.id = i) /\ i \in RaftIdFor(lg, m)
<1> DEFINE new == Append(lg, e)
<1>1. Registered(new) = IF e.op = "register" THEN Registered(lg) \cup (Ids \cap {e.id})
                        ELSE IF e.op = "remove" THEN Registered(lg) \ {e.id} ELSE Registered(lg)
  BY RegisteredAppend
<1>2. NodeAt(new, i) = IF e.op = "register" /\ e.id = i THEN e.node ELSE NodeAt(lg, i)
  BY NodeAppend
<1>3. "register" # "remove"
  BY SMTT(30)
<1>4. \A l : i \in RaftIdFor(l, m) <=> i \in Registered(l) /\ NodeAt(l, i).mill = m
  BY DEF RaftIdFor
<1> HIDE DEF new
<1>5. CASE e.op = "register" /\ e.id = i
  BY <1>1, <1>2, <1>4, <1>5, SMTT(30) DEF new
<1>6. CASE e.op = "remove" /\ e.id = i
  BY <1>1, <1>2, <1>3, <1>4, <1>6, SMTT(30) DEF new
<1>7. CASE ~ (e.op \in {"register", "remove"} /\ e.id = i)
  BY <1>1, <1>2, <1>3, <1>4, <1>7, SMTT(30) DEF new
<1> QED
  BY <1>5, <1>6, <1>7, SMTT(30)

\* An entry that is neither NodeRegister nor NodeRemove leaves them.
LEMMA RaftIdKept ==
    ASSUME NEW lg \in Seq(Entries), NEW e \in Entries, e.op \notin {"register", "remove"}, NEW m
    PROVE  RaftIdFor(Append(lg, e), m) = RaftIdFor(lg, m)
<1>1. RaftIdFor(Append(lg, e), m) \subseteq Ids /\ RaftIdFor(lg, m) \subseteq Ids
  BY DEF RaftIdFor, Registered
<1>2. \A j \in Ids : j \in RaftIdFor(Append(lg, e), m) <=> j \in RaftIdFor(lg, m)
  BY RaftIdAppend, SMTT(30)
<1> QED
  BY <1>1, <1>2

\* An entry that is no NodeRegister adds no node and changes none.
LEMMA NoNewNode ==
    ASSUME RaftOK, LeadInv, NEW e \in Entries, Commit(e), e.op # "register"
    PROVE  /\ Registered(acked') \subseteq Registered(acked)
           /\ \A i \in Registered(acked) : NodeAt(acked', i) = NodeAt(acked, i)
<1>1. acked \in Seq(Entries) /\ acked' = Append(acked, e)
  BY CommitFacts DEF LeadInv
<1>2. Registered(Append(acked, e)) \subseteq Registered(acked)
  BY <1>1, RegisteredAppend, SMTT(30)
<1>3. \A i : NodeAt(Append(acked, e), i) = NodeAt(acked, i)
  BY <1>1, NodeAppend, SMTT(30)
<1> QED
  BY <1>1, <1>2, <1>3

\* A leader elected without loss has exactly what was acknowledged.
LEMMA ElectKeeps ==
    ASSUME RaftOK, HistoryOK, PrefixInv, NEW h \in Hosts, Elect(h), ~ lost'
    PROVE  acked' = acked /\ ~ lost
<1>1. acked' = log[h] /\ lost' = (lost \/ ~ Begins(acked, log[h]))
  BY DEF Elect
<1>2. ~ lost /\ Begins(acked, log[h])
  BY <1>1
<1>3. acked \in Seq(Entries) /\ log[h] \in Seq(Entries) /\ Begins(log[h], acked)
  BY <1>2 DEF RaftOK, PrefixInv
<1> QED
  BY <1>1, <1>2, <1>3, PrefixBoth

\* get_join_info hands out what is not in use, and no other join takes it meanwhile.
LEMMA FreshStep ==
    ASSUME ProcessOK, WireOK, RaftOK, HistoryOK, LeadInv, PrefixInv, MillInv, OneJoin, FreshInv, [ClusterNext]_clusterVars
    PROVE  FreshInv'
<1>1. CASE UNCHANGED clusterVars
  BY <1>1 DEF clusterVars, wire, raft, hist, FreshInv
<1>2. ASSUME NEW h \in Hosts, NEW s \in Hosts, GetJoinInfo(h, s) PROVE FreshInv'
  <2>1. overlap' = (overlap \/ (\E k \in Hosts : pc[k] \in Joining) \/ log[s] # acked)
    BY <1>2 DEF GetJoinInfo
  <2>2. UNCHANGED <<acked, lost>> /\ \A k \in Hosts : k # h => pc'[k] = pc[k]
    BY <1>2 DEF GetJoinInfo, ProcessOK
  <2>3. info'[h].raft = NextRaftId(log[s]) /\ info'[h].mill = count.joins + 1
    BY <1>2 DEF GetJoinInfo, ProcessOK
  <2>4. NextRaftId(acked) \notin Registered(acked)
    BY NextRaftIdIsNew DEF RaftOK
  <2>5. ASSUME NEW i \in Registered(acked) PROVE NodeAt(acked, i).mill # count.joins + 1
    <3>1. acked \in Seq(Entries)
      BY DEF RaftOK
    <3>2. NodeAt(acked, i) \in Nodes /\ \E n \in DOMAIN acked : NodeAt(acked, i) = acked[n].node
      BY <3>1, <2>5, NodeTyped
    <3>3. NodeAt(acked, i).mill =< count.joins
      BY <3>2 DEF MillInv, MillsUpTo
    <3>4. NodeAt(acked, i).mill \in MillIds
      BY <3>2, Fields
    <3> QED
      BY <3>3, <3>4, SMTT(30) DEF MillIds, HistoryOK
  <2> QED
    BY <2>1, <2>2, <2>3, <2>4, <2>5, Phases DEF FreshInv
<1>3. ASSUME NEW h \in Hosts, JoinPrepares(h) PROVE FreshInv'
  BY <1>3, Phases DEF JoinPrepares, hist, ProcessOK, FreshInv
<1>4. ASSUME NEW h \in Hosts, PostPeers(h) PROVE FreshInv'
  BY <1>4, Fields, Phases, SMTT(30) DEF PostPeers, hist, ProcessOK, FreshInv
<1>5. ASSUME NEW h \in Hosts, PostLearner(h) PROVE FreshInv'
  BY <1>5, PostLearnerCommits, NoNewNode, Phases DEF PostLearner, ProcessOK, FreshInv
<1>6. ASSUME NEW h \in Hosts, PostVoter(h) PROVE FreshInv'
  BY <1>6, PostVoterCommits, NoNewNode, Phases DEF PostVoter, ProcessOK, FreshInv
<1>7. ASSUME NEW h \in Hosts, PostRegister(h) PROVE FreshInv'
  <2>1. UNCHANGED <<overlap>> /\ pc'[h] = "registered" /\ \A k \in Hosts : k # h => pc'[k] = pc[k]
    BY <1>7 DEF PostRegister, ProcessOK
  <2>2. pc[h] \in Joining
    BY <1>7, States DEF PostRegister
  <2> QED
    BY <2>1, <2>2, Phases DEF FreshInv, OneJoin
<1>8. ASSUME NEW h \in Hosts, JoinReturns(h) PROVE FreshInv'
  BY <1>8, Phases DEF JoinReturns, hist, ProcessOK, FreshInv
<1>9. ASSUME NEW h \in Hosts, Event, Exit(h) PROVE FreshInv'
  <2>1. Forget(h) /\ pc' = [pc EXCEPT ![h] = "off"] /\ UNCHANGED <<acked, overlap, lost>>
    BY <1>9 DEF Exit
  <2>2. pc'[h] = "off" /\ \A k \in Hosts : k # h => pc'[k] = pc[k]
    BY <2>1, ForgetLog
  <2>3. \A k \in Hosts : k # h => info'[k].raft = info[k].raft /\ info'[k].mill = info[k].mill
    BY <2>1, ForgetKeeps
  <2> QED
    BY <2>1, <2>2, <2>3, Phases DEF FreshInv
<1>10. ASSUME NEW h \in Hosts, Leave(h) PROVE FreshInv'
  BY <1>10, LeaveCommits, NoNewNode, Phases DEF Leave, ProcessOK, FreshInv
<1>11. ASSUME NEW h \in Hosts, LeaveTearsDown(h) PROVE FreshInv'
  <2>1. Forget(h) /\ pc' = [pc EXCEPT ![h] = "off"] /\ UNCHANGED <<acked, overlap, lost>>
    BY <1>11 DEF LeaveTearsDown
  <2>2. pc'[h] = "off" /\ \A k \in Hosts : k # h => pc'[k] = pc[k]
    BY <2>1, ForgetLog
  <2>3. \A k \in Hosts : k # h => info'[k].raft = info[k].raft /\ info'[k].mill = info[k].mill
    BY <2>1, ForgetKeeps
  <2> QED
    BY <2>1, <2>2, <2>3, Phases DEF FreshInv
<1>12. ASSUME NEW h \in Hosts, Boot(h) PROVE FreshInv'
  BY <1>12, Phases DEF Boot, hist, ProcessOK, FreshInv
<1>13. ASSUME NEW h \in Hosts, CatchUp(h) PROVE FreshInv'
  BY <1>13, Phases DEF CatchUp, hist, ProcessOK, FreshInv
<1>14. ASSUME NEW h \in Hosts, Elect(h) PROVE FreshInv'
  BY <1>14, ElectKeeps DEF Elect, FreshInv
<1>15. ASSUME NEW h \in Hosts, Snapshot(h) PROVE FreshInv'
  BY <1>15, Phases DEF Snapshot, hist, ProcessOK, FreshInv
<1>16. ASSUME NEW i \in Ids, RemoveNode(i) PROVE FreshInv'
  <2>1. PICK e \in Entries : Commit(e) /\ e.op # "register"
    BY <1>16, RemoveNodeCommits
  <2>2. /\ Registered(acked') \subseteq Registered(acked)
        /\ \A j \in Registered(acked) : NodeAt(acked', j) = NodeAt(acked, j)
    BY <2>1, NoNewNode
  <2>3. UNCHANGED <<overlap, lost, info>> /\ \A k \in Hosts : pc'[k] \in Before => pc[k] \in Before
    BY <1>16, Phases DEF RemoveNode, ProcessOK
  <2> QED
    BY <2>2, <2>3 DEF FreshInv
<1>17. ASSUME NEW i \in Ids, WatchdogDown(i) PROVE FreshInv'
  BY <1>17, WatchdogDownCommits, NoNewNode, Phases DEF WatchdogDown, ProcessOK, FreshInv
<1> QED
  BY <1>1, <1>2, <1>3, <1>4, <1>5, <1>6, <1>7, <1>8, <1>9, <1>10, <1>11, <1>12, <1>13, <1>14, <1>15,
     <1>16, <1>17 DEF ClusterNext, Join, JoinFails, Stop

\* A removal takes the node of that id, and only it.
LEMMA RemoveJoined ==
    ASSUME RaftOK, LeadInv, JoinedInv, NEW i \in Ids, NEW e \in Entries, Commit(e), e.op = "remove", e.id = i,
           DeleteNode(i), UNCHANGED <<overlap, lost, identity>>
    PROVE  JoinedInv'
<1>1. acked \in Seq(Entries) /\ acked' = Append(acked, e) /\ log[leader] = acked
  BY CommitFacts DEF LeadInv
<1>2. joined' = {h \in joined : identity[h].mill # NodeAt(acked, i).mill}
  BY <1>1 DEF DeleteNode
<1>3. \A m : \A j \in Ids : j \in RaftIdFor(acked', m) <=> j # i /\ j \in RaftIdFor(acked, m)
  BY <1>1, RaftIdAppend, SMTT(30)
<1>4. \A m, j : j \in RaftIdFor(acked, m) \/ j \in RaftIdFor(acked', m) => j \in Ids
  BY DEF RaftIdFor, Registered
<1>5. SUFFICES ASSUME ~ overlap, ~ lost, NEW k \in joined, identity[k].mill # NodeAt(acked, i).mill
               PROVE  RaftIdFor(acked', identity[k].mill) = {identity[k].raft}
  BY <1>2 DEF JoinedInv
<1>6. RaftIdFor(acked, identity[k].mill) = {identity[k].raft}
  BY <1>5 DEF JoinedInv
<1>7. NodeAt(acked, identity[k].raft).mill = identity[k].mill
  BY <1>6 DEF RaftIdFor
<1>8. i # identity[k].raft
  BY <1>5, <1>7
<1>9. \A j : j \in RaftIdFor(acked', identity[k].mill) <=> j \in RaftIdFor(acked, identity[k].mill)
  BY <1>3, <1>4, <1>6, <1>8
<1> QED
  BY <1>6, <1>9

\* NodeRegister and NodeRemove of other nodes leave a joined node where it is.
LEMMA JoinedStep ==
    ASSUME ProcessOK, WireOK, RaftOK, HistoryOK, MatchInv, MemberInv, LeadInv, PrefixInv, FreshInv, JoinedInv, [ClusterNext]_clusterVars
    PROVE  JoinedInv'
<1>1. CASE UNCHANGED clusterVars
  BY <1>1 DEF clusterVars, wire, raft, hist, JoinedInv
<1>2. ASSUME NEW h \in Hosts, NEW s \in Hosts, GetJoinInfo(h, s) PROVE JoinedInv'
  BY <1>2 DEF GetJoinInfo, JoinedInv
<1>3. ASSUME NEW h \in Hosts, JoinPrepares(h) PROVE JoinedInv'
  <2>1. UNCHANGED <<acked, overlap, lost, joined>> /\ h \notin joined
    BY <1>3, Phases DEF JoinPrepares, hist, MemberInv
  <2>2. \A k \in Hosts : k # h => identity'[k] = identity[k]
    BY <1>3 DEF JoinPrepares, ProcessOK
  <2> QED
    BY <2>1, <2>2 DEF JoinedInv, HistoryOK
<1>4. ASSUME NEW h \in Hosts, PostPeers(h) PROVE JoinedInv'
  BY <1>4 DEF PostPeers, hist, JoinedInv
<1>5. ASSUME NEW h \in Hosts, PostLearner(h) PROVE JoinedInv'
  <2>1. PICK e \in Entries : Commit(e) /\ e.op \in {"learner", "voters", "down"}
    BY <1>5, PostLearnerCommits
  <2>2. acked \in Seq(Entries) /\ acked' = Append(acked, e)
    BY <2>1, CommitFacts DEF LeadInv
  <2>3. e.op \notin {"register", "remove"}
    BY <2>1, SMTT(30)
  <2>4. \A m : RaftIdFor(acked', m) = RaftIdFor(acked, m)
    BY <2>2, <2>3, RaftIdKept
  <2>5. UNCHANGED <<overlap, lost, identity, joined>>
    BY <1>5 DEF PostLearner
  <2> QED
    BY <2>4, <2>5 DEF JoinedInv
<1>6. ASSUME NEW h \in Hosts, PostVoter(h) PROVE JoinedInv'
  <2>1. PICK e \in Entries : Commit(e) /\ e.op \in {"learner", "voters", "down"}
    BY <1>6, PostVoterCommits
  <2>2. acked \in Seq(Entries) /\ acked' = Append(acked, e)
    BY <2>1, CommitFacts DEF LeadInv
  <2>3. e.op \notin {"register", "remove"}
    BY <2>1, SMTT(30)
  <2>4. \A m : RaftIdFor(acked', m) = RaftIdFor(acked, m)
    BY <2>2, <2>3, RaftIdKept
  <2>5. UNCHANGED <<overlap, lost, identity, joined>>
    BY <1>6 DEF PostVoter
  <2> QED
    BY <2>4, <2>5 DEF JoinedInv
<1>7. ASSUME NEW h \in Hosts, PostRegister(h) PROVE JoinedInv'
  <2>1. PICK e \in Entries : /\ Commit(e) /\ e.op = "register" /\ e.id = info[h].raft
                              /\ e.node = [mill |-> info[h].mill, ip |-> info[h].ip, key |-> h]
    BY <1>7, PostRegisterCommits
  <2>2. acked \in Seq(Entries) /\ acked' = Append(acked, e)
    BY <2>1, CommitFacts DEF LeadInv
  <2>3. /\ UNCHANGED <<overlap, lost, identity>> /\ joined' = joined \cup {h} /\ pc[h] = "voter"
        /\ pc[h] \in Before /\ pc[h] \in After
    BY <1>7, Phases DEF PostRegister
  <2>4. info[h].raft \in Ids /\ identity[h].mill = info[h].mill /\ identity[h].raft = info[h].raft
    BY <2>3, Fields, Phases DEF MatchInv, ProcessOK
  <2>5. e.node.mill = info[h].mill
    BY <2>1, SMTT(30)
  <2>6. \A m : \A j \in Ids : j \in RaftIdFor(acked', m) <=>
            \/ j = info[h].raft /\ m = info[h].mill
            \/ j # info[h].raft /\ j \in RaftIdFor(acked, m)
    BY <2>1, <2>2, <2>5, RaftIdAppend, SMTT(30)
  <2>7. \A m, j : j \in RaftIdFor(acked, m) \/ j \in RaftIdFor(acked', m) => j \in Ids
    BY DEF RaftIdFor, Registered
  <2>8. SUFFICES ASSUME ~ overlap, ~ lost, NEW k \in joined'
                 PROVE  RaftIdFor(acked', identity[k].mill) = {identity[k].raft}
    BY <2>3 DEF JoinedInv
  <2>9. /\ info[h].raft \notin Registered(acked)
        /\ \A i \in Registered(acked) : NodeAt(acked, i).mill # info[h].mill
    BY <2>3, <2>8 DEF FreshInv
  <2>10. CASE k = h
    <3>1. \A j : j \notin RaftIdFor(acked, info[h].mill)
      BY <2>9 DEF RaftIdFor
    <3>2. \A j : j \in RaftIdFor(acked', info[h].mill) <=> j = info[h].raft
      BY <2>4, <2>6, <2>7, <3>1
    <3>3. RaftIdFor(acked', info[h].mill) = {info[h].raft}
      BY <3>2
    <3> QED
      BY <2>4, <2>10, <3>3
  <2>11. CASE k # h
    <3>1. RaftIdFor(acked, identity[k].mill) = {identity[k].raft}
      BY <2>3, <2>8, <2>11 DEF JoinedInv
    <3>2. identity[k].raft \in Registered(acked) /\ NodeAt(acked, identity[k].raft).mill = identity[k].mill
      BY <3>1 DEF RaftIdFor
    <3>3. identity[k].raft # info[h].raft /\ identity[k].mill # info[h].mill
      BY <2>9, <3>2
    <3>4. \A j : j \in RaftIdFor(acked', identity[k].mill) <=> j \in RaftIdFor(acked, identity[k].mill)
      BY <2>6, <2>7, <3>1, <3>3
    <3> QED
      BY <3>1, <3>4
  <2> QED
    BY <2>10, <2>11
<1>8. ASSUME NEW h \in Hosts, JoinReturns(h) PROVE JoinedInv'
  BY <1>8 DEF JoinReturns, hist, JoinedInv
<1>9. ASSUME NEW h \in Hosts, Event, Exit(h) PROVE JoinedInv'
  BY <1>9 DEF Exit, hist, JoinedInv
<1>10. ASSUME NEW h \in Hosts, Leave(h) PROVE JoinedInv'
  BY <1>10, LeaveCommits, RemoveJoined DEF Leave, RaftIdFor, Registered
<1>11. ASSUME NEW h \in Hosts, LeaveTearsDown(h) PROVE JoinedInv'
  BY <1>11, Phases DEF LeaveTearsDown, hist, MemberInv, ProcessOK, JoinedInv, HistoryOK
<1>12. ASSUME NEW h \in Hosts, Boot(h) PROVE JoinedInv'
  BY <1>12 DEF Boot, hist, JoinedInv
<1>13. ASSUME NEW h \in Hosts, CatchUp(h) PROVE JoinedInv'
  BY <1>13 DEF CatchUp, hist, JoinedInv
<1>14. ASSUME NEW h \in Hosts, Elect(h) PROVE JoinedInv'
  BY <1>14, ElectKeeps DEF Elect, JoinedInv
<1>15. ASSUME NEW h \in Hosts, Snapshot(h) PROVE JoinedInv'
  BY <1>15 DEF Snapshot, hist, JoinedInv
<1>16. ASSUME NEW i \in Ids, RemoveNode(i) PROVE JoinedInv'
  <2>1. PICK e \in Entries : Commit(e) /\ e.op = "remove" /\ e.id = i
    BY <1>16, RemoveNodeCommits
  <2>2. DeleteNode(i) /\ UNCHANGED <<overlap, lost, identity>>
    BY <1>16 DEF RemoveNode
  <2> QED
    BY <2>1, <2>2, RemoveJoined, SMTT(30)
<1>17. ASSUME NEW i \in Ids, WatchdogDown(i) PROVE JoinedInv'
  <2>1. PICK e \in Entries : Commit(e) /\ e.op \in {"learner", "voters", "down"}
    BY <1>17, WatchdogDownCommits
  <2>2. acked \in Seq(Entries) /\ acked' = Append(acked, e)
    BY <2>1, CommitFacts DEF LeadInv
  <2>3. e.op \notin {"register", "remove"}
    BY <2>1, SMTT(30)
  <2>4. \A m : RaftIdFor(acked', m) = RaftIdFor(acked, m)
    BY <2>2, <2>3, RaftIdKept
  <2>5. UNCHANGED <<overlap, lost, identity, joined>>
    BY <1>17 DEF WatchdogDown
  <2> QED
    BY <2>4, <2>5 DEF JoinedInv
<1> QED
  BY <1>1, <1>2, <1>3, <1>4, <1>5, <1>6, <1>7, <1>8, <1>9, <1>10, <1>11, <1>12, <1>13, <1>14, <1>15,
     <1>16, <1>17 DEF ClusterNext, Join, JoinFails, Stop

-----------------------------------------------------------------------------
(* The leader's peers. *)

\* A daemon that was taken as a peer, and neither stopped nor started over.
Staying == Posted \cup {"registered"} \cup Serving

\* Only the present leader has admitted somebody: a stop of either ends it.
AdmittedInv ==
    \A h \in Hosts : admitted[h] # None => admitted[h] = leader /\ pc[h] \in Staying

\* The states in which an admitted daemon can be, told apart.
LEMMA Stays ==
    /\ "off" \notin Staying /\ "info" \notin Staying /\ "open" \notin Staying
    /\ "peered" \in Staying /\ "learner" \in Staying /\ "voter" \in Staying
    /\ "registered" \in Staying /\ "up" \in Staying /\ "leaving" \in Staying
<1>1. "off" \notin Staying /\ "info" \notin Staying /\ "open" \notin Staying
  BY SMTT(30) DEF Staying, Posted, Serving
<1>2. "peered" \in Staying /\ "learner" \in Staying /\ "voter" \in Staying
  BY DEF Staying, Posted
<1>3. "registered" \in Staying /\ "up" \in Staying /\ "leaving" \in Staying
  BY DEF Staying, Serving
<1> QED
  BY <1>1, <1>2, <1>3

\* A stop of the leader or of the admitted daemon ends an admission.
LEMMA AdmittedStep ==
    ASSUME ProcessOK, WireOK, RaftOK, HistoryOK, AdmittedInv, [ClusterNext]_clusterVars
    PROVE  AdmittedInv'
<1>1. CASE UNCHANGED clusterVars
  BY <1>1 DEF clusterVars, wire, raft, hist, AdmittedInv
<1>2. ASSUME NEW h \in Hosts, NEW s \in Hosts, GetJoinInfo(h, s) PROVE AdmittedInv'
  BY <1>2 DEF GetJoinInfo, raft, ProcessOK, HistoryOK, AdmittedInv
<1>3. ASSUME NEW h \in Hosts, JoinPrepares(h) PROVE AdmittedInv'
  BY <1>3, Stays DEF JoinPrepares, hist, ProcessOK, AdmittedInv
<1>4. ASSUME NEW h \in Hosts, PostPeers(h) PROVE AdmittedInv'
  BY <1>4, Stays DEF PostPeers, raft, ProcessOK, HistoryOK, AdmittedInv
<1>5. ASSUME NEW h \in Hosts, PostLearner(h) PROVE AdmittedInv'
  BY <1>5, Stays DEF PostLearner, Commit, ProcessOK, AdmittedInv
<1>6. ASSUME NEW h \in Hosts, PostVoter(h) PROVE AdmittedInv'
  BY <1>6, Stays DEF PostVoter, Commit, ProcessOK, AdmittedInv
<1>7. ASSUME NEW h \in Hosts, PostRegister(h) PROVE AdmittedInv'
  BY <1>7, Stays DEF PostRegister, Commit, ProcessOK, AdmittedInv
<1>8. ASSUME NEW h \in Hosts, JoinReturns(h) PROVE AdmittedInv'
  BY <1>8, Stays DEF JoinReturns, raft, hist, ProcessOK, AdmittedInv
<1>9. ASSUME NEW h \in Hosts, Event, Exit(h) PROVE AdmittedInv'
  <2>1. Forget(h) /\ pc' = [pc EXCEPT ![h] = "off"]
    BY <1>9 DEF Exit
  <2>2. \A k \in Hosts : admitted'[k] # None => admitted'[k] = admitted[k] /\ admitted[k] # h /\ k # h
    BY <2>1, ForgetAdmitted
  <2>3. \A k \in Hosts : k # h => pc'[k] = pc[k]
    BY <2>1, ForgetLog
  <2>4. leader # h => leader' = leader
    BY <2>1 DEF Forget
  <2> QED
    BY <2>2, <2>3, <2>4 DEF AdmittedInv
<1>10. ASSUME NEW h \in Hosts, Leave(h) PROVE AdmittedInv'
  <2>1. admitted' = admitted /\ leader' = leader
    BY <1>10 DEF Leave, Commit, DeleteNode
  <2>2. \A k \in Hosts : pc[k] \in Staying => pc'[k] \in Staying
    BY <1>10, Stays DEF Leave, ProcessOK
  <2> QED
    BY <2>1, <2>2 DEF AdmittedInv
<1>11. ASSUME NEW h \in Hosts, LeaveTearsDown(h) PROVE AdmittedInv'
  <2>1. Forget(h) /\ pc' = [pc EXCEPT ![h] = "off"]
    BY <1>11 DEF LeaveTearsDown
  <2>2. \A k \in Hosts : admitted'[k] # None => admitted'[k] = admitted[k] /\ admitted[k] # h /\ k # h
    BY <2>1, ForgetAdmitted
  <2>3. \A k \in Hosts : k # h => pc'[k] = pc[k]
    BY <2>1, ForgetLog
  <2>4. leader # h => leader' = leader
    BY <2>1 DEF Forget
  <2> QED
    BY <2>2, <2>3, <2>4 DEF AdmittedInv
<1>12. ASSUME NEW h \in Hosts, Boot(h) PROVE AdmittedInv'
  BY <1>12, Stays DEF Boot, hist, ProcessOK, AdmittedInv
<1>13. ASSUME NEW h \in Hosts, CatchUp(h) PROVE AdmittedInv'
  BY <1>13, Stays DEF CatchUp, raft, hist, ProcessOK, AdmittedInv
<1>14. ASSUME NEW h \in Hosts, Elect(h) PROVE AdmittedInv'
  BY <1>14 DEF Elect, AdmittedInv
<1>15. ASSUME NEW h \in Hosts, Snapshot(h) PROVE AdmittedInv'
  BY <1>15, Stays DEF Snapshot, raft, hist, ProcessOK, AdmittedInv
<1>16. ASSUME NEW i \in Ids, RemoveNode(i) PROVE AdmittedInv'
  BY <1>16, Stays DEF RemoveNode, Commit, DeleteNode, ProcessOK, AdmittedInv
<1>17. ASSUME NEW i \in Ids, WatchdogDown(i) PROVE AdmittedInv'
  BY <1>17 DEF WatchdogDown, Commit, HistoryOK, AdmittedInv
<1> QED
  BY <1>1, <1>2, <1>3, <1>4, <1>5, <1>6, <1>7, <1>8, <1>9, <1>10, <1>11, <1>12, <1>13, <1>14, <1>15,
     <1>16, <1>17 DEF ClusterNext, Join, JoinFails, Stop

\* The leader's tables name daemon h, and no other, under the address of h.
PeerOf(h) ==
    /\ ip[h] # 0
    /\ urls[leader][identity[h].raft] = ip[h]
    /\ \A b \in Hosts : mesh[leader][b] = ip[h] <=> b = h

\* Who is admitted, and is being joined or has joined.
Held(h) == admitted[h] # None /\ (pc[h] \in Posted \/ h \in joined)

\* The leader has those as peers; once add_learner returned, packets pass.
MeshInv ==
    ~ overlap =>
        \A h \in Hosts : Held(h) =>
            PeerOf(h) /\ (pc[h] \notin {"peered", "learner"} => Link(leader, h))

\* Who joined and is admitted is registered with its own address, which no
\* request uses.
RegInv ==
    ~ overlap =>
        \A h \in joined : admitted[h] # None =>
            /\ identity[h].raft \in Registered(log[leader])
            /\ NodeAt(log[leader], identity[h].raft) =
                   [mill |-> identity[h].mill, ip |-> ip[h], key |-> h]
            /\ \A k \in Hosts : pc[k] \in Before =>
                    info[k].ip # ip[h] /\ info[k].raft # identity[h].raft

\* Whether h is a peer is read from the tables of the leader and what h has.
LEMMA SamePeer ==
    ASSUME NEW h \in Hosts, leader' = leader, identity'[h] = identity[h], ip'[h] = ip[h],
           urls'[leader] = urls[leader], mesh'[leader] = mesh[leader]
    PROVE  PeerOf(h)' <=> PeerOf(h)
BY DEF PeerOf

\* A link is read from the tables of both sides.
LEMMA SameLink ==
    ASSUME NEW h \in Hosts, leader' = leader, ip'[h] = ip[h], ip'[leader] = ip[leader],
           mesh'[h] = mesh[h], mesh'[leader] = mesh[leader]
    PROVE  Link(leader, h)' <=> Link(leader, h)
BY DEF Link

\* The watchdog removes the peer of the node it declares down, and no other.
LEMMA MeshWatchdog ==
    ASSUME ProcessOK, WireOK, RaftOK, HistoryOK, AdmittedInv, MeshInv, NEW i \in Ids, WatchdogDown(i)
    PROVE  MeshInv'
<1> DEFINE key == NodeAt(log[leader], i).key
<1>1. leader \in Hosts /\ key \in Hosts
  BY NodeTyped, Fields DEF WatchdogDown, RaftOK
<1>2. /\ leader' = leader /\ UNCHANGED <<pc, identity, ip, urls, joined, overlap>>
      /\ mesh' = [mesh EXCEPT ![leader] = RemovePeer(@, key)] /\ admitted' = [admitted EXCEPT ![key] = None]
  BY DEF WatchdogDown, Commit
<1> HIDE DEF key
<1>3. /\ mesh'[leader][key] = 0
      /\ \A b \in Hosts : b # key => mesh'[leader][b] = mesh[leader][b]
      /\ \A k \in Hosts : k # leader => mesh'[k] = mesh[k]
  BY <1>1, <1>2, SMTT(30) DEF RemovePeer, WireOK
<1>4. SUFFICES ASSUME ~ overlap, NEW k \in Hosts, Held(k)'
               PROVE  PeerOf(k)' /\ (pc[k] \notin {"peered", "learner"} => Link(leader, k)')
  BY <1>2 DEF MeshInv
<1>5. k # key /\ Held(k)
  BY <1>1, <1>2, <1>4 DEF Held, HistoryOK
<1>6. PeerOf(k) /\ (pc[k] \notin {"peered", "learner"} => Link(leader, k))
  BY <1>4, <1>5 DEF MeshInv
<1>7. PeerOf(k)'
  BY <1>2, <1>3, <1>5, <1>6 DEF PeerOf
<1>8. Link(leader, k) => Link(leader, k)'
  BY <1>2, <1>3, <1>5 DEF Link
<1> QED
  BY <1>6, <1>7, <1>8

\* post_join writes an address that no peer of the leader has.
LEMMA MeshPostPeers ==
    ASSUME ProcessOK, WireOK, RaftOK, HistoryOK, MatchInv, MemberInv, OneJoin, AdmittedInv, MeshInv, RegInv,
           NEW h \in Hosts, PostPeers(h)
    PROVE  MeshInv'
<1> DEFINE addr == info[h].ip
           id == info[h].raft
<1>1. /\ leader \in Hosts /\ leader' = leader /\ pc[h] = "open" /\ UNCHANGED <<identity, ip, joined, overlap>>
      /\ mesh' = [mesh EXCEPT ![leader] = AddPeer(@, h, addr)]
      /\ urls' = [urls EXCEPT ![leader][id] = addr]
  BY DEF PostPeers, ReachesLeader, RaftOK, Req, raft
<1>2. /\ pc'[h] = "peered" /\ admitted'[h] = leader
      /\ \A k \in Hosts : k # h => admitted'[k] = admitted[k] /\ pc'[k] = pc[k]
  BY DEF PostPeers, ProcessOK, HistoryOK
<1>3. addr \in Ids /\ id \in Ids /\ addr # 0 /\ ip[h] = addr /\ identity[h].raft = id
  BY <1>1, Phases, States, Fields, SMTT(30) DEF ProcessOK, MatchInv, Ids
<1> HIDE DEF addr, id
<1>4. /\ \A k \in Hosts : k # leader => mesh'[k] = mesh[k]
      /\ mesh'[leader] = AddPeer(mesh[leader], h, addr)
  BY <1>1 DEF WireOK
<1>5. /\ mesh'[leader][h] = addr
      /\ \A b \in Hosts : b # h => mesh'[leader][b] = IF mesh[leader][b] = addr THEN 0 ELSE mesh[leader][b]
  BY <1>4 DEF AddPeer
<1>6. urls'[leader][id] = addr /\ \A j \in Ids : j # id => urls'[leader][j] = urls[leader][j]
  BY <1>1, <1>3, SMTT(30) DEF WireOK
<1>7. PeerOf(h)'
  <2>1. \A b \in Hosts : mesh'[leader][b] = addr <=> b = h
    BY <1>3, <1>5, SMTT(30)
  <2> QED
    BY <1>1, <1>3, <1>6, <2>1 DEF PeerOf
<1>8. ASSUME ~ overlap, NEW k \in Hosts, k # h, Held(k)'
      PROVE  PeerOf(k)' /\ Link(leader, k)'
  <2>1. Held(k)
    BY <1>1, <1>2, <1>8 DEF Held
  <2>2. pc[k] \notin Posted /\ k \in joined
    BY <1>1, <1>8, <2>1, Phases, States DEF OneJoin, Held
  <2>3. PeerOf(k) /\ Link(leader, k)
    BY <1>8, <2>1, <2>2 DEF MeshInv, Posted
  <2>4. addr # ip[k] /\ id # identity[k].raft
    BY <1>1, <1>8, <2>1, <2>2, Phases DEF RegInv, Held, addr, id
  <2>5. ip[k] # 0 /\ identity[k].raft \in Ids
    BY <2>2, <2>3, Fields DEF PeerOf, MemberInv, ProcessOK
  <2>6. \A b \in Hosts : mesh[leader][b] = ip[k] <=> b = k
    BY <2>3 DEF PeerOf
  <2>7. ASSUME NEW b \in Hosts PROVE mesh'[leader][b] = ip[k] <=> b = k
    BY <1>5, <1>8, <2>4, <2>5, <2>6, SMTT(30)
  <2>8. PeerOf(k)'
    BY <1>1, <1>6, <2>3, <2>4, <2>5, <2>7 DEF PeerOf
  <2>9. leader # k /\ mesh'[k] = mesh[k] /\ mesh'[leader][k] = ip[k]
    BY <1>4, <2>3, <2>7 DEF Link
  <2>10. Link(leader, k)'
    BY <1>1, <2>3, <2>9 DEF Link
  <2> QED
    BY <2>8, <2>10
<1> QED
  BY <1>1, <1>2, <1>7, <1>8 DEF MeshInv

\* add_learner returned: the leader reaches a daemon under the request's id,
\* which is the joining one.
LEMMA MeshPostVoter ==
    ASSUME ProcessOK, WireOK, RaftOK, HistoryOK, MatchInv, AdmittedInv, MeshInv,
           NEW h \in Hosts, PostVoter(h)
    PROVE  MeshInv'
<1>1. /\ pc[h] = "learner" /\ UNCHANGED <<wire, identity, leader, admitted, overlap, joined>>
      /\ \E b \in Answers(leader, info[h].raft) : log[b] = log[leader]
  BY DEF PostVoter, Commit, Req
<1>2. pc'[h] = "voter" /\ \A k \in Hosts : k # h => pc'[k] = pc[k]
  BY DEF PostVoter, ProcessOK
<1>3. pc[h] \in Posted /\ pc[h] \in After
  BY <1>1, Phases
<1>4. \A k \in Hosts : Held(k)' => Held(k)
  BY <1>1, <1>2, <1>3 DEF Held
<1>5. \A k \in Hosts : (PeerOf(k)' <=> PeerOf(k)) /\ (Link(leader, k)' <=> Link(leader, k))
  BY <1>1, SamePeer, SameLink DEF wire
<1>6. PeerOf(h) => Link(leader, h)
  BY <1>1, <1>3 DEF Answers, MatchInv, PeerOf, Link
<1> QED
  BY <1>1, <1>2, <1>4, <1>5, <1>6 DEF MeshInv

\* What the leader has as a peer stays one until a stop or the watchdog.
LEMMA MeshStep ==
    ASSUME ProcessOK, WireOK, RaftOK, HistoryOK, MatchInv, MemberInv, OneJoin,
           AdmittedInv, MeshInv, RegInv, [ClusterNext]_clusterVars
    PROVE  MeshInv'
<1>1. CASE UNCHANGED clusterVars
  BY <1>1 DEF clusterVars, wire, raft, hist, MeshInv, Held, PeerOf, Link
<1>2. ASSUME NEW h \in Hosts, NEW s \in Hosts, GetJoinInfo(h, s) PROVE MeshInv'
  BY <1>2, SamePeer, SameLink DEF GetJoinInfo, raft, ProcessOK, HistoryOK, Held, wire, MeshInv
<1>3. ASSUME NEW h \in Hosts, JoinPrepares(h) PROVE MeshInv'
  <2>1. UNCHANGED <<leader, admitted, overlap, joined>> /\ leader # h /\ admitted[h] = None
    BY <1>3, Stays, States DEF JoinPrepares, hist, RaftOK, AdmittedInv
  <2>2. \A k \in Hosts : k # h => /\ pc'[k] = pc[k] /\ identity'[k] = identity[k]
                                /\ ip'[k] = ip[k] /\ urls'[k] = urls[k] /\ mesh'[k] = mesh[k]
    BY <1>3 DEF JoinPrepares, ProcessOK, WireOK
  <2>3. \A k \in Hosts : Held(k)' => Held(k) /\ pc'[k] = pc[k] /\ k # h /\ leader \in Hosts
    BY <2>1, <2>2 DEF Held, AdmittedInv, RaftOK
  <2>4. \A k \in Hosts : Held(k)' => (PeerOf(k)' <=> PeerOf(k)) /\ (Link(leader, k)' <=> Link(leader, k))
    BY <2>1, <2>2, <2>3, SamePeer, SameLink
  <2> QED
    BY <2>1, <2>3, <2>4 DEF MeshInv
<1>4. ASSUME NEW h \in Hosts, PostPeers(h) PROVE MeshInv'
  BY <1>4, MeshPostPeers
<1>5. ASSUME NEW h \in Hosts, PostLearner(h) PROVE MeshInv'
  <2>1. UNCHANGED <<wire, identity, leader, admitted>> /\ (overlap => overlap')
    BY <1>5 DEF PostLearner, Commit, DeleteNode
  <2>2. \A k \in Hosts : Held(k)' => Held(k) /\ (pc[k] \in {"peered", "learner"} => pc'[k] \in {"peered", "learner"})
    <3>1. /\ pc[h] = "peered" /\ pc'[h] = "learner" /\ joined' = joined
          /\ \A k \in Hosts : k # h => pc'[k] = pc[k]
      BY <1>5 DEF PostLearner, ProcessOK
    <3>2. pc[h] \in Posted
      BY <3>1, Phases
    <3> QED
      BY <2>1, <3>1, <3>2 DEF Held
  <2>3. \A k \in Hosts : (PeerOf(k)' <=> PeerOf(k)) /\ (Link(leader, k)' <=> Link(leader, k))
    BY <2>1, SamePeer, SameLink DEF wire
  <2> QED
    BY <2>1, <2>2, <2>3 DEF MeshInv
<1>6. ASSUME NEW h \in Hosts, PostVoter(h) PROVE MeshInv'
  BY <1>6, MeshPostVoter
<1>7. ASSUME NEW h \in Hosts, PostRegister(h) PROVE MeshInv'
  <2>1. UNCHANGED <<wire, identity, leader, admitted>> /\ (overlap => overlap')
    BY <1>7 DEF PostRegister, Commit, DeleteNode
  <2>2. \A k \in Hosts : Held(k)' => Held(k) /\ (pc[k] \in {"peered", "learner"} => pc'[k] \in {"peered", "learner"})
    <3>1. /\ pc[h] = "voter" /\ pc'[h] = "registered" /\ joined' = joined \cup {h}
          /\ \A k \in Hosts : k # h => pc'[k] = pc[k]
      BY <1>7 DEF PostRegister, ProcessOK
    <3>2. pc[h] \in Posted /\ pc[h] \notin {"peered", "learner"}
      BY <3>1, SMTT(30) DEF Posted
    <3> QED
      BY <2>1, <3>1, <3>2 DEF Held
  <2>3. \A k \in Hosts : (PeerOf(k)' <=> PeerOf(k)) /\ (Link(leader, k)' <=> Link(leader, k))
    BY <2>1, SamePeer, SameLink DEF wire
  <2> QED
    BY <2>1, <2>2, <2>3 DEF MeshInv
<1>8. ASSUME NEW h \in Hosts, JoinReturns(h) PROVE MeshInv'
  <2>1. UNCHANGED <<wire, identity, leader, admitted>> /\ (overlap => overlap')
    BY <1>8 DEF JoinReturns, raft, hist
  <2>2. \A k \in Hosts : Held(k)' => Held(k) /\ (pc[k] \in {"peered", "learner"} => pc'[k] \in {"peered", "learner"})
    <3>1. /\ pc[h] = "registered" /\ pc'[h] = "up" /\ joined' = joined
          /\ \A k \in Hosts : k # h => pc'[k] = pc[k]
      BY <1>8 DEF JoinReturns, ProcessOK, hist
    <3>2. pc[h] \notin {"peered", "learner"} /\ pc'[h] \notin Posted
      BY <3>1, SMTT(30) DEF Posted
    <3> QED
      BY <2>1, <3>1, <3>2 DEF Held
  <2>3. \A k \in Hosts : (PeerOf(k)' <=> PeerOf(k)) /\ (Link(leader, k)' <=> Link(leader, k))
    BY <2>1, SamePeer, SameLink DEF wire
  <2> QED
    BY <2>1, <2>2, <2>3 DEF MeshInv
<1>9. ASSUME NEW h \in Hosts, Event, Exit(h) PROVE MeshInv'
  <2>1. Forget(h) /\ pc' = [pc EXCEPT ![h] = "off"] /\ UNCHANGED <<overlap, joined>>
    BY <1>9 DEF Exit
  <2>2. \A k \in Hosts : k # h => /\ identity'[k] = identity[k]
                                /\ ip'[k] = ip[k] /\ urls'[k] = urls[k] /\ mesh'[k] = mesh[k]
    BY <1>9 DEF Exit, ProcessOK, WireOK, wire
  <2>3. \A k \in Hosts : k # h => pc'[k] = pc[k]
    BY <2>1, ForgetLog
  <2>4. \A k \in Hosts : admitted'[k] # None => admitted'[k] = admitted[k] /\ admitted[k] # h /\ k # h
    BY <2>1, ForgetAdmitted
  <2>5. leader # h => leader' = leader
    BY <2>1 DEF Forget
  <2>6. \A k \in Hosts : Held(k)' => /\ Held(k) /\ pc'[k] = pc[k] /\ k # h /\ leader \in Hosts
                                    /\ leader # h /\ leader' = leader
    BY <2>1, <2>3, <2>4, <2>5 DEF Held, AdmittedInv, RaftOK
  <2>7. \A k \in Hosts : Held(k)' => (PeerOf(k)' <=> PeerOf(k)) /\ (Link(leader, k)' <=> Link(leader, k))
    BY <2>2, <2>6, SamePeer, SameLink
  <2> QED
    BY <2>1, <2>6, <2>7 DEF MeshInv
<1>10. ASSUME NEW h \in Hosts, Leave(h) PROVE MeshInv'
  <2>1. UNCHANGED <<wire, identity, leader, admitted>> /\ (overlap => overlap')
    BY <1>10 DEF Leave, Commit, DeleteNode
  <2>2. \A k \in Hosts : Held(k)' => Held(k) /\ (pc[k] \in {"peered", "learner"} => pc'[k] \in {"peered", "learner"})
    <3>1. /\ pc[h] = "up" /\ pc'[h] = "leaving" /\ joined' \subseteq joined
          /\ \A k \in Hosts : k # h => pc'[k] = pc[k]
      BY <1>10 DEF Leave, ProcessOK, DeleteNode
    <3>2. pc[h] \notin {"peered", "learner"} /\ pc'[h] \notin Posted
      BY <3>1, SMTT(30) DEF Posted
    <3> QED
      BY <2>1, <3>1, <3>2 DEF Held
  <2>3. \A k \in Hosts : (PeerOf(k)' <=> PeerOf(k)) /\ (Link(leader, k)' <=> Link(leader, k))
    BY <2>1, SamePeer, SameLink DEF wire
  <2> QED
    BY <2>1, <2>2, <2>3 DEF MeshInv
<1>11. ASSUME NEW h \in Hosts, LeaveTearsDown(h) PROVE MeshInv'
  <2>1. Forget(h) /\ pc' = [pc EXCEPT ![h] = "off"] /\ UNCHANGED <<overlap, joined>>
    BY <1>11 DEF LeaveTearsDown
  <2>2. \A k \in Hosts : k # h => /\ identity'[k] = identity[k]
                                /\ ip'[k] = ip[k] /\ urls'[k] = urls[k] /\ mesh'[k] = mesh[k]
    BY <1>11 DEF LeaveTearsDown, ProcessOK, WireOK, wire
  <2>3. \A k \in Hosts : k # h => pc'[k] = pc[k]
    BY <2>1, ForgetLog
  <2>4. \A k \in Hosts : admitted'[k] # None => admitted'[k] = admitted[k] /\ admitted[k] # h /\ k # h
    BY <2>1, ForgetAdmitted
  <2>5. leader # h => leader' = leader
    BY <2>1 DEF Forget
  <2>6. \A k \in Hosts : Held(k)' => /\ Held(k) /\ pc'[k] = pc[k] /\ k # h /\ leader \in Hosts
                                    /\ leader # h /\ leader' = leader
    BY <2>1, <2>3, <2>4, <2>5 DEF Held, AdmittedInv, RaftOK
  <2>7. \A k \in Hosts : Held(k)' => (PeerOf(k)' <=> PeerOf(k)) /\ (Link(leader, k)' <=> Link(leader, k))
    BY <2>2, <2>6, SamePeer, SameLink
  <2> QED
    BY <2>1, <2>6, <2>7 DEF MeshInv
<1>12. ASSUME NEW h \in Hosts, Boot(h) PROVE MeshInv'
  <2>1. UNCHANGED <<leader, admitted, overlap, joined>> /\ leader # h /\ admitted[h] = None
    BY <1>12, Stays, States DEF Boot, hist, RaftOK, AdmittedInv
  <2>2. \A k \in Hosts : k # h => /\ pc'[k] = pc[k] /\ identity'[k] = identity[k]
                                /\ ip'[k] = ip[k] /\ urls'[k] = urls[k] /\ mesh'[k] = mesh[k]
    BY <1>12 DEF Boot, ProcessOK, WireOK
  <2>3. \A k \in Hosts : Held(k)' => Held(k) /\ pc'[k] = pc[k] /\ k # h /\ leader \in Hosts
    BY <2>1, <2>2 DEF Held, AdmittedInv, RaftOK
  <2>4. \A k \in Hosts : Held(k)' => (PeerOf(k)' <=> PeerOf(k)) /\ (Link(leader, k)' <=> Link(leader, k))
    BY <2>1, <2>2, <2>3, SamePeer, SameLink
  <2> QED
    BY <2>1, <2>3, <2>4 DEF MeshInv
<1>13. ASSUME NEW h \in Hosts, CatchUp(h) PROVE MeshInv'
  BY <1>13, SamePeer, SameLink DEF CatchUp, raft, hist, Held, wire, MeshInv
<1>14. ASSUME NEW h \in Hosts, Elect(h) PROVE MeshInv'
  BY <1>14 DEF Elect, AdmittedInv, MeshInv, Held
<1>15. ASSUME NEW h \in Hosts, Snapshot(h) PROVE MeshInv'
  BY <1>15, SamePeer, SameLink DEF Snapshot, raft, hist, Held, wire, MeshInv
<1>16. ASSUME NEW i \in Ids, RemoveNode(i) PROVE MeshInv'
  BY <1>16, SamePeer, SameLink DEF RemoveNode, Commit, DeleteNode, Held, wire, MeshInv
<1>17. ASSUME NEW i \in Ids, WatchdogDown(i) PROVE MeshInv'
  BY <1>17, MeshWatchdog
<1> QED
  BY <1>1, <1>2, <1>3, <1>4, <1>5, <1>6, <1>7, <1>8, <1>9, <1>10, <1>11, <1>12, <1>13, <1>14, <1>15,
     <1>16, <1>17 DEF ClusterNext, Join, JoinFails, Stop

\* The leader's log has the identity, the address and the key of h.
RegOf(h) ==
    /\ identity[h].raft \in Registered(log[leader])
    /\ NodeAt(log[leader], identity[h].raft) = [mill |-> identity[h].mill, ip |-> ip[h], key |-> h]

\* No request was told the address or the id of h.
FreeOf(h) ==
    \A k \in Hosts : pc[k] \in Before => info[k].ip # ip[h] /\ info[k].raft # identity[h].raft

\* RegInv says both of who joined and is admitted.
LEMMA RegParts == RegInv <=> (~ overlap => \A h \in joined : admitted[h] # None => RegOf(h) /\ FreeOf(h))
BY DEF RegInv, RegOf, FreeOf

\* A step that leaves the leader's log, the daemon and the requests keeps it.
LEMMA SameReg ==
    ASSUME NEW h \in Hosts, leader' = leader, log'[leader] = log[leader],
           identity'[h] = identity[h], ip'[h] = ip[h],
           \A k \in Hosts : pc'[k] \in Before =>
               pc[k] \in Before /\ info'[k].ip = info[k].ip /\ info'[k].raft = info[k].raft
    PROVE  (RegOf(h) => RegOf(h)') /\ (FreeOf(h) => FreeOf(h)')
BY DEF RegOf, FreeOf

\* An entry about no node keeps it.
LEMMA EntryReg ==
    ASSUME RaftOK, NEW e \in Entries, Commit(e), e.op \notin {"register", "remove"},
           NEW h \in Hosts, identity' = identity, ip' = ip, RegOf(h)
    PROVE  RegOf(h)'
<1>1. log[leader] \in Seq(Entries) /\ log'[leader] = Append(log[leader], e) /\ leader' = leader
  BY CommitFacts
<1>2. Registered(Append(log[leader], e)) = Registered(log[leader])
  BY <1>1, RegisteredAppend, SMTT(30)
<1>3. \A i : NodeAt(Append(log[leader], e), i) = NodeAt(log[leader], i)
  BY <1>1, NodeAppend, SMTT(30)
<1> QED
  BY <1>1, <1>2, <1>3 DEF RegOf

\* A removal keeps it for who still counts as joined.
LEMMA RemoveReg ==
    ASSUME RaftOK, HistoryOK, RegInv, NEW i \in Ids, NEW e \in Entries, Commit(e), e.op = "remove", e.id = i,
           DeleteNode(i), UNCHANGED <<overlap, identity, ip, admitted, info>>,
           \A k \in Hosts : pc'[k] \in Before => pc[k] \in Before
    PROVE  RegInv'
<1>1. log[leader] \in Seq(Entries) /\ log'[leader] = Append(log[leader], e) /\ leader' = leader
  BY CommitFacts
<1>2. joined' = {h \in joined : identity[h].mill # NodeAt(log[leader], i).mill}
  BY DEF DeleteNode
<1>3. Registered(Append(log[leader], e)) = Registered(log[leader]) \ {i}
  BY <1>1, RegisteredAppend, SMTT(30)
<1>4. \A j : NodeAt(Append(log[leader], e), j) = NodeAt(log[leader], j)
  BY <1>1, NodeAppend, SMTT(30)
<1>5. SUFFICES ASSUME ~ overlap, NEW h \in joined, identity[h].mill # NodeAt(log[leader], i).mill,
                      admitted[h] # None
               PROVE  RegOf(h)' /\ FreeOf(h)'
  BY <1>2, RegParts DEF RegInv, RegOf, FreeOf
<1>6. RegOf(h) /\ FreeOf(h)
  BY <1>5, RegParts
<1>7. NodeAt(log[leader], identity[h].raft).mill = identity[h].mill
  BY <1>6, SMTT(30) DEF RegOf
<1>8. identity[h].raft # i
  BY <1>5, <1>7
<1>9. RegOf(h)'
  BY <1>1, <1>3, <1>4, <1>6, <1>8 DEF RegOf
<1>10. FreeOf(h)'
  BY <1>6 DEF FreeOf
<1> QED
  BY <1>9, <1>10

\* post_join registers what the daemon has, beside the others.
LEMMA RegisterReg ==
    ASSUME ProcessOK, RaftOK, HistoryOK, MatchInv, OneJoin, RegInv, NEW h \in Hosts, PostRegister(h)
    PROVE  RegInv'
<1>1. PICK e \in Entries : /\ Commit(e) /\ e.op = "register" /\ e.id = info[h].raft
                           /\ e.node = [mill |-> info[h].mill, ip |-> info[h].ip, key |-> h]
  BY PostRegisterCommits
<1>2. log[leader] \in Seq(Entries) /\ log'[leader] = Append(log[leader], e) /\ leader' = leader
  BY <1>1, CommitFacts
<1>3. /\ UNCHANGED <<overlap, identity, ip, admitted, info>> /\ joined' = joined \cup {h}
      /\ pc[h] = "voter" /\ pc'[h] = "registered" /\ \A k \in Hosts : k # h => pc'[k] = pc[k]
  BY DEF PostRegister, ProcessOK, wire
<1>4. pc[h] \in Joining /\ pc[h] \in After /\ pc[h] \in Before
  BY <1>3, Phases
<1>5. /\ identity[h].mill = info[h].mill /\ identity[h].raft = info[h].raft /\ ip[h] = info[h].ip
      /\ info[h].raft \in Ids
  <2>1. info[h] \in Infos
    BY <1>4 DEF ProcessOK
  <2> QED
    BY <1>4, <2>1, Fields DEF MatchInv
<1>6. Registered(log'[leader]) = Registered(log[leader]) \cup {info[h].raft}
  <2>1. Registered(Append(log[leader], e)) = Registered(log[leader]) \cup (Ids \cap {e.id})
    BY <1>1, <1>2, RegisteredAppend
  <2> QED
    BY <1>1, <1>2, <1>5, <2>1
<1>7. /\ NodeAt(log'[leader], info[h].raft) = e.node
      /\ \A j : j # info[h].raft => NodeAt(log'[leader], j) = NodeAt(log[leader], j)
  BY <1>1, <1>2, NodeAppend, SMTT(30)
<1>8. SUFFICES ASSUME ~ overlap, NEW k \in joined', admitted[k] # None
               PROVE  RegOf(k)' /\ FreeOf(k)'
  BY <1>3 DEF RegInv, RegOf, FreeOf
<1>9. FreeOf(k)'
  BY <1>3, <1>4, <1>8, Phases DEF FreeOf, OneJoin
<1>10. CASE k = h
  BY <1>1, <1>2, <1>3, <1>5, <1>6, <1>7, <1>9, <1>10 DEF RegOf
<1>11. CASE k # h
  BY <1>3, <1>8, <1>11, <1>4, <1>2, <1>6, <1>7, <1>9, RegParts DEF FreeOf, RegOf
<1> QED
  BY <1>10, <1>11

\* get_join_info hands out an id and an address that no admitted node has.
LEMMA InfoReg ==
    ASSUME ProcessOK, RaftOK, HistoryOK, LeadInv, AdmittedInv, RegInv, NEW h \in Hosts, NEW s \in Hosts,
           GetJoinInfo(h, s)
    PROVE  RegInv'
<1>1. overlap' = (overlap \/ (\E k \in Hosts : pc[k] \in Joining) \/ log[s] # acked)
  BY DEF GetJoinInfo
<1>2. /\ UNCHANGED <<log, leader, identity, ip>> /\ joined' = joined \ {h}
      /\ \A k \in Hosts : k # h => admitted'[k] = admitted[k] /\ pc'[k] = pc[k]
      /\ info'[h].raft = NextRaftId(log[s]) /\ info'[h].ip = AllocateTunnelIp(log[s])
  BY DEF GetJoinInfo, ProcessOK, HistoryOK, raft, wire
<1>3. SUFFICES ASSUME ~ overlap', NEW k \in joined, k # h, admitted[k] # None
               PROVE  RegOf(k)' /\ FreeOf(k)'
  BY <1>2 DEF RegInv, RegOf, FreeOf, HistoryOK
<1>4. RegOf(k)
  BY <1>1, <1>3, RegParts
<1>5. log[leader] = acked /\ log[s] = acked /\ acked \in Seq(Entries)
  BY <1>1, <1>3 DEF LeadInv, AdmittedInv, HistoryOK, RaftOK
<1>6. identity[k].raft \in Registered(acked) /\ NodeAt(acked, identity[k].raft).ip = ip[k]
  BY <1>4, <1>5, SMTT(30) DEF RegOf
<1>7. info'[h].raft # identity[k].raft
  BY <1>2, <1>5, <1>6, NextRaftIdIsNew
<1>8. info'[h].ip # ip[k]
  BY <1>2, <1>5, <1>6, TunnelIpIsFree
<1>9. FreeOf(k)'
  BY <1>1, <1>2, <1>3, <1>7, <1>8, Phases DEF FreeOf
<1> QED
  BY <1>2, <1>4, <1>9 DEF RegOf

\* RegInv after a step that keeps it for who remains.
LEMMA RegGoal ==
    ASSUME RegInv, overlap => overlap',
           \A k \in joined' : admitted'[k] # None => k \in Hosts /\ k \in joined /\ admitted[k] # None,
           \A k \in Hosts : admitted'[k] # None => (RegOf(k) => RegOf(k)') /\ (FreeOf(k) => FreeOf(k)')
    PROVE  RegInv'
<1> SUFFICES ASSUME ~ overlap', NEW k \in joined', admitted'[k] # None PROVE RegOf(k)' /\ FreeOf(k)'
  BY DEF RegInv, RegOf, FreeOf
<1>1. RegOf(k) /\ FreeOf(k)
  BY RegParts
<1> QED
  BY <1>1

\* NodeRegister holds the daemon's own address until it is removed.
LEMMA RegStep ==
    ASSUME ProcessOK, WireOK, RaftOK, HistoryOK, MatchInv, MemberInv, LeadInv, OneJoin,
           AdmittedInv, RegInv, [ClusterNext]_clusterVars
    PROVE  RegInv'
<1>1. CASE UNCHANGED clusterVars
  BY <1>1 DEF clusterVars, wire, raft, hist, RegInv
<1>2. ASSUME NEW h \in Hosts, NEW s \in Hosts, GetJoinInfo(h, s) PROVE RegInv'
  BY <1>2, InfoReg
<1>3. ASSUME NEW h \in Hosts, JoinPrepares(h) PROVE RegInv'
  <2>1. /\ UNCHANGED <<leader, admitted, overlap, joined, info>> /\ leader # h /\ admitted[h] = None
    BY <1>3, Stays, States DEF JoinPrepares, hist, RaftOK, AdmittedInv
  <2>2. \A k \in Hosts : k # h => identity'[k] = identity[k] /\ ip'[k] = ip[k] /\ log'[k] = log[k]
    BY <1>3 DEF JoinPrepares, ProcessOK, WireOK, RaftOK
  <2>3. \A k \in Hosts : pc'[k] \in Before => pc[k] \in Before
    BY <1>3, Phases DEF JoinPrepares, ProcessOK
  <2>4. ASSUME NEW k \in Hosts, admitted'[k] # None PROVE (RegOf(k) => RegOf(k)') /\ (FreeOf(k) => FreeOf(k)')
    BY <2>1, <2>2, <2>4, <2>3, SameReg DEF AdmittedInv, RaftOK
  <2>5. \A k \in joined' : admitted'[k] # None => k \in Hosts /\ k \in joined /\ admitted[k] # None
    BY <2>1 DEF HistoryOK
  <2> QED
    BY <2>1, <2>4, <2>5, RegGoal
<1>4. ASSUME NEW h \in Hosts, PostPeers(h) PROVE RegInv'
  <2>1. UNCHANGED <<overlap, joined, log, leader, identity, ip>> /\ h \notin joined
    BY <1>4, Phases DEF PostPeers, raft, MemberInv
  <2>2. \A k \in Hosts : pc'[k] \in Before =>
            pc[k] \in Before /\ info'[k].ip = info[k].ip /\ info'[k].raft = info[k].raft
    BY <1>4, Fields, Phases, SMTT(30) DEF PostPeers, ProcessOK
  <2>3. \A k \in Hosts : (RegOf(k) => RegOf(k)') /\ (FreeOf(k) => FreeOf(k)')
    BY <2>1, <2>2, SameReg
  <2>4. \A k \in joined' : admitted'[k] # None => k \in Hosts /\ k \in joined /\ admitted[k] # None
    BY <1>4, <2>1 DEF PostPeers, HistoryOK
  <2> QED
    BY <2>1, <2>3, <2>4, RegGoal
<1>5. ASSUME NEW h \in Hosts, PostLearner(h) PROVE RegInv'
  BY <1>5, PostLearnerCommits, Phases, EntryReg, RegGoal DEF PostLearner, ProcessOK, wire,
     FreeOf, HistoryOK
<1>6. ASSUME NEW h \in Hosts, PostVoter(h) PROVE RegInv'
  <2>1. PICK e \in Entries : Commit(e) /\ e.op \in {"learner", "voters", "down"}
    BY <1>6, PostVoterCommits
  <2>2. e.op \notin {"register", "remove"}
    BY <2>1, SMTT(30)
  <2>3. UNCHANGED <<overlap, joined, identity, ip, info>> /\ \A k \in Hosts : pc'[k] \in Before => pc[k] \in Before
    BY <1>6, Phases DEF PostVoter, ProcessOK, wire
  <2>4. \A k \in Hosts : (RegOf(k) => RegOf(k)') /\ (FreeOf(k) => FreeOf(k)')
    BY <2>1, <2>2, <2>3, EntryReg DEF FreeOf
  <2>5. \A k \in joined' : admitted'[k] # None => k \in Hosts /\ k \in joined /\ admitted[k] # None
    BY <1>6, <2>3 DEF PostVoter, HistoryOK
  <2> QED
    BY <2>3, <2>4, <2>5, RegGoal
<1>7. ASSUME NEW h \in Hosts, PostRegister(h) PROVE RegInv'
  BY <1>7, RegisterReg
<1>8. ASSUME NEW h \in Hosts, JoinReturns(h) PROVE RegInv'
  BY <1>8, Phases, SameReg, RegGoal DEF JoinReturns, raft, hist, wire, ProcessOK, HistoryOK
<1>9. ASSUME NEW h \in Hosts, Event, Exit(h) PROVE RegInv'
  <2>1. Forget(h) /\ pc' = [pc EXCEPT ![h] = "off"] /\ UNCHANGED <<overlap, joined>>
    BY <1>9 DEF Exit
  <2>2. \A k \in Hosts : k # h => identity'[k] = identity[k] /\ ip'[k] = ip[k]
    BY <1>9 DEF Exit, ProcessOK, WireOK, wire
  <2>3. pc'[h] = "off" /\ \A k \in Hosts : k # h => pc'[k] = pc[k] /\ log'[k] = log[k]
    BY <2>1, ForgetLog
  <2>4. \A k \in Hosts : admitted'[k] # None => admitted'[k] = admitted[k] /\ admitted[k] # h /\ k # h
    BY <2>1, ForgetAdmitted
  <2>5. leader # h => leader' = leader
    BY <2>1 DEF Forget
  <2>6. \A k \in Hosts : k # h => info'[k].ip = info[k].ip /\ info'[k].raft = info[k].raft
    BY <2>1, ForgetKeeps
  <2>7. \A k \in Hosts : pc'[k] \in Before =>
            pc[k] \in Before /\ info'[k].ip = info[k].ip /\ info'[k].raft = info[k].raft
    BY <2>3, <2>6, Phases
  <2>8. ASSUME NEW k \in Hosts, admitted'[k] # None PROVE (RegOf(k) => RegOf(k)') /\ (FreeOf(k) => FreeOf(k)')
    <3>1. k # h /\ leader # h /\ leader \in Hosts
      BY <2>4, <2>8 DEF AdmittedInv, RaftOK
    <3>2. leader' = leader /\ log'[leader] = log[leader]
      BY <2>3, <2>5, <3>1
    <3> QED
      BY <2>2, <2>7, <3>1, <3>2, SameReg
  <2>9. \A k \in joined' : admitted'[k] # None => k \in Hosts /\ k \in joined /\ admitted[k] # None
    BY <2>1, <2>4 DEF HistoryOK
  <2> QED
    BY <2>1, <2>8, <2>9, RegGoal
<1>10. ASSUME NEW h \in Hosts, Leave(h) PROVE RegInv'
  BY <1>10, LeaveCommits, Phases, RemoveReg DEF Leave, wire, RaftIdFor, Registered, ProcessOK
<1>11. ASSUME NEW h \in Hosts, LeaveTearsDown(h) PROVE RegInv'
  <2>1. Forget(h) /\ pc' = [pc EXCEPT ![h] = "off"] /\ UNCHANGED <<overlap, joined>>
    BY <1>11 DEF LeaveTearsDown
  <2>2. \A k \in Hosts : k # h => identity'[k] = identity[k] /\ ip'[k] = ip[k]
    BY <1>11 DEF LeaveTearsDown, ProcessOK, WireOK, wire
  <2>3. pc'[h] = "off" /\ \A k \in Hosts : k # h => pc'[k] = pc[k] /\ log'[k] = log[k]
    BY <2>1, ForgetLog
  <2>4. \A k \in Hosts : admitted'[k] # None => admitted'[k] = admitted[k] /\ admitted[k] # h /\ k # h
    BY <2>1, ForgetAdmitted
  <2>5. leader # h => leader' = leader
    BY <2>1 DEF Forget
  <2>6. \A k \in Hosts : k # h => info'[k].ip = info[k].ip /\ info'[k].raft = info[k].raft
    BY <2>1, ForgetKeeps
  <2>7. \A k \in Hosts : pc'[k] \in Before =>
            pc[k] \in Before /\ info'[k].ip = info[k].ip /\ info'[k].raft = info[k].raft
    BY <2>3, <2>6, Phases
  <2>8. ASSUME NEW k \in Hosts, admitted'[k] # None PROVE (RegOf(k) => RegOf(k)') /\ (FreeOf(k) => FreeOf(k)')
    <3>1. k # h /\ leader # h /\ leader \in Hosts
      BY <2>4, <2>8 DEF AdmittedInv, RaftOK
    <3>2. leader' = leader /\ log'[leader] = log[leader]
      BY <2>3, <2>5, <3>1
    <3> QED
      BY <2>2, <2>7, <3>1, <3>2, SameReg
  <2>9. \A k \in joined' : admitted'[k] # None => k \in Hosts /\ k \in joined /\ admitted[k] # None
    BY <2>1, <2>4 DEF HistoryOK
  <2> QED
    BY <2>1, <2>8, <2>9, RegGoal
<1>12. ASSUME NEW h \in Hosts, Boot(h) PROVE RegInv'
  <2>1. /\ UNCHANGED <<leader, admitted, overlap, joined, info>> /\ leader # h /\ admitted[h] = None
    BY <1>12, Stays, States DEF Boot, hist, RaftOK, AdmittedInv
  <2>2. \A k \in Hosts : k # h => identity'[k] = identity[k] /\ ip'[k] = ip[k] /\ log'[k] = log[k]
    BY <1>12 DEF Boot, ProcessOK, WireOK, RaftOK
  <2>3. \A k \in Hosts : pc'[k] \in Before => pc[k] \in Before
    BY <1>12, Phases DEF Boot, ProcessOK
  <2>4. ASSUME NEW k \in Hosts, admitted'[k] # None PROVE (RegOf(k) => RegOf(k)') /\ (FreeOf(k) => FreeOf(k)')
    BY <2>1, <2>2, <2>4, <2>3, SameReg DEF AdmittedInv, RaftOK
  <2>5. \A k \in joined' : admitted'[k] # None => k \in Hosts /\ k \in joined /\ admitted[k] # None
    BY <2>1 DEF HistoryOK
  <2> QED
    BY <2>1, <2>4, <2>5, RegGoal
<1>13. ASSUME NEW h \in Hosts, CatchUp(h) PROVE RegInv'
  BY <1>13, SameReg, RegGoal DEF CatchUp, hist, wire, RaftOK, AdmittedInv, HistoryOK
<1>14. ASSUME NEW h \in Hosts, Elect(h) PROVE RegInv'
  BY <1>14 DEF Elect, AdmittedInv, RegInv, HistoryOK
<1>15. ASSUME NEW h \in Hosts, Snapshot(h) PROVE RegInv'
  <2>1. UNCHANGED <<overlap, joined, admitted, log, leader, identity, ip>>
    BY <1>15 DEF Snapshot, raft, hist, wire
  <2>2. \A k \in Hosts : pc'[k] \in Before =>
            pc[k] \in Before /\ info'[k].ip = info[k].ip /\ info'[k].raft = info[k].raft
    BY <1>15 DEF Snapshot
  <2>3. \A k \in Hosts : (RegOf(k) => RegOf(k)') /\ (FreeOf(k) => FreeOf(k)')
    BY <2>1, <2>2, SameReg
  <2>4. \A k \in joined' : admitted'[k] # None => k \in Hosts /\ k \in joined /\ admitted[k] # None
    BY <2>1 DEF HistoryOK
  <2> QED
    BY <2>1, <2>3, <2>4, RegGoal
<1>16. ASSUME NEW i \in Ids, RemoveNode(i) PROVE RegInv'
  <2>1. PICK e \in Entries : Commit(e) /\ e.op = "remove" /\ e.id = i
    BY <1>16, RemoveNodeCommits
  <2>2. DeleteNode(i) /\ UNCHANGED <<overlap, identity, ip, admitted, info, pc>>
    BY <1>16 DEF RemoveNode, wire
  <2> QED
    BY <2>1, <2>2, RemoveReg
<1>17. ASSUME NEW i \in Ids, WatchdogDown(i) PROVE RegInv'
  BY <1>17, WatchdogDownCommits, Phases, EntryReg, RegGoal DEF WatchdogDown, ProcessOK, wire,
     FreeOf, HistoryOK
<1> QED
  BY <1>1, <1>2, <1>3, <1>4, <1>5, <1>6, <1>7, <1>8, <1>9, <1>10, <1>11, <1>12, <1>13, <1>14, <1>15,
     <1>16, <1>17 DEF ClusterNext, Join, JoinFails, Stop

-----------------------------------------------------------------------------
(* The invariant. *)

\* What a join may do next, what the logs say of it, and what the leader has.
ClusterInv ==
    /\ ClusterTypeOK
    /\ ViaInv /\ MatchInv /\ MemberInv
    /\ LeadInv /\ VoterInv /\ PrefixInv /\ MillInv
    /\ OneJoin /\ FreshInv /\ JoinedInv
    /\ AdmittedInv /\ MeshInv /\ RegInv

\* The first node of a node id.
LEMMA FirstOfMill ==
    ASSUME NEW lg \in Seq(Entries), NEW e \in Entries, NEW m, RaftIdFor(lg, m) = {},
           e.op = "register", e.id \in Ids, e.node.mill = m
    PROVE  RaftIdFor(Append(lg, e), m) = {e.id}
<1>1. \A i \in Ids : i \in RaftIdFor(Append(lg, e), m) <=> i = e.id
  BY RaftIdAppend, SMTT(30)
<1>2. RaftIdFor(Append(lg, e), m) \subseteq Ids
  BY DEF RaftIdFor, Registered
<1> QED
  BY <1>1, <1>2

\* A log of two entries, one after the other.
LEMMA TwoEntries ==
    ASSUME NEW a \in Entries, NEW b \in Entries
    PROVE  /\ <<>> \in Seq(Entries) /\ <<a>> \in Seq(Entries)
           /\ <<a>> = Append(<<>>, a) /\ <<a, b>> = Append(<<a>>, b)
<1>1. <<>> \in Seq(Entries) /\ <<a>> \in Seq(Entries)
  BY SMTT(30)
<1>2. <<a>> = Append(<<>>, a)
  BY SMTT(30)
<1>3. <<a, b>> = Append(<<a>>, b)
  BY SMTT(30)
<1> QED
  BY <1>1, <1>2, <1>3

\* What `mill init` wrote: one voter, registered with node id 0.
LEMMA FirstLog ==
    ASSUME NEW a, NEW b, NEW n,
           n = [mill |-> 0, ip |-> FirstIp, key |-> First],
           a = [op |-> "voters", id |-> 1, ids |-> {1}, node |-> NoNode, term |-> 1],
           b = [op |-> "register", id |-> 1, ids |-> {}, term |-> 1, node |-> n]
    PROVE  /\ <<a, b>> \in Seq(Entries) /\ Good(<<a, b>>) /\ MillsUpTo(<<a, b>>, 0)
           /\ RaftIdFor(<<a, b>>, 0) = {1}
<1>1. n \in Nodes /\ NoNode \in Nodes
  BY Bounds, Fields DEF Nodes
<1>2. a \in Entries /\ b \in Entries
  BY <1>1, Bounds, SMTT(30) DEF FirstIp, Ids, Entries
<1>3. a.op = "voters" /\ a.ids = {1} /\ b.op = "register" /\ b.id = 1 /\ b.node.mill = 0 /\ a.node.mill = 0
  BY SMTT(30) DEF NoNode
<1>4. 1 \in Ids
  BY Bounds, SMTT(30) DEF FirstIp
<1>5. <<>> \in Seq(Entries) /\ <<a>> \in Seq(Entries) /\ <<a>> = Append(<<>>, a) /\ <<a, b>> = Append(<<a>>, b)
  BY <1>2, TwoEntries
<1>6. Good(<<>>) /\ MillsUpTo(<<>>, 0)
  BY EmptyLog DEF Good
<1>7. Good(<<a>>) /\ 1 \in Voters(<<a>>)
  <2>1. a.op # "register"
    BY <1>3, SMTT(30)
  <2>2. Good(Append(<<>>, a))
    BY <1>2, <1>5, <1>6, <2>1, GoodAppend
  <2>3. Voters(Append(<<>>, a)) = Voters(<<>>) \cup {1}
    BY <1>2, <1>3, <1>5, VotersAppend
  <2> QED
    BY <1>5, <2>2, <2>3
<1>8. Good(Append(<<a>>, b))
  BY <1>2, <1>3, <1>5, <1>7, GoodAppend
<1>9. MillsUpTo(Append(Append(<<>>, a), b), 0)
  <2>1. 0 \in Nat /\ a.node.mill =< 0 /\ b.node.mill =< 0
    BY <1>3, SMTT(30)
  <2>2. MillsUpTo(Append(<<>>, a), 0)
    BY <1>2, <1>5, <1>6, <2>1, MillsAppend
  <2>3. Append(<<>>, a) \in Seq(Entries)
    BY <1>5
  <2> QED
    BY <1>2, <2>1, <2>2, <2>3, MillsAppend
<1>10. RaftIdFor(Append(<<a>>, b), 0) = {1}
  <2>1. \A i : i \notin RaftIdFor(<<>>, 0)
    BY EmptyLog DEF RaftIdFor
  <2>2. RaftIdFor(Append(<<>>, a), 0) = RaftIdFor(<<>>, 0)
    BY <1>2, <1>3, <1>5, RaftIdKept
  <2>3. RaftIdFor(<<a>>, 0) = {}
    BY <1>5, <2>1, <2>2
  <2>4. b.op = "register" /\ b.id \in Ids /\ b.node.mill = 0
    BY <1>3, <1>4, SMTT(30)
  <2>5. RaftIdFor(Append(<<a>>, b), 0) = {b.id}
    BY <1>2, <1>5, <2>3, <2>4, FirstOfMill
  <2> QED
    BY <1>3, <2>5, SMTT(30)
<1>11. <<a, b>> \in Seq(Entries)
  BY <1>2, SMTT(30)
<1> QED
  BY <1>5, <1>8, <1>9, <1>10, <1>11

\* After `mill init`, nobody joins and nobody was admitted.
LEMMA InitInv == ClusterInit => ClusterInv
<1> SUFFICES ASSUME ClusterInit PROVE ClusterInv
  BY SMTT(30)
<1> DEFINE n == [mill |-> 0, ip |-> FirstIp, key |-> First]
           a == [op |-> "voters", id |-> 1, ids |-> {1}, node |-> NoNode, term |-> 1]
           b == [op |-> "register", id |-> 1, ids |-> {}, term |-> 1, node |-> n]
           start == <<a, b>>
<1>1. ClusterTypeOK
  BY InitTyped
<1>2. /\ start \in Seq(Entries) /\ Good(start) /\ MillsUpTo(start, 0) /\ RaftIdFor(start, 0) = {1}
  BY FirstLog
<1>3. /\ pc = [h \in Hosts |-> IF h = First THEN "up" ELSE "off"]
      /\ identity = [h \in Hosts |-> IF h = First THEN [mill |-> 0, raft |-> 1, peers |-> {}] ELSE None]
      /\ log = [h \in Hosts |-> IF h = First THEN start ELSE <<>>]
      /\ snap = [h \in Hosts |-> <<>>]
      /\ leader = First /\ acked = start
      /\ count = [joins |-> 0, events |-> 0]
      /\ joined = {First} /\ admitted = [h \in Hosts |-> None]
  BY DEF ClusterInit
<1> HIDE DEF start
<1>4. /\ \A h \in Hosts : pc[h] = "up" \/ pc[h] = "off"
      /\ \A h \in Hosts : log[h] = start \/ log[h] = <<>>
      /\ \A h \in Hosts : snap[h] = <<>> /\ admitted[h] = None
  BY <1>3
<1>5. identity[First] = [mill |-> 0, raft |-> 1, peers |-> {}]
  BY <1>3
<1>6. identity[First].mill = 0 /\ identity[First].raft = 1 /\ identity[First] # None
  BY <1>5, Bounds, Fields, SMTT(30) DEF Identities, FirstIp
<1>7. \A h \in Hosts : pc[h] \notin Joining /\ pc[h] \notin Before /\ pc[h] \notin Posted /\ pc[h] \notin After
  BY <1>4, Phases, States
<1>8. count.joins = 0
  BY <1>3, SMTT(30)
<1>9. Good(<<>>) /\ MillsUpTo(<<>>, 0) /\ Begins(<<>>, start) /\ Begins(start, start)
  BY <1>2, EmptyLog, PrefixSelf DEF Good
<1>10. ViaInv /\ MatchInv /\ OneJoin /\ FreshInv
  BY <1>7 DEF ViaInv, MatchInv, OneJoin, FreshInv
<1>11. MemberInv
  BY <1>4, <1>3, <1>6, <1>7, SMTT(30) DEF MemberInv
<1>12. LeadInv
  BY <1>3 DEF LeadInv
<1>13. VoterInv
  BY <1>4, <1>2, <1>9, SMTT(30) DEF VoterInv
<1>14. PrefixInv
  BY <1>3, <1>4, <1>9 DEF PrefixInv
<1>15. MillInv
  BY <1>2, <1>3, <1>4, <1>7, <1>8, <1>9 DEF MillInv
<1>16. JoinedInv
  BY <1>2, <1>3, <1>6 DEF JoinedInv
<1>17. AdmittedInv /\ MeshInv /\ RegInv
  BY <1>3, <1>4 DEF AdmittedInv, MeshInv, RegInv, Held
<1> QED
  BY <1>1, <1>10, <1>11, <1>12, <1>13, <1>14, <1>15, <1>16, <1>17 DEF ClusterInv

\* Every step keeps every layer.
LEMMA StepInv == ClusterInv /\ [ClusterNext]_clusterVars => ClusterInv'
<1> SUFFICES ASSUME ClusterInv, [ClusterNext]_clusterVars PROVE ClusterInv'
  BY SMTT(30)
<1>1. ProcessOK /\ WireOK /\ RaftOK /\ HistoryOK
  BY TypeParts DEF ClusterInv
<1>2. ClusterTypeOK'
  BY NextTyped DEF ClusterInv
<1>3. ViaInv' /\ MatchInv' /\ MemberInv' /\ LeadInv'
  BY <1>1, ViaStep, MatchStep, MemberStep, LeadStep DEF ClusterInv
<1>4. VoterInv' /\ PrefixInv' /\ MillInv'
  BY <1>1, VoterStep, PrefixStep, MillStep DEF ClusterInv
<1>5. OneJoin' /\ FreshInv' /\ JoinedInv'
  BY <1>1, OneJoinStep, FreshStep, JoinedStep DEF ClusterInv
<1>6. AdmittedInv' /\ MeshInv' /\ RegInv'
  BY <1>1, AdmittedStep, MeshStep, RegStep DEF ClusterInv
<1> QED
  BY <1>2, <1>3, <1>4, <1>5, <1>6 DEF ClusterInv

\* The inductive invariant of the cluster.
THEOREM ClusterInvariant == ClusterSpec => []ClusterInv
BY InitInv, StepInv, PTL DEF ClusterSpec

\* The state machine and openraft agree on the members (post_join promotes,
\* then registers; get_join_info's id and a generated node id are new): in
\* every log and snapshot what is registered is a voter, and a node that
\* joined is registered under its own id until it is removed, unless joins
\* overlapped or restarts lost the log.
THEOREM MembersAgree == ClusterSpec => []MembersAgreeUnlessOverlap
<1>1. ClusterInv => MembersAgreeUnlessOverlap
  BY DEF ClusterInv, VoterInv, Good, RegisteredIsVoter, JoinedInv, LeadInv,
     JoinedIsRegisteredUnlessOverlap, MembersAgreeUnlessOverlap
<1> QED
  BY <1>1, ClusterInvariant, PTL

\* The leader that took a node as its peer (post_join, 1 and 2) reaches it, and
\* nobody else under its raft id, until one of them stops or the watchdog drops
\* the peer, unless joins overlapped.
THEOREM AdmittedIsReached == ClusterSpec => []AdmittedIsReachedUnlessOverlap
<1>1. ClusterInv => AdmittedIsReachedUnlessOverlap
  <2> SUFFICES ASSUME ClusterInv, ~ overlap, NEW h \in joined, admitted[h] # None, pc[h] \in Listening
               PROVE  Answers(admitted[h], OwnId(h)) = {h}
    BY DEF AdmittedIsReachedUnlessOverlap
  <2>1. ProcessOK /\ HistoryOK /\ h \in Hosts
    BY TypeParts DEF ClusterInv, HistoryOK
  <2>2. admitted[h] = leader
    BY <2>1 DEF ClusterInv, AdmittedInv
  <2>3. OwnId(h) = identity[h].raft
    BY <2>1, States DEF After, ProcessOK, ClusterInv, MatchInv, OwnId
  <2>4. pc[h] \notin {"peered", "learner"}
    BY <2>1, Phases DEF ClusterInv, MemberInv
  <2>5. PeerOf(h) /\ Link(leader, h)
    BY <2>1, <2>4 DEF ClusterInv, MeshInv, Held
  <2>6. h \in Answers(leader, identity[h].raft)
    BY <2>1, <2>5 DEF Answers, PeerOf
  <2>7. ASSUME NEW b \in Answers(leader, identity[h].raft) PROVE b = h
    BY <2>7, <2>5 DEF Answers, Link, PeerOf
  <2> QED
    BY <2>2, <2>3, <2>6, <2>7
<1> QED
  BY <1>1, ClusterInvariant, PTL

=============================================================================
