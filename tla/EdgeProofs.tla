----------------------------- MODULE EdgeProofs -----------------------------
(***************************************************************************)
(* No watcher of the state machine misses a change, each one does what     *)
(* StateFollower promises, and DNS and the proxy serve what the state says,*)
(* answer a forwarded query with its own answer and count every request:   *)
(* for any number of watchers, changes, clients, services and hosts.       *)
(***************************************************************************)
EXTENDS Edge, FiniteSetTheorems, TLAPS

-----------------------------------------------------------------------------
(* The watchers alone: module StateWatchers. *)

\* A watcher's step leaves the other watchers alone and the record complete.
LEMMA WatchStateShape ==
  ASSUME NEW r \in WatchState
  PROVE  /\ r.pc \in {"select", "read", "apply"}
         /\ r.mark \in Versions /\ r.held \in Versions /\ r.shown \in Versions
BY Zenon DEF WatchState

\* Every step of the state machine and of the watchers keeps WatchInv.
LEMMA WatchStep == WatchInv /\ [WatchNext]_watchVars => WatchInv'
<1> SUFFICES ASSUME WatchInv, [WatchNext]_watchVars PROVE WatchInv'
  BY Zenon
<1> USE WatchersAssumption DEF WatchInv, WatchTypeOK, Versions
<1>1. CASE Commit
  BY <1>1 DEF Commit, WatchState
<1>2. CASE Notify
  BY <1>2 DEF Notify, WatchState
<1>3. ASSUME NEW w \in Watchers, Wake(w) PROVE WatchInv'
  <2>1. watch[w] \in WatchState
    BY Zenon
  <2>2. watch' \in [Watchers -> WatchState]
    BY <1>3, <2>1, Zenon DEF Wake, WatchState
  <2> QED BY <1>3, <2>1, <2>2, WatchStateShape DEF Wake
<1>4. ASSUME NEW w \in Watchers, Read(w) PROVE WatchInv'
  <2>1. watch[w] \in WatchState
    BY Zenon
  <2>2. watch' \in [Watchers -> WatchState]
    BY <1>4, <2>1, Zenon DEF Read, WatchState
  <2> QED BY <1>4, <2>1, <2>2, WatchStateShape DEF Read
<1>5. ASSUME NEW w \in Watchers, Show(w) PROVE WatchInv'
  <2>1. watch[w] \in WatchState
    BY Zenon
  <2>2. watch' \in [Watchers -> WatchState]
    BY <1>5, <2>1, Zenon DEF Show, WatchState
  <2> QED BY <1>5, <2>1, <2>2, WatchStateShape DEF Show
<1>6. CASE UNCHANGED watchVars
  BY <1>6, Zenon DEF watchVars
<1> QED BY <1>1, <1>2, <1>3, <1>4, <1>5, <1>6, Zenon DEF WatchNext

\* WatchInv holds at the start and every step of the state machine and of the
\* watchers keeps it.
THEOREM WatchInvHolds == WatchSpec => []WatchInv
<1>1. WatchInit => WatchInv
  BY WatchersAssumption DEF WatchInit, WatchInv, WatchTypeOK, WatchState, Versions
<1> QED BY <1>1, WatchStep, PTL DEF WatchSpec

\* The lost-wakeup property the run `edge` checks, for every number of watchers
\* and of changes.
THEOREM NoWakeupIsLost == WatchSpec => []NoLostWakeup
<1>1. WatchInv => NoLostWakeup
  BY WatchersAssumption, WatchStateShape DEF WatchInv, WatchTypeOK, NoLostWakeup, Versions
<1> QED BY <1>1, WatchInvHolds, PTL

\* Each watcher implements the safety half of StateFollower: its value comes
\* from a committed state and never goes back to an older one.
THEOREM WatcherFollows ==
  ASSUME NEW w \in Watchers
  PROVE  WatchSpec => Follower(w)!FollowerSafe
<1>1. WatchInit => Follower(w)!FollowerInit
  BY DEF WatchInit, Follower!FollowerInit
<1>2. WatchInv /\ [WatchNext]_watchVars => [Follower(w)!FollowerNext]_(Follower(w)!followerVars)
  <2> SUFFICES ASSUME WatchInv, [WatchNext]_watchVars
               PROVE  [Follower(w)!FollowerNext]_(Follower(w)!followerVars)
    BY Zenon
  <2> USE DEF Follower!FollowerNext, Follower!followerVars, Follower!Change, Follower!Follow
  <2>0. watch[w] \in WatchState /\ watch \in [Watchers -> WatchState]
    BY Zenon DEF WatchInv, WatchTypeOK
  <2>1. CASE Commit
    BY <2>1, Zenon DEF Commit
  <2>2. CASE Notify
    BY <2>2, Zenon DEF Notify
  <2>3. ASSUME NEW x \in Watchers, Wake(x) PROVE UNCHANGED <<version, watch[w].shown>>
    BY <2>0, <2>3, Zenon DEF Wake, WatchState
  <2>4. ASSUME NEW x \in Watchers, Read(x) PROVE UNCHANGED <<version, watch[w].shown>>
    BY <2>0, <2>4, Zenon DEF Read, WatchState
  <2>5. ASSUME NEW x \in Watchers, Show(x)
        PROVE  [Follower(w)!FollowerNext]_(Follower(w)!followerVars)
    <3>1. CASE x = w
      <4>1. watch'[w].shown = watch[w].held /\ version' = version
        BY <2>0, <2>5, <3>1, Zenon DEF Show, WatchState
      <4>2. watch[w].shown \in Nat /\ watch[w].held \in Nat /\ version \in Nat
            /\ watch[w].shown <= watch[w].held /\ watch[w].held <= version
        BY <2>0, WatchersAssumption, WatchStateShape DEF WatchInv, WatchTypeOK, Versions
      <4> QED BY <4>1, <4>2
    <3>2. CASE x # w
      BY <2>0, <2>5, <3>2, Zenon DEF Show, WatchState
    <3> QED BY <3>1, <3>2, Zenon
  <2>6. CASE UNCHANGED watchVars
    BY <2>6, Zenon DEF watchVars
  <2> QED BY <2>1, <2>2, <2>3, <2>4, <2>5, <2>6, Zenon DEF WatchNext
<1>3. QED BY <1>1, <1>2, WatchInvHolds, PTL DEF WatchSpec, Follower!FollowerSafe

-----------------------------------------------------------------------------
(* The watchers in the edge. *)

\* The steps of the edge that are none of the watchers'.
Aside ==
    \/ \E h \in Hosts : CertCached(h)
    \/ \E c \in Clients : Asks(c) \/ Served(c) \/ UpstreamAnswers(c)

\* What the watchers show is not touched by the clients.
LEMMA AsideKeepsViews == Aside => UNCHANGED <<watchVars, fsm, viewVars>>
BY Zenon DEF Aside, CertCached, Asks, Query, Request, Served, Forward, ForwardEnds, Proxied,
       RecordLooks, RecordCreates, RecordAdds, UpstreamAnswers

\* Edge only adds what a watcher computes to the steps of StateWatchers.
LEMMA EdgeWatches == [EdgeNext]_edgeVars => [WatchNext]_watchVars
<1> SUFFICES ASSUME [EdgeNext]_edgeVars PROVE [WatchNext]_watchVars
  BY Zenon
<1>1. CASE CommitChange \/ NotifyWatchers
  BY <1>1, Zenon DEF CommitChange, NotifyWatchers, WatchNext
<1>2. ASSUME NEW w \in Watchers, Watcher(w) PROVE WatchNext
  BY <1>2, Zenon DEF Watcher, WatcherWakes, WatcherReads, WatcherShows, WatchNext
<1>3. CASE Aside
  BY <1>3, AsideKeepsViews, Zenon
<1>4. CASE UNCHANGED edgeVars
  BY <1>4, Zenon DEF edgeVars
<1> QED BY <1>1, <1>2, <1>3, <1>4, Zenon DEF EdgeNext, Aside

\* Every step keeps the views in step with the versions they stand for: a change
\* of the state makes them outdated, never wrong.
LEMMA ViewStep == WatchInv /\ ViewInv /\ [EdgeNext]_edgeVars => ViewInv'
<1> SUFFICES ASSUME WatchInv, ViewInv, [EdgeNext]_edgeVars PROVE ViewInv'
  BY Zenon
<1>a. /\ Watchers = {"dns", "proxy"} /\ watch \in [Watchers -> WatchState]
      /\ list = [w \in Watchers |-> list[w]]
      /\ Current("dns") => list["dns"] = ComputeDnsRecords(fsm)
      /\ watch["dns"].shown = version => records = ComputeDnsRecords(fsm)
      /\ Current("proxy") => list["proxy"] \in Routes(fsm)
      /\ watch["proxy"].shown = version => \E l \in Routes(fsm) : table = RouteTable(l)
  BY EdgeAssumption, Zenon DEF ViewInv, WatchInv, WatchTypeOK
<1>b. \A w \in Watchers : watch[w] = [pc |-> watch[w].pc, mark |-> watch[w].mark,
                                      held |-> watch[w].held, shown |-> watch[w].shown]
  BY <1>a, Zenon DEF WatchState
<1>1. CASE CommitChange
  <2>1. /\ version' = version + 1 /\ UNCHANGED <<watch, list>> /\ version \in Nat
    BY <1>1, WatchersAssumption DEF CommitChange, Commit, viewVars, WatchInv, WatchTypeOK, Versions
  <2>2. \A w \in Watchers : /\ watch[w].held \in Nat /\ watch[w].shown \in Nat
                            /\ watch[w].held <= version /\ watch[w].shown <= watch[w].held
    BY <1>a, WatchStateShape, WatchersAssumption DEF WatchInv, Versions
  <2>3. \A w \in Watchers : watch[w].held # version' /\ watch[w].shown # version'
    BY <2>1, <2>2
  <2>4. \A w \in Watchers : watch'[w].held # version' /\ watch'[w].shown # version'
    BY <2>1, <2>3, Zenon
  <2> QED BY <2>1, <2>4, <1>a, Zenon DEF ViewInv, Current
<1>2. CASE NotifyWatchers
  <2>1. UNCHANGED <<watch, version, fsm, list, records, table>>
    BY <1>2, Zenon DEF NotifyWatchers, Notify, viewVars
  <2> QED BY <2>1, <1>a, Zenon DEF ViewInv, Current
<1>3. ASSUME NEW w \in Watchers, WatcherWakes(w) PROVE ViewInv'
  <2>1. UNCHANGED <<version, fsm, list, records, table>>
    BY <1>3, Zenon DEF WatcherWakes, Wake, viewVars
  <2>2. /\ watch'[w].pc = "read" /\ watch'[w].shown = watch[w].shown
        /\ \A x \in Watchers : x # w => watch'[x] = watch[x]
    BY <1>3, <1>a, <1>b DEF WatcherWakes, Wake
  <2> QED BY <2>1, <2>2, <1>a, Zenon DEF ViewInv, Current
<1>4. ASSUME NEW w \in Watchers, WatcherReads(w) PROVE ViewInv'
  <2>1. UNCHANGED <<version, fsm, records, table>>
    BY <1>4, Zenon DEF WatcherReads, Read
  <2>2. /\ watch'[w].shown = watch[w].shown
        /\ \A x \in Watchers : x # w => watch'[x] = watch[x]
    BY <1>4, <1>a, <1>b DEF WatcherReads, Read
  <2>3. /\ list' = [x \in Watchers |-> list'[x]]
        /\ \A x \in Watchers : x # w => list'[x] = list[x]
        /\ w = "dns" => list'[w] = ComputeDnsRecords(fsm)
        /\ w # "dns" => list'[w] \in Routes(fsm)
    BY <1>4, <1>a DEF WatcherReads, Routes
  <2> QED BY <2>1, <2>2, <2>3, <1>a, Zenon DEF ViewInv, Current
<1>5. ASSUME NEW w \in Watchers, WatcherShows(w) PROVE ViewInv'
  <2>1. UNCHANGED <<version, fsm, list>> /\ watch[w].pc = "apply"
    BY <1>5, Zenon DEF WatcherShows, Show
  <2>2. /\ watch'[w].pc = "select" /\ watch'[w].shown = watch[w].held
        /\ \A x \in Watchers : x # w => watch'[x] = watch[x]
    BY <1>5, <1>a, <1>b DEF WatcherShows, Show
  <2>3. CASE w = "dns"
    <3>1. records' = list["dns"] /\ UNCHANGED table
      BY <1>5, <2>3, Zenon DEF WatcherShows
    <3> QED BY <2>1, <2>2, <2>3, <3>1, <1>a, Zenon DEF ViewInv, Current
  <2>4. CASE w = "proxy"
    <3>1. table' = RouteTable(list["proxy"]) /\ UNCHANGED records
      BY <1>5, <2>4, Zenon DEF WatcherShows
    <3> QED BY <2>1, <2>2, <2>4, <3>1, <1>a, Zenon DEF ViewInv, Current
  <2> QED BY <2>3, <2>4, <1>a, Zenon
<1>6. CASE Aside \/ UNCHANGED edgeVars
  <2>1. UNCHANGED <<watch, version, fsm, list, records, table>>
    BY <1>6, AsideKeepsViews, Zenon DEF edgeVars, watchVars, viewVars
  <2> QED BY <2>1, <1>a, Zenon DEF ViewInv, Current
<1> QED BY <1>1, <1>2, <1>3, <1>4, <1>5, <1>6, Zenon DEF EdgeNext, Watcher, Aside

-----------------------------------------------------------------------------
(* The clients. *)

\* The shapes of a client's state.
LEMMA ClientShapes ==
  /\ \A pc \in {"idle", "lock", "wait", "done"} : ClientOK([pc |-> pc])
  /\ \A x : ClientOK([pc |-> "done", got |-> x])
  /\ \A k : \A pc \in {"forward", "record", "create", "add", "done"} : ClientOK([pc |-> pc, key |-> k])
BY Zenon DEF ClientOK

\* A client that is being recorded has a route to be recorded under.
LEMMA KeyedClient ==
  ASSUME NEW r, ClientOK(r), r.pc \in {"forward", "record", "create", "add"}
  PROVE  r = [pc |-> r.pc, key |-> r.key]
BY DEF ClientOK

\* A step of one client leaves the others alone.
LEMMA GotoMoves ==
  ASSUME ClientInv, NEW c \in Clients, NEW r, Goto(c, r)
  PROVE  /\ client' = [d \in Clients |-> client'[d]] /\ client'[c] = r
         /\ \A d \in Clients : d # c => client'[d] = client[d]
BY Zenon DEF ClientInv, Goto

\* The state a step of a client leaves it in.
LEMMA ClientMoves ==
  ASSUME ClientInv, NEW c \in Clients
  PROVE  /\ Asks(c) => \/ Goto(c, [pc |-> "lock"]) \/ Goto(c, [pc |-> "done"])
                       \/ \E k : Goto(c, [pc |-> "forward", key |-> k])
         /\ Forward(c) => Goto(c, [pc |-> "wait"])
         /\ ForwardEnds(c) => \E x : Goto(c, [pc |-> "done", got |-> x])
         /\ Proxied(c) => Goto(c, [pc |-> "record", key |-> client[c].key])
         /\ RecordLooks(c) => \/ Goto(c, [pc |-> "create", key |-> client[c].key])
                              \/ /\ Goto(c, [pc |-> "add", key |-> client[c].key])
                                 /\ counters[client[c].key] # None
         /\ RecordCreates(c) => Goto(c, [pc |-> "add", key |-> client[c].key])
         /\ RecordAdds(c) => Goto(c, [pc |-> "done", key |-> client[c].key])
<1>1. ClientOK(client[c])
  BY Zenon DEF ClientInv
<1>2. Asks(c) => \/ Goto(c, [pc |-> "lock"]) \/ Goto(c, [pc |-> "done"])
                 \/ \E k : Goto(c, [pc |-> "forward", key |-> k])
  <2>1. ASSUME NEW n, NEW type, Query(c, n, type)
        PROVE  Goto(c, [pc |-> "lock"]) \/ Goto(c, [pc |-> "done"])
    BY <2>1, Zenon DEF Query, Reply
  <2>2. ASSUME NEW tls, NEW h, NEW p, Request(c, tls, h, p)
        PROVE  Goto(c, [pc |-> "done"]) \/ \E k : Goto(c, [pc |-> "forward", key |-> k])
    BY <2>2, Zenon DEF Request, Reply
  <2> QED BY <2>1, <2>2, Zenon DEF Asks
<1>3. Forward(c) => Goto(c, [pc |-> "wait"])
  BY Zenon DEF Forward
<1>4. ForwardEnds(c) => \E x : Goto(c, [pc |-> "done", got |-> x])
  BY Zenon DEF ForwardEnds
<1>5. Proxied(c) => Goto(c, [pc |-> "record", key |-> client[c].key])
  BY Zenon DEF Proxied
<1>6. ASSUME client[c].pc \in {"record", "create", "add"}, NEW pc
      PROVE  [client[c] EXCEPT !.pc = pc] = [pc |-> pc, key |-> client[c].key]
  <2>1. client[c] = [pc |-> client[c].pc, key |-> client[c].key]
    BY <1>1, <1>6, KeyedClient, Zenon
  <2> QED BY <2>1
<1>7. RecordLooks(c) => \/ Goto(c, [pc |-> "create", key |-> client[c].key])
                        \/ /\ Goto(c, [pc |-> "add", key |-> client[c].key])
                           /\ counters[client[c].key] # None
  BY <1>6, Zenon DEF RecordLooks
<1>8. RecordCreates(c) => Goto(c, [pc |-> "add", key |-> client[c].key])
  BY <1>6, Zenon DEF RecordCreates
<1>9. RecordAdds(c) => Goto(c, [pc |-> "done", key |-> client[c].key])
  BY <1>6, Zenon DEF RecordAdds
<1> QED BY <1>2, <1>3, <1>4, <1>5, <1>7, <1>8, <1>9, Zenon

\* The steps of the edge that are no client's.
LEMMA ClientsAlone ==
  ASSUME [EdgeNext]_edgeVars
  PROVE  \/ UNCHANGED <<client, counters, upstream, socket>>
         \/ \E c \in Clients : Asks(c) \/ Served(c)
         \/ \E c \in Clients : UpstreamAnswers(c)
<1>1. CASE CommitChange \/ NotifyWatchers
  BY <1>1, Zenon DEF CommitChange, NotifyWatchers, dnsVars
<1>2. ASSUME NEW w \in Watchers, Watcher(w) PROVE UNCHANGED <<client, counters, upstream, socket>>
  BY <1>2, Zenon DEF Watcher, WatcherWakes, WatcherReads, WatcherShows, dnsVars
<1>3. ASSUME NEW h \in Hosts, CertCached(h) PROVE UNCHANGED <<client, counters, upstream, socket>>
  BY <1>3, Zenon DEF CertCached, dnsVars
<1>4. CASE UNCHANGED edgeVars
  BY <1>4, Zenon DEF edgeVars
<1> QED BY <1>1, <1>2, <1>3, <1>4, Zenon DEF EdgeNext

\* A client keeps a state its next step can read.
LEMMA ClientStep == ClientInv /\ [EdgeNext]_edgeVars => ClientInv'
<1> SUFFICES ASSUME ClientInv, [EdgeNext]_edgeVars PROVE ClientInv'
  BY Zenon
<1>1. ASSUME NEW c \in Clients, NEW r, Goto(c, r), ClientOK(r) PROVE ClientInv'
  <2>1. /\ client' = [d \in Clients |-> client'[d]] /\ client'[c] = r
        /\ \A d \in Clients : d # c => client'[d] = client[d]
    BY <1>1, GotoMoves, Zenon
  <2> QED BY <1>1, <2>1, Zenon DEF ClientInv
<1>2. ASSUME NEW c \in Clients, Asks(c) PROVE ClientInv'
  BY <1>1, <1>2, ClientMoves, ClientShapes, Zenon
<1>3. ASSUME NEW c \in Clients, Served(c) PROVE ClientInv'
  <2>1. CASE Forward(c) \/ ForwardEnds(c) \/ Proxied(c)
    BY <1>1, <2>1, ClientMoves, ClientShapes, Zenon
  <2>2. CASE RecordLooks(c) \/ RecordCreates(c) \/ RecordAdds(c)
    BY <1>1, <2>2, ClientMoves, ClientShapes, Zenon
  <2> QED BY <1>3, <2>1, <2>2, Zenon DEF Served
<1>4. ASSUME UNCHANGED client PROVE ClientInv'
  BY <1>4, Zenon DEF ClientInv
<1> QED BY <1>2, <1>3, <1>4, ClientsAlone, Zenon DEF UpstreamAnswers

-----------------------------------------------------------------------------
(* The forwarder. *)

NoneLate == \A c \in Forwarded : client[c].got # "ServFail"

\* Until a query times out no answer is in the socket but that to the query that
\* holds the lock.
LEMMA SocketStep == ClientInv /\ SocketInv /\ [EdgeNext]_edgeVars => SocketInv'
<1> SUFFICES ASSUME ClientInv, SocketInv, [EdgeNext]_edgeVars PROVE SocketInv'
  BY Zenon
<1> DEFINE Quiet == Waiting = {} /\ upstream = {} /\ socket = <<>>
           Pending(c) ==
              /\ Waiting = {c}
              /\ \/ upstream = {c} /\ socket = <<>>
                 \/ upstream = {} /\ socket = <<c>>
<1>a. NoneLate => AnswersItsQuery /\ (Quiet \/ \E c \in Clients : Pending(c))
  BY Zenon DEF SocketInv, NoneLate
<1>b. ASSUME NoneLate' => AnswersItsQuery' /\ (Quiet' \/ \E c \in Clients : Pending(c)')
      PROVE  SocketInv'
  BY <1>b, Zenon DEF SocketInv, NoneLate
\* A step of a client that is not forwarded, before or after it.
<1>c. ASSUME UNCHANGED <<Waiting, Forwarded, upstream, socket>>,
             \A c \in Forwarded : client'[c] = client[c]
      PROVE  SocketInv'
  <2>1. (NoneLate' => NoneLate) /\ (AnswersItsQuery => AnswersItsQuery')
    BY <1>c, Zenon DEF NoneLate, AnswersItsQuery
  <2>2. Quiet => Quiet'
    BY <1>c, Zenon
  <2>3. \A c \in Clients : Pending(c) => Pending(c)'
    BY <1>c, Zenon
  <2> QED BY <2>1, <2>2, <2>3, <1>a, <1>b, Zenon
<1>d. ASSUME NEW c \in Clients, NEW r, Goto(c, r), UNCHANGED <<upstream, socket>>,
             client[c].pc # "wait", c \notin Forwarded,
             r.pc # "wait", "got" \notin DOMAIN r
      PROVE  SocketInv'
  <2>1. /\ client'[c] = r /\ \A d \in Clients : d # c => client'[d] = client[d]
    BY <1>d, GotoMoves, Zenon
  <2>2. UNCHANGED Waiting
    BY <1>d, <2>1, Zenon DEF Waiting
  <2>3. UNCHANGED Forwarded /\ \A d \in Forwarded : client'[d] = client[d]
    BY <1>d, <2>1, Zenon DEF Forwarded
  <2> QED BY <1>c, <1>d, <2>2, <2>3, Zenon
<1>1. ASSUME NEW c \in Clients, Asks(c) PROVE SocketInv'
  <2>1. client[c] = [pc |-> "idle"] /\ UNCHANGED <<upstream, socket>>
    BY <1>1, Zenon DEF Asks, Query, Request, Idle, dnsVars
  <2>2. client[c].pc # "wait" /\ c \notin Forwarded
    BY <2>1 DEF Forwarded
  <2>3. CASE Goto(c, [pc |-> "lock"]) \/ Goto(c, [pc |-> "done"])
    BY <2>1, <2>2, <2>3, <1>d, Zenon
  <2>4. ASSUME NEW k, Goto(c, [pc |-> "forward", key |-> k]) PROVE SocketInv'
    BY <2>1, <2>2, <2>4, <1>d, Zenon
  <2> QED BY <1>1, <2>3, <2>4, ClientMoves, Zenon
<1>2. ASSUME NEW c \in Clients, Proxied(c) \/ RecordLooks(c) \/ RecordCreates(c) \/ RecordAdds(c)
      PROVE  SocketInv'
  <2>1. client[c].pc \in {"forward", "record", "create", "add"} /\ UNCHANGED <<upstream, socket>>
    BY <1>2, Zenon DEF Proxied, RecordLooks, RecordCreates, RecordAdds, dnsVars
  <2>2. client[c].pc # "wait" /\ c \notin Forwarded
    BY <2>1, Zenon DEF Forwarded
  <2>3. PICK pc \in {"record", "create", "add", "done"} : Goto(c, [pc |-> pc, key |-> client[c].key])
    BY <1>2, ClientMoves, Zenon
  <2>4. [pc |-> pc, key |-> client[c].key].pc # "wait" /\ "got" \notin DOMAIN [pc |-> pc, key |-> client[c].key]
    BY Zenon
  <2> QED BY <2>1, <2>2, <2>3, <2>4, <1>d, Zenon
<1>3. ASSUME NEW c \in Clients, Forward(c) PROVE SocketInv'
  <2>1. /\ client[c].pc = "lock" /\ Waiting = {}
        /\ upstream' = upstream \cup {c} /\ UNCHANGED socket
    BY <1>3, Zenon DEF Forward
  <2>2. /\ client'[c] = [pc |-> "wait"] /\ \A d \in Clients : d # c => client'[d] = client[d]
    BY <1>3, ClientMoves, GotoMoves, Zenon
  <2>3. Waiting' = {c}
    BY <2>1, <2>2 DEF Waiting
  <2>4. UNCHANGED Forwarded /\ \A d \in Forwarded : client'[d] = client[d]
    BY <2>1, <2>2 DEF Forwarded
  <2>5. (NoneLate' => NoneLate) /\ (AnswersItsQuery => AnswersItsQuery')
    BY <2>4, Zenon DEF NoneLate, AnswersItsQuery
  <2>6. NoneLate' => Pending(c)' /\ AnswersItsQuery'
    BY <2>1, <2>3, <2>5, <1>a, Zenon
  <2> QED BY <2>6, <1>b, Zenon
<1>4. ASSUME NEW c \in Clients, ForwardEnds(c) PROVE SocketInv'
  <2>1. client[c].pc = "wait" /\ UNCHANGED upstream /\ c \in Waiting
    BY <1>4, Zenon DEF ForwardEnds, Waiting
  <2>2. PICK x : /\ Goto(c, [pc |-> "done", got |-> x])
                 /\ IF socket # <<>> THEN x = Head(socket) /\ socket' = Tail(socket)
                    ELSE x = "ServFail" /\ UNCHANGED socket
    BY <1>4, Zenon DEF ForwardEnds
  <2>3. /\ client'[c] = [pc |-> "done", got |-> x] /\ \A d \in Clients : d # c => client'[d] = client[d]
    BY <2>2, GotoMoves, Zenon
  <2>4. c \notin Forwarded /\ Forwarded' = Forwarded \cup {c} /\ Waiting' = Waiting \ {c}
    BY <2>1, <2>3 DEF Forwarded, Waiting
  <2>5. \A d \in Forwarded : client'[d] = client[d]
    BY <2>3, <2>4, Zenon DEF Forwarded
  <2>6. ASSUME NoneLate' PROVE NoneLate /\ x # "ServFail"
    <3>1. client'[c].got = x
      BY <2>3
    <3> QED BY <2>4, <2>5, <2>6, <3>1, Zenon DEF NoneLate
  <2>7. ASSUME NoneLate' PROVE AnswersItsQuery' /\ Quiet'
    <3>1. socket # <<>> /\ x = Head(socket) /\ socket' = Tail(socket) /\ NoneLate
      BY <2>2, <2>6, <2>7, Zenon
    <3>2. Waiting = {c} /\ upstream = {} /\ socket = <<c>> /\ AnswersItsQuery
      BY <2>1, <3>1, <1>a, Zenon
    <3>3. x = c /\ socket' = <<>>
      BY <3>1, <3>2
    <3>4. client'[c].got = c
      BY <2>3, <3>3
    <3>5. AnswersItsQuery'
      BY <2>4, <2>5, <3>2, <3>4, Zenon DEF AnswersItsQuery
    <3> QED BY <2>1, <2>4, <3>2, <3>3, <3>5, Zenon
  <2> QED BY <2>7, <1>b, Zenon
<1>5. ASSUME NEW c \in Clients, UpstreamAnswers(c) PROVE SocketInv'
  <2>1. /\ c \in upstream /\ upstream' = upstream \ {c} /\ socket' = Append(socket, c)
        /\ UNCHANGED client
    BY <1>5, Zenon DEF UpstreamAnswers
  <2>2. UNCHANGED <<Waiting, NoneLate, AnswersItsQuery>>
    BY <2>1, Zenon DEF Waiting, NoneLate, Forwarded, AnswersItsQuery
  <2>3. ASSUME NoneLate PROVE Pending(c)'
    <3>1. Waiting = {c} /\ upstream = {c} /\ socket = <<>>
      BY <2>1, <2>3, <1>a, Zenon
    <3>2. socket' = <<c>> /\ upstream' = {}
      BY <2>1, <3>1
    <3> QED BY <2>2, <3>1, <3>2, Zenon
  <2>4. NoneLate' => NoneLate /\ AnswersItsQuery'
    BY <2>2, <1>a, Zenon
  <2> QED BY <2>3, <2>4, <1>b, Zenon
<1>6. ASSUME UNCHANGED <<client, upstream, socket>> PROVE SocketInv'
  <2>1. UNCHANGED <<Waiting, Forwarded>>
    BY <1>6, Zenon DEF Waiting, Forwarded
  <2> QED BY <1>6, <2>1, <1>c, Zenon
<1> QED BY <1>1, <1>2, <1>3, <1>4, <1>5, <1>6, ClientsAlone, Zenon DEF Served

-----------------------------------------------------------------------------
(* The counters of the proxy. *)

\* The clients whose request was recorded under k.
Recorded(k) ==
    {c \in Clients : client[c].pc = "done" /\ "key" \in DOMAIN client[c] /\ client[c].key = k}

\* Whichever request creates the counters of a route, each request adds one.
LEMMA CounterStep == ClientInv /\ CounterInv /\ [EdgeNext]_edgeVars => CounterInv'
<1> SUFFICES ASSUME ClientInv, CounterInv, [EdgeNext]_edgeVars PROVE CounterInv'
  BY Zenon
<1> DEFINE Keys == Hosts \X Paths
           Total(n) == IF n = None THEN 0 ELSE n
<1>a. /\ counters \in [Keys -> Nat \cup {None}]
      /\ \A k \in Keys : Total(counters[k]) = Cardinality(Recorded(k))
      /\ \A c \in Clients : client[c].pc = "add" /\ client[c].key \in Keys =>
            counters[client[c].key] # None
  BY Zenon DEF CounterInv, EveryRequestCounted, Recorded
<1>b. ASSUME counters' \in [Keys -> Nat \cup {None}],
             \A k \in Keys : Total(counters'[k]) = Cardinality(Recorded(k)'),
             \A c \in Clients : client'[c].pc = "add" /\ client'[c].key \in Keys =>
                counters'[client'[c].key] # None
      PROVE  CounterInv'
  BY <1>b, Zenon DEF CounterInv, EveryRequestCounted, Recorded
<1> HIDE DEF Keys
\* A step of a client that is not recorded, before or after it.
<1>c. ASSUME NEW c \in Clients, NEW r, Goto(c, r), UNCHANGED counters,
             client[c].pc # "done",
             r.pc = "done" => "key" \notin DOMAIN r,
             r.pc = "add" /\ r.key \in Keys => counters[r.key] # None
      PROVE  CounterInv'
  <2>1. /\ client'[c] = r /\ \A d \in Clients : d # c => client'[d] = client[d]
    BY <1>c, GotoMoves, Zenon
  <2>2. \A k \in Keys : UNCHANGED Recorded(k)
    BY <1>c, <2>1, Zenon DEF Recorded
  <2>3. \A d \in Clients : client'[d].pc = "add" /\ client'[d].key \in Keys =>
           counters[client'[d].key] # None
    BY <1>a, <1>c, <2>1, Zenon
  <2>4. \A k \in Keys : Total(counters'[k]) = Cardinality(Recorded(k)')
    BY <1>a, <1>c, <2>2, Zenon
  <2> QED BY <1>a, <1>b, <1>c, <2>3, <2>4, Zenon
<1>1. ASSUME NEW c \in Clients, Asks(c) PROVE CounterInv'
  <2>1. client[c] = [pc |-> "idle"] /\ UNCHANGED counters
    BY <1>1, Zenon DEF Asks, Query, Request, Idle
  <2>2. CASE Goto(c, [pc |-> "lock"]) \/ Goto(c, [pc |-> "done"])
    BY <2>1, <2>2, <1>c
  <2>3. ASSUME NEW k, Goto(c, [pc |-> "forward", key |-> k]) PROVE CounterInv'
    BY <2>1, <2>3, <1>c
  <2> QED BY <1>1, <2>2, <2>3, ClientMoves, Zenon
<1>2. ASSUME NEW c \in Clients, Forward(c) \/ Proxied(c) PROVE CounterInv'
  <2>1. client[c].pc # "done" /\ UNCHANGED counters
    BY <1>2, Zenon DEF Forward, Proxied
  <2>2. CASE Goto(c, [pc |-> "wait"])
    BY <2>1, <2>2, <1>c, Zenon
  <2>3. CASE Goto(c, [pc |-> "record", key |-> client[c].key])
    BY <2>1, <2>3, <1>c, Zenon
  <2> QED BY <1>2, <2>2, <2>3, ClientMoves, Zenon
<1>3. ASSUME NEW c \in Clients, ForwardEnds(c) PROVE CounterInv'
  <2>1. client[c].pc # "done" /\ UNCHANGED counters
    BY <1>3, Zenon DEF ForwardEnds
  <2>2. PICK x : Goto(c, [pc |-> "done", got |-> x])
    BY <1>3, ClientMoves, Zenon
  <2>3. "key" \notin DOMAIN [pc |-> "done", got |-> x]
    BY Zenon
  <2> QED BY <2>1, <2>2, <2>3, <1>c, Zenon
<1>4. ASSUME NEW c \in Clients, RecordLooks(c) PROVE CounterInv'
  <2>1. client[c].pc # "done" /\ UNCHANGED counters
    BY <1>4, Zenon DEF RecordLooks
  <2>2. CASE Goto(c, [pc |-> "create", key |-> client[c].key])
    BY <2>1, <2>2, <1>c, Zenon
  <2>3. CASE Goto(c, [pc |-> "add", key |-> client[c].key]) /\ counters[client[c].key] # None
    BY <2>1, <2>3, <1>c, Zenon
  <2> QED BY <1>4, <2>2, <2>3, ClientMoves, Zenon
<1>5. ASSUME NEW c \in Clients, RecordCreates(c) PROVE CounterInv'
  <2>1. PICK key : key = client[c].key
    BY Zenon
  <2>2. /\ client[c].pc = "create"
        /\ counters' = [counters EXCEPT ![key] = IF @ = None THEN 0 ELSE @]
    BY <1>5, <2>1, Zenon DEF RecordCreates
  <2>3. Goto(c, [pc |-> "add", key |-> key])
    BY <1>5, <2>1, ClientMoves, Zenon
  <2>4. /\ client'[c] = [pc |-> "add", key |-> key]
        /\ \A d \in Clients : d # c => client'[d] = client[d]
    BY <2>3, GotoMoves, Zenon
  <2>5. \A k \in Keys : UNCHANGED Recorded(k)
    BY <2>2, <2>4 DEF Recorded
  <2>6. /\ counters' \in [Keys -> Nat \cup {None}]
        /\ \A k \in Keys : Total(counters'[k]) = Total(counters[k])
        /\ \A k \in Keys : counters[k] # None \/ k = key => counters'[k] # None
    <3>1. DOMAIN counters = Keys /\ \A k \in Keys : counters[k] \in Nat \cup {None}
      BY <1>a, Zenon
    <3>2. /\ DOMAIN counters' = Keys
          /\ counters' = [k \in Keys |-> counters'[k]]
          /\ \A k \in Keys : k # key => counters'[k] = counters[k]
          /\ key \in Keys => counters'[key] = IF counters[key] = None THEN 0 ELSE counters[key]
      BY <2>2, <3>1, Zenon
    <3>3. ASSUME NEW k \in Keys
          PROVE  /\ counters'[k] \in Nat \cup {None}
                 /\ Total(counters'[k]) = Total(counters[k])
                 /\ counters[k] # None \/ k = key => counters'[k] # None
      <4>1. CASE k # key
        BY <3>1, <3>2, <4>1, Zenon
      <4>2. CASE k = key
        BY <3>1, <3>2, <4>2, EdgeAssumption
      <4> QED BY <4>1, <4>2, Zenon
    <3> HIDE DEF Total
    <3> QED BY <3>2, <3>3, Zenon
  <2>7. \A k \in Keys : Total(counters'[k]) = Cardinality(Recorded(k)')
    BY <2>5, <2>6, <1>a, Zenon
  <2>8. \A d \in Clients : client'[d].pc = "add" /\ client'[d].key \in Keys =>
           counters'[client'[d].key] # None
    BY <2>4, <2>6, <1>a
  <2> QED BY <2>6, <2>7, <2>8, <1>b, Zenon
<1>6. ASSUME NEW c \in Clients, RecordAdds(c) PROVE CounterInv'
  <2>1. PICK key : key = client[c].key
    BY Zenon
  <2>2. client[c].pc = "add" /\ counters' = [counters EXCEPT ![key] = @ + 1]
    BY <1>6, <2>1, Zenon DEF RecordAdds
  <2>3. Goto(c, [pc |-> "done", key |-> key])
    BY <1>6, <2>1, ClientMoves, Zenon
  <2>4. /\ client'[c] = [pc |-> "done", key |-> key]
        /\ \A d \in Clients : d # c => client'[d] = client[d]
    BY <2>3, GotoMoves, Zenon
  <2>5. /\ \A k \in Keys : k # key => UNCHANGED Recorded(k)
        /\ c \notin Recorded(key) /\ Recorded(key)' = Recorded(key) \cup {c}
    BY <2>2, <2>4 DEF Recorded
  <2>6. key \in Keys => counters[key] \in Nat
    BY <2>1, <2>2, <1>a, Zenon
  <2>7. /\ counters' \in [Keys -> Nat \cup {None}]
        /\ \A k \in Keys : k # key => counters'[k] = counters[k]
        /\ key \in Keys => counters'[key] = counters[key] + 1
    <3>1. DOMAIN counters = Keys /\ \A k \in Keys : counters[k] \in Nat \cup {None}
      BY <1>a, Zenon
    <3>2. /\ DOMAIN counters' = Keys
          /\ counters' = [k \in Keys |-> counters'[k]]
          /\ \A k \in Keys : k # key => counters'[k] = counters[k]
          /\ key \in Keys => counters'[key] = counters[key] + 1
      BY <2>2, <3>1, Zenon
    <3>3. \A k \in Keys : counters'[k] \in Nat \cup {None}
      BY <2>6, <3>1, <3>2
    <3> QED BY <3>2, <3>3, Zenon
  <2>8. Cardinality(Recorded(key)') = Cardinality(Recorded(key)) + 1
    <3>1. IsFiniteSet(Recorded(key))
      BY EdgeAssumption, FS_Subset, Zenon DEF Recorded
    <3> QED BY <2>5, <3>1, FS_AddElement, Zenon
  <2>9. ASSUME NEW k \in Keys PROVE Total(counters'[k]) = Cardinality(Recorded(k)')
    <3>1. CASE k = key
      <4>1. counters[key] # None /\ counters[key] + 1 # None
        BY <2>6, <3>1, EdgeAssumption
      <4>2. counters[key] = Cardinality(Recorded(key))
        BY <3>1, <4>1, <1>a, Zenon
      <4> QED BY <2>7, <2>8, <3>1, <4>1, <4>2, Zenon
    <3>2. CASE k # key
      BY <2>5, <2>7, <2>9, <3>2, <1>a, Zenon
    <3> QED BY <3>1, <3>2, Zenon
  <2>10. \A d \in Clients : client'[d].pc = "add" /\ client'[d].key \in Keys =>
            counters'[client'[d].key] # None
    BY <2>4, <2>6, <2>7, <1>a, EdgeAssumption
  <2> QED BY <2>7, <2>9, <2>10, <1>b, Zenon
<1>7. ASSUME UNCHANGED <<client, counters>> PROVE CounterInv'
  BY <1>7, Zenon DEF CounterInv, EveryRequestCounted
<1> QED BY <1>1, <1>2, <1>3, <1>4, <1>5, <1>6, <1>7, ClientsAlone DEF Served, UpstreamAnswers

-----------------------------------------------------------------------------
(* The theorems about the edge. *)

\* The inductive invariant of the edge.
THEOREM EdgeInvHolds == EdgeSpec => []EdgeInv
<1>1. EdgeInit => EdgeInv
  <2> SUFFICES ASSUME EdgeInit PROVE EdgeInv
    BY Zenon
  <2>1. WatchInv
    BY WatchersAssumption DEF EdgeInit, WatchInit, WatchInv, WatchTypeOK, WatchState, Versions
  <2>2. ViewInv
    BY EdgeAssumption DEF EdgeInit, WatchInit, ViewInv, Current
  <2>3. ClientInv /\ \A c \in Clients : client[c].pc = "idle"
    BY ClientShapes, Zenon DEF EdgeInit, ClientInv, Idle
  <2>4. SocketInv
    BY <2>3, Zenon DEF EdgeInit, SocketInv, Forwarded, Waiting, AnswersItsQuery
  <2>5. CounterInv
    <3>1. \A k \in Hosts \X Paths : Recorded(k) = {} /\ counters[k] = None
      BY <2>3, Zenon DEF EdgeInit, Recorded
    <3>2. Cardinality({}) = 0
      BY FS_EmptySet, Zenon
    <3>3. EveryRequestCounted
      BY <3>1, <3>2, Zenon DEF EveryRequestCounted, Recorded
    <3> QED BY <2>3, <3>3, Zenon DEF EdgeInit, CounterInv
  <2> QED BY <2>1, <2>2, <2>3, <2>4, <2>5, Zenon DEF EdgeInv
<1>2. EdgeInv /\ [EdgeNext]_edgeVars => EdgeInv'
  BY EdgeWatches, WatchStep, ViewStep, ClientStep, SocketStep, CounterStep, Zenon DEF EdgeInv
<1> QED BY <1>1, <1>2, PTL DEF EdgeSpec

\* No watcher of the edge that waits with nothing left to wake it shows an old
\* state (primary/mod.rs:218-231).
THEOREM EdgeLosesNoWakeup == EdgeSpec => []NoLostWakeup
<1>1. EdgeInv => NoLostWakeup
  BY WatchersAssumption, WatchStateShape DEF EdgeInv, WatchInv, WatchTypeOK, NoLostWakeup, Versions
<1> QED BY <1>1, EdgeInvHolds, PTL

\* A watcher that has caught up serves what it derives from the committed state:
\* the DNS records of that state, and the table of its routes in some order.
THEOREM ViewsAreDerived ==
  EdgeSpec =>
    [](/\ watch["dns"].shown = version => records = ComputeDnsRecords(fsm)
       /\ watch["proxy"].shown = version => \E l \in Routes(fsm) : table = RouteTable(l))
<1>1. EdgeInv => /\ watch["dns"].shown = version => records = ComputeDnsRecords(fsm)
                 /\ watch["proxy"].shown = version => \E l \in Routes(fsm) : table = RouteTable(l)
  BY Zenon DEF EdgeInv, ViewInv
<1> QED BY <1>1, EdgeInvHolds, PTL

\* The safety half of ClientsServed: a forwarded query gets its own answer until
\* one has timed out, and every proxied request is counted exactly once.
THEOREM ClientsAreServed == EdgeSpec => [](AnswersItsQueryUnlessLate /\ EveryRequestCounted)
<1>1. EdgeInv => AnswersItsQueryUnlessLate /\ EveryRequestCounted
  BY Zenon DEF EdgeInv, SocketInv, CounterInv, AnswersItsQueryUnlessLate
<1> QED BY <1>1, EdgeInvHolds, PTL

=============================================================================
