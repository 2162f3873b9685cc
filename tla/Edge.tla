-------------------------------- MODULE Edge --------------------------------
(***************************************************************************)
(* The edge of the cluster: the watchers that turn the state into DNS      *)
(* records and proxy routes (crates/node/src/primary/{dns,proxy}.rs), the  *)
(* DNS server with its forwarder (crates/net/src/dns), and the proxy's     *)
(* route table, request handlers and counters (crates/proxy/src/proxy).    *)
(*                                                                         *)
(* A path is a sequence, and "/" the empty one, so that starts_with is     *)
(* Begins; a HashMap is read in any order.  Headers, bodies, latencies     *)
(* and the frames of a websocket are left out.  A client makes one query   *)
(* or one request.                                                         *)
(***************************************************************************)
EXTENDS MillFsm, StateWatchers, Sequencing

CONSTANTS
    Hosts,          \* hostnames with routes
    RoutesOf,       \* config -> service -> sequence of [host, path, websocket]
    Paths,          \* paths of routes and requests
    Healthz,        \* the path of the proxy's own health check
    Outside,        \* a name that does not end in ".mill."
    Clients,
    MaxEvents,      \* bound: changes of the state and clients that ask, together
    StartFsm,       \* the state when the primary starts
    Changes         \* the commands that are committed: [config], a Deploy;
                    \* [alloc, address], an AllocRunning; [alloc, status]

ASSUME EdgeAssumption ==
    /\ Watchers = {"dns", "proxy"}
    /\ IsFiniteSet(Clients) /\ None \notin Nat

VARIABLES
    fsm,
    list,           \* of a watcher: the value it computed last
    records,        \* DnsServer.records: service name -> addresses
    table,          \* RouteTable: hostname -> entries, longest path first
    certs,          \* hostnames with a certificate in the CertCache
    counters,       \* ProxyMetrics: route -> requests recorded, or None
    client,         \* of a client: its step, what it asked and what it got
    upstream,       \* queries the upstream resolver has yet to answer
    socket          \* answers in the buffer of the forwarder's socket

edgeVars == <<watchVars, fsm, list, records, table, certs, counters, client, upstream, socket>>
viewVars == <<list, records, table>>
dnsVars == <<upstream, socket>>

Idle == [pc |-> "idle"]
Asking == {c \in Clients : client[c] # Idle}
MayStart == version - 1 + Cardinality(Asking) < MaxEvents

-----------------------------------------------------------------------------
(* What the watchers derive. *)

Reachable(s, n) ==
    {a \in ActiveAllocs(s) : s.allocs[a].name = n /\ s.allocs[a].address # None}

\* compute_dns_records and set_records: a name without addresses has no record.
ComputeDnsRecords(s) ==
    [n \in Names |-> {s.allocs[a].address : a \in Reachable(s, n)}]

\* compute_proxy_routes, with the services and the allocations in this order.
ComputeProxyRoutes(s, services, allocs) ==
    IF s.config = None THEN <<>> ELSE
    LET Backends(n) == SelectSeq(allocs, LAMBDA a : a \in Reachable(s, n))
        Entries(n, r) == [i \in 1 .. Len(Backends(n)) |->
                            [host |-> r.host, path |-> r.path, websocket |-> r.websocket,
                             backend |-> s.allocs[Backends(n)[i]].address]]
        Service(n) == Concatenated(LAMBDA i : Entries(n, RoutesOf[s.config][n][i]),
                                   Len(RoutesOf[s.config][n]))
    IN  Concatenated(LAMBDA i : Service(services[i]), Len(services))

\* Faulty variant: entries stay in the order they were pushed in.
RouteTableUnsorted(l) == [h \in Hosts |-> SelectSeq(l, LAMBDA e : e.host = h)]

\* RouteTable::new: by hostname, then a stable sort by path length, longest first.
RouteTable(l) ==
    LET Longest == 1 + (CHOOSE n \in {Len(p) : p \in Paths} : \A p \in Paths : Len(p) <= n)
        OfLength(h, n) == SelectSeq(l, LAMBDA e : e.host = h /\ Len(e.path) = n)
    IN  [h \in Hosts |-> Concatenated(LAMBDA i : OfLength(h, Longest - i), Longest)]

\* RouteTable::lookup: the first entry whose path is a prefix of the request's.
Lookup(t, h, p) ==
    LET found == SelectSeq(t[h], LAMBDA e : Begins(e.path, p)) IN
    IF found = <<>> THEN None ELSE Head(found)

Hostnames == {h \in Hosts : table[h] # <<>>}

-----------------------------------------------------------------------------
EdgeInit ==
    /\ WatchInit
    /\ fsm = StartFsm
    /\ list = [w \in Watchers |-> <<>>] /\ records = [n \in Names |-> {}] /\ table = [h \in Hosts |-> <<>>]
    /\ certs = {} /\ counters = [k \in Hosts \X Paths |-> None]
    /\ client = [c \in Clients |-> Idle]
    /\ upstream = {} /\ socket = <<>>

Applied(s, ch) ==
    IF "config" \in DOMAIN ch THEN Deploy(s, ch.config)
    ELSE IF "address" \in DOMAIN ch THEN AllocRunning(s, ch.alloc, ch.address)
    ELSE SetAllocStatus(s, ch.alloc, ch.status)

\* A batch is applied; one that leaves the state as it was is not of interest.
CommitChange ==
    /\ MayStart /\ Commit
    /\ \E ch \in Changes : Applied(fsm, ch) # fsm /\ fsm' = Applied(fsm, ch)
    /\ UNCHANGED <<viewVars, certs, counters, client, dnsVars>>

NotifyWatchers ==
    Notify /\ UNCHANGED <<fsm, viewVars, certs, counters, client, dnsVars>>

WatcherWakes(w) ==
    Wake(w) /\ UNCHANGED <<fsm, viewVars, certs, counters, client, dnsVars>>

WatcherReads(w) ==
    /\ Read(w)
    /\ IF w = "dns" THEN list' = [list EXCEPT ![w] = ComputeDnsRecords(fsm)] ELSE
       \E s \in Orders(Names), a \in Orders(AllocIds) :
          list' = [list EXCEPT ![w] = ComputeProxyRoutes(fsm, s, a)]
    /\ UNCHANGED <<fsm, records, table, certs, counters, client, dnsVars>>

\* set_records replaces all records under the write lock; update_routes swaps
\* the whole table.
WatcherShows(w) ==
    /\ Show(w)
    /\ IF w = "dns" THEN records' = list[w] /\ UNCHANGED table
       ELSE table' = RouteTable(list[w]) /\ UNCHANGED records
    /\ UNCHANGED <<fsm, list, certs, counters, client, dnsVars>>

\* The certificate watcher puts a certificate for a routed hostname in the cache.
CertCached(h) ==
    /\ h \in Hostnames \ certs
    /\ certs' = certs \cup {h}
    /\ UNCHANGED <<watchVars, fsm, viewVars, counters, client, dnsVars>>

-----------------------------------------------------------------------------
(* The DNS server. *)

Goto(c, r) == client' = [client EXCEPT ![c] = r]

\* An answer of our own: its code is not told apart from the others.
Reply(code) == [pc |-> "done"]

\* handle_query: the addresses on record, or NXDOMAIN; a query of another type
\* gets a response without answers.
Query(c, n, type) ==
    /\ MayStart /\ client[c] = Idle
    /\ Goto(c, IF n = Outside THEN [pc |-> "lock"] ELSE
               IF type # "A" THEN Reply("NoError")
               ELSE IF records[n] = {} THEN Reply("NXDomain") ELSE Reply("NoError"))
    /\ UNCHANGED <<watchVars, fsm, viewVars, certs, counters, dnsVars>>

Waiting == {c \in Clients : client[c].pc = "wait"}

\* Forwarder::forward holds the socket's lock from send_to to the answer.
Forward(c) ==
    /\ client[c].pc = "lock" /\ Waiting = {}
    /\ Goto(c, [pc |-> "wait"])
    /\ upstream' = upstream \cup {c}
    /\ UNCHANGED <<watchVars, fsm, viewVars, certs, counters, socket>>

\* The upstream resolver answers at any time, in any order, or never.
UpstreamAnswers(c) ==
    /\ c \in upstream
    /\ upstream' = upstream \ {c} /\ socket' = Append(socket, c)
    /\ UNCHANGED <<watchVars, fsm, viewVars, certs, counters, client>>


\* recv takes the first answer there is, and gives up after three seconds;
\* serve_loop then answers SERVFAIL.
ForwardEnds(c) ==
    /\ client[c].pc = "wait"
    /\ IF socket # <<>>
       THEN Goto(c, [pc |-> "done", got |-> Head(socket)]) /\ socket' = Tail(socket)
       ELSE Goto(c, [pc |-> "done", got |-> "ServFail"]) /\ UNCHANGED socket
    /\ UNCHANGED <<watchVars, fsm, viewVars, certs, counters, upstream>>

-----------------------------------------------------------------------------
(* The proxy. *)

\* handle_http_request and handle_https_request up to the forwarding: health
\* check, missing host, redirect, route lookup.
Request(c, tls, h, p) ==
    LET route == Lookup(table, h, p) IN
        /\ MayStart /\ client[c] = Idle
        /\ Goto(c, IF ~tls /\ p = Healthz THEN Reply("200")
                   ELSE IF h = None THEN Reply("400")
                   ELSE IF ~tls /\ h \in certs THEN Reply("308")
                   ELSE IF route = None THEN Reply("404")
                   ELSE [pc |-> "forward", key |-> <<h, route.path>>])
        /\ UNCHANGED <<watchVars, fsm, viewVars, certs, counters, dnsVars>>

\* forward_request, or handle_websocket_upgrade for an upgrade request on a
\* websocket route: whether the backend answers or not, the request is recorded.
Proxied(c) ==
    /\ client[c].pc = "forward"
    /\ Goto(c, [pc |-> "record", key |-> client[c].key])
    /\ UNCHANGED <<watchVars, fsm, viewVars, certs, counters, dnsVars>>

\* ProxyMetrics::record takes the lock to look for the counters of the route ...
RecordLooks(c) ==
    /\ client[c].pc = "record"
    /\ Goto(c, [client[c] EXCEPT !.pc = IF counters[client[c].key] = None THEN "create" ELSE "add"])
    /\ UNCHANGED <<watchVars, fsm, viewVars, certs, counters, dnsVars>>

\* ... takes it again to create them, unless another request has in between ...
RecordCreates(c) ==
    /\ client[c].pc = "create"
    /\ counters' = [counters EXCEPT ![client[c].key] = IF @ = None THEN 0 ELSE @]
    /\ Goto(c, [client[c] EXCEPT !.pc = "add"])
    /\ UNCHANGED <<watchVars, fsm, viewVars, certs, dnsVars>>

\* ... and adds the request; then the response goes out.
RecordAdds(c) ==
    /\ client[c].pc = "add"
    /\ counters' = [counters EXCEPT ![client[c].key] = @ + 1]
    /\ Goto(c, [client[c] EXCEPT !.pc = "done"])
    /\ UNCHANGED <<watchVars, fsm, viewVars, certs, dnsVars>>

-----------------------------------------------------------------------------
Watcher(w) == WatcherWakes(w) \/ WatcherReads(w) \/ WatcherShows(w)

Asks(c) ==
    \/ \E n \in Names \cup {Outside}, type \in {"A", "other"} : Query(c, n, type)
    \/ \E tls \in BOOLEAN, h \in Hosts \cup {None}, p \in Paths : Request(c, tls, h, p)

Served(c) ==
    \/ Forward(c) \/ ForwardEnds(c) \/ Proxied(c)
    \/ RecordLooks(c) \/ RecordCreates(c) \/ RecordAdds(c)

EdgeNext ==
    \/ CommitChange \/ NotifyWatchers
    \/ \E w \in Watchers : Watcher(w)
    \/ \E h \in Hosts : CertCached(h)
    \/ \E c \in Clients : Asks(c) \/ Served(c) \/ UpstreamAnswers(c)

\* Tasks of the runtime are scheduled; a lock that is free is granted; recv
\* returns or times out.  Nothing makes the resolver answer or a client ask.
EdgeFairness ==
    /\ WF_edgeVars(NotifyWatchers)
    /\ \A w \in Watchers : WF_edgeVars(Watcher(w))
    /\ \A c \in Clients : WF_edgeVars(Served(c))

EdgeSpec == EdgeInit /\ [][EdgeNext]_edgeVars /\ EdgeFairness

-----------------------------------------------------------------------------
\* The routes of state s that serve path p of host h: of the services that have
\* a backend now, the longest path that is a prefix of p.
Serving(s, h, p) ==
    LET all == IF s.config = None THEN {} ELSE
               UNION {{[path |-> r.path, backend |-> s.allocs[a].address] :
                         r \in {q \in Range(RoutesOf[s.config][n]) : q.host = h /\ Begins(q.path, p)},
                         a \in Reachable(s, n)} : n \in Names}
    IN  {e \in all : \A f \in all : Len(f.path) <= Len(e.path)}

\* Whatever order the maps are read in, a watcher that has caught up serves what
\* the state says: all addresses of a service in DNS and no others, and for
\* every host and path a backend of the most specific route that has one
\* (dns.rs:16-32, proxy.rs:13-47, routes.rs:33-65).
ViewsMatchState ==
    /\ watch["dns"].shown = version => records = ComputeDnsRecords(fsm)
    /\ watch["proxy"].shown = version =>
          \A h \in Hosts, p \in Paths :
             LET e == Lookup(table, h, p) IN
             IF e = None THEN Serving(fsm, h, p) = {}
             ELSE [path |-> e.path, backend |-> e.backend] \in Serving(fsm, h, p)

DnsView == INSTANCE StateFollower WITH now <- version, seen <- watch["dns"].shown
ProxyView == INSTANCE StateFollower WITH now <- version, seen <- watch["proxy"].shown

\* The DNS watcher implements StateFollower, its liveness included: records
\* derived from a state that is gone are replaced, never by older ones
\* (primary/mod.rs:205-236, primary/dns.rs:35-46).
DnsFollows == DnsView!FollowerSpec

\* And so does the proxy watcher with its routes (primary/proxy.rs:50-65).
ProxyFollows == ProxyView!FollowerSpec

\* Every proxied request is counted once, also when two requests find no
\* counters for their route and both set out to create them (metrics.rs:53-79).
EveryRequestCounted ==
    \A k \in Hosts \X Paths :
       (IF counters[k] = None THEN 0 ELSE counters[k]) =
          Cardinality({c \in Clients : client[c].pc = "done" /\ "key" \in DOMAIN client[c]
                                        /\ client[c].key = k})

Forwarded == {c \in Clients : client[c].pc = "done" /\ "got" \in DOMAIN client[c]}

\* A forwarded query is answered by the answer to that query
\* (forward.rs:28-42).
AnswersItsQuery == \A c \in Forwarded : client[c].got \in {c, "ServFail"}

\* It is, as long as no query has timed out: the lock keeps the answers of two
\* queries apart, and only an answer that arrives after the timeout is taken
\* for the answer to the next one (forward.rs:30-42).
AnswersItsQueryUnlessLate ==
    (\A c \in Forwarded : client[c].got # "ServFail") => AnswersItsQuery

\* No query or request is left without an answer, whatever the resolver and the
\* backends do (forward.rs:34-38, mod.rs:131-145, forward.rs of the proxy).
ClientsAnswered == []<>(\A c \in Clients : client[c].pc \in {"idle", "done"})

\* Both views of the state implement StateFollower: see DnsFollows and
\* ProxyFollows (primary/dns.rs:35-46, primary/proxy.rs:50-65).
ViewsFollow == DnsFollows /\ ProxyFollows


-----------------------------------------------------------------------------
(* Why they hold. *)

\* The routes of a state, in any order; a watcher that is about to show the
\* committed state.
Routes(s) == {ComputeProxyRoutes(s, n, a) : n \in Orders(Names), a \in Orders(AllocIds)}
Current(w) == watch[w].pc = "apply" /\ watch[w].held = version

\* The value a watcher is about to put in place is that of the version it has
\* read, and the value in place that of the version it shows.
ViewInv ==
    /\ list = [w \in Watchers |-> list[w]]
    /\ Current("dns") => list["dns"] = ComputeDnsRecords(fsm)
    /\ watch["dns"].shown = version => records = ComputeDnsRecords(fsm)
    /\ Current("proxy") => list["proxy"] \in Routes(fsm)
    /\ watch["proxy"].shown = version => \E l \in Routes(fsm) : table = RouteTable(l)

ClientOK(r) ==
    \/ /\ DOMAIN r = {"pc"} /\ r = [pc |-> r.pc]
       /\ r.pc \in {"idle", "lock", "wait", "done"}
    \/ DOMAIN r = {"pc", "got"} /\ r = [pc |-> "done", got |-> r.got]
    \/ /\ DOMAIN r = {"pc", "key"} /\ r = [pc |-> r.pc, key |-> r.key]
       /\ r.pc \in {"forward", "record", "create", "add", "done"}

ClientInv == client = [c \in Clients |-> client[c]] /\ \A c \in Clients : ClientOK(client[c])

\* Until a query times out, the one query that holds the lock has its answer
\* still with the resolver or alone in the socket.
SocketInv ==
    (\A c \in Forwarded : client[c].got # "ServFail") =>
        /\ AnswersItsQuery
        /\ \/ Waiting = {} /\ upstream = {} /\ socket = <<>>
           \/ \E c \in Clients :
                 /\ Waiting = {c}
                 /\ \/ upstream = {c} /\ socket = <<>>
                    \/ upstream = {} /\ socket = <<c>>

\* A request adds to counters that exist.
CounterInv ==
    /\ counters \in [Hosts \X Paths -> Nat \cup {None}]
    /\ EveryRequestCounted
    /\ \A c \in Clients : client[c].pc = "add" /\ client[c].key \in Hosts \X Paths =>
          counters[client[c].key] # None

EdgeInv == WatchInv /\ ViewInv /\ ClientInv /\ SocketInv /\ CounterInv

=============================================================================
