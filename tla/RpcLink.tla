------------------------------ MODULE RpcLink ------------------------------
(***************************************************************************)
(* The links between the primary and the remote secondaries: the           *)
(* CommandRouter with its reader, writer and reconnect tasks               *)
(* (rpc/router.rs), the connection watcher that follows the node table of  *)
(* the state machine (primary/mod.rs), and the RpcServer of a node         *)
(* (rpc/server.rs).                                                        *)
(*                                                                         *)
(* A connection is a TCP stream that keeps order until it breaks.  Either  *)
(* side notices a break only when it uses the stream: what had arrived     *)
(* may still be read, and a write may be swallowed by a buffer before one  *)
(* fails.  Commands are numbered in the order in which callers start to    *)
(* send them; a report is a heartbeat.  The RwLock around the senders is   *)
(* held for reading by a caller that waits for room in a channel.          *)
(***************************************************************************)
EXTENDS Naturals, Sequences, FiniteSets, SequencesExt

CONSTANTS
    Nodes,          \* the names of remote nodes
    None,
    MaxConns,       \* bound: TCP connections ever made
    ChannelCap,     \* room in the command channel of a connection (256)
    WireCap,        \* commands a stream holds that the node has not read
    MaxSends,       \* bound: calls of send and broadcast
    MaxBreaks,      \* bound: streams that break
    MaxChanges      \* bound: nodes that register or are removed

ASSUME LinkAssumption ==
    /\ None \notin Nodes
    /\ MaxConns \in Nat /\ ChannelCap \in Nat \ {0} /\ WireCap \in Nat \ {0}
    /\ MaxSends \in Nat /\ MaxBreaks \in Nat /\ MaxChanges \in Nat
    /\ Cardinality(Nodes) * (1 + MaxChanges) + MaxBreaks <= MaxConns

VARIABLES
    members,        \* the remote nodes of the state machine
    changed,        \* the watch channel holds a change the watcher has not seen
    watcher,        \* the connection watcher
    inner,          \* CommandRouter.inner: the connection whose channel is registered
    tokens,         \* CommandRouter.connections: the connection disconnect would cancel
    conn,           \* the connections, None before they are made
    loops,          \* how many reconnect loops run for a node
    call,           \* the caller inside send or broadcast, None if there is none
    sent,           \* how many commands callers have started to send
    got,            \* the commands the secondary of a node has taken
    changes,        \* changes of the node table so far
    breaks          \* breaks so far

tableVars == <<members, changes, breaks>>
watcherVars == <<changed, watcher>>
routerVars == <<inner, tokens, loops>>
callVars == <<call, sent>>
linkVars == <<tableVars, watcherVars, routerVars, callVars, got, conn>>

Conns == 1 .. MaxConns
Commands == 1 .. MaxSends
Wired == {"auth", "inner", "wired"}

Connection ==
    [node: Nodes, up: BOOLEAN, cancelled: BOOLEAN, stage: Wired,
     chan: Seq(Commands), cmds: Seq(Commands), reps: 0 .. 1,
     writer: {"run", "deregister", "done"}, reader: {"run", "done"},
     taker: {"run", "done"}, relay: {"wait", "run", "done"}]

LinkTypeOK ==
    /\ members \subseteq Nodes /\ changed \in BOOLEAN
    /\ watcher \in [todo: SUBSET Nodes, gone: SUBSET Nodes, connected: SUBSET Nodes,
                    dialed: Conns \cup {None}, leaving: Nodes \cup {None}]
    /\ inner \in [Nodes -> Conns \cup {None}] /\ tokens \in [Nodes -> Conns \cup {None}]
    /\ \A c \in Conns : conn[c] = None \/ conn[c] \in Connection
    /\ \A c \in Conns : conn[c] # None =>
          Len(conn[c].chan) <= ChannelCap /\ Len(conn[c].cmds) <= WireCap
    /\ loops \in [Nodes -> Nat]
    /\ call = None \/ call \in [cmd: Commands, todo: SUBSET Nodes]
    /\ sent \in 0 .. MaxSends
    /\ got \in [Nodes -> Seq(Commands)]
    /\ changes \in 0 .. MaxChanges /\ breaks \in 0 .. MaxBreaks

\* The primary starts with the nodes its state machine has; the watcher looks
\* at them at once, without waiting for a change.
LinkInit ==
    /\ members = Nodes /\ changed = TRUE
    /\ watcher = [todo |-> {}, gone |-> {}, connected |-> {}, dialed |-> None, leaving |-> None]
    /\ inner = [n \in Nodes |-> None] /\ tokens = [n \in Nodes |-> None]
    /\ conn = [c \in Conns |-> None] /\ loops = [n \in Nodes |-> 0]
    /\ call = None /\ sent = 0
    /\ got = [n \in Nodes |-> <<>>] /\ changes = 0 /\ breaks = 0

Made == {c \in Conns : conn[c] # None}
Fresh == Conns \ Made
LockFree == call = None

\* The stream ends for the node: it broke, or the primary dropped both halves.
DeadForNode(c) ==
    ~conn[c].up \/ (conn[c].stage = "wired" /\ conn[c].writer = "done" /\ conn[c].reader = "done")

\* It ends for the primary: it broke, or the handler of the node has returned.
DeadForPrimary(c) == ~conn[c].up \/ conn[c].relay = "done"

Set(c, r) == conn' = [conn EXCEPT ![c] = r @@ conn[c]]

-----------------------------------------------------------------------------
(* The node table and the connection watcher. *)

\* A node registers or is removed; every applied entry wakes the watcher.
ChangeMembers(n) ==
    /\ changes < MaxChanges /\ changes' = changes + 1
    /\ members' = IF n \in members THEN members \ {n} ELSE members \cup {n}
    /\ changed' = TRUE
    /\ UNCHANGED <<routerVars, callVars, got, watcher, conn, breaks>>

\* Any other entry is applied: a heartbeat, a status, a deploy.  The watcher
\* has something to do then only if an attempt to connect has failed.
ApplyEntry ==
    /\ watcher.connected # members
    /\ ~changed /\ changed' = TRUE
    /\ UNCHANGED <<tableVars, routerVars, callVars, got, watcher, conn>>

WatcherIdle ==
    watcher.todo = {} /\ watcher.gone = {} /\ watcher.dialed = None /\ watcher.leaving = None

\* The watcher reads the node table: what is new and what is gone.
WatcherReads ==
    /\ WatcherIdle /\ changed /\ changed' = FALSE
    /\ watcher' = [watcher EXCEPT !.todo = members \ watcher.connected,
                                  !.gone = watcher.connected \ members]
    /\ UNCHANGED <<tableVars, routerVars, callVars, got, conn>>

\* TCP connect and do_auth succeed: the node's server has spawned a handler.
Dial(c, n) ==
    /\ c = CHOOSE d \in Fresh : \A e \in Fresh : d <= e
    /\ conn' = [conn EXCEPT ![c] =
          [node |-> n, up |-> TRUE, cancelled |-> FALSE, stage |-> "auth",
           chan |-> <<>>, cmds |-> <<>>, reps |-> 0,
           writer |-> "run", reader |-> "run", taker |-> "run", relay |-> "wait"]]

\* The watcher connects to the new nodes one after the other; a failure is
\* skipped until the next change.
WatcherDials(n) ==
    /\ n \in watcher.todo /\ watcher.dialed = None
    /\ \/ \E c \in Fresh :
             /\ Dial(c, n)
             /\ watcher' = [watcher EXCEPT !.todo = @ \ {n}, !.dialed = c]
       \/ watcher' = [watcher EXCEPT !.todo = @ \ {n}] /\ UNCHANGED conn
    /\ UNCHANGED <<tableVars, routerVars, callVars, got, changed>>

\* disconnect takes the token of the node and cancels it ...
WatcherCancels(n) ==
    /\ watcher.todo = {} /\ watcher.dialed = None
    /\ n \in watcher.gone /\ watcher.leaving = None
    /\ watcher' = [watcher EXCEPT !.leaving = n]
    /\ tokens' = [tokens EXCEPT ![n] = None]
    /\ IF tokens[n] = None THEN UNCHANGED conn ELSE Set(tokens[n], [cancelled |-> TRUE])
    /\ UNCHANGED <<tableVars, callVars, got, changed, inner, loops>>

\* ... and removes the sender of the node.
WatcherDeregisters ==
    /\ watcher.leaving # None /\ LockFree
    /\ inner' = [inner EXCEPT ![watcher.leaving] = None]
    /\ watcher' = [watcher EXCEPT !.gone = @ \ {watcher.leaving}, !.leaving = None,
                                  !.connected = @ \ {watcher.leaving}]
    /\ UNCHANGED <<tableVars, callVars, got, changed, tokens, conn, loops>>

Watch ==
    \/ WatcherReads \/ WatcherDeregisters
    \/ \E n \in Nodes : WatcherDials(n) \/ WatcherCancels(n)

-----------------------------------------------------------------------------
(* A connection on the primary: wire_connection and its tasks. *)

\* Faulty variant: the channel that is replaced is dropped with its commands.
WireSenderDrops(c) ==
    /\ conn[c].stage = "auth" /\ LockFree
    /\ inner' = [inner EXCEPT ![conn[c].node] = c]
    /\ conn' = [d \in Conns |->
          IF d = c THEN [conn[c] EXCEPT !.stage = "inner"]
          ELSE IF d = inner[conn[c].node] THEN [conn[d] EXCEPT !.chan = <<>>] ELSE conn[d]]
    /\ UNCHANGED <<tableVars, watcherVars, tokens, loops, callVars, got>>

\* The channel of the connection takes the place of the one registered.
WireSender(c) ==
    /\ conn[c].stage = "auth" /\ LockFree
    /\ inner' = [inner EXCEPT ![conn[c].node] = c]
    /\ Set(c, [stage |-> "inner"])
    /\ UNCHANGED <<tableVars, watcherVars, callVars, got, tokens, loops>>

\* So does its token, and the tasks of the connection run from here; the
\* token that is replaced is not cancelled.  The watcher, if it waits for
\* this connection, counts the node as connected.
WireToken(c) ==
    /\ conn[c].stage = "inner"
    /\ tokens' = [tokens EXCEPT ![conn[c].node] = c]
    /\ Set(c, [stage |-> "wired"])
    /\ watcher' = IF watcher.dialed # c THEN watcher
                  ELSE [watcher EXCEPT !.connected = @ \cup {conn[c].node}, !.dialed = None]
    /\ UNCHANGED <<tableVars, changed, inner, loops, callVars, got>>

Writing(c) == conn[c].stage = "wired" /\ conn[c].writer = "run"

\* A write fails: the writer returns and drops the channel with what is in it.
WriterFails(c) ==
    /\ Writing(c) /\ conn[c].chan # <<>> /\ DeadForPrimary(c)
    /\ Set(c, [writer |-> "deregister", chan |-> <<>>])
    /\ UNCHANGED <<tableVars, watcherVars, routerVars, callVars, got>>

\* A write succeeds, be it into a buffer of a dead stream.
WriterWrites(c) ==
    /\ Writing(c) /\ conn[c].chan # <<>>
    /\ \/ ~DeadForPrimary(c) /\ Len(conn[c].cmds) < WireCap
          /\ Set(c, [chan |-> Tail(conn[c].chan), cmds |-> Append(conn[c].cmds, Head(conn[c].chan))])
       \/ DeadForPrimary(c) /\ Set(c, [chan |-> Tail(conn[c].chan)])
    /\ UNCHANGED <<tableVars, watcherVars, routerVars, callVars, got>>

\* The writer ends because its token is cancelled, or because its sender is no
\* longer registered and the channel is empty.
WriterEnds(c) ==
    /\ Writing(c)
    /\ conn[c].cancelled \/ (conn[c].chan = <<>> /\ inner[conn[c].node] # c)
    /\ Set(c, [writer |-> "done", chan |-> <<>>])
    /\ UNCHANGED <<tableVars, watcherVars, routerVars, callVars, got>>

\* After a failed write the writer deregisters whatever sender the node has
\* and spawns a reconnect loop, which only a shutdown cancels.
WriterDeregisters(c) ==
    /\ conn[c].writer = "deregister" /\ LockFree
    /\ inner' = [inner EXCEPT ![conn[c].node] = None]
    /\ loops' = [loops EXCEPT ![conn[c].node] = @ + 1]
    /\ Set(c, [writer |-> "done"])
    /\ UNCHANGED <<tableVars, watcherVars, callVars, got, tokens>>

\* Faulty variant: an attempt that fails ends the loop.
ReconnectGivesUp(n) ==
    /\ loops[n] > 0 /\ loops' = [loops EXCEPT ![n] = @ - 1]
    /\ (\E c \in Fresh : Dial(c, n)) \/ UNCHANGED conn
    /\ UNCHANGED <<tableVars, watcherVars, inner, tokens, callVars, got>>

\* A reconnect loop gets through; a failed attempt leaves it where it is.
Reconnect(n) ==
    /\ loops[n] > 0 /\ loops' = [loops EXCEPT ![n] = @ - 1]
    /\ \E c \in Fresh : Dial(c, n)
    /\ UNCHANGED <<tableVars, watcherVars, callVars, got, inner, tokens>>

Reading(c) == conn[c].stage = "wired" /\ conn[c].reader = "run"

\* The reader hands a report to the report processor.
ReaderReads(c) ==
    /\ Reading(c) /\ conn[c].reps > 0
    /\ Set(c, [reps |-> 0])
    /\ UNCHANGED <<tableVars, watcherVars, routerVars, callVars, got>>

\* It ends on an error, at the end of the stream, or when it is cancelled, and
\* tells nobody.
ReaderEnds(c) ==
    /\ Reading(c)
    /\ conn[c].cancelled \/ ~conn[c].up \/ (conn[c].relay = "done" /\ conn[c].reps = 0)
    /\ Set(c, [reader |-> "done", reps |-> 0])
    /\ UNCHANGED <<tableVars, watcherVars, routerVars, callVars, got>>

WriterTask(c) ==
    \/ WireSender(c) \/ WireToken(c)
    \/ WriterFails(c) \/ WriterWrites(c) \/ WriterEnds(c) \/ WriterDeregisters(c)
ReaderTask(c) == ReaderReads(c) \/ ReaderEnds(c)

-----------------------------------------------------------------------------
(* The node: the handlers of its RpcServer share the report channel. *)

\* The reading task of a handler hands a command to the secondary.
TakerReads(c) ==
    /\ conn[c].taker = "run" /\ conn[c].cmds # <<>>
    /\ Set(c, [cmds |-> Tail(conn[c].cmds)])
    /\ got' = [got EXCEPT ![conn[c].node] = Append(@, Head(conn[c].cmds))]
    /\ UNCHANGED <<tableVars, watcherVars, routerVars, callVars>>

\* It ends on an error or at the end of the stream.
TakerEnds(c) ==
    /\ conn[c].taker = "run"
    /\ ~conn[c].up \/ (conn[c].stage = "wired" /\ conn[c].writer = "done" /\ conn[c].cmds = <<>>)
    /\ Set(c, [taker |-> "done", cmds |-> <<>>])
    /\ UNCHANGED <<tableVars, watcherVars, routerVars, callVars, got>>

Handlers(n) == {c \in Made : conn[c].node = n}

\* A handler takes the lock of the report channel; those that wait for it are
\* served in turn.
RelayLocks(c) ==
    /\ conn[c].relay = "wait"
    /\ \A d \in Handlers(conn[c].node) :
          conn[d].relay # "run" /\ (conn[d].relay = "wait" => c <= d)
    /\ Set(c, [relay |-> "run"])
    /\ UNCHANGED <<tableVars, watcherVars, routerVars, callVars, got>>

\* The handler that holds the lock writes a report to a stream it can use.
RelayWrites(c) ==
    /\ conn[c].relay = "run" /\ ~DeadForNode(c) /\ conn[c].reps = 0
    /\ Set(c, [reps |-> 1])
    /\ UNCHANGED <<tableVars, watcherVars, routerVars, callVars, got>>

\* Faulty variant: the handler goes on after a failed write.
RelayGoesOn(c) ==
    /\ conn[c].relay = "run" /\ DeadForNode(c)
    /\ Set(c, [taker |-> "done", cmds |-> <<>>])
    /\ UNCHANGED <<tableVars, watcherVars, routerVars, callVars, got>>

\* A write fails, after any number that a buffer swallowed: the report is
\* lost, the handler aborts its reading task and returns, which releases the
\* lock.
RelayFails(c) ==
    /\ conn[c].relay = "run" /\ DeadForNode(c)
    /\ Set(c, [relay |-> "done", taker |-> "done", cmds |-> <<>>])
    /\ UNCHANGED <<tableVars, watcherVars, routerVars, callVars, got>>

TakerTask(c) == TakerReads(c) \/ TakerEnds(c)
RelayTask(c) == RelayLocks(c) \/ RelayWrites(c) \/ RelayFails(c)

-----------------------------------------------------------------------------
(* Callers of the router. *)

Registered == {n \in Nodes : inner[n] # None}

\* send to one node, or broadcast to all that are registered: the read lock is
\* held until the last channel has taken the command.  A send to a node that
\* is not registered fails at once.
SendStarts ==
    /\ call = None /\ sent < MaxSends /\ sent' = sent + 1
    /\ \E ns \in {{n} : n \in Registered} \cup ({Registered} \ {{}}) :
          call' = [cmd |-> sent + 1, todo |-> ns]
    /\ UNCHANGED <<tableVars, watcherVars, routerVars, conn, got>>

\* Faulty variant: the receiver outlives the writer that failed.
SendPutsWaits(n) ==
    /\ call # None /\ n \in call.todo
    /\ call' = IF call.todo = {n} THEN None ELSE [call EXCEPT !.todo = @ \ {n}]
    /\ conn[inner[n]].writer = "run" /\ Len(conn[inner[n]].chan) < ChannelCap
    /\ Set(inner[n], [chan |-> Append(conn[inner[n]].chan, call.cmd)])
    /\ UNCHANGED <<tableVars, watcherVars, routerVars, sent, got>>

\* A channel takes the command when it has room, and refuses it when its
\* receiver is gone; after the last one the call returns.
SendPuts(n) ==
    /\ call # None /\ n \in call.todo
    /\ call' = IF call.todo = {n} THEN None ELSE [call EXCEPT !.todo = @ \ {n}]
    /\ LET c == inner[n] IN
          \/ conn[c].writer = "run" /\ Len(conn[c].chan) < ChannelCap
             /\ Set(c, [chan |-> Append(conn[c].chan, call.cmd)])
          \/ conn[c].writer # "run" /\ UNCHANGED conn
    /\ UNCHANGED <<tableVars, watcherVars, routerVars, sent, got>>

Call == \E n \in Nodes : SendPuts(n)

-----------------------------------------------------------------------------
Break(c) ==
    /\ conn[c].up /\ breaks < MaxBreaks /\ breaks' = breaks + 1
    /\ Set(c, [up |-> FALSE])
    /\ UNCHANGED <<watcherVars, routerVars, callVars, got, members, changes>>

LinkNext ==
    \/ \E n \in Nodes : ChangeMembers(n) \/ Reconnect(n)
    \/ ApplyEntry \/ Watch \/ SendStarts \/ Call
    \/ \E c \in Made : WriterTask(c) \/ ReaderTask(c) \/ TakerTask(c) \/ RelayTask(c) \/ Break(c)

\* Tasks are scheduled and what they await returns: a stream that is up takes
\* writes, a write to a dead one fails at some point, select! does not pass
\* over a cancelled token for ever, a node that is dialled
\* over and over answers at some point.  Nobody has to send a command, change
\* the node table or apply an entry.
LinkFairness ==
    /\ WF_linkVars(Watch) /\ WF_linkVars(Call)
    /\ \A n \in Nodes : WF_linkVars(Reconnect(n))
    /\ \A c \in Conns :
          /\ WF_linkVars(c \in Made /\ WriterTask(c)) /\ WF_linkVars(c \in Made /\ ReaderTask(c))
          /\ WF_linkVars(c \in Made /\ ReaderEnds(c))
          /\ WF_linkVars(c \in Made /\ TakerTask(c)) /\ WF_linkVars(c \in Made /\ RelayTask(c))

LinkSpec == LinkInit /\ [][LinkNext]_linkVars /\ LinkFairness

-----------------------------------------------------------------------------
\* The secondary takes no command twice, whatever reconnects happen between
\* the router's acceptance of it and the node (router.rs:208-229, 257-295).
CommandsOnce ==
    \A n \in Nodes : \A i, j \in 1 .. Len(got[n]) : got[n][i] = got[n][j] => i = j

\* A command that a channel has taken leaves the link only into the secondary,
\* unless the stream has broken or disconnect has cancelled it: a channel that
\* a reconnect replaces keeps its commands (router.rs:154, 215-224).
InFlight(c) == ToSet(conn[c].chan) \cup ToSet(conn[c].cmds)
Sound(c) == conn[c].up /\ ~conn[c].cancelled
CommandsKept ==
    [][\A c \in Made : Sound(c) =>
         InFlight(c) \subseteq InFlight(c)' \cup ToSet(got'[conn[c].node])]_linkVars

\* And it does leave: no command stays in a link that is up (router.rs:214-225,
\* server.rs:126-146).
LinksDrain == []<>(\A c \in Made : Sound(c) => InFlight(c) = {})

\* Every send and broadcast returns, with the lock they hold while they wait
\* for room: no task that would make room needs that lock (router.rs:58-62,
\* 68-81, 166-170).
SendsReturn == []<>(call = None)

\* While a node has a stream that stays up, a stream that is up relays its
\* reports again and again: the lock of the report channel does not stay with
\* the handler of a dead one (server.rs:58-61, 149-158).
Live(c) == conn[c].up /\ Reading(c) /\ ~conn[c].cancelled
Linked(n) == \E c \in Handlers(n) : Live(c) /\ conn[c].relay # "done"
LiveRelay(n) == \E c \in Handlers(n) : Live(c) /\ conn[c].relay = "run"
RelayTakesOver == \A n \in Nodes : <>[]Linked(n) => []<>LiveRelay(n)

\* A node whose loss was noticed by a write gets a sender again: the reconnect
\* loop ends in wire_connection (router.rs:168-179, 257-295).
ReconnectEnds == \A n \in Nodes : [](loops[n] > 0 => <>(inner[n] # None))

\* Once the watcher has caught up, no sender is registered for a node that was
\* removed (primary/mod.rs:238-239 "automatically connects to new remote nodes
\* and disconnects from removed ones").
RemovedIsGone ==
    \A n \in Nodes \ members : WatcherIdle /\ ~changed => inner[n] = None

\* The same when no reconnect loop of the node was started while it was a
\* member: RemovedIsGone fails only through such a loop.
RemovedIsGoneUnlessLost ==
    \A n \in Nodes \ members :
        WatcherIdle /\ ~changed => inner[n] = None \/ \E c \in Handlers(n) : ~conn[c].up

\* A command the router accepted reaches the node once and only once, unless
\* its stream breaks or is cancelled (router.rs:154, 208-229, 257-295).
CommandsExactlyOnce == []CommandsOnce /\ CommandsKept

\* No command and no caller is stuck: links drain, and every send returns
\* although it waits for room while it holds the lock (router.rs:58-81, 166-170,
\* 214-225).
NobodyWaitsForever == LinksDrain /\ SendsReturn

\* The watcher's bookkeeping ends where the members are: a reconnect loop gets
\* its node back, and a removed node keeps a sender only through such a loop
\* (primary/mod.rs:238-300, router.rs:231-300).
WatcherSettles == []RemovedIsGoneUnlessLost /\ ReconnectEnds

=============================================================================
