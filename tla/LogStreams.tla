------------------------------ MODULE LogStreams ------------------------------
(***************************************************************************)
(* Container logs, from the buffer of an allocation on its node            *)
(* (secondary/logs.rs, the log commands of secondary/mod.rs) through the   *)
(* report channel and the subscribers of the primary (primary/report.rs)   *)
(* to the clients of GET /v1/logs (primary/logs.rs).                       *)
(*                                                                         *)
(* The lines of an allocation are numbered in the order its forwarder gets *)
(* them; what the containerd channel drops before has no number.  The link *)
(* between node and primary keeps order (RpcLink has its losses).  Each    *)
(* stream sends LogFollow at most once for an allocation, so that a follow *)
(* task is named by its stream and allocation.                             *)
(***************************************************************************)
EXTENDS Integers, Sequences, SequencesExt, FiniteSets

CONSTANTS
    Streams, Allocs, None,
    Watched,        \* the streams whose clients and histories are recorded
    MAX_LINES,      \* lines a LogBuffer keeps
    LiveCap,        \* capacity of its broadcast channel
    ReportCap,      \* capacity of the report channel
    SubCap,         \* capacity of a subscriber's channel
    TailLines,      \* lines a client asks for
    MaxLines,       \* bound: lines of an allocation
    MaxUnsent       \* bound: commands that cannot be sent

VARIABLES
    buf,            \* per allocation: lines broadcast and lines kept, whether it is in
                    \* the node's map, whether its forwarder runs
    cmds,           \* commands sent to the node
    loop,           \* what the command loop is about to report, or None
    follows,        \* log_follows: the stream whose task has the token, or None
    task,           \* task[s][a]: the follow task of stream s, or None
    reports,        \* reports on their way to the primary
    subs,           \* subs[a]: the subscribers of allocation a
    stream,         \* the requests
    since,          \* history: since[s][a], the lines there were when s began to follow
    shared,         \* history: streams that met another one, or what one had left
    unsent,         \* history: the streams a command of which was not sent
    dropped         \* history: a lagging task or a full subscriber lost lines

nodeVars == <<loop, follows, task>>
primaryVars == <<subs, stream>>
historyVars == <<since, shared, unsent, dropped>>
logVars == <<buf, cmds, nodeVars, reports, primaryVars, historyVars>>

Lines == 1 .. MaxLines
Batch(a, ls) == [alloc |-> a, lines |-> ls]
Waiting == [pc |-> "idle", follow |-> FALSE, todo |-> {}, chan |-> <<>>, gone |-> FALSE,
            got |-> [a \in Allocs |-> [lines |-> {}, sorted |-> TRUE]]]

LogInit ==
    /\ buf = [a \in Allocs |-> [fwd |-> 0, kept |-> 0, mapped |-> TRUE, open |-> TRUE]]
    /\ cmds = <<>> /\ loop = None /\ reports = <<>>
    /\ follows = [a \in Allocs |-> None]
    /\ task = [s \in Streams |-> [a \in Allocs |-> None]]
    /\ subs = [a \in Allocs |-> {}]
    /\ stream = [s \in Streams |-> Waiting]
    /\ since = [s \in Streams |-> [a \in Allocs |-> None]]
    /\ shared = {} /\ unsent = {} /\ dropped = FALSE

-----------------------------------------------------------------------------
(* LogBuffer and spawn_log_forwarder. *)

\* push, first half: the line goes to the followers.
Broadcast(a) ==
    /\ buf[a].open /\ buf[a].fwd = buf[a].kept /\ buf[a].fwd < MaxLines
    /\ buf' = [buf EXCEPT ![a].fwd = @ + 1]
    /\ UNCHANGED <<cmds, nodeVars, reports, primaryVars, historyVars>>

\* push, second half, under the lock of the buffer.
Keep(a) ==
    /\ buf[a].kept < buf[a].fwd
    /\ buf' = [buf EXCEPT ![a].kept = @ + 1]
    /\ UNCHANGED <<cmds, nodeVars, reports, primaryVars, historyVars>>

\* The allocation is removed from the map; its output ends.  An output that
\* ends before is one that has no more lines.
Forget(a) ==
    /\ buf[a].mapped
    /\ buf' = [buf EXCEPT ![a].mapped = FALSE]
    /\ UNCHANGED <<cmds, nodeVars, reports, primaryVars, historyVars>>

EndOutput(a) ==
    /\ ~buf[a].mapped /\ buf[a].open /\ buf[a].kept = buf[a].fwd
    /\ buf' = [buf EXCEPT ![a].open = FALSE]
    /\ UNCHANGED <<cmds, nodeVars, reports, primaryVars, historyVars>>

\* The last n of the lines that are kept.
BufferTail(a, n) ==
    LET kept == IF buf[a].kept < MAX_LINES THEN buf[a].kept ELSE MAX_LINES
        want == IF n < kept THEN n ELSE kept
    IN  [i \in 1 .. want |-> buf[a].kept - want + i]

-----------------------------------------------------------------------------
(* The command loop of the node and its follow tasks. *)

NextCommand(ops) == loop = None /\ cmds # <<>> /\ Head(cmds).op \in ops /\ cmds' = Tail(cmds)


\* LogTail reads the buffer, and answers for an allocation it does not know.
LogTail ==
    LET a == Head(cmds).alloc IN
    /\ NextCommand({"LogTail"})
    /\ loop' = Batch(a, IF buf[a].mapped THEN BufferTail(a, TailLines) ELSE <<>>)
    /\ UNCHANGED <<buf, follows, task, reports, primaryVars, historyVars>>

SendTail ==
    /\ loop # None /\ Len(reports) < ReportCap
    /\ reports' = Append(reports, loop)
    /\ loop' = None
    /\ UNCHANGED <<buf, cmds, follows, task, primaryVars, historyVars>>

Cancelled(a) ==
    IF follows[a] # None /\ task[follows[a]][a] # None
    THEN [task EXCEPT ![follows[a]][a].cancelled = TRUE] ELSE task

NewTask(a) == [pos |-> buf[a].fwd, hold |-> 0, cancelled |-> FALSE]

\* LogFollow cancels the follow there is and subscribes anew, from now on;
\* LogUnfollow only cancels.
LogFollow ==
    LET a == Head(cmds).alloc
        s == Head(cmds).by
        starts == Head(cmds).op = "LogFollow" /\ buf[a].mapped
    IN  /\ NextCommand({"LogFollow", "LogUnfollow"})
        /\ task' = IF starts THEN [Cancelled(a) EXCEPT ![s][a] = NewTask(a)] ELSE Cancelled(a)
        /\ follows' = [follows EXCEPT ![a] = IF starts THEN s ELSE None]
        /\ since' = [since EXCEPT ![s][a] = IF starts /\ s \in Watched THEN buf[a].fwd ELSE None]
        /\ UNCHANGED <<buf, loop, reports, primaryVars, shared, unsent, dropped>>

\* rx.recv: the next line, or Lagged when the channel has overwritten it.
FollowReceives(s, a) ==
    LET t == task[s][a]
        lag == buf[a].fwd - t.pos > LiveCap
    IN  /\ t # None /\ t.hold = 0 /\ t.pos < buf[a].fwd
        /\ task' = [task EXCEPT ![s][a] =
                      IF lag THEN [t EXCEPT !.pos = buf[a].fwd - LiveCap]
                      ELSE [t EXCEPT !.pos = @ + 1, !.hold = t.pos + 1]]
        /\ dropped' = (dropped \/ lag)
        /\ UNCHANGED <<buf, cmds, loop, follows, reports, primaryVars, since, shared, unsent>>

FollowSends(s, a) ==
    /\ task[s][a] # None /\ task[s][a].hold # 0 /\ Len(reports) < ReportCap
    /\ reports' = Append(reports, Batch(a, <<task[s][a].hold>>))
    /\ task' = [task EXCEPT ![s][a].hold = 0]
    /\ UNCHANGED <<buf, cmds, loop, follows, primaryVars, historyVars>>

\* Faulty variant: the task ends with the allocation, lines or not.
FollowEndsEarly(s, a) ==
    LET t == task[s][a] IN
    /\ t # None /\ t.hold = 0 /\ (t.cancelled \/ ~buf[a].mapped)
    /\ task' = [task EXCEPT ![s][a] = None]
    /\ UNCHANGED <<buf, cmds, loop, follows, reports, primaryVars, historyVars>>

\* The token, or the end of the channel once nobody holds the buffer.
FollowEnds(s, a) ==
    LET t == task[s][a] IN
    /\ t # None /\ t.hold = 0
    /\ t.cancelled \/ (t.pos = buf[a].fwd /\ ~buf[a].open /\ ~buf[a].mapped)
    /\ task' = [task EXCEPT ![s][a] = None]
    /\ UNCHANGED <<buf, cmds, loop, follows, reports, primaryVars, historyVars>>

-----------------------------------------------------------------------------
(* process_report on the primary. *)

Closed(s) == stream[s].pc = "done"

\* LogLines: closed subscribers are dropped, a full one misses the lines.
ProcessLines ==
    LET r == Head(reports)
        to == {s \in subs[r.alloc] : ~Closed(s)}
        full == {s \in to : Len(stream[s].chan) = SubCap}
    IN  /\ reports # <<>> /\ reports' = Tail(reports)
        /\ subs' = [subs EXCEPT ![r.alloc] = to]
        /\ stream' = [s \in Streams |-> IF s \in to \ full
                                        THEN [stream[s] EXCEPT !.chan = Append(@, r)] ELSE stream[s]]
        /\ dropped' = (dropped \/ full # {})
        /\ UNCHANGED <<buf, cmds, nodeVars, since, shared, unsent>>

-----------------------------------------------------------------------------
(* stream_logs, one task per request. *)

Pending == cmds # <<>> \/ loop # None \/ reports # <<>>
Others(s) == {t \in Streams \ {s} : stream[t].pc \notin {"idle", "done"}}

\* The allocations are read and the channel is registered with each of them.
Open(s, follow) ==
    /\ stream[s].pc = "idle"
    /\ stream' = [stream EXCEPT ![s] = [Waiting EXCEPT !.pc = "tail", !.follow = follow, !.todo = Allocs]]
    /\ subs' = [a \in Allocs |-> subs[a] \cup {s}]
    /\ shared' = Watched \cap (shared \cup Others(s) \cup IF Others(s) # {} \/ Pending THEN {s} ELSE {})
    /\ UNCHANGED <<buf, cmds, nodeVars, reports, since, unsent, dropped>>

\* No allocation has the name.
OpenNone(s) ==
    /\ stream[s].pc = "idle"
    /\ stream' = [stream EXCEPT ![s].pc = "done"]
    /\ UNCHANGED <<buf, cmds, nodeVars, reports, subs, historyVars>>

\* Faulty variant: a request that follows asks for the tail last.
CommandTailLast(r) ==
    CASE r.pc = "tail" -> IF r.follow THEN "LogFollow" ELSE "LogTail"
      [] r.pc = "follow" -> "LogTail"
      [] r.pc = "unfollow" -> "LogUnfollow"

\* The command a stream sends, and where it goes after the last of them.
Command(r) ==
    CASE r.pc = "tail" -> "LogTail"
      [] r.pc = "follow" -> "LogFollow"
      [] r.pc = "unfollow" -> "LogUnfollow"

After(r) ==
    IF r.pc = "tail" /\ r.follow THEN [r EXCEPT !.pc = "follow", !.todo = Allocs]
    ELSE [r EXCEPT !.pc = IF r.pc = "unfollow" THEN "clean" ELSE "recv"]

\* router.send for one allocation; an error is ignored.
SendCommand(s, a) ==
    LET r == [stream[s] EXCEPT !.todo = @ \ {a}]
    IN  /\ stream[s].pc \in {"tail", "follow", "unfollow"} /\ a \in stream[s].todo
        /\ stream' = [stream EXCEPT ![s] = IF r.todo = {} THEN After(r) ELSE r]
        /\ \/ /\ cmds' = Append(cmds, [op |-> Command(stream[s]), alloc |-> a, by |-> s])
              /\ UNCHANGED unsent
           \/ /\ Cardinality(unsent) < MaxUnsent
              /\ unsent' = unsent \cup {s}
              /\ UNCHANGED cmds
        /\ UNCHANGED <<buf, nodeVars, reports, subs, since, shared, dropped>>

Increasing(q) == \A i \in 1 .. Len(q) - 1 : q[i] < q[i + 1]

\* What a client has, and whether it came in order.
Delivered(g, ls) ==
    [lines |-> g.lines \cup ToSet(ls),
     sorted |-> g.sorted /\ Increasing(ls) /\ \A k \in g.lines, l \in ToSet(ls) : k < l]

\* Whether the client is found to be gone.  No step depends on it.
Found(s) == IF s \in Watched THEN {stream[s].gone, TRUE} ELSE {FALSE}

\* log_rx.recv: a batch goes to the client, line by line, until the client is
\* found to be gone; that ends the batch, and only a request that does not
\* follow.  The channel is closed when no subscription is left.
Receive(s) ==
    LET r == stream[s]
        b == Head(r.chan)
    IN  /\ r.pc = "recv"
        /\ r.chan # <<>> \/ \A a \in Allocs : s \notin subs[a]
        /\ \E gone \in Found(s) :
             stream' = [stream EXCEPT ![s] =
                IF r.chan = <<>>
                THEN [r EXCEPT !.pc = IF r.follow THEN "unfollow" ELSE "clean", !.todo = Allocs]
                ELSE [r EXCEPT !.pc = IF r.follow THEN "recv" ELSE "clean",
                               !.chan = Tail(@),
                               !.gone = gone,
                               !.got[b.alloc] = IF gone \/ s \notin Watched THEN @
                                                ELSE Delivered(@, b.lines)]]
        /\ UNCHANGED <<buf, cmds, nodeVars, reports, subs, historyVars>>

\* Closed subscribers are removed; the channel of s is dropped only afterwards.
CleanUp(s) ==
    /\ stream[s].pc = "clean"
    /\ subs' = [a \in Allocs |-> {t \in subs[a] : ~Closed(t)}]
    /\ stream' = [stream EXCEPT ![s].pc = "done", ![s].chan = <<>>]
    /\ UNCHANGED <<buf, cmds, nodeVars, reports, historyVars>>

-----------------------------------------------------------------------------
Container(a) == Broadcast(a) \/ EndOutput(a) \/ Forget(a)
NodeLoop == LogTail \/ SendTail \/ LogFollow
FollowTask(s, a) == FollowReceives(s, a) \/ FollowSends(s, a) \/ FollowEnds(s, a)
Serve(s) == (\E a \in Allocs : SendCommand(s, a)) \/ Receive(s) \/ CleanUp(s)

LogNext ==
    \/ \E a \in Allocs : Container(a) \/ Keep(a)
    \/ NodeLoop
    \/ \E s \in Streams, a \in Allocs : FollowTask(s, a)
    \/ ProcessLines
    \/ \E s \in Streams : Serve(s) \/ OpenNone(s) \/ \E f \in BOOLEAN : Open(s, f)

\* Every spawned task is scheduled.  Containers and clients owe nothing.
LogFairness ==
    /\ \A a \in Allocs : WF_logVars(Keep(a))
    /\ WF_logVars(NodeLoop) /\ WF_logVars(ProcessLines)
    /\ \A s \in Streams : WF_logVars(Serve(s))
    /\ \A s \in Streams, a \in Allocs : WF_logVars(FollowTask(s, a))

LogSpec == LogInit /\ [][LogNext]_logVars /\ LogFairness

-----------------------------------------------------------------------------
\* The lines of an allocation reach a client in order and once: the tail is
\* asked for before the follow, and the follow begins with lines the tail does
\* not have (primary/logs.rs:62-77, secondary/logs.rs:24-33).  Another request
\* at the same time has its tail sent to everyone (report.rs:271-282).
InOrderUnlessShared ==
    \A s \in Watched \ shared : \A a \in Allocs : stream[s].got[a].sorted

InOrder == \A s \in Watched, a \in Allocs : stream[s].got[a].sorted

\* Where a line is that has been broadcast since stream s follows.
OnItsWay(s, a, k) ==
    LET t == task[s][a] IN
    \/ k \in stream[s].got[a].lines
    \/ \E b \in ToSet(stream[s].chan) \cup ToSet(reports) : b.alloc = a /\ Contains(b.lines, k)
    \/ t # None /\ (t.hold = k \/ t.pos < k)

\* From the moment a request follows, each line is delivered or on its way to
\* the client, also when the container ends or its allocation is removed
\* meanwhile (secondary/mod.rs:180-223); only full channels lose lines.
NoLineMissedUnlessShared ==
    \A s \in Watched \ shared, a \in Allocs :
        (since[s][a] # None /\ ~stream[s].gone /\ ~dropped) =>
            \A k \in since[s][a] + 1 .. buf[a].fwd : OnItsWay(s, a, k)

\* However many requests follow an allocation, the last LogFollow leaves one
\* task that is not cancelled (secondary/mod.rs:180-190).
FollowersServed ==
    \A s \in Watched, a \in Allocs :
        (since[s][a] # None /\ stream[s].pc = "recv" /\ buf[a].mapped) =>
            /\ follows[a] # None
            /\ task[follows[a]][a] # None /\ ~task[follows[a]][a].cancelled


\* The request of a client that is gone comes to an end (primary/logs.rs:15-16
\* "Returns when all channels close or the progress sender is dropped.").
LeftIsEnded == \A s \in Watched : []<>(stream[s].pc \in {"idle", "done"} \/ ~stream[s].gone)

\* No line is missing between the tail and what follows it.
NoGap ==
    \A s \in Watched, a \in Allocs :
        LET got == stream[s].got[a].lines IN
        (s \notin shared /\ ~dropped) => \A i, j \in got : i .. j \subseteq got

\* A follower is served: its allocation has a task that is not cancelled, and no
\* line from then on is missed (secondary/mod.rs:180-223).
FollowServesUnlessShared == NoLineMissedUnlessShared /\ FollowersServed

=============================================================================
