---------------------------- MODULE StateWatchers ----------------------------
(***************************************************************************)
(* spawn_fsm_watcher (crates/node/src/primary/mod.rs) over the watch       *)
(* channel of the state machine (crates/raft/src/fsm/mod.rs): apply and    *)
(* install_snapshot change the state and bump its version under the write  *)
(* lock, and send the version after they have released it.  Between the    *)
(* two, and between the steps of a watcher, anything may run.              *)
(*                                                                         *)
(* A committed state is named by its version; what a watcher derives from  *)
(* it is added in module Edge.                                             *)
(***************************************************************************)
EXTENDS Naturals

CONSTANTS
    Watchers,       \* the watchers: of the DNS records, of the proxy's routes
    MaxChanges      \* bound: changes of the state in a run

ASSUME WatchersAssumption == MaxChanges \in Nat

VARIABLES
    version,        \* of the committed state; the first state is 1
    notified,       \* the version sent last on the watch channel
    watch           \* of a watcher: its step, the version its receiver has
                    \* marked as seen, the version of the state it has read,
                    \* and the version of the state whose value is in place

watchVars == <<version, notified, watch>>

Versions == 0 .. MaxChanges + 1

WatchState ==
    [pc : {"select", "read", "apply"}, mark : Versions, held : Versions, shown : Versions]

WatchTypeOK ==
    /\ version \in Versions /\ notified \in Versions
    /\ watch \in [Watchers -> WatchState]

\* A watcher subscribes before it reads the state for the first time.
WatchInit ==
    /\ version = 1 /\ notified = 1
    /\ watch = [w \in Watchers |-> [pc |-> "read", mark |-> 1, held |-> 0, shown |-> 0]]

\* The single apply task: the next batch waits until the version is sent.
Commit ==
    /\ version <= MaxChanges /\ notified = version
    /\ version' = version + 1
    /\ UNCHANGED <<notified, watch>>

Notify ==
    /\ notified # version
    /\ notified' = version
    /\ UNCHANGED <<version, watch>>

\* Faulty variant: the change is awaited once, not in a loop.
WakeOnce(w) ==
    /\ watch[w].pc = "select" /\ watch[w].mark = 1 /\ notified # 1
    /\ watch' = [watch EXCEPT ![w].pc = "read", ![w].mark = notified]
    /\ UNCHANGED <<version, notified>>

\* rx.changed(): the receiver marks the version sent last as seen.
Wake(w) ==
    /\ watch[w].pc = "select" /\ watch[w].mark # notified
    /\ watch' = [watch EXCEPT ![w].pc = "read", ![w].mark = notified]
    /\ UNCHANGED <<version, notified>>

\* read_state(compute), under the read lock.
Read(w) ==
    /\ watch[w].pc = "read"
    /\ watch' = [watch EXCEPT ![w].pc = "apply", ![w].held = version]
    /\ UNCHANGED <<version, notified>>

\* Faulty variant: what was sent while the value was put in place counts as seen.
ShowMarks(w) ==
    /\ watch[w].pc = "apply"
    /\ watch' = [watch EXCEPT ![w].pc = "select", ![w].shown = watch[w].held,
                              ![w].mark = notified]
    /\ UNCHANGED <<version, notified>>

\* apply(value).
Show(w) ==
    /\ watch[w].pc = "apply"
    /\ watch' = [watch EXCEPT ![w].pc = "select", ![w].shown = watch[w].held]
    /\ UNCHANGED <<version, notified>>

WatchNext ==
    \/ Commit \/ Notify
    \/ \E w \in Watchers : Wake(w) \/ Read(w) \/ Show(w)

WatchSpec == WatchInit /\ [][WatchNext]_watchVars

-----------------------------------------------------------------------------
\* A watcher that waits with nothing left to wake it shows the committed state:
\* no change falls between its read of the state and its wait for the next
\* version (primary/mod.rs:218-231; fsm/mod.rs:153-157).
NoLostWakeup ==
    \A w \in Watchers :
       watch[w].pc = "select" /\ watch[w].mark = version => watch[w].shown = version

\* Its inductive strengthening: what a receiver has marked is never newer than
\* the state its watcher goes on to show.
WatchInv ==
    /\ WatchTypeOK
    /\ notified <= version
    /\ \A w \in Watchers :
          /\ watch[w].mark <= notified
          /\ watch[w].shown <= watch[w].held /\ watch[w].held <= version
          /\ watch[w].pc = "apply" => watch[w].mark <= watch[w].held
          /\ watch[w].pc = "select" =>
                watch[w].shown = watch[w].held /\ watch[w].mark <= watch[w].shown

\* Each watcher keeps the promise of StateFollower.
Follower(w) == INSTANCE StateFollower WITH now <- version, seen <- watch[w].shown

=============================================================================
