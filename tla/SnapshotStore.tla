--------------------------- MODULE SnapshotStore ---------------------------
(***************************************************************************)
(* One replica's storage: the state machine store (raft/src/fsm/mod.rs),   *)
(* the in-memory log (raft/src/log_store.rs), snapshots on disk            *)
(* (raft/src/snapshot/disk.rs) and MillRaft::open (raft/src/lib.rs).       *)
(*                                                                         *)
(* The content of a state machine is the sequence of log indexes whose     *)
(* entries were applied to it.  openraft is external: it appends, applies  *)
(* and purges entries and installs snapshots in one worker task, and runs  *)
(* at most one snapshot builder in a task of its own beside that worker.   *)
(* The builder and an install write the same files.                        *)
(***************************************************************************)
EXTENDS Integers, Sequences

CONSTANTS
    Absent,
    MaxIndex,       \* bound: entries of the log
    MaxCrashes      \* bound: crashes of the process

ASSUME SnapshotAssumption == MaxIndex \in Nat /\ MaxCrashes \in Nat

ASSUME FilesAssumption ==
    Absent \notin Int \cup Seq(Int) \cup [data : Seq(Int), index : Int]

VARIABLES
    log, purged,    \* log store: indexes present, last_purged (0: none)
    content, applied,  \* state machine: fsm and last_applied (0: none)
    version,        \* version counter of the state machine
    channel,        \* the change channel
    view, seen,     \* a watcher: the content it last read, the version it has seen
    slot,           \* current_snapshot: Absent or [data, index]
    known,          \* index of the newest snapshot openraft knows of
    disk,           \* files: data, meta and their .tmp files, Absent if absent
    builder, installer,  \* writers of snapshots: [pc, data, index]
    crashes,
    torn,           \* history: a crash hit a writer between its two renames
    overlap         \* history: a snapshot was installed while a builder ran

logVars == <<log, purged>>
machineVars == <<content, applied, version, channel>>
watchVars == <<view, seen>>
snapVars == <<slot, known>>
writerVars == <<builder, installer>>
historyVars == <<crashes, torn, overlap>>
storeVars == <<logVars, machineVars, watchVars, snapVars, disk, writerVars, historyVars>>

Indexes == 1 .. MaxIndex
IndexOrZero == 0 .. MaxIndex
\* The content that belongs to last_applied = i.
Prefix(i) == [k \in 1 .. i |-> k]

Writers == [pc : {"idle", "tmpData", "data", "tmpMeta", "meta", "slot"},
            data : Seq(Indexes), index : IndexOrZero]
NoWriter == [pc |-> "idle", data |-> <<>>, index |-> 0]
NoFiles == [data |-> Absent, tmpData |-> Absent, meta |-> Absent, tmpMeta |-> Absent]

StoreTypeOK ==
    /\ log \subseteq Indexes /\ purged \in IndexOrZero
    /\ content \in Seq(Indexes) /\ applied \in IndexOrZero
    /\ version \in Nat /\ channel \in Nat /\ view \in Seq(Indexes) /\ seen \in Nat
    /\ slot \in [data : Seq(Indexes), index : IndexOrZero] \cup {Absent}
    /\ known \in IndexOrZero
    /\ disk \in [data : Seq(Indexes) \cup {Absent}, tmpData : Seq(Indexes) \cup {Absent},
                 meta : IndexOrZero \cup {Absent}, tmpMeta : IndexOrZero \cup {Absent}]
    /\ builder \in Writers /\ installer \in Writers
    /\ crashes \in 0 .. MaxCrashes /\ torn \in BOOLEAN /\ overlap \in BOOLEAN

StoreInit ==
    /\ log = {} /\ purged = 0 /\ content = <<>> /\ applied = 0
    /\ version = 0 /\ channel = 0 /\ view = <<>> /\ seen = 0
    /\ slot = Absent /\ known = 0 /\ disk = NoFiles
    /\ builder = NoWriter /\ installer = NoWriter
    /\ crashes = 0 /\ torn = FALSE /\ overlap = FALSE

-----------------------------------------------------------------------------
(* The log store.  openraft appends behind what it has, truncates what was  *)
(* not applied, and purges what a snapshot it knows covers.                 *)

\* get_log_state: the last key, or last_purged when there is none.
LastLog == IF log = {} THEN purged ELSE CHOOSE i \in log : \A j \in log : i >= j

AppendEntry(i) ==
    /\ i \in Indexes /\ i = 1 + (IF LastLog > applied THEN LastLog ELSE applied)
    /\ log' = log \cup {i}
    /\ UNCHANGED <<purged, machineVars, watchVars, snapVars, disk, writerVars, historyVars>>

Truncate(i) ==
    /\ i \in log /\ i > applied
    /\ log' = {j \in log : j < i}
    /\ UNCHANGED <<purged, machineVars, watchVars, snapVars, disk, writerVars, historyVars>>

\* Faulty variant: everything applied is purged.
PurgeApplied(i) ==
    /\ purged < i /\ i <= applied
    /\ log' = {j \in log : j > i}
    /\ purged' = i
    /\ UNCHANGED <<machineVars, watchVars, snapVars, disk, writerVars, historyVars>>

Purge(i) ==
    /\ purged < i /\ i <= known
    /\ log' = {j \in log : j > i}
    /\ purged' = i
    /\ UNCHANGED <<machineVars, watchVars, snapVars, disk, writerVars, historyVars>>

-----------------------------------------------------------------------------
(* The state machine and its watchers. *)

\* Faulty variant: the batch starts with the entry applied last.
ApplyEntriesAgain(i) ==
    /\ installer.pc = "idle" /\ applied < i /\ (applied + 1) .. i \subseteq log
    /\ content' = content \o [k \in 1 .. (i - applied + 1) |-> applied + k - 1]
    /\ applied' = i
    /\ version' = version + 1 /\ channel' = version'
    /\ UNCHANGED <<logVars, watchVars, snapVars, disk, writerVars, historyVars>>

\* apply: a batch of entries under one lock, then the notification.
ApplyEntries(i) ==
    /\ installer.pc = "idle" /\ applied < i /\ (applied + 1) .. i \subseteq log
    /\ content' = content \o [k \in 1 .. (i - applied) |-> applied + k]
    /\ applied' = i
    /\ version' = version + 1 /\ channel' = version'
    /\ UNCHANGED <<logVars, watchVars, snapVars, disk, writerVars, historyVars>>

\* A subscriber is woken by a new value of the channel and reads the state.
Watch ==
    /\ seen # channel
    /\ seen' = channel
    /\ view' = content
    /\ UNCHANGED <<logVars, machineVars, snapVars, disk, writerVars, historyVars>>

-----------------------------------------------------------------------------
(* Snapshots. *)

\* get_snapshot_builder: a copy of the state and its index under one lock.
BeginBuild ==
    /\ builder.pc = "idle" /\ installer.pc = "idle" /\ applied > known
    /\ builder' = [pc |-> "tmpData", data |-> content, index |-> applied]
    /\ UNCHANGED <<logVars, machineVars, watchVars, snapVars, disk, installer, historyVars>>

\* Faulty variant: subscribers are not notified.
InstallSilently(i) ==
    /\ installer.pc = "idle" /\ applied < i
    /\ content' = Prefix(i) /\ applied' = i
    /\ version' = version + 1 /\ UNCHANGED channel
    /\ slot' = [data |-> Prefix(i), index |-> i] /\ known' = i
    /\ installer' = [pc |-> "tmpData", data |-> Prefix(i), index |-> i]
    /\ overlap' = (overlap \/ builder.pc # "idle")
    /\ UNCHANGED <<logVars, watchVars, disk, builder, crashes, torn>>

\* install_snapshot: state, slot and notification, then the files.
Install(i) ==
    /\ installer.pc = "idle" /\ applied < i
    /\ content' = Prefix(i) /\ applied' = i
    /\ version' = version + 1 /\ channel' = version'
    /\ slot' = [data |-> Prefix(i), index |-> i] /\ known' = i
    /\ installer' = [pc |-> "tmpData", data |-> Prefix(i), index |-> i]
    /\ overlap' = (overlap \/ builder.pc # "idle")
    /\ UNCHANGED <<logVars, watchVars, disk, builder, crashes, torn>>

Max2(a, b) == IF a > b THEN a ELSE b

\* write_snapshot and atomic_write: one step of the writer w.  A rename whose
\* .tmp file another writer has renamed away is an error that ends the write;
\* any step may fail, and the caller only logs it.
WriteStep(w, next) ==
    \/ /\ w.pc = "tmpData" /\ disk' = [disk EXCEPT !.tmpData = w.data]
       /\ next = "data"
    \/ /\ w.pc = "data" /\ disk.tmpData # Absent
       /\ disk' = [disk EXCEPT !.data = disk.tmpData, !.tmpData = Absent]
       /\ next = "tmpMeta"
    \/ /\ w.pc = "tmpMeta" /\ disk' = [disk EXCEPT !.tmpMeta = w.index]
       /\ next = "meta"
    \/ /\ w.pc = "meta" /\ disk.tmpMeta # Absent
       /\ disk' = [disk EXCEPT !.meta = disk.tmpMeta, !.tmpMeta = Absent]
       /\ next = "slot"
    \/ /\ w.pc \in {"tmpData", "data", "tmpMeta", "meta"}
       /\ UNCHANGED disk
       /\ next = "slot"

\* A write that fails between its two renames leaves a mixed pair of files.
Mixed(w, next) == w.pc \in {"tmpMeta", "meta"} /\ next = "slot" /\ disk' = disk

BuildStep ==
    \E next \in {"data", "tmpMeta", "meta", "slot"} :
        /\ WriteStep(builder, next)
        /\ builder' = [builder EXCEPT !.pc = next]
        /\ torn' = (torn \/ Mixed(builder, next))
        /\ UNCHANGED <<logVars, machineVars, watchVars, snapVars, installer, crashes, overlap>>

\* The slot is overwritten, whatever it holds.
EndBuild ==
    /\ builder.pc = "slot"
    /\ slot' = [data |-> builder.data, index |-> builder.index]
    /\ known' = Max2(known, builder.index)
    /\ builder' = NoWriter
    /\ UNCHANGED <<logVars, machineVars, watchVars, disk, installer, historyVars>>

InstallStep ==
    \E next \in {"data", "tmpMeta", "meta", "slot"} :
        /\ WriteStep(installer, next)
        /\ installer' = IF next = "slot" THEN NoWriter ELSE [installer EXCEPT !.pc = next]
        /\ torn' = (torn \/ Mixed(installer, next))
        /\ UNCHANGED <<logVars, machineVars, watchVars, snapVars, builder, crashes, overlap>>

-----------------------------------------------------------------------------
(* Crash and MillRaft::open: the log is gone; the files decide. *)

Renaming(w) == w.pc \in {"tmpMeta", "meta"}

\* read_snapshot: both files exist.
ReadSnapshot == disk.data # Absent /\ disk.meta # Absent

CrashAndOpen ==
    /\ crashes < MaxCrashes
    /\ crashes' = crashes + 1
    /\ torn' = (torn \/ Renaming(builder) \/ Renaming(installer))
    /\ log' = {} /\ purged' = 0
    /\ content' = IF ReadSnapshot THEN disk.data ELSE <<>>
    /\ applied' = IF ReadSnapshot THEN disk.meta ELSE 0
    /\ slot' = IF ReadSnapshot THEN [data |-> disk.data, index |-> disk.meta] ELSE Absent
    /\ known' = applied'
    /\ version' = 0 /\ channel' = 0 /\ view' = content' /\ seen' = 0
    /\ builder' = NoWriter /\ installer' = NoWriter
    /\ UNCHANGED <<disk, overlap>>

-----------------------------------------------------------------------------
StoreNext ==
    \/ \E i \in Indexes : \/ AppendEntry(i) \/ Truncate(i) \/ Purge(i)
                          \/ ApplyEntries(i) \/ Install(i)
    \/ Watch \/ BeginBuild \/ BuildStep \/ EndBuild \/ InstallStep
    \/ CrashAndOpen

\* Watchers are scheduled.
StoreSpec == StoreInit /\ [][StoreNext]_storeVars /\ WF_storeVars(Watch)

-----------------------------------------------------------------------------
\* The state machine holds exactly the entries up to last_applied, each applied
\* once and in order: after a crash "during the meta write" the files are "the
\* previous consistent pair" (snapshot/disk.rs:8-10).
StateMatchesIndex == content = Prefix(applied)

\* Unless a write ended between its two renames, or the builder and an install
\* wrote the files at the same time, the state machine is the one of its index:
\* across apply, install, a build running beside them, and restarts
\* (fsm/mod.rs:71-91, 125-160, 179-216; lib.rs:58-93).
StateMatchesUnlessTorn == ~torn /\ ~overlap => StateMatchesIndex

\* What get_current_snapshot hands to openraft is the state of its own index,
\* although it was built while entries were applied (fsm/mod.rs:162-171, 245-275).
SlotMatchesUnlessTorn == ~torn /\ ~overlap /\ slot # Absent => slot.data = Prefix(slot.index)

\* "Without this, openraft can't send snapshots to new learners that need to
\* catch up" (fsm/mod.rs:265-267): the current snapshot reaches up to the
\* purged part of the log, so that a new member can be brought up to date.
SlotCoversPurged == purged > 0 => slot # Absent /\ slot.index >= purged

\* The same, when no install ran beside a builder: the current snapshot is
\* never behind the purged log.
SlotCoversUnlessOverlap == ~overlap => SlotCoversPurged

\* What the files and the writers hold while the two properties above can be
\* promised.  Files: the pair a restart would read is consistent, unless a
\* writer stands between its two renames; the .tmp file a writer is about to
\* rename is its own.  Index: the slot is the newest snapshot openraft knows of,
\* a running build will be newer, and only what it knows of is purged.
FilesAgree(w) ==
    /\ w.pc # "idle" => w.data = Prefix(w.index)
    /\ w.pc = "data" => disk.tmpData = w.data
    /\ w.pc = "meta" => disk.tmpMeta = w.index
    /\ Renaming(w) => disk.data = w.data

StoreInv ==
    /\ StoreTypeOK
    /\ purged <= known /\ known <= applied
    /\ builder.pc # "idle" => builder.index <= applied
    /\ known > 0 => slot # Absent
    /\ ~overlap => /\ builder.pc = "idle" \/ installer.pc = "idle"
                   /\ known > 0 => slot.index = known
                   /\ builder.pc # "idle" => known < builder.index
    /\ ~torn /\ ~overlap =>
          /\ StateMatchesIndex
          /\ slot # Absent => slot.data = Prefix(slot.index)
          /\ FilesAgree(builder) /\ FilesAgree(installer)
          /\ ReadSnapshot /\ ~Renaming(builder) /\ ~Renaming(installer) =>
                disk.data = Prefix(disk.meta)

\* A subscriber ends up with the current state: no apply and no installed
\* snapshot goes unnoticed (fsm/mod.rs:155-157, 206).
WatcherCatchesUp == []<>(view = content)

\* The current snapshot can bring a new learner up to date: it is the state of
\* its index and reaches the purged part of the log, although builder, installer
\* and openraft's purge run side by side (fsm/mod.rs:162-216, 245-275).
SlotServesLearners == SlotMatchesUnlessTorn /\ SlotCoversUnlessOverlap

=============================================================================
