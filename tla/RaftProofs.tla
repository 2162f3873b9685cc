----------------------------- MODULE RaftProofs -----------------------------
(***************************************************************************)
(* The replicated state machine (crates/raft).                             *)
(*                                                                         *)
(* SnapshotStore, for any number of entries and of crashes: the state      *)
(* machine is the one of its index, and the current snapshot serves a new  *)
(* learner, but for the two faults the history variables record.           *)
(*                                                                         *)
(* FsmMachine, for every number of nodes, allocations, secrets and         *)
(* volumes: each command keeps the state well typed; an allocation never   *)
(* outlives the node it sits on; a live one never vanishes.                *)
(***************************************************************************)
EXTENDS FsmMachine, SnapshotStore, TLAPS

USE SnapshotAssumption

-----------------------------------------------------------------------------
(* The content that belongs to an index. *)

\* Prefix(i) is a sequence of log indexes; its length is i.
LEMMA PrefixType ==
  ASSUME NEW i \in IndexOrZero
  PROVE  Prefix(i) \in Seq(Indexes) /\ Len(Prefix(i)) = i
BY DEF Prefix, Indexes, IndexOrZero

\* A state machine to which nothing was applied is empty.
LEMMA PrefixZero == Prefix(0) = <<>>
BY DEF Prefix

\* Applying the entries after the last one extends the content to the new
\* index: no entry is left out or applied twice.
LEMMA PrefixExtends ==
  ASSUME NEW a \in IndexOrZero, NEW i \in Indexes, a < i
  PROVE  Prefix(a) \o [k \in 1 .. (i - a) |-> a + k] = Prefix(i)
<1> DEFINE batch == [k \in 1 .. (i - a) |-> a + k]
<1>1. i - a \in Nat /\ a \in Nat /\ i \in Nat
  BY DEF IndexOrZero, Indexes
<1>2. batch \in Seq(Int) /\ Len(batch) = i - a
  BY <1>1
<1>3. Prefix(a) \in Seq(Int) /\ Len(Prefix(a)) = a
  BY <1>1 DEF Prefix
<1>4. Prefix(a) \o batch = [k \in 1 .. i |-> k]
  BY <1>1, <1>2, <1>3 DEF Prefix
<1> QED BY <1>4, Zenon DEF Prefix

-----------------------------------------------------------------------------
(* The inductive invariant. *)

\* MillRaft::open on an empty directory.
LEMMA StoreInitEstablishes == StoreInit => StoreInv
<1> SUFFICES ASSUME StoreInit PROVE StoreInv
  OBVIOUS
<1>1. <<>> \in Seq(Indexes) /\ 0 \in IndexOrZero /\ 0 \in 0 .. MaxCrashes
  BY DEF IndexOrZero
<1>2. NoWriter \in Writers
  BY <1>1 DEF NoWriter, Writers
<1>3. StoreTypeOK
  BY <1>1, <1>2, Zenon DEF StoreInit, StoreTypeOK, NoFiles
<1> QED
  BY <1>3, PrefixZero DEF StoreInit, StoreInv, StateMatchesIndex, FilesAgree, NoWriter,
                          NoFiles, Renaming, ReadSnapshot

\* append, truncate and purge touch the log alone, and purge stays below what
\* openraft knows of.
LEMMA LogStepKeeps ==
  ASSUME StoreInv, NEW i \in Indexes, AppendEntry(i) \/ Truncate(i) \/ Purge(i)
  PROVE  StoreInv'
<1>0. log \subseteq Indexes /\ purged \in IndexOrZero
  BY DEF StoreInv, StoreTypeOK
<1>1. log' \subseteq Indexes /\ purged' \in IndexOrZero
  <2>1. CASE AppendEntry(i)
    BY <1>0, <2>1, Zenon DEF AppendEntry
  <2>2. CASE Truncate(i)
    BY <1>0, <2>2 DEF Truncate
  <2>3. CASE Purge(i)
    <3>1. purged' = i /\ i \in IndexOrZero
      BY <2>3 DEF Purge, Indexes, IndexOrZero
    <3>2. log' \subseteq log
      BY <2>3 DEF Purge
    <3> QED BY <1>0, <3>1, <3>2
  <2> QED BY <2>1, <2>2, <2>3
<1>2. UNCHANGED <<machineVars, watchVars, snapVars, disk, writerVars, historyVars>>
  BY DEF AppendEntry, Truncate, Purge
<1>3. purged' <= known'
  BY DEF StoreInv, AppendEntry, Truncate, Purge, snapVars
<1> QED
  BY <1>1, <1>2, <1>3 DEF StoreInv, StoreTypeOK, StateMatchesIndex, FilesAgree, Renaming,
       ReadSnapshot, machineVars, watchVars, snapVars, writerVars, historyVars

\* A batch of entries moves the state and its index together.
LEMMA ApplyKeeps ==
  ASSUME StoreInv, NEW i \in Indexes, ApplyEntries(i)
  PROVE  StoreInv'
<1> USE DEF logVars, watchVars, snapVars, writerVars, historyVars
<1>1. content \in Seq(Indexes) /\ applied \in IndexOrZero /\ applied < i
  BY DEF StoreInv, StoreTypeOK, ApplyEntries
<1>2. content' \in Seq(Indexes)
  <2> DEFINE batch == [k \in 1 .. (i - applied) |-> applied + k]
  <2>1. batch \in Seq(Indexes)
    BY <1>1 DEF Indexes, IndexOrZero
  <2>2. content' = content \o batch
    BY DEF ApplyEntries
  <2> HIDE DEF batch
  <2> QED BY <1>1, <2>1, <2>2
<1>3. StoreTypeOK'
  BY <1>2 DEF StoreInv, StoreTypeOK, ApplyEntries, Indexes, IndexOrZero
<1>4. StateMatchesIndex => StateMatchesIndex'
  BY <1>1, PrefixExtends, Zenon DEF StateMatchesIndex, ApplyEntries
<1>5. applied < applied' /\ applied \in Int /\ applied' \in Int
      /\ UNCHANGED <<purged, slot, known, disk, builder, installer, torn, overlap>>
  BY <1>1 DEF ApplyEntries, Indexes, IndexOrZero
<1>6. purged \in Int /\ known \in Int /\ builder.index \in Int
  BY DEF StoreInv, StoreTypeOK, Writers, IndexOrZero
<1> QED
  BY <1>3, <1>4, <1>5, <1>6 DEF StoreInv, FilesAgree, Renaming, ReadSnapshot

\* A watcher changes nothing the store relies on.
LEMMA WatchKeeps == StoreInv /\ Watch => StoreInv'
BY DEF StoreInv, StoreTypeOK, Watch, StateMatchesIndex, FilesAgree, Renaming, ReadSnapshot,
       logVars, machineVars, snapVars, writerVars, historyVars

\* A build starts from a state and its index, read under one lock.
LEMMA BeginBuildKeeps == StoreInv /\ BeginBuild => StoreInv'
<1> SUFFICES ASSUME StoreInv, BeginBuild PROVE StoreInv'
  OBVIOUS
<1> USE DEF logVars, machineVars, watchVars, snapVars, historyVars
<1>1. StoreTypeOK'
  BY DEF StoreInv, StoreTypeOK, BeginBuild, Writers
<1>2. builder' = [pc |-> "tmpData", data |-> content, index |-> applied]
      /\ builder.pc = "idle" /\ installer.pc = "idle" /\ applied > known
      /\ UNCHANGED <<purged, content, applied, slot, known, disk, installer, torn, overlap>>
  BY DEF BeginBuild
<1>3. applied \in Int /\ known \in Int
  BY DEF StoreInv, StoreTypeOK, IndexOrZero
<1> QED
  BY <1>1, <1>2, <1>3 DEF StoreInv, StateMatchesIndex, FilesAgree, Renaming, ReadSnapshot

\* One step of write_snapshot by w, which becomes v: unless it fails between the
\* two renames, the files agree with the writer as before, and are a pair again
\* once both renames are done.
LEMMA WriteKeeps ==
  ASSUME StoreTypeOK, NEW w \in Writers, NEW next \in {"data", "tmpMeta", "meta", "slot"},
         WriteStep(w, next)
  PROVE  /\ w.pc \in {"tmpData", "data", "tmpMeta", "meta"}
         /\ disk' \in [data : Seq(Indexes) \cup {Absent}, tmpData : Seq(Indexes) \cup {Absent},
                       meta : IndexOrZero \cup {Absent}, tmpMeta : IndexOrZero \cup {Absent}]
         /\ (/\ ~Mixed(w, next) /\ FilesAgree(w)
             /\ ReadSnapshot /\ ~Renaming(w) => disk.data = Prefix(disk.meta))
            => /\ next = "data" => disk'.tmpData = w.data
               /\ next = "meta" => disk'.tmpMeta = w.index
               /\ next \in {"tmpMeta", "meta"} => disk'.data = w.data
               /\ ReadSnapshot' /\ next \notin {"tmpMeta", "meta"} =>
                     disk'.data = Prefix(disk'.meta)
<1> DEFINE Files == [data : Seq(Indexes) \cup {Absent}, tmpData : Seq(Indexes) \cup {Absent},
                     meta : IndexOrZero \cup {Absent}, tmpMeta : IndexOrZero \cup {Absent}]
<1>1. disk \in Files /\ w.data \in Seq(Indexes) /\ w.index \in IndexOrZero
  BY DEF StoreTypeOK, Writers
<1>2. CASE w.pc = "tmpData" /\ disk' = [disk EXCEPT !.tmpData = w.data] /\ next = "data"
  BY <1>1, <1>2 DEF FilesAgree, ReadSnapshot, Renaming
<1>3. CASE /\ w.pc = "data" /\ disk.tmpData # Absent
           /\ disk' = [disk EXCEPT !.data = disk.tmpData, !.tmpData = Absent]
           /\ next = "tmpMeta"
  BY <1>1, <1>3, Zenon DEF FilesAgree, ReadSnapshot, Renaming
<1>4. CASE w.pc = "tmpMeta" /\ disk' = [disk EXCEPT !.tmpMeta = w.index] /\ next = "meta"
  BY <1>1, <1>4, SMTT(30) DEF FilesAgree, ReadSnapshot, Renaming
<1>5. CASE /\ w.pc = "meta" /\ disk.tmpMeta # Absent
           /\ disk' = [disk EXCEPT !.meta = disk.tmpMeta, !.tmpMeta = Absent]
           /\ next = "slot"
  <2>1. disk'.meta = disk.tmpMeta /\ disk'.data = disk.data /\ disk' \in Files
    BY <1>1, <1>5, Zenon
  <2> QED BY <1>1, <1>5, <2>1 DEF FilesAgree, ReadSnapshot, Renaming
<1>6. CASE w.pc \in {"tmpData", "data", "tmpMeta", "meta"} /\ UNCHANGED disk /\ next = "slot"
  BY <1>1, <1>6 DEF FilesAgree, ReadSnapshot, Renaming, Mixed
<1> QED BY <1>2, <1>3, <1>4, <1>5, <1>6 DEF WriteStep

\* A step of the builder.
LEMMA BuildStepKeeps == StoreInv /\ BuildStep => StoreInv'
<1> SUFFICES ASSUME StoreInv, BuildStep PROVE StoreInv'
  OBVIOUS
<1> USE DEF logVars, machineVars, watchVars, snapVars
<1>1. PICK next \in {"data", "tmpMeta", "meta", "slot"} :
         /\ WriteStep(builder, next)
         /\ builder' = [builder EXCEPT !.pc = next]
         /\ torn' = (torn \/ Mixed(builder, next))
         /\ UNCHANGED <<logVars, machineVars, watchVars, snapVars, installer, crashes, overlap>>
  BY DEF BuildStep
<1>2. StoreTypeOK /\ builder \in Writers /\ installer \in Writers
  BY DEF StoreInv, StoreTypeOK
<1>3. /\ builder.pc \in {"tmpData", "data", "tmpMeta", "meta"}
      /\ disk' \in [data : Seq(Indexes) \cup {Absent}, tmpData : Seq(Indexes) \cup {Absent},
                    meta : IndexOrZero \cup {Absent}, tmpMeta : IndexOrZero \cup {Absent}]
  BY <1>1, <1>2, WriteKeeps
<1>4. builder' \in Writers /\ builder'.pc = next /\ UNCHANGED <<builder.data, builder.index>>
  BY <1>1, <1>2 DEF Writers
<1>5. torn' \in BOOLEAN
  BY <1>1, <1>2 DEF StoreTypeOK
<1>6. StoreTypeOK'
  BY <1>1, <1>2, <1>3, <1>4, <1>5 DEF StoreTypeOK
<1>7. ASSUME ~torn', ~overlap
      PROVE  /\ FilesAgree(builder)' /\ FilesAgree(installer)'
             /\ ReadSnapshot' /\ ~Renaming(builder)' /\ ~Renaming(installer)' =>
                   disk'.data = Prefix(disk'.meta)
  <2>1. ~torn /\ ~Mixed(builder, next)
    BY <1>1, <1>7, Zenon
  <2>2. installer.pc = "idle" /\ installer' = installer
    BY <1>1, <1>3, <1>7 DEF StoreInv
  <2>3. FilesAgree(builder)
        /\ (ReadSnapshot /\ ~Renaming(builder) => disk.data = Prefix(disk.meta))
    BY <1>7, <2>1, <2>2 DEF StoreInv, Renaming
  <2>4. /\ next = "data" => disk'.tmpData = builder.data
        /\ next = "meta" => disk'.tmpMeta = builder.index
        /\ next \in {"tmpMeta", "meta"} => disk'.data = builder.data
        /\ ReadSnapshot' /\ next \notin {"tmpMeta", "meta"} => disk'.data = Prefix(disk'.meta)
    BY <1>1, <1>2, <2>1, <2>3, WriteKeeps
  <2>5. builder.data = Prefix(builder.index)
    BY <1>3, <2>3 DEF FilesAgree
  <2> QED BY <1>4, <2>2, <2>4, <2>5 DEF FilesAgree, Renaming
<1> QED BY <1>1, <1>3, <1>4, <1>6, <1>7, Zenon DEF StoreInv, StateMatchesIndex

\* A step of the installer, which is done when its files are.
LEMMA InstallStepKeeps == StoreInv /\ InstallStep => StoreInv'
<1> SUFFICES ASSUME StoreInv, InstallStep PROVE StoreInv'
  OBVIOUS
<1> USE DEF logVars, machineVars, watchVars, snapVars
<1>1. PICK next \in {"data", "tmpMeta", "meta", "slot"} :
         /\ WriteStep(installer, next)
         /\ installer' = IF next = "slot" THEN NoWriter ELSE [installer EXCEPT !.pc = next]
         /\ torn' = (torn \/ Mixed(installer, next))
         /\ UNCHANGED <<logVars, machineVars, watchVars, snapVars, builder, crashes, overlap>>
  BY DEF InstallStep
<1>2. StoreTypeOK /\ builder \in Writers /\ installer \in Writers
  BY DEF StoreInv, StoreTypeOK
<1>3. /\ installer.pc \in {"tmpData", "data", "tmpMeta", "meta"}
      /\ disk' \in [data : Seq(Indexes) \cup {Absent}, tmpData : Seq(Indexes) \cup {Absent},
                    meta : IndexOrZero \cup {Absent}, tmpMeta : IndexOrZero \cup {Absent}]
  BY <1>1, <1>2, WriteKeeps
<1>4. /\ installer' \in Writers
      /\ next = "slot" => installer'.pc = "idle"
      /\ next # "slot" => installer'.pc = next /\ UNCHANGED <<installer.data, installer.index>>
  <2>1. NoWriter \in Writers /\ NoWriter.pc = "idle"
    BY DEF NoWriter, Writers, IndexOrZero
  <2> QED BY <1>1, <1>2, <2>1, Zenon DEF Writers
<1>5. torn' \in BOOLEAN
  BY <1>1, <1>2 DEF StoreTypeOK
<1>6. StoreTypeOK'
  BY <1>1, <1>2, <1>3, <1>4, <1>5 DEF StoreTypeOK
<1>7. ASSUME ~torn', ~overlap
      PROVE  /\ FilesAgree(builder)' /\ FilesAgree(installer)'
             /\ ReadSnapshot' /\ ~Renaming(builder)' /\ ~Renaming(installer)' =>
                   disk'.data = Prefix(disk'.meta)
  <2>1. ~torn /\ ~Mixed(installer, next)
    BY <1>1, <1>7, Zenon
  <2>2. builder.pc = "idle" /\ builder' = builder
    BY <1>1, <1>3, <1>7 DEF StoreInv
  <2>3. FilesAgree(installer)
        /\ (ReadSnapshot /\ ~Renaming(installer) => disk.data = Prefix(disk.meta))
    BY <1>7, <2>1, <2>2 DEF StoreInv, Renaming
  <2>4. /\ next = "data" => disk'.tmpData = installer.data
        /\ next = "meta" => disk'.tmpMeta = installer.index
        /\ next \in {"tmpMeta", "meta"} => disk'.data = installer.data
        /\ ReadSnapshot' /\ next \notin {"tmpMeta", "meta"} => disk'.data = Prefix(disk'.meta)
    BY <1>1, <1>2, <2>1, <2>3, WriteKeeps
  <2>5. installer.data = Prefix(installer.index)
    BY <1>3, <2>3 DEF FilesAgree
  <2> QED BY <1>4, <2>2, <2>4, <2>5 DEF FilesAgree, Renaming
<1> QED BY <1>1, <1>3, <1>4, <1>6, <1>7, Zenon DEF StoreInv, StateMatchesIndex

\* install_snapshot takes state, slot and openraft's knowledge to one index; the
\* files follow.
LEMMA InstallKeeps ==
  ASSUME StoreInv, NEW i \in Indexes, Install(i)
  PROVE  StoreInv'
<1> USE DEF logVars, watchVars
<1>1. /\ StoreTypeOK /\ Prefix(i) \in Seq(Indexes) /\ i \in IndexOrZero /\ i \in Nat /\ i > 0
      /\ applied \in Nat /\ known \in Nat /\ known <= applied /\ applied < i
  <2>1. StoreTypeOK /\ applied \in IndexOrZero /\ known \in IndexOrZero /\ known <= applied
    BY DEF StoreInv, StoreTypeOK
  <2>2. i \in IndexOrZero /\ i \in Nat /\ i > 0
    BY DEF Indexes, IndexOrZero
  <2>3. applied < i
    BY DEF Install
  <2> QED BY <2>1, <2>2, <2>3, PrefixType DEF IndexOrZero
<1>2. installer' \in Writers /\ installer'.pc = "tmpData"
      /\ installer'.data = Prefix(i) /\ installer'.index = i
  BY <1>1 DEF Install, Writers
<1>3. slot' \in [data : Seq(Indexes), index : IndexOrZero]
      /\ slot'.data = Prefix(i) /\ slot'.index = i
  BY <1>1 DEF Install
<1>4. slot' # Absent
  BY <1>1, FilesAssumption DEF Install, Indexes, IndexOrZero
<1>5. overlap' \in BOOLEAN
  BY <1>1 DEF Install, StoreTypeOK
<1>6. version' \in Nat /\ channel' \in Nat
  BY <1>1 DEF Install, StoreTypeOK
<1>7. StoreTypeOK'
  BY <1>1, <1>2, <1>3, <1>5, <1>6 DEF Install, StoreTypeOK
<1>8. purged' <= known' /\ known' <= applied'
  BY <1>1 DEF Install, StoreInv, StoreTypeOK, IndexOrZero
<1>9. builder'.pc # "idle" => builder'.index <= applied'
  BY <1>1 DEF Install, StoreInv, StoreTypeOK, IndexOrZero, Writers
<1>10. ASSUME ~overlap' PROVE builder'.pc = "idle" /\ ~overlap
  BY <1>10, Zenon DEF Install
<1>11. known' = i /\ torn' = torn /\ disk' = disk /\ content' = Prefix(i) /\ applied' = i
       /\ builder' = builder /\ installer.pc = "idle"
  BY DEF Install
<1> QED
  BY <1>1, <1>2, <1>3, <1>4, <1>7, <1>8, <1>9, <1>10, <1>11
     DEF StoreInv, StateMatchesIndex, FilesAgree, Renaming, ReadSnapshot

\* The builder's last step: what it has written becomes the current snapshot.
LEMMA EndBuildKeeps == StoreInv /\ EndBuild => StoreInv'
<1> SUFFICES ASSUME StoreInv, EndBuild PROVE StoreInv'
  OBVIOUS
<1> USE DEF logVars, machineVars, watchVars, historyVars
<1>1. /\ StoreTypeOK /\ builder.pc = "slot" /\ builder.data \in Seq(Indexes)
      /\ builder.index \in IndexOrZero /\ builder.index <= applied
      /\ known \in IndexOrZero /\ applied \in IndexOrZero /\ purged \in IndexOrZero
  BY DEF StoreInv, StoreTypeOK, EndBuild, Writers
<1>2. slot' \in [data : Seq(Indexes), index : IndexOrZero]
      /\ slot'.data = builder.data /\ slot'.index = builder.index
  BY <1>1, SMTT(30) DEF EndBuild
<1>3. slot' # Absent
  BY <1>1, FilesAssumption, SMTT(30) DEF EndBuild, Indexes, IndexOrZero
<1>4. builder' \in Writers /\ builder'.pc = "idle"
  BY SMTT(30) DEF EndBuild, NoWriter, Writers, IndexOrZero
<1>5. known' \in IndexOrZero /\ known' <= applied /\ known <= known'
      /\ (known < builder.index => known' = builder.index)
  BY <1>1 DEF EndBuild, Max2, StoreInv, IndexOrZero
<1>6. StoreTypeOK'
  BY <1>1, <1>2, <1>4, <1>5 DEF EndBuild, StoreTypeOK
<1>7. purged' <= known' /\ known' <= applied'
  BY <1>1, <1>5 DEF EndBuild, StoreInv, IndexOrZero
<1>8. /\ UNCHANGED <<disk, installer, torn, overlap, content, applied>>
      /\ ~overlap => installer.pc = "idle" /\ known < builder.index
  BY <1>1 DEF EndBuild, StoreInv
<1>9. ~torn /\ ~overlap =>
        builder.data = Prefix(builder.index)
        /\ (ReadSnapshot /\ ~Renaming(installer) => disk.data = Prefix(disk.meta))
  BY <1>1 DEF StoreInv, FilesAgree, Renaming
<1> QED
  BY <1>1, <1>2, <1>3, <1>4, <1>5, <1>6, <1>7, <1>8, <1>9, SMTT(30)
     DEF StoreInv, StateMatchesIndex, FilesAgree, Renaming, ReadSnapshot

\* A restart takes everything from the files.
LEMMA CrashKeeps == StoreInv /\ CrashAndOpen => StoreInv'
<1> SUFFICES ASSUME StoreInv, CrashAndOpen PROVE StoreInv'
  OBVIOUS
<1>1. NoWriter \in Writers /\ NoWriter.pc = "idle" /\ <<>> \in Seq(Indexes) /\ 0 \in IndexOrZero
  BY DEF NoWriter, Writers, IndexOrZero
<1>2. /\ torn' \in BOOLEAN /\ crashes' \in 0 .. MaxCrashes /\ disk' = disk /\ overlap' = overlap
      /\ builder' = NoWriter /\ installer' = NoWriter
      /\ ~torn' => ~torn /\ ~Renaming(builder) /\ ~Renaming(installer)
  <2>1. crashes \in 0 .. MaxCrashes /\ torn \in BOOLEAN
    BY DEF StoreInv, StoreTypeOK
  <2>2. crashes' \in 0 .. MaxCrashes
    BY <2>1 DEF CrashAndOpen
  <2>3. torn' \in BOOLEAN /\ (~torn' => ~torn /\ ~Renaming(builder) /\ ~Renaming(installer))
    BY <2>1, Zenon DEF CrashAndOpen, Renaming
  <2> QED BY <2>2, <2>3 DEF CrashAndOpen
<1>3. CASE ReadSnapshot
  <2>1. disk.data \in Seq(Indexes) /\ disk.meta \in IndexOrZero
    BY <1>3 DEF StoreInv, StoreTypeOK, ReadSnapshot
  <2>2. /\ log' = {} /\ purged' = 0 /\ content' = disk.data /\ applied' = disk.meta
        /\ slot' = [data |-> disk.data, index |-> disk.meta] /\ known' = disk.meta
        /\ version' = 0 /\ channel' = 0 /\ view' = disk.data /\ seen' = 0
    BY <1>3 DEF CrashAndOpen
  <2>3. slot' \in [data : Seq(Indexes), index : IndexOrZero]
        /\ slot'.data = disk.data /\ slot'.index = disk.meta
    BY <2>1, <2>2
  <2>4. slot' # Absent
    BY <2>1, <2>2, FilesAssumption DEF Indexes, IndexOrZero
  <2>5. StoreTypeOK'
    BY <1>1, <1>2, <2>1, <2>2, <2>3 DEF StoreTypeOK, StoreInv
  <2>6. purged' <= known' /\ known' <= applied'
    BY <2>1, <2>2 DEF IndexOrZero
  <2>7. ~torn' /\ ~overlap => disk.data = Prefix(disk.meta)
    BY <1>2, <1>3 DEF StoreInv
  <2> QED BY <1>1, <1>2, <2>2, <2>3, <2>4, <2>5, <2>6, <2>7
             DEF StoreInv, StateMatchesIndex, FilesAgree, Renaming, ReadSnapshot
<1>4. CASE ~ReadSnapshot
  <2>1. /\ log' = {} /\ purged' = 0 /\ content' = <<>> /\ applied' = 0
        /\ slot' = Absent /\ known' = 0
        /\ version' = 0 /\ channel' = 0 /\ view' = <<>> /\ seen' = 0
    BY <1>4 DEF CrashAndOpen
  <2>2. StoreTypeOK'
    BY <1>1, <1>2, <2>1 DEF StoreTypeOK, StoreInv
  <2>3. ~ReadSnapshot'
    BY <1>2, <1>4 DEF ReadSnapshot
  <2> QED BY <1>1, <1>2, <2>1, <2>2, <2>3, PrefixZero
             DEF StoreInv, StateMatchesIndex, FilesAgree, Renaming
<1> QED BY <1>3, <1>4

-----------------------------------------------------------------------------
\* The invariant of the store holds in every behaviour, for every number of log
\* entries and of crashes.
THEOREM StoreInvHolds == StoreSpec => []StoreInv
<1>1. StoreInit => StoreInv
  BY StoreInitEstablishes
<1>2. StoreInv /\ [StoreNext]_storeVars => StoreInv'
  <2> SUFFICES ASSUME StoreInv, [StoreNext]_storeVars PROVE StoreInv'
    OBVIOUS
  <2>1. ASSUME NEW i \in Indexes, AppendEntry(i) \/ Truncate(i) \/ Purge(i) PROVE StoreInv'
    BY <2>1, LogStepKeeps
  <2>2. ASSUME NEW i \in Indexes, ApplyEntries(i) PROVE StoreInv'
    BY <2>2, ApplyKeeps
  <2>3. ASSUME NEW i \in Indexes, Install(i) PROVE StoreInv'
    BY <2>3, InstallKeeps
  <2>4. CASE Watch
    BY <2>4, WatchKeeps
  <2>5. CASE BeginBuild
    BY <2>5, BeginBuildKeeps, SMTT(30)
  <2>6. CASE BuildStep
    BY <2>6, BuildStepKeeps
  <2>7. CASE EndBuild
    BY <2>7, EndBuildKeeps
  <2>8. CASE InstallStep
    BY <2>8, InstallStepKeeps
  <2>9. CASE CrashAndOpen
    BY <2>9, CrashKeeps
  <2>10. CASE UNCHANGED storeVars
    BY <2>10 DEF storeVars, logVars, machineVars, watchVars, snapVars, writerVars, historyVars,
                 StoreInv, StoreTypeOK, StateMatchesIndex, FilesAgree, Renaming, ReadSnapshot
  <2> QED BY <2>1, <2>2, <2>3, <2>4, <2>5, <2>6, <2>7, <2>8, <2>9, <2>10 DEF StoreNext
<1> QED BY <1>1, <1>2, PTL DEF StoreSpec

\* Whatever was applied, installed, built and restarted, the state machine is the
\* one of its last_applied, as long as no write ended between its two renames and
\* no install overlapped a build (fsm/mod.rs:71-91, 125-160, 179-216).
THEOREM StateMatchesAlways == StoreSpec => []StateMatchesUnlessTorn
<1>1. StoreInv => StateMatchesUnlessTorn
  BY DEF StoreInv, StateMatchesUnlessTorn
<1> QED BY <1>1, StoreInvHolds, PTL

\* The current snapshot is the state of its index and reaches the purged part of
\* the log: a new learner can be brought up to date (fsm/mod.rs:162-216, 245-275).
THEOREM SlotServesAlways == StoreSpec => []SlotServesLearners
<1>1. StoreInv => SlotMatchesUnlessTorn
  BY DEF StoreInv, SlotMatchesUnlessTorn
<1>2. StoreInv => SlotCoversUnlessOverlap
  BY DEF StoreInv, StoreTypeOK, IndexOrZero, SlotCoversUnlessOverlap, SlotCoversPurged
<1>3. StoreInv => SlotServesLearners
  BY <1>1, <1>2 DEF SlotServesLearners
<1> QED BY <1>3, StoreInvHolds, PTL

HIDE SnapshotAssumption
USE AbsentAssumption

-----------------------------------------------------------------------------
(* The commands of the FSM. *)

\* The set of states every lemma below works with, without its components.
LEMMA StateFields ==
  ASSUME NEW s \in FsmState
  PROVE  /\ s.config \in Configs \cup {None}
         /\ s.nodes \in [RaftIds -> Node \cup {None}]
         /\ s.allocs \in [AllocIds -> Alloc \cup {None}]
         /\ s.secrets \in [SecretNames -> SecretValues \cup {None}]
         /\ s.volumes \in [VolumeNames -> Volume \cup {None}]
  BY DEF FsmState

\* The empty FSM is a state.
LEMMA EmptyFsmType == EmptyFsm \in FsmState
  BY DEF EmptyFsm, FsmState

\* Commands on nodes return states.
LEMMA NodeCommandTypes ==
  ASSUME NEW s \in FsmState, NEW i \in RaftIds
  PROVE  /\ \A m \in NodeIds : NodeRegister(s, i, m) \in FsmState
         /\ \A st \in NodeStatuses : SetNodeStatus(s, i, st) \in FsmState
         /\ NodeRemove(s, i) \in FsmState
<1>1. \A m \in NodeIds : NodeRegister(s, i, m) \in FsmState
  BY DEF NodeRegister, FsmState, Node, NodeStatuses
<1>2. ASSUME NEW st \in NodeStatuses PROVE SetNodeStatus(s, i, st) \in FsmState
  BY DEF SetNodeStatus, FsmState, Node
<1>3. NodeRemove(s, i) \in FsmState
  BY DEF NodeRemove, FsmState
<1> QED BY <1>1, <1>2, <1>3

\* A heartbeat returns a state when it reports statuses.
LEMMA HeartbeatType ==
  ASSUME NEW s \in FsmState, NEW i \in RaftIds,
         NEW A \in SUBSET AllocIds, NEW st \in [A -> AllocStatuses]
  PROVE  NodeHeartbeat(s, i, st) \in FsmState
<1>1. CASE s.nodes[i] = None
  BY <1>1 DEF NodeHeartbeat
<1>2. CASE s.nodes[i] # None
  <2> DEFINE Heard(a) == /\ a \in DOMAIN st
                         /\ s.allocs[a] # None
                         /\ ~(s.allocs[a].status = "Healthy" /\ st[a] = "Running")
             nn == [s.nodes EXCEPT ![i].status = IF @ = "Down" THEN "Ready" ELSE @]
             aa == [a \in AllocIds |-> IF Heard(a) THEN [s.allocs[a] EXCEPT !.status = st[a]]
                                       ELSE s.allocs[a]]
  <2>1. nn \in [RaftIds -> Node \cup {None}]
    BY <1>2 DEF FsmState, Node, NodeStatuses
  <2>2. aa \in [AllocIds -> Alloc \cup {None}]
    BY DEF FsmState, Alloc
  <2>3. NodeHeartbeat(s, i, st) = [s EXCEPT !.nodes = nn, !.allocs = aa]
    BY <1>2 DEF NodeHeartbeat, FsmState
  <2> HIDE DEF nn, aa
  <2> QED BY <2>1, <2>2, <2>3 DEF FsmState
<1> QED BY <1>1, <1>2

\* Commands on allocations return states.
LEMMA AllocCommandTypes ==
  ASSUME NEW s \in FsmState, NEW a \in AllocIds
  PROVE  /\ \A i \in RaftIds, n \in Names, k \in AllocKinds :
               AllocScheduled(s, a, i, n, k) \in FsmState
         /\ \A st \in AllocStatuses : SetAllocStatus(s, a, st) \in FsmState
         /\ \A addr \in Addresses \cup {None} : AllocRunning(s, a, addr) \in FsmState
<1>1. ASSUME NEW i \in RaftIds, NEW n \in Names, NEW k \in AllocKinds
      PROVE  AllocScheduled(s, a, i, n, k) \in FsmState
  BY DEF AllocScheduled, FsmState, Alloc, Node, AllocStatuses
<1>2. ASSUME NEW st \in AllocStatuses PROVE SetAllocStatus(s, a, st) \in FsmState
  BY DEF SetAllocStatus, FsmState, Alloc
<1>3. ASSUME NEW addr \in Addresses \cup {None} PROVE AllocRunning(s, a, addr) \in FsmState
  <2> DEFINE r == [s.allocs[a] EXCEPT !.status = "Running", !.address = addr]
  <2>1. CASE s.allocs[a] # None /\ s.allocs[a].status \in {"Pulling", "Starting"}
    <3>0. s.allocs[a] \in Alloc
      BY <2>1, StateFields
    <3>1. r \in Alloc
      BY <3>0 DEF Alloc, AllocStatuses
    <3>2. AllocRunning(s, a, addr) = [s EXCEPT !.allocs = [s.allocs EXCEPT ![a] = r]]
      BY <2>1, StateFields DEF AllocRunning, FsmState
    <3> HIDE DEF r
    <3> QED BY <3>1, <3>2 DEF FsmState
  <2>2. CASE ~(s.allocs[a] # None /\ s.allocs[a].status \in {"Pulling", "Starting"})
    BY <2>2 DEF AllocRunning
  <2> QED BY <2>1, <2>2
<1> QED BY <1>1, <1>2, <1>3

\* Commands on volumes, secrets and the configuration return states.
LEMMA OtherCommandTypes ==
  ASSUME NEW s \in FsmState
  PROVE  /\ \A c \in Configs : Deploy(s, c) \in FsmState
         /\ \A k \in SecretNames, x \in SecretValues : SecretSet(s, k, x) \in FsmState
         /\ \A k \in SecretNames : SecretDelete(s, k) \in FsmState
         /\ \A v \in VolumeNames :
               /\ VolumeCreated(s, v) \in FsmState
               /\ VolumeDetached(s, v) \in FsmState
               /\ VolumeDestroyed(s, v) \in FsmState
               /\ \A i \in RaftIds : VolumeAttached(s, v, i) \in FsmState
<1>1. \A c \in Configs : Deploy(s, c) \in FsmState
  BY DEF Deploy, FsmState
<1>2. /\ \A k \in SecretNames, x \in SecretValues : SecretSet(s, k, x) \in FsmState
      /\ \A k \in SecretNames : SecretDelete(s, k) \in FsmState
  BY DEF SecretSet, SecretDelete, FsmState
<1>3. ASSUME NEW v \in VolumeNames
      PROVE  /\ VolumeCreated(s, v) \in FsmState
             /\ VolumeDetached(s, v) \in FsmState
             /\ VolumeDestroyed(s, v) \in FsmState
             /\ \A i \in RaftIds : VolumeAttached(s, v, i) \in FsmState
  <2>1. VolumeCreated(s, v) \in FsmState /\ VolumeDestroyed(s, v) \in FsmState
    BY SMTT(30) DEF VolumeCreated, VolumeDestroyed, FsmState, Volume
  <2>2. VolumeDetached(s, v) \in FsmState
    BY DEF VolumeDetached, FsmState, Volume
  <2>3. ASSUME NEW i \in RaftIds PROVE VolumeAttached(s, v, i) \in FsmState
    BY DEF VolumeAttached, FsmState, Volume, Node
  <2> QED BY <2>1, <2>2, <2>3
<1> QED BY <1>1, <1>2, <1>3

-----------------------------------------------------------------------------
\* Every command keeps the FSM and the history well typed.
LEMMA TypeStep == FsmTypeOK /\ [FsmNext]_fsmVars => FsmTypeOK'
<1> SUFFICES ASSUME FsmTypeOK, [FsmNext]_fsmVars PROVE FsmTypeOK'
  OBVIOUS
<1>0. fsm \in FsmState /\ displaced \subseteq NodeIds
  BY DEF FsmTypeOK
<1>1. ASSUME NEW c \in Configs, Apply(Deploy(fsm, c)) PROVE FsmTypeOK'
  BY <1>0, <1>1, OtherCommandTypes DEF Apply, FsmTypeOK
<1>2. ASSUME NEW i \in RaftIds, NodeCommand(i) PROVE FsmTypeOK'
  <2>1. ASSUME NEW m \in NodeIds, Register(i, m) PROVE FsmTypeOK'
    <3>1. fsm' \in FsmState
      BY <1>0, <2>1, NodeCommandTypes DEF Register
    <3>2. fsm.nodes[i] # None => fsm.nodes[i].mill_id \in NodeIds
      BY <1>0, StateFields DEF Node
    <3> QED BY <1>0, <2>1, <3>1, <3>2 DEF Register, FsmTypeOK
  <2>2. ASSUME NEW st \in UNION {[A -> AllocStatuses] : A \in SUBSET AllocIds},
               Apply(NodeHeartbeat(fsm, i, st))
        PROVE  FsmTypeOK'
    <3>1. PICK A \in SUBSET AllocIds : st \in [A -> AllocStatuses]
      OBVIOUS
    <3>2. NodeHeartbeat(fsm, i, st) \in FsmState
      BY <1>0, <3>1, HeartbeatType
    <3> QED BY <1>0, <2>2, <3>2 DEF Apply, FsmTypeOK
  <2>3. CASE Apply(NodeDown(fsm, i)) \/ Apply(NodeDrain(fsm, i))
    BY <1>0, <2>3, NodeCommandTypes DEF Apply, NodeDown, NodeDrain, NodeStatuses, FsmTypeOK
  <2>4. CASE Apply(NodeRemove(fsm, i))
    BY <1>0, <2>4, NodeCommandTypes DEF Apply, FsmTypeOK
  <2> QED BY <1>2, <2>1, <2>2, <2>3, <2>4 DEF NodeCommand
<1>3. ASSUME NEW a \in AllocIds, AllocCommand(a) PROVE FsmTypeOK'
  BY <1>0, <1>3, AllocCommandTypes DEF AllocCommand, Apply, FsmTypeOK
<1>4. ASSUME NEW v \in VolumeNames, VolumeCommand(v) PROVE FsmTypeOK'
  BY <1>0, <1>4, OtherCommandTypes DEF VolumeCommand, Apply, FsmTypeOK
<1>5. ASSUME NEW k \in SecretNames, SecretCommand(k) PROVE FsmTypeOK'
  BY <1>0, <1>5, OtherCommandTypes DEF SecretCommand, Apply, FsmTypeOK
<1>6. CASE UNCHANGED fsmVars
  BY <1>6 DEF FsmTypeOK, fsmVars
<1> QED BY <1>1, <1>2, <1>3, <1>4, <1>5, <1>6 DEF FsmNext

\* The FSM is well typed after every sequence of committed commands.
THEOREM FsmTypeCorrect == FsmSpec => []FsmTypeOK
<1>1. FsmInit => FsmTypeOK
  BY EmptyFsmType, SMTT(30) DEF FsmInit, FsmTypeOK
<1> QED BY <1>1, TypeStep, PTL DEF FsmSpec

-----------------------------------------------------------------------------
(* Placement.  Every command but NodeRemove either leaves an allocation on *)
(* its node or puts it on a registered one, and forgets no node name.      *)

Keeps(s, t) ==
    /\ \A a \in AllocsIn(t) : \/ a \in AllocsIn(s) /\ t.allocs[a].node = s.allocs[a].node
                              \/ t.allocs[a].node \in MillIds(s)
    /\ MillIds(s) \subseteq MillIds(t)
    /\ NonTerminal(s) \subseteq AllocsIn(t)

\* A command that touches neither nodes nor allocations keeps the placement.
LEMMA SameKeeps ==
  ASSUME NEW s, NEW t, t.nodes = s.nodes, t.allocs = s.allocs
  PROVE  Keeps(s, t)
  BY DEF Keeps, AllocsIn, NodesIn, MillIds, NonTerminal

\* Commands on the configuration, secrets and volumes.
LEMMA OtherCommandsKeep ==
  ASSUME NEW s \in FsmState
  PROVE  /\ \A c \in Configs : Keeps(s, Deploy(s, c))
         /\ \A k \in SecretNames, x \in SecretValues : Keeps(s, SecretSet(s, k, x))
         /\ \A k \in SecretNames : Keeps(s, SecretDelete(s, k))
         /\ \A v \in VolumeNames :
               /\ Keeps(s, VolumeCreated(s, v))
               /\ Keeps(s, VolumeDetached(s, v))
               /\ Keeps(s, VolumeDestroyed(s, v))
               /\ \A i \in RaftIds : Keeps(s, VolumeAttached(s, v, i))
<1>1. \A c \in Configs : Keeps(s, Deploy(s, c))
  BY SameKeeps DEF Deploy, FsmState
<1>2. /\ \A k \in SecretNames, x \in SecretValues : Keeps(s, SecretSet(s, k, x))
      /\ \A k \in SecretNames : Keeps(s, SecretDelete(s, k))
  BY SameKeeps DEF SecretSet, SecretDelete, FsmState
<1>3. ASSUME NEW v \in VolumeNames
      PROVE  /\ Keeps(s, VolumeCreated(s, v))
             /\ Keeps(s, VolumeDetached(s, v))
             /\ Keeps(s, VolumeDestroyed(s, v))
             /\ \A i \in RaftIds : Keeps(s, VolumeAttached(s, v, i))
  BY SameKeeps DEF VolumeCreated, VolumeDetached, VolumeDestroyed, VolumeAttached, FsmState
<1> QED BY <1>1, <1>2, <1>3

\* Setting the status of a node keeps names and allocations.
LEMMA NodeStatusKeeps ==
  ASSUME NEW s \in FsmState, NEW i \in RaftIds, NEW st \in NodeStatuses
  PROVE  Keeps(s, SetNodeStatus(s, i, st))
<1>1. CASE s.nodes[i] = None
  BY <1>1, SameKeeps DEF SetNodeStatus
<1>2. CASE s.nodes[i] # None
  <2> DEFINE t == SetNodeStatus(s, i, st)
  <2>1. t.allocs = s.allocs
    BY <1>2 DEF SetNodeStatus, FsmState
  <2>2. t.nodes = [s.nodes EXCEPT ![i].status = st]
    BY <1>2 DEF SetNodeStatus, FsmState
  <2>3. \A j \in RaftIds : /\ (t.nodes[j] # None) <=> (s.nodes[j] # None)
                           /\ s.nodes[j] # None => t.nodes[j].mill_id = s.nodes[j].mill_id
    BY <1>2, <2>2, StateFields DEF Node
  <2> HIDE DEF t
  <2>4. MillIds(s) = MillIds(t)
    BY <2>3 DEF MillIds, NodesIn
  <2>5. Keeps(s, t)
    BY <2>1, <2>4 DEF Keeps, AllocsIn, NonTerminal
  <2> QED BY <2>5 DEF t
<1> QED BY <1>1, <1>2


\* A heartbeat keeps names and allocations.
LEMMA HeartbeatKeeps ==
  ASSUME NEW s \in FsmState, NEW i \in RaftIds,
         NEW A \in SUBSET AllocIds, NEW st \in [A -> AllocStatuses]
  PROVE  Keeps(s, NodeHeartbeat(s, i, st))
<1>1. CASE s.nodes[i] = None
  BY <1>1, SameKeeps DEF NodeHeartbeat
<1>2. CASE s.nodes[i] # None
  <2> DEFINE t == NodeHeartbeat(s, i, st)
             x == [s.nodes[i] EXCEPT !.status = IF @ = "Down" THEN "Ready" ELSE @]
  <2>1. t.nodes = [s.nodes EXCEPT ![i] = x]
    BY <1>2 DEF NodeHeartbeat, FsmState
  <2>2. \A j \in RaftIds : /\ (t.nodes[j] # None) <=> (s.nodes[j] # None)
                           /\ s.nodes[j] # None => t.nodes[j].mill_id = s.nodes[j].mill_id
    <3>1. s.nodes[i] \in Node
      BY <1>2, StateFields
    <3>2. x \in Node /\ x.mill_id = s.nodes[i].mill_id
      BY <3>1 DEF Node, NodeStatuses
    <3> HIDE DEF x, t
    <3> QED BY <1>2, <2>1, <3>2, StateFields
  <2> DEFINE Heard(a) == /\ a \in DOMAIN st
                         /\ s.allocs[a] # None
                         /\ ~(s.allocs[a].status = "Healthy" /\ st[a] = "Running")
  <2>3. t.allocs = [a \in AllocIds |-> IF Heard(a) THEN [s.allocs[a] EXCEPT !.status = st[a]]
                                       ELSE s.allocs[a]]
    BY <1>2 DEF NodeHeartbeat, FsmState
  <2> HIDE DEF t
  <2>4. \A a \in AllocIds : /\ s.allocs[a] # None => t.allocs[a] # None
                            /\ t.allocs[a] # None =>
                                 s.allocs[a] # None /\ t.allocs[a].node = s.allocs[a].node
    <3> TAKE a \in AllocIds
    <3>1. CASE Heard(a)
      <4> DEFINE r == [s.allocs[a] EXCEPT !.status = st[a]]
      <4>1. s.allocs[a] \in Alloc /\ st[a] \in AllocStatuses
        BY <3>1, StateFields
      <4>2. r \in Alloc /\ r.node = s.allocs[a].node
        BY <4>1 DEF Alloc
      <4>3. t.allocs[a] = r
        BY <2>3, <3>1
      <4> HIDE DEF r
      <4> QED BY <3>1, <4>2, <4>3
    <3>2. CASE ~Heard(a)
      BY <2>3, <3>2
    <3> QED BY <3>1, <3>2
  <2>5. MillIds(s) = MillIds(t)
    BY <2>2 DEF MillIds, NodesIn
  <2>6. Keeps(s, t)
    BY <2>4, <2>5 DEF Keeps, AllocsIn, NonTerminal
  <2> QED BY <2>6 DEF t
<1> QED BY <1>1, <1>2

\* Commands on one allocation leave it where it is, or place it on a
\* registered node.
LEMMA AllocCommandsKeep ==
  ASSUME NEW s \in FsmState, NEW a \in AllocIds
  PROVE  /\ \A i \in RaftIds, n \in Names, k \in AllocKinds :
               Keeps(s, AllocScheduled(s, a, i, n, k))
         /\ \A st \in AllocStatuses : Keeps(s, SetAllocStatus(s, a, st))
         /\ \A addr \in Addresses \cup {None} : Keeps(s, AllocRunning(s, a, addr))
<1>1. ASSUME NEW t, t.nodes = s.nodes, NEW r \in Alloc,
             t.allocs = [s.allocs EXCEPT ![a] = r],
             r.node \in MillIds(s) \/ (s.allocs[a] # None /\ r.node = s.allocs[a].node)
      PROVE  Keeps(s, t)
  <2>1. \A b \in AllocIds : t.allocs[b] = IF b = a THEN r ELSE s.allocs[b]
    BY <1>1, StateFields
  <2>2. MillIds(s) = MillIds(t)
    BY <1>1 DEF MillIds, NodesIn
  <2>3. r # None
    OBVIOUS
  <2> QED BY <1>1, <2>1, <2>2, <2>3, SMTT(30) DEF Keeps, AllocsIn, NonTerminal
<1>2. ASSUME NEW i \in RaftIds, NEW n \in Names, NEW k \in AllocKinds
      PROVE  Keeps(s, AllocScheduled(s, a, i, n, k))
  <2>1. CASE s.nodes[i] = None
    BY <2>1, SameKeeps DEF AllocScheduled
  <2>2. CASE s.nodes[i] # None
    <3> DEFINE r == [node |-> s.nodes[i].mill_id, name |-> n, kind |-> k,
                     status |-> "Pulling", address |-> None]
               t == AllocScheduled(s, a, i, n, k)
    <3>1. s.nodes[i] \in Node
      BY <2>2, StateFields, SMTT(30)
    <3>2. r \in Alloc
      BY <3>1 DEF Alloc, Node, AllocStatuses
    <3>3. t.nodes = s.nodes /\ t.allocs = [s.allocs EXCEPT ![a] = r]
      BY <2>2, SMTT(30) DEF AllocScheduled, FsmState
    <3>4. r.node \in MillIds(s)
      BY <2>2 DEF MillIds, NodesIn
    <3> HIDE DEF r, t
    <3>5. Keeps(s, t)
      BY <1>1, <3>2, <3>3, <3>4
    <3> QED BY <3>5 DEF t
  <2> QED BY <2>1, <2>2
<1>3. ASSUME NEW st \in AllocStatuses PROVE Keeps(s, SetAllocStatus(s, a, st))
  <2>1. CASE s.allocs[a] = None
    BY <2>1, SameKeeps DEF SetAllocStatus
  <2>2. CASE s.allocs[a] # None
    <3> DEFINE r == [s.allocs[a] EXCEPT !.status = st]
               t == SetAllocStatus(s, a, st)
    <3>1. s.allocs[a] \in Alloc
      BY <2>2, StateFields
    <3>2. r \in Alloc /\ r.node = s.allocs[a].node
      BY <3>1 DEF Alloc
    <3>3. t.nodes = s.nodes /\ t.allocs = [s.allocs EXCEPT ![a] = r]
      BY <2>2 DEF SetAllocStatus, FsmState
    <3> HIDE DEF r, t
    <3>4. Keeps(s, t)
      BY <1>1, <2>2, <3>2, <3>3
    <3> QED BY <3>4 DEF t
  <2> QED BY <2>1, <2>2
<1>4. ASSUME NEW addr \in Addresses \cup {None} PROVE Keeps(s, AllocRunning(s, a, addr))
  <2>1. CASE ~(s.allocs[a] # None /\ s.allocs[a].status \in {"Pulling", "Starting"})
    BY <2>1, SameKeeps DEF AllocRunning
  <2>2. CASE s.allocs[a] # None /\ s.allocs[a].status \in {"Pulling", "Starting"}
    <3> DEFINE r == [s.allocs[a] EXCEPT !.status = "Running", !.address = addr]
               t == AllocRunning(s, a, addr)
    <3>1. s.allocs[a] \in Alloc
      BY <2>2, StateFields
    <3>2. r \in Alloc /\ r.node = s.allocs[a].node
      BY <3>1, ZenonT(30) DEF Alloc, AllocStatuses
    <3>3. t.nodes = s.nodes /\ t.allocs = [s.allocs EXCEPT ![a] = r]
      BY <2>2 DEF AllocRunning, FsmState
    <3> HIDE DEF r, t
    <3>4. Keeps(s, t)
      BY <1>1, <2>2, <3>2, <3>3
    <3> QED BY <3>4 DEF t
  <2> QED BY <2>1, <2>2
<1> QED BY <1>2, <1>3, <1>4

-----------------------------------------------------------------------------
\* A step that keeps the placement keeps the invariant.
LEMMA KeepsPlacement ==
  ASSUME PlacementInv, FsmTypeOK', Keeps(fsm, fsm'), UNCHANGED displaced
  PROVE  AllocsOnKnownNodes'
  BY DEF PlacementInv, AllocsOnKnownNodes, Keeps

\* Every command but NodeRegister and NodeRemove keeps the placement.
LEMMA StepCases ==
  ASSUME FsmTypeOK, FsmNext
  PROVE  \/ \E i \in RaftIds, m \in NodeIds : Register(i, m)
         \/ \E i \in RaftIds : Apply(NodeRemove(fsm, i))
         \/ Keeps(fsm, fsm') /\ UNCHANGED displaced
<1>0. fsm \in FsmState
  BY DEF FsmTypeOK
<1>1. ASSUME NEW c \in Configs, Apply(Deploy(fsm, c))
      PROVE  Keeps(fsm, fsm') /\ UNCHANGED displaced
  BY <1>0, <1>1, OtherCommandsKeep DEF Apply
<1>2. ASSUME NEW i \in RaftIds, NodeCommand(i)
      PROVE  \/ \E m \in NodeIds : Register(i, m)
             \/ Apply(NodeRemove(fsm, i))
             \/ Keeps(fsm, fsm') /\ UNCHANGED displaced
  <2>1. ASSUME NEW st \in UNION {[A -> AllocStatuses] : A \in SUBSET AllocIds},
               Apply(NodeHeartbeat(fsm, i, st))
        PROVE  Keeps(fsm, fsm') /\ UNCHANGED displaced
    <3>1. PICK A \in SUBSET AllocIds : st \in [A -> AllocStatuses]
      OBVIOUS
    <3> QED BY <1>0, <2>1, <3>1, HeartbeatKeeps DEF Apply
  <2>2. CASE Apply(NodeDown(fsm, i)) \/ Apply(NodeDrain(fsm, i))
    BY <1>0, <2>2, NodeStatusKeeps DEF Apply, NodeDown, NodeDrain, NodeStatuses
  <2> QED BY <1>2, <2>1, <2>2 DEF NodeCommand
<1>3. ASSUME NEW a \in AllocIds, AllocCommand(a)
      PROVE  Keeps(fsm, fsm') /\ UNCHANGED displaced
  BY <1>0, <1>3, AllocCommandsKeep DEF AllocCommand, Apply
<1>4. ASSUME NEW v \in VolumeNames, VolumeCommand(v)
      PROVE  Keeps(fsm, fsm') /\ UNCHANGED displaced
  BY <1>0, <1>4, OtherCommandsKeep DEF VolumeCommand, Apply
<1>5. ASSUME NEW k \in SecretNames, SecretCommand(k)
      PROVE  Keeps(fsm, fsm') /\ UNCHANGED displaced
  BY <1>0, <1>5, OtherCommandsKeep DEF SecretCommand, Apply
<1> QED BY <1>1, <1>2, <1>3, <1>4, <1>5 DEF FsmNext

\* NodeRegister may replace a node; its name then counts as displaced.
LEMMA RegisterKeepsPlacement ==
  ASSUME PlacementInv, NEW i \in RaftIds, NEW m \in NodeIds, Register(i, m)
  PROVE  AllocsOnKnownNodes' /\ NonTerminal(fsm) \subseteq AllocsIn(fsm)'
<1>1. fsm \in FsmState
  BY DEF PlacementInv, FsmTypeOK
<1>2. fsm'.allocs = fsm.allocs
  BY <1>1 DEF Register, NodeRegister, FsmState
<1>3. fsm'.nodes = [fsm.nodes EXCEPT ![i] = [mill_id |-> m, status |-> "Ready"]]
  BY <1>1, SMTT(30) DEF Register, NodeRegister, FsmState
<1>4. fsm'.nodes[i] # None /\ \A j \in RaftIds \ {i} : fsm'.nodes[j] = fsm.nodes[j]
  <2>1. [mill_id |-> m, status |-> "Ready"] \in Node
    BY DEF Node, NodeStatuses
  <2> QED BY <1>1, <1>3, <2>1, StateFields
<1>5. MillIds(fsm) \subseteq MillIds(fsm') \cup displaced'
  <2> SUFFICES ASSUME NEW j \in NodesIn(fsm)
               PROVE  fsm.nodes[j].mill_id \in MillIds(fsm') \cup displaced'
    BY DEF MillIds
  <2>1. CASE j = i
    BY <2>1 DEF Register, NodesIn
  <2>2. CASE j # i
    BY <1>4, <2>2 DEF NodesIn, MillIds
  <2> QED BY <2>1, <2>2
<1>6. displaced \subseteq displaced'
  BY DEF Register
<1> QED BY <1>2, <1>5, <1>6 DEF PlacementInv, AllocsOnKnownNodes, AllocsIn, NonTerminal

\* NodeRemove takes the node's allocations, all terminal, along.
LEMMA RemoveKeepsPlacement ==
  ASSUME PlacementInv, NEW i \in RaftIds, Apply(NodeRemove(fsm, i))
  PROVE  AllocsOnKnownNodes' /\ NonTerminal(fsm) \subseteq AllocsIn(fsm)'
<1>1. fsm \in FsmState /\ UNCHANGED displaced /\ fsm' = NodeRemove(fsm, i)
  BY DEF PlacementInv, FsmTypeOK, Apply
<1>2. CASE NodeRemoveRefused(fsm, i)
  BY <1>1, <1>2 DEF NodeRemove, PlacementInv, AllocsOnKnownNodes, AllocsIn, NonTerminal
<1>3. CASE ~NodeRemoveRefused(fsm, i)
  <2> DEFINE m == fsm.nodes[i].mill_id
             gone == AllocsOn(fsm, m)
  <2>1. fsm'.allocs = [a \in AllocIds |-> IF a \in gone THEN None ELSE fsm.allocs[a]]
    BY <1>1, <1>3 DEF NodeRemove, FsmState
  <2>2. fsm'.nodes = [fsm.nodes EXCEPT ![i] = None]
    BY <1>1, <1>3 DEF NodeRemove, FsmState
  <2>3. \A j \in RaftIds \ {i} : fsm'.nodes[j] = fsm.nodes[j]
    BY <1>1, <2>2, StateFields
  <2>4. gone \cap NonTerminal(fsm) = {}
    BY <1>3 DEF NodeRemoveRefused
  <2>5. \A a \in AllocsIn(fsm) : a \notin gone => fsm.allocs[a].node # m
    BY DEF AllocsOn
  <2>6. MillIds(fsm) \subseteq MillIds(fsm') \cup {m}
    BY <2>3, SMTT(30) DEF MillIds, NodesIn
  <2> HIDE DEF gone, m
  <2>7. \A a \in AllocsIn(fsm') :
            a \in AllocsIn(fsm) /\ a \notin gone /\ fsm'.allocs[a] = fsm.allocs[a]
    BY <2>1 DEF AllocsIn
  <2>8. AllocsOnKnownNodes'
    BY <1>1, <2>5, <2>6, <2>7, SMTT(30) DEF PlacementInv, AllocsOnKnownNodes
  <2>9. NonTerminal(fsm) \subseteq AllocsIn(fsm)'
    BY <2>1, <2>4 DEF NonTerminal, AllocsIn
  <2> QED BY <2>8, <2>9
<1> QED BY <1>2, <1>3

\* The placement invariant is inductive, and no step forgets a live allocation.
LEMMA PlacementStep ==
  PlacementInv /\ [FsmNext]_fsmVars =>
     PlacementInv' /\ NonTerminal(fsm) \subseteq AllocsIn(fsm)'
<1> SUFFICES ASSUME PlacementInv, [FsmNext]_fsmVars
             PROVE  PlacementInv' /\ NonTerminal(fsm) \subseteq AllocsIn(fsm)'
  OBVIOUS
<1>1. FsmTypeOK /\ FsmTypeOK'
  BY TypeStep DEF PlacementInv
<1>2. CASE UNCHANGED fsmVars
  BY <1>2 DEF fsmVars, PlacementInv, FsmTypeOK, AllocsOnKnownNodes, NonTerminal, AllocsIn
<1>3. CASE FsmNext
  <2>1. CASE Keeps(fsm, fsm') /\ UNCHANGED displaced
    <3>1. NonTerminal(fsm) \subseteq AllocsIn(fsm)'
      BY <2>1 DEF Keeps
    <3> QED BY <1>1, <2>1, <3>1, KeepsPlacement DEF PlacementInv
  <2> QED BY <1>1, <1>3, <2>1, StepCases, RegisterKeepsPlacement, RemoveKeepsPlacement
          DEF PlacementInv
<1> QED BY <1>2, <1>3

\* The initial FSM has no allocations.
LEMMA PlacementInit == FsmInit => PlacementInv
  BY EmptyFsmType DEF FsmInit, PlacementInv, FsmTypeOK, AllocsOnKnownNodes, AllocsIn, EmptyFsm

\* NodeRemove never leaves an allocation behind on a node that is gone, for
\* every number of nodes and allocations and every order of commands.
THEOREM AllocsStayPlaced == FsmSpec => []PlacementInv
  BY PlacementInit, PlacementStep, PTL DEF FsmSpec

\* No command makes an allocation vanish while it may still be running.
THEOREM LiveAllocsStay == FsmSpec => LiveAllocStays
<1>1. PlacementInv /\ [FsmNext]_fsmVars =>
        [\A a \in AllocIds : a \in NonTerminal(fsm) => a \in AllocsIn(fsm)']_fsmVars
  BY PlacementStep
<1> QED BY <1>1, PlacementInit, PlacementStep, PTL DEF FsmSpec, LiveAllocStays

=============================================================================
