------------------------- MODULE CertificatesProofs -------------------------
(***************************************************************************)
(* The challenge store follows the orders, what is served is a pair, and   *)
(* the renewal finds what is about to expire: for every set of hostnames   *)
(* and any number of orders, failed writes, restarts and route tables.     *)
(***************************************************************************)
EXTENDS Certificates, TLAPS

USE CertAssumption

-----------------------------------------------------------------------------
(* One task moves. *)

\* Task t becomes v and the other stays.
Turn(t, v) ==
    /\ task' = [u \in Tasks |-> task'[u]]
    /\ task'[t] = v
    /\ \A u \in Tasks \ {t} : task'[u] = task[u]

Moved(t, pc, hand) == [pc |-> pc, host |-> task[t].host, todo |-> task[t].todo, hand |-> hand]

\* A fresh or changed record of a task.
LEMMA TurnTo ==
  ASSUME CertTypeOK, NEW t \in Tasks, NEW v, task' = [task EXCEPT ![t] = v]
  PROVE  Turn(t, v)
BY Zenon DEF CertTypeOK, Turn

\* Set changes the step and what the task has in hand.
LEMMA SetTurns ==
  ASSUME CertTypeOK, NEW t \in Tasks, NEW pc, NEW hand, Set(t, pc, hand)
  PROVE  Turn(t, Moved(t, pc, hand))
BY TurnTo, Zenon DEF Set, Moved

-----------------------------------------------------------------------------
(* Counters. *)

Counts == [orders : 0 .. MaxOrders, faults : 0 .. MaxFaults,
           crashes : 0 .. MaxCrashes, updates : 0 .. MaxUpdates]

\* Each bound caps its own counter.
LEMMA OrderCounted ==
  ASSUME count \in Counts, Below("orders", MaxOrders)
  PROVE  /\ count' \in Counts /\ count'.orders = count.orders + 1 /\ count'.orders \in Tokens
         /\ count'.crashes = count.crashes
BY DEF Counts, Below, Tokens

\* The others leave the number of orders alone.
LEMMA OthersCounted ==
  ASSUME count \in Counts,
         Below("faults", MaxFaults) \/ Below("crashes", MaxCrashes) \/ Below("updates", MaxUpdates)
  PROVE  count' \in Counts /\ count'.orders = count.orders
BY DEF Counts, Below

-----------------------------------------------------------------------------
(* Frames: what a step of one task leaves alone. *)

\* A step that enters and leaves no order keeps the tokens.
LEMMA TokenFrame ==
  ASSUME TokenInv, NEW t \in Tasks, NEW v, Turn(t, v), UNCHANGED <<challenges, aborted>>,
         task[t].pc \notin TokenPCs, v.pc \notin TokenPCs
  PROVE  TokenInv'
<1>1. \A u \in Tasks : task'[u].pc \in TokenPCs => u # t /\ task'[u] = task[u]
  BY Zenon DEF Turn
<1>2. \A u \in Tasks : task[u].pc \in TokenPCs => u # t /\ task'[u] = task[u]
  BY Zenon DEF Turn
<1>3. LeftoverIsAborted'
  BY <1>2 DEF TokenInv, LeftoverIsAborted, TokenPCs
<1> QED BY <1>1, <1>3, Zenon DEF TokenInv

\* A step that orders nothing and keeps files, cache and due dates.
LEMMA PairFrame ==
  ASSUME PairInv, NEW t \in Tasks, NEW v, Turn(t, v), UNCHANGED <<due, disk, cache>>,
         count'.orders = count.orders,
         v.pc \in TokenPCs => <<"acme", v.hand>> \notin due,
         v.pc \in PairPCs => v.hand \notin due /\ Made(v.hand),
         v.pc = "loadkey" /\ v.hand \in Pairs => Made(v.hand)
  PROVE  PairInv'
BY Zenon DEF PairInv, Turn, Made

\* A task moves and the files and the entry of h stay: h keeps its invariant if
\* the task does not save it and starts on it only where it may.
LEMMA FilesMove ==
  ASSUME NEW h \in Hosts, FilesInv(h), NEW t \in Tasks, NEW v, Turn(t, v),
         UNCHANGED <<up, due>>,
         disk'.crt[h] = disk.crt[h], disk'.key[h] = disk.key[h], cache'[h] = cache[h],
         task[t].host = h => task[t].pc \notin {"key", "insert"},
         v.host = h => v.pc \notin {"key", "insert"},
         v.host = h /\ v.pc = "loadkey" => disk.crt[h] = v.hand,
         t = "watcher" /\ Busy(v) /\ v.host = h =>
            WatcherOn(h) \/ (up # "down" /\ cache[h] = None),
         t = "renewal" /\ (h \in v.todo \/ (Busy(v) /\ v.host = h)) =>
            RenewalOn(h) \/ (up # "down" /\ disk.crt[h] \in due)
  PROVE  FilesInv(h)'
<1>1. \A u \in Tasks : u # t => task'[u] = task[u]
  BY Zenon DEF Turn
<1>2. task'[t] = v
  BY Zenon DEF Turn
<1>3. Tasks = {"watcher", "renewal"}
  BY Zenon DEF Tasks
<1>4. \A u \in Tasks :
         /\ task'[u].host = h /\ task'[u].pc \in {"key", "insert"} <=>
            task[u].host = h /\ task[u].pc \in {"key", "insert"}
         /\ task'[u].host = h /\ task'[u].pc \in {"key", "insert"} => task'[u] = task[u]
         /\ task'[u].host = h /\ task'[u].pc = "key" <=> task[u].host = h /\ task[u].pc = "key"
  BY <1>1, <1>2, Zenon
<1>5. Saving(h)' <=> Saving(h)
  BY <1>4, Zenon DEF Saving
<1>6. \A u \in Tasks : task'[u].host = h /\ task'[u].pc = "loadkey" => disk.crt[h] = task'[u].hand
  BY <1>1, <1>2, Zenon DEF FilesInv
<1>7. CASE t = "watcher"
  <2>1. RenewalOn(h)' <=> RenewalOn(h)
    BY <1>1, <1>3, <1>7, Zenon DEF RenewalOn, Busy
  <2>2. WatcherOn(h)' => WatcherOn(h) \/ (up # "down" /\ cache[h] = None)
    BY <1>2, <1>7, Zenon DEF WatcherOn, Busy
  <2>3. ~(WatcherOn(h) /\ Saving(h))
    BY <1>3, <1>7, Zenon DEF WatcherOn, Saving, FilesInv, RenewalOn, Busy, PairPCs
  <2> QED BY <1>4, <1>5, <1>6, <2>1, <2>2, <2>3, Zenon DEF FilesInv
<1>8. CASE t = "renewal"
  <2>1. WatcherOn(h)' <=> WatcherOn(h)
    BY <1>1, <1>3, <1>8, Zenon DEF WatcherOn, Busy
  <2>2. RenewalOn(h)' => RenewalOn(h) \/ (up # "down" /\ disk.crt[h] \in due)
    BY <1>2, <1>8, Zenon DEF RenewalOn, Busy
  <2> QED BY <1>4, <1>5, <1>6, <2>1, <2>2, Zenon DEF FilesInv
<1> QED BY <1>3, <1>7, <1>8, Zenon

\* The types of the tasks, when one of them moves.
LEMMA TurnTypes ==
  ASSUME CertTypeOK, NEW t \in Tasks, NEW v, Turn(t, v), count' \in Counts,
         count'.orders >= count.orders,
         Busy(v) \/ v.pc \in {"sleep", "list", "next"},
         v.todo \subseteq Hosts,
         Busy(v) => v.host \in Hosts,
         v.pc \in TokenPCs => v.hand \in 1 .. count'.orders,
         v.pc \in PairPCs => v.hand \in Pairs,
         v.pc = "loadkey" => v.hand \in Pairs \cup {Torn}
  PROVE  task' = [u \in Tasks |-> task'[u]] /\ \A u \in Tasks : TaskTypeOK(task[u])'
<1>1. ASSUME NEW u \in Tasks, u # t PROVE TaskTypeOK(task[u])'
  <2>1. task'[u] = task[u] /\ TaskTypeOK(task[u])
    BY <1>1, Zenon DEF Turn, CertTypeOK
  <2>2. count.orders \in Nat /\ count'.orders \in Nat
    BY DEF CertTypeOK, Counts
  <2> QED BY <2>1, <2>2 DEF TaskTypeOK, Busy
<1>2. TaskTypeOK(task[t])'
  BY Zenon DEF Turn, TaskTypeOK, Busy
<1> QED BY <1>1, <1>2, Zenon DEF Turn

\* A step of one task that saves nothing and serves nothing keeps the whole.
LEMMA QuietStep ==
  ASSUME CertInv, NEW t \in Tasks, NEW v, Turn(t, v),
         UNCHANGED <<up, disk, cache, due, faulty>>,
         up = "down" => v = Asleep,
         CertTypeOK', TokenInv', PairInv',
         task[t].pc \notin {"key", "insert"}, v.pc \notin {"key", "insert"},
         v.pc = "loadkey" => disk.crt[v.host] = v.hand,
         t = "watcher" /\ Busy(v) =>
            \/ Busy(task[t]) /\ v.host = task[t].host
            \/ up # "down" /\ cache[v.host] = None,
         \A h \in Hosts \ faulty :
            t = "renewal" /\ (h \in v.todo \/ (Busy(v) /\ v.host = h)) =>
               RenewalOn(h) \/ (up # "down" /\ disk.crt[h] \in due)
  PROVE  CertInv'
<1>1. ASSUME NEW h \in Hosts \ faulty PROVE FilesInv(h)'
  <2>1. t = "watcher" /\ Busy(v) /\ v.host = h => WatcherOn(h) \/ (up # "down" /\ cache[h] = None)
    BY Zenon DEF WatcherOn
  <2> QED BY <1>1, <2>1, FilesMove, Zenon DEF CertInv
<1>2. up' = "down" => \A u \in Tasks : task'[u] = Asleep
  BY Zenon DEF CertInv, Turn
<1> QED BY <1>1, <1>2, Zenon DEF CertInv

\* A busy task belongs to a proxy that runs.
LEMMA BusyIsUp ==
  ASSUME CertInv, NEW t \in Tasks, task[t].pc # "sleep"
  PROVE  up # "down"
BY DEF CertInv, Asleep

-----------------------------------------------------------------------------
(* The steps that change a file or an entry of the cache. *)

\* A task with a hostname writes one of its files or its entry: the other
\* hostnames keep their invariant.
LEMMA WriteStep ==
  ASSUME CertInv, NEW t \in Tasks, NEW pc, NEW hand, Turn(t, Moved(t, pc, hand)),
         NEW h, h = task[t].host,
         UNCHANGED <<up, challenges, table, due, aborted>>,
         Busy(task[t]), task[t].pc \notin TokenPCs,
         pc \in {"key", "insert", "next"}, pc # "next" => hand \in Pairs,
         count' \in Counts, count'.orders = count.orders,
         faulty' \in {faulty, faulty \cup {h}},
         disk' \in [crt : [Hosts -> Pairs \cup {None, Torn}], key : [Hosts -> Pairs \cup {None, Torn}],
                    creds : {None, Torn, "saved"}],
         cache' \in [Hosts -> (Pairs \X Pairs) \cup {None}],
         \A g \in Hosts \ {h} :
            disk'.crt[g] = disk.crt[g] /\ disk'.key[g] = disk.key[g] /\ cache'[g] = cache[g],
         PairInv',
         h \in faulty' \/ FilesInv(h)'
  PROVE  CertInv'
<1> DEFINE v == Moved(t, pc, hand)
<1>1. CertTypeOK /\ TokenInv /\ TaskTypeOK(task[t])
  BY Zenon DEF CertInv, CertTypeOK
<1>2. v.pc = pc /\ v.host = task[t].host /\ v.todo = task[t].todo /\ v.hand = hand
  BY Zenon DEF Moved
<1>3. task[t].host \in Hosts /\ v.todo \subseteq Hosts /\ count.orders \in Nat
  BY <1>1, <1>2 DEF TaskTypeOK, CertTypeOK
<1>4. v.pc \notin TokenPCs \cup {"loadkey"} /\ (Busy(v) \/ v.pc = "next")
  BY <1>2, Zenon DEF Busy, TokenPCs, PairPCs
<1>5. v.pc \in PairPCs => v.hand \in Pairs
  BY <1>2, Zenon DEF PairPCs
<1> HIDE DEF v
<1>6. task' = [u \in Tasks |-> task'[u]] /\ \A u \in Tasks : TaskTypeOK(task[u])'
  BY <1>1, <1>2, <1>3, <1>4, <1>5, TurnTypes DEF v
<1>7. faulty' \subseteq Hosts
  BY <1>1, <1>3 DEF CertTypeOK
<1>8. CertTypeOK'
  BY <1>1, <1>6, <1>7, Zenon DEF CertTypeOK, Counts
<1>9. TokenInv'
  BY <1>1, <1>4, TokenFrame, SMTT(30) DEF v
<1>10. ASSUME NEW g \in Hosts \ faulty' PROVE FilesInv(g)'
  <2>1. CASE g = h
    BY <1>10, <2>1, SMTT(30)
  <2>2. CASE g # h
    <3>1. FilesInv(g) /\ g \in Hosts
      BY <1>10, Zenon DEF CertInv
    <3>2. t = "renewal" /\ g \in v.todo => RenewalOn(g)
      BY <1>2, Zenon DEF RenewalOn
    <3> QED BY <1>2, <2>2, <3>1, <3>2, FilesMove, SMTT(30) DEF v
  <2> QED BY <2>1, <2>2, Zenon
<1>11. up' # "down"
  BY <1>1, BusyIsUp, Zenon DEF Busy, TokenPCs, PairPCs
<1> QED BY <1>8, <1>9, <1>10, <1>11, Zenon DEF CertInv

\* A task at work on a hostname with no bad write has it to itself.
LEMMA Alone ==
  ASSUME NEW t \in Tasks, NEW h, FilesInv(h), Busy(task[t]), task[t].host = h
  PROVE  /\ \A u \in Tasks \ {t} : ~(Busy(task[u]) /\ task[u].host = h)
         /\ t = "watcher" => ~RenewalOn(h)
         /\ t = "renewal" => cache[h] # None /\ ~WatcherOn(h)
BY SMTT(30) DEF FilesInv, WatcherOn, RenewalOn, Tasks

\* A write of a file that succeeds, and the insertion: t goes on with the pair
\* it has saved.
LEMMA GoodWrite ==
  ASSUME CertInv, NEW t \in Tasks, NEW pc, NEW hand, NEW h \in Hosts \ faulty,
         h = task[t].host, Turn(t, Moved(t, pc, hand)), UNCHANGED <<up, due>>,
         disk'.crt[h] = task[t].hand, task[t].hand \in Pairs,
         \/ /\ task[t].pc = "crt" /\ pc = "key" /\ hand = task[t].hand
            /\ cache'[h] = cache[h]
         \/ /\ task[t].pc = "key" /\ pc = "insert" /\ hand = task[t].hand
            /\ disk'.key[h] = task[t].hand /\ cache'[h] = cache[h]
         \/ /\ task[t].pc = "insert" /\ pc = "next" /\ disk'.key[h] = disk'.crt[h]
            /\ cache'[h] = <<task[t].hand, task[t].hand>>
  PROVE  FilesInv(h)'
<1> DEFINE v == Moved(t, pc, hand)
           p == task[t].hand
<1>1. v.pc = pc /\ v.host = h /\ v.todo = task[t].todo /\ v.hand = hand
  BY Zenon DEF Moved
<1>2. task'[t] = v /\ \A u \in Tasks \ {t} : task'[u] = task[u]
  BY SMTT(30) DEF Turn
<1> HIDE DEF v
<1>3. task[t].pc \in PairPCs /\ Busy(task[t]) /\ FilesInv(h)
  BY SMTT(30) DEF CertInv, PairPCs, Busy
<1>4. /\ \A u \in Tasks \ {t} : ~(Busy(task[u]) /\ task[u].host = h)
      /\ t = "watcher" => ~RenewalOn(h)
      /\ t = "renewal" => cache[h] # None /\ ~WatcherOn(h)
  BY <1>3, Alone, SMTT(30)
<1>5. p \notin due /\ p # Torn /\ p # None /\ <<p, p>> # None
  <2>1. p \notin due
    BY <1>3, Zenon DEF CertInv, PairInv
  <2>2. <<p, p>> \in Pairs \X Pairs
    BY Zenon
  <2> QED BY <2>1, <2>2, AbsentAssumption, Zenon
<1>6. ASSUME NEW u \in Tasks \ {t}, task'[u].host = h
      PROVE  task'[u].pc \notin {"key", "insert", "loadkey"}
  BY <1>2, <1>4, <1>6, Zenon DEF Busy, PairPCs
<1>7. /\ RenewalOn(h)' => t = "renewal"
      /\ t = "renewal" => ~WatcherOn(h)'
      /\ t = "watcher" /\ pc # "next" => WatcherOn(h)'
      /\ t = "watcher" /\ pc = "next" => ~WatcherOn(h)'
      /\ pc \in {"key", "insert"} => Saving(h)'
  <2>1. (RenewalOn(h)' => t = "renewal") /\ (t = "renewal" => ~WatcherOn(h)')
    BY <1>1, <1>2, <1>4, Zenon DEF RenewalOn, WatcherOn, Busy, Tasks, TokenPCs, PairPCs
  <2>2. t = "watcher" => (pc # "next" <=> WatcherOn(h)')
    BY <1>1, <1>2, <1>4, Zenon DEF WatcherOn, Busy, TokenPCs, PairPCs
  <2>3. pc \in {"key", "insert"} => Saving(h)'
    BY <1>1, <1>2, Zenon DEF Saving
  <2> QED BY <2>1, <2>2, <2>3, Zenon
<1>8. cache'[h] # None => cache'[h][1] = cache'[h][2] /\ (Saving(h)' \/ cache'[h][1] = p)
  BY <1>3, <1>7, SMTT(30) DEF FilesInv
<1>9. t = "watcher" \/ cache'[h] # None
  BY <1>4, <1>5, Zenon DEF Tasks
<1>10. cache'[h] # None \/ (WatcherOn(h)' /\ Saving(h)')
  BY <1>5, <1>7, <1>9, Zenon
<1>11. (\A u \in Tasks : ~(task'[u].host = h /\ task'[u].pc = "key")) => disk'.crt[h] = disk'.key[h]
  BY <1>1, <1>2, Zenon
<1>12. \A u \in Tasks : task'[u].host = h =>
          /\ task'[u].pc \in {"key", "insert"} => disk'.crt[h] = task'[u].hand
          /\ task'[u].pc = "loadkey" => disk'.crt[h] = task'[u].hand
  BY <1>1, <1>2, <1>6, Zenon
<1>13. RenewalOn(h)' => cache'[h] # None /\ ~WatcherOn(h)'
  BY <1>7, <1>9, Zenon
<1> QED BY <1>5, <1>8, <1>10, <1>11, <1>12, <1>13, Zenon DEF FilesInv

\* Files may change and orders stay: the pairs on disk and in the cache are made.
LEMMA PairWrite ==
  ASSUME CertInv, NEW t \in Tasks, NEW v, Turn(t, v), UNCHANGED due, count'.orders = count.orders,
         v.pc \notin TokenPCs \cup {"loadkey"},
         v.pc \in PairPCs => task[t].pc \in PairPCs /\ v.hand = task[t].hand,
         \A h \in Hosts : disk'.crt[h] \in Pairs => Made(disk'.crt[h]),
         \A h \in Hosts : cache'[h] # None => Made(cache'[h][1])
  PROVE  PairInv'
<1>1. PairInv
  BY Zenon DEF CertInv
<1>2. task'[t] = v /\ \A u \in Tasks \ {t} : task'[u] = task[u]
  BY Zenon DEF Turn
<1> QED BY <1>1, <1>2, ZenonT(30) DEF PairInv, Made

\* FileCertStore::save writes the certificate, or fails.
LEMMA SaveCrtKeeps ==
  ASSUME CertInv, NEW t \in Tasks, SaveCrt(t)
  PROVE  CertInv'
<1>0. PICK h, p : h = task[t].host /\ p = task[t].hand
  BY Zenon
<1>1. CertTypeOK /\ PairInv /\ TaskTypeOK(task[t]) /\ task[t].pc = "crt"
      /\ task[t].pc \in PairPCs /\ Busy(task[t]) /\ task[t].pc \notin TokenPCs
  BY Zenon DEF CertInv, CertTypeOK, SaveCrt, Busy, PairPCs, TokenPCs
<1>2. /\ h \in Hosts /\ p \in Pairs /\ Made(p) /\ count \in Counts
      /\ disk \in [crt : [Hosts -> Pairs \cup {None, Torn}], key : [Hosts -> Pairs \cup {None, Torn}],
                   creds : {None, Torn, "saved"}]
      /\ cache \in [Hosts -> (Pairs \X Pairs) \cup {None}] /\ Torn \notin Pairs
  BY <1>0, <1>1, AbsentAssumption, Zenon DEF TaskTypeOK, CertTypeOK, PairInv, Counts
<1>3. UNCHANGED <<up, cache, challenges, table, due, aborted>>
  BY Zenon DEF SaveCrt
<1>4. ASSUME NEW x \in {p, disk.crt[h], Torn}, disk' = [disk EXCEPT !.crt[h] = x],
             NEW pc \in {"key", "insert", "next"}, Set(t, pc, p),
             count' \in Counts, count'.orders = count.orders,
             \/ x = p /\ pc = "key" /\ faulty' = faulty
             \/ faulty' = faulty \cup {h}
      PROVE  CertInv'
  <2>1. /\ disk' \in [crt : [Hosts -> Pairs \cup {None, Torn}],
                      key : [Hosts -> Pairs \cup {None, Torn}], creds : {None, Torn, "saved"}]
        /\ \A g \in Hosts \ {h} : disk'.crt[g] = disk.crt[g]
        /\ disk'.crt[h] = x /\ disk'.key = disk.key
    BY <1>0, <1>2, <1>4, Zenon
  <2>2. Turn(t, Moved(t, pc, p)) /\ Moved(t, pc, p).pc = pc /\ Moved(t, pc, p).hand = p
    BY <1>0, <1>1, <1>4, SetTurns, SMTT(30) DEF Moved
  <2>3. \A g \in Hosts : disk'.crt[g] \in Pairs => Made(disk'.crt[g])
    BY <1>0, <1>1, <1>2, <2>1, SMTT(30) DEF PairInv
  <2>4. \A g \in Hosts : cache'[g] # None => Made(cache'[g][1])
    BY <1>0, <1>1, <1>3, Zenon DEF PairInv
  <2>5. PairInv'
    <3>1. pc \notin TokenPCs \cup {"loadkey"}
      BY Zenon DEF TokenPCs
    <3> QED BY <1>0, <1>1, <1>3, <1>4, <2>2, <2>3, <2>4, <3>1, PairWrite, Zenon
  <2>6. h \in faulty' \/ FilesInv(h)'
    BY <1>0, <1>1, <1>2, <1>3, <1>4, <2>1, <2>2, GoodWrite, Zenon
  <2> QED BY <1>0, <1>1, <1>2, <1>3, <1>4, <2>1, <2>2, <2>5, <2>6, WriteStep, SMTT(30)
<1>5. CASE /\ disk' = [disk EXCEPT !.crt[h] = p] /\ Set(t, "key", p) /\ UNCHANGED <<faulty, count>>
  BY <1>0, <1>2, <1>4, <1>5, Zenon
<1>6. CASE /\ Below("faults", MaxFaults)
           /\ \E x \in {disk.crt[h], Torn} : disk' = [disk EXCEPT !.crt[h] = x]
           /\ SaveFails(t) /\ faulty' = faulty \cup {h}
  <2>1. PICK x \in {disk.crt[h], Torn} : disk' = [disk EXCEPT !.crt[h] = x]
    BY <1>0, <1>6, Zenon
  <2>2. count' \in Counts /\ count'.orders = count.orders
    BY <1>0, <1>2, <1>6, OthersCounted, Zenon
  <2>3. Set(t, IF t = "watcher" THEN "insert" ELSE "next", p)
    BY <1>0, <1>6, Zenon DEF SaveFails
  <2> QED BY <1>0, <1>4, <1>6, <2>1, <2>2, <2>3, Zenon
<1> QED BY <1>0, <1>5, <1>6, Zenon DEF SaveCrt

\* FileCertStore::save writes the key, or fails.
LEMMA SaveKeyKeeps ==
  ASSUME CertInv, NEW t \in Tasks, SaveKey(t)
  PROVE  CertInv'
<1>0. PICK h, p : h = task[t].host /\ p = task[t].hand
  BY Zenon
<1>1. CertTypeOK /\ PairInv /\ TaskTypeOK(task[t]) /\ task[t].pc = "key"
      /\ task[t].pc \in PairPCs /\ Busy(task[t]) /\ task[t].pc \notin TokenPCs
  BY Zenon DEF CertInv, CertTypeOK, SaveKey, Busy, PairPCs, TokenPCs
<1>2. /\ h \in Hosts /\ p \in Pairs /\ Made(p) /\ count \in Counts
      /\ disk \in [crt : [Hosts -> Pairs \cup {None, Torn}], key : [Hosts -> Pairs \cup {None, Torn}],
                   creds : {None, Torn, "saved"}]
      /\ cache \in [Hosts -> (Pairs \X Pairs) \cup {None}]
  BY <1>0, <1>1, Zenon DEF TaskTypeOK, CertTypeOK, PairInv, Counts
<1>3. UNCHANGED <<up, cache, challenges, table, due, aborted>>
  BY Zenon DEF SaveKey
<1>4. h \in faulty \/ disk.crt[h] = p
  BY <1>0, <1>1, <1>2, Zenon DEF CertInv, FilesInv
<1>5. ASSUME NEW x \in {p, disk.key[h], Torn}, disk' = [disk EXCEPT !.key[h] = x],
             NEW pc \in {"insert", "next"}, Set(t, pc, p),
             count' \in Counts, count'.orders = count.orders,
             \/ x = p /\ pc = "insert" /\ faulty' = faulty
             \/ faulty' = faulty \cup {h}
      PROVE  CertInv'
  <2>1. /\ disk' \in [crt : [Hosts -> Pairs \cup {None, Torn}],
                      key : [Hosts -> Pairs \cup {None, Torn}], creds : {None, Torn, "saved"}]
        /\ \A g \in Hosts \ {h} : disk'.key[g] = disk.key[g]
        /\ disk'.key[h] = x /\ disk'.crt = disk.crt
    BY <1>0, <1>2, <1>5, Zenon
  <2>2. Turn(t, Moved(t, pc, p)) /\ Moved(t, pc, p).pc = pc /\ Moved(t, pc, p).hand = p
    BY <1>0, <1>1, <1>5, SetTurns, SMTT(30) DEF Moved
  <2>3. /\ \A g \in Hosts : disk'.crt[g] \in Pairs => Made(disk'.crt[g])
        /\ \A g \in Hosts : cache'[g] # None => Made(cache'[g][1])
    BY <1>0, <1>1, <1>3, <2>1, Zenon DEF PairInv
  <2>4. PairInv'
    <3>1. pc \notin TokenPCs \cup {"loadkey"}
      BY Zenon DEF TokenPCs
    <3> QED BY <1>0, <1>1, <1>3, <1>5, <2>2, <2>3, <3>1, PairWrite, Zenon
  <2>5. h \in faulty' \/ FilesInv(h)'
    BY <1>0, <1>1, <1>2, <1>3, <1>4, <1>5, <2>1, <2>2, GoodWrite, Zenon
  <2> QED BY <1>0, <1>1, <1>2, <1>3, <1>5, <2>1, <2>2, <2>4, <2>5, WriteStep, SMTT(30)
<1>6. CASE /\ disk' = [disk EXCEPT !.key[h] = p] /\ Set(t, "insert", p) /\ UNCHANGED <<faulty, count>>
  BY <1>0, <1>2, <1>5, <1>6, Zenon
<1>7. CASE /\ Below("faults", MaxFaults)
           /\ \E x \in {disk.key[h], Torn} : disk' = [disk EXCEPT !.key[h] = x]
           /\ SaveFails(t) /\ faulty' = faulty \cup {h}
  <2>1. PICK x \in {disk.key[h], Torn} : disk' = [disk EXCEPT !.key[h] = x]
    BY <1>0, <1>7, Zenon
  <2>2. count' \in Counts /\ count'.orders = count.orders
    BY <1>0, <1>2, <1>7, OthersCounted, Zenon
  <2>3. Set(t, IF t = "watcher" THEN "insert" ELSE "next", p)
    BY <1>0, <1>7, SMTT(30) DEF SaveFails
  <2> QED BY <1>0, <1>5, <1>7, <2>1, <2>2, <2>3, Zenon
<1> QED BY <1>0, <1>6, <1>7, Zenon DEF SaveKey

\* CertCache::insert: the new pair is served.
LEMMA InsertKeeps ==
  ASSUME CertInv, NEW t \in Tasks, Insert(t)
  PROVE  CertInv'
<1>0. PICK h, p : h = task[t].host /\ p = task[t].hand
  BY Zenon
<1>1. CertTypeOK /\ PairInv /\ TaskTypeOK(task[t]) /\ task[t].pc = "insert"
      /\ task[t].pc \in PairPCs /\ Busy(task[t]) /\ task[t].pc \notin TokenPCs
  BY Zenon DEF CertInv, CertTypeOK, Insert, Busy, PairPCs, TokenPCs
<1>2. /\ h \in Hosts /\ p \in Pairs /\ Made(p) /\ count \in Counts
      /\ disk \in [crt : [Hosts -> Pairs \cup {None, Torn}], key : [Hosts -> Pairs \cup {None, Torn}],
                   creds : {None, Torn, "saved"}]
      /\ cache \in [Hosts -> (Pairs \X Pairs) \cup {None}]
  BY <1>0, <1>1, Zenon DEF TaskTypeOK, CertTypeOK, PairInv, Counts
<1>3. UNCHANGED <<up, disk, challenges, table, due, aborted, faulty, count>>
      /\ cache' = [cache EXCEPT ![h] = <<p, p>>] /\ Set(t, "next", None)
  BY <1>0, Zenon DEF Insert
<1>4. h \in faulty \/ (disk.crt[h] = p /\ disk.key[h] = p)
  <2>1. ASSUME h \notin faulty PROVE disk.crt[h] = p /\ disk.key[h] = p
    <3>1. FilesInv(h) /\ disk.crt[h] = p
      BY <1>0, <1>1, <1>2, <2>1, ZenonT(30) DEF CertInv, FilesInv
    <3>2. \A u \in Tasks \ {t} : ~(Busy(task[u]) /\ task[u].host = h)
      BY <1>0, <1>1, <3>1, Alone, Zenon
    <3>3. \A u \in Tasks : ~(task[u].host = h /\ task[u].pc = "key")
      BY <1>1, <3>2, Zenon DEF Busy, PairPCs
    <3> QED BY <3>1, <3>3, SMTT(30) DEF FilesInv
  <2> QED BY <2>1, Zenon
<1>5. Turn(t, Moved(t, "next", None)) /\ Moved(t, "next", None).pc = "next"
  BY <1>1, <1>3, SetTurns, Zenon DEF Moved
<1>6. cache' \in [Hosts -> (Pairs \X Pairs) \cup {None}] /\ cache'[h] = <<p, p>>
      /\ \A g \in Hosts \ {h} : cache'[g] = cache[g]
  BY <1>2, <1>3, SMTT(30)
<1>7. PairInv'
  <2>1. \A g \in Hosts : disk'.crt[g] \in Pairs => Made(disk'.crt[g])
    BY <1>1, <1>3, Zenon DEF PairInv
  <2>2. \A g \in Hosts : cache'[g] # None => Made(cache'[g][1])
    BY <1>1, <1>2, <1>6 DEF PairInv
  <2>3. "next" \notin TokenPCs \cup PairPCs \cup {"loadkey"}
    BY SMTT(30) DEF TokenPCs, PairPCs
  <2> QED BY <1>3, <1>5, <2>1, <2>2, <2>3, PairWrite, SMTT(30)
<1>8. h \in faulty' \/ FilesInv(h)'
  BY <1>0, <1>1, <1>2, <1>3, <1>4, <1>5, <1>6, GoodWrite, ZenonT(30)
<1> QED BY <1>0, <1>1, <1>2, <1>3, <1>5, <1>6, <1>7, <1>8, WriteStep, Zenon

\* The watcher reads the key after the certificate and serves the two: the
\* renewal cannot have written in between, because it takes what is served.
LEMMA LoadKeeps ==
  ASSUME CertInv, WatcherLoadsKey, Loads(task["watcher"].hand, disk.key[task["watcher"].host])
  PROVE  CertInv'
<1> DEFINE t == "watcher"
<1>0. PICK h, p : h = task[t].host /\ p = task[t].hand
  BY Zenon
<1>1. CertTypeOK /\ PairInv /\ TaskTypeOK(task[t]) /\ task[t].pc = "loadkey" /\ t \in Tasks
      /\ Busy(task[t]) /\ task[t].pc \notin TokenPCs
  BY Zenon DEF CertInv, CertTypeOK, WatcherLoadsKey, Busy, TokenPCs, Tasks
<1>2. /\ h \in Hosts /\ p \in Pairs /\ Made(p) /\ count \in Counts /\ disk.key[h] \in Pairs
      /\ disk \in [crt : [Hosts -> Pairs \cup {None, Torn}], key : [Hosts -> Pairs \cup {None, Torn}],
                   creds : {None, Torn, "saved"}]
      /\ cache \in [Hosts -> (Pairs \X Pairs) \cup {None}]
  BY <1>0, <1>1, Zenon DEF TaskTypeOK, CertTypeOK, PairInv, Counts, Loads
<1>3. UNCHANGED <<up, disk, challenges, table, due, aborted, faulty, count>>
      /\ cache' = [cache EXCEPT ![h] = <<p, disk.key[h]>>] /\ Set(t, "next", None)
  BY <1>0, Zenon DEF WatcherLoadsKey
<1>4. Turn(t, Moved(t, "next", None)) /\ Moved(t, "next", None).pc = "next"
  BY <1>1, <1>3, SetTurns, Zenon DEF Moved
<1>5. cache' \in [Hosts -> (Pairs \X Pairs) \cup {None}] /\ cache'[h] = <<p, disk.key[h]>>
      /\ \A g \in Hosts \ {h} : cache'[g] = cache[g]
  BY <1>2, <1>3, Zenon
<1>6. cache'[h] # None
  <2>1. <<p, disk.key[h]>> \in Pairs \X Pairs
    BY <1>2, SMTT(30)
  <2> QED BY <1>5, <2>1, AbsentAssumption, Zenon
<1>7. PairInv'
  <2>1. \A g \in Hosts : disk'.crt[g] \in Pairs => Made(disk'.crt[g])
    BY <1>1, <1>3, SMTT(30) DEF PairInv
  <2>2. \A g \in Hosts : cache'[g] # None => Made(cache'[g][1])
    BY <1>1, <1>2, <1>5, SMTT(30) DEF PairInv
  <2>3. "next" \notin TokenPCs \cup PairPCs \cup {"loadkey"}
    BY Zenon DEF TokenPCs, PairPCs
  <2> QED BY <1>1, <1>3, <1>4, <2>1, <2>2, <2>3, PairWrite, ZenonT(30)
<1>8. ASSUME h \notin faulty PROVE FilesInv(h)'
  <2>1. FilesInv(h) /\ disk.crt[h] = p
    BY <1>0, <1>1, <1>2, <1>8, ZenonT(30) DEF CertInv, FilesInv
  <2>2. (\A u \in Tasks \ {t} : ~(Busy(task[u]) /\ task[u].host = h)) /\ ~RenewalOn(h)
    BY <1>0, <1>1, <2>1, Alone, Zenon
  <2>3. \A u \in Tasks : ~(task[u].host = h /\ task[u].pc = "key")
    BY <1>1, <2>2, Zenon DEF Busy, PairPCs
  <2>4. disk.key[h] = p
    BY <2>1, <2>3, Zenon DEF FilesInv
  <2>5. task'[t].pc = "next" /\ \A u \in Tasks \ {t} : task'[u] = task[u]
    BY <1>4, Zenon DEF Turn
  <2>6. \A u \in Tasks : task'[u].host = h => task'[u].pc \notin {"key", "insert", "loadkey"}
    BY <2>2, <2>5, Zenon DEF Busy, PairPCs
  <2>7. ~RenewalOn(h)' /\ ~WatcherOn(h)'
    <3>1. "watcher" \in Tasks /\ "renewal" \in Tasks /\ ~Busy(task'[t])
      BY <2>5, Zenon DEF Tasks, Busy, TokenPCs, PairPCs
    <3>2. task'["watcher"] = task["watcher"] \/ t = "watcher"
      BY <2>5, <3>1, Zenon
    <3>3. task'["renewal"] = task["renewal"] \/ t = "renewal"
      BY <2>5, <3>1, Zenon
    <3>4. task'["renewal"].todo = task["renewal"].todo
      BY <1>4, <3>3, Zenon DEF Turn, Moved
    <3> QED BY <2>2, <3>1, <3>2, <3>3, <3>4, Zenon DEF RenewalOn, WatcherOn
  <2> QED BY <1>3, <1>5, <1>6, <2>1, <2>4, <2>6, <2>7, SMTT(30) DEF FilesInv
<1> QED BY <1>0, <1>1, <1>2, <1>3, <1>4, <1>5, <1>7, <1>8, WriteStep, ZenonT(30)

-----------------------------------------------------------------------------
(* Start, stop and the world around. *)

\* No task works: nothing is in hand and nothing is being saved.
LEMMA RestingTasks ==
  ASSUME NEW h, \A t \in Tasks : task[t].pc \in {"sleep", "list"}
  PROVE  /\ ~WatcherOn(h) /\ ~Saving(h)
         /\ RenewalOn(h) => h \in task["renewal"].todo
         /\ \A t \in Tasks : task[t].pc \notin TokenPCs \cup PairPCs \cup {"loadkey"}
BY Zenon DEF WatcherOn, Saving, RenewalOn, Busy, TokenPCs, PairPCs, Tasks

\* ProxyServer::start serves what loads, and a hostname with no bad write has
\* both files or none.
LEMMA StartKeeps ==
  ASSUME CertInv, Start
  PROVE  CertInv'
<1>1. /\ CertTypeOK /\ PairInv /\ TokenInv /\ up = "down" /\ \A t \in Tasks : task[t] = Asleep
      /\ "renewal" \in Tasks /\ "watcher" \in Tasks
  BY Zenon DEF CertInv, Start, Tasks
<1>2. UNCHANGED <<challenges, table, due, aborted, faulty>> /\ up' \in {"plain", "acme"}
  BY Zenon DEF Start
<1>3. /\ disk' \in [crt : [Hosts -> Pairs \cup {None, Torn}], key : [Hosts -> Pairs \cup {None, Torn}],
                    creds : {None, Torn, "saved"}]
      /\ disk'.crt = disk.crt /\ disk'.key = disk.key
      /\ disk.crt \in [Hosts -> Pairs \cup {None, Torn}]
      /\ disk.key \in [Hosts -> Pairs \cup {None, Torn}]
  BY <1>1 DEF CertTypeOK, Start
<1>4. count \in Counts /\ count' \in Counts /\ count'.orders = count.orders /\ count.orders \in Nat
  BY <1>1, OthersCounted DEF CertTypeOK, Start, Counts
<1>5. PICK pc \in {"sleep", "list"} : Set("renewal", pc, None)
  BY Zenon DEF Start
<1> DEFINE v == Moved("renewal", pc, None)
<1>6. Turn("renewal", v) /\ v.pc = pc /\ v.todo = {} /\ v.hand = None
  BY <1>1, <1>5, SetTurns DEF Moved, Asleep
<1> HIDE DEF v
<1>7. task'["renewal"] = v /\ task'["watcher"] = Asleep
  BY <1>1, <1>6, Zenon DEF Turn, Tasks
<1>8. \A t \in Tasks : task'[t].pc \in {"sleep", "list"} /\ task[t].pc \in {"sleep", "list"}
  BY <1>1, <1>6, <1>7 DEF Tasks, Asleep
<1>9. (\A t \in Tasks : task[t].pc \in {"sleep", "list"})'
  BY <1>8, Zenon
<1>10. /\ \A h : ~WatcherOn(h)' /\ ~Saving(h)' /\ ~RenewalOn(h)' /\ ~WatcherOn(h)
       /\ \A t \in Tasks : /\ task'[t].pc \notin TokenPCs \cup PairPCs \cup {"loadkey"}
                           /\ task[t].pc \notin TokenPCs \cup PairPCs \cup {"loadkey"}
  BY <1>6, <1>7, <1>8, Zenon DEF WatcherOn, Saving, RenewalOn, Busy, TokenPCs, PairPCs, Tasks
<1>11. \A h \in Hosts : cache'[h] = IF disk.crt[h] \in Pairs /\ disk.key[h] \in Pairs
                                    THEN <<disk.crt[h], disk.key[h]>> ELSE None
  BY Zenon DEF Start, Loads
<1>12. cache' \in [Hosts -> (Pairs \X Pairs) \cup {None}]
  <2>1. cache' = [h \in Hosts |-> cache'[h]]
    BY Zenon DEF Start
  <2> QED BY <1>11, <2>1
<1>13. TokenInv'
  BY <1>1, <1>2, <1>6, <1>7, <1>10, TokenFrame, Zenon
<1>14. PairInv'
  <2>1. \A h \in Hosts : /\ disk'.crt[h] \in Pairs => Made(disk'.crt[h])
                         /\ cache'[h] # None => Made(cache'[h][1])
    <3>1. \A h \in Hosts : disk.crt[h] \in Pairs => Made(disk.crt[h])
      BY <1>1, Zenon DEF PairInv
    <3>2. \A h \in Hosts : cache'[h] # None => cache'[h][1] = disk.crt[h] /\ disk.crt[h] \in Pairs
      <4>1. ASSUME NEW h \in Hosts, cache'[h] # None
            PROVE  cache'[h] = <<disk.crt[h], disk.key[h]>> /\ disk.crt[h] \in Pairs
        BY <1>11, <4>1, Zenon
      <4>2. \A h \in Hosts : <<disk.crt[h], disk.key[h]>>[1] = disk.crt[h]
        BY Zenon
      <4> QED BY <4>1, <4>2, Zenon
    <3> QED BY <1>3, <3>1, <3>2, Zenon DEF Made
  <2> QED BY <1>1, <1>2, <1>4, <1>6, <1>7, <1>10, <2>1, PairWrite, Zenon
<1>15. ~Busy(v) /\ v.pc \in {"sleep", "list", "next"} /\ v.pc \notin TokenPCs \cup PairPCs \cup {"loadkey"}
  BY <1>6, Zenon DEF Busy, TokenPCs, PairPCs
<1>16. task' = [u \in Tasks |-> task'[u]] /\ \A u \in Tasks : TaskTypeOK(task[u])'
  BY <1>1, <1>4, <1>6, <1>15, TurnTypes
<1>17. CertTypeOK'
  BY <1>1, <1>2, <1>3, <1>4, <1>12, <1>16, Zenon DEF CertTypeOK, Counts
<1>18. ASSUME NEW h \in Hosts \ faulty' PROVE FilesInv(h)'
  <2>1. FilesInv(h)
    BY <1>2, <1>18, SMTT(30) DEF CertInv
  <2>2. disk.crt[h] = disk.key[h] /\ disk.crt[h] # Torn
    BY <1>10, <2>1, Zenon DEF FilesInv, PairPCs
  <2>3. disk.crt[h] # None => disk.crt[h] \in Pairs
    BY <1>3, <1>18, <2>2, Zenon
  <2>4. disk.crt[h] \in Pairs => cache'[h] = <<disk.crt[h], disk.crt[h]>> /\ cache'[h] # None
    <3>1. ASSUME disk.crt[h] \in Pairs
          PROVE  cache'[h] = <<disk.crt[h], disk.crt[h]>> /\ cache'[h] # None
      <4>1. <<disk.crt[h], disk.crt[h]>> \in Pairs \X Pairs
        BY <3>1, Zenon
      <4> QED BY <1>11, <1>18, <2>2, <3>1, <4>1, AbsentAssumption, Zenon
    <3> QED BY <3>1, Zenon
  <2>5. cache'[h] # None => disk.crt[h] \in Pairs
    BY <1>11, <1>18, Zenon
  <2>6. disk.crt[h] \in due => disk.crt[h] \in Pairs
    BY <1>1, Zenon DEF CertTypeOK
  <2> QED BY <1>2, <1>3, <1>10, <2>2, <2>3, <2>4, <2>5, <2>6 DEF FilesInv, PairPCs
<1> QED BY <1>2, <1>13, <1>14, <1>17, <1>18, Zenon DEF CertInv

\* A crash leaves the files; one that cuts a save off makes its hostname faulty.
LEMMA CrashKeeps ==
  ASSUME CertInv, Crash
  PROVE  CertInv'
<1>1. CertTypeOK /\ PairInv
  BY Zenon DEF CertInv
<1>2. /\ up' = "down" /\ UNCHANGED <<disk, due>> /\ challenges' = {} /\ aborted' = {}
      /\ \A h \in Hosts : cache'[h] = None
      /\ \A t \in Tasks : task'[t] = Asleep
  BY Zenon DEF Crash
<1>3. count \in Counts /\ count' \in Counts /\ count'.orders = count.orders
  BY <1>1, OthersCounted, Zenon DEF CertTypeOK, Crash, Counts
<1>4. \A t \in Tasks : task'[t].pc = "sleep" /\ task'[t].todo = {}
  BY <1>2 DEF Asleep
<1>5. /\ \A h : ~WatcherOn(h)' /\ ~Saving(h)' /\ ~RenewalOn(h)'
      /\ \A t \in Tasks : task'[t].pc \notin TokenPCs \cup PairPCs \cup {"loadkey"}
  BY <1>4, Zenon DEF WatcherOn, Saving, RenewalOn, Busy, TokenPCs, PairPCs, Tasks
<1>6. TokenInv'
  BY <1>2, <1>5, SMTT(30) DEF TokenInv, LeftoverIsAborted
<1>7. PairInv'
  BY <1>1, <1>2, <1>3, <1>5, ZenonT(30) DEF PairInv, Made
<1>8. \A t \in Tasks : TaskTypeOK(task[t])'
  BY <1>4, <1>5, Zenon DEF TaskTypeOK, Busy
<1>9. faulty' \subseteq Hosts
  <2>1. \A t \in Tasks : task[t].pc = "key" => task[t].host \in Hosts
    BY <1>1, Zenon DEF CertTypeOK, TaskTypeOK, Busy, PairPCs
  <2> QED BY <1>1, <2>1 DEF Crash, CertTypeOK
<1>10. CertTypeOK'
  <2>1. cache' \in [Hosts -> (Pairs \X Pairs) \cup {None}]
        /\ table' \in [hosts : SUBSET Hosts, changed : BOOLEAN]
        /\ task' = [t \in Tasks |-> task'[t]]
    BY Zenon DEF Crash
  <2> QED BY <1>1, <1>2, <1>3, <1>8, <1>9, <2>1, Zenon DEF CertTypeOK, Counts
<1>11. ASSUME NEW h \in Hosts \ faulty' PROVE FilesInv(h)'
  <2>1. \A t \in Tasks : ~(task[t].host = h /\ task[t].pc = "key")
    BY <1>11, Zenon DEF Crash
  <2>2. h \notin faulty
    BY <1>11, Zenon DEF Crash
  <2>3. disk.crt[h] = disk.key[h] /\ disk.crt[h] # Torn
    BY <2>1, <2>2, Zenon DEF CertInv, FilesInv
  <2> QED BY <1>2, <1>4, <1>5, <2>3, Zenon DEF FilesInv
<1> QED BY <1>2, <1>6, <1>7, <1>10, <1>11, Zenon DEF CertInv

\* update_routes touches the table only.
LEMMA UpdateKeeps ==
  ASSUME CertInv, UpdateRoutes
  PROVE  CertInv'
<1>1. /\ UNCHANGED <<up, disk, cache, challenges, task, due, aborted, faulty>>
      /\ table' \in [hosts : SUBSET Hosts, changed : BOOLEAN]
  BY DEF UpdateRoutes
<1>2. count' \in Counts /\ count'.orders = count.orders
  BY OthersCounted, Zenon DEF CertInv, CertTypeOK, UpdateRoutes, Counts
<1>3. CertTypeOK'
  BY <1>1, <1>2, SMTT(30) DEF CertInv, CertTypeOK, TaskTypeOK, Busy, Counts
<1>4. TokenInv'
  BY <1>1 DEF CertInv, TokenInv, LeftoverIsAborted
<1>5. PairInv'
  BY <1>1, <1>2, SMTT(30) DEF CertInv, PairInv, Made
<1>6. \A h \in Hosts \ faulty' : FilesInv(h)'
  BY <1>1 DEF CertInv, FilesInv, RenewalOn, WatcherOn, Saving, Busy
<1> QED BY <1>1, <1>3, <1>4, <1>5, <1>6, Zenon DEF CertInv

\* A certificate that comes due while no task is busy is served from its files.
LEMMA AgeKeeps ==
  ASSUME CertInv, Age
  PROVE  CertInv'
<1>1. CertTypeOK /\ PairInv /\ TokenInv /\ \A t \in Tasks : task[t].pc = "sleep"
  BY Zenon DEF CertInv, Age
<1>2. UNCHANGED <<up, disk, cache, challenges, table, task, aborted, faulty, count>>
  BY Zenon DEF Age
<1>3. PICK p \in Pairs : /\ p[1] = "acme" /\ due' = due \cup {p}
                         /\ \E h \in Hosts : disk.crt[h] = p \/ cache[h] = <<p, p>>
  BY Zenon DEF Age
<1>4. Made(p)
  <2>1. <<p, p>> \in Pairs \X Pairs
    BY Zenon
  <2>2. <<p, p>> # None /\ <<p, p>>[1] = p
    BY <2>1, AbsentAssumption, Zenon
  <2> QED BY <1>1, <1>3, <2>2, Zenon DEF PairInv
<1>5. /\ \A h : ~WatcherOn(h) /\ ~Saving(h)
      /\ \A t \in Tasks : task[t].pc \notin TokenPCs \cup PairPCs \cup {"loadkey"}
  BY <1>1, RestingTasks, Zenon
<1>6. CertTypeOK'
  BY <1>1, <1>2, <1>3, Zenon DEF CertTypeOK, TaskTypeOK, Busy
<1>7. TokenInv'
  BY <1>1, <1>2, Zenon DEF TokenInv, LeftoverIsAborted
<1>8. PairInv'
  BY <1>1, <1>2, <1>3, <1>4, <1>5, SMTT(30) DEF PairInv, Made
<1>9. ASSUME NEW h \in Hosts \ faulty' PROVE FilesInv(h)'
  <2>1. FilesInv(h)
    BY <1>2, <1>9, Zenon DEF CertInv
  <2>2. p # None
    BY AbsentAssumption, SMTT(30)
  <2>3. up # "down" /\ disk.crt[h] \in due' => cache[h] # None
    BY <1>3, <1>5, <2>1, <2>2, Zenon DEF FilesInv
  <2>4. (RenewalOn(h)' <=> RenewalOn(h)) /\ ~WatcherOn(h)' /\ ~Saving(h)'
    BY <1>2, <1>5, Zenon DEF RenewalOn, WatcherOn, Saving, Busy
  <2> QED BY <1>2, <1>5, <2>1, <2>3, <2>4, Zenon DEF FilesInv
<1> QED BY <1>1, <1>2, <1>6, <1>7, <1>8, <1>9, Zenon DEF CertInv

-----------------------------------------------------------------------------
(* acquire_certificate. *)

\* The steps of an order, apart from the challenge store: t stays on its
\* hostname, without one, or goes on.
LEMMA AcquireStep ==
  ASSUME CertInv, NEW t \in Tasks, NEW pc, NEW hand, Turn(t, Moved(t, pc, hand)),
         UNCHANGED <<up, disk, cache, table, due, faulty>>,
         count' \in Counts, count'.orders >= count.orders,
         challenges' \subseteq Tokens, aborted' \subseteq Tokens, TokenInv', PairInv',
         task[t].pc \in TokenPCs \cup {"order"},
         \/ pc \in TokenPCs /\ hand \in 1 .. count'.orders
         \/ pc = "crt" /\ hand \in Pairs
         \/ pc = (IF t = "watcher" THEN "selfsign" ELSE "next")
  PROVE  CertInv'
<1> DEFINE v == Moved(t, pc, hand)
<1>1. CertTypeOK /\ TaskTypeOK(task[t]) /\ Busy(task[t]) /\ task[t].pc \notin {"key", "insert"}
  BY Zenon DEF CertInv, CertTypeOK, Busy, TokenPCs
<1>2. v.pc = pc /\ v.host = task[t].host /\ v.todo = task[t].todo /\ v.hand = hand
  BY Zenon DEF Moved
<1>3. v.host \in Hosts /\ v.todo \subseteq Hosts
  BY <1>1, <1>2, Zenon DEF TaskTypeOK
<1>4. v.pc \notin {"key", "insert", "loadkey"} /\ (Busy(v) \/ v.pc \in {"sleep", "list", "next"})
      /\ (v.pc \in TokenPCs => v.hand \in 1 .. count'.orders)
      /\ (v.pc \in PairPCs => v.hand \in Pairs)
  BY <1>2, Zenon DEF Busy, TokenPCs, PairPCs
<1> HIDE DEF v
<1>5. task' = [u \in Tasks |-> task'[u]] /\ \A u \in Tasks : TaskTypeOK(task[u])'
  BY <1>1, <1>3, <1>4, TurnTypes, Zenon DEF v
<1>6. CertTypeOK'
  BY <1>1, <1>5, Zenon DEF CertTypeOK, Counts
<1>7. up # "down"
  BY BusyIsUp, Zenon DEF TokenPCs
<1>8. \A h \in Hosts : t = "renewal" /\ (h \in v.todo \/ (Busy(v) /\ v.host = h)) => RenewalOn(h)
  BY <1>1, <1>2, Zenon DEF RenewalOn
<1> QED BY <1>1, <1>2, <1>4, <1>6, <1>7, <1>8, QuietStep, Zenon DEF v

\* The hands of the orders under way.
LEMMA OrderHands ==
  ASSUME CertTypeOK
  PROVE  /\ count.orders \in Nat
         /\ \A u \in Tasks : task[u].pc \in TokenPCs =>
               task[u].hand \in Nat /\ task[u].hand <= count.orders /\ task[u].hand \in Tokens
BY DEF CertTypeOK, TaskTypeOK, Tokens

\* An order gets a number no order under way has.
LEMMA OrderEnters ==
  ASSUME CertTypeOK, TokenInv, NEW t \in Tasks, NEW v, Turn(t, v),
         task[t].pc \notin TokenPCs, v.hand = count.orders + 1, v.pc \in TokenPCs,
         challenges' = challenges \cup {v.hand}, UNCHANGED aborted
  PROVE  TokenInv'
<1>1. \A u \in Tasks : task[u].pc \in TokenPCs => task[u].hand # v.hand /\ u # t
  BY OrderHands
<1>2. \A u \in Tasks : u # t => task'[u] = task[u]
  BY Zenon DEF Turn
<1>3. task'[t] = v
  BY Zenon DEF Turn
<1>4. ASSUME NEW c \in challenges'
      PROVE  c \in aborted' \/ \E u \in Tasks : task'[u].pc \in TokenPCs /\ task'[u].hand = c
  <2>1. CASE c = v.hand
    BY <1>3, <2>1, Zenon
  <2>2. CASE c \in challenges
    <3>1. c \in aborted \/ \E u \in Tasks : task[u].pc \in TokenPCs /\ task[u].hand = c
      BY <2>2, Zenon DEF TokenInv, LeftoverIsAborted, TokenPCs
    <3> QED BY <1>1, <1>2, <3>1, Zenon
  <2> QED BY <2>1, <2>2, Zenon
<1>5. LeftoverIsAborted'
  BY <1>4, Zenon DEF LeftoverIsAborted, TokenPCs
<1>6. \A u \in Tasks : task'[u].pc \in TokenPCs => task'[u].hand \in challenges'
  BY <1>2, <1>3, Zenon DEF TokenInv
<1>7. \A u, w \in Tasks :
         u # w /\ task'[u].pc \in TokenPCs /\ task'[w].pc \in TokenPCs => task'[u].hand # task'[w].hand
  BY <1>1, <1>2, <1>3, ZenonT(30) DEF TokenInv
<1> QED BY <1>5, <1>6, <1>7, Zenon DEF TokenInv

\* An order that goes on keeps its token.
LEMMA OrderStays ==
  ASSUME TokenInv, NEW t \in Tasks, NEW v, Turn(t, v), UNCHANGED <<challenges, aborted>>,
         task[t].pc \in TokenPCs, v.pc \in TokenPCs, v.hand = task[t].hand
  PROVE  TokenInv'
<1>1. \A u \in Tasks : /\ task'[u].pc \in TokenPCs <=> task[u].pc \in TokenPCs
                       /\ task[u].pc \in TokenPCs => task'[u].hand = task[u].hand
  BY Zenon DEF Turn
<1>2. ASSUME NEW c \in challenges'
      PROVE  c \in aborted' \/ \E u \in Tasks : task'[u].pc \in TokenPCs /\ task'[u].hand = c
  <2>1. c \in aborted \/ \E u \in Tasks : task[u].pc \in TokenPCs /\ task[u].hand = c
    BY <1>2, Zenon DEF TokenInv, LeftoverIsAborted, TokenPCs
  <2> QED BY <1>1, <2>1, Zenon
<1>3. LeftoverIsAborted'
  BY <1>2, Zenon DEF LeftoverIsAborted, TokenPCs
<1> QED BY <1>1, <1>3, Zenon DEF TokenInv

\* An order that ends takes its token out of the store, or leaves it to the
\* aborted ones; the other order's token is another one.
LEMMA OrderLeaves ==
  ASSUME TokenInv, NEW t \in Tasks, NEW v, Turn(t, v),
         task[t].pc \in TokenPCs, v.pc \notin TokenPCs,
         \/ challenges' = challenges \ {task[t].hand} /\ UNCHANGED aborted
         \/ UNCHANGED challenges /\ aborted' = aborted \cup {task[t].hand}
  PROVE  TokenInv'
<1>1. \A u \in Tasks : task'[u].pc \in TokenPCs =>
         u # t /\ task'[u] = task[u] /\ task[u].hand # task[t].hand
  BY Zenon DEF Turn, TokenInv
<1>2. ASSUME NEW c \in challenges'
      PROVE  c \in aborted' \/ \E u \in Tasks : task'[u].pc \in TokenPCs /\ task'[u].hand = c
  <2>1. c \in aborted \/ \E u \in Tasks : task[u].pc \in TokenPCs /\ task[u].hand = c
    BY <1>2, Zenon DEF TokenInv, LeftoverIsAborted, TokenPCs
  <2>2. \A u \in Tasks : u # t => task'[u] = task[u]
    BY Zenon DEF Turn
  <2> QED BY <1>2, <2>1, <2>2, Zenon
<1>3. LeftoverIsAborted'
  BY <1>2, Zenon DEF LeftoverIsAborted, TokenPCs
<1> QED BY <1>1, <1>3, Zenon DEF TokenInv

\* new_order and the authorization.
LEMMA OrderKeeps ==
  ASSUME CertInv, NEW t \in Tasks, Order(t)
  PROVE  CertInv'
<1>1. CertTypeOK /\ TokenInv /\ PairInv /\ count \in Counts /\ task[t].pc = "order"
      /\ count.orders \in Nat
  BY DEF CertInv, CertTypeOK, Counts, Order
<1>2. CASE AcquireFails(t) /\ UNCHANGED <<challenges, count>>
  <2> DEFINE pc == IF t = "watcher" THEN "selfsign" ELSE "next"
  <2>1. Turn(t, Moved(t, pc, None))
    BY <1>1, <1>2, SetTurns, Zenon DEF AcquireFails
  <2>2. Moved(t, pc, None).pc = pc /\ pc \notin TokenPCs \cup PairPCs
    BY Zenon DEF Moved, TokenPCs, PairPCs
  <2>3. TokenInv' /\ PairInv'
    BY <1>1, <1>2, <2>1, <2>2, TokenFrame, PairFrame, Zenon DEF Order, TokenPCs
  <2> HIDE DEF pc
  <2>4. pc = IF t = "watcher" THEN "selfsign" ELSE "next"
    BY Zenon DEF pc
  <2> QED BY <1>1, <1>2, <2>1, <2>3, <2>4, AcquireStep DEF Order, CertTypeOK
<1>3. CASE /\ Below("orders", MaxOrders)
           /\ challenges' = challenges \cup {count'.orders}
           /\ Set(t, "ready", count'.orders)
  <2> DEFINE n == count'.orders
             v == Moved(t, "ready", n)
  <2>1. count' \in Counts /\ n = count.orders + 1 /\ n \in Tokens
    BY <1>1, <1>3, OrderCounted, Zenon
  <2>2. Turn(t, v)
    BY <1>1, <1>3, SetTurns, Zenon
  <2>3. v.pc = "ready" /\ v.hand = n /\ "ready" \in TokenPCs /\ "ready" \notin PairPCs
    BY Zenon DEF Moved, TokenPCs, PairPCs
  <2> HIDE DEF v
  <2>4. TokenInv'
    BY <1>1, <1>3, <2>1, <2>2, <2>3, OrderEnters, Zenon DEF Order, TokenPCs
  <2>5. PairInv'
    <3>1. \A p \in due : p # <<"acme", n>>
      BY <1>1, <2>1 DEF PairInv, Made
    <3>2. UNCHANGED <<due, disk, cache>>
      BY Zenon DEF Order
    <3>3. \A p \in Pairs : Made(p) => Made(p)'
      BY <1>1, <2>1 DEF Made, Pairs, Tokens
    <3>4. /\ \A p \in due' : p[1] = "acme" /\ Made(p)'
          /\ \A h \in Hosts : /\ disk'.crt[h] \in Pairs => Made(disk.crt[h])'
                              /\ cache'[h] # None => Made(cache[h][1])'
      BY <1>1, <3>2, <3>3, Zenon DEF PairInv, CertTypeOK, Made
    <3>5. \A u \in Tasks :
             /\ task'[u].pc \in TokenPCs => <<"acme", task'[u].hand>> \notin due'
             /\ task'[u].pc \in PairPCs => task'[u].hand \notin due' /\ Made(task[u].hand)'
             /\ task'[u].pc = "loadkey" /\ task'[u].hand \in Pairs => Made(task[u].hand)'
      <4>1. task'[t] = v /\ \A u \in Tasks \ {t} : task'[u] = task[u]
        BY <2>2, Zenon DEF Turn
      <4>2. \A u \in Tasks : task[u].pc \in PairPCs => task[u].hand \in Pairs
        BY <1>1, Zenon DEF CertTypeOK, TaskTypeOK
      <4> QED BY <1>1, <2>3, <3>1, <3>2, <3>3, <4>1, <4>2, Zenon DEF PairInv, Made
    <3> QED BY <3>4, <3>5, Zenon DEF PairInv, Made
  <2>6. challenges' \subseteq Tokens /\ UNCHANGED aborted /\ aborted \subseteq Tokens
    BY <1>1, <1>3, <2>1, Zenon DEF CertTypeOK, Order
  <2>7. n \in 1 .. n /\ n >= count.orders
    BY <1>1, <2>1
  <2> QED BY <1>1, <2>1, <2>2, <2>3, <2>4, <2>5, <2>6, <2>7, AcquireStep, Zenon DEF Order, v
<1> QED BY <1>2, <1>3, Zenon DEF Order

\* set_ready, poll_ready, finalize: the order goes on, ends, or is cut off.
LEMMA OrderStepKeeps ==
  ASSUME CertInv, NEW t \in Tasks, SetReady(t) \/ Poll(t) \/ Finalize(t)
  PROVE  CertInv'
<1>1. /\ CertTypeOK /\ TokenInv /\ PairInv /\ count \in Counts /\ count.orders \in Nat
      /\ challenges \subseteq Tokens /\ aborted \subseteq Tokens
  BY DEF CertInv, CertTypeOK, Counts
<1>2. task[t].pc \in TokenPCs /\ UNCHANGED <<up, disk, cache, table, due, faulty, count>>
  BY Zenon DEF SetReady, Poll, Finalize, TokenPCs
<1>3. task[t].hand \in 1 .. count.orders /\ task[t].hand \in Tokens
      /\ <<"acme", task[t].hand>> \notin due
  BY <1>1, <1>2 DEF CertTypeOK, TaskTypeOK, PairInv, Tokens, Counts
<1>4. ASSUME NEW pc \in TokenPCs, Set(t, pc, task[t].hand), UNCHANGED <<challenges, aborted>>
      PROVE  CertInv'
  <2> DEFINE v == Moved(t, pc, task[t].hand)
  <2>1. Turn(t, v) /\ v.pc = pc /\ v.hand = task[t].hand
        /\ pc \notin PairPCs \cup {"loadkey"}
    BY <1>1, <1>4, SetTurns, Zenon DEF Moved, TokenPCs, PairPCs
  <2> HIDE DEF v
  <2>2. TokenInv'
    BY <1>1, <1>2, <1>4, <2>1, OrderStays, Zenon
  <2>3. PairInv'
    BY <1>1, <1>2, <1>3, <2>1, PairFrame, Zenon
  <2> QED BY <1>1, <1>2, <1>3, <1>4, <2>1, <2>2, <2>3, AcquireStep DEF v
<1>5. ASSUME NEW pc, NEW hand, Set(t, pc, hand), pc \notin TokenPCs,
             \/ pc = "crt" /\ hand = <<"acme", task[t].hand>>
             \/ pc = (IF t = "watcher" THEN "selfsign" ELSE "next"),
             \/ CleanUp(t) /\ UNCHANGED aborted
             \/ UNCHANGED challenges /\ aborted' = aborted \cup {task[t].hand}
      PROVE  CertInv'
  <2> DEFINE v == Moved(t, pc, hand)
  <2>1. Turn(t, v) /\ v.pc = pc /\ v.hand = hand
    BY <1>1, <1>5, SetTurns, Zenon DEF Moved
  <2> HIDE DEF v
  <2>2. TokenInv'
    BY <1>1, <1>2, <1>5, <2>1, OrderLeaves, Zenon DEF CleanUp
  <2>3. pc = "crt" => hand \in Pairs /\ hand \notin due /\ Made(hand)
    <3>1. hand = <<"acme", task[t].hand>> => hand \in Pairs /\ hand \notin due /\ Made(hand)
      BY <1>3 DEF Pairs, Made, Tokens
    <3> QED BY <1>5, <3>1, Zenon
  <2>4. PairInv'
    <3>1. pc \in PairPCs => pc = "crt"
      BY <1>5, Zenon DEF PairPCs
    <3> QED BY <1>1, <1>2, <1>5, <2>1, <2>3, <3>1, PairFrame, Zenon
  <2>5. challenges' \subseteq Tokens /\ aborted' \subseteq Tokens
    BY <1>1, <1>3, <1>5, Zenon DEF CleanUp
  <2> QED BY <1>1, <1>2, <1>5, <2>1, <2>2, <2>3, <2>4, <2>5, AcquireStep DEF v
<1>6. ASSUME AcquireFails(t),
             \/ CleanUp(t) /\ UNCHANGED aborted
             \/ UNCHANGED challenges /\ aborted' = aborted \cup {task[t].hand}
      PROVE  CertInv'
  <2> DEFINE pc == IF t = "watcher" THEN "selfsign" ELSE "next"
  <2>1. Set(t, pc, None) /\ pc \notin TokenPCs
    BY <1>6, Zenon DEF AcquireFails, TokenPCs
  <2> QED BY <1>5, <1>6, <2>1, Zenon
<1>7. CASE SetReady(t)
  <2>1. CASE Set(t, "poll", task[t].hand) /\ UNCHANGED challenges
    BY <1>4, <1>7, <2>1, Zenon DEF SetReady, TokenPCs
  <2>2. CASE AcquireFails(t) /\ CleanUp(t)
    BY <1>6, <1>7, <2>2, Zenon DEF SetReady
  <2> QED BY <1>7, <2>1, <2>2, Zenon DEF SetReady
<1>8. CASE Poll(t)
  <2>1. CASE Set(t, "finalize", task[t].hand) /\ UNCHANGED <<challenges, aborted>>
    BY <1>4, <2>1, Zenon DEF TokenPCs
  <2>2. CASE (AcquireFails(t) /\ CleanUp(t) /\ UNCHANGED aborted) \/ Aborts(t)
    BY <1>6, <2>2, Zenon DEF Aborts
  <2> QED BY <1>8, <2>1, <2>2, Zenon DEF Poll
<1>9. CASE Finalize(t)
  <2>1. CASE Set(t, "crt", <<"acme", task[t].hand>>) /\ CleanUp(t) /\ UNCHANGED aborted
    <3>1. "crt" \notin TokenPCs
      BY Zenon DEF TokenPCs
    <3> QED BY <1>5, <2>1, <3>1, Zenon
  <2>2. CASE (AcquireFails(t) /\ CleanUp(t) /\ UNCHANGED aborted) \/ Aborts(t)
    BY <1>6, <2>2, Zenon DEF Aborts
  <2> QED BY <1>9, <2>1, <2>2, Zenon DEF Finalize
<1> QED BY <1>7, <1>8, <1>9, Zenon

-----------------------------------------------------------------------------
(* The two loops. *)

\* A step of one task that touches neither files, cache nor orders.
LEMMA LoopStep ==
  ASSUME CertInv, NEW t \in Tasks, NEW v, Turn(t, v),
         UNCHANGED <<up, disk, cache, challenges, due, aborted, faulty, count>>,
         table' \in [hosts : SUBSET Hosts, changed : BOOLEAN],
         up # "down",
         task[t].pc \notin TokenPCs \cup PairPCs,
         v.pc \notin TokenPCs \cup {"key", "insert"},
         Busy(v) \/ v.pc \in {"sleep", "list", "next"},
         v.todo \subseteq Hosts, Busy(v) => v.host \in Hosts,
         v.pc = "crt" => v.hand \in Pairs /\ v.hand \notin due /\ Made(v.hand),
         v.pc = "loadkey" => v.hand \in Pairs \cup {Torn} /\ disk.crt[v.host] = v.hand,
         t = "watcher" /\ Busy(v) =>
            (Busy(task[t]) /\ v.host = task[t].host) \/ cache[v.host] = None,
         \A h \in Hosts \ faulty :
            t = "renewal" /\ (h \in v.todo \/ (Busy(v) /\ v.host = h)) =>
               RenewalOn(h) \/ disk.crt[h] \in due
  PROVE  CertInv'
<1>1. CertTypeOK /\ TokenInv /\ PairInv /\ count \in Counts /\ count.orders \in Nat
  BY DEF CertInv, CertTypeOK, Counts
<1>2. v.pc \in PairPCs => v.pc = "crt"
  BY Zenon DEF PairPCs
<1>3. TokenInv' /\ PairInv'
  <2>1. v.pc = "loadkey" => v.host \in Hosts
    BY Zenon DEF Busy
  <2>2. v.pc = "loadkey" /\ v.hand \in Pairs => Made(v.hand)
    BY <1>1, <2>1, Zenon DEF PairInv
  <2> QED BY <1>1, <1>2, <2>2, TokenFrame, PairFrame, Zenon
<1>4. task' = [u \in Tasks |-> task'[u]] /\ \A u \in Tasks : TaskTypeOK(task[u])'
  BY <1>1, <1>2, TurnTypes
<1>5. CertTypeOK'
  BY <1>1, <1>4, Zenon DEF CertTypeOK
<1>6. task[t].pc \notin {"key", "insert"} /\ v.pc \notin {"key", "insert"}
  BY Zenon DEF PairPCs
<1> QED BY <1>3, <1>5, <1>6, QuietStep, Zenon

\* The watcher wakes up and walks through the hostnames that are not served.
LEMMA WatcherWalkKeeps ==
  ASSUME CertInv,
         \/ WatcherWakes \/ WatcherPicks \/ WatcherLoadsCrt \/ SelfSign
         \/ WatcherLoadsKey /\ ~Loads(task["watcher"].hand, disk.key[task["watcher"].host])
  PROVE  CertInv'
<1> DEFINE w == task["watcher"]
<1>1. /\ CertTypeOK /\ TaskTypeOK(w) /\ "watcher" \in Tasks /\ "watcher" # "renewal"
      /\ disk.crt \in [Hosts -> Pairs \cup {None, Torn}]
      /\ disk.key \in [Hosts -> Pairs \cup {None, Torn}]
      /\ table \in [hosts : SUBSET Hosts, changed : BOOLEAN] /\ count \in Counts
  BY Zenon DEF CertInv, CertTypeOK, Tasks, Counts
<1> HIDE DEF w
<1>2. CASE WatcherWakes
  <2> DEFINE v == [pc |-> "next", host |-> None, todo |-> table.hosts, hand |-> None]
  <2>1. Turn("watcher", v)
    BY <1>1, <1>2, TurnTo, Zenon DEF WatcherWakes
  <2>2. v.pc = "next" /\ v.todo \subseteq Hosts /\ ~Busy(v)
    BY <1>1, Zenon DEF Busy, TokenPCs, PairPCs
  <2>3. table' \in [hosts : SUBSET Hosts, changed : BOOLEAN]
    BY <1>1, <1>2, Zenon DEF WatcherWakes
  <2> HIDE DEF v
  <2> QED BY <1>1, <1>2, <2>1, <2>2, <2>3, LoopStep, Zenon DEF WatcherWakes, TokenPCs, PairPCs
<1>3. CASE WatcherPicks
  <2>1. w.pc = "next" /\ UNCHANGED <<up, disk, cache, challenges, table, due, aborted, faulty, count>>
    BY <1>3, Zenon DEF WatcherPicks, w
  <2>2. up # "down"
    BY <1>1, <2>1, BusyIsUp, Zenon DEF w
  <2>3. CASE task' = [task EXCEPT !["watcher"] = Asleep]
    <3>1. Turn("watcher", Asleep)
      BY <1>1, <2>3, TurnTo, Zenon
    <3>2. Asleep.pc = "sleep" /\ Asleep.todo = {} /\ ~Busy(Asleep)
      BY Zenon DEF Asleep, Busy, TokenPCs, PairPCs
    <3> QED BY <1>1, <2>1, <2>2, <3>1, <3>2, LoopStep, Zenon DEF w, TokenPCs, PairPCs
  <2>4. ASSUME NEW h \in w.todo, cache[h] = None,
               task' = [task EXCEPT !["watcher"] =
                          [pc |-> "load", host |-> h, todo |-> w.todo \ {h}, hand |-> None]]
        PROVE  CertInv'
    <3> DEFINE v == [pc |-> "load", host |-> h, todo |-> w.todo \ {h}, hand |-> None]
    <3>1. Turn("watcher", v)
      BY <1>1, <2>4, TurnTo, Zenon
    <3>2. v.pc = "load" /\ v.todo \subseteq Hosts /\ v.host = h /\ h \in Hosts
      BY <1>1, Zenon DEF TaskTypeOK
    <3>3. Busy(v)
      BY <3>2, Zenon DEF Busy
    <3> HIDE DEF v
    <3> QED BY <1>1, <2>1, <2>2, <2>4, <3>1, <3>2, <3>3, LoopStep, Zenon DEF w, TokenPCs, PairPCs
  <2> QED BY <1>3, <2>3, <2>4, Zenon DEF WatcherPicks, w
<1>4. ASSUME NEW pc, NEW hand, Set("watcher", pc, hand), Busy(w), w.pc \notin TokenPCs \cup PairPCs,
             UNCHANGED <<up, disk, cache, challenges, table, due, aborted, faulty, count>>,
             pc \in {"order", "selfsign", "crt", "loadkey"},
             pc = "crt" => hand \in Pairs /\ hand \notin due /\ Made(hand),
             pc = "loadkey" => hand \in Pairs \cup {Torn} /\ disk.crt[w.host] = hand
      PROVE  CertInv'
  <2> DEFINE v == Moved("watcher", pc, hand)
  <2>1. Turn("watcher", v)
    BY <1>1, <1>4, SetTurns, Zenon
  <2>2. v.pc = pc /\ v.hand = hand /\ v.host = w.host /\ v.todo = w.todo
    BY Zenon DEF Moved, w
  <2>3. Busy(v) /\ v.pc \notin TokenPCs \cup {"key", "insert"}
    BY <1>4, <2>2, Zenon DEF Busy, TokenPCs, PairPCs
  <2> HIDE DEF v
  <2>4. w.pc # "sleep"
    BY <1>4, Zenon DEF Busy, TokenPCs, PairPCs
  <2>5. up # "down"
    BY <1>1, <2>4, BusyIsUp, Zenon DEF w
  <2>6. w.host \in Hosts /\ w.todo \subseteq Hosts
    BY <1>1, <1>4, Zenon DEF TaskTypeOK
  <2> QED BY <1>1, <1>4, <2>1, <2>2, <2>3, <2>5, <2>6, LoopStep, SMTT(30) DEF w
<1>5. CASE WatcherLoadsCrt
  <2>1. w.pc = "load" /\ UNCHANGED <<up, disk, cache, challenges, table, due, aborted, faulty, count>>
    BY <1>5, Zenon DEF WatcherLoadsCrt, w
  <2>2. Busy(w) /\ w.pc \notin TokenPCs \cup PairPCs
    BY <2>1, Zenon DEF Busy, TokenPCs, PairPCs
  <2>3. CASE NoPair
    BY <1>4, <2>1, <2>2, <2>3, Zenon DEF NoPair
  <2>4. CASE /\ None \notin {disk.crt[w.host], disk.key[w.host]}
             /\ Set("watcher", "loadkey", disk.crt[w.host])
    <3>1. disk.crt[w.host] \in Pairs \cup {Torn}
      BY <1>1, <2>2, <2>4, Zenon DEF TaskTypeOK
    <3> QED BY <1>4, <2>1, <2>2, <2>4, <3>1, Zenon
  <2> QED BY <1>5, <2>3, <2>4, Zenon DEF WatcherLoadsCrt, w
<1>6. CASE SelfSign
  <2>1. w.pc = "selfsign" /\ UNCHANGED <<up, disk, cache, challenges, table, due, aborted, faulty, count>>
        /\ Set("watcher", "crt", <<"self", count.crashes>>)
    BY <1>6, Zenon DEF SelfSign, w
  <2>2. Busy(w) /\ w.pc \notin TokenPCs \cup PairPCs
    BY <2>1, Zenon DEF Busy, TokenPCs, PairPCs
  <2> DEFINE p == <<"self", count.crashes>>
  <2>3. p \in Pairs /\ p[1] = "self"
    BY <1>1, Zenon DEF Pairs, Counts
  <2>4. p \notin due /\ Made(p)
    BY <2>3, Zenon DEF CertInv, PairInv, Made
  <2> HIDE DEF p
  <2> QED BY <1>4, <2>1, <2>2, <2>3, <2>4, Zenon DEF p
<1>7. CASE WatcherLoadsKey /\ ~Loads(w.hand, disk.key[w.host])
  <2>1. w.pc = "loadkey" /\ NoPair
        /\ UNCHANGED <<up, disk, cache, challenges, table, due, aborted, faulty, count>>
    BY <1>7, Zenon DEF WatcherLoadsKey, w
  <2>2. Busy(w) /\ w.pc \notin TokenPCs \cup PairPCs
    BY <2>1, Zenon DEF Busy, TokenPCs, PairPCs
  <2> QED BY <1>4, <2>1, <2>2, Zenon DEF NoPair
<1> QED BY <1>2, <1>3, <1>5, <1>6, <1>7, Zenon DEF w

\* The renewal lists the files that are due and takes one after the other.
LEMMA RenewalWalkKeeps ==
  ASSUME CertInv, RenewalLists \/ RenewalPicks \/ RenewalTick
  PROVE  CertInv'
<1> DEFINE r == task["renewal"]
<1>1. /\ CertTypeOK /\ TaskTypeOK(r) /\ "renewal" \in Tasks /\ "watcher" # "renewal"
      /\ table \in [hosts : SUBSET Hosts, changed : BOOLEAN]
  BY Zenon DEF CertInv, CertTypeOK, Tasks
<1> HIDE DEF r
<1>2. /\ UNCHANGED <<up, disk, cache, challenges, table, due, aborted, faulty, count>>
      /\ r.pc \in {"list", "next", "sleep"}
  BY Zenon DEF RenewalLists, RenewalPicks, RenewalTick, r
<1>3. up # "down"
  <2>1. CASE r.pc # "sleep"
    BY <1>1, <2>1, BusyIsUp, Zenon DEF r
  <2>2. CASE r.pc = "sleep"
    BY <2>2, Zenon DEF RenewalLists, RenewalPicks, RenewalTick, r
  <2> QED BY <2>1, <2>2, Zenon
<1>4. ASSUME NEW v, Turn("renewal", v), v.todo \subseteq Hosts,
             \/ ~Busy(v) /\ v.pc \in {"sleep", "list", "next"}
             \/ v.pc = "order" /\ v.host \in r.todo,
             \A h \in v.todo : h \in r.todo \/ h \in faulty \/ disk.crt[h] \in due
      PROVE  CertInv'
  <2>1. v.pc = "order" => v.host \in Hosts /\ Busy(v)
    BY <1>1, <1>4, Zenon DEF TaskTypeOK, Busy
  <2>2. v.pc \notin TokenPCs \cup {"key", "insert", "crt", "loadkey"} /\ r.pc \notin TokenPCs \cup PairPCs
    BY <1>2, <1>4, Zenon DEF TokenPCs, PairPCs
  <2>3. ASSUME NEW h \in Hosts \ faulty, h \in v.todo \/ (Busy(v) /\ v.host = h)
        PROVE  RenewalOn(h) \/ disk.crt[h] \in due
    BY <1>4, <2>3, Zenon DEF RenewalOn, r
  <2> QED BY <1>1, <1>2, <1>3, <1>4, <2>1, <2>2, <2>3, LoopStep, Zenon DEF r
<1>5. CASE RenewalLists
  <2> DEFINE v == [pc |-> "next", host |-> None, hand |-> None,
                   todo |-> {h \in Hosts : disk.crt[h] \in due \cup {Torn}}]
  <2>1. Turn("renewal", v)
    BY <1>1, <1>5, TurnTo, Zenon DEF RenewalLists
  <2>2. v.pc = "next" /\ v.todo \subseteq Hosts /\ ~Busy(v)
    BY Zenon DEF Busy, TokenPCs, PairPCs
  <2>3. \A h \in v.todo : h \in faulty \/ disk.crt[h] \in due
    BY Zenon DEF CertInv, FilesInv
  <2> HIDE DEF v
  <2> QED BY <1>4, <2>1, <2>2, <2>3, Zenon
<1>6. CASE RenewalPicks
  <2>1. CASE task' = [task EXCEPT !["renewal"] = Asleep]
    <3>1. Turn("renewal", Asleep)
      BY <1>1, <2>1, TurnTo, Zenon
    <3>2. Asleep.pc = "sleep" /\ Asleep.todo = {} /\ ~Busy(Asleep)
      BY Zenon DEF Asleep, Busy, TokenPCs, PairPCs
    <3> QED BY <1>4, <3>1, <3>2, Zenon
  <2>2. ASSUME NEW h \in r.todo,
               task' = [task EXCEPT !["renewal"] =
                          [pc |-> "order", host |-> h, todo |-> r.todo \ {h}, hand |-> None]]
        PROVE  CertInv'
    <3> DEFINE v == [pc |-> "order", host |-> h, todo |-> r.todo \ {h}, hand |-> None]
    <3>1. Turn("renewal", v)
      BY <1>1, <2>2, TurnTo, Zenon
    <3>2. v.pc = "order" /\ v.todo \subseteq r.todo /\ v.host \in r.todo /\ r.todo \subseteq Hosts
      BY <1>1, Zenon DEF TaskTypeOK
    <3> HIDE DEF v
    <3> QED BY <1>4, <3>1, <3>2, Zenon
  <2> QED BY <1>6, <2>1, <2>2, Zenon DEF RenewalPicks, r
<1>7. CASE RenewalTick
  <2> DEFINE v == Moved("renewal", "list", None)
  <2>1. Turn("renewal", v)
    BY <1>1, <1>7, SetTurns, Zenon DEF RenewalTick
  <2>2. v.pc = "list" /\ v.todo = r.todo /\ ~Busy(v) /\ r.todo \subseteq Hosts
    BY <1>1, Zenon DEF Moved, r, Busy, TokenPCs, PairPCs, TaskTypeOK
  <2> HIDE DEF v
  <2> QED BY <1>4, <2>1, <2>2, Zenon
<1> QED BY <1>5, <1>6, <1>7, Zenon

-----------------------------------------------------------------------------
\* Nothing is stored, served or under way at first.
LEMMA CertInitInv == CertInit => CertInv
<1> SUFFICES ASSUME CertInit PROVE CertInv
  BY Zenon
<1>1. /\ up = "down" /\ challenges = {} /\ aborted = {} /\ due = {} /\ faulty = {}
      /\ \A h \in Hosts : cache[h] = None /\ disk.crt[h] = None /\ disk.key[h] = None
      /\ \A t \in Tasks : task[t] = Asleep
  BY Zenon DEF CertInit
<1>2. \A t \in Tasks : task[t].pc = "sleep" /\ task[t].todo = {}
  BY <1>1 DEF Asleep
<1>3. /\ \A h : ~WatcherOn(h) /\ ~Saving(h) /\ ~RenewalOn(h)
      /\ \A t \in Tasks : /\ task[t].pc \notin TokenPCs \cup PairPCs \cup {"loadkey"}
                          /\ ~Busy(task[t])
  BY <1>2, Zenon DEF WatcherOn, Saving, RenewalOn, Busy, TokenPCs, PairPCs, Tasks
<1>4. \A t \in Tasks : TaskTypeOK(task[t])
  BY <1>2, <1>3, Zenon DEF TaskTypeOK
<1>5. CertTypeOK
  <2>1. count \in [orders : 0 .. MaxOrders, faults : 0 .. MaxFaults,
                   crashes : 0 .. MaxCrashes, updates : 0 .. MaxUpdates]
    BY DEF CertInit
  <2>2. disk \in [crt : [Hosts -> Pairs \cup {None, Torn}], key : [Hosts -> Pairs \cup {None, Torn}],
                  creds : {None, Torn, "saved"}]
    BY Zenon DEF CertInit
  <2>3. cache \in [Hosts -> (Pairs \X Pairs) \cup {None}]
        /\ table \in [hosts : SUBSET Hosts, changed : BOOLEAN]
        /\ task = [t \in Tasks |-> task[t]]
    BY Zenon DEF CertInit
  <2> QED BY <1>1, <1>4, <2>1, <2>2, <2>3, Zenon DEF CertTypeOK
<1>6. TokenInv
  BY <1>1, <1>3, Zenon DEF TokenInv, LeftoverIsAborted
<1>7. PairInv
  <2>1. \A h \in Hosts : disk.crt[h] \notin Pairs
    BY <1>1, AbsentAssumption, SMTT(30)
  <2> QED BY <1>1, <1>3, <2>1, Zenon DEF PairInv
<1>8. \A h \in Hosts : FilesInv(h)
  BY <1>1, <1>2, <1>3, Zenon DEF FilesInv
<1> QED BY <1>1, <1>5, <1>6, <1>7, <1>8, Zenon DEF CertInv

\* Every step of the proxy, the authority and the disk keeps the invariant.
LEMMA CertNextKeeps ==
  ASSUME CertInv, [CertNext]_certVars
  PROVE  CertInv'
<1>1. CASE Watcher
  <2>1. "watcher" \in Tasks
    BY Zenon DEF Tasks
  <2> QED BY <1>1, <2>1, WatcherWalkKeeps, LoadKeeps, OrderKeeps, OrderStepKeeps, SaveCrtKeeps,
             SaveKeyKeeps, InsertKeeps, Zenon DEF Watcher, Acquire, Keep
<1>2. CASE Renewal
  <2>1. "renewal" \in Tasks
    BY Zenon DEF Tasks
  <2> QED BY <1>2, <2>1, RenewalWalkKeeps, OrderKeeps, OrderStepKeeps, SaveCrtKeeps,
             SaveKeyKeeps, InsertKeeps, Zenon DEF Renewal, Acquire, Keep
<1>3. CASE UNCHANGED certVars
  <2>1. UNCHANGED <<up, disk, cache, challenges, table, task, due, aborted, faulty, count>>
    BY <1>3, Zenon DEF certVars
  <2>2. CertTypeOK'
    BY <2>1, Zenon DEF CertInv, CertTypeOK, TaskTypeOK, Busy
  <2>3. TokenInv' /\ PairInv'
    BY <2>1, Zenon DEF CertInv, Busy, TokenInv, LeftoverIsAborted, PairInv, Made
  <2>4. ASSUME NEW h \in Hosts \ faulty PROVE FilesInv(h)'
    <3>1. FilesInv(h)
      BY Zenon DEF CertInv
    <3>2. (WatcherOn(h) <=> WatcherOn(h)') /\ (RenewalOn(h) <=> RenewalOn(h)') /\ (Saving(h) <=> Saving(h)')
      BY <2>1, Zenon DEF RenewalOn, WatcherOn, Saving, Busy
    <3> QED BY <2>1, <3>1, <3>2, Zenon DEF FilesInv
  <2> QED BY <2>1, <2>2, <2>3, <2>4, Zenon DEF CertInv
<1> QED BY <1>1, <1>2, <1>3, StartKeeps, CrashKeeps, UpdateKeeps, AgeKeeps, Zenon DEF CertNext

\* The inductive invariant of the certificates holds in every behaviour.
THEOREM CertInvHolds == CertSpec => []CertInv
<1>1. CertInv /\ [CertNext]_certVars => CertInv'
  BY CertNextKeeps, Zenon
<1> QED BY CertInitInv, <1>1, PTL DEF CertSpec

\* The challenge store holds the tokens of the orders under way, and of those a
\* failed call cut off, and no other (client.rs:97-143): the two tasks never
\* share a token, so the clean-up of one leaves the other's alone.
THEOREM ChallengesAlwaysTracked == CertSpec => []ChallengesTracked
<1>1. CertInv => ChallengesTracked
  BY Zenon DEF CertInv, TokenInv, TokenPCs, ChallengesTracked, ChallengeOffered
<1> QED BY CertInvHolds, <1>1, PTL

\* A hostname with no bad write is served with a certificate and the key made
\* with it, although load compares nothing and save writes two files
\* (file_store.rs:41-91).
THEOREM ServedIsPair == CertSpec => []CacheIsPairUnlessFaulty
<1>1. CertInv => CacheIsPairUnlessFaulty
  BY Zenon DEF CertInv, FilesInv, CacheIsPairUnlessFaulty
<1> QED BY CertInvHolds, <1>1, PTL

\* While both tasks rest, what is served and about to expire is what the renewal
\* will list, for every hostname with no bad write (renewal.rs:15-18, 35-49).
THEOREM DueAlwaysListed == CertSpec => []DueIsListedUnlessFaulty
<1>1. CertInv => DueIsListedUnlessFaulty
  <2> SUFFICES ASSUME CertInv, \A t \in Tasks : task[t].pc = "sleep",
                      NEW h \in Hosts \ faulty, cache[h] # None, cache[h][1] \in due
               PROVE  disk.crt[h] \in due
    BY Zenon DEF DueIsListedUnlessFaulty
  <2>1. ~Saving(h)
    BY Zenon DEF Saving
  <2> QED BY <2>1, Zenon DEF CertInv, FilesInv
<1> QED BY CertInvHolds, <1>1, PTL

=============================================================================
