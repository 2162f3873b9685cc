---------------------------- MODULE Certificates ----------------------------
(***************************************************************************)
(* How the proxy comes by its certificates (crates/proxy/src/lib.rs,       *)
(* acme/, certs/, tls/): ProxyServer::start loads the store into the       *)
(* cache, the certificate watcher provides for new hostnames of the route  *)
(* table, the renewal loop replaces what expires.  The two tasks share the *)
(* store, the cache and the challenge store; a certificate is saved as two *)
(* files, one write after the other.                                       *)
(*                                                                         *)
(* A certificate and the key made with it are the same pair; a file holds  *)
(* its half of a pair, None (no file) or Torn (its write was cut short, and*)
(* it does not parse).  A self-signed certificate is never due: rcgen's    *)
(* default validity ends in the year 4096.                                 *)
(***************************************************************************)
EXTENDS Naturals, FiniteSets

CONSTANTS
    Hosts,
    None, Torn,
    MaxOrders,      \* bound: orders the authority accepts
    MaxFaults,      \* bound: writes that fail
    MaxCrashes,     \* bound: restarts of the daemon
    MaxUpdates      \* bound: replacements of the route table

ASSUME CertAssumption ==
    /\ MaxOrders \in Nat /\ MaxFaults \in Nat /\ MaxCrashes \in Nat /\ MaxUpdates \in Nat
    /\ None # Torn

\* A token is the number of its order; one start makes one self-signed
\* certificate for a hostname, so the number of the start tells them apart.
Tokens == 1 .. MaxOrders
Pairs == ({"acme"} \X Tokens) \cup ({"self"} \X (0 .. MaxCrashes))
Tasks == {"watcher", "renewal"}

\* Neither mark is a pair, or what the cache holds.
ASSUME AbsentAssumption ==
    \A x \in {None, Torn} : x \notin Pairs /\ x \notin Pairs \X Pairs

VARIABLES
    up,             \* the proxy runs, with an AcmeClient ("acme") or without
                    \* ("plain"), or not at all ("down")
    disk,           \* the files: crt and key of a hostname, creds in acme.json
    cache,          \* CertCache: the certificate and key served, or None
    challenges,     \* tokens the HTTP server answers for
    table,          \* hostnames of the route table; has the watcher seen it
    task,           \* of a task: its step, its hostname, the hostnames still to
                    \* do, and the token, pair or half it has in hand
    due,            \* pairs that expire within 30 days
    aborted,        \* history: tokens of orders that failed after set_ready and
                    \* before the clean-up
    faulty,         \* history: hostnames with a write that failed or was cut off
                    \* by a crash
    count           \* orders, faults, crashes and updates so far

certVars == <<up, disk, cache, challenges, table, task, due, aborted, faulty, count>>

Asleep == [pc |-> "sleep", host |-> None, todo |-> {}, hand |-> None]

\* A task is busy with its hostname, has an order under way, or a pair in hand.
TokenPCs == {"ready", "poll", "finalize"}
PairPCs == {"crt", "key", "insert"}
Busy(w) == w.pc \in TokenPCs \cup PairPCs \cup {"load", "loadkey", "order", "selfsign"}

TaskTypeOK(w) ==
    /\ Busy(w) \/ w.pc \in {"sleep", "list", "next"}
    /\ w.todo \subseteq Hosts
    /\ Busy(w) => w.host \in Hosts
    /\ w.pc \in TokenPCs => w.hand \in 1 .. count.orders
    /\ w.pc \in PairPCs => w.hand \in Pairs
    /\ w.pc = "loadkey" => w.hand \in Pairs \cup {Torn}

CertTypeOK ==
    /\ up \in {"down", "plain", "acme"}
    /\ disk \in [crt : [Hosts -> Pairs \cup {None, Torn}], key : [Hosts -> Pairs \cup {None, Torn}],
                 creds : {None, Torn, "saved"}]
    /\ cache \in [Hosts -> (Pairs \X Pairs) \cup {None}]
    /\ challenges \subseteq Tokens /\ aborted \subseteq Tokens
    /\ table \in [hosts : SUBSET Hosts, changed : BOOLEAN]
    /\ task = [t \in Tasks |-> task[t]] /\ \A t \in Tasks : TaskTypeOK(task[t])
    /\ due \subseteq Pairs /\ faulty \subseteq Hosts
    /\ count \in [orders : 0 .. MaxOrders, faults : 0 .. MaxFaults,
                  crashes : 0 .. MaxCrashes, updates : 0 .. MaxUpdates]

Set(t, pc, hand) ==
    task' = [task EXCEPT ![t] = [pc |-> pc, host |-> @.host, todo |-> @.todo, hand |-> hand]]

Below(field, max) == count[field] < max /\ count' = [count EXCEPT ![field] = @ + 1]

CertInit ==
    /\ up = "down"
    /\ disk = [crt |-> [h \in Hosts |-> None], key |-> [h \in Hosts |-> None], creds |-> None]
    /\ cache = [h \in Hosts |-> None] /\ challenges = {}
    /\ table = [hosts |-> {}, changed |-> FALSE]
    /\ task = [t \in Tasks |-> Asleep]
    /\ due = {} /\ aborted = {} /\ faulty = {}
    /\ count = [orders |-> 0, faults |-> 0, crashes |-> 0, updates |-> 0]

-----------------------------------------------------------------------------
(* Start, stop and the world around. *)

\* FileCertStore::load finds two files that parse; nothing compares them.
Loads(c, k) == c \in Pairs /\ k \in Pairs

\* ProxyServer::start: what loads goes into the cache; the ACME account is
\* restored or registered, and without it there are no orders and no renewal.
Start ==
    /\ up = "down"
    /\ cache' = [h \in Hosts |-> IF Loads(disk.crt[h], disk.key[h])
                                 THEN <<disk.crt[h], disk.key[h]>> ELSE None]
    /\ up' \in {"plain"} \cup (IF disk.creds = Torn THEN {} ELSE {"acme"})
    /\ IF up' = "acme" /\ disk.creds = None
       THEN \/ disk' = [disk EXCEPT !.creds = "saved"] /\ UNCHANGED count
            \/ Below("faults", MaxFaults) /\ disk' = [disk EXCEPT !.creds = Torn]
       ELSE UNCHANGED <<disk, count>>
    /\ Set("renewal", IF up' = "acme" THEN "list" ELSE "sleep", None)
    /\ UNCHANGED <<challenges, table, due, aborted, faulty>>

\* The daemon stops or crashes: only the files stay.
Crash ==
    /\ up # "down" /\ Below("crashes", MaxCrashes)
    /\ up' = "down"
    /\ cache' = [h \in Hosts |-> None] /\ challenges' = {} /\ aborted' = {}
    /\ table' = [hosts |-> {}, changed |-> FALSE]
    /\ faulty' = faulty \cup {task[t].host : t \in {u \in Tasks : task[u].pc = "key"}}
    /\ task' = [t \in Tasks |-> Asleep]
    /\ UNCHANGED <<disk, due>>

\* update_routes swaps the table and wakes the watcher.
UpdateRoutes ==
    /\ up # "down" /\ Below("updates", MaxUpdates)
    /\ \E hs \in SUBSET Hosts : table' = [hosts |-> hs, changed |-> TRUE]
    /\ UNCHANGED <<up, disk, cache, challenges, task, due, aborted, faulty>>

\* A certificate of the authority comes within 30 days of its end.  That takes
\* weeks, and no task is busy for that long: each call times out.
Age ==
    /\ \A t \in Tasks : task[t].pc = "sleep"
    /\ \E p \in Pairs \ due :
          /\ p[1] = "acme" /\ \E h \in Hosts : disk.crt[h] = p \/ cache[h] = <<p, p>>
          /\ due' = due \cup {p}
    /\ UNCHANGED <<up, disk, cache, challenges, table, task, aborted, faulty, count>>

-----------------------------------------------------------------------------
(* acquire_certificate, for the task that runs it. *)

\* An order fails: the watcher falls back to a self-signed certificate, the
\* renewal goes on to the next hostname.
AcquireFails(t) == Set(t, IF t = "watcher" THEN "selfsign" ELSE "next", None)

\* new_order and the authorization; the token is offered before set_ready.
Order(t) ==
    /\ task[t].pc = "order"
    /\ \/ AcquireFails(t) /\ UNCHANGED <<challenges, count>>
       \/ /\ Below("orders", MaxOrders)
          /\ challenges' = challenges \cup {count'.orders}
          /\ Set(t, "ready", count'.orders)
    /\ UNCHANGED <<up, disk, cache, table, due, aborted, faulty>>

\* Faulty variant: the clean-up empties the challenge store.
CleanUpAll(t) == challenges' = {}

CleanUp(t) == challenges' = challenges \ {task[t].hand}

SetReady(t) ==
    /\ task[t].pc = "ready"
    /\ \/ Set(t, "poll", task[t].hand) /\ UNCHANGED challenges
       \/ AcquireFails(t) /\ CleanUp(t)
    /\ UNCHANGED <<up, disk, cache, table, due, aborted, faulty, count>>

\* An error of the authority returns early and leaves the token behind.
Aborts(t) ==
    /\ AcquireFails(t)
    /\ aborted' = aborted \cup {task[t].hand}
    /\ UNCHANGED challenges

\* poll_ready: the order is ready, is not, or the call fails.
Poll(t) ==
    /\ task[t].pc = "poll"
    /\ \/ Set(t, "finalize", task[t].hand) /\ UNCHANGED <<challenges, aborted>>
       \/ AcquireFails(t) /\ CleanUp(t) /\ UNCHANGED aborted
       \/ Aborts(t)
    /\ UNCHANGED <<up, disk, cache, table, due, faulty, count>>

\* finalize, poll_certificate and pem_to_cert_pair, which fails after the
\* clean-up; the two calls fail before it.
Finalize(t) ==
    /\ task[t].pc = "finalize"
    /\ \/ Set(t, "crt", <<"acme", task[t].hand>>) /\ CleanUp(t) /\ UNCHANGED aborted
       \/ AcquireFails(t) /\ CleanUp(t) /\ UNCHANGED aborted
       \/ Aborts(t)
    /\ UNCHANGED <<up, disk, cache, table, due, faulty, count>>

-----------------------------------------------------------------------------
(* FileCertStore::save. *)

\* The watcher does not look at the result of save; the renewal gives up.
SaveFails(t) == Set(t, IF t = "watcher" THEN "insert" ELSE "next", task[t].hand)

\* First the certificate ...
SaveCrt(t) ==
    /\ task[t].pc = "crt"
    /\ \/ /\ disk' = [disk EXCEPT !.crt[task[t].host] = task[t].hand]
          /\ Set(t, "key", task[t].hand)
          /\ UNCHANGED <<faulty, count>>
       \/ /\ Below("faults", MaxFaults)
          /\ \E x \in {disk.crt[task[t].host], Torn} :
                disk' = [disk EXCEPT !.crt[task[t].host] = x]
          /\ SaveFails(t) /\ faulty' = faulty \cup {task[t].host}
    /\ UNCHANGED <<up, cache, challenges, table, due, aborted>>

\* ... then its key.
SaveKey(t) ==
    /\ task[t].pc = "key"
    /\ \/ /\ disk' = [disk EXCEPT !.key[task[t].host] = task[t].hand]
          /\ Set(t, "insert", task[t].hand)
          /\ UNCHANGED <<faulty, count>>
       \/ /\ Below("faults", MaxFaults)
          /\ \E x \in {disk.key[task[t].host], Torn} :
                disk' = [disk EXCEPT !.key[task[t].host] = x]
          /\ SaveFails(t) /\ faulty' = faulty \cup {task[t].host}
    /\ UNCHANGED <<up, cache, challenges, table, due, aborted>>

\* Faulty variant: the new certificate is used from the next start on.
InsertForgets(t) ==
    /\ task[t].pc = "insert"
    /\ cache' = IF cache[task[t].host] # None THEN cache
                ELSE [cache EXCEPT ![task[t].host] = <<task[t].hand, task[t].hand>>]
    /\ Set(t, "next", None)
    /\ UNCHANGED <<up, disk, challenges, table, due, aborted, faulty, count>>

\* cert_pair_to_certified_key and CertCache::insert.
Insert(t) ==
    /\ task[t].pc = "insert"
    /\ cache' = [cache EXCEPT ![task[t].host] = <<task[t].hand, task[t].hand>>]
    /\ Set(t, "next", None)
    /\ UNCHANGED <<up, disk, challenges, table, due, aborted, faulty, count>>

-----------------------------------------------------------------------------
(* The certificate watcher. *)

WatcherWakes ==
    /\ up # "down" /\ task["watcher"].pc = "sleep" /\ table.changed
    /\ table' = [table EXCEPT !.changed = FALSE]
    /\ task' = [task EXCEPT !["watcher"] =
                  [pc |-> "next", host |-> None, todo |-> table.hosts, hand |-> None]]
    /\ UNCHANGED <<up, disk, cache, challenges, due, aborted, faulty, count>>

\* The next hostname that is not in the cache.
WatcherPicks ==
    LET w == task["watcher"]
        missing == {h \in w.todo : cache[h] = None}
    IN  /\ w.pc = "next"
        /\ IF missing = {} THEN task' = [task EXCEPT !["watcher"] = Asleep]
           ELSE \E h \in missing :
                   task' = [task EXCEPT !["watcher"] =
                              [pc |-> "load", host |-> h, todo |-> w.todo \ {h}, hand |-> None]]
        /\ UNCHANGED <<up, disk, cache, challenges, table, due, aborted, faulty, count>>


NoPair == Set("watcher", IF up = "acme" THEN "order" ELSE "selfsign", None)

\* FileCertStore::load: both files must exist; then it reads the one ...
WatcherLoadsCrt ==
    LET h == task["watcher"].host IN
    /\ task["watcher"].pc = "load"
    /\ IF None \in {disk.crt[h], disk.key[h]} THEN NoPair
       ELSE Set("watcher", "loadkey", disk.crt[h])
    /\ UNCHANGED <<up, disk, cache, challenges, table, due, aborted, faulty, count>>

\* ... and the other.
WatcherLoadsKey ==
    LET h == task["watcher"].host
        half == task["watcher"].hand
    IN  /\ task["watcher"].pc = "loadkey"
        /\ IF Loads(half, disk.key[h])
           THEN cache' = [cache EXCEPT ![h] = <<half, disk.key[h]>>] /\ Set("watcher", "next", None)
           ELSE NoPair /\ UNCHANGED cache
        /\ UNCHANGED <<up, disk, challenges, table, due, aborted, faulty, count>>

SelfSign ==
    /\ task["watcher"].pc = "selfsign"
    /\ Set("watcher", "crt", <<"self", count.crashes>>)
    /\ UNCHANGED <<up, disk, cache, challenges, table, due, aborted, faulty, count>>

-----------------------------------------------------------------------------
(* The renewal loop. *)

\* check_and_renew: a hostname is listed by its .crt file, and one that does not
\* parse counts as expired.
RenewalLists ==
    /\ task["renewal"].pc = "list"
    /\ task' = [task EXCEPT !["renewal"] =
                  [pc |-> "next", host |-> None, hand |-> None,
                   todo |-> {h \in Hosts : disk.crt[h] \in due \cup {Torn}}]]
    /\ UNCHANGED <<up, disk, cache, challenges, table, due, aborted, faulty, count>>

RenewalPicks ==
    LET r == task["renewal"] IN
    /\ r.pc = "next"
    /\ IF r.todo = {} THEN task' = [task EXCEPT !["renewal"] = Asleep]
       ELSE \E h \in r.todo :
               task' = [task EXCEPT !["renewal"] =
                          [pc |-> "order", host |-> h, todo |-> r.todo \ {h}, hand |-> None]]
    /\ UNCHANGED <<up, disk, cache, challenges, table, due, aborted, faulty, count>>

\* 24 hours have passed.
RenewalTick ==
    /\ up = "acme" /\ task["renewal"].pc = "sleep"
    /\ Set("renewal", "list", None)
    /\ UNCHANGED <<up, disk, cache, challenges, table, due, aborted, faulty, count>>

-----------------------------------------------------------------------------
Acquire(t) == Order(t) \/ SetReady(t) \/ Poll(t) \/ Finalize(t)
Keep(t) == SaveCrt(t) \/ SaveKey(t) \/ Insert(t)
Watcher ==
    \/ WatcherWakes \/ WatcherPicks \/ WatcherLoadsCrt \/ WatcherLoadsKey \/ SelfSign
    \/ Acquire("watcher") \/ Keep("watcher")
Renewal ==
    \/ RenewalLists \/ RenewalPicks \/ RenewalTick
    \/ Acquire("renewal") \/ Keep("renewal")

CertNext == Start \/ Crash \/ UpdateRoutes \/ Age \/ Watcher \/ Renewal

\* The watcher's task is scheduled, and a call to the authority returns or times
\* out.  Nothing makes the authority accept, nor anyone restart the daemon.
CertSpec == CertInit /\ [][CertNext]_certVars /\ WF_certVars(Watcher)

-----------------------------------------------------------------------------
\* The certificate and the key a hostname is served with belong together, unless
\* a write of its files failed or was cut off by a crash: load compares nothing,
\* so two halves on disk go straight into the cache, and nothing but the order
\* of events keeps the two tasks apart (file_store.rs:41-91, selfsigned.rs:29-33,
\* lib.rs:89-100).
CacheIsPairUnlessFaulty ==
    \A h \in Hosts \ faulty : cache[h] # None => cache[h][1] = cache[h][2]

\* The challenge of an order the authority is about to validate is answered,
\* whatever the other task's orders do to the store (client.rs:97-124).
ChallengeOffered == \A t \in Tasks : task[t].pc = "poll" => task[t].hand \in challenges

\* A token outlives its order only when a call to the authority failed between
\* set_ready and the clean-up (client.rs:114-143).
LeftoverIsAborted ==
    challenges \subseteq aborted \cup
        {task[t].hand : t \in {u \in Tasks : task[u].pc \in {"ready", "poll", "finalize"}}}

\* While both tasks rest, a certificate that is served and about to expire is
\* one the next cycle of the renewal will find (renewal.rs:15-18, 35-49).
DueIsListed ==
    (\A t \in Tasks : task[t].pc = "sleep") =>
        \A h \in Hosts : cache[h] # None /\ cache[h][1] \in due => disk.crt[h] \in due \cup {Torn}

\* It is, unless a write of its files went wrong: the renewal lists files, not
\* what is served (lib.rs:217-218, file_store.rs:69-119, renewal.rs:56-59).
DueIsListedUnlessFaulty ==
    (\A t \in Tasks : task[t].pc = "sleep") =>
        \A h \in Hosts \ faulty :
           cache[h] # None /\ cache[h][1] \in due => disk.crt[h] \in due

-----------------------------------------------------------------------------
(* Why they hold. *)

\* The orders under way have tokens of their own, which the store answers for.
TokenInv ==
    /\ \A t \in Tasks : task[t].pc \in TokenPCs => task[t].hand \in challenges
    /\ \A t, u \in Tasks :
          t # u /\ task[t].pc \in TokenPCs /\ task[u].pc \in TokenPCs => task[t].hand # task[u].hand
    /\ LeftoverIsAborted

\* A pair of the authority was ordered; what a task is about to keep is new.
Made(p) == p[1] = "acme" => p[2] <= count.orders

PairInv ==
    /\ \A p \in due : p[1] = "acme" /\ Made(p)
    /\ \A h \in Hosts :
          /\ disk.crt[h] \in Pairs => Made(disk.crt[h])
          /\ cache[h] # None => Made(cache[h][1])
    /\ \A t \in Tasks :
          LET w == task[t] IN
          /\ w.pc \in TokenPCs => <<"acme", w.hand>> \notin due
          /\ w.pc \in PairPCs => w.hand \notin due /\ Made(w.hand)
          /\ w.pc = "loadkey" /\ w.hand \in Pairs => Made(w.hand)

\* Which task works on a hostname, or will.
WatcherOn(h) == Busy(task["watcher"]) /\ task["watcher"].host = h
RenewalOn(h) ==
    h \in task["renewal"].todo \/ (Busy(task["renewal"]) /\ task["renewal"].host = h)
Saving(h) == \E t \in Tasks : task[t].host = h /\ task[t].pc \in {"key", "insert"}

\* The files of a hostname with no bad write are a pair except while its key is
\* being written, and what is served is what they hold; the two tasks never
\* work on it at the same time, because the one takes what is not served and the
\* other what is.
FilesInv(h) ==
    /\ disk.crt[h] # Torn
    /\ \A t \in Tasks : task[t].host = h =>
          /\ task[t].pc \in {"key", "insert"} => disk.crt[h] = task[t].hand
          /\ task[t].pc = "loadkey" => disk.crt[h] = task[t].hand
    /\ (\A t \in Tasks : ~(task[t].host = h /\ task[t].pc = "key")) => disk.crt[h] = disk.key[h]
    /\ RenewalOn(h) => cache[h] # None /\ ~WatcherOn(h)
    /\ up # "down" /\ disk.crt[h] \in due => cache[h] # None /\ ~WatcherOn(h)
    /\ up # "down" /\ disk.crt[h] # None => cache[h] # None \/ (WatcherOn(h) /\ Saving(h))
    /\ cache[h] # None =>
          cache[h][1] = cache[h][2] /\ (Saving(h) \/ cache[h][1] = disk.crt[h])

CertInv ==
    /\ CertTypeOK
    /\ up = "down" => \A t \in Tasks : task[t] = Asleep
    /\ TokenInv /\ PairInv
    /\ \A h \in Hosts \ faulty : FilesInv(h)

\* Every hostname of the route table gets a certificate, whatever the authority
\* and the disk do: the self-signed one is the last resort (lib.rs:190-250).
HostsGetCertificates == []<>(\A h \in table.hosts : cache[h] # None)


\* The challenge store holds the tokens of the orders under way, and of those a
\* failed call cut off, and no other (client.rs:97-143).
ChallengesTracked == ChallengeOffered /\ LeftoverIsAborted

=============================================================================
