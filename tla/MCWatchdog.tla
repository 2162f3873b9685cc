----------------------------- MODULE MCWatchdog -----------------------------
(***************************************************************************)
(* Model-checking instance of the watchdog: at most two nodes.             *)
(***************************************************************************)
EXTENDS Watchdog

CONSTANTS r1, r2, n1, n2, Events, MaxEvents

MCNameOf == [i \in RaftIds |-> IF i = r1 THEN n1 ELSE n2]

\* All nodes, and whatever Events has.
MCAll == {[nodes |-> RaftIds, events |-> Events, left |-> MaxEvents]}

\* Every kind of event once on two nodes, and MaxEvents of the ones a single
\* node can recover from.
MCScenarios ==
    {[nodes |-> {r1, r2}, events |-> EventKinds, left |-> 1],
     [nodes |-> {r1}, events |-> Events, left |-> MaxEvents]}

\* What happens after a stale write is of no interest to RecoversUnlessStale,
\* which has been decided by then.
Undecided == ~stale

=============================================================================
