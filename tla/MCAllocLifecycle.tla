-------------------------- MODULE MCAllocLifecycle --------------------------
(***************************************************************************)
(* Model-checking instance of the allocation life cycle on one node.       *)
(***************************************************************************)
EXTENDS AllocLifecycle

\* Everything at once.
MCAll == {[allocs |-> AllocIds, beats |-> 0, restarts |-> 0, stops |-> 0]}

\* A service with all that the bounds allow, and a service and a task without
\* heartbeats, restarts and operators.
MCScenarios ==
    {[allocs |-> Ported, beats |-> 0, restarts |-> 0, stops |-> 0],
     [allocs |-> AllocIds, beats |-> MaxBeats, restarts |-> MaxRestarts, stops |-> MaxStops]}

=============================================================================
