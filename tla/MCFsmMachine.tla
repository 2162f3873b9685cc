---------------------------- MODULE MCFsmMachine ----------------------------
(***************************************************************************)
(* Model-checking instance of the FSM: two raft ids and two node names, so *)
(* that a name can be displaced, removed and registered again elsewhere.   *)
(***************************************************************************)
EXTENDS FsmMachine, TLC

Symmetry == Permutations(RaftIds) \cup Permutations(NodeIds)

=============================================================================
