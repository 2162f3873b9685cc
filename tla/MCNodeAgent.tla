---------------------------- MODULE MCNodeAgent ----------------------------
(***************************************************************************)
(* Model-checking instance of one node's secondary.                        *)
(***************************************************************************)
EXTENDS NodeAgent, TLC

Symmetry == Permutations(AllocIds)

=============================================================================
