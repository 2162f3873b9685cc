----------------------------- MODULE MCCluster -----------------------------
(* Three machines; the first has run `mill init`. *)
EXTENDS Cluster, TLC

\* After joins that overlapped, at most one more event is explored.
FewAfterOverlap == overlap => count.events <= 1

MCSymmetry == Permutations(Hosts \ {First})

=============================================================================
