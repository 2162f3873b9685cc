---------------------------- MODULE MCLogStreams ----------------------------
(* Two requests for one allocation; channels of one or two places. *)
EXTENDS LogStreams

CONSTANTS s1, s2, a1, a2

MCStreams == {s1, s2}
MCOneAlloc == {a1}
MCTwoAllocs == {a1, a2}
MCWatched == {s1}

=============================================================================
