---------------------------- MODULE StateFollower ----------------------------
(***************************************************************************)
(* What a watcher of the state machine promises: the value it shows is     *)
(* derived from one committed state, it never goes back to an older one,   *)
(* and it catches up whenever the state has moved on.  States are named by *)
(* the order they were committed in; 0 is no state at all.                 *)
(***************************************************************************)
EXTENDS Naturals

VARIABLES
    now,        \* the committed state
    seen        \* the state the shown value was derived from

followerVars == <<now, seen>>

FollowerInit == now = 1 /\ seen = 0

Change == now' = now + 1 /\ UNCHANGED seen

Follow == (\E v \in seen + 1 .. now : seen' = v) /\ UNCHANGED now

FollowerNext == Change \/ Follow

FollowerSafe == FollowerInit /\ [][FollowerNext]_followerVars

FollowerSpec == FollowerSafe /\ WF_followerVars(Follow)

=============================================================================
