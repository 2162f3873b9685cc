--------------------------- MODULE MCRollingDeploy ---------------------------
(***************************************************************************)
(* Model-checking instance of the operations: two nodes; config c1 has web *)
(* with one replica, c2 has api as well and both with two replicas, c3 has *)
(* web changed, with one replica.                                          *)
(***************************************************************************)
EXTENDS RollingDeploy

CONSTANTS r1, r2, n1, n2, c1, c2, c3, web, api, v1, v2, v3, w0, w1, p0, p1, vw, vp

MCNameOf == [i \in RaftIds |-> IF i = r1 THEN n1 ELSE n2]
MCDefOf == [c \in Configs |-> [s \in Names |->
              CASE c = c2 -> v2
                [] c # c2 /\ s = api -> None
                [] c = c1 /\ s = web -> v1
                [] OTHER -> v3]]
MCReplicas == [d \in Versions |-> IF d = v2 THEN 2 ELSE 1]
MCFixedId == [s \in Names |-> IF s = web THEN <<w0, w1>> ELSE <<p0, p1>>]

\* Of the volumes there are, vw is of web and vp of api.
MCVolumeOf == [s \in Names |-> IF s = web /\ vw \in VolumeNames THEN vw
                               ELSE IF s = api /\ vp \in VolumeNames THEN vp ELSE None]

\* Operations that overlap, on one replica; and one after the other, with
\* services that come, go and change their number of replicas.
MCOverlapping == {[configs |-> {c1, c3}, drops |-> MaxDrops, apart |-> FALSE]}
MCApart == {[configs |-> {c1, c2}, drops |-> 0, apart |-> TRUE]}
MCScenarios == MCOverlapping \cup MCApart

=============================================================================
