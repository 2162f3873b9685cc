------------------------------- MODULE MCEdge -------------------------------
(***************************************************************************)
(* Model-checking instance of the edge: web serves "/" and api "/a" of one *)
(* host; a new configuration gives "/a" to web as well.                    *)
(***************************************************************************)
EXTENDS Edge

CONSTANTS r1, n1, a1, a2, web, api, x1, x2, c1, c2, h1

Route(p, ws) == [host |-> h1, path |-> p, websocket |-> ws]

MCRoutesOf ==
    [c \in Configs |-> [n \in Names |->
       IF n = web THEN <<Route(<<>>, FALSE)>> \o (IF c = c2 THEN <<Route(<<"a">>, TRUE)>> ELSE <<>>)
       ELSE <<Route(<<"a">>, FALSE)>>]]

MCPaths == {<<>>, <<"a">>, <<"a", "b">>, <<"healthz">>}
MCHealthz == <<"healthz">>

\* web runs at x1 and api is about to start.
MCStartFsm ==
    LET s1 == Deploy(NodeRegister(EmptyFsm, r1, n1), c1)
        s2 == AllocRunning(AllocScheduled(s1, a1, r1, web, "Service"), a1, x1)
    IN  AllocScheduled(s2, a2, r1, api, "Service")

MCChanges ==
    {[config |-> c] : c \in Configs} \cup {[alloc |-> a2, address |-> x2]} \cup
    {[alloc |-> a, status |-> st] : a \in AllocIds, st \in {"Healthy", "Stopped"}}

=============================================================================
