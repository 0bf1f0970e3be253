--------------------------- MODULE RequestPathMC ---------------------------
(***************************************************************************)
(* Instances of RequestPath for TLC.                                       *)
(***************************************************************************)
EXTENDS RequestPathInd, TLC

CONSTANTS h1, h2, g1, g2, s1, s2, u1, u2, t1

\* A request that goes through three services, and another one.
TwoRequests == (h1 :> Client) @@ (g1 :> h1) @@ (g2 :> g1) @@ (h2 :> Client)

Users == (s1 :> u1) @@ (s2 :> u2)

\* With and without a session, with and without a trace.
SomeHeaders ==
    {[session |-> <<s1>>, remote |-> [trace |-> t1, id |-> t1]],
     [session |-> <<s2>>, remote |-> NoRemote],
     [session |-> <<>>, remote |-> NoRemote]}
=============================================================================
