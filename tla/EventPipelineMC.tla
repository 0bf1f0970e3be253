-------------------------- MODULE EventPipelineMC --------------------------
(***************************************************************************)
(* Instances of EventPipeline for TLC.                                     *)
(***************************************************************************)
EXTENDS EventPipeline, TLC

CONSTANTS m1, m2, p1, p2, e1, e2

OneKey == [e \in Events |-> p1]
=============================================================================
