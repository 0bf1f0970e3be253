-------------------------- MODULE TestContainersMC --------------------------
(***************************************************************************)
(* An instance of TestContainers, with the logger, for TLC.                *)
(***************************************************************************)
EXTENDS TestContainers, TLC

CONSTANTS test, other, stream1, copy1
=============================================================================
