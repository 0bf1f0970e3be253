----------------------------- MODULE TelemetryMC -----------------------------
(***************************************************************************)
(* An instance of Telemetry for TLC.                                       *)
(***************************************************************************)
EXTENDS Telemetry, TLC

CONSTANTS a, b

Pair == Permutations({a, b})
=============================================================================
