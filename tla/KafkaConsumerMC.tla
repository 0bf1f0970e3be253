-------------------------- MODULE KafkaConsumerMC --------------------------
(***************************************************************************)
(* Instances of KafkaConsumer for TLC.                                     *)
(***************************************************************************)
EXTENDS KafkaConsumerInd, TLC

CONSTANTS m1, m2, p1, p2
=============================================================================
