---------------------------- MODULE RedisClientMC ----------------------------
(***************************************************************************)
(* Instances of RedisClient for TLC.                                       *)
(***************************************************************************)
EXTENDS RedisRefines, TLC

CONSTANTS p1, p2, k1, v1, v2

Call(op, v, dur) == [op |-> op, key |-> k1, val |-> v, dur |-> dur]

\* Every method, on one key.
AllCommands ==
    {Call(op, v1, 0) : op \in Methods \ {"Expire", "SetWithTTL", "SAdd"}}
      \cup {Call("SAdd", v2, 0)}
      \cup {Call(op, v1, dur) : op \in {"SetWithTTL", "Expire"}, dur \in {500, 1500}}

\* One call of p1, two of p2.
FewCalls == (p1 :> 1) @@ (p2 :> 2)
=============================================================================
