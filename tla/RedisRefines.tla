---------------------------- MODULE RedisRefines ----------------------------
(***************************************************************************)
(* The client, its pool and the server implement AtomicCache: a command    *)
(* takes effect when the server executes it, and the command of a broken   *)
(* connection that was not executed is late once its call has returned.    *)
(***************************************************************************)
EXTENDS RedisClientInd

Pending == [p \in Callers |-> IF Open(p) THEN cmd[p] ELSE Idle]

Late == {x \in orphans : ~Current(x)}

Contract == INSTANCE AtomicCache WITH call <- Pending, late <- Late

\* Every method is atomic: nil means that it took effect once, between the call
\* and the return, and reports what it found then; an error leaves it open.
KeepsContract == Contract!ACSpec
=============================================================================
