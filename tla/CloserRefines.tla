---------------------------- MODULE CloserRefines ----------------------------
(***************************************************************************)
(* The closer implements GracefulShutdown. The shutdown begins when the    *)
(* winner of sync.Once takes the list of functions, and is over, for       *)
(* everyone else, when it closes the channel done.                         *)
(***************************************************************************)
EXTENDS Closer

Taken == owner # Nobody /\ pc[owner] # "take"

Phase == IF ~Taken THEN "open" ELSE IF doneClosed THEN "closed" ELSE "closing"

Contract == INSTANCE GracefulShutdown WITH
    phase <- Phase,
    registered <- {f \in Funcs : fst[f] # "new"},
    taken <- Snap,
    started <- {f \in Funcs : fst[f] \in Started},
    succeeded <- {f \in Funcs : outcome[f] = "ok"},
    verdict <- IF ~doneClosed THEN "none"
               ELSE IF result = NoErr THEN "clean" ELSE "failed",
    back <- {p \in Procs : pc[p] \in {"returned", "exited"}}

\* The closer keeps the contract: one shutdown, each function started at most
\* once and only if it was taken, an honest verdict, nobody back before it.
KeepsContract == Contract!GSSpec
=============================================================================
