------------------------------ MODULE CloserMC ------------------------------
(***************************************************************************)
(* Instances of Closer for TLC. A .cfg names the closing functions, the    *)
(* calling goroutines and the watchers; the batches and the behaviours of  *)
(* the functions are chosen here.                                          *)
(***************************************************************************)
EXTENDS CloserInd, CloserRefines, TLC

CONSTANTS f1, f2, c1, c2, w1

TwoFuncs == {f1, f2}

\* f1 and f2 are registered together, or one after the other.
PairBatch == {<<f1, f2>>}
OneByOne == {<<f1>>, <<f2>>}

\* Both return at once; or f1 ends with its context only and f2 calls CloseAll.
TwoPrompt == [f \in TwoFuncs |-> "prompt"]
SlowAndReentrant == (f1 :> "patient") @@ (f2 :> "reentrant")
=============================================================================
