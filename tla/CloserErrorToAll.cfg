\* The comment "returns the first error, if there was one".
SPECIFICATION Spec
CONSTANTS
    f1 = f1
    f2 = f2
    c1 = c1
    c2 = c2
    w1 = w1
    NoErr = NoErr
    CtxErr = CtxErr
    Nobody = Nobody
    Callers = {c1, c2}
    Watchers = {}
    Funcs <- TwoFuncs
    Batches <- PairBatch
    Kind <- TwoPrompt
    Deadlined = {}
    MaxSignals = 0
INVARIANTS
    EveryCallerGetsTheError
\* The program may never call CloseAll, or be killed: it may stop.
CHECK_DEADLOCK FALSE
