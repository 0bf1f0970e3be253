\* A manual CloseAll, a watcher and two signals, every context with a deadline;
\* one function ends with its context only and one calls CloseAll again.
SPECIFICATION FairSpec
CONSTANTS
    f1 = f1
    f2 = f2
    c1 = c1
    c2 = c2
    w1 = w1
    NoErr = NoErr
    CtxErr = CtxErr
    Nobody = Nobody
    Callers = {c1}
    Watchers = {w1}
    Funcs <- TwoFuncs
    Batches <- OneByOne
    Kind <- SlowAndReentrant
    Deadlined = {c1, w1}
    MaxSignals = 2
INVARIANTS
    NoCrash
    SendNeverBlocks
    IInv
    NilMeansAllClosed
    NobodyWaitsInVain
    SignalNeverKillsEarly
PROPERTIES
    LateAddIsNeverRun
    KeepsContract
    EveryCallReturns
    SignalShutsDown
    WatchersLeave
    EveryGoroutineEnds
\* The program may never call CloseAll, or be killed: it may stop.
CHECK_DEADLOCK FALSE
