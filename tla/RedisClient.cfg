\* Every method, on one connection for which callers wait; the second caller
\* calls again while the command of a call that failed is still on its own.
SPECIFICATION FairSpec
CONSTANTS
    p1 = p1
    p2 = p2
    k1 = k1
    v1 = v1
    v2 = v2
    Nobody = Nobody
    Idle = Idle
    Nothing = Nothing
    Callers = {p1, p2}
    Keys = {k1}
    Vals = {v1, v2}
    Commands <- AllCommands
    Conns = {1}
    Wait = TRUE
    MaxCalls <- FewCalls
    MaxBreaks = 1
INVARIANTS
    IInv
    NobodyWaitsInVain
PROPERTIES
    KeepsContract
    PlacesComeBack
    WaitersGiveUp
\* Every caller may have made all its calls.
CHECK_DEADLOCK FALSE
