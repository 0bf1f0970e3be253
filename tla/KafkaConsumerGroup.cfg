\* Two members share a partition through rebalances, expulsions and crashes.
SPECIFICATION FairSpec
CONSTANTS
    m1 = m1
    m2 = m2
    p1 = p1
    p2 = p2
    NoMember = NoMember
    Members = {m1, m2}
    Partitions = {p1}
    MaxMessages = 2
    MaxGenerations = 3
    CanCancel = {}
    CanClose = {}
    CanCrash = {m1, m2}
    MaxCrashes = 1
    CanFail = {}
INVARIANTS
    CommittedWasHandled
    LostOnlyBehindSuccess
    NoReplayOfCommitted
    ConsumerInv
PROPERTIES
    EveryMessageIsTried
    OnlyFailuresAreRepeated
\* Consume may have returned everywhere, and nothing may be left to read.
CHECK_DEADLOCK FALSE
