\* One member with two claims in its session, which may be cancelled, closed
\* or fail to join.
SPECIFICATION FairSpec
CONSTANTS
    m1 = m1
    m2 = m2
    p1 = p1
    p2 = p2
    NoMember = NoMember
    Members = {m1}
    Partitions = {p1, p2}
    MaxMessages = 1
    MaxGenerations = 2
    CanCancel = {m1}
    CanClose = {m1}
    CanCrash = {}
    MaxCrashes = 0
    CanFail = {m1}
PROPERTIES
    CancelStops
\* Consume may have returned everywhere, and nothing may be left to read.
CHECK_DEADLOCK FALSE
