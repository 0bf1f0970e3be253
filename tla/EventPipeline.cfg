\* Two events of one key on one partition, with room for one of their repeated
\* requests; a consumer that crashes, is expelled and starts again.
SPECIFICATION PipelineFairSpec
CONSTANTS
    m1 = m1
    m2 = m2
    p1 = p1
    p2 = p2
    e1 = e1
    e2 = e2
    NoMember = NoMember
    Members = {m1}
    Partitions = {p1}
    MaxMessages = 3
    MaxGenerations = 2
    CanCancel = {}
    CanClose = {}
    CanCrash = {m1}
    MaxCrashes = 1
    CanFail = {}
    Events = {e1, e2}
    PartitionOf <- OneKey
    MaxSends = 1
    MaxAttempts = 2
INVARIANTS
    ConfirmedIsKept
PROPERTIES
    KeepsDelivery
\* Nothing may be left to send or to read.
CHECK_DEADLOCK FALSE
