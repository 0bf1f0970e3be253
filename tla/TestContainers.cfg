\* A test that sets up and tears down its environment next to another goroutine,
\* with one call of the logger by either; and two goroutines with any such calls.
SPECIFICATION FairSpec
CONSTANTS
    test = test
    other = other
    stream1 = stream1
    copy1 = copy1
    NoGoroutine = NoGoroutine
    Goroutines = {test, other, stream1, copy1}
    Users = {test, other}
    Test = test
    Stream = stream1
    Copy = copy1
    Shared = {"globalLogger", "dynamicLevel", "loggerType", "loggerData", "err"}
    LevelNames = {"warning"}
    MaxWrites = 3
    MaxCalls = 1
INVARIANTS
    InitedNeverPanics
    OneLevel
    NotSilenced
    NothingLeftBehind
PROPERTIES
    CopyingEnds
\* The test may have done all it wants, or the process has ended.
CHECK_DEADLOCK FALSE
