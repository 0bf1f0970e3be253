\* The comment at closer.New, "with the default logger log.Default()".
SPECIFICATION Spec
CONSTANTS
    test = test
    other = other
    stream1 = stream1
    copy1 = copy1
    NoGoroutine = NoGoroutine
    Goroutines = {test, other, stream1, copy1}
    Users = {test, other}
    Test = test
    Stream = stream1
    Copy = copy1
    Shared = {"globalLogger", "dynamicLevel", "loggerType", "loggerData", "err"}
    LevelNames = {"warning"}
    MaxWrites = 3
    MaxCalls = 2
INVARIANTS
    NewClosersCanLog
\* The test may have done all it wants, or the process has ended.
CHECK_DEADLOCK FALSE
