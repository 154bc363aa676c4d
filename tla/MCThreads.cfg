\* Two agent objects, at most two references either way; every option for the
\* first InitLogging(), file destinations afterwards; three threads for each
\* of the log, the singleton and the lock.
CONSTANTS
    main = main  t1 = t1  t2 = t2
    Threads = {main, t1, t2}
    Main = main
    Handles = {f1, f2}
    Nothing = Nothing
    First <- Options
    Second <- ToFile
    MaxMessages = 2
    MaxCalls = 2
    Getters = {main, t1, t2}
    MaxGets = 2
    MaxExits = 1
    a1 = a1  a2 = a2
    Agents = {a1, a2}
    Subagents = {a2}
    MaxRefs = 2
    Workers = {main, t1, t2}
    MaxScopes = 2
SPECIFICATION ThreadsSpec
INVARIANTS PumpHasPipe NoStaleByte OneFile NothingCrashes OneInstance MarksHold
PROPERTIES JoinReturns LoggingReturns GetReturns
CHECK_DEADLOCK FALSE
