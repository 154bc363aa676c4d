\* A file destination, then any other.
CONSTANTS
    main = main  t1 = t1  t2 = t2
    Threads = {main, t1, t2}
    Main = main
    Handles = {f1, f2}
    Nothing = Nothing
    First <- ToFile
    Second <- Options
    MaxMessages = 2
    MaxCalls = 2
SPECIFICATION Spec
INVARIANTS TrueMeansFile
CHECK_DEADLOCK FALSE
