\* Every thread, process and counter stops at its bound.
CONSTANTS
    m1 = m1  t1 = t1  m2 = m2  p1 = p1  p2 = p2
    Callers = {m1, t1}
    Sites = {"s1", "s2", "s3"}
    NameAt <- SmallNames
    ShapeOf <- SmallShapes
    Crc <- SameCrc
    Starts = 2
    Calls = 2
    Processes = {p1, p2}
    ProcessOf <- SmallProcesses
    Destroyer <- SmallDestroyers
    Counters = {"c1", "c2"}
    MaxThreads = 2
    MaxCounters = 1
    MaxUses <- SmallUses
    SampleMax = 8
    Arguments <- SmallArguments
    Customs <- SmallCustoms
    Values <- SmallValues
    Described = {0, 1}
    MaxSamples = 2
SPECIFICATION MetricsSpec
INVARIANTS NothingDangles RegisteredReturned TablePartitioned CountsKept SamplesSorted GraphComplete
CHECK_DEADLOCK FALSE
