SPECIFICATION Spec
CONSTANTS
    w1 = w1
    w2 = w2
    k1 = k1
    k2 = k2
    NoKeyword = NoKeyword
    Workers = {w1, w2}
    Keywords = {k1}
    Items = {1, 2}
    Hits <- MCOneHits
    BadPrice = {}
    Capacity = 2
    PageSize = 2
    Faults <- MCAllFaults
    MaxStops = 1
INVARIANTS TypeOK AtMostOncePerWorker SentIsRecorded SilentLossHasCause DrainedBeforeStop
PROPERTIES LedgerSpec
