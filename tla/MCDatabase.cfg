SPECIFICATION DatabaseSpec
CONSTANTS
    d1 = d1
    d2 = d2
    a = a
    b = b
    gate = gate
    Threads = {t1, t2}
    Dirs = {d1, d2}
    Names = {a, b}
    Gates = {gate}
    GateOf <- MCGateOf
    Keys <- MCKeys
    BankChoices <- MCBankChoices
    MaxGen = 2
    MaxListed = 1
    NoOne = NoOne
    NoEntry = NoEntry
    Getters = {g1, g2}
    Conns = {c1, c2, c3}
    NoConn = NoConn
    InitSize = 1
    MaxSize = 2
    CacheKeys = {0, 1, 2}
    CacheValues = {1, 2}
    Capacities = {0, 1, 2, 3}
    SliceNums = {1, 2}
    MaxCount = 3
SYMMETRY MCSymmetry
INVARIANTS ReadIsCurrent PoolAccounting NoLostWakeup CacheConsistent
PROPERTIES ActsAsLossyMap
