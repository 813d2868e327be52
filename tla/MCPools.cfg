SPECIFICATION PoolsSpec
CONSTANTS
    Workers = {w1, w2}
    Clients = {c1, c2}
    Tasks = {t1, t2, t3}
    NoTask = NoTask
    MaxQueue = 1
    MaxWait = 2
    MaxTime = 2
    k_nt_alignment = 2
    k_nt_block_size = 2
    Callers = {m1, m2}
    PoolSize = 2
    Plans <- MCPlans
    Requests <- MCRequests
    MaxCalls = 2
    MaxFailures = 1
    Nobody = Nobody
INVARIANTS OneFate NoStrandedTask NoStrandedSubmitter CopiedOnReturn
PROPERTIES StopReturns WaiterResolved CopyReturns
CHECK_DEADLOCK FALSE
