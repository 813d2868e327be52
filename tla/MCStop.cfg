SPECIFICATION StopSpec
CONSTANTS
    NumIo = 2
    Conns = {1, 2}
    MaxJobs = 1
INVARIANTS TornDownInOrder
PROPERTIES ServerStops
CHECK_DEADLOCK FALSE
