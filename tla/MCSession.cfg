SPECIFICATION MCSpec
CONSTANTS
    Users = {"u1", "u2"}
    Dirs = {"/d1", "/d2"}
    MaxAttempts = 2
    MaxTransfers = 5
INVARIANTS OneRequestInFlight InStep AnswersTrue
PROPERTIES ExchangesEnd
CHECK_DEADLOCK FALSE
