SPECIFICATION FairSpec
CONSTANTS
    Requests = {q1, q2, q3}
    Threads = 2
    PoolSize = 1
    MaxTransactions = 2
CHECK_DEADLOCK FALSE
INVARIANTS
    NoEarlyStall
PROPERTIES
    EveryRequestAnswered
