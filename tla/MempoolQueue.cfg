SPECIFICATION QueueSpec
CONSTANTS
    OpChunks <- MCOpChunks
    L2Txs <- MCL2Txs
    BlockChunks = 3
    MaxTime = 1
    MaxFailures = 1
INVARIANTS NeverPanics PriorityOrder NonceOrder BlocksAreValid
PROPERTIES AllExecuted
CHECK_DEADLOCK FALSE
