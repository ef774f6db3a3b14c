SPECIFICATION FairSpec
CONSTANTS
    MaxBlock = 3
    Updates = 2
    MaxQueue = 2
    MaxFaults = 1
    MaxStray = 1
INVARIANTS TablesAgree OnlyDatabasePanics
PROPERTIES AllFinished ImplementsBlockStore
CHECK_DEADLOCK FALSE
