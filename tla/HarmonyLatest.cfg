SPECIFICATION Spec
CONSTANTS
    FirstHeader <- MCFirst
    Headers <- MCHeaders
    Epochs = {1, 2}
    Numbers = {0, 1, 2, 3}
    Accounts = {a, r}
    deployer = a
    InitialRelayers = {r}
    Threshold = 1
    NewThresholds = {2, 256}
    MaxCheckpoints = 3
INVARIANTS LatestIsACheckpoint
