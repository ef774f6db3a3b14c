SPECIFICATION FairBridge
CONSTANTS
    Headers <- MCHeaders
    FirstHeader <- MCFirst
    Canonical <- MCCanonical
    FirstCheckPoint <- MCFirstCheckPoint
    CheckPoints = {}
    Epochs = {1, 2}
    Numbers = {0, 1, 2, 3, 4}
    Accounts = {a, s}
    Honest = {a}
    deployer = a
    InitialRelayers = {a}
    Threshold = 1
    NewThresholds = {}
    MaxCheckpoints = 4
    MaxBlocks = 4
    Burns = {b1}
    Forged = b9
INVARIANTS ExecutedOnce
PROPERTIES LocksAreMinted BurnsAreUnlocked
CHECK_DEADLOCK FALSE
