SPECIFICATION Spec
CONSTANTS
    Keys = {"a", "b", "c"}
    Signed <- MCSigned
    Genesis <- MCGenesis
    Nobodies <- MCNobodies
    MaxUInt64 = 3
    MaxUInt32 = 2
    Operators = {1, 2}
    MaxProofs = 4
INVARIANTS OnlyOwnersPay NoReplay ProofsAreRuns
CHECK_DEADLOCK FALSE
