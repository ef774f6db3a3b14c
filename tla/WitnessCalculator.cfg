SPECIFICATION Spec
CONSTANTS
    HexBase = 16
    HexPerWord = 2
    n32 = 2
    Prime = 65521
    witnessSize = 5
    Signals <- MCSignals
    HashOf <- MCHashOf
    Asserts <- MCAsserts
    Witness <- MCWitness
    Calls = {1, 2}
    Inputs <- MCInputs
    MaxNesting = 2
INVARIANTS RejectedIfInvalid OwnWitness
CHECK_DEADLOCK FALSE
