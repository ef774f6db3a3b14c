SPECIFICATION Spec
CONSTANTS
    Accounts = {r1, r2}
    Blocks <- MCBlocks
    InitBlocks <- MCInitBlocks
    ValidatorSets <- MCValidators
    Heights <- MCHeights
    NoBlock = NoBlock
    NoBPs = NoBPs
    NoSignature = NoSignature
    NoEpochId = 0
    NoAccount = NoAccount
    lockEthAmount = 3
    lockDuration = 2
    replaceDuration = 3
    NanosPerSecond = 1
    MAX_BLOCK_PRODUCERS = 3
    PauseConfigs <- MCNoPause
    InitialEth = 6
    MaxTime = 9
INVARIANTS TypeOK BondLocked Solvent ViewsAgree
PROPERTIES VerifiedIsFinal FreshIsNotReplaced ImplementsHeaderLog
CHECK_DEADLOCK FALSE
