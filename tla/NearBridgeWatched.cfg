SPECIFICATION FairSpec
CONSTANTS
    Accounts = {r1, r2}
    Relayer = r1
    Blocks <- MCBlocks3
    HonestBlocks <- Chain3
    EpochProducers <- MCEpochProducers
    InitBlocks <- MCInitBlocks
    ValidatorSets <- MCValidators
    Heights = {1, 2, 3, 4}
    NoBlock = NoBlock
    NoBPs = NoBPs
    NoSignature = NoSignature
    NoEpochId = 0
    NoAccount = NoAccount
    lockEthAmount = 2
    lockDuration = 2
    replaceDuration = 3
    NanosPerSecond = 1
    MAX_BLOCK_PRODUCERS = 2
    PauseConfigs <- MCPause
    InitialEth = 4
    MaxTime = 20

INVARIANTS VerifiedAreGenuine
PROPERTIES HonestBondIsSafe ChainIsVerified
CHECK_DEADLOCK FALSE
