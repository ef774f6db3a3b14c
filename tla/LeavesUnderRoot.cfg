SPECIFICATION PageSpec
CONSTANTS
    Supply = 6
    Users = {"u", "c"}
    Contracts = {"c"}
    URIs <- MCURIs
    account = "u"
    PageURI <- MCPageURI
    MayLoad <- MCMayLoad
    AtMost <- MCAtMost
    Used = {"tree", "root"}
    MaxTasks = 2
    MaxClicks = 4
    MaxMints = 1
INVARIANT EveryLeafUnderRoot
CHECK_DEADLOCK FALSE
