SPECIFICATION Spec
CONSTANTS
    Addresses <- MCAddresses
    Funder = "funder"
    ShardCount = 2
    MinimumFunds = 2
    PrivateKeys <- MCPrivateKeys
    FileAddress <- MCFileAddress
    Senders <- MCSenders
    Payments <- MCPayments
    Attempts = 2
    GasPrice = 0
    GasCost = 1
    Polls = 1
    Targets <- MCTargets
    Starts <- MCStarts
    Files <- MCFiles
    Dirs <- MCDirs
    DirOf <- MCDirOf
    Root <- MCRoot
    Within <- MCWithin
    Number <- MCNumber
    Rank <- MCRank
    Content <- MCContent
INVARIANTS TypeOK EveryTestCaseAccounted SectionsInNumericalOrder SetupMeansFunded PaidAtMostAttempts ExitsForTheFunderAlone
PROPERTIES FundedKeysKept SweepsStayInBounds ProgramEnds
