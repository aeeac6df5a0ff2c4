SPECIFICATION Spec
CONSTANTS
    Alone = 0
    Many = {1, 2}
    TestAccountIds = {0, 1, 2}
    Tearing = {0, 1, 2}
    Shards = {0}
    FromShard = 0
    Amount = 1
    GasCost = 1
    ConfiguredPrefix = "hmy"
    NativeChain = "native"
    EthChain = "eth"
    NameOf <- MCNames
INVARIANTS EveryKeyRemoved
