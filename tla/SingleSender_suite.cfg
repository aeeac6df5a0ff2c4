SPECIFICATION Spec
CONSTANTS
    Tests = 2
    Shards = {0, 1}
    FromShard = 0
    Amount = 1
    GasCost = 1
    MaxPayments = 1
    ConfiguredPrefix = "hmy"
    NativeChain = "native"
    EthChain = "eth"
    Tearing = {"sender", "receiver"}
    TestAccountIds <- MCAccounts
    NameOf <- MCNames
INVARIANTS SettingsRestored ResultIsEarned StandardLeavesNoKeys
PROPERTIES EveryCaseEnds
