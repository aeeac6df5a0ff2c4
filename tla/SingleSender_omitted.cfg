SPECIFICATION Spec
CONSTANTS
    Tests = 1
    Shards = {0, 1}
    FromShard = 0
    Amount = 1
    GasCost = 1
    MaxPayments = 1
    ConfiguredPrefix = ""
    NativeChain = "native"
    EthChain = "eth"
    Tearing = {"sender", "receiver"}
    TestAccountIds <- MCAccounts
    NameOf <- MCNames
INVARIANTS SettingsRestored
