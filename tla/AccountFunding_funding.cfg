SPECIFICATION Spec
CONSTANTS
    FundingAccount = funder
    Batches = 2
    Count <- MCCount
    Attempts = 2
    GasPrice = 1
    Senders <- MCSenders
    Payments <- MCPayments
INVARIANTS
    FundingInv WaitGroupInv
    PaidAtMostOnce PaidInIndexOrder SuccessMeansPaid ReturnsEveryAccount NoSendOnClosedChannel
PROPERTIES OnlyRunningCallsSpend BatchReturns KeepsPromise
