SPECIFICATION Spec
CONSTANTS
    Tests = 2
    Scenarios = {"delegate", "undelegate", "redelegate", "next_epoch", "edit"}
    WaitTurns = 1
    MaxEpoch = 2
INVARIANTS ResultIsEarned  CleanWithoutError
PROPERTIES EndsOnceEpochsAreRead
