SPECIFICATION Spec
CONSTANTS
    Tests = 1
    Scenarios = {"next_epoch"}
    WaitTurns = 1
    MaxEpoch = 2
PROPERTIES EveryCaseEnds
