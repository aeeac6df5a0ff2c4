SPECIFICATION Spec
CONSTANTS
    Fields = {"status"}
    StatusField = "status"
    Repeat = 1
    Scenarios = {"delegate_invalid"}
INVARIANTS TriesWhatItTests
