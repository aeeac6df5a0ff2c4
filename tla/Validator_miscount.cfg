SPECIFICATION Spec
CONSTANTS
    Fields = {"name", "rate", "status"}
    StatusField = "status"
    Repeat = 2
    Scenarios = {"edit"}
INVARIANTS EvaluatesTheChanges
