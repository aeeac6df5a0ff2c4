SPECIFICATION Spec
CONSTANTS
    Fields = {"name", "rate", "status"}
    StatusField = "status"
    Repeat = 1
    Scenarios = {"create", "create_exists", "create_bls", "create_invalid", "edit", "edit_invalid", "edit_missing", "delegate_invalid", "delegate_missing", "undelegate_invalid", "undelegate_missing"}
INVARIANTS NothingRefusedSucceeds ResultIsEarned EvaluatesTheChanges AccountsRemoved
PROPERTIES SharedValidatorKept CaseEnds
