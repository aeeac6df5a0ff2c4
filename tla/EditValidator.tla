---- MODULE EditValidator ----
(***************************************************************************)
(* The loop of the edit validator scenario, once it has a validator: an    *)
(* edit is sent up to Repeat times, and after each one DetectChanges and   *)
(* EvaluateChanges decide from counters, kept in the test case, whether    *)
(* the fields of the test case arrived on the chain.  ValidatorScenarios   *)
(* runs the loop as a part of the scenario.                                *)
(***************************************************************************)
EXTENDS Integers, FiniteSets

CONSTANTS
    Fields,     \* the fields an edit may change
    StatusField, \* the one of them that disabling a validator changes as well
    Repeat      \* Edit.Repeat; Initialize makes it at least 1

ASSUME EditValidatorAssumption ==
    IsFiniteSet(Fields) /\ StatusField \in Fields /\ Repeat \in Nat \ {0}

VARIABLES
    edit,       \* the scenario: Validator.Details etc. of the test case, Changes, the loop
    applied,    \* the fields that hold the values of the test case on the chain
    tx          \* what became of the edit transaction last sent

editVars == <<edit, applied, tx>>

EditPC == {"head", "send", "await", "evaluate", "over"}
Edit == [pc : EditPC, asked : SUBSET Fields, iteration : 0 .. Repeat,
         changes : SUBSET Fields, totalChanged : Nat,
         success : BOOLEAN, updated : BOOLEAN, seen : SUBSET Fields,
         error : BOOLEAN, result : BOOLEAN]

EditTypeOK ==
    /\ edit \in Edit /\ edit.totalChanged <= Repeat * Cardinality(Fields)
    /\ applied \subseteq Fields
    /\ tx \in {"none", "pending", "mined", "failed"}

\* A loop that may be entered: the fields of the test case that its edits are
\* asked to change, and those that already hold their values, since the validator
\* may be one that other test cases have edited before.
EditInit(asked, holding) ==
    /\ edit = [pc |-> "head", asked |-> asked, iteration |-> 0, changes |-> {},
               totalChanged |-> 0, success |-> FALSE, updated |-> FALSE, seen |-> {},
               error |-> FALSE, result |-> FALSE]
    /\ applied = holding
    /\ tx = "none"

\* HandleError, and out of the scenario.
EditFailed == edit' = [edit EXCEPT !.pc = "over", !.error = TRUE, !.result = FALSE]

\* DetectChanges: the fields to compare, and how many there are - added to the
\* number the previous edit left there.
DetectChanges ==
    edit' = [edit EXCEPT !.pc = "send", !.changes = @ \cup edit.asked,
                         !.totalChanged = @ + Cardinality(edit.asked)]

\* Fault: the result does not ask whether the transaction was successful.
NextEditUpdated ==
    /\ edit.pc = "head"
    /\ IF edit.iteration < Repeat /\ (edit.iteration = 0 \/ (edit.success /\ edit.updated))
       THEN DetectChanges \/ EditFailed
       ELSE edit' = [edit EXCEPT !.pc = "over", !.result = edit.updated]
    /\ UNCHANGED <<applied, tx>>

\* The head of the loop: the next edit follows an edit that succeeded; else the
\* loop runs out.  ManageBLSKeys may fail before the changes are detected.
NextEdit ==
    /\ edit.pc = "head"
    /\ IF edit.iteration < Repeat /\ (edit.iteration = 0 \/ (edit.success /\ edit.updated))
       THEN DetectChanges \/ EditFailed
       ELSE edit' = [edit EXCEPT !.pc = "over", !.result = edit.success /\ edit.updated]
    /\ UNCHANGED <<applied, tx>>

\* EditValidator: accepted, or an error, which may hide that it was accepted.
SendEdit ==
    /\ edit.pc = "send"
    /\ \/ tx' = "pending" /\ edit' = [edit EXCEPT !.pc = "await"]
       \/ tx' \in {tx, "pending"} /\ EditFailed
    /\ UNCHANGED applied

\* Fault: an edit without a successful receipt is sent again.
AwaitEditRetrying ==
    /\ edit.pc = "await"
    /\ edit' = IF tx = "mined" THEN [edit EXCEPT !.pc = "evaluate", !.success = TRUE]
                               ELSE [edit EXCEPT !.pc = "send"]
    /\ UNCHANGED <<applied, tx>>

\* The receipt of this edit, or the timeout.
AwaitEdit ==
    /\ edit.pc = "await"
    /\ \E success \in {FALSE, tx = "mined"} :
          edit' = [edit EXCEPT !.pc = "evaluate", !.success = success]
    /\ UNCHANGED <<applied, tx>>

\* Fault: the fields that agree are counted, changed or not.
AgreeingFieldCount == Cardinality(applied)

SuccessfulChangeCount == Cardinality(edit.changes \cap applied)

\* The validator's information is read, and EvaluateChanges compares counts.
EvaluateChanges ==
    /\ edit.pc = "evaluate"
    /\ \/ edit' = [edit EXCEPT !.pc = "head", !.iteration = @ + 1, !.seen = applied,
                               !.updated = edit.totalChanged = SuccessfulChangeCount]
       \/ EditFailed
    /\ UNCHANGED <<applied, tx>>

\* The chain applies an edit as a whole, or not at all.
MineEdit ==
    /\ tx = "pending"
    /\ \/ tx' = "mined" /\ applied' = applied \cup edit.asked
       \/ tx' = "failed" /\ UNCHANGED applied
    /\ UNCHANGED edit

EditStep == NextEdit \/ SendEdit \/ AwaitEdit \/ EvaluateChanges
====
