---- MODULE ValidatorScenarios ----
(***************************************************************************)
(* The scenarios about one validator: creating it, editing it, and the     *)
(* refusals - a transaction signed by the wrong account, or about a        *)
(* validator, a BLS key or a delegation that is or is not there.  They     *)
(* share one shape: accounts are generated, staking transactions are sent  *)
(* one after the other, the result is weighed, accounts are torn down.     *)
(* Script says which, in which order, and whose account an error hands to  *)
(* HandleError; the edits of the standard edit scenario are EditValidator. *)
(***************************************************************************)
EXTENDS EditValidator, Sequences

CONSTANT Scenarios  \* the scenarios the test case may run

Refusals == {"create_exists", "create_bls", "create_invalid", "edit_invalid", "edit_missing",
             "delegate_invalid", "delegate_missing", "undelegate_invalid", "undelegate_missing"}
AllScenarios == Refusals \cup {"create", "edit"}

ASSUME ValidatorScenariosAssumption == Scenarios \subseteq AllScenarios

VARIABLES
    case,       \* the test case: what it runs and where it stands
    held,       \* the accounts whose key is in the keystore
    validators, \* validators[a]: the chain's entry for a: its status, its BLS key
    delegated,  \* the accounts whose delegation the chain holds
    pending,    \* the transactions the node has accepted and not yet mined
    mined       \* those that were mined successfully

chainVars == <<validators, delegated, pending, mined>>
vars == <<editVars, case, held, chainVars>>

\* The accounts of a test case; "shared" is that of CurrentValidator, when an
\* earlier one left it.  "sender" is InvalidSender and InvalidChanger as well.
Roles == {"validator", "delegator", "sender", "duplicate", "shared"}
BLSKeys == {"first", "second"}

CasePC == {"funding", "step", "answer", "teardown", "over"}
Case == [pc : CasePC, scenario : Scenarios, reuse : BOOLEAN, shared : BOOLEAN,
         step : 1 .. 6, skipped : BOOLEAN, earned : BOOLEAN, error : BOOLEAN, result : BOOLEAN]

\* The account of the validator a scenario about an existing one works with.
TheValidator == IF case.reuse /\ case.shared THEN "shared" ELSE "validator"

\* GenerateAndFundAccount, GenerateAccount; on an error HandleError gets blame.
Fund(who) == [op |-> "fund", who |-> who, blame |-> "nobody"]
FundBlaming(who, blame) == [op |-> "fund", who |-> who, blame |-> blame]

\* A staking transaction about an account, signed by an account.  What weighs
\* in: its receipt, the ending balance, what the node reports of the outcome;
\* asked: an error of the question about the outcome goes to HandleError too;
\* needed: without it the scenario skips to its end.
Send(op, who, signer, blame) ==
    [op |-> op, who |-> who, signer |-> signer, blame |-> blame, bls |-> "first",
     weighs |-> {"receipt", "report"}, asked |-> op \in {"delegate", "undelegate"},
     needed |-> FALSE]
Balanced(send) == [send EXCEPT !.weighs = @ \cup {"balance"}]
Needed(send) == [send EXCEPT !.needed = TRUE]
Asked(send) == [send EXCEPT !.asked = TRUE]

Create(signer, blame) == Send("create", "validator", signer, blame)
ThreeAccounts == <<Fund("validator"), Fund("delegator"), Fund("sender")>>

\* ReuseOrCreateValidator, when there is none to reuse: all that counts is that
\* the validator exists.
CreateForEdit ==
    <<Fund("validator"),
      [Needed(Create("validator", "validator")) EXCEPT !.weighs = {"report"}]>>

Script(s) ==
    CASE s = "create" ->
            <<Fund("validator"), Balanced(Create("validator", "validator"))>>
      [] s = "create_exists" ->
            <<Fund("validator"), Asked(Balanced(Create("validator", "validator"))),
              [Create("validator", "validator") EXCEPT !.bls = "second"]>>
      [] s = "create_bls" ->
            <<Fund("validator"), Needed(Create("validator", "validator")),
              Fund("duplicate"), Send("create", "duplicate", "duplicate", "validator")>>
      [] s = "create_invalid" ->
            <<Fund("sender"), Fund("validator"), Balanced(Create("sender", "sender"))>>
      [] s = "edit" ->
            CreateForEdit \o <<[op |-> "edits"]>>
      [] s = "edit_invalid" ->
            CreateForEdit \o <<FundBlaming("sender", TheValidator),
                               Send("edit", TheValidator, "sender", TheValidator)>>
      [] s = "edit_missing" ->
            <<Fund("validator"), Send("edit", "validator", "validator", "validator")>>
      [] s = "delegate_invalid" ->
            ThreeAccounts \o <<Needed(Balanced(Create("sender", "validator"))),
                               Send("delegate", "delegator", "sender", "validator")>>
      [] s = "undelegate_invalid" ->
            ThreeAccounts \o <<Needed(Asked(Balanced(Create("sender", "validator")))),
                               Needed(Send("delegate", "delegator", "delegator", "validator")),
                               Send("undelegate", "delegator", "sender", "validator")>>
      [] s = "delegate_missing" ->
            <<Fund("validator"), Fund("delegator"),
              Send("delegate", "delegator", "delegator", "validator")>>
      [] s = "undelegate_missing" ->
            <<Fund("validator"), Fund("delegator"),
              Send("undelegate", "delegator", "delegator", "validator")>>

\* Fault: the account of a reused validator is torn down like one's own.
ReusedValidatorToo == {TheValidator}

\* The accounts torn down at the end of a scenario that met no error, and those
\* of them whose validator is disabled first.
OwnValidator == IF case.reuse THEN {} ELSE {"validator"}
TornDown ==
    CASE case.scenario = "create_invalid" -> {"sender"}
      [] case.scenario \in {"create", "create_exists", "edit_missing"} -> {"validator"}
      [] case.scenario = "create_bls" -> {"validator", "duplicate"}
      [] case.scenario = "edit" -> OwnValidator
      [] case.scenario = "edit_invalid" ->
            IF case.skipped THEN {} ELSE {"sender"} \cup OwnValidator
      [] OTHER -> {"delegator"} \cup OwnValidator
Disabled ==
    IF case.scenario = "create_exists" THEN {}
    ELSE IF case.scenario = "create_invalid" THEN {"validator"}
    ELSE TornDown \cap {"validator"}
----
Status == {"none", "active", "inactive"}
Transactions == [op : {"create", "edit", "delegate", "undelegate", "disable"}, who : Roles,
                 signer : Roles, bls : BLSKeys, step : 0 .. 6]

TypeOK ==
    /\ EditTypeOK
    /\ case \in Case
    /\ held \subseteq Roles
    /\ validators \in [Roles -> [status : Status, bls : BLSKeys]]
    /\ delegated \subseteq Roles
    /\ pending \subseteq Transactions /\ mined \subseteq Transactions

\* The keystore may have lost the key of the shared validator to an error of an
\* earlier test case.
Init ==
    /\ case \in [pc : {"funding"}, scenario : Scenarios, reuse : BOOLEAN, shared : BOOLEAN,
                 step : {1}, skipped : {FALSE}, earned : {TRUE}, error : {FALSE},
                 result : {FALSE}]
    /\ held \in SUBSET (IF case.shared THEN {"shared"} ELSE {})
    /\ validators = [a \in Roles |->
                        [status |-> IF a = "shared" /\ case.shared THEN "active" ELSE "none",
                         bls |-> "first"]]
    /\ delegated = {} /\ pending = {} /\ mined = {}
    /\ IF case.scenario = "edit"
       THEN \E asked, holding \in SUBSET Fields : EditInit(asked, holding)
       ELSE EditInit({}, {})

At(pc) == case.pc = pc
Instruction == Script(case.scenario)[case.step]
LastStep == case.step = Len(Script(case.scenario))

\* HandleError: Teardown of the account it is given removes the key.
HandleError(account) ==
    /\ case' = [case EXCEPT !.pc = "over", !.error = TRUE, !.result = FALSE]
    /\ held' = held \ {account}

\* ErrorOccurred, which also knows an error of the parameters, and
\* CalculateFundingDetails; then the script is entered, at the step after the
\* creation when there is a validator to reuse.
CheckFunding ==
    /\ At("funding")
    /\ \/ HandleError("nobody")
       \/ LET reused == case.scenario \in {"edit", "edit_invalid"} /\ TheValidator = "shared"
          IN  case' = [case EXCEPT !.pc = "step", !.step = IF reused THEN 3 ELSE 1]
          /\ UNCHANGED held
    /\ UNCHANGED <<editVars, chainVars>>

\* On to the next instruction, with the result so far, or to the end: a needed
\* transaction that did not work out leaves nothing to try.
Advance(ok, needed) ==
    case' = IF LastStep \/ (needed /\ ~ok)
            THEN [case EXCEPT !.pc = "teardown", !.skipped = ~LastStep,
                              !.result = LastStep /\ case.earned /\ ok]
            ELSE [case EXCEPT !.pc = "step", !.step = @ + 1, !.earned = @ /\ ok]

\* An error of GenerateAndFundAccount comes with an empty account, although the
\* key may have been generated.
GenerateAccount ==
    /\ At("step") /\ Instruction.op = "fund"
    /\ \/ held' = held \cup {Instruction.who} /\ Advance(TRUE, FALSE)
       \/ \E generated \in SUBSET {Instruction.who} :
             /\ case' = [case EXCEPT !.pc = "over", !.error = TRUE, !.result = FALSE]
             /\ held' = (held \cup generated) \ {Instruction.blame}
    /\ UNCHANGED <<editVars, chainVars>>

ThisTx == [op |-> Instruction.op, who |-> Instruction.who, signer |-> Instruction.signer,
           bls |-> Instruction.bls, step |-> case.step]

\* The transaction is signed and sent; an error may hide that it was accepted.
SendTransaction ==
    /\ At("step") /\ Instruction.op \notin {"fund", "edits"}
    /\ pending' \in {pending} \cup (IF Instruction.signer \in held THEN {pending \cup {ThisTx}}
                                                                   ELSE {})
    /\ \/ /\ pending' # pending
          /\ case' = [case EXCEPT !.pc = "answer"] /\ UNCHANGED held
       \/ HandleError(Instruction.blame)
    /\ UNCHANGED <<editVars, validators, delegated, mined>>

\* What the node may report of a transaction's outcome: an edit is not asked
\* about, and BasicUndelegation answers true whatever it is told.
Reports ==
    CASE Instruction.op = "create"   -> {FALSE, (validators[Instruction.who].status # "none")}
      [] Instruction.op = "delegate" -> {FALSE, (Instruction.who \in delegated)}
      [] OTHER -> {TRUE}

\* Fault: a receipt of another transaction of the same kind will do.
ReceiptsOfKind == {FALSE, (\E t \in mined : t.op = Instruction.op)}

\* The receipt may not be there before the timeout.
Receipts == {FALSE, (ThisTx \in mined)}

\* The receipt or the timeout, and the questions after it.
AnswerTransaction ==
    /\ At("answer")
    /\ \/ /\ \E receipt \in Receipts, report \in Reports, balance \in BOOLEAN :
                LET fact(w) == CASE w = "receipt" -> receipt
                                 [] w = "report"  -> report
                                 [] w = "balance" -> balance
                IN  Advance(\A w \in Instruction.weighs : fact(w), Instruction.needed)
          /\ UNCHANGED held
       \/ Instruction.asked /\ HandleError(Instruction.blame)
    /\ UNCHANGED <<editVars, chainVars>>

\* A step of the edit loop, which cannot sign without the validator's key.
EditLoop ==
    /\ At("step") /\ Instruction.op = "edits"
    /\ EditStep
    /\ edit.pc = "send" /\ TheValidator \notin held => edit'.error /\ tx' = tx
    /\ UNCHANGED <<case, held, chainVars>>

\* Out of the loop, by an error or with its result.
EditLoopOver ==
    /\ At("step") /\ Instruction.op = "edits" /\ edit.pc = "over"
    /\ IF edit.error THEN HandleError(TheValidator)
       ELSE Advance(edit.result, FALSE) /\ UNCHANGED held
    /\ UNCHANGED <<editVars, chainVars>>

\* Fault: the account of the wrong address is not torn down.
TeardownForgetting ==
    /\ At("teardown")
    /\ held' = held \ (TornDown \ {"sender"})
    /\ case' = [case EXCEPT !.pc = "over"]
    /\ UNCHANGED <<editVars, chainVars>>

\* DisableValidator, its outcome ignored, and Teardown.
TeardownAccounts ==
    /\ At("teardown")
    /\ \E sent \in SUBSET (Disabled \cap held) :
          pending' = pending \cup {[op |-> "disable", who |-> a, signer |-> a, bls |-> "first",
                                    step |-> 0] : a \in sent}
    /\ held' = held \ TornDown
    /\ case' = [case EXCEPT !.pc = "over"]
    /\ UNCHANGED <<editVars, validators, delegated, mined>>

\* The rules of the staking contract: a transaction is signed by the account it
\* is about, and what it is about is there, or not yet.
Exists(a) == validators[a].status # "none"
Allowed(t) ==
    /\ t.signer = t.who
    /\ t.op = "create" => ~Exists(t.who) /\ \A a \in Roles : Exists(a) => validators[a].bls # t.bls
    /\ t.op \in {"edit", "disable"} => Exists(t.who)
    /\ t.op = "delegate" => Exists("validator")
    /\ t.op = "undelegate" => t.who \in delegated

\* A block takes a transaction, whoever still waits for it; it may fail.  What a
\* disable leaves in the status, inactive, is or is not what an edit asked for.
MineStaking ==
    /\ \E t \in pending :
          /\ pending' = pending \ {t}
          /\ \/ UNCHANGED <<validators, delegated, mined, applied>>
             \/ /\ Allowed(t)
                /\ mined' = mined \cup {t}
                /\ validators' =
                      CASE t.op = "create"  -> [validators EXCEPT ![t.who] =
                                                   [status |-> "active", bls |-> t.bls]]
                        [] t.op = "disable" -> [validators EXCEPT ![t.who].status = "inactive"]
                        [] OTHER -> validators
                /\ delegated' = IF t.op = "delegate" THEN delegated \cup {t.who} ELSE delegated
                /\ applied' \in IF t.op = "disable"
                                THEN {applied \ {StatusField}, applied \cup {StatusField}}
                                ELSE {applied}
    /\ UNCHANGED <<edit, tx, case, held>>

Stopped == At("over") /\ UNCHANGED vars

CaseStep ==
    \/ CheckFunding \/ GenerateAccount \/ SendTransaction \/ AnswerTransaction
    \/ EditLoop \/ EditLoopOver \/ TeardownAccounts

Next ==
    \/ CaseStep
    \/ MineEdit /\ UNCHANGED <<case, held, chainVars>>
    \/ MineStaking
    \/ Stopped

\* The scenario runs on: every request comes back, with an answer or an error.
Spec == Init /\ [][Next]_vars /\ WF_vars(CaseStep)
----
\* The refusal scenarios expect the chain to say no, and never report a success,
\* however late the transactions before the refused one are mined.  In those
\* about a wrong signer that already goes for the validator they start from.
NothingRefusedSucceeds ==
    /\ case.scenario \in Refusals => ~case.result
    /\ case.scenario \in {"create_invalid", "delegate_invalid", "undelegate_invalid"} =>
          ~Exists("validator") /\ delegated = {}

\* The fields this test case may itself have overwritten since its last edit: the
\* teardown disables the validator.
DisabledFields == IF \E t \in mined : t.op = "disable" THEN {StatusField} ELSE {}

\* A positive result is what the chain says: the validator is there, created by
\* this test case; an edit was reported successful, every field of the test case
\* held its value when the validator was last read, and still does on the chain,
\* but for the status, once the teardown has disabled the validator.
ResultIsEarned ==
    case.result =>
        /\ case.scenario = "create" => Exists("validator") /\ \E t \in mined : t.op = "create"
        /\ case.scenario = "edit" =>
              /\ edit.success /\ edit.asked \subseteq edit.seen
              /\ edit.asked \ DisabledFields \subseteq applied

\* The comment of EvaluateChanges, editvalidatorparameters.go:121: "evaluates
\* which changes have taken place and if they were successful".  After every
\* edit it says yes exactly when all of them took place.
EvaluatesTheChanges ==
    edit.pc = "head" /\ edit.iteration > 0 => (edit.updated <=> edit.asked \subseteq edit.seen)

\* src/README.md:10: test accounts are removed from the keystore.  Of a test case
\* that met no error that holds for every account of the scenarios about creating
\* a validator and editing one that is not there, for every delegator, for the
\* wrong changer of an edit, and for a validator that is not kept for reuse -
\* not the one that a wrong sender created, nor the one of an edit that was
\* skipped.
AccountsRemoved ==
    At("over") /\ ~case.error =>
        /\ case.scenario \in {"create", "create_exists", "create_bls", "edit_missing"} =>
              held \subseteq {"shared"}
        /\ "delegator" \notin held
        /\ case.scenario = "edit_invalid" /\ ~case.skipped => "sender" \notin held
        /\ "validator" \in held =>
              \/ case.reuse
              \/ case.scenario = "create_invalid"
              \/ case.scenario = "edit_invalid" /\ case.skipped

\* The shared validator and its key outlive every test case that met no error.
SharedValidatorKept ==
    [][("shared" \in held /\ "shared" \notin held') => case'.error]_vars

\* Every test case comes to an end: the edit loop with Repeat edits, or with the
\* first that did not work; the scripts with their last transaction.
CaseEnds == <>At("over")

\* delegate/invalidaddress.go:17: "executes a delegation test case where the
\* delegator address isn't the sender address".  A test case that met no error
\* has sent that delegation.
TriesWhatItTests ==
    At("over") /\ ~case.error /\ case.scenario = "delegate_invalid" => ~case.skipped
====
