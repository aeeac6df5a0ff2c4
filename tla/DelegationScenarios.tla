---- MODULE DelegationScenarios ----
(***************************************************************************)
(* The staking scenarios that start from ReuseOrCreateValidator, run one   *)
(* after the other: delegate, undelegate, redelegate, redelegate in the    *)
(* next epoch, and edit validator.  What outlives a test case is the       *)
(* keystore, the chain, and Framework.CurrentValidator, the validator that *)
(* test cases with reuse_existing_validator share.  Balances are left out: *)
(* a teardown is the removal of a key.                                     *)
(***************************************************************************)
EXTENDS Integers, Sequences, FiniteSets

CONSTANTS
    Tests,      \* how many test cases are executed
    Scenarios,  \* the scenarios they may run
    WaitTurns,  \* the polls for the next epoch before the 900 seconds are over
    MaxEpoch    \* bound on the epochs of the chain

Cases == 1 .. Tests
AllScenarios == {"delegate", "undelegate", "redelegate", "next_epoch", "edit"}

ASSUME DelegationAssumption ==
    /\ Tests \in Nat \ {0} /\ Scenarios \subseteq AllScenarios
    /\ WaitTurns \in Nat /\ MaxEpoch \in Nat

VARIABLES
    current,    \* the test case that runs; 0 before the first
    case,       \* its locals
    held,       \* the accounts whose key is in the keystore: <<test case, role>>
    shared,     \* CurrentValidator: the test case that created it; 0 when nil
    validators, \* validators[t]: what the chain says of the validator of test case t
    pending,    \* the transactions the node has accepted and not yet mined
    mined,      \* the steps of the scripts that were mined successfully
    epoch       \* the epoch of the chain

chainVars == <<validators, pending, mined, epoch>>
vars == <<current, case, held, shared, chainVars>>

Validator(t) == <<t, "validator">>
Delegator(t) == <<t, "delegator">>

\* What a scenario asks of the chain once it has a validator.  The repeated
\* edits of Edit.Repeat are the subject of EditValidator.
Script(scenario) ==
    CASE scenario = "delegate"   -> <<"delegate">>
      [] scenario = "undelegate" -> <<"delegate", "undelegate">>
      [] scenario = "redelegate" -> <<"delegate", "undelegate", "delegate">>
      [] scenario = "next_epoch" -> <<"delegate", "undelegate", "delegate">>
      [] scenario = "edit"       -> <<"edit">>

CasePC == {"new", "funding", "validator", "create", "created", "delegator", "send", "answer",
           "epoch", "wait", "retry", "teardown", "over"}
Case == [pc : CasePC, scenario : AllScenarios, reuse : BOOLEAN, validator : 0 .. Tests,
         step : 1 .. 3, epoch : 0 .. MaxEpoch, waited : 0 .. WaitTurns,
         error : BOOLEAN, result : BOOLEAN]

\* A test case's transactions: those about its validator, and its steps 1, 2, 3.
Tx(t, op, step) == [owner |-> t, op |-> op, step |-> step]
Transactions == [owner : Cases, op : {"create", "disable", "step"}, step : 0 .. 3]

TypeOK ==
    /\ current \in 0 .. Tests /\ shared \in 0 .. Tests /\ epoch \in 0 .. MaxEpoch
    /\ case \in Case
    /\ held \subseteq Cases \X {"validator", "delegator"}
    /\ validators \in [Cases -> {"none", "active", "inactive"}]
    /\ pending \subseteq Transactions /\ mined \subseteq Transactions

NewCase == [pc |-> "new", scenario |-> "delegate", reuse |-> FALSE, validator |-> 0, step |-> 1,
            epoch |-> 0, waited |-> 0, error |-> FALSE, result |-> FALSE]

Init ==
    /\ current = 0 /\ case = NewCase
    /\ held = {} /\ shared = 0
    /\ validators = [t \in Cases |-> "none"]
    /\ pending = {} /\ mined = {} /\ epoch = 0

At(pc) == current > 0 /\ case.pc = pc
Goto(pc) == case' = [case EXCEPT !.pc = pc]
Failed == case' = [case EXCEPT !.pc = "over", !.error = TRUE, !.result = FALSE]

\* HandleError with the validator's account: its teardown removes the key, also
\* when the validator is the one other test cases share.
HandleErrorTearingDown(account) == Failed /\ held' = held \ {account}

\* The next test case; one whose parameters failed to initialize is over.
Begin ==
    /\ current < Tests
    /\ current = 0 \/ case.pc = "over"
    /\ current' = current + 1
    /\ \E s \in Scenarios, reuse, initialized \in BOOLEAN :
          case' = [NewCase EXCEPT !.pc = IF initialized THEN "funding" ELSE "over",
                                  !.scenario = s, !.reuse = reuse, !.error = ~initialized]
    /\ UNCHANGED <<held, shared, chainVars>>

\* CalculateFundingDetails.
CheckFunding ==
    /\ At("funding")
    /\ Goto("validator") \/ Failed
    /\ UNCHANGED <<current, held, shared, chainVars>>

AfterValidator == IF case.scenario = "edit" THEN "send" ELSE "delegator"

\* ReuseOrCreateValidator: the shared validator is taken as it is ...
ReuseValidator ==
    /\ At("validator")
    /\ case.reuse /\ shared # 0
    /\ case' = [case EXCEPT !.pc = AfterValidator, !.validator = shared]
    /\ UNCHANGED <<current, held, shared, chainVars>>

\* ... or an account is generated and funded; its error comes without the
\* account, although the key may have been generated ...
GenerateValidator ==
    /\ At("validator")
    /\ ~(case.reuse /\ shared # 0)
    /\ \/ held' = held \cup {Validator(current)}
          /\ case' = [case EXCEPT !.pc = "create", !.validator = current]
       \/ held' \in {held, held \cup {Validator(current)}} /\ Failed
    /\ UNCHANGED <<current, shared, chainVars>>

\* ... that sends the create validator transaction ...
CreateValidator ==
    /\ At("create")
    /\ pending' \in {pending, pending \cup {Tx(current, "create", 0)}}
    /\ \/ Goto("created") /\ UNCHANGED held
       \/ HandleErrorTearingDown(Validator(current))
    /\ UNCHANGED <<current, shared, validators, mined, epoch>>

\* ... and is shared when it was meant to be and the node says it exists.
ValidatorCreated ==
    /\ At("created")
    /\ LET exists == validators[current] = "active"
       IN  /\ Goto(IF exists THEN AfterValidator ELSE "teardown")
           /\ shared' = IF case.reuse /\ shared = 0 /\ exists THEN current ELSE shared
    /\ UNCHANGED <<current, held, chainVars>>

\* GenerateAndFundAccount: an error comes back with an empty account, so that
\* HandleError has no key to remove.
GenerateDelegator ==
    /\ At("delegator")
    /\ \/ held' = held \cup {Delegator(current)} /\ Goto("send")
       \/ held' \in {held, held \cup {Delegator(current)}} /\ Failed
    /\ UNCHANGED <<current, shared, chainVars>>

ThisStep == Tx(current, "step", case.step)
Request == Script(case.scenario)[case.step]
Signer == IF Request = "edit" THEN Validator(case.validator) ELSE Delegator(current)

\* A step of the script is signed and sent, or comes back with an error; that
\* error may hide that the node accepted it.
SendStep ==
    /\ At("send")
    /\ pending' \in {pending} \cup (IF Signer \in held THEN {pending \cup {ThisStep}}
                                                       ELSE {})
    /\ \/ pending' # pending /\ Goto("answer") /\ UNCHANGED held
       \/ HandleErrorTearingDown(Validator(case.validator))
    /\ UNCHANGED <<current, shared, validators, mined, epoch>>

\* Where the scenario goes from a step that succeeded or not, and its result:
\* that of the last step, and of what the node reports after it.
LastStep == case.step = Len(Script(case.scenario))
Advance(success, reported) ==
    LET next == [case EXCEPT !.pc = "send", !.step = @ + 1]
        stop == [case EXCEPT !.pc = "teardown", !.result = LastStep /\ success /\ reported]
    IN  case' = IF LastStep THEN stop
                ELSE IF case.scenario = "undelegate" /\ ~(success /\ reported) THEN stop
                ELSE IF case.scenario = "next_epoch" /\ case.step = 2
                     THEN [case EXCEPT !.pc = "epoch"]
                ELSE next

\* What the node may report of a step: BasicUndelegation looks at the
\* undelegations it is told of, but answers true whatever they are.
Reports == IF Request = "undelegate" THEN {TRUE} ELSE BOOLEAN

\* Fault: any earlier transaction of the test case counts as this one's success.
AnswerAnyStep ==
    /\ At("answer")
    /\ \/ \E success \in {FALSE, \E tx \in mined : tx.owner = current}, reported \in Reports :
             Advance(success, reported) /\ UNCHANGED held
       \/ HandleErrorTearingDown(Validator(case.validator))
    /\ UNCHANGED <<current, shared, chainVars>>

\* Fault: a step that was not successful is sent again.
AnswerRetrying ==
    /\ At("answer")
    /\ \/ ThisStep \in mined /\ Advance(TRUE, TRUE)
       \/ Goto("send")
    /\ UNCHANGED <<current, held, shared, chainVars>>

\* The receipt, or the timeout of the step; then the node is asked what became
\* of it, which may end in an error.
AnswerStep ==
    /\ At("answer")
    /\ \/ \E success \in {FALSE, (ThisStep \in mined)}, reported \in Reports :
             Advance(success, reported) /\ UNCHANGED held
       \/ HandleErrorTearingDown(Validator(case.validator))
    /\ UNCHANGED <<current, shared, chainVars>>

\* Five attempts to read the epoch.  In epoch 0 HandleError gets a nil error
\* and does nothing at all: the scenario just returns.
ReadEpoch ==
    /\ At("epoch")
    /\ \/ epoch > 0 /\ case' = [case EXCEPT !.pc = "wait", !.epoch = epoch] /\ UNCHANGED held
       \/ epoch = 0 /\ Goto("over") /\ UNCHANGED held
       \/ HandleErrorTearingDown(Validator(case.validator))
    /\ UNCHANGED <<current, shared, chainVars>>

\* The loop that waits for the next epoch.  An error asks again at once; after
\* the time is over HandleError gets the nil error of an earlier call.
WaitForEpoch ==
    /\ At("wait")
    /\ \/ Goto("retry")
       \/ epoch > case.epoch /\ case' = [case EXCEPT !.pc = "send", !.step = @ + 1]
       \/ epoch = case.epoch /\ case' = IF case.waited < WaitTurns
                                        THEN [case EXCEPT !.waited = @ + 1]
                                        ELSE [case EXCEPT !.pc = "over"]
    /\ UNCHANGED <<current, held, shared, chainVars>>

WaitContinue ==
    /\ At("retry")
    /\ Goto("wait")
    /\ UNCHANGED <<current, held, shared, chainVars>>

\* Fault: the validator is disabled also when it is for reuse.
TeardownDisabling ==
    /\ At("teardown")
    /\ held' = held \ {Delegator(current), Validator(case.validator)}
    /\ pending' \in {pending, pending \cup {Tx(case.validator, "disable", 0)}}
    /\ Goto("over")
    /\ UNCHANGED <<current, shared, validators, mined, epoch>>

\* Fault: only the delegator is torn down.
TeardownDelegator ==
    /\ At("teardown")
    /\ held' = held \ {Delegator(current)}
    /\ Goto("over")
    /\ UNCHANGED <<current, shared, chainVars>>

\* The delegator is torn down; a validator that is not for reuse is disabled,
\* with the outcome ignored, and torn down as well.
TeardownAccounts ==
    /\ At("teardown")
    /\ IF case.reuse
       THEN held' = held \ {Delegator(current)} /\ UNCHANGED pending
       ELSE /\ held' = held \ {Delegator(current), Validator(case.validator)}
            /\ pending' \in {pending, pending \cup {Tx(case.validator, "disable", 0)}}
    /\ Goto("over")
    /\ UNCHANGED <<current, shared, validators, mined, epoch>>

\* A block takes a transaction, which may fail, whoever still waits for it.
MineStaking ==
    /\ \E tx \in pending :
          /\ pending' = pending \ {tx}
          /\ \/ UNCHANGED <<validators, mined>>
             \/ tx.op = "create" /\ validators' = [validators EXCEPT ![tx.owner] = "active"]
                /\ UNCHANGED mined
             \/ tx.op = "disable" /\ validators[tx.owner] = "active"
                /\ validators' = [validators EXCEPT ![tx.owner] = "inactive"] /\ UNCHANGED mined
             \/ tx.op = "step" /\ mined' = mined \cup {tx} /\ UNCHANGED validators
    /\ UNCHANGED <<current, case, held, shared, epoch>>

NextEpoch ==
    /\ epoch < MaxEpoch
    /\ epoch' = epoch + 1
    /\ UNCHANGED <<current, case, held, shared, validators, pending, mined>>

CaseStep ==
    \/ CheckFunding \/ ReuseValidator \/ GenerateValidator \/ CreateValidator
    \/ ValidatorCreated \/ GenerateDelegator \/ SendStep \/ AnswerStep \/ ReadEpoch
    \/ WaitForEpoch \/ WaitContinue \/ TeardownAccounts

AllOver == current = Tests /\ case.pc = "over"
Stopped == AllOver /\ UNCHANGED vars

Next == Begin \/ CaseStep \/ MineStaking \/ NextEpoch \/ Stopped

\* The one goroutine of the program runs on: every request to the node comes
\* back, with an answer or an error.  The chain promises nothing.
Fairness == WF_vars(Begin \/ CaseStep)

Spec == Init /\ [][Next]_vars /\ Fairness
----
\* A positive result rests on the last step of the script: it was mined, on
\* behalf of this test case and, for the locked tokens, in a later epoch than
\* the one the undelegation was seen in.
ResultIsEarned ==
    case.result =>
        /\ Tx(current, "step", Len(Script(case.scenario))) \in mined
        /\ ~case.error
        /\ case.scenario = "next_epoch" => epoch > case.epoch /\ case.epoch > 0

\* No test case disables the validator that is shared: one that creates its own
\* leaves CurrentValidator alone, and what it disables is never handed out.
SharedValidatorStaysActive ==
    shared # 0 => validators[shared] = "active" /\ Tx(shared, "disable", 0) \notin pending

\* Without an error no delegator stays behind, nor a validator of the test
\* case's own - as long as the epoch wait is not involved.
CleanWithoutError ==
    At("over") /\ ~case.error /\ case.scenario # "next_epoch" =>
        /\ Delegator(current) \notin held
        /\ ~case.reuse => Validator(current) \notin held

\* Every test case comes to an end.  nextepoch.go:156 promises it for the wait
\* as well: "Have not reach next epoch before timeout %d seconds".
EveryCaseEnds == \A t \in Cases : current = t ~> (current = t /\ case.pc = "over")

\* What the wait really promises: if the epoch can be read from some time on,
\* the next epoch or the timeout ends the wait, and every test case ends.
EndsOnceEpochsAreRead == <>[](~At("retry")) => EveryCaseEnds
====
