---- MODULE DelegationProofs ----
(***************************************************************************)
(* DelegationScenarios for any number of test cases, any scenarios, polls  *)
(* and epochs: what a positive result rests on, what becomes of the        *)
(* validator that test cases share, and the keys a test case leaves.       *)
(***************************************************************************)
EXTENDS DelegationScenarios, TLAPS

\* Every record has its type, and a test case only asks for steps of its script.
Typed ==
    /\ TypeOK
    /\ case.step \in 1 .. Len(Script(case.scenario))

\* Errors leave the scenario, and a result is the last thing a test case gets.
\* The epoch is read after the second step of next_epoch, and its third step
\* waits for a later one.
ResultInv ==
    /\ case.error => case.pc = "over"
    /\ case.result => case.pc \in {"teardown", "over"}
    /\ case.pc \in {"epoch", "wait", "retry"} => case.scenario = "next_epoch" /\ case.step = 2
    /\ case.pc \in {"wait", "retry"} => case.epoch > 0
    /\ case.scenario = "next_epoch" /\ case.step = 3 => epoch > case.epoch /\ case.epoch > 0
    /\ ResultIsEarned

\* A test case at work on a validator that is not for reuse works on its own,
\* which is not the shared one; it disables it as the last thing it does.
AtWork == {"create", "created", "delegator", "send", "answer", "epoch", "wait", "retry", "teardown"}

DisabledLast ==
    \A tx \in pending : tx.op = "disable" =>
        /\ tx.owner # shared
        /\ tx.owner < current \/ (tx.owner = current /\ case.pc = "over")

SharedInv ==
    /\ shared <= current
    /\ shared # 0 => validators[shared] = "active"
    /\ current # 0 /\ shared = current => case.reuse
    /\ case.pc \in AtWork /\ ~case.reuse => case.validator = current
    /\ case.pc \in AtWork => current # 0
    /\ DisabledLast

Inv == Typed /\ ResultInv /\ SharedInv /\ CleanWithoutError

\* What Inv says of the types, spelt out.
LEMMA Types ==
    ASSUME Inv
    PROVE  /\ current \in 0 .. Tests /\ Tests \in Nat /\ shared \in 0 .. Tests /\ epoch \in 0 .. MaxEpoch
           /\ MaxEpoch \in Nat /\ WaitTurns \in Nat
           /\ case \in Case /\ case.step \in 1 .. 3 /\ case.validator \in 0 .. Tests
           /\ held \subseteq Cases \X {"validator", "delegator"}
           /\ validators \in [Cases -> {"none", "active", "inactive"}]
           /\ pending \subseteq Transactions /\ mined \subseteq Transactions
           /\ current # 0 => current \in Cases
           /\ shared # 0 => shared \in Cases
    BY DelegationAssumption DEF Inv, Typed, TypeOK, Case, Cases

\* The steps of a test case that go on to the next request, or fail at it.
LEMMA Moves ==
    ASSUME Inv, current # 0, case.pc \notin {"new", "over", "teardown"},
           NEW pc \in CasePC \ {"new", "over", "epoch", "wait", "retry"},
           pc \in AtWork => case.pc \in AtWork, Goto(pc) \/ Failed,
           UNCHANGED <<current, shared, validators, mined, epoch>>,
           held' \subseteq Cases \X {"validator", "delegator"},
           pending' \subseteq Transactions, \A tx \in pending' \ pending : tx.op # "disable"
    PROVE  Inv'
<1>1. /\ case' \in Case /\ case'.scenario = case.scenario /\ case'.step = case.step
      /\ case'.epoch = case.epoch /\ case'.reuse = case.reuse /\ case'.validator = case.validator
      /\ ~case'.result
      /\ (case'.pc = pc /\ ~case'.error) \/ (case'.pc = "over" /\ case'.error)
    <2>1. case \in Case /\ ~case.error /\ ~case.result
        BY Types DEF Inv, ResultInv
    <2>2. CASE Goto(pc)
        BY <2>1, <2>2 DEF Goto, Case
    <2>3. CASE Failed
        BY <2>1, <2>3 DEF Failed, Case, CasePC
    <2> QED BY <2>2, <2>3
<1>2. Typed'
    BY <1>1, Types DEF Inv, Typed, TypeOK
<1>3. ResultInv'
    BY <1>1 DEF Inv, ResultInv, ResultIsEarned
<1>4. SharedInv'
    BY <1>1, Types DEF Inv, SharedInv, DisabledLast, AtWork
<1>5. CleanWithoutError'
    BY <1>1 DEF CleanWithoutError, At
<1> QED BY <1>2, <1>3, <1>4, <1>5 DEF Inv

\* Up to the first request of the script.
LEMMA OpeningInv ==
    ASSUME Inv, CheckFunding \/ ReuseValidator \/ GenerateValidator \/ CreateValidator
                \/ ValidatorCreated \/ GenerateDelegator
    PROVE  Inv'
<1> USE Types
<1>0. Validator(current) \in Cases \X {"validator", "delegator"} \/ current = 0
    BY DEF Validator
<1>1. CASE CheckFunding
    BY <1>1, Moves DEF CheckFunding, At, chainVars, CasePC, AtWork
<1>2. CASE ReuseValidator
    <2>1. /\ case' \in Case /\ case'.scenario = case.scenario /\ case'.step = case.step
          /\ case'.epoch = case.epoch /\ case'.reuse = case.reuse /\ case'.validator = shared
          /\ case'.result = case.result /\ case'.error = case.error /\ case'.pc \in {"send", "delegator"}
        BY <1>2 DEF ReuseValidator, AfterValidator, Case, CasePC
    <2>2. /\ case.reuse /\ current # 0 /\ case.pc = "validator"
          /\ UNCHANGED <<current, held, shared, validators, pending, mined, epoch>>
        BY <1>2 DEF ReuseValidator, At, chainVars
    <2>3. Typed'
        BY <2>1, <2>2 DEF Inv, Typed, TypeOK
    <2>4. ResultInv'
        BY <2>1, <2>2 DEF Inv, ResultInv, ResultIsEarned
    <2>5. SharedInv'
        BY <2>1, <2>2 DEF Inv, SharedInv, DisabledLast, AtWork
    <2> QED BY <2>1, <2>3, <2>4, <2>5 DEF Inv, CleanWithoutError, At
<1>3. CASE GenerateValidator
    <2>1. /\ case.pc = "validator" /\ current # 0 /\ held' \subseteq Cases \X {"validator", "delegator"}
          /\ UNCHANGED <<current, shared, validators, pending, mined, epoch>>
        BY <1>0, <1>3 DEF GenerateValidator, At, chainVars
    <2>2. CASE Failed
        BY <2>1, <2>2, Moves DEF CasePC, AtWork
    <2>3. CASE case' = [case EXCEPT !.pc = "create", !.validator = current]
        <3>1. /\ case' \in Case /\ case'.scenario = case.scenario /\ case'.step = case.step
              /\ case'.epoch = case.epoch /\ case'.reuse = case.reuse /\ case'.validator = current
              /\ case'.result = case.result /\ case'.error = case.error /\ case'.pc = "create"
            BY <2>3 DEF Case, CasePC
        <3>2. Typed'
            BY <2>1, <3>1 DEF Inv, Typed, TypeOK
        <3>3. ResultInv'
            BY <2>1, <3>1 DEF Inv, ResultInv, ResultIsEarned
        <3>4. SharedInv'
            BY <2>1, <3>1 DEF Inv, SharedInv, DisabledLast, AtWork
        <3> QED BY <3>1, <3>2, <3>3, <3>4 DEF Inv, CleanWithoutError, At
    <2> QED BY <1>3, <2>2, <2>3 DEF GenerateValidator
<1>4. CASE CreateValidator
    <2>1. /\ case.pc = "create" /\ current # 0 /\ held' \subseteq held
          /\ UNCHANGED <<current, shared, validators, mined, epoch>>
          /\ Goto("created") \/ Failed
        BY <1>4 DEF CreateValidator, At, HandleErrorTearingDown
    <2>2. pending' \subseteq Transactions /\ \A tx \in pending' \ pending : tx.op # "disable"
        BY <1>4, <2>1 DEF CreateValidator, Tx, Transactions
    <2> QED BY <2>1, <2>2, Moves DEF CasePC, AtWork
<1>5. CASE ValidatorCreated
    <2> DEFINE exists == validators[current] = "active"
               pc == IF exists THEN AfterValidator ELSE "teardown"
    <2>1. /\ case.pc = "created" /\ current # 0 /\ pc \in {"send", "delegator", "teardown"} /\ Goto(pc)
          /\ UNCHANGED <<current, held, validators, pending, mined, epoch>>
          /\ shared' = shared \/ (shared' = current /\ shared = 0 /\ case.reuse /\ exists)
        BY <1>5 DEF ValidatorCreated, At, AfterValidator, chainVars
    <2> HIDE DEF pc
    <2>2. /\ case' \in Case /\ case'.scenario = case.scenario /\ case'.step = case.step
          /\ case'.epoch = case.epoch /\ case'.reuse = case.reuse /\ case'.validator = case.validator
          /\ case'.result = case.result /\ case'.error = case.error /\ case'.pc = pc
        BY <2>1 DEF Goto, Case, CasePC
    <2>3. Typed'
        BY <2>1, <2>2 DEF Inv, Typed, TypeOK
    <2>4. ResultInv'
        BY <2>1, <2>2 DEF Inv, ResultInv, ResultIsEarned
    <2>5. DisabledLast'
        BY <2>1, <2>2 DEF Inv, SharedInv, DisabledLast, Transactions
    <2>6. SharedInv'
        BY <2>1, <2>2, <2>5 DEF Inv, SharedInv, AtWork
    <2> QED BY <2>1, <2>2, <2>3, <2>4, <2>6 DEF Inv, CleanWithoutError, At
<1>6. CASE GenerateDelegator
    <2>1. /\ case.pc = "delegator" /\ current # 0 /\ (Goto("send") \/ Failed)
          /\ held' \subseteq Cases \X {"validator", "delegator"}
          /\ UNCHANGED <<current, shared, validators, pending, mined, epoch>>
        BY <1>6 DEF GenerateDelegator, At, Delegator, chainVars
    <2> QED BY <2>1, Moves DEF CasePC, AtWork
<1> QED BY <1>1, <1>2, <1>3, <1>4, <1>5, <1>6

\* The requests of the script, their answers, and the wait for the next epoch.
LEMMA ScriptInv ==
    ASSUME Inv, SendStep \/ AnswerStep \/ ReadEpoch \/ WaitForEpoch \/ WaitContinue
    PROVE  Inv'
<1> USE Types
\* A step of the script's own: it changes nothing but the test case.
<1>0. ASSUME UNCHANGED <<current, shared, validators, pending, mined, epoch, held>>, current # 0,
             case.pc \in AtWork, case' \in Case, case'.scenario = case.scenario,
             case'.reuse = case.reuse, case'.validator = case.validator,
             case'.step \in 1 .. Len(Script(case.scenario)), ResultInv',
             case'.pc = "over" => case.scenario = "next_epoch", case'.pc \in AtWork \cup {"over"}
      PROVE  Inv'
    <2>1. Typed'
        BY <1>0 DEF Inv, Typed, TypeOK
    <2>2. DisabledLast'
        BY <1>0 DEF Inv, SharedInv, DisabledLast, AtWork
    <2>3. SharedInv'
        BY <1>0, <2>2 DEF Inv, SharedInv, AtWork
    <2> QED BY <1>0, <2>1, <2>3 DEF Inv, CleanWithoutError, At
<1>1. CASE SendStep
    <2>1. /\ case.pc = "send" /\ current # 0 /\ held' \subseteq held
          /\ UNCHANGED <<current, shared, validators, mined, epoch>>
          /\ Goto("answer") \/ Failed
        BY <1>1 DEF SendStep, At, HandleErrorTearingDown
    <2>2. ThisStep \in Transactions /\ ThisStep.op = "step"
        BY <2>1 DEF ThisStep, Tx, Transactions
    <2>3. pending' \in {pending, pending \cup {ThisStep}}
        BY <1>1 DEF SendStep
    <2> QED BY <2>1, <2>2, <2>3, Moves DEF CasePC, AtWork
<1>2. CASE AnswerStep
    <2>1. /\ case.pc = "answer" /\ current # 0
          /\ UNCHANGED <<current, shared, validators, pending, mined, epoch>>
        BY <1>2 DEF AnswerStep, At, chainVars
    <2>2. CASE HandleErrorTearingDown(Validator(case.validator))
        BY <2>1, <2>2, Moves DEF HandleErrorTearingDown, CasePC, AtWork
    <2>3. CASE \E success \in {FALSE, (ThisStep \in mined)}, reported \in Reports :
                  Advance(success, reported) /\ UNCHANGED held
        <3> DEFINE done == ThisStep \in mined
        <3>1. PICK success \in {FALSE, done}, reported \in BOOLEAN : Advance(success, reported)
            BY <2>3 DEF Reports
        <3>0. done \in BOOLEAN
            OBVIOUS
        <3> HIDE DEF done
        <3>a. success \in BOOLEAN /\ (success => done)
            <4>1. CASE success = FALSE
                BY <4>1
            <4>2. CASE success = done
                BY <3>0, <4>2
            <4> QED BY <3>1, <4>1, <4>2
        <3>2. ~case.error /\ ~case.result /\ case \in Case
            BY <2>1 DEF Inv, ResultInv
        <3> DEFINE right == LastStep /\ success /\ reported
        <3>3. right \in BOOLEAN /\ (right => case.step = Len(Script(case.scenario)) /\ done)
            BY <3>1, <3>a DEF LastStep
        <3> HIDE DEF right
        \* It stops with a result,
        <3>4. CASE case' = [case EXCEPT !.pc = "teardown", !.result = right]
            <4>1. /\ case' \in Case /\ case'.scenario = case.scenario /\ case'.reuse = case.reuse
                  /\ case'.validator = case.validator /\ case'.step = case.step /\ ~case'.error
                  /\ case'.epoch = case.epoch /\ case'.pc = "teardown" /\ case'.result = right
                BY <3>2, <3>3, <3>4 DEF Case, CasePC
            <4>2. right => Tx(current, "step", Len(Script(case.scenario))) \in mined
                BY <3>3 DEF done, ThisStep
            <4>3. right /\ case.scenario = "next_epoch" => epoch > case.epoch /\ case.epoch > 0
                BY <3>3 DEF Inv, ResultInv, Script
            <4>4. ResultInv'
                BY <2>1, <4>1, <4>2, <4>3 DEF Inv, ResultInv, ResultIsEarned
            <4> QED BY <1>0, <2>1, <2>3, <4>1, <4>4 DEF Inv, Typed, AtWork
        \* goes on to read the epoch,
        <3>5. CASE /\ case' = [case EXCEPT !.pc = "epoch"]
                   /\ case.scenario = "next_epoch" /\ case.step = 2
            <4>1. /\ case' \in Case /\ case'.scenario = case.scenario /\ case'.reuse = case.reuse
                  /\ case'.validator = case.validator /\ case'.step = case.step /\ ~case'.error
                  /\ case'.epoch = case.epoch /\ case'.pc = "epoch" /\ ~case'.result
                BY <3>2, <3>5 DEF Case, CasePC
            <4>2. ResultInv'
                BY <2>1, <3>5, <4>1 DEF Inv, ResultInv, ResultIsEarned
            <4> QED BY <1>0, <2>1, <2>3, <4>1, <4>2 DEF Inv, Typed, AtWork
        \* or to the next step.
        <3>6. CASE /\ case' = [case EXCEPT !.pc = "send", !.step = @ + 1] /\ ~LastStep
                   /\ ~(case.scenario = "next_epoch" /\ case.step = 2)
            <4>1. case.step + 1 \in 1 .. Len(Script(case.scenario)) /\ case.step + 1 \in 1 .. 3
                BY <3>2, <3>6 DEF LastStep, Inv, Typed, Script, Case, AllScenarios
            <4>2. /\ case' \in Case /\ case'.scenario = case.scenario /\ case'.reuse = case.reuse
                  /\ case'.validator = case.validator /\ case'.step = case.step + 1 /\ ~case'.error
                  /\ case'.epoch = case.epoch /\ case'.pc = "send" /\ ~case'.result
                BY <3>2, <3>6, <4>1 DEF Case, CasePC
            <4>3. ResultInv'
                BY <2>1, <3>6, <4>2 DEF Inv, ResultInv, ResultIsEarned
            <4> QED BY <1>0, <2>1, <2>3, <4>1, <4>2, <4>3 DEF AtWork
        <3>7. UNCHANGED held /\ (LastStep /\ success /\ reported) = right
            BY <2>3 DEF right
        <3> QED BY <3>1, <3>4, <3>5, <3>6, <3>7 DEF Advance
    <2> QED BY <1>2, <2>2, <2>3 DEF AnswerStep
<1>3. CASE ReadEpoch
    <2>1. /\ case.pc = "epoch" /\ current # 0 /\ case.scenario = "next_epoch" /\ case.step = 2
          /\ ~case.error /\ ~case.result
          /\ UNCHANGED <<current, shared, validators, pending, mined, epoch>>
        BY <1>3 DEF ReadEpoch, At, chainVars, Inv, ResultInv
    <2>2. CASE HandleErrorTearingDown(Validator(case.validator))
        BY <2>1, <2>2, Moves DEF HandleErrorTearingDown, CasePC, AtWork
    <2>3. CASE /\ epoch > 0 /\ case' = [case EXCEPT !.pc = "wait", !.epoch = epoch] /\ UNCHANGED held
        <3>1. /\ case' \in Case /\ case'.scenario = case.scenario /\ case'.reuse = case.reuse
              /\ case'.validator = case.validator /\ case'.step = case.step /\ ~case'.error
              /\ case'.epoch = epoch /\ case'.pc = "wait" /\ ~case'.result
            BY <2>1, <2>3 DEF Case, CasePC
        <3>2. ResultInv'
            BY <2>1, <2>3, <3>1 DEF Inv, ResultInv, ResultIsEarned
        <3> QED BY <1>0, <2>1, <2>3, <3>1, <3>2 DEF Inv, Typed, AtWork
    <2>4. CASE Goto("over") /\ UNCHANGED held
        <3>1. /\ case' \in Case /\ case'.scenario = case.scenario /\ case'.reuse = case.reuse
              /\ case'.validator = case.validator /\ case'.step = case.step /\ ~case'.error
              /\ case'.epoch = case.epoch /\ case'.pc = "over" /\ ~case'.result
            BY <2>1, <2>4 DEF Goto, Case, CasePC
        <3>2. ResultInv'
            BY <2>1, <3>1 DEF Inv, ResultInv, ResultIsEarned
        <3> QED BY <1>0, <2>1, <2>4, <3>1, <3>2 DEF Inv, Typed, AtWork
    <2> QED BY <1>3, <2>2, <2>3, <2>4 DEF ReadEpoch
<1>4. CASE WaitForEpoch \/ WaitContinue
    <2>1. /\ case.pc \in {"wait", "retry"} /\ current # 0 /\ case.scenario = "next_epoch" /\ case.step = 2
          /\ ~case.error /\ ~case.result /\ case.epoch > 0
          /\ UNCHANGED <<current, shared, validators, pending, mined, epoch, held>>
        BY <1>4 DEF WaitForEpoch, WaitContinue, At, chainVars, Inv, ResultInv
    <2>2. /\ case' \in Case /\ case'.scenario = case.scenario /\ case'.reuse = case.reuse
          /\ case'.validator = case.validator /\ ~case'.error /\ ~case'.result
          /\ case'.epoch = case.epoch
          /\ \/ case'.pc \in {"wait", "retry", "over"} /\ case'.step = 2
             \/ case'.pc = "send" /\ case'.step = 3 /\ epoch > case.epoch
        <3>1. CASE Goto("retry") \/ Goto("wait")
            BY <2>1, <3>1 DEF Goto, Case, CasePC
        <3>2. CASE epoch > case.epoch /\ case' = [case EXCEPT !.pc = "send", !.step = @ + 1]
            <4>1. case' = [case EXCEPT !.pc = "send", !.step = 3] /\ 3 \in 1 .. 3
                BY <2>1, <3>2
            <4> QED BY <2>1, <3>2, <4>1 DEF Case, CasePC
        <3>3. CASE case.waited < WaitTurns /\ case' = [case EXCEPT !.waited = @ + 1]
            <4>1. case.waited + 1 \in 0 .. WaitTurns
                BY <3>3 DEF Case
            <4> QED BY <2>1, <3>3, <4>1 DEF Case, CasePC
        <3>4. CASE case' = [case EXCEPT !.pc = "over"]
            BY <2>1, <3>4 DEF Case, CasePC
        <3> QED BY <1>4, <3>1, <3>2, <3>3, <3>4 DEF WaitForEpoch, WaitContinue
    <2>3. case'.step \in 1 .. Len(Script(case.scenario))
        BY <2>1, <2>2 DEF Script
    <2>4. ResultInv'
        BY <2>1, <2>2 DEF Inv, ResultInv, ResultIsEarned
    <2> QED BY <1>0, <2>1, <2>2, <2>3, <2>4 DEF AtWork
<1> QED BY <1>1, <1>2, <1>3, <1>4

\* The teardown of the accounts, and what it does to the validator.
LEMMA TeardownInv == ASSUME Inv, TeardownAccounts PROVE Inv'
<1> USE Types
<1>1. /\ case.pc = "teardown" /\ current # 0 /\ Goto("over")
      /\ UNCHANGED <<current, shared, validators, mined, epoch>>
    BY DEF TeardownAccounts, At
<1>2. /\ case' \in Case /\ case'.scenario = case.scenario /\ case'.reuse = case.reuse
      /\ case'.validator = case.validator /\ case'.step = case.step /\ ~case'.error
      /\ case'.epoch = case.epoch /\ case'.pc = "over" /\ case'.result = case.result
    BY <1>1 DEF Goto, Case, CasePC, Inv, ResultInv
<1>3. ResultInv'
    BY <1>1, <1>2 DEF Inv, ResultInv, ResultIsEarned
<1>4. CASE case.reuse
    <2>1. held' = held \ {Delegator(current)} /\ UNCHANGED pending
        BY <1>4 DEF TeardownAccounts
    <2>2. DisabledLast' /\ Typed'
        BY <1>1, <1>2, <2>1 DEF Inv, SharedInv, DisabledLast, Typed, TypeOK
    <2>3. SharedInv'
        BY <1>1, <1>2, <2>2 DEF Inv, SharedInv, AtWork
    <2> QED BY <1>1, <1>2, <1>3, <1>4, <2>1, <2>2, <2>3 DEF Inv, CleanWithoutError, At, Delegator
<1>5. CASE ~case.reuse
    <2>1. /\ held' = held \ {Delegator(current), Validator(case.validator)}
          /\ pending' \in {pending, pending \cup {Tx(case.validator, "disable", 0)}}
        BY <1>5 DEF TeardownAccounts
    <2>2. case.validator = current /\ shared # current
        BY <1>1, <1>5 DEF Inv, SharedInv, AtWork
    <2>3. Tx(current, "disable", 0) \in Transactions /\ Tx(current, "disable", 0).owner = current
        BY <1>1 DEF Tx, Transactions
    <2>4. DisabledLast'
        BY <1>1, <1>2, <2>1, <2>2, <2>3 DEF Inv, SharedInv, DisabledLast
    <2>5. Typed'
        BY <1>1, <1>2, <2>1, <2>2, <2>3 DEF Inv, Typed, TypeOK
    <2>6. SharedInv'
        BY <1>1, <1>2, <1>5, <2>2, <2>4 DEF Inv, SharedInv, AtWork
    <2>7. CleanWithoutError'
        BY <1>1, <2>1, <2>2 DEF CleanWithoutError, Delegator, Validator
    <2> QED BY <1>3, <2>5, <2>6, <2>7 DEF Inv
<1> QED BY <1>4, <1>5

\* The next test case.
LEMMA BeginInv == ASSUME Inv, Begin PROVE Inv'
<1> USE Types
<1>1. PICK s \in Scenarios, reuse \in BOOLEAN, initialized \in BOOLEAN :
          case' = [NewCase EXCEPT !.pc = IF initialized THEN "funding" ELSE "over",
                                  !.scenario = s, !.reuse = reuse, !.error = ~initialized]
    BY DEF Begin
<1>2. /\ current' = current + 1 /\ current' \in 1 .. Tests
      /\ UNCHANGED <<held, shared, validators, pending, mined, epoch>>
    BY DEF Begin, chainVars
<1>3. /\ case' \in Case /\ case'.step = 1 /\ ~case'.result /\ case'.scenario \in AllScenarios
      /\ case'.pc \in {"funding", "over"} /\ (case'.error <=> case'.pc = "over")
    <2> DEFINE pc == IF initialized THEN "funding" ELSE "over"
               error == ~initialized
    <2>1. /\ pc \in {"funding", "over"} /\ error \in BOOLEAN /\ (error <=> pc = "over")
          /\ s \in AllScenarios /\ 0 \in 0 .. Tests /\ 0 \in 0 .. MaxEpoch /\ 0 \in 0 .. WaitTurns
        BY DelegationAssumption
    <2>2. case' = [pc |-> pc, scenario |-> s, reuse |-> reuse, validator |-> 0, step |-> 1,
                   epoch |-> 0, waited |-> 0, error |-> error, result |-> FALSE]
        BY <1>1 DEF NewCase
    <2> HIDE DEF pc, error
    <2> QED BY <2>1, <2>2 DEF Case, CasePC
<1>4. 1 \in 1 .. Len(Script(case'.scenario))
    BY <1>3 DEF Script, AllScenarios
<1>5. Typed'
    BY <1>2, <1>3, <1>4 DEF Inv, Typed, TypeOK
<1>6. ResultInv'
    BY <1>3 DEF ResultInv, ResultIsEarned
<1>7. DisabledLast'
    BY <1>2, <1>3 DEF Inv, SharedInv, DisabledLast, Transactions, Cases
<1>8. SharedInv'
    BY <1>2, <1>3, <1>7 DEF Inv, SharedInv, AtWork
<1> QED BY <1>3, <1>5, <1>6, <1>8 DEF Inv, CleanWithoutError, At

\* The chain: it disables no validator that is shared.
LEMMA ChainInv == ASSUME Inv, MineStaking \/ NextEpoch PROVE Inv'
<1> USE Types
<1>1. CASE MineStaking
    <2>1. UNCHANGED <<current, case, held, shared, epoch>>
        BY <1>1 DEF MineStaking
    <2>2. PICK tx \in pending :
              /\ pending' = pending \ {tx}
              /\ \/ UNCHANGED <<validators, mined>>
                 \/ tx.op = "create" /\ validators' = [validators EXCEPT ![tx.owner] = "active"]
                    /\ UNCHANGED mined
                 \/ tx.op = "disable" /\ validators[tx.owner] = "active"
                    /\ validators' = [validators EXCEPT ![tx.owner] = "inactive"] /\ UNCHANGED mined
                 \/ tx.op = "step" /\ mined' = mined \cup {tx} /\ UNCHANGED validators
        BY <1>1 DEF MineStaking
    <2>3. /\ validators' \in [Cases -> {"none", "active", "inactive"}] /\ mined \subseteq mined'
          /\ mined' \subseteq Transactions /\ pending' \subseteq pending
        BY <2>2
    <2>4. shared # 0 => validators'[shared] = "active"
        BY <2>2 DEF Inv, SharedInv, DisabledLast
    <2>5. Typed'
        BY <2>1, <2>3 DEF Inv, Typed, TypeOK
    <2>6. ResultInv'
        BY <2>1, <2>3 DEF Inv, ResultInv, ResultIsEarned
    <2>7. DisabledLast'
        BY <2>1, <2>3 DEF Inv, SharedInv, DisabledLast
    <2>8. SharedInv'
        BY <2>1, <2>4, <2>7 DEF Inv, SharedInv
    <2> QED BY <2>1, <2>5, <2>6, <2>8 DEF Inv, CleanWithoutError, At
<1>2. CASE NextEpoch
    <2>1. /\ UNCHANGED <<current, case, held, shared, validators, pending, mined>>
          /\ epoch' = epoch + 1 /\ epoch' \in 0 .. MaxEpoch
        BY <1>2 DEF NextEpoch
    <2>2. Typed'
        BY <2>1 DEF Inv, Typed, TypeOK
    <2>3. ResultInv'
        BY <2>1 DEF Inv, ResultInv, ResultIsEarned, Case
    <2>4. SharedInv'
        BY <2>1 DEF Inv, SharedInv, DisabledLast
    <2> QED BY <2>1, <2>2, <2>3, <2>4 DEF Inv, CleanWithoutError, At
<1> QED BY <1>1, <1>2

\* Inv is inductive.
LEMMA InvInit == Init => Inv
<1> SUFFICES ASSUME Init PROVE Inv
    OBVIOUS
<1>1. TypeOK
    BY DelegationAssumption DEF Init, NewCase, TypeOK, Case, CasePC, AllScenarios
<1>2. case.step = 1 /\ case.scenario = "delegate" /\ case.pc = "new" /\ ~case.error /\ ~case.result
    BY DEF Init, NewCase
<1>3. Typed
    BY <1>1, <1>2 DEF Typed, Script
<1>4. SharedInv
    BY <1>2 DEF Init, SharedInv, DisabledLast, AtWork
<1> QED BY <1>2, <1>3, <1>4 DEF Inv, ResultInv, ResultIsEarned, CleanWithoutError, At

LEMMA InvNext == Inv /\ [Next]_vars => Inv'
<1> SUFFICES ASSUME Inv, [Next]_vars PROVE Inv'
    OBVIOUS
<1>1. CASE UNCHANGED vars
    <2>1. UNCHANGED <<current, case, held, shared, validators, pending, mined, epoch>>
        BY <1>1 DEF vars, chainVars
    <2>2. Typed' /\ ResultInv'
        BY <2>1 DEF Inv, Typed, TypeOK, ResultInv, ResultIsEarned
    <2> QED BY <2>1, <2>2 DEF Inv, SharedInv, DisabledLast, CleanWithoutError, At
<1> QED BY <1>1, BeginInv, OpeningInv, ScriptInv, TeardownInv, ChainInv DEF Next, CaseStep, Stopped

THEOREM InductiveInvariant == Spec => []Inv
    BY InvInit, InvNext, PTL DEF Spec

\* Every record has its type, whatever the scenarios and their order.
THEOREM TypeCorrect == Spec => []TypeOK
<1>1. Inv => TypeOK
    BY DEF Inv, Typed
<1> QED BY <1>1, InductiveInvariant, PTL

\* A positive result rests on the last step of the script, mined for this test
\* case; for the locked tokens, in a later epoch than the one that was read.
THEOREM ResultsAreEarned == Spec => []ResultIsEarned
<1>1. Inv => ResultIsEarned
    BY DEF Inv, ResultInv
<1> QED BY <1>1, InductiveInvariant, PTL

\* The validator that test cases share is active, and nobody is about to
\* disable it.
THEOREM SharedStaysActive == Spec => []SharedValidatorStaysActive
<1>1. Inv => SharedValidatorStaysActive
    BY DEF Inv, SharedInv, DisabledLast, SharedValidatorStaysActive, Tx
<1> QED BY <1>1, InductiveInvariant, PTL

\* Without an error, and but for the wait for an epoch, a test case leaves no
\* key of its own.
THEOREM LeavesNoKeys == Spec => []CleanWithoutError
<1>1. Inv => CleanWithoutError
    BY DEF Inv
<1> QED BY <1>1, InductiveInvariant, PTL
====
