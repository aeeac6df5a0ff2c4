---- MODULE SingleSender ----
(***************************************************************************)
(* The transaction scenarios with one sender, run one after the other the  *)
(* way testcases/app.go runs them: StandardScenario (a sender pays a       *)
(* receiver) and SameAccountScenario (an account pays itself, possibly in  *)
(* another shard).  rpc.SendTransaction and Teardown are composed in.      *)
(***************************************************************************)
EXTENDS RPCSettings, TestAccounts

CONSTANTS
    Tests,          \* how many test cases are executed
    FromShard,      \* Parameters.FromShardID of all of them
    Amount,         \* Parameters.Amount, in units
    GasCost,        \* Network.Gas.Cost, in units
    MaxPayments     \* how often a funding call may pay the account it funds

Cases == 1 .. Tests
Sender(t) == <<t, "sender">>
Receiver(t) == <<t, "receiver">>

ASSUME SingleSenderAssumption ==
    /\ Tests \in Nat \ {0} /\ Amount \in Nat \ {0} /\ GasCost \in Nat /\ MaxPayments \in Nat
    /\ FromShard \in Shards
    /\ TestAccountIds = Cases \X {"sender", "receiver"}
    /\ Tearing = {"sender", "receiver"}

VARIABLES
    current,    \* the test case that runs; 0 before the first
    case,       \* case[t]: the test case and the locals of its scenario
    transit     \* the test cases whose transfer is on its way between shards

vars == <<settingsVars, accountVars, current, case, transit>>

Scenarios == {"standard", "same_account"}
Prefixes == {"hmy", "eth"}
CasePC == {"new", "funding", "generate", "fund", "receiver", "start", "enter", "send", "await",
           "revert", "senderEnd", "receiverEnd", "teardown", "over"}
TxState == {"none", "pending", "mined", "failed"}

Case == [pc : CasePC, scenario : Scenarios, prefix : Prefixes, to : Shards,
         late : 0 .. MaxPayments, start : Nat, tx : TxState, success : BOOLEAN, error : BOOLEAN, result : BOOLEAN]

TypeOK ==
    /\ settings.prefix \in {ConfiguredPrefix} \cup Prefixes
    /\ AccountsTypeOK
    /\ current \in 0 .. Tests
    /\ case \in [Cases -> Case]
    /\ transit \subseteq Cases

Init ==
    /\ SettingsInit
    /\ AccountsInit
    /\ current = 0
    /\ case = [t \in Cases |-> [pc |-> "new", scenario |-> "standard", prefix |-> "hmy",
                                to |-> FromShard, late |-> 0, start |-> 0, tx |-> "none",
                                success |-> FALSE, error |-> FALSE, result |-> FALSE]]
    /\ transit = {}

At(t, pc) == current = t /\ case[t].pc = pc
Goto(t, pc) == case' = [case EXCEPT ![t].pc = pc]

\* TestCase.ErrorOccurred with an error: the result is false and the scenario
\* returns on the spot.
ErrorOccurred(t) ==
    case' = [case EXCEPT ![t].pc = "over", ![t].error = TRUE, ![t].result = FALSE]

\* The account the transfer goes to.
Payee(t) == IF case[t].scenario = "standard" THEN Receiver(t) ELSE Sender(t)

\* The shard the transfer gets to, which need not be the one the test case names.
Destination(t) == TargetShard(case[t].prefix, FromShard, case[t].to)

\* The next test case starts; one whose parameters failed to initialize
\* returns at its first ErrorOccurred(nil).
Begin ==
    /\ current < Tests
    /\ current > 0 => case[current].pc = "over"
    /\ current' = current + 1
    /\ \E s \in Scenarios, p \in Prefixes, to \in Shards, initialized \in BOOLEAN :
          case' = [case EXCEPT ![current + 1] =
              [@ EXCEPT !.pc = IF initialized THEN "funding" ELSE "over",
                        !.scenario = s, !.prefix = p, !.to = to, !.error = ~initialized]]
    /\ tear' = NotTearing
    /\ UNCHANGED <<settingsVars, held, bal, transit>>

\* CalculateFundingDetails.
CheckFunding(t) ==
    /\ At(t, "funding")
    /\ Goto(t, "generate") \/ ErrorOccurred(t)
    /\ UNCHANGED <<settingsVars, accountVars, current, transit>>

GenerateSender(t) ==
    /\ At(t, "generate")
    /\ \/ GenerateAccount(Sender(t)) /\ Goto(t, "fund")
       \/ ErrorOccurred(t) /\ UNCHANGED held
    /\ UNCHANGED <<settingsVars, bal, tear, current, transit>>

\* PerformFundingTransaction with nonce -1, its result ignored: the account may
\* be left unpaid, a retry may have paid it again, and payments that timed out
\* may still be mined later.
Fund(t) ==
    /\ At(t, "fund")
    /\ \E n, late \in 0 .. MaxPayments :
          /\ n + late <= MaxPayments
          /\ Credit(Sender(t), FromShard, n * (Amount + GasCost))
          /\ case' = [case EXCEPT
                ![t].pc = IF case[t].scenario = "standard" THEN "receiver" ELSE "start",
                ![t].late = late]
    /\ UNCHANGED <<settingsVars, held, tear, current, transit>>

\* The receiver is generated; its error is overwritten before it is looked at.
GenerateReceiver(t) ==
    /\ At(t, "receiver")
    /\ GenerateAccount(Receiver(t)) \/ UNCHANGED held
    /\ Goto(t, "start")
    /\ UNCHANGED <<settingsVars, bal, tear, current, transit>>

\* The starting balances; only SameAccountScenario looks at their errors.
StartingBalances(t) ==
    /\ At(t, "start")
    /\ \/ case' = [case EXCEPT ![t].pc = "enter", ![t].start = bal[Payee(t)][case[t].to]]
       \/ case[t].scenario = "same_account" /\ ErrorOccurred(t)
    /\ UNCHANGED <<settingsVars, accountVars, current, transit>>

\* rpc.SendTransaction: the settings are swapped for the eth_ endpoints...
EnterSettings(t) ==
    /\ At(t, "enter")
    /\ EnterSend(case[t].prefix)
    /\ Goto(t, "send")
    /\ UNCHANGED <<accountVars, current, transit>>

\* ... the transaction is signed and sent.  An answer that is lost leaves an
\* accepted transaction behind an error.
Send(t) ==
    /\ At(t, "send")
    /\ \/ Sender(t) \in held /\ Payee(t) \in held
          /\ case' = [case EXCEPT ![t].pc = "await", ![t].tx = "pending"]
       \/ Sender(t) \in held /\ Payee(t) \in held
          /\ case' = [case EXCEPT ![t].pc = "revert", ![t].tx = "pending", ![t].error = TRUE]
       \/ case' = [case EXCEPT ![t].pc = "revert", ![t].error = TRUE]
    /\ UNCHANGED <<settingsVars, accountVars, current, transit>>

\* Fault: a transaction counts as successful once it has a hash.
AwaitHash(t) ==
    /\ At(t, "await")
    /\ \E success \in BOOLEAN :
          case' = [case EXCEPT ![t].pc = "revert", ![t].success = success]
    /\ UNCHANGED <<settingsVars, accountVars, current, transit>>

\* Success is a receipt that reports it; the wait also ends with Timeout.
Await(t) ==
    /\ At(t, "await")
    /\ \E success \in {FALSE, case[t].tx = "mined"} :
          case' = [case EXCEPT ![t].pc = "revert", ![t].success = success]
    /\ UNCHANGED <<settingsVars, accountVars, current, transit>>

\* Fault: an error returns before the settings are put back.
LeaveSettingsLate(t) ==
    /\ At(t, "revert")
    /\ IF case[t].error THEN ErrorOccurred(t) /\ UNCHANGED settingsVars
       ELSE RevertRPCSettings
            /\ Goto(t, IF case[t].scenario = "standard" THEN "senderEnd" ELSE "receiverEnd")
    /\ UNCHANGED <<accountVars, current, transit>>

\* Fault: a transaction that failed is sent again, for as long as it takes.
LeaveSettingsRetrying(t) ==
    /\ At(t, "revert")
    /\ RevertRPCSettings
    /\ IF case[t].error THEN case' = [case EXCEPT ![t].pc = "enter", ![t].error = FALSE]
       ELSE Goto(t, IF case[t].scenario = "standard" THEN "senderEnd" ELSE "receiverEnd")
    /\ UNCHANGED <<accountVars, current, transit>>

\* ... and the settings are put back, whatever became of the transaction,
\* before the scenario looks at its error.
LeaveSettings(t) ==
    /\ At(t, "revert")
    /\ RevertRPCSettings
    /\ IF case[t].error THEN ErrorOccurred(t)
       ELSE Goto(t, IF case[t].scenario = "standard" THEN "senderEnd" ELSE "receiverEnd")
    /\ UNCHANGED <<accountVars, current, transit>>

SenderEndingBalance(t) ==
    /\ At(t, "senderEnd")
    /\ Goto(t, "receiverEnd") \/ ErrorOccurred(t)
    /\ UNCHANGED <<settingsVars, accountVars, current, transit>>

\* GetNonZeroShardBalance comes back with the balance it saw last, which may
\* still be zero, or with an error; the result is computed from it.
ReceiverEndingBalance(t) ==
    /\ At(t, "receiverEnd")
    /\ \/ LET ending == bal[Payee(t)][case[t].to]
              expected == case[t].start + Amount
              sameShard == case[t].scenario = "same_account" /\ case[t].to = FromShard
          IN  case' = [case EXCEPT
                  ![t].pc = "teardown",
                  ![t].result = case[t].success
                                /\ (IF sameShard THEN ending <= expected ELSE ending = expected)]
       \/ ErrorOccurred(t)
    /\ UNCHANGED <<settingsVars, accountVars, current, transit>>

\* standardTeardown runs two goroutines; SameAccountScenario tears down its
\* one account, in the shard it sent to.
StartTeardowns(t) ==
    /\ At(t, "teardown") /\ tear = NotTearing
    /\ IF case[t].scenario = "standard"
       THEN tear' = [g \in Tearing |-> [pc |-> "read", amount |-> 0]]
       ELSE StartTeardown("sender")
    /\ UNCHANGED <<settingsVars, held, bal, current, case, transit>>

TearShard(t, g) ==
    IF g = "sender" /\ case[t].scenario = "standard" THEN FromShard ELSE case[t].to

TearStep(t, g) ==
    /\ At(t, "teardown")
    /\ Teardown(g, <<t, g>>, TearShard(t, g))
    /\ UNCHANGED <<settingsVars, current, case, transit>>

\* Fault: the scenario does not wait for its teardowns.
FinishAtOnce(t) ==
    /\ At(t, "teardown") /\ tear # NotTearing
    /\ Goto(t, "over")
    /\ UNCHANGED <<settingsVars, accountVars, current, transit>>

\* waitGroup.Wait(), and the test case is finished.
Finish(t) ==
    /\ At(t, "teardown") /\ tear # NotTearing
    /\ \A g \in Tearing : tear[g].pc \in {"off", "over"}
    /\ Goto(t, "over")
    /\ UNCHANGED <<settingsVars, accountVars, current, transit>>

MineFunding(t) ==
    /\ case[t].late > 0
    /\ case' = [case EXCEPT ![t].late = @ - 1]
    /\ Credit(Sender(t), FromShard, Amount + GasCost)
    /\ UNCHANGED <<settingsVars, held, tear, current, transit>>

\* The chain mines a transfer, at once or long after the scenario gave up on
\* it; between shards the amount arrives later.
MineTransfer(t) ==
    /\ case[t].tx = "pending"
    /\ \/ /\ bal[Sender(t)][FromShard] > Amount
          /\ case' = [case EXCEPT ![t].tx = "mined"]
          /\ IF Destination(t) = FromShard
             THEN Transfer(Sender(t), Payee(t), FromShard, Amount) /\ UNCHANGED transit
             ELSE Debit(Sender(t), FromShard, Amount) /\ transit' = transit \cup {t}
       \/ /\ case' = [case EXCEPT ![t].tx = "failed"]
          /\ UNCHANGED <<bal, transit>>
    /\ UNCHANGED <<settingsVars, held, tear, current>>

Arrive(t) ==
    /\ t \in transit
    /\ transit' = transit \ {t}
    /\ Credit(Payee(t), Destination(t), Amount)
    /\ UNCHANGED <<settingsVars, held, tear, current, case>>

CaseStep(t) ==
    \/ CheckFunding(t) \/ GenerateSender(t) \/ Fund(t) \/ GenerateReceiver(t)
    \/ StartingBalances(t) \/ EnterSettings(t) \/ Send(t) \/ Await(t) \/ LeaveSettings(t)
    \/ SenderEndingBalance(t) \/ ReceiverEndingBalance(t) \/ StartTeardowns(t)
    \/ (\E g \in Tearing : TearStep(t, g)) \/ Finish(t)

AllOver == current = Tests /\ case[Tests].pc = "over"

Stopped == AllOver /\ UNCHANGED vars

Next ==
    \/ Begin
    \/ \E t \in Cases : CaseStep(t)
    \/ \E t \in Cases : MineFunding(t) \/ MineTransfer(t) \/ Arrive(t)
    \/ Stopped

\* The scenario runs on and its goroutines are scheduled: every request to the
\* node comes back, an answer or an error.  The chain promises nothing.
Fairness ==
    /\ WF_vars(Begin)
    /\ \A t \in Cases : WF_vars(CaseStep(t))

Spec == Init /\ [][Next]_vars /\ Fairness
----
Sending(t) == case[t].pc \in {"send", "await", "revert"}

\* rpc/rpc.go puts the settings back after every send, also after one that
\* failed: all other requests - funding, balances, teardowns, and the test
\* cases that follow - run under the settings the process was configured with.
SettingsRestored ==
    (current = 0 \/ ~Sending(current)) => settings = InitialSettings /\ history = NoHistory

\* A positive result is never a coincidence: the transfer was mined, has arrived
\* if it crosses shards, and went to the shard the test case names - so that a
\* test case that names another shard is never positive under eth.
ResultIsEarned ==
    \A t \in Cases :
        case[t].result => /\ case[t].tx = "mined" /\ t \notin transit /\ ~case[t].error
                          /\ Destination(t) = case[t].to

\* Every test case comes to an end, after its teardown or at an error.
EveryCaseEnds == \A t \in Cases : current = t ~> case[t].pc = "over"

\* A standard test case that gets to its teardown is only over once both of its
\* goroutines have removed their key, whatever became of the sweeps.
StandardLeavesNoKeys ==
    \A t \in Cases :
        (case[t].pc = "over" /\ case[t].scenario = "standard" /\ ~case[t].error)
            => Sender(t) \notin held /\ Receiver(t) \notin held
====
