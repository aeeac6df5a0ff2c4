---- MODULE MultipleReceiverInvalidNonce ----
(***************************************************************************)
(* MultipleReceiverInvalidNonceScenario: one sender, funded once, pays     *)
(* many receivers at the same time with one nonce; then all accounts are   *)
(* torn down.  The transactions go through the Ledger: they compete for    *)
(* one slot of its pool.                                                   *)
(***************************************************************************)
EXTENDS RPCSettings, AsyncTeardowns, Ledger, SequencesExt

CONSTANTS
    FromShard,  \* Parameters.FromShardID
    Amount,     \* Parameters.Amount, in units
    GasCost,    \* Network.Gas.Cost, in units
    GasPrice,   \* Parameters.Gas.Price
    MaxPayments \* how often the funding call may pay the sender

ReceiverCount == Cardinality(Many)

ASSUME MultipleReceiverAssumption ==
    /\ Alone \notin Many /\ Many # {}
    /\ FromShard \in Shards /\ Amount \in Nat \ {0} /\ GasCost \in Nat /\ GasPrice \in Nat
    /\ MaxPayments \in Nat
    /\ Senders = {Alone} /\ Payments = Many

VARIABLES
    case,       \* the test case and the locals of the scenario
    worker,     \* worker[r]: the goroutine executeInvalidNonceTransaction of receiver r
    txs         \* what is buffered in the channel of the responses

scenarioVars == <<case, worker, txs>>
vars == <<settingsVars, accountVars, iteration, ledgerVars, scenarioVars>>

CasePC == {"new", "funding", "sender", "fund", "receivers", "enter", "nonce", "spawn", "wait",
           "revert", "teardown", "over"}
WorkerPC == {"unborn", "balance", "send", "await", "respond", "done"}
Case == [pc : CasePC, prefix : {"hmy", "eth"}, to : Shards, receivers : Seq(Many),
         late : 0 .. MaxPayments, nonce : Nat, successful : Nat, error : BOOLEAN, result : BOOLEAN]
Worker == [pc : WorkerPC, success : BOOLEAN, reported : BOOLEAN]

TypeOK ==
    /\ AccountsTypeOK
    /\ LedgerTypeOK
    /\ iteration \in 0 .. ReceiverCount
    /\ case \in Case
    /\ worker \in [Many -> Worker]
    /\ txs \in Seq(BOOLEAN) /\ Len(txs) <= ReceiverCount

Init ==
    /\ SettingsInit /\ AccountsInit /\ LedgerInit
    /\ iteration = 0
    /\ case \in [pc : {"new"}, prefix : {"hmy", "eth"}, to : Shards, receivers : {<<>>},
                 late : {0}, nonce : {0}, successful : {0}, error : {FALSE}, result : {FALSE}]
    /\ worker = [r \in Many |-> [pc |-> "unborn", success |-> FALSE, reported |-> FALSE]]
    /\ txs = <<>>

At(pc) == case.pc = pc
Goto(pc) == case' = [case EXCEPT !.pc = pc]
ErrorOccurred == case' = [case EXCEPT !.pc = "over", !.error = TRUE, !.result = FALSE]

\* The shard the transfers get to, which need not be the one the test case names.
Destination == TargetShard(case.prefix, FromShard, case.to)

\* Dismissed for lack of memory, parameters that failed to initialize, or the
\* start of the scenario.
Begin ==
    /\ At("new")
    /\ Goto("over") \/ ErrorOccurred \/ Goto("funding")
    /\ UNCHANGED <<settingsVars, accountVars, iteration, ledgerVars, worker, txs>>

\* CalculateFundingDetails.
CheckFunding ==
    /\ At("funding")
    /\ Goto("sender") \/ ErrorOccurred
    /\ UNCHANGED <<settingsVars, accountVars, iteration, ledgerVars, worker, txs>>

GenerateSender ==
    /\ At("sender")
    /\ \/ GenerateAccount(Alone) /\ Goto("fund")
       \/ ErrorOccurred /\ UNCHANGED held
    /\ UNCHANGED <<settingsVars, bal, tear, iteration, ledgerVars, worker, txs>>

RequiredFunding == ReceiverCount * (Amount + GasCost)

\* PerformFundingTransaction with nonce -1, its result ignored: the required
\* amount arrives in the shard the receivers are in - at once, later or not at
\* all, and once more for an attempt that was taken for failed.
FundSender ==
    /\ At("fund")
    /\ \E n, late \in 0 .. MaxPayments :
          /\ n + late <= MaxPayments
          /\ Credit(Alone, case.to, n * RequiredFunding)
          /\ case' = [case EXCEPT !.pc = "receivers", !.late = late]
    /\ UNCHANGED <<settingsVars, held, tear, iteration, ledgerVars, worker, txs>>

\* AsyncGenerateMultipleAccounts: the accounts that could be generated, in the
\* order their goroutines finished.
GenerateReceivers ==
    /\ At("receivers")
    /\ \E list \in UNION {[1 .. n -> Many] : n \in 0 .. ReceiverCount} :
          /\ IsInjective(list)
          /\ held' = held \cup ToSet(list)
          /\ case' = [case EXCEPT !.pc = "enter", !.receivers = list]
    /\ UNCHANGED <<settingsVars, bal, tear, iteration, ledgerVars, worker, txs>>

EnterSettings ==
    /\ At("enter")
    /\ EnterSend(case.prefix)
    /\ Goto("nonce")
    /\ UNCHANGED <<accountVars, iteration, ledgerVars, worker, txs>>

\* The nonce all transactions of the scenario will carry.
ReadNonce ==
    /\ At("nonce")
    /\ \E n \in CurrentNonces(Alone) : case' = [case EXCEPT !.pc = "spawn", !.nonce = n]
    /\ UNCHANGED <<settingsVars, accountVars, iteration, ledgerVars, worker, txs>>

Started == {i \in DOMAIN case.receivers : worker[case.receivers[i]].pc # "unborn"}

\* waitGroup.Add(1); go executeInvalidNonceTransaction(receiverAccount).
Spawn ==
    /\ At("spawn")
    /\ IF Cardinality(Started) < Len(case.receivers)
       THEN /\ worker' = [worker EXCEPT ![case.receivers[Cardinality(Started) + 1]].pc = "balance"]
            /\ UNCHANGED case
       ELSE Goto("wait") /\ UNCHANGED worker
    /\ UNCHANGED <<settingsVars, accountVars, iteration, ledgerVars, txs>>

\* waitGroup.Wait(); close(txs); the responses are counted.
CountResponses ==
    /\ At("wait")
    /\ \A i \in Started : worker[case.receivers[i]].pc = "done"
    /\ case' = [case EXCEPT !.pc = "revert",
                            !.successful = Cardinality({i \in DOMAIN txs : txs[i]})]
    /\ txs' = <<>>
    /\ UNCHANGED <<settingsVars, accountVars, iteration, ledgerVars, worker>>

\* The result: every transfer was counted as successful.
AllSuccessful == case.successful = ReceiverCount

\* The settings are put back, and the result is computed.
LeaveSettings ==
    /\ At("revert")
    /\ RevertRPCSettings
    /\ case' = [case EXCEPT !.pc = "teardown", !.result = AllSuccessful]
    /\ UNCHANGED <<accountVars, iteration, ledgerVars, worker, txs>>

SpawnTeardowns ==
    /\ At("teardown")
    /\ \/ iteration = 0 /\ SpawnAlone
       \/ tear[0].pc # "off" /\ SpawnNext(case.receivers)
    /\ UNCHANGED <<settingsVars, ledgerVars, scenarioVars>>

TearStep(g) ==
    /\ At("teardown")
    /\ AsyncTeardown(g, case.receivers, IF g = 0 THEN FromShard ELSE case.to)
    /\ UNCHANGED <<settingsVars, ledgerVars, scenarioVars>>

Finish ==
    /\ At("teardown")
    /\ TeardownsAwaited(case.receivers)
    /\ Goto("over")
    /\ UNCHANGED <<settingsVars, accountVars, iteration, ledgerVars, worker, txs>>

WorkerGoto(r, pc) == worker' = [worker EXCEPT ![r].pc = pc]

\* GetNonZeroShardBalance.  ErrorOccurred, called from the goroutine, writes to
\* the shared test case; what was read still decides whether to send, and an
\* error some other goroutine left there makes this one report a failure.
WorkerBalance(r) ==
    /\ worker[r].pc = "balance"
    /\ \/ case' = [case EXCEPT !.error = TRUE, !.result = FALSE] /\ WorkerGoto(r, "respond")
       \/ UNCHANGED case
          /\ WorkerGoto(r, IF bal[Alone][FromShard] > 0 THEN "send" ELSE "respond")
    /\ UNCHANGED <<settingsVars, accountVars, iteration, ledgerVars, txs>>

\* Fault: each goroutine reads the nonce of the sender for itself.
TxWithOwnNonce(r) == [from |-> Alone, nonce |-> mined[Alone], to |-> r, price |-> GasPrice]

TxTo(r) == [from |-> Alone, nonce |-> case.nonce, to |-> r, price |-> GasPrice]

\* The node takes the transaction, or refuses it: its slot is in use or its
\* nonce consumed.  Either answer may be lost.
WorkerSend(r) ==
    /\ worker[r].pc = "send"
    /\ \/ Accept(TxTo(r)) /\ WorkerGoto(r, "await")
       \/ Accept(TxTo(r)) /\ WorkerGoto(r, "respond")
       \/ WorkerGoto(r, "respond") /\ UNCHANGED ledgerVars
    /\ UNCHANGED <<settingsVars, accountVars, iteration, case, txs>>

\* Fault: a transaction without a receipt is sent again.
WorkerAwaitRetrying(r) ==
    /\ worker[r].pc = "await"
    /\ IF [tx |-> TxTo(r), ok |-> TRUE] \in chain
       THEN worker' = [worker EXCEPT ![r].pc = "respond", ![r].success = TRUE]
       ELSE WorkerGoto(r, "send")
    /\ UNCHANGED <<settingsVars, accountVars, iteration, ledgerVars, case, txs>>

\* The receipt or Parameters.Timeout.  The outcome goes to a variable that
\* shadows the one the goroutine responds with.
WorkerAwait(r) ==
    /\ worker[r].pc = "await"
    /\ \E success \in {FALSE, [tx |-> TxTo(r), ok |-> TRUE] \in chain} :
          worker' = [worker EXCEPT ![r].pc = "respond", ![r].success = success]
    /\ UNCHANGED <<settingsVars, accountVars, iteration, ledgerVars, case, txs>>

\* responses <- testCaseTx: the outer variable, which was never assigned or
\* says that the sender was not funded.
WorkerRespond(r) ==
    /\ worker[r].pc = "respond"
    /\ Len(txs) < ReceiverCount
    /\ txs' = Append(txs, worker[r].reported)
    /\ WorkerGoto(r, "done")
    /\ UNCHANGED <<settingsVars, accountVars, iteration, ledgerVars, case>>

MineFunding ==
    /\ case.late > 0
    /\ case' = [case EXCEPT !.late = @ - 1]
    /\ Credit(Alone, case.to, RequiredFunding)
    /\ UNCHANGED <<settingsVars, held, tear, iteration, ledgerVars, worker, txs>>

\* A block takes the transaction that holds the slot.
MineTransfer ==
    /\ Mine
    /\ \E r \in chain' \ chain :
          IF r.ok
          THEN /\ bal[Alone][FromShard] > Amount
               /\ IF Destination = FromShard THEN Transfer(Alone, r.tx.to, FromShard, Amount)
                  ELSE bal' = [bal EXCEPT ![Alone][FromShard] = @ - Amount,
                                          ![r.tx.to][Destination] = @ + Amount]
          ELSE UNCHANGED bal
    /\ UNCHANGED <<settingsVars, held, tear, iteration, scenarioVars>>

EvictTransfer ==
    /\ Evict
    /\ UNCHANGED <<settingsVars, accountVars, iteration, scenarioVars>>

MainStep ==
    \/ Begin \/ CheckFunding \/ GenerateSender \/ FundSender \/ GenerateReceivers
    \/ EnterSettings \/ ReadNonce \/ Spawn \/ CountResponses \/ LeaveSettings
    \/ SpawnTeardowns \/ Finish

WorkerStep(r) == WorkerBalance(r) \/ WorkerSend(r) \/ WorkerAwait(r) \/ WorkerRespond(r)

ChainStep == MineFunding \/ MineTransfer \/ EvictTransfer

Stopped == At("over") /\ UNCHANGED vars

Next ==
    \/ MainStep
    \/ \E r \in Many : WorkerStep(r)
    \/ \E g \in Tearing : TearStep(g)
    \/ ChainStep
    \/ Stopped

\* Every goroutine is scheduled and every request to the node comes back.
Fairness ==
    /\ WF_vars(MainStep)
    /\ \A r \in Many : WF_vars(WorkerStep(r))
    /\ \A g \in Tearing : WF_vars(TearStep(g))

Spec == Init /\ [][Next]_vars /\ Fairness
----
Paid == {r \in Many : PaidBy(r) # {}}

\* The point of the scenario: transactions that share a nonce compete for one
\* slot, so whatever is lost, evicted or sent again, one receiver is paid at most.
SameNoncePaysOnce == Cardinality(Paid) <= 1

\* The scenario comes to an end, whatever its goroutines meet.
CaseEnds == <>At("over")
====
