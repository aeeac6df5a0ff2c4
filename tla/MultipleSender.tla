---- MODULE MultipleSender ----
(***************************************************************************)
(* MultipleSenderScenario: a batch of senders, each paying the receiver    *)
(* from a goroutine of its own, then the teardown of all accounts.  The    *)
(* batch is what FundingPromise allows: any of its accounts in any order,  *)
(* each paid at most once and possibly late.                               *)
(***************************************************************************)
EXTENDS RPCSettings, AsyncTeardowns, SequencesExt

CONSTANTS
    FromShard,  \* Parameters.FromShardID
    Amount,     \* Parameters.Amount, in units
    GasCost     \* Network.Gas.Cost, in units

SenderCount == Cardinality(Many)

ASSUME MultipleSenderAssumption ==
    /\ Alone \notin Many /\ Many # {}
    /\ FromShard \in Shards /\ Amount \in Nat \ {0} /\ GasCost \in Nat

VARIABLES
    case,       \* the test case and the locals of the scenario
    sender,     \* sender[a]: the goroutine executeSenderTransaction of sender a
    txs,        \* what is buffered in the channel of the responses
    unpaid,     \* the senders whose funding transaction is not mined yet
    transit     \* the senders whose transfer is on its way between shards

scenarioVars == <<case, sender, txs, unpaid, transit>>
vars == <<settingsVars, accountVars, iteration, scenarioVars>>

CasePC == {"new", "funding", "receiver", "start", "senders", "enter", "spawn", "wait",
           "revert", "ending", "teardown", "over"}
SenderPC == {"unborn", "balance", "send", "await", "respond", "done"}
Case == [pc : CasePC, prefix : {"hmy", "eth"}, to : Shards, expected : BOOLEAN,
         senders : Seq(Many), successful : Nat, error : BOOLEAN, result : BOOLEAN]
Sender == [pc : SenderPC, tx : {"none", "pending", "mined", "failed"}, success : BOOLEAN]

TypeOK ==
    /\ AccountsTypeOK
    /\ iteration \in 0 .. SenderCount
    /\ case \in Case
    /\ sender \in [Many -> Sender]
    /\ txs \in Seq(BOOLEAN) /\ Len(txs) <= SenderCount
    /\ unpaid \subseteq Many /\ transit \subseteq Many

Init ==
    /\ SettingsInit
    /\ AccountsInit
    /\ iteration = 0
    /\ case \in [pc : {"new"}, prefix : {"hmy", "eth"}, to : Shards, expected : BOOLEAN,
                 senders : {<<>>}, successful : {0}, error : {FALSE}, result : {FALSE}]
    /\ sender = [a \in Many |-> [pc |-> "unborn", tx |-> "none", success |-> FALSE]]
    /\ txs = <<>>
    /\ unpaid = {}
    /\ transit = {}

At(pc) == case.pc = pc
Goto(pc) == case' = [case EXCEPT !.pc = pc]
ErrorOccurred == case' = [case EXCEPT !.pc = "over", !.error = TRUE, !.result = FALSE]

\* The shard the transfers get to, which need not be the one the test case names.
Destination == TargetShard(case.prefix, FromShard, case.to)

\* Dismissed for lack of memory, parameters that failed to initialize, or the
\* start of the scenario.
Begin ==
    /\ At("new")
    /\ Goto("over") \/ ErrorOccurred \/ Goto("funding")
    /\ UNCHANGED <<settingsVars, accountVars, iteration, sender, txs, unpaid, transit>>

\* CalculateFundingDetails.
CheckFunding ==
    /\ At("funding")
    /\ Goto("receiver") \/ ErrorOccurred
    /\ UNCHANGED <<settingsVars, accountVars, iteration, sender, txs, unpaid, transit>>

\* An error goes to HandleError, whose Teardown finds no key to remove.
GenerateReceiver ==
    /\ At("receiver")
    /\ \/ GenerateAccount(Alone) /\ Goto("start")
       \/ ErrorOccurred /\ UNCHANGED held
    /\ UNCHANGED <<settingsVars, bal, tear, iteration, sender, txs, unpaid, transit>>

\* The receiver was generated a moment ago and holds nothing: HandleError with
\* the account only removes its key.
StartingBalance ==
    /\ At("start")
    /\ \/ Goto("senders") /\ UNCHANGED held
       \/ ErrorOccurred /\ RemoveAccount(Alone)
    /\ UNCHANGED <<settingsVars, bal, tear, iteration, sender, txs, unpaid, transit>>

\* GenerateAndFundAccounts.  HandleError of its error gets no account.
GenerateAndFundSenders ==
    /\ At("senders")
    /\ \/ \E list \in UNION {[1 .. n -> Many] : n \in 0 .. SenderCount}, late \in SUBSET Many :
             /\ IsInjective(list)
             /\ held' = held \cup ToSet(list)
             /\ unpaid' = late \cap ToSet(list)
             /\ \E never \in SUBSET (ToSet(list) \ late) :
                   bal' = [a \in TestAccountIds |->
                       IF a \in ToSet(list) \ (late \cup never)
                       THEN [bal[a] EXCEPT ![FromShard] = Amount + GasCost] ELSE bal[a]]
             /\ case' = [case EXCEPT !.pc = "enter", !.senders = list]
       \/ ErrorOccurred /\ UNCHANGED <<held, bal, unpaid>>
    /\ UNCHANGED <<settingsVars, tear, iteration, sender, txs, transit>>

EnterSettings ==
    /\ At("enter")
    /\ EnterSend(case.prefix)
    /\ Goto("spawn")
    /\ UNCHANGED <<accountVars, iteration, sender, txs, unpaid, transit>>

Started == {i \in DOMAIN case.senders : sender[case.senders[i]].pc # "unborn"}

\* waitGroup.Add(1); go executeSenderTransaction(senderAccount): here the loop
\* variable is passed by value.
Spawn ==
    /\ At("spawn")
    /\ IF Cardinality(Started) < Len(case.senders)
       THEN /\ sender' = [sender EXCEPT ![case.senders[Cardinality(Started) + 1]].pc = "balance"]
            /\ UNCHANGED case
       ELSE Goto("wait") /\ UNCHANGED sender
    /\ UNCHANGED <<settingsVars, accountVars, iteration, txs, unpaid, transit>>

\* Fault: every response is counted, the failed ones too.
CountAllResponses ==
    /\ At("wait")
    /\ \A i \in Started : sender[case.senders[i]].pc = "done"
    /\ case' = [case EXCEPT !.pc = "revert", !.successful = Len(txs)]
    /\ txs' = <<>>
    /\ UNCHANGED <<settingsVars, accountVars, iteration, sender, unpaid, transit>>

\* Fault: the responses are counted without waiting for the goroutines.
CountAtOnce ==
    /\ At("wait")
    /\ case' = [case EXCEPT !.pc = "revert",
                            !.successful = Cardinality({i \in DOMAIN txs : txs[i]})]
    /\ txs' = <<>>
    /\ UNCHANGED <<settingsVars, accountVars, iteration, sender, unpaid, transit>>

\* waitGroup.Wait(); close(txs); the responses are counted.
CountResponses ==
    /\ At("wait")
    /\ \A i \in Started : sender[case.senders[i]].pc = "done"
    /\ case' = [case EXCEPT !.pc = "revert",
                            !.successful = Cardinality({i \in DOMAIN txs : txs[i]})]
    /\ txs' = <<>>
    /\ UNCHANGED <<settingsVars, accountVars, iteration, sender, unpaid, transit>>

LeaveSettings ==
    /\ At("revert")
    /\ RevertRPCSettings
    /\ Goto("ending")
    /\ UNCHANGED <<accountVars, iteration, sender, txs, unpaid, transit>>

\* Fault: the result rests on the senders alone.
EndingUnseen ==
    /\ At("ending")
    /\ case' = [case EXCEPT !.pc = "teardown", !.result = case.successful = SenderCount]
    /\ UNCHANGED <<settingsVars, accountVars, iteration, sender, txs, unpaid, transit>>

\* The receiver is only looked at when every sender succeeded.
EndingBalance ==
    /\ At("ending")
    /\ \/ LET all == case.successful = SenderCount
              expected == IF case.expected THEN Amount * SenderCount ELSE 0
          IN  case' = [case EXCEPT !.pc = "teardown",
                                   !.result = all /\ bal[Alone][case.to] = expected]
       \/ case.successful = SenderCount /\ ErrorOccurred
    /\ UNCHANGED <<settingsVars, accountVars, iteration, sender, txs, unpaid, transit>>

SpawnTeardowns ==
    /\ At("teardown")
    /\ \/ SpawnNext(case.senders)
       \/ iteration = Len(case.senders) /\ SpawnAlone
    /\ UNCHANGED <<settingsVars, scenarioVars>>

TearStep(g) ==
    /\ At("teardown")
    /\ AsyncTeardown(g, case.senders, IF g = 0 THEN case.to ELSE FromShard)
    /\ UNCHANGED <<settingsVars, scenarioVars>>

Finish ==
    /\ At("teardown")
    /\ TeardownsAwaited(case.senders)
    /\ Goto("over")
    /\ UNCHANGED <<settingsVars, accountVars, iteration, sender, txs, unpaid, transit>>

SenderUnchanged == UNCHANGED <<settingsVars, accountVars, iteration, case, unpaid, transit>>
SenderGoto(a, pc) == sender' = [sender EXCEPT ![a].pc = pc]

\* GetNonZeroShardBalance: an error or no balance, and nothing is sent.
SenderBalance(a) ==
    /\ sender[a].pc = "balance"
    /\ (bal[a][FromShard] > 0 /\ SenderGoto(a, "send")) \/ SenderGoto(a, "respond")
    /\ UNCHANGED txs
    /\ SenderUnchanged

\* SendTransaction or SendEthTransaction; an error may hide that it arrived.
SenderSend(a) ==
    /\ sender[a].pc = "send"
    /\ \/ \E pc \in {"await", "respond"} :
             sender' = [sender EXCEPT ![a].pc = pc, ![a].tx = "pending"]
       \/ SenderGoto(a, "respond")
    /\ UNCHANGED txs
    /\ SenderUnchanged

\* Fault: a sender whose transaction was not successful sends it again.
SenderAwaitRetrying(a) ==
    /\ sender[a].pc = "await"
    /\ \/ sender[a].tx = "mined"
          /\ sender' = [sender EXCEPT ![a].pc = "respond", ![a].success = TRUE]
       \/ SenderGoto(a, "send")
    /\ UNCHANGED txs
    /\ SenderUnchanged

\* The receipt, or Parameters.Timeout.
SenderAwait(a) ==
    /\ sender[a].pc = "await"
    /\ \E success \in {FALSE, sender[a].tx = "mined"} :
          sender' = [sender EXCEPT ![a].pc = "respond", ![a].success = success]
    /\ UNCHANGED txs
    /\ SenderUnchanged

\* responses <- testCaseTx; the deferred Done follows at once.
SenderRespond(a) ==
    /\ sender[a].pc = "respond"
    /\ Len(txs) < SenderCount
    /\ txs' = Append(txs, sender[a].success)
    /\ SenderGoto(a, "done")
    /\ SenderUnchanged

\* The chain, whenever it likes: a late funding transaction, a transfer, its
\* arrival in the other shard.
MineFunding(a) ==
    /\ a \in unpaid
    /\ unpaid' = unpaid \ {a}
    /\ Credit(a, FromShard, Amount + GasCost)
    /\ UNCHANGED <<settingsVars, held, tear, iteration, case, sender, txs, transit>>

MineTransfer(a) ==
    /\ sender[a].tx = "pending"
    /\ \/ /\ bal[a][FromShard] > Amount
          /\ sender' = [sender EXCEPT ![a].tx = "mined"]
          /\ IF Destination = FromShard
             THEN Transfer(a, Alone, FromShard, Amount) /\ UNCHANGED transit
             ELSE Debit(a, FromShard, Amount) /\ transit' = transit \cup {a}
       \/ /\ sender' = [sender EXCEPT ![a].tx = "failed"]
          /\ UNCHANGED <<bal, transit>>
    /\ UNCHANGED <<settingsVars, held, tear, iteration, case, txs, unpaid>>

Arrive(a) ==
    /\ a \in transit
    /\ transit' = transit \ {a}
    /\ Credit(Alone, Destination, Amount)
    /\ UNCHANGED <<settingsVars, held, tear, iteration, case, sender, txs, unpaid>>

MainStep ==
    \/ Begin \/ CheckFunding \/ GenerateReceiver \/ StartingBalance
    \/ GenerateAndFundSenders \/ EnterSettings \/ Spawn \/ CountResponses
    \/ LeaveSettings \/ EndingBalance \/ SpawnTeardowns \/ Finish

SenderStep(a) == SenderBalance(a) \/ SenderSend(a) \/ SenderAwait(a) \/ SenderRespond(a)

ChainStep(a) == MineFunding(a) \/ MineTransfer(a) \/ Arrive(a)

Stopped == At("over") /\ UNCHANGED vars

Next ==
    \/ MainStep
    \/ \E a \in Many : SenderStep(a)
    \/ \E g \in Tearing : TearStep(g)
    \/ \E a \in Many : ChainStep(a)
    \/ Stopped

\* Every goroutine is scheduled and every request to the node comes back.
Fairness ==
    /\ WF_vars(MainStep)
    /\ \A a \in Many : WF_vars(SenderStep(a))
    /\ \A g \in Tearing : WF_vars(TearStep(g))

Spec == Init /\ [][Next]_vars /\ Fairness
----
\* The counted successes are real: each is the mined transfer of a sender of
\* its own, and none is counted before the sender's goroutine has finished.
CountIsEarned ==
    case.successful <= Cardinality({a \in Many : sender[a].tx = "mined" /\ sender[a].pc = "done"})

\* A positive result where one is expected means that all senders paid and that
\* all their transfers have arrived, in whatever order that happened, in the
\* shard the test case names - which no eth_ transfer to another shard does.
ResultIsEarned ==
    case.result /\ case.expected =>
        /\ Destination = case.to
        /\ \A a \in Many : sender[a].tx = "mined" /\ a \notin transit

\* The settings are swapped around all goroutines at once: none of them sends
\* or waits under the wrong ones, and everything after the scenario's sends -
\* its teardowns, the next test case - runs under the configured ones.
SendsUseTheirSettings ==
    /\ \A a \in Many : sender[a].pc \in {"balance", "send", "await"} =>
          settings = IF case.prefix = "eth" THEN SettingsFor("eth", EthChain)
                                            ELSE InitialSettings
    /\ case.pc \in {"ending", "teardown", "over"} =>
          settings = InitialSettings /\ history = NoHistory

\* The loop leaves keys behind, but never these: the receiver's, and that of
\* the last sender, which the last goroutine cannot miss.
LastKeysRemoved ==
    At("over") /\ ~NoLoop =>
        Alone \notin held /\ case.senders[Len(case.senders)] \notin held

\* The scenario comes to an end: every response fits the channel, and both
\* WaitGroups reach zero.
CaseEnds == <>At("over")

\* README.md:10, "Sending back any eventual test funds to the originator and
\* subsequently removing the account from the keystore": a scenario that got
\* through to its teardown leaves no key in the keystore.
EveryKeyRemoved == At("over") /\ ~case.error => held = {}
====
