---- MODULE FundingSetup ----
(***************************************************************************)
(* SetupFundingAccount of funding/manager.go: the source accounts' funds   *)
(* are swept into the funding account by concurrent funding transactions   *)
(* with implicit nonces, then the funding account must hold something in   *)
(* shard 0 and, when everything is tested, the minimum in the others, with *)
(* a top-up from shard 0 where it does not.                                *)
(***************************************************************************)
EXTENDS FundingTransaction, Keys

CONSTANTS
    GasCost,    \* Network.Gas.Cost
    Polls       \* Network.Balances.Retry.Attempts

\* A payment is the sweep of the account at a position of accs in a shard, or
\* the top-up of a shard.
Sweep(i, s) == <<i, s>>
TopUp(s) == <<0, s>>
IsSweep(p) == p[1] > 0
ShardOf(p) == p[2]

\* The lines of the text file and the keystore files' addresses: accs is no longer.
MaxAccounts == Len(PrivateKeys) + Cardinality(Addresses)

ASSUME SetupAssumption ==
    /\ GasCost \in Nat /\ Polls \in Nat
    /\ Senders = Accounts \X Shards
    /\ Payments = (0 .. MaxAccounts) \X Shards

VARIABLES
    setup,      \* where SetupFundingAccount stands, and what it still has to go through
    amount      \* amount[p]: what payment p transfers

setupVars == <<setup, amount>>

SetupPC == {"account", "sweep", "wait", "shards", "topup", "poll", "done", "failed"}

SetupTypeOK ==
    /\ setup \in [pc : SetupPC, sweeps : SUBSET Payments, left : SUBSET Shards,
                  shard : Shards, polls : 0 .. Polls]
    /\ amount \in [Payments -> Int]

SetupInit ==
    /\ setup = [pc |-> "account", sweeps |-> {}, left |-> Shards, shard |-> 0, polls |-> Polls]
    /\ amount = [p \in Payments |-> 0]

Target(p) == <<Funder, ShardOf(p)>>

\* What GetShardBalance may answer for the funding account: the credit of a
\* top-up is in transit until the other shard has mined it.
ReadBalances(s) ==
    LET credits == amount[TopUp(s)] * Cardinality(PaidBy(TopUp(s)))
    IN  {holdings[Funder][s] - credits, holdings[Funder][s]}

\* Balances on the chain: a mined transaction costs its sender the gas and moves
\* its amount when it succeeds. An account never spends more than it holds.
SetupMine ==
    /\ \E t \in pool, ok \in BOOLEAN :
          LET moved == IF ok THEN amount[t.to] ELSE 0
          IN  /\ MineTransaction(t, ok)
              /\ holdings' = [a \in Accounts |-> [s \in Shards |->
                    holdings[a][s] + (IF <<a, s>> = Target(t.to) THEN moved ELSE 0)
                                   - (IF <<a, s>> = t.from THEN moved + GasCost ELSE 0)]]
    /\ \A a \in Accounts, s \in Shards : holdings'[a][s] >= 0
    /\ UNCHANGED <<keystore, files, keyMapping, accs, setupVars, callVars>>

SetupLedgerNext ==
    \/ SetupMine
    \/ Evict /\ UNCHANGED <<keysVars, setupVars, callVars>>

\* The sweeps FundFundingAccount goes through, by account and then by shard; a
\* funding.shards setting that is neither "all" nor a number ends it before the first.
AllShards == -1
SweepShards(setting) == IF setting = AllShards THEN Shards ELSE Shards \cap {setting}
SweepsOf(setting) == {Sweep(i, s) : i \in DOMAIN accs, s \in SweepShards(setting)}
Before(p, q) == p[1] < q[1] \/ (p[1] = q[1] /\ p[2] < q[2])

\* The funding account: configured by address, with or without its key here,
\* found by name, or generated.
FindFundingAccount(setting) ==
    /\ setup.pc = "account"
    /\ keystore' \in {keystore, keystore \cup {Funder}}
    /\ setup' = [setup EXCEPT !.pc = "sweep", !.sweeps = SweepsOf(setting)]
    /\ UNCHANGED <<holdings, files, keyMapping, accs, amount, callVars, ledgerVars>>

GenerateFundingAccountFails ==
    /\ setup.pc = "account"
    /\ setup' = [setup EXCEPT !.pc = "failed"]
    /\ UNCHANGED <<keysVars, amount, callVars, ledgerVars>>

\* FundFundingAccountInShard: all but the gas cost is sent, in a goroutine; no
\* goroutine for a balance that cannot be read, is zero or is the gas cost.
SweepNext ==
    /\ setup.pc = "sweep"
    /\ \E p \in setup.sweeps :
          LET from == <<accs[p[1]], ShardOf(p)>>
              available == holdings[from[1]][from[2]]
          IN  /\ \A q \in setup.sweeps \ {p} : Before(p, q)
              /\ setup' = [setup EXCEPT !.sweeps = @ \ {p}]
              /\ \/ /\ available \notin {0, GasCost}
                    /\ amount' = [amount EXCEPT ![p] = available - GasCost]
                    /\ Enter(p, from, -1, available > GasCost)
                    /\ UNCHANGED exited
                 \/ UNCHANGED <<amount, callVars>>
    /\ UNCHANGED <<keysVars, ledgerVars>>

SweepsStarted ==
    /\ setup.pc = "sweep" /\ setup.sweeps = {}
    /\ setup' = [setup EXCEPT !.pc = "wait"]
    /\ UNCHANGED <<keysVars, amount, callVars, ledgerVars>>

\* Fault: the sweeps are not waited for.
SweepsAbandoned ==
    /\ setup.pc = "wait"
    /\ setup' = [setup EXCEPT !.pc = "shards"]
    /\ UNCHANGED <<keysVars, amount, callVars, ledgerVars>>

\* waitGroup.Wait; what the sweeps came to is not looked at.
SweepsAwaited ==
    /\ setup.pc = "wait"
    /\ \A p \in Payments : call[p].pc \in Returned \cup {"idle"}
    /\ setup' = [setup EXCEPT !.pc = "shards"]
    /\ UNCHANGED <<keysVars, amount, callVars, ledgerVars>>

InsufficientBalance(balance) == balance <= 0 \/ balance < MinimumFunds

\* CalculateFundingAmount with a multiple of one.
FundingAmount == MinimumFunds + GasCost

\* One turn of the loop over the shards, which a map yields in any order.
CheckShard(test) ==
    /\ setup.pc = "shards"
    /\ \E s \in setup.left : \E balance \in ReadBalances(s) :
          LET short == s # 0 /\ test = "all" /\ InsufficientBalance(balance)
          IN  /\ setup' = [setup EXCEPT !.left = @ \ {s},
                                        !.pc = IF s = 0 /\ balance <= 0 THEN "failed"
                                               ELSE IF short THEN "topup" ELSE "shards",
                                        !.shard = IF short THEN s ELSE @]
              /\ IF short
                 THEN /\ amount' = [amount EXCEPT ![TopUp(s)] = FundingAmount]
                      /\ Enter(TopUp(s), <<Funder, 0>>, -1, FundingAmount > 0)
                      /\ UNCHANGED exited
                 ELSE UNCHANGED <<amount, callVars>>
    /\ UNCHANGED <<keysVars, ledgerVars>>

CheckShardFails ==
    /\ setup.pc = "shards" /\ setup.left # {}
    /\ setup' = [setup EXCEPT !.pc = "failed"]
    /\ UNCHANGED <<keysVars, amount, callVars, ledgerVars>>

\* fundFundingAccountInNonBeaconShard: only insufficient funds are an error.
TopUpReturned ==
    /\ setup.pc = "topup" /\ call[TopUp(setup.shard)].pc \in Returned
    /\ setup' = IF call[TopUp(setup.shard)].pc = "insufficient"
                THEN [setup EXCEPT !.pc = "failed"]
                ELSE [setup EXCEPT !.pc = "poll", !.polls = Polls]
    /\ UNCHANGED <<keysVars, amount, callVars, ledgerVars>>

\* Fault: the last poll is taken for the expected balance.
PollUnheeded ==
    /\ setup.pc = "poll"
    /\ \/ setup' = [setup EXCEPT !.pc = "shards"]
       \/ setup' = IF setup.polls <= 1 THEN [setup EXCEPT !.pc = "shards"]
                   ELSE [setup EXCEPT !.polls = @ - 1]
    /\ UNCHANGED <<keysVars, amount, callVars, ledgerVars>>

\* Fault: GetExpectedShardBalance never gives up.
PollForever ==
    /\ setup.pc = "poll"
    /\ \/ /\ \E balance \in ReadBalances(setup.shard) :
                ~(balance <= 0) /\ balance >= FundingAmount
          /\ setup' = [setup EXCEPT !.pc = "shards"]
       \/ setup' = [setup EXCEPT !.polls = @ - 1]
    /\ UNCHANGED <<keysVars, amount, callVars, ledgerVars>>

\* GetExpectedShardBalance: a read that fails counts like one that falls short.
PollBalance ==
    /\ setup.pc = "poll"
    /\ \/ /\ \E balance \in ReadBalances(setup.shard) :
                ~(balance <= 0) /\ balance >= FundingAmount
          /\ setup' = [setup EXCEPT !.pc = "shards"]
       \/ setup' = IF setup.polls <= 1 THEN [setup EXCEPT !.pc = "failed"]
                   ELSE [setup EXCEPT !.polls = @ - 1]
    /\ UNCHANGED <<keysVars, amount, callVars, ledgerVars>>

AllShardsChecked ==
    /\ setup.pc = "shards" /\ setup.left = {}
    /\ setup' = [setup EXCEPT !.pc = "done"]
    /\ UNCHANGED <<keysVars, amount, callVars, ledgerVars>>

SetupStep(test, setting) ==
    \/ FindFundingAccount(setting) \/ GenerateFundingAccountFails
    \/ SweepNext \/ SweepsStarted \/ SweepsAwaited
    \/ CheckShard(test) \/ CheckShardFails
    \/ TopUpReturned \/ PollBalance \/ AllShardsChecked

\* A transfer is signed with the key of its sender: without it nothing reaches
\* the pool, and only then is the account reported missing.
SetupCall(p) ==
    /\ CallStep(p)
    /\ IF call[p].from[1] \in keystore THEN exited' = exited ELSE pool' = pool
    /\ UNCHANGED <<keysVars, setupVars>>
====
