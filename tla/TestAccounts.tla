---- MODULE TestAccounts ----
(***************************************************************************)
(* The accounts a scenario works with: the keys the keystore holds, their  *)
(* balances, and Teardown of testing/teardown.go, which reads a balance,   *)
(* sends it back and removes the key - three steps, because scenarios run  *)
(* it in goroutines.  Balances are counted in units; gas is less than one  *)
(* unit, so a balance is worth sweeping when it is at least one unit.      *)
(***************************************************************************)
EXTENDS Integers, FiniteSets

CONSTANTS
    TestAccountIds, \* the accounts the test cases generate
    Shards,
    NameOf,         \* NameOf[a]: the keystore name of a; test cases may share names
    Tearing         \* the goroutines that run Teardown

VARIABLES
    held,       \* the accounts whose key is in the keystore
    bal,        \* bal[a][s]: units of a in shard s
    tear        \* tear[g]: where goroutine g stands in Teardown, the amount it read

accountVars == <<held, bal, tear>>

TearPC == {"off", "read", "send", "remove", "over"}

AccountsTypeOK ==
    /\ held \subseteq TestAccountIds
    /\ bal \in [TestAccountIds -> [Shards -> Nat]]
    /\ tear \in [Tearing -> [pc : TearPC, amount : Nat]]

NotTearing == [g \in Tearing |-> [pc |-> "off", amount |-> 0]]

AccountsInit ==
    /\ held = {}
    /\ bal = [a \in TestAccountIds |-> [s \in Shards |-> 0]]
    /\ tear = NotTearing

\* accounts.GenerateAccount: a key already stored under the name makes the SDK
\* fail, and the retry removes it before the new one is generated.
GenerateAccount(a) == held' = {b \in held : NameOf[b] # NameOf[a]} \cup {a}

RemoveAccount(a) == held' = held \ {a}

Credit(a, s, units) == bal' = [bal EXCEPT ![a][s] = @ + units]

\* The chain: a transfer leaves a at once.  Within a shard it is there in the
\* same block; between shards it is in transit until the other shard mines it.
Debit(a, s, units) == bal' = [bal EXCEPT ![a][s] = @ - units]
Transfer(a, b, s, units) ==
    LET debited == [bal EXCEPT ![a][s] = @ - units]
    IN  bal' = [debited EXCEPT ![b][s] = @ + units]

StartTeardown(g) == tear' = [tear EXCEPT ![g] = [pc |-> "read", amount |-> 0]]

\* GetShardBalance: an error, or a balance that does not cover the gas cost,
\* leaves nothing to send.
TeardownRead(g, a, s) ==
    /\ tear[g].pc = "read"
    /\ \E amount \in {0, bal[a][s]} :
          tear' = [tear EXCEPT ![g] = [pc |-> IF amount > 0 THEN "send" ELSE "remove",
                                       amount |-> amount]]
    /\ UNCHANGED <<held, bal>>

\* SendTransaction with a timeout of 0.  Its result is ignored, so the step is
\* the same whether the node refuses it, loses it, or the sweep goes through.
TeardownSend(g, a, s) ==
    /\ tear[g].pc = "send"
    /\ \/ a \in held /\ bal[a][s] >= tear[g].amount
          /\ bal' = [bal EXCEPT ![a][s] = @ - tear[g].amount]
       \/ UNCHANGED bal
    /\ tear' = [tear EXCEPT ![g].pc = "remove"]
    /\ UNCHANGED held

TeardownRemove(g, a) ==
    /\ tear[g].pc = "remove"
    /\ RemoveAccount(a)
    /\ tear' = [tear EXCEPT ![g].pc = "over"]
    /\ UNCHANGED bal

Teardown(g, a, s) == TeardownRead(g, a, s) \/ TeardownSend(g, a, s) \/ TeardownRemove(g, a)
====
