---- MODULE TestAccountsProofs ----
(***************************************************************************)
(* What the operations on the test accounts preserve: the facts that the   *)
(* proofs about every scenario with balances and teardowns rest on.        *)
(***************************************************************************)
EXTENDS TestAccounts, TLAPS

\* What is credited, debited or moved within a shard stays a natural number.
LEMMA BalancesTyped ==
    ASSUME bal \in [TestAccountIds -> [Shards -> Nat]],
           NEW a \in TestAccountIds, NEW b \in TestAccountIds, NEW s \in Shards, NEW units \in Nat
    PROVE  /\ Credit(a, s, units) =>
                 /\ bal' \in [TestAccountIds -> [Shards -> Nat]]
                 /\ \A c \in TestAccountIds \ {a} : bal'[c] = bal[c]
                 /\ \A z \in Shards \ {s} : bal'[a][z] = bal[a][z]
           /\ Debit(a, s, units) /\ bal[a][s] >= units =>
                 /\ bal' \in [TestAccountIds -> [Shards -> Nat]]
                 /\ \A c \in TestAccountIds \ {a} : bal'[c] = bal[c]
                 /\ \A z \in Shards \ {s} : bal'[a][z] = bal[a][z]
           /\ Transfer(a, b, s, units) /\ bal[a][s] >= units =>
                 /\ bal' \in [TestAccountIds -> [Shards -> Nat]]
                 /\ \A c \in TestAccountIds \ {a, b} : bal'[c] = bal[c]
<1>1. ASSUME Credit(a, s, units)
      PROVE  /\ bal' \in [TestAccountIds -> [Shards -> Nat]]
             /\ \A c \in TestAccountIds \ {a} : bal'[c] = bal[c]
             /\ \A z \in Shards \ {s} : bal'[a][z] = bal[a][z]
    BY <1>1 DEF Credit
<1>2. ASSUME Debit(a, s, units), bal[a][s] >= units
      PROVE  /\ bal' \in [TestAccountIds -> [Shards -> Nat]]
             /\ \A c \in TestAccountIds \ {a} : bal'[c] = bal[c]
             /\ \A z \in Shards \ {s} : bal'[a][z] = bal[a][z]
    BY <1>2 DEF Debit
<1>3. ASSUME Transfer(a, b, s, units), bal[a][s] >= units
      PROVE  /\ bal' \in [TestAccountIds -> [Shards -> Nat]]
             /\ \A c \in TestAccountIds \ {a, b} : bal'[c] = bal[c]
    <2> DEFINE debited == [bal EXCEPT ![a][s] = @ - units]
    <2>1. /\ debited \in [TestAccountIds -> [Shards -> Nat]]
          /\ \A c \in TestAccountIds \ {a} : debited[c] = bal[c]
        BY <1>3
    <2>2. bal' = [debited EXCEPT ![b][s] = @ + units]
        BY <1>3 DEF Transfer
    <2> HIDE DEF debited
    <2> QED BY <2>1, <2>2
<1> QED BY <1>1, <1>2, <1>3

\* A sweep takes no more than there is, and nothing from anybody else.
LEMMA TeardownTyped ==
    ASSUME AccountsTypeOK, NEW g \in Tearing, NEW a \in TestAccountIds, NEW s \in Shards,
           Teardown(g, a, s)
    PROVE  /\ AccountsTypeOK'
           /\ \A b \in TestAccountIds \ {a} : bal'[b] = bal[b]
           /\ held' \subseteq held
           /\ \A h \in Tearing \ {g} : tear'[h] = tear[h]
           /\ tear'[g].pc # "off"
           /\ tear'[g].pc = "over" => a \notin held'
<1>0. /\ tear[g].amount \in Nat /\ bal[a][s] \in Nat /\ tear \in [Tearing -> [pc : TearPC, amount : Nat]]
      /\ bal \in [TestAccountIds -> [Shards -> Nat]]
    BY DEF AccountsTypeOK
<1>1. CASE TeardownRead(g, a, s)
    <2>1. PICK amount \in {0, bal[a][s]} :
              tear' = [tear EXCEPT ![g] = [pc |-> IF amount > 0 THEN "send" ELSE "remove",
                                           amount |-> amount]]
        BY <1>1 DEF TeardownRead
    <2>2. UNCHANGED <<held, bal>>
        BY <1>1 DEF TeardownRead
    <2>3. tear' \in [Tearing -> [pc : TearPC, amount : Nat]]
        BY <1>0, <2>1 DEF TearPC
    <2> QED BY <1>0, <2>1, <2>2, <2>3 DEF AccountsTypeOK
<1>2. CASE TeardownSend(g, a, s)
    <2>1. tear' = [tear EXCEPT ![g].pc = "remove"] /\ UNCHANGED held
        BY <1>2 DEF TeardownSend
    <2>2. tear' \in [Tearing -> [pc : TearPC, amount : Nat]]
        BY <1>0, <2>1 DEF TearPC
    <2>3. CASE UNCHANGED bal
        BY <1>0, <2>1, <2>2, <2>3 DEF AccountsTypeOK
    <2>4. CASE bal[a][s] >= tear[g].amount /\ Debit(a, s, tear[g].amount)
        BY <1>0, <2>1, <2>2, <2>4, BalancesTyped DEF AccountsTypeOK
    <2> QED BY <1>2, <2>3, <2>4 DEF TeardownSend, Debit
<1>3. CASE TeardownRemove(g, a)
    BY <1>0, <1>3 DEF TeardownRemove, RemoveAccount, AccountsTypeOK, TearPC
<1> QED BY <1>1, <1>2, <1>3 DEF Teardown
====
