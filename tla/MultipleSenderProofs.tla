---- MODULE MultipleSenderProofs ----
(***************************************************************************)
(* MultipleSender for any number of senders, any amounts and shards: the   *)
(* settings its goroutines send under, what the counted successes and the  *)
(* result rest on, and the keys its teardown cannot miss.                  *)
(***************************************************************************)
EXTENDS MultipleSender, TestAccountsProofs, FiniteSetTheorems

\* The phases of the scenario: the goroutines of the senders run between Spawn
\* and CountResponses, those of the teardown after EndingBalance.
Opening == {"new", "funding", "receiver", "start", "senders", "enter"}
Sending == {"spawn", "wait"}
Closing == {"teardown", "over"}

SendersInPhase ==
    \A a \in Many :
        /\ case.pc \in Opening => sender[a].pc = "unborn"
        /\ case.pc \notin Sending => sender[a].pc \in {"unborn", "done"}
        /\ sender[a].pc # "unborn" => a \in ToSet(case.senders)
        /\ sender[a].pc \in {"unborn", "balance", "send"} => sender[a].tx = "none"
        /\ sender[a].pc \in {"unborn", "balance", "send", "await"} => ~sender[a].success
        /\ sender[a].success => sender[a].tx = "mined"
        /\ a \in transit => sender[a].tx = "mined"

\* The goroutines of the senders are started in the order of the list.
SpawnedInTurn ==
    /\ IsInjective(case.senders)
    /\ \E n \in 0 .. Len(case.senders) : Started = 1 .. n

TeardownsInPhase ==
    /\ Len(case.senders) <= SenderCount /\ iteration <= Len(case.senders)
    /\ case.pc \notin Closing => iteration = 0 /\ tear = NotTearing
    /\ \A g \in Tearing : g > iteration => tear[g].pc = "off"

Base == TypeOK /\ SendersInPhase /\ SpawnedInTurn /\ TeardownsInPhase

\* The settings are swapped once for all senders.
Swapped == history = [prefix |-> ConfiguredPrefix, chain |-> NativeChain]

SettingsInv ==
    IF case.pc \in Sending \cup {"revert"} /\ case.prefix = "eth"
    THEN settings = SettingsFor("eth", EthChain) /\ Swapped
    ELSE settings = InitialSettings /\ history = NoHistory

\* Every success that was counted, or waits to be, is that of one sender.
Earned == {a \in Many : sender[a].pc = "done" /\ sender[a].success}
Successes == {i \in DOMAIN txs : txs[i]}

CountInv ==
    /\ case.pc \in Opening \cup Sending => Cardinality(Successes) = Cardinality(Earned)
    /\ case.successful <= Cardinality(Earned)

\* Until the teardown the receiver holds, in the shard the test case names, what
\* has arrived there, and nothing else.
Arrived == {a \in Many : sender[a].tx = "mined" /\ a \notin transit /\ Destination = case.to}

ResultInv ==
    /\ case.pc \notin Closing => bal[Alone][case.to] = Amount * Cardinality(Arrived)
    /\ case.result => case.pc \in Closing
    /\ case.result /\ case.expected => Arrived = Many

\* The goroutine of the receiver and the last of the loop remove their keys.
LastOne == Len(case.senders)

KeysInv ==
    /\ tear[0].pc = "over" => Alone \notin held
    /\ iteration > 0 /\ tear[LastOne].pc = "over" => case.senders[LastOne] \notin held
    /\ LastKeysRemoved

Inv == Base /\ SettingsInv /\ CountInv /\ ResultInv /\ KeysInv
----
\* What Base says of the types, spelt out.
LEMMA Types ==
    ASSUME Base
    PROVE  /\ AccountsTypeOK /\ case \in Case /\ case.pc \in CasePC /\ case.to \in Shards
           /\ sender \in [Many -> Sender] /\ txs \in Seq(BOOLEAN) /\ case.senders \in Seq(Many)
           /\ unpaid \subseteq Many /\ transit \subseteq Many
           /\ iteration \in 0 .. SenderCount /\ SenderCount \in Nat /\ case.successful \in Nat
           /\ bal \in [TestAccountIds -> [Shards -> Nat]] /\ held \subseteq TestAccountIds
           /\ tear \in [Tearing -> [pc : TearPC, amount : Nat]] /\ Tearing = 0 .. SenderCount
           /\ TestAccountIds = Many \cup {Alone} /\ Alone \notin Many /\ IsFiniteSet(Many)
           /\ FromShard \in Shards /\ Amount \in Nat \ {0} /\ GasCost \in Nat
<1>1. SenderCount \in Nat
    BY AsyncTeardownsAssumption, FS_CardinalityType DEF SenderCount
<1> QED BY <1>1, AsyncTeardownsAssumption, MultipleSenderAssumption
        DEF Base, TypeOK, Case, AccountsTypeOK, SenderCount

\* A step of the scenario between two of its phases' boundaries.
LEMMA Moves ==
    ASSUME Base, NEW pc \in CasePC, Goto(pc) \/ ErrorOccurred, case.pc \notin Sending \cup Closing,
           pc \in Opening => case.pc \in Opening,
           UNCHANGED <<tear, iteration, sender, txs, unpaid, transit>>, AccountsTypeOK'
    PROVE  /\ Base'
           /\ case'.pc \in {pc, "over"} /\ case'.senders = case.senders /\ case'.prefix = case.prefix
           /\ case'.to = case.to /\ case'.expected = case.expected
           /\ case'.successful = case.successful /\ case'.result \in {FALSE, case.result}
           /\ ErrorOccurred => case'.pc = "over" /\ ~case'.result
           /\ Goto(pc) => case'.pc = pc
<1> USE Types
<1>1. /\ case' \in Case
      /\ case'.pc \in {pc, "over"} /\ case'.senders = case.senders /\ case'.prefix = case.prefix
      /\ case'.to = case.to /\ case'.expected = case.expected
      /\ case'.successful = case.successful /\ case'.result \in {FALSE, case.result}
      /\ ErrorOccurred => case'.pc = "over" /\ ~case'.result
      /\ Goto(pc) => case'.pc = pc
    <2>1. CASE Goto(pc)
        BY <2>1 DEF Goto, ErrorOccurred, Case
    <2>2. CASE ErrorOccurred
        BY <2>2 DEF Goto, ErrorOccurred, Case, CasePC
    <2> QED BY <2>1, <2>2
<1>2. TypeOK'
    BY <1>1 DEF Base, TypeOK
<1>3. SendersInPhase'
    BY <1>1 DEF Base, SendersInPhase, Opening, Sending
<1>4. TeardownsInPhase'
    BY <1>1 DEF Base, TeardownsInPhase, Closing, NotTearing
<1>5. SpawnedInTurn'
    BY <1>1 DEF Base, SpawnedInTurn, Started
<1> QED BY <1>1, <1>2, <1>3, <1>4, <1>5 DEF Base

\* The batch: the senders of the list have their keys, whatever was paid by now.
LEMMA FundingBase ==
    ASSUME Base, GenerateAndFundSenders
    PROVE  /\ Base'
           /\ UNCHANGED <<settingsVars, tear, iteration, sender, txs, transit>>
           /\ case.pc = "senders" /\ case'.pc \in {"enter", "over"}
           /\ case'.prefix = case.prefix /\ case'.to = case.to /\ case'.expected = case.expected
           /\ case'.successful = case.successful /\ case'.result \in {FALSE, case.result}
           /\ case'.pc = "over" => ~case'.result
           /\ UNCHANGED bal \/ \A a \in TestAccountIds \ Many : bal'[a] = bal[a]
<1>0. /\ case.pc = "senders" /\ case.pc \notin Sending \cup Closing /\ case.pc \in Opening
      /\ "over" \in CasePC /\ "over" \notin Opening
      /\ UNCHANGED <<settingsVars, tear, iteration, sender, txs, transit>>
    BY DEF GenerateAndFundSenders, At, Sending, Closing, Opening, CasePC
<1>1. CASE ErrorOccurred /\ UNCHANGED <<held, bal, unpaid>>
    <2>1. AccountsTypeOK'
        BY <1>0, <1>1, Types DEF AccountsTypeOK
    <2> QED BY <1>0, <1>1, <2>1, Moves
<1>2. ASSUME NEW list \in UNION {[1 .. n -> Many] : n \in 0 .. SenderCount}, NEW late \in SUBSET Many,
             NEW never \in SUBSET (ToSet(list) \ late),
             IsInjective(list),
             held' = held \cup ToSet(list),
             unpaid' = late \cap ToSet(list),
             bal' = [a \in TestAccountIds |->
                       IF a \in ToSet(list) \ (late \cup never)
                       THEN [bal[a] EXCEPT ![FromShard] = Amount + GasCost] ELSE bal[a]],
             case' = [case EXCEPT !.pc = "enter", !.senders = list]
      PROVE  /\ Base' /\ case'.pc = "enter"
             /\ case'.prefix = case.prefix /\ case'.to = case.to /\ case'.expected = case.expected
             /\ case'.successful = case.successful /\ case'.result = case.result
             /\ \A a \in TestAccountIds \ Many : bal'[a] = bal[a]
    <2>1. PICK n \in 0 .. SenderCount : list \in [1 .. n -> Many]
        BY <1>2
    <2>2. n \in Nat /\ n <= SenderCount
        BY <2>1, Types
    <2>3. list \in Seq(Many) /\ Len(list) = n /\ DOMAIN list = 1 .. n
        BY <2>1, <2>2
    <2>4. ToSet(list) \subseteq Many
        BY <2>1 DEF ToSet
    <2>5. Amount + GasCost \in Nat
        BY Types
    <2>6. /\ bal' \in [TestAccountIds -> [Shards -> Nat]]
          /\ \A a \in TestAccountIds \ Many : bal'[a] = bal[a]
        BY <1>2, <2>4, <2>5, Types
    <2>7. AccountsTypeOK' /\ unpaid' \subseteq Many
        BY <1>0, <1>2, <2>4, <2>6, Types DEF AccountsTypeOK
    <2>8. /\ case' \in Case /\ case'.pc = "enter" /\ case'.senders = list
          /\ case'.prefix = case.prefix /\ case'.to = case.to /\ case'.expected = case.expected
          /\ case'.successful = case.successful /\ case'.result = case.result
        BY <1>2, <2>3, Types DEF Case, CasePC
    <2>9. TypeOK'
        BY <1>0, <2>7, <2>8 DEF Base, TypeOK
    <2>10. \A a \in Many : sender[a].pc = "unborn"
        BY <1>0 DEF Base, SendersInPhase
    <2>11. SendersInPhase'
        BY <1>0, <2>8, <2>10 DEF Base, SendersInPhase
    <2>12. TeardownsInPhase'
        <3>1. iteration = 0 /\ tear = NotTearing
            BY <1>0 DEF Base, TeardownsInPhase
        <3> QED BY <1>0, <2>2, <2>3, <2>8, <3>1 DEF TeardownsInPhase, Base, NotTearing
    <2>13. Started' = {}
        <3>1. \A i \in 1 .. n : sender[list[i]].pc = "unborn"
            BY <2>1, <2>10
        <3> QED BY <1>0, <2>3, <2>8, <3>1 DEF Started
    <2>14. 0 \in 0 .. Len(list) /\ 1 .. 0 = {}
        BY <2>2, <2>3
    <2>15. SpawnedInTurn'
        BY <1>2, <2>8, <2>13, <2>14 DEF SpawnedInTurn
    <2> QED BY <2>6, <2>8, <2>9, <2>11, <2>12, <2>15 DEF Base
<1> QED
    <2>1. CASE \E list \in UNION {[1 .. n -> Many] : n \in 0 .. SenderCount}, late \in SUBSET Many :
             /\ IsInjective(list)
             /\ held' = held \cup ToSet(list)
             /\ unpaid' = late \cap ToSet(list)
             /\ \E never \in SUBSET (ToSet(list) \ late) :
                   bal' = [a \in TestAccountIds |->
                       IF a \in ToSet(list) \ (late \cup never)
                       THEN [bal[a] EXCEPT ![FromShard] = Amount + GasCost] ELSE bal[a]]
             /\ case' = [case EXCEPT !.pc = "enter", !.senders = list]
        <3>1. PICK list \in UNION {[1 .. n -> Many] : n \in 0 .. SenderCount} :
                \E late \in SUBSET Many :
                 /\ IsInjective(list)
                 /\ held' = held \cup ToSet(list)
                 /\ unpaid' = late \cap ToSet(list)
                 /\ \E never \in SUBSET (ToSet(list) \ late) :
                       bal' = [a \in TestAccountIds |->
                           IF a \in ToSet(list) \ (late \cup never)
                           THEN [bal[a] EXCEPT ![FromShard] = Amount + GasCost] ELSE bal[a]]
                 /\ case' = [case EXCEPT !.pc = "enter", !.senders = list]
            BY <2>1, Zenon
        <3>2. PICK late \in SUBSET Many :
                 /\ IsInjective(list)
                 /\ held' = held \cup ToSet(list)
                 /\ unpaid' = late \cap ToSet(list)
                 /\ \E never \in SUBSET (ToSet(list) \ late) :
                       bal' = [a \in TestAccountIds |->
                           IF a \in ToSet(list) \ (late \cup never)
                           THEN [bal[a] EXCEPT ![FromShard] = Amount + GasCost] ELSE bal[a]]
                 /\ case' = [case EXCEPT !.pc = "enter", !.senders = list]
            BY <3>1, Zenon
        <3>3. PICK never \in SUBSET (ToSet(list) \ late) :
                  bal' = [a \in TestAccountIds |->
                      IF a \in ToSet(list) \ (late \cup never)
                      THEN [bal[a] EXCEPT ![FromShard] = Amount + GasCost] ELSE bal[a]]
            BY <3>2, Zenon
        <3>4. /\ Base' /\ case'.pc = "enter"
              /\ case'.prefix = case.prefix /\ case'.to = case.to /\ case'.expected = case.expected
              /\ case'.successful = case.successful /\ case'.result = case.result
              /\ \A a \in TestAccountIds \ Many : bal'[a] = bal[a]
            BY <1>2, <3>2, <3>3, Zenon
        <3> QED BY <1>0, <3>4
    <2> QED BY <1>0, <1>1, <2>1 DEF GenerateAndFundSenders

\* What Started says of the next sender of the list.
LEMMA NextSender ==
    ASSUME Base, Cardinality(Started) < Len(case.senders)
    PROVE  \E n \in 0 .. Len(case.senders) :
               /\ Started = 1 .. n /\ Cardinality(Started) + 1 = n + 1
               /\ n + 1 \in DOMAIN case.senders
               /\ case.senders[n + 1] \in Many /\ case.senders[n + 1] \in ToSet(case.senders)
               /\ sender[case.senders[n + 1]].pc = "unborn"
               /\ \A i \in DOMAIN case.senders : case.senders[i] = case.senders[n + 1] => i = n + 1
<1>1. case.senders \in Seq(Many) /\ Len(case.senders) \in Nat /\ DOMAIN case.senders = 1 .. Len(case.senders)
    BY Types
<1>2. PICK n \in 0 .. Len(case.senders) : Started = 1 .. n
    BY DEF Base, SpawnedInTurn
<1>3. n \in Nat
    BY <1>1, <1>2
<1>4. Cardinality(Started) = n
    BY <1>2, <1>3, FS_Interval
<1>5. n + 1 \in DOMAIN case.senders /\ n + 1 \notin 1 .. n
    BY <1>1, <1>3, <1>4
<1>6. case.senders[n + 1] \in Many /\ case.senders[n + 1] \in ToSet(case.senders)
    BY <1>1, <1>5 DEF ToSet
<1>7. sender[case.senders[n + 1]].pc = "unborn"
    BY <1>2, <1>5 DEF Started
<1>8. \A i \in DOMAIN case.senders : case.senders[i] = case.senders[n + 1] => i = n + 1
    BY <1>5 DEF Base, SpawnedInTurn, IsInjective
<1> QED BY <1>2, <1>4, <1>5, <1>6, <1>7, <1>8

LEMMA SpawnBase ==
    ASSUME Base, Spawn
    PROVE  /\ Base' /\ UNCHANGED <<settingsVars, accountVars, iteration, txs, unpaid, transit>>
           /\ case.pc = "spawn" /\ case'.pc \in Sending
           /\ \A f \in {"senders", "prefix", "to", "expected", "successful", "result", "error"} :
                 case'[f] = case[f]
           /\ \A a \in Many : /\ sender'[a].success = sender[a].success /\ sender'[a].tx = sender[a].tx
                              /\ sender[a].pc = "done" <=> sender'[a].pc = "done"
<1>0. /\ case.pc = "spawn" /\ UNCHANGED <<accountVars, iteration, txs, unpaid, transit>>
      /\ UNCHANGED <<settingsVars, held, bal, tear>> /\ AccountsTypeOK'
    BY Types DEF Spawn, At, accountVars, AccountsTypeOK
<1>1. CASE /\ Cardinality(Started) < Len(case.senders) /\ UNCHANGED case
           /\ sender' = [sender EXCEPT ![case.senders[Cardinality(Started) + 1]].pc = "balance"]
    <2>1. PICK n \in 0 .. Len(case.senders) :
               /\ Started = 1 .. n /\ Cardinality(Started) + 1 = n + 1
               /\ n + 1 \in DOMAIN case.senders
               /\ case.senders[n + 1] \in Many /\ case.senders[n + 1] \in ToSet(case.senders)
               /\ sender[case.senders[n + 1]].pc = "unborn"
               /\ \A i \in DOMAIN case.senders : case.senders[i] = case.senders[n + 1] => i = n + 1
        BY <1>1, NextSender
    <2> DEFINE b == case.senders[n + 1]
    <2>2. b \in Many /\ b \in ToSet(case.senders) /\ sender[b].pc = "unborn"
        BY <2>1
    <2>3. sender' = [sender EXCEPT ![b].pc = "balance"]
        BY <1>1, <2>1
    <2>4. \A i \in DOMAIN case.senders : case.senders[i] = b <=> i = n + 1
        BY <2>1
    <2> HIDE DEF b
    <2>5. /\ sender' \in [Many -> Sender]
          /\ \A a \in Many : /\ sender'[a].success = sender[a].success /\ sender'[a].tx = sender[a].tx
                             /\ sender'[a].pc = IF a = b THEN "balance" ELSE sender[a].pc
        <3>1. sender \in [Many -> Sender] /\ sender[b] \in Sender
            BY <2>2, Types
        <3>2. [sender[b] EXCEPT !.pc = "balance"] \in Sender
            BY ONLY <3>1 DEF Sender, SenderPC
        <3>3. sender' = [sender EXCEPT ![b] = [sender[b] EXCEPT !.pc = "balance"]]
            BY ONLY <2>3
        <3>4. \A a \in Many : sender'[a] = IF a = b THEN [sender[b] EXCEPT !.pc = "balance"] ELSE sender[a]
            BY ONLY <3>1, <3>3
        <3>5. sender' \in [Many -> Sender]
            BY ONLY <3>1, <3>2, <3>3
        <3>6. \A a \in Many : sender[a] \in Sender
            BY ONLY <3>1
        <3> QED
            BY ONLY <3>4, <3>5, <3>6 DEF Sender
    <2>6. TypeOK'
        BY <1>0, <1>1, <2>5 DEF Base, TypeOK
    <2>7. \A a \in Many : sender[a].tx = "none" => a \notin transit
        BY DEF Base, SendersInPhase
    <2>8. SendersInPhase'
        BY <1>0, <1>1, <2>2, <2>5 DEF Base, SendersInPhase, Opening, Sending
    <2>9. Started' = 1 .. n + 1
        <3>1. /\ case.senders \in Seq(Many) /\ Len(case.senders) \in Nat
              /\ DOMAIN case.senders = 1 .. Len(case.senders)
            BY Types
        <3>2. \A i \in DOMAIN case.senders : case.senders[i] \in Many
            BY <3>1
        <3>3. \A i \in DOMAIN case.senders :
                 sender'[case.senders[i]].pc # "unborn" <=> (i \in Started \/ i = n + 1)
            BY <2>4, <2>5, <3>2 DEF Started
        <3>4. Started' = {i \in DOMAIN case.senders : i \in Started \/ i = n + 1}
            BY <1>1, <3>3 DEF Started
        <3>5. Started' = {i \in 1 .. Len(case.senders) : i \in 1 .. n \/ i = n + 1}
            BY <2>1, <3>1, <3>4
        <3>6. n \in Nat /\ n + 1 \in 1 .. Len(case.senders)
            BY <2>1, <3>1
        <3> QED BY <3>1, <3>5, <3>6
    <2>10. n + 1 \in 0 .. Len(case.senders)
        BY <2>1, Types
    <2>11. SpawnedInTurn'
        BY <1>1, <2>9, <2>10 DEF Base, SpawnedInTurn
    <2>12. TeardownsInPhase'
        BY <1>0, <1>1 DEF Base, TeardownsInPhase, NotTearing
    <2> QED BY <1>0, <1>1, <2>2, <2>5, <2>6, <2>8, <2>11, <2>12 DEF Base, Sending
<1>2. CASE Goto("wait") /\ UNCHANGED sender
    <2>1. /\ case' \in Case /\ case'.pc = "wait"
          /\ \A f \in {"senders", "prefix", "to", "expected", "successful", "result", "error"} :
                 case'[f] = case[f]
        BY <1>2, Types DEF Goto, Case, CasePC
    <2>2. TypeOK'
        BY <1>0, <1>2, <2>1 DEF Base, TypeOK
    <2>3. SendersInPhase' /\ TeardownsInPhase' /\ SpawnedInTurn'
        BY <1>0, <1>2, <2>1 DEF Base, SendersInPhase, TeardownsInPhase, NotTearing, Sending, Opening,
              Closing, SpawnedInTurn, Started
    <2> QED BY <1>0, <1>2, <2>1, <2>2, <2>3 DEF Base, Sending
<1> QED BY <1>1, <1>2 DEF Spawn

\* A step after which no goroutine of a sender is between its phases.
LEMMA Advances ==
    ASSUME Base, NEW pc \in CasePC \ (Opening \cup Sending), case.pc \notin Opening,
           pc \in Closing \/ case.pc \notin Closing,
           case' \in Case, case'.pc = pc, case'.senders = case.senders,
           case.pc \in Sending => \A a \in Many : sender[a].pc \in {"unborn", "done"},
           UNCHANGED <<held, bal, tear, iteration, sender, unpaid, transit>>,
           txs' = txs \/ txs' = <<>>
    PROVE  Base'
<1>1. AccountsTypeOK'
    BY Types DEF AccountsTypeOK
<1>2. txs' \in Seq(BOOLEAN) /\ Len(txs') <= SenderCount
    <2>1. txs \in Seq(BOOLEAN) /\ Len(txs) <= SenderCount /\ SenderCount \in Nat
        BY Types DEF Base, TypeOK
    <2>2. CASE txs' = txs
        BY <2>1, <2>2
    <2>3. CASE txs' = <<>>
        BY <2>1, <2>3
    <2> QED BY <2>2, <2>3
<1>3. TypeOK'
    BY <1>1, <1>2 DEF Base, TypeOK
<1>4. SendersInPhase'
    BY DEF Base, SendersInPhase, Opening, Sending
<1>5. TeardownsInPhase'
    BY DEF Base, TeardownsInPhase, Closing, NotTearing
<1>6. SpawnedInTurn'
    BY DEF Base, SpawnedInTurn, Started
<1> QED BY <1>3, <1>4, <1>5, <1>6 DEF Base

\* Once they are awaited, no sender is in between: those of the list are done.
LEMMA AllDone ==
    ASSUME Base, \A i \in Started : sender[case.senders[i]].pc = "done"
    PROVE  \A a \in Many : sender[a].pc \in {"unborn", "done"}
<1> SUFFICES ASSUME NEW a \in Many, sender[a].pc # "unborn" PROVE sender[a].pc = "done"
    OBVIOUS
<1>1. PICK i \in DOMAIN case.senders : case.senders[i] = a
    BY DEF Base, SendersInPhase, ToSet
<1> QED BY <1>1 DEF Started

LEMMA CountingBase ==
    ASSUME Base, CountResponses
    PROVE  /\ Base' /\ UNCHANGED <<settingsVars, accountVars, iteration, sender, unpaid, transit>>
           /\ case.pc = "wait" /\ case'.pc = "revert" /\ txs' = <<>>
           /\ \A f \in {"senders", "prefix", "to", "expected", "result", "error"} : case'[f] = case[f]
           /\ case'.successful = Cardinality(Successes)
           /\ \A a \in Many : sender[a].pc \in {"unborn", "done"}
<1>1. /\ case.pc = "wait" /\ UNCHANGED <<settingsVars, accountVars, iteration, sender, unpaid, transit>>
      /\ UNCHANGED <<held, bal, tear>> /\ txs' = <<>>
      /\ case' = [case EXCEPT !.pc = "revert", !.successful = Cardinality(Successes)]
      /\ \A i \in Started : sender[case.senders[i]].pc = "done"
    BY DEF CountResponses, At, accountVars, Successes
<1>2. \A a \in Many : sender[a].pc \in {"unborn", "done"}
    BY <1>1, AllDone
<1>3. Cardinality(Successes) \in Nat
    <2>1. DOMAIN txs = 1 .. Len(txs) /\ Len(txs) \in Nat
        BY Types
    <2>2. IsFiniteSet(1 .. Len(txs))
        BY <2>1, FS_Interval
    <2>3. Successes \in SUBSET (1 .. Len(txs))
        BY <2>1 DEF Successes
    <2> QED BY <2>2, <2>3, FS_Subset, FS_CardinalityType
<1> DEFINE n == Cardinality(Successes)
<1> HIDE DEF n
<1>4. /\ case' \in Case /\ case'.pc = "revert" /\ case'.successful = n
      /\ \A f \in {"senders", "prefix", "to", "expected", "result", "error"} : case'[f] = case[f]
    <2>1. n \in Nat /\ case' = [case EXCEPT !.pc = "revert", !.successful = n]
        BY <1>1, <1>3 DEF n
    <2> QED BY <2>1, Types DEF Case, CasePC
<1>5. "revert" \in CasePC \ (Opening \cup Sending) /\ case.pc \notin Opening /\ case.pc \notin Closing
    BY <1>1 DEF CasePC, Opening, Sending, Closing
<1>6. Base'
    BY <1>1, <1>2, <1>4, <1>5, Advances
<1> QED BY <1>1, <1>2, <1>4, <1>6 DEF n

LEMMA EndingBase ==
    ASSUME Base, EndingBalance
    PROVE  /\ Base' /\ UNCHANGED <<settingsVars, accountVars, iteration, sender, txs, unpaid, transit>>
           /\ case.pc = "ending" /\ case'.pc \in {"teardown", "over"}
           /\ \A f \in {"senders", "prefix", "to", "expected", "successful"} : case'[f] = case[f]
           /\ case'.result /\ case.expected => case.successful = SenderCount
                                               /\ bal[Alone][case.to] = Amount * SenderCount
           /\ case'.pc = "over" => case'.error
<1>1. /\ case.pc = "ending" /\ UNCHANGED <<settingsVars, accountVars, iteration, sender, txs, unpaid, transit>>
      /\ UNCHANGED <<held, bal, tear>>
    BY DEF EndingBalance, At, accountVars
<1> DEFINE all == case.successful = SenderCount
           expected == IF case.expected THEN Amount * SenderCount ELSE 0
           met == all /\ bal[Alone][case.to] = expected
<1>2. met \in BOOLEAN /\ (met /\ case.expected => case.successful = SenderCount
                                               /\ bal[Alone][case.to] = Amount * SenderCount)
    OBVIOUS
<1>3. case' = [case EXCEPT !.pc = "teardown", !.result = met] \/ ErrorOccurred
    BY DEF EndingBalance
<1> HIDE DEF met
<1>4. /\ case' \in Case /\ case'.pc \in {"teardown", "over"}
      /\ \A f \in {"senders", "prefix", "to", "expected", "successful"} : case'[f] = case[f]
      /\ case'.result => met
      /\ case'.pc = "over" => case'.error
    BY <1>2, <1>3, Types DEF Case, CasePC, ErrorOccurred
<1>5. /\ case'.pc \in CasePC \ (Opening \cup Sending) /\ case.pc \notin Opening /\ case.pc \notin Sending
      /\ case'.pc \in Closing
    BY <1>1, <1>4 DEF CasePC, Opening, Sending, Closing
<1>6. Base'
    BY <1>1, <1>4, <1>5, Advances
<1> QED BY <1>1, <1>2, <1>4, <1>6

LEMMA FinishBase ==
    ASSUME Base, Finish
    PROVE  /\ Base' /\ UNCHANGED <<settingsVars, accountVars, iteration, sender, txs, unpaid, transit>>
           /\ case.pc = "teardown" /\ case'.pc = "over"
           /\ \A f \in {"senders", "prefix", "to", "expected", "successful", "result", "error"} :
                 case'[f] = case[f]
<1>1. /\ case.pc = "teardown" /\ UNCHANGED <<settingsVars, accountVars, iteration, sender, txs, unpaid, transit>>
      /\ UNCHANGED <<held, bal, tear>> /\ case' = [case EXCEPT !.pc = "over"]
    BY DEF Finish, At, Goto, accountVars
<1>2. /\ case' \in Case /\ case'.pc = "over"
      /\ \A f \in {"senders", "prefix", "to", "expected", "successful", "result", "error"} :
            case'[f] = case[f]
    BY <1>1, Types DEF Case, CasePC
<1>3. /\ "over" \in CasePC \ (Opening \cup Sending) /\ case.pc \notin Opening /\ case.pc \notin Sending
      /\ "over" \in Closing
    BY <1>1 DEF CasePC, Opening, Sending, Closing
<1>4. Base'
    BY <1>1, <1>2, <1>3, Advances
<1> QED BY <1>1, <1>2, <1>4

\* The goroutines of the teardown are started in turn.
LEMMA SpawningBase ==
    ASSUME Base, SpawnTeardowns
    PROVE  /\ Base' /\ UNCHANGED <<settingsVars, scenarioVars, held, bal>> /\ case.pc = "teardown"
           /\ \/ /\ iteration < Len(case.senders) /\ iteration' = iteration + 1
                 /\ iteration' \in Tearing
                 /\ tear' = [tear EXCEPT ![iteration + 1] = [pc |-> "read", amount |-> 0]]
              \/ /\ iteration = Len(case.senders) /\ iteration' = iteration
                 /\ tear' = [tear EXCEPT ![0] = [pc |-> "read", amount |-> 0]]
<1>1. /\ case.pc = "teardown" /\ UNCHANGED <<settingsVars, scenarioVars, held, bal>>
      /\ UNCHANGED <<case, sender, txs, unpaid, transit>>
    BY DEF SpawnTeardowns, At, SpawnNext, SpawnAlone, scenarioVars
<1>2. \/ /\ iteration < Len(case.senders) /\ iteration' = iteration + 1
         /\ tear' = [tear EXCEPT ![iteration + 1] = [pc |-> "read", amount |-> 0]]
      \/ /\ iteration = Len(case.senders) /\ iteration' = iteration
         /\ tear' = [tear EXCEPT ![0] = [pc |-> "read", amount |-> 0]]
    BY DEF SpawnTeardowns, SpawnNext, SpawnAlone, StartTeardown
<1>3. /\ iteration \in Nat /\ Len(case.senders) \in Nat /\ SenderCount \in Nat
      /\ Len(case.senders) <= SenderCount /\ iteration <= Len(case.senders)
      /\ Tearing = 0 .. SenderCount /\ tear \in [Tearing -> [pc : TearPC, amount : Nat]]
      /\ \A g \in Tearing : g > iteration => tear[g].pc = "off"
    BY Types DEF Base, TeardownsInPhase
<1>4. CASE /\ iteration < Len(case.senders) /\ iteration' = iteration + 1
           /\ tear' = [tear EXCEPT ![iteration + 1] = [pc |-> "read", amount |-> 0]]
    <2>1. iteration' \in Tearing /\ iteration' <= Len(case.senders) /\ iteration' \in 0 .. SenderCount
        BY <1>3, <1>4
    <2>2. tear' \in [Tearing -> [pc : TearPC, amount : Nat]]
        BY <1>3, <1>4 DEF TearPC
    <2>3. \A g \in Tearing : g > iteration' => tear'[g].pc = "off"
        BY <1>3, <1>4
    <2>4. TypeOK'
        BY <1>1, <2>1, <2>2, Types DEF Base, TypeOK, AccountsTypeOK
    <2>5. TeardownsInPhase'
        BY <1>1, <1>3, <2>1, <2>3 DEF TeardownsInPhase, Closing
    <2>6. SendersInPhase' /\ SpawnedInTurn'
        BY <1>1 DEF Base, SendersInPhase, SpawnedInTurn, Started
    <2> QED BY <1>1, <1>4, <2>1, <2>4, <2>5, <2>6 DEF Base
<1>5. CASE /\ iteration = Len(case.senders) /\ iteration' = iteration
           /\ tear' = [tear EXCEPT ![0] = [pc |-> "read", amount |-> 0]]
    <2>1. tear' \in [Tearing -> [pc : TearPC, amount : Nat]]
        BY <1>3, <1>5 DEF TearPC
    <2>2. \A g \in Tearing : g > iteration' => tear'[g].pc = "off"
        BY <1>3, <1>5
    <2>3. TypeOK'
        BY <1>1, <1>5, <2>1, Types DEF Base, TypeOK, AccountsTypeOK
    <2>4. TeardownsInPhase'
        BY <1>1, <1>3, <1>5, <2>2 DEF TeardownsInPhase, Closing
    <2>5. SendersInPhase' /\ SpawnedInTurn'
        BY <1>1 DEF Base, SendersInPhase, SpawnedInTurn, Started
    <2> QED BY <1>1, <1>5, <2>3, <2>4, <2>5 DEF Base
<1> QED BY <1>2, <1>4, <1>5

\* Until the senders are generated a step goes on or ends the scenario.
LEMMA OpeningBase ==
    ASSUME Base, Begin \/ CheckFunding \/ GenerateReceiver \/ StartingBalance
    PROVE  /\ Base' /\ UNCHANGED <<settingsVars, bal, tear, iteration, sender, txs, unpaid, transit>>
           /\ case.pc \in Opening \ {"enter"} /\ case'.pc \in (Opening \ {"new", "enter"}) \cup {"over"}
           /\ case'.senders = case.senders /\ case'.prefix = case.prefix /\ case'.to = case.to
           /\ case'.expected = case.expected /\ case'.successful = case.successful
           /\ case'.result \in {FALSE, case.result}
<1>1. CASE Begin \/ CheckFunding
    <2>1. /\ case.pc \notin Sending \cup Closing /\ case.pc \in Opening \ {"enter"}
          /\ Goto("over") \/ Goto("funding") \/ Goto("receiver") \/ ErrorOccurred
          /\ UNCHANGED <<settingsVars, bal, tear, iteration, sender, txs, unpaid, transit>> /\ UNCHANGED held
          /\ {"over", "funding", "receiver"} \subseteq CasePC
        BY <1>1 DEF Begin, CheckFunding, At, Sending, Closing, Opening, CasePC, accountVars
    <2>2. AccountsTypeOK'
        BY <2>1, Types DEF AccountsTypeOK
    <2> QED BY <2>1, <2>2, Moves DEF Opening
<1>2. CASE GenerateReceiver
    <2>1. /\ case.pc \notin Sending \cup Closing /\ case.pc \in Opening \ {"enter"} /\ "start" \in CasePC
          /\ Goto("start") \/ ErrorOccurred
          /\ UNCHANGED <<settingsVars, bal, tear, iteration, sender, txs, unpaid, transit>>
        BY <1>2 DEF GenerateReceiver, At, Sending, Closing, Opening, CasePC
    <2>2. AccountsTypeOK'
        BY <1>2, Types DEF GenerateReceiver, GenerateAccount, AccountsTypeOK
    <2> QED BY <2>1, <2>2, Moves DEF Opening
<1>3. CASE StartingBalance
    <2>1. /\ case.pc \notin Sending \cup Closing /\ case.pc \in Opening \ {"enter"} /\ "senders" \in CasePC
          /\ Goto("senders") \/ ErrorOccurred
          /\ UNCHANGED <<settingsVars, bal, tear, iteration, sender, txs, unpaid, transit>>
        BY <1>3 DEF StartingBalance, At, Sending, Closing, Opening, CasePC
    <2>2. AccountsTypeOK'
        BY <1>3, Types DEF StartingBalance, RemoveAccount, AccountsTypeOK
    <2> QED BY <2>1, <2>2, Moves DEF Opening
<1> QED BY <1>1, <1>2, <1>3

\* Entering and leaving the settings of the sends.
LEMMA SettingsBase ==
    ASSUME Base, EnterSettings \/ LeaveSettings
    PROVE  /\ Base' /\ UNCHANGED <<held, bal, tear, iteration, sender, txs, unpaid, transit>>
           /\ \/ case.pc = "enter" /\ case'.pc = "spawn" /\ EnterSend(case.prefix)
              \/ case.pc = "revert" /\ case'.pc = "ending" /\ RevertRPCSettings
           /\ case'.senders = case.senders /\ case'.prefix = case.prefix /\ case'.to = case.to
           /\ case'.expected = case.expected /\ case'.successful = case.successful
           /\ case'.result \in {FALSE, case.result}
<1>1. /\ case.pc \notin Sending \cup Closing
      /\ UNCHANGED <<held, bal, tear, iteration, sender, txs, unpaid, transit>>
      /\ \/ Goto("spawn") /\ case.pc = "enter" /\ EnterSend(case.prefix)
         \/ Goto("ending") /\ case.pc = "revert" /\ RevertRPCSettings
      /\ {"spawn", "ending"} \subseteq CasePC /\ "spawn" \notin Opening /\ "ending" \notin Opening
    BY DEF EnterSettings, LeaveSettings, At, Sending, Closing, Opening, CasePC, accountVars
<1>2. AccountsTypeOK'
    BY <1>1, Types DEF AccountsTypeOK
<1> QED BY <1>1, <1>2, Moves

\* The scenario itself keeps to its phases.
LEMMA MainBase == ASSUME Base, MainStep PROVE Base'
BY OpeningBase, FundingBase, SettingsBase, SpawnBase, CountingBase, EndingBase, SpawningBase, FinishBase
   DEF MainStep

\* What the goroutine of one sender touches, and what it may leave behind.
SenderInPhase(a) ==
    /\ case.pc \in Opening => sender[a].pc = "unborn"
    /\ case.pc \notin Sending => sender[a].pc \in {"unborn", "done"}
    /\ sender[a].pc # "unborn" => a \in ToSet(case.senders)
    /\ sender[a].pc \in {"unborn", "balance", "send"} => sender[a].tx = "none"
    /\ sender[a].pc \in {"unborn", "balance", "send", "await"} => ~sender[a].success
    /\ sender[a].success => sender[a].tx = "mined"
    /\ a \in transit => sender[a].tx = "mined"

\* A step of one sender, or of the chain on its transfer.
LEMMA OneSender ==
    ASSUME Base, NEW a \in Many, UNCHANGED <<case, tear, iteration>>, AccountsTypeOK',
           sender' \in [Many -> Sender], \A b \in Many \ {a} : sender'[b] = sender[b],
           txs' \in Seq(BOOLEAN), Len(txs') <= SenderCount,
           unpaid' \subseteq Many, transit' \subseteq Many,
           \A b \in Many \ {a} : b \in transit' => b \in transit,
           sender[a].pc # "unborn" <=> sender'[a].pc # "unborn", SenderInPhase(a)'
    PROVE  Base'
<1>1. TypeOK'
    BY DEF Base, TypeOK
<1>2. SendersInPhase'
    BY DEF Base, SendersInPhase, SenderInPhase
<1>3. TeardownsInPhase'
    BY DEF Base, TeardownsInPhase, NotTearing
<1>4. SpawnedInTurn'
    <2>1. \A i \in DOMAIN case.senders : case.senders[i] \in Many
        BY Types
    <2>2. Started' = Started
        BY <2>1 DEF Started
    <2> QED BY <2>2 DEF Base, SpawnedInTurn
<1> QED BY <1>1, <1>2, <1>3, <1>4 DEF Base

LEMMA SenderBase ==
    ASSUME Base, NEW a \in Many, SenderStep(a)
    PROVE  /\ Base' /\ UNCHANGED <<settingsVars, accountVars, iteration, case, unpaid, transit>>
           /\ case.pc \in Sending
           /\ \A b \in Many \ {a} : sender'[b] = sender[b]
           /\ sender[a].pc \notin {"unborn", "done"} /\ sender'[a].pc # "unborn"
           /\ sender'[a].pc \in {"balance", "send", "await"} =>
                 sender[a].pc \in {"balance", "send", "await"}
           /\ sender[a].tx = "mined" => sender'[a].tx = "mined"
           /\ sender'[a].tx = "mined" => sender[a].tx = "mined"
           /\ \/ sender'[a].pc # "done" /\ txs' = txs
              \/ /\ sender'[a].pc = "done" /\ sender'[a].success = sender[a].success
                 /\ txs' = Append(txs, sender[a].success)
<1>1. /\ UNCHANGED <<settingsVars, accountVars, iteration, case, unpaid, transit>>
      /\ UNCHANGED <<held, bal, tear>> /\ sender[a].pc \notin {"unborn", "done"}
    BY DEF SenderStep, SenderBalance, SenderSend, SenderAwait, SenderRespond, SenderUnchanged, accountVars
<1>2. SenderInPhase(a)
    BY DEF Base, SendersInPhase, SenderInPhase
<1>3. case.pc \in Sending /\ case.pc \notin Opening
    BY <1>1, <1>2 DEF SenderInPhase, Opening, Sending
<1>4. AccountsTypeOK'
    BY <1>1, Types DEF AccountsTypeOK
<1>5. txs \in Seq(BOOLEAN) /\ Len(txs) <= SenderCount /\ Len(txs) \in Nat /\ SenderCount \in Nat
    BY Types DEF Base, TypeOK
<1>6. sender \in [Many -> Sender] /\ unpaid \subseteq Many /\ transit \subseteq Many
    BY Types
<1>7. CASE SenderBalance(a) \/ SenderSend(a)
    <2>1. /\ txs' = txs
          /\ \/ \E pc \in {"send", "respond"} : sender' = [sender EXCEPT ![a].pc = pc]
             \/ \E pc \in {"await", "respond"} :
                    sender' = [sender EXCEPT ![a].pc = pc, ![a].tx = "pending"]
          /\ sender[a].pc \in {"balance", "send"}
        BY <1>6, <1>7 DEF SenderBalance, SenderSend, SenderGoto, Sender
    <2>2. sender' \in [Many -> Sender] /\ (\A b \in Many \ {a} : sender'[b] = sender[b])
          /\ sender'[a].pc \in {"send", "respond", "await"} /\ sender'[a].success = sender[a].success
          /\ sender'[a].tx \in {sender[a].tx, "pending"}
          /\ (sender'[a].pc = "send" => sender'[a].tx = sender[a].tx)
        BY <1>6, <2>1 DEF Sender, SenderPC
    <2>3. SenderInPhase(a)'
        BY <1>1, <1>2, <1>3, <2>1, <2>2 DEF SenderInPhase
    <2>4. Base'
        BY <1>1, <1>4, <1>5, <1>6, <2>1, <2>2, <2>3, OneSender DEF Sending
    <2> QED BY <1>1, <1>2, <1>3, <2>1, <2>2, <2>4 DEF SenderInPhase
<1>8. CASE SenderAwait(a)
    <2> DEFINE done == sender[a].tx = "mined"
    <2>1. done \in BOOLEAN /\ (done => sender[a].tx = "mined")
        OBVIOUS
    <2>2. /\ txs' = txs /\ sender[a].pc = "await"
          /\ \E success \in {FALSE, done} :
                sender' = [sender EXCEPT ![a].pc = "respond", ![a].success = success]
        BY <1>8 DEF SenderAwait
    <2> HIDE DEF done
    <2>3. PICK success \in {FALSE, done} :
             sender' = [sender EXCEPT ![a].pc = "respond", ![a].success = success]
        BY <2>2
    <2>4. sender' \in [Many -> Sender] /\ (\A b \in Many \ {a} : sender'[b] = sender[b])
          /\ sender'[a].pc = "respond" /\ sender'[a].tx = sender[a].tx
          /\ (sender'[a].success => sender[a].tx = "mined")
        <3>1. CASE success = FALSE
            BY <1>6, <2>3, <3>1 DEF Sender, SenderPC
        <3>2. CASE success = done
            BY <1>6, <2>1, <2>3, <3>2 DEF Sender, SenderPC
        <3> QED BY <3>1, <3>2
    <2>5. SenderInPhase(a)'
        BY <1>1, <1>2, <1>3, <2>4 DEF SenderInPhase
    <2>6. Base'
        BY <1>1, <1>4, <1>5, <1>6, <2>2, <2>4, <2>5, OneSender
    <2> QED BY <1>1, <1>3, <2>2, <2>4, <2>6
<1>9. CASE SenderRespond(a)
    <2>1. /\ Len(txs) < SenderCount /\ txs' = Append(txs, sender[a].success)
          /\ sender' = [sender EXCEPT ![a].pc = "done"] /\ sender[a].pc = "respond"
        BY <1>9 DEF SenderRespond, SenderGoto
    <2>2. sender' \in [Many -> Sender] /\ (\A b \in Many \ {a} : sender'[b] = sender[b])
          /\ sender'[a].pc = "done" /\ sender'[a].tx = sender[a].tx
          /\ sender'[a].success = sender[a].success /\ sender[a].success \in BOOLEAN
        BY <1>6, <2>1 DEF Sender, SenderPC
    <2>3. txs' \in Seq(BOOLEAN) /\ Len(txs') <= SenderCount
        BY <1>5, <2>1, <2>2
    <2>4. SenderInPhase(a)'
        BY <1>1, <1>2, <1>3, <2>2 DEF SenderInPhase
    <2>5. Base'
        BY <1>1, <1>4, <1>6, <2>2, <2>3, <2>4, OneSender
    <2> QED BY <1>1, <1>3, <2>1, <2>2, <2>5
<1> QED BY <1>7, <1>8, <1>9 DEF SenderStep

\* A goroutine of the teardown only moves itself on, and removes a key when it is over.
LEMMA TearBase ==
    ASSUME Base, NEW g \in Tearing, TearStep(g)
    PROVE  /\ Base' /\ UNCHANGED <<settingsVars, scenarioVars, iteration>>
           /\ case.pc = "teardown" /\ held' \subseteq held
           /\ tear[g].pc # "off" /\ \A h \in Tearing \ {g} : tear'[h] = tear[h]
           /\ tear'[g].pc = "over" =>
                 Behind(g, case.senders) \notin held' \/ (g > 0 /\ iteration < Len(case.senders))
<1>1. /\ case.pc = "teardown" /\ UNCHANGED <<settingsVars, scenarioVars, iteration>>
      /\ UNCHANGED <<case, sender, txs, unpaid, transit>> /\ tear[g].pc # "off"
    BY DEF TearStep, At, AsyncTeardown, scenarioVars
<1>2. /\ iteration \in Nat /\ Len(case.senders) \in Nat /\ SenderCount \in Nat
      /\ iteration <= Len(case.senders) /\ g \in 0 .. SenderCount /\ AccountsTypeOK
      /\ Tearing = 0 .. SenderCount /\ tear \in [Tearing -> [pc : TearPC, amount : Nat]]
      /\ \A h \in Tearing : h > iteration => tear[h].pc = "off"
    BY Types DEF Base, TeardownsInPhase
<1>3. g <= iteration
    BY <1>1, <1>2
<1> DEFINE b == Behind(g, case.senders)
           s == IF g = 0 THEN case.to ELSE FromShard
<1>4. b \in TestAccountIds
    <2>1. CASE g = 0
        BY <2>1, Types DEF Behind
    <2>2. CASE g # 0
        <3>1. iteration \in 1 .. Len(case.senders) /\ case.senders \in Seq(Many)
            BY <1>2, <1>3, <2>2, Types
        <3> QED BY <2>2, <3>1, Types DEF Behind
    <2> QED BY <2>1, <2>2
<1>5. s \in Shards
    BY Types
<1>6. Teardown(g, b, s) \/ TornRemove(g, case.senders)
    BY DEF TearStep, AsyncTeardown
<1> HIDE DEF b, s
<1>7. /\ AccountsTypeOK' /\ held' \subseteq held
      /\ \A h \in Tearing \ {g} : tear'[h] = tear[h]
      /\ tear'[g].pc = "over" => b \notin held' \/ (g > 0 /\ iteration < Len(case.senders))
    <2>1. CASE Teardown(g, b, s)
        BY <1>2, <1>4, <1>5, <2>1, TeardownTyped
    <2>2. CASE TornRemove(g, case.senders)
        BY <1>2, <2>2 DEF TornRemove, AccountsTypeOK, TearPC
    <2> QED BY <1>6, <2>1, <2>2
<1>8. TypeOK'
    BY <1>1, <1>7 DEF Base, TypeOK
<1>9. TeardownsInPhase'
    <2>1. \A h \in Tearing : h > iteration => h # g
        BY <1>2, <1>3
    <2> QED BY <1>1, <1>2, <1>7, <2>1 DEF Base, TeardownsInPhase, Closing
<1>10. SendersInPhase' /\ SpawnedInTurn'
    BY <1>1 DEF Base, SendersInPhase, SpawnedInTurn, Started
<1> QED BY <1>1, <1>7, <1>8, <1>9, <1>10 DEF Base, b

\* The receiver is credited with a transfer, in the shard it was sent to.
Credited ==
    bal'[Alone][case.to] = bal[Alone][case.to] + (IF Destination = case.to THEN Amount ELSE 0)

\* What the chain does to the sender whose transaction it mines.
LEMMA ChainBase ==
    ASSUME Base, NEW a \in Many, ChainStep(a)
    PROVE  /\ Base' /\ UNCHANGED <<settingsVars, held, tear, iteration, case, txs>>
           /\ \A b \in Many \ {a} : sender'[b] = sender[b]
           /\ sender'[a].pc = sender[a].pc /\ sender'[a].success = sender[a].success
           /\ sender[a].tx = "mined" => sender'[a].tx = "mined"
           /\ \/ UNCHANGED <<sender, transit>> /\ \A b \in TestAccountIds \ {a} : bal'[b] = bal[b]
              \/ /\ sender[a].tx = "pending" /\ a \notin transit
                 /\ sender'[a].tx = "failed" /\ UNCHANGED <<bal, transit>>
              \/ /\ sender[a].tx = "pending" /\ a \notin transit
                 /\ sender'[a].tx = "mined" /\ UNCHANGED transit /\ Credited
              \/ /\ sender[a].tx = "pending" /\ a \notin transit
                 /\ sender'[a].tx = "mined" /\ transit' = transit \cup {a}
                 /\ \A b \in TestAccountIds \ {a} : bal'[b] = bal[b]
              \/ /\ sender[a].tx = "mined" /\ UNCHANGED sender
                 /\ a \in transit /\ transit' = transit \ {a} /\ Credited
<1>1. /\ UNCHANGED <<settingsVars, held, tear, iteration, case, txs>>
    BY DEF ChainStep, MineFunding, MineTransfer, Arrive
<1>2. /\ a \in TestAccountIds /\ Alone \in TestAccountIds /\ a # Alone /\ FromShard \in Shards
      /\ case.to \in Shards /\ Destination \in Shards /\ Amount \in Nat /\ GasCost \in Nat
      /\ Amount + GasCost \in Nat /\ sender \in [Many -> Sender]
      /\ unpaid \subseteq Many /\ transit \subseteq Many /\ bal \in [TestAccountIds -> [Shards -> Nat]]
    BY Types DEF Destination, TargetShard
<1>3. txs \in Seq(BOOLEAN) /\ Len(txs) <= SenderCount
    BY DEF Base, TypeOK
<1>4. SenderInPhase(a)
    BY DEF Base, SendersInPhase, SenderInPhase
<1>5. CASE MineFunding(a)
    <2>1. unpaid' = unpaid \ {a} /\ UNCHANGED <<sender, transit>> /\ Credit(a, FromShard, Amount + GasCost)
        BY <1>5 DEF MineFunding
    <2>2. bal' \in [TestAccountIds -> [Shards -> Nat]] /\ \A b \in TestAccountIds \ {a} : bal'[b] = bal[b]
        BY <1>2, <2>1, BalancesTyped
    <2>3. AccountsTypeOK'
        BY <1>1, <2>2, Types DEF AccountsTypeOK
    <2>4. SenderInPhase(a)'
        BY <1>1, <1>4, <2>1 DEF SenderInPhase
    <2>5. Base'
        BY <1>1, <1>2, <1>3, <2>1, <2>3, <2>4, OneSender
    <2> QED BY <1>1, <2>1, <2>2, <2>5
<1>6. CASE MineTransfer(a)
    <2>0. sender[a].tx = "pending" /\ a \notin transit /\ unpaid' = unpaid
        BY <1>4, <1>6 DEF MineTransfer, SenderInPhase
    <2>1. CASE sender' = [sender EXCEPT ![a].tx = "failed"] /\ UNCHANGED <<bal, transit>>
        <3>1. /\ sender' \in [Many -> Sender] /\ \A b \in Many \ {a} : sender'[b] = sender[b]
              /\ sender'[a].pc = sender[a].pc /\ sender'[a].success = sender[a].success
              /\ sender'[a].tx = "failed"
            BY <1>2, <2>1 DEF Sender
        <3>2. SenderInPhase(a)'
            BY <1>1, <1>4, <2>0, <2>1, <3>1 DEF SenderInPhase
        <3>3. AccountsTypeOK'
            BY <1>1, <2>1, Types DEF AccountsTypeOK
        <3>4. Base'
            BY <1>1, <1>2, <1>3, <2>0, <2>1, <3>1, <3>2, <3>3, OneSender
        <3> QED BY <1>1, <2>0, <2>1, <3>1, <3>4
    <2>2. CASE /\ bal[a][FromShard] > Amount
               /\ sender' = [sender EXCEPT ![a].tx = "mined"]
               /\ IF Destination = FromShard
                  THEN Transfer(a, Alone, FromShard, Amount) /\ UNCHANGED transit
                  ELSE Debit(a, FromShard, Amount) /\ transit' = transit \cup {a}
        <3>1. /\ sender' \in [Many -> Sender] /\ \A b \in Many \ {a} : sender'[b] = sender[b]
              /\ sender'[a].pc = sender[a].pc /\ sender'[a].success = sender[a].success
              /\ sender'[a].tx = "mined"
            BY <1>2, <2>2 DEF Sender
        <3>2. bal[a][FromShard] >= Amount
            BY <1>2, <2>2
        <3>3. /\ bal' \in [TestAccountIds -> [Shards -> Nat]]
              /\ \/ UNCHANGED transit /\ Credited
                 \/ transit' = transit \cup {a} /\ \A b \in TestAccountIds \ {a} : bal'[b] = bal[b]
            <4>1. CASE Destination = FromShard /\ Transfer(a, Alone, FromShard, Amount) /\ UNCHANGED transit
                <5>1. bal' \in [TestAccountIds -> [Shards -> Nat]]
                    BY <1>2, <3>2, <4>1, BalancesTyped
                <5>2. Credited
                    BY <1>2, <4>1 DEF Transfer, Credited
                <5> QED BY <4>1, <5>1, <5>2
            <4>2. CASE Debit(a, FromShard, Amount) /\ transit' = transit \cup {a}
                BY <1>2, <3>2, <4>2, BalancesTyped
            <4> QED BY <2>2, <4>1, <4>2
        <3>4. SenderInPhase(a)'
            BY <1>1, <1>4, <2>0, <3>1 DEF SenderInPhase
        <3>5. AccountsTypeOK'
            BY <1>1, <3>3, Types DEF AccountsTypeOK
        <3>6. Base'
            BY <1>1, <1>2, <1>3, <2>0, <3>1, <3>3, <3>4, <3>5, OneSender
        <3> QED BY <1>1, <2>0, <3>1, <3>3, <3>6
    <2> QED BY <1>6, <2>1, <2>2 DEF MineTransfer
<1>7. CASE Arrive(a)
    <2>1. /\ a \in transit /\ transit' = transit \ {a} /\ UNCHANGED <<sender, unpaid>>
          /\ Credit(Alone, Destination, Amount)
        BY <1>7 DEF Arrive
    <2>2. bal' \in [TestAccountIds -> [Shards -> Nat]]
        BY <1>2, <2>1, BalancesTyped
    <2>3. Credited
        BY <1>2, <2>1 DEF Credit, Credited
    <2>4. SenderInPhase(a)' /\ sender[a].tx = "mined"
        BY <1>1, <1>4, <2>1 DEF SenderInPhase
    <2>5. AccountsTypeOK'
        BY <1>1, <2>2, Types DEF AccountsTypeOK
    <2>6. Base'
        BY <1>1, <1>2, <1>3, <2>1, <2>4, <2>5, OneSender
    <2> QED BY <1>1, <2>1, <2>3, <2>4, <2>6
<1> QED BY <1>5, <1>6, <1>7 DEF ChainStep

LEMMA StoppedBase == ASSUME Base, UNCHANGED vars PROVE Base'
<1>1. UNCHANGED <<held, bal, tear, iteration, case, sender, txs, unpaid, transit>>
    BY DEF vars, accountVars, scenarioVars
<1> QED BY <1>1 DEF Base, TypeOK, AccountsTypeOK, SendersInPhase, TeardownsInPhase, SpawnedInTurn,
       Started, NotTearing

LEMMA BaseStep == ASSUME Base, [Next]_vars PROVE Base'
BY MainBase, SenderBase, TearBase, ChainBase, StoppedBase DEF Next, Stopped

LEMMA BaseInit == ASSUME Init PROVE Base
<1>1. Len(<<>>) = 0 /\ DOMAIN <<>> = {} /\ ToSet(<<>>) = {} /\ <<>> \in Seq(Many) /\ <<>> \in Seq(BOOLEAN)
    BY DEF ToSet
<1>2. /\ case.pc = "new" /\ case.senders = <<>> /\ case \in Case
    <2>1. case \in [pc : {"new"}, prefix : {"hmy", "eth"}, to : Shards, expected : BOOLEAN,
                    senders : {<<>>}, successful : {0}, error : {FALSE}, result : {FALSE}]
        BY DEF Init
    <2>2. /\ "new" \in CasePC /\ <<>> \in Seq(Many) /\ 0 \in Nat
        BY <1>1 DEF CasePC
    <2> QED BY <2>1, <2>2 DEF Case
<1>3. SenderCount \in Nat
    BY AsyncTeardownsAssumption, FS_CardinalityType DEF SenderCount
<1>4. AccountsTypeOK
    BY DEF Init, AccountsInit, AccountsTypeOK, NotTearing, TearPC
<1>5. sender \in [Many -> Sender] /\ \A a \in Many : sender[a] = [pc |-> "unborn", tx |-> "none", success |-> FALSE]
    BY DEF Init, Sender, SenderPC
<1>6. TypeOK
    BY <1>1, <1>2, <1>3, <1>4, <1>5 DEF Init, TypeOK
<1>7. SendersInPhase
    BY <1>2, <1>5 DEF Init, SendersInPhase
<1>8. SpawnedInTurn
    <2>1. Started = {} /\ IsInjective(case.senders)
        BY <1>1, <1>2 DEF Started, IsInjective
    <2>2. 0 \in 0 .. Len(case.senders) /\ 1 .. 0 = {}
        BY <1>1, <1>2
    <2> QED BY <2>1, <2>2 DEF SpawnedInTurn
<1>9. TeardownsInPhase
    BY <1>1, <1>2, <1>3 DEF Init, AccountsInit, TeardownsInPhase, NotTearing
<1> QED BY <1>6, <1>7, <1>8, <1>9 DEF Base

\* The base of all the invariants, and with it the type of every variable.
THEOREM TypeCorrect == Spec => []TypeOK
<1>1. Init => Base
    BY BaseInit
<1>2. Base /\ [Next]_vars => Base'
    BY BaseStep
<1>3. Base => TypeOK
    BY DEF Base
<1> QED BY <1>1, <1>2, <1>3, PTL DEF Spec
----
\* Under the prefix the go-sdk starts with, going back to the history is going
\* back to the settings of the process.
NativeSettings == ConfiguredPrefix = "hmy" /\ NativeChain # "nil"

LEMMA SettingsInvInit == ASSUME Init PROVE SettingsInv
BY DEF Init, SettingsInit, SettingsInv, Sending

LEMMA SettingsStep ==
    ASSUME NativeSettings, Base, SettingsInv, [Next]_vars
    PROVE  SettingsInv'
<1>0. /\ \A pc \in Opening \cup {"over", "ending", "teardown"} : pc \notin Sending \cup {"revert"}
      /\ settingsVars' = settingsVars => UNCHANGED <<settings, history>>
    BY DEF Opening, Sending, settingsVars
<1>1. CASE Begin \/ CheckFunding \/ GenerateReceiver \/ StartingBalance
    BY <1>0, <1>1, OpeningBase DEF SettingsInv, Swapped
<1>2. CASE GenerateAndFundSenders
    BY <1>0, <1>2, FundingBase DEF SettingsInv, Swapped, Opening
<1>3. CASE EnterSettings \/ LeaveSettings
    <2>1. CASE case.pc = "enter" /\ case'.pc = "spawn" /\ EnterSend(case.prefix)
        <3>1. settings = InitialSettings /\ history = NoHistory
            BY <1>0, <2>1 DEF SettingsInv, Opening
        <3>2. InitialSettings.prefix = ConfiguredPrefix /\ InitialSettings.chain = NativeChain
            BY DEF InitialSettings
        <3>3. case'.prefix = case.prefix /\ case'.pc \in Sending
            BY <1>3, <2>1, SettingsBase DEF Sending
        <3>4. CASE case.prefix = "eth"
            BY <2>1, <3>1, <3>2, <3>3, <3>4 DEF EnterSend, ChangeRPCSettings, SettingsInv, Swapped
        <3>5. CASE case.prefix # "eth"
            BY <2>1, <3>1, <3>3, <3>5 DEF EnterSend, settingsVars, SettingsInv
        <3> QED BY <3>4, <3>5
    <2>2. CASE case.pc = "revert" /\ case'.pc = "ending" /\ RevertRPCSettings
        <3>1. case'.pc \notin Sending \cup {"revert"}
            BY <2>2 DEF Sending
        <3>2. CASE history = NoHistory /\ settings = InitialSettings
            BY <2>2, <3>1, <3>2 DEF RevertRPCSettings, NoHistory, SettingsInv, settingsVars
        <3>3. CASE Swapped
            <4>1. history.prefix = "hmy" /\ history.chain = NativeChain
                BY <3>3 DEF Swapped, NativeSettings
            <4>2. settings' = SettingsFor("hmy", NativeChain) /\ history' = NoHistory
                BY <2>2, <4>1 DEF RevertRPCSettings, NativeSettings
            <4>3. SettingsFor("hmy", NativeChain) = InitialSettings
                BY DEF SettingsFor, MethodFor, InitialSettings, NativeSettings
            <4> QED BY <3>1, <4>2, <4>3 DEF SettingsInv
        <3> QED BY <3>2, <3>3 DEF SettingsInv
    <2> QED BY <1>3, <2>1, <2>2, SettingsBase
<1>4. CASE Spawn
    <2>1. case'["prefix"] = case["prefix"]
        BY <1>4, SpawnBase
    <2> QED BY <1>0, <1>4, <2>1, SpawnBase DEF SettingsInv, Swapped, Sending
<1>5. CASE CountResponses
    <2>1. case'["prefix"] = case["prefix"]
        BY <1>5, CountingBase
    <2> QED BY <1>0, <1>5, <2>1, CountingBase DEF SettingsInv, Swapped, Sending
<1>6. CASE EndingBalance \/ Finish
    BY <1>0, <1>6, EndingBase, FinishBase DEF SettingsInv, Swapped
<1>7. CASE SpawnTeardowns \/ \E g \in Tearing : TearStep(g)
    BY <1>0, <1>7, SpawningBase, TearBase DEF SettingsInv, Swapped, scenarioVars
<1>8. CASE \E a \in Many : SenderStep(a) \/ ChainStep(a)
    BY <1>0, <1>8, SenderBase, ChainBase DEF SettingsInv, Swapped
<1>9. CASE UNCHANGED vars
    BY <1>0, <1>9 DEF vars, scenarioVars, SettingsInv, Swapped
<1> QED BY <1>1, <1>2, <1>3, <1>4, <1>5, <1>6, <1>7, <1>8, <1>9 DEF Next, MainStep, Stopped

\* Whenever the process has a prefix to go back to, every send and every wait
\* for a receipt runs under the settings of the test case, and everything after
\* the sends under the configured ones.
THEOREM SettingsAreTheirs == NativeSettings => (Spec => []SendsUseTheirSettings)
<1> SUFFICES ASSUME NativeSettings PROVE Spec => []SendsUseTheirSettings
    OBVIOUS
<1>1. Init => Base /\ SettingsInv
    BY BaseInit, SettingsInvInit
<1>2. Base /\ SettingsInv /\ [Next]_vars => (Base /\ SettingsInv)'
    BY BaseStep, SettingsStep
<1>3. Base /\ SettingsInv => SendsUseTheirSettings
    <2> SUFFICES ASSUME Base, SettingsInv PROVE SendsUseTheirSettings
        OBVIOUS
    <2>1. ASSUME NEW a \in Many, sender[a].pc \in {"balance", "send", "await"} PROVE case.pc \in Sending
        BY <2>1 DEF Base, SendersInPhase
    <2>2. case.pc \in {"ending", "teardown", "over"} => settings = InitialSettings /\ history = NoHistory
        BY DEF SettingsInv, Sending
    <2>3. case.pc \in Sending => settings = IF case.prefix = "eth" THEN SettingsFor("eth", EthChain)
                                                                   ELSE InitialSettings
        BY DEF SettingsInv
    <2> QED BY <2>1, <2>2, <2>3 DEF SendsUseTheirSettings
<1> QED BY <1>1, <1>2, <1>3, PTL DEF Spec
----
LEMMA KeysInvInit == ASSUME Init, Base PROVE KeysInv
<1>1. case.pc = "new" /\ iteration = 0 /\ tear = NotTearing
    BY DEF Init, AccountsInit
<1>2. 0 \in Tearing
    BY Types
<1> QED BY <1>1, <1>2 DEF KeysInv, LastKeysRemoved, At, NotTearing

LEMMA KeysInvNext ==
    ASSUME Base, KeysInv, [Next]_vars
    PROVE  KeysInv'
<1>0. /\ 0 \in Tearing /\ iteration \in Nat /\ Len(case.senders) \in Nat
      /\ Len(case.senders) \in Tearing /\ iteration <= Len(case.senders)
      /\ \A g \in Tearing : g \in Nat /\ (g > iteration => tear[g].pc = "off")
      /\ case.pc \notin Closing => iteration = 0 /\ \A g \in Tearing : tear[g].pc = "off"
    BY Types DEF Base, TeardownsInPhase, NotTearing
\* Before the teardown no goroutine of it is over, whatever the keystore holds.
<1>1. ASSUME case.pc \notin Closing, UNCHANGED <<tear, iteration>> PROVE KeysInv'
    BY <1>0, <1>1 DEF KeysInv, LastKeysRemoved, NoLoop
<1>2. ASSUME UNCHANGED <<held, tear, iteration>>, case'.senders = case.senders,
             case'.pc = "over" => case.pc = "over"
      PROVE  KeysInv'
    BY <1>2 DEF KeysInv, LastKeysRemoved, NoLoop, LastOne, At
<1>3. CASE Begin \/ CheckFunding \/ GenerateReceiver \/ StartingBalance \/ GenerateAndFundSenders
    <2>1. case.pc \notin Closing /\ UNCHANGED <<tear, iteration>>
        BY <1>3, OpeningBase, FundingBase DEF Opening, Closing
    <2> QED BY <1>1, <2>1
<1>4. CASE EnterSettings \/ LeaveSettings
    <2>1. case.pc \notin Closing /\ UNCHANGED <<tear, iteration>>
        BY <1>4, SettingsBase DEF Closing
    <2> QED BY <1>1, <2>1
<1>5. CASE Spawn \/ CountResponses \/ EndingBalance
    <2>1. case.pc \notin Closing /\ UNCHANGED <<tear, iteration>>
        BY <1>5, SpawnBase, CountingBase, EndingBase DEF Closing, accountVars
    <2> QED BY <1>1, <2>1
<1>6. CASE SpawnTeardowns
    <2>1. /\ UNCHANGED <<case, held>> /\ case.pc = "teardown" /\ iteration' \in {iteration, iteration + 1}
          /\ tear'[0].pc = "over" => tear[0].pc = "over"
          /\ iteration' = iteration => (tear'[LastOne].pc = "over" => tear[LastOne].pc = "over")
          /\ iteration' = iteration + 1 => tear'[LastOne].pc # "over"
        <3>1. /\ UNCHANGED <<case, held>> /\ case.pc = "teardown"
              /\ \/ /\ iteration < Len(case.senders) /\ iteration' = iteration + 1
                    /\ iteration' \in Tearing
                    /\ tear' = [tear EXCEPT ![iteration + 1] = [pc |-> "read", amount |-> 0]]
                 \/ /\ iteration = Len(case.senders) /\ iteration' = iteration
                    /\ tear' = [tear EXCEPT ![0] = [pc |-> "read", amount |-> 0]]
            BY <1>6, SpawningBase DEF scenarioVars
        <3>2. tear \in [Tearing -> [pc : TearPC, amount : Nat]]
            BY Types
        <3>3. iteration < Len(case.senders) => tear[LastOne].pc = "off"
            BY <1>0 DEF LastOne
        <3>4. CASE /\ iteration < Len(case.senders) /\ iteration' = iteration + 1
                   /\ iteration' \in Tearing
                   /\ tear' = [tear EXCEPT ![iteration + 1] = [pc |-> "read", amount |-> 0]]
            <4>1. tear'[0] = tear[0]
                BY <1>0, <3>2, <3>4
            <4>2. tear'[LastOne].pc \in {"read", "off"}
                BY <1>0, <3>2, <3>3, <3>4 DEF LastOne
            <4>3. iteration' # iteration
                BY <1>0, <3>4
            <4> QED BY <3>1, <3>4, <4>1, <4>2, <4>3
        <3>5. CASE /\ iteration = Len(case.senders) /\ iteration' = iteration
                   /\ tear' = [tear EXCEPT ![0] = [pc |-> "read", amount |-> 0]]
            <4>1. tear'[0].pc = "read"
                BY <1>0, <3>2, <3>5
            <4>2. tear'[LastOne].pc = "over" => tear[LastOne].pc = "over"
                BY <1>0, <3>2, <3>5 DEF LastOne
            <4>3. iteration' # iteration + 1
                BY <1>0, <3>5
            <4> QED BY <3>1, <3>5, <4>1, <4>2, <4>3
        <3> QED BY <3>1, <3>4, <3>5
    <2> QED BY <1>0, <2>1 DEF KeysInv, LastKeysRemoved, LastOne, At
<1>7. ASSUME NEW g \in Tearing, TearStep(g) PROVE KeysInv'
    <2>1. /\ UNCHANGED <<case, iteration>> /\ case.pc = "teardown" /\ held' \subseteq held
          /\ tear[g].pc # "off" /\ \A h \in Tearing \ {g} : tear'[h] = tear[h]
          /\ tear'[g].pc = "over" =>
                Behind(g, case.senders) \notin held' \/ (g > 0 /\ iteration < Len(case.senders))
        BY <1>7, TearBase DEF scenarioVars
    <2>2. g <= iteration
        BY <1>0, <2>1
    <2>3. tear'[0].pc = "over" => Alone \notin held'
        BY <1>0, <2>1 DEF KeysInv, Behind
    <2>4. iteration > 0 /\ tear'[LastOne].pc = "over" => case.senders[LastOne] \notin held'
        BY <1>0, <2>1, <2>2 DEF KeysInv, Behind, LastOne
    <2> QED BY <2>1, <2>3, <2>4 DEF KeysInv, LastKeysRemoved, LastOne, At
<1>8. CASE Finish
    <2>1. case'.senders = case.senders
        <3>1. case'["senders"] = case["senders"]
            BY <1>8, FinishBase
        <3> QED BY <3>1
    <2>2. UNCHANGED <<held, tear, iteration>>
        BY <1>8, FinishBase DEF accountVars
    <2>3. tear[0].pc = "over" /\ tear[Len(case.senders)].pc = "over"
        BY <1>0, <1>8 DEF Finish, TeardownsAwaited
    <2> QED BY <1>0, <2>1, <2>2, <2>3 DEF KeysInv, LastKeysRemoved, LastOne, At, NoLoop
<1>9. CASE \E a \in Many : SenderStep(a) \/ ChainStep(a)
    <2>1. UNCHANGED <<held, tear, iteration, case>>
        BY <1>9, SenderBase, ChainBase DEF accountVars
    <2> QED BY <1>2, <2>1
<1>10. CASE UNCHANGED vars
    BY <1>2, <1>10 DEF vars, accountVars, scenarioVars
<1> QED BY <1>3, <1>4, <1>5, <1>6, <1>7, <1>8, <1>9, <1>10 DEF Next, MainStep, Stopped

\* Whatever keys the loop leaves behind, a scenario that is over has removed the
\* receiver's and that of the last sender of its list.
THEOREM LastKeysAreRemoved == Spec => []LastKeysRemoved
<1>1. Init => Base /\ KeysInv
    BY BaseInit, KeysInvInit
<1>2. Base /\ KeysInv /\ [Next]_vars => (Base /\ KeysInv)'
    BY BaseStep, KeysInvNext
<1>3. KeysInv => LastKeysRemoved
    BY DEF KeysInv
<1> QED BY <1>1, <1>2, <1>3, PTL DEF Spec
----
\* The sets that are counted are finite, and what a step adds to one is counted once.
LEMMA Finite ==
    ASSUME Base
    PROVE  /\ IsFiniteSet(Many) /\ IsFiniteSet(Earned) /\ IsFiniteSet(Arrived) /\ IsFiniteSet(Successes)
           /\ Earned \subseteq Many /\ Arrived \subseteq Many
           /\ Cardinality(Earned) \in Nat /\ Cardinality(Arrived) \in Nat
           /\ Cardinality(Successes) \in Nat
<1>1. IsFiniteSet(Many) /\ Earned \in SUBSET Many /\ Arrived \in SUBSET Many
    BY Types DEF Earned, Arrived
<1>2. Len(txs) \in Nat /\ Successes \in SUBSET (1 .. Len(txs))
    BY Types DEF Successes
<1>3. IsFiniteSet(1 .. Len(txs))
    BY <1>2, FS_Interval
<1>4. IsFiniteSet(Earned) /\ IsFiniteSet(Arrived) /\ IsFiniteSet(Successes)
    BY <1>1, <1>2, <1>3, FS_Subset
<1> QED BY <1>1, <1>4, FS_CardinalityType

LEMMA CountInvInit == ASSUME Init, Base PROVE CountInv
<1>1. Earned = {} /\ Successes = {}
    BY DEF Init, Earned, Successes
<1>2. case.successful = 0 /\ Cardinality({}) = 0
    BY FS_EmptySet DEF Init
<1> QED BY <1>1, <1>2 DEF CountInv

LEMMA CountInvNext ==
    ASSUME Base, CountInv, [Next]_vars
    PROVE  CountInv'
<1>1. ASSUME Earned' = Earned, Successes' = Successes, case'.successful = case.successful,
             case'.pc \in Opening \cup Sending => case.pc \in Opening \cup Sending
      PROVE  CountInv'
    BY <1>1 DEF CountInv
<1>2. txs' = txs => Successes' = Successes
    BY DEF Successes
<1>3. sender' = sender => Earned' = Earned
    BY DEF Earned
<1>4. CASE Begin \/ CheckFunding \/ GenerateReceiver \/ StartingBalance \/ GenerateAndFundSenders
    <2>1. UNCHANGED <<sender, txs>> /\ case'.successful = case.successful /\ case.pc \in Opening
        BY <1>4, OpeningBase, FundingBase DEF Opening
    <2> QED BY <1>1, <1>2, <1>3, <2>1
<1>5. CASE EnterSettings \/ LeaveSettings
    <2>1. /\ UNCHANGED <<sender, txs>> /\ case'.successful = case.successful
          /\ case'.pc \in Opening \cup Sending => case.pc \in Opening \cup Sending
        BY <1>5, SettingsBase DEF Opening, Sending
    <2> QED BY <1>1, <1>2, <1>3, <2>1
<1>6. CASE Spawn
    <2>1. \A a \in Many : /\ sender'[a].success = sender[a].success
                          /\ sender[a].pc = "done" <=> sender'[a].pc = "done"
        BY <1>6, SpawnBase
    <2>2. Earned' = Earned
        BY <2>1 DEF Earned
    <2>3. case'["successful"] = case["successful"] /\ txs' = txs /\ case.pc \in Sending
        BY <1>6, SpawnBase DEF Sending
    <2> QED BY <1>1, <1>2, <2>2, <2>3
<1>7. CASE CountResponses
    <2>1. /\ case.pc \in Sending /\ case'.pc \notin Opening \cup Sending
          /\ UNCHANGED sender /\ case'.successful = Cardinality(Successes)
        BY <1>7, CountingBase DEF Opening, Sending
    <2>2. case'.successful = Cardinality(Earned')
        BY <1>3, <2>1 DEF CountInv
    <2>3. Cardinality(Earned) \in Nat
        BY Finite
    <2> QED BY <1>3, <2>1, <2>2, <2>3 DEF CountInv
<1>8. CASE EndingBalance \/ Finish
    <2>1. /\ UNCHANGED <<sender, txs>> /\ case'["successful"] = case["successful"]
          /\ case'.pc \notin Opening \cup Sending
        BY <1>8, EndingBase, FinishBase DEF Opening, Sending
    <2> QED BY <1>1, <1>2, <1>3, <2>1
<1>9. CASE SpawnTeardowns \/ \E g \in Tearing : TearStep(g)
    <2>1. UNCHANGED <<case, sender, txs>>
        BY <1>9, SpawningBase, TearBase DEF scenarioVars
    <2> QED BY <1>1, <1>2, <1>3, <2>1
<1>10. ASSUME NEW a \in Many, SenderStep(a) PROVE CountInv'
    <2>1. /\ UNCHANGED case /\ case.pc \in Sending /\ \A b \in Many \ {a} : sender'[b] = sender[b]
          /\ sender[a].pc # "done"
          /\ \/ sender'[a].pc # "done" /\ txs' = txs
             \/ /\ sender'[a].pc = "done" /\ sender'[a].success = sender[a].success
                /\ txs' = Append(txs, sender[a].success)
        BY <1>10, SenderBase
    <2>2. CASE sender'[a].pc # "done" /\ txs' = txs
        <3>1. Earned' = Earned
            BY <2>1, <2>2 DEF Earned
        <3> QED BY <1>1, <1>2, <2>1, <2>2, <3>1
    <2>3. CASE /\ sender'[a].pc = "done" /\ sender'[a].success = sender[a].success
               /\ txs' = Append(txs, sender[a].success)
        <3>1. txs \in Seq(BOOLEAN) /\ Len(txs) \in Nat /\ sender[a].success \in BOOLEAN
              /\ DOMAIN txs = 1 .. Len(txs)
            BY Types DEF Sender
        <3>2. /\ DOMAIN txs' = 1 .. Len(txs) + 1 /\ txs'[Len(txs) + 1] = sender[a].success
              /\ \A i \in 1 .. Len(txs) : txs'[i] = txs[i]
            BY <2>3, <3>1
        <3>3. a \notin Earned /\ Len(txs) + 1 \notin Successes
            BY <2>1, <3>1 DEF Earned, Successes
        <3>4. CASE sender[a].success
            <4>1. Earned' = Earned \cup {a}
                BY <2>1, <2>3, <3>4 DEF Earned
            <4>2. Successes' = Successes \cup {Len(txs) + 1}
                <5>1. Successes' = {i \in 1 .. Len(txs) + 1 : txs'[i]}
                    BY <3>2 DEF Successes
                <5>2. Successes = {i \in 1 .. Len(txs) : txs[i]}
                    BY <3>1 DEF Successes
                <5>3. \A i : i \in 1 .. Len(txs) + 1 <=> i \in 1 .. Len(txs) \/ i = Len(txs) + 1
                    BY <3>1
                <5> QED BY <3>2, <3>4, <5>1, <5>2, <5>3
            <4>3. Cardinality(Earned') = Cardinality(Earned) + 1
                BY <3>3, <4>1, Finite, FS_AddElement
            <4>4. Cardinality(Successes') = Cardinality(Successes) + 1
                BY <3>3, <4>2, Finite, FS_AddElement
            <4>5. Cardinality(Earned) \in Nat /\ case.successful \in Nat
                BY Finite, Types
            <4> QED BY <2>1, <4>3, <4>4, <4>5 DEF CountInv
        <3>5. CASE ~sender[a].success
            <4>1. Earned' = Earned
                BY <2>1, <2>3, <3>5 DEF Earned
            <4>2. Successes' = Successes
                <5>1. Successes' = {i \in 1 .. Len(txs) + 1 : txs'[i]}
                    BY <3>2 DEF Successes
                <5>2. Successes = {i \in 1 .. Len(txs) : txs[i]}
                    BY <3>1 DEF Successes
                <5>3. \A i : i \in 1 .. Len(txs) + 1 <=> i \in 1 .. Len(txs) \/ i = Len(txs) + 1
                    BY <3>1
                <5> QED BY <3>2, <3>5, <5>1, <5>2, <5>3
            <4> QED BY <1>1, <2>1, <4>1, <4>2
        <3> QED BY <3>1, <3>4, <3>5
    <2> QED BY <2>1, <2>2, <2>3
<1>11. ASSUME NEW a \in Many, ChainStep(a) PROVE CountInv'
    <2>1. /\ UNCHANGED <<case, txs>> /\ \A b \in Many \ {a} : sender'[b] = sender[b]
          /\ sender'[a].pc = sender[a].pc /\ sender'[a].success = sender[a].success
        BY <1>11, ChainBase
    <2>2. Earned' = Earned
        BY <2>1 DEF Earned
    <2> QED BY <1>1, <1>2, <2>1, <2>2
<1>12. CASE UNCHANGED vars
    BY <1>1, <1>2, <1>3, <1>12 DEF vars, scenarioVars
<1> QED BY <1>4, <1>5, <1>6, <1>7, <1>8, <1>9, <1>10, <1>11, <1>12 DEF Next, MainStep, Stopped

\* Every success that is counted is the mined transfer of one sender whose
\* goroutine is done, in whatever order the responses arrived.
THEOREM CountsAreEarned == Spec => []CountIsEarned
<1>1. Init => Base /\ CountInv
    BY BaseInit, CountInvInit
<1>2. Base /\ CountInv /\ [Next]_vars => (Base /\ CountInv)'
    BY BaseStep, CountInvNext
<1>3. Base /\ CountInv => CountIsEarned
    <2> SUFFICES ASSUME Base, CountInv PROVE CountIsEarned
        OBVIOUS
    <2> DEFINE paid == {a \in Many : sender[a].tx = "mined" /\ sender[a].pc = "done"}
    <2>1. Earned \in SUBSET paid
        BY DEF Base, SendersInPhase, Earned
    <2>2. IsFiniteSet(Many) /\ paid \in SUBSET Many
        BY Types
    <2>3. IsFiniteSet(paid)
        BY <2>2, FS_Subset
    <2>4. Cardinality(Earned) <= Cardinality(paid) /\ Cardinality(paid) \in Nat
        BY <2>1, <2>3, FS_Subset, FS_CardinalityType
    <2>5. case.successful <= Cardinality(Earned) /\ case.successful \in Nat /\ Cardinality(Earned) \in Nat
        BY Types, Finite DEF CountInv
    <2> QED BY <2>4, <2>5 DEF CountIsEarned
<1> QED BY <1>1, <1>2, <1>3, PTL DEF Spec
----
LEMMA Product ==
    ASSUME NEW m \in Nat \ {0}, NEW n \in Nat, NEW k \in Nat
    PROVE  m * 0 = 0 /\ m * (n + 1) = m * n + m /\ (m * n = m * k => n = k)
OBVIOUS

LEMMA ResultInvInit == ASSUME Init, Base PROVE ResultInv
<1>1. Arrived = {} /\ ~case.result
    BY DEF Init, Arrived
<1>2. bal[Alone][case.to] = 0
    BY Types DEF Init, AccountsInit
<1>3. Amount * Cardinality(Arrived) = 0
    BY <1>1, Types, FS_EmptySet, Product
<1> QED BY <1>1, <1>2, <1>3 DEF ResultInv

LEMMA ResultInvNext ==
    ASSUME Base, ResultInv, [Next]_vars
    PROVE  ResultInv'
<1>1. ASSUME Arrived' = Arrived, case.pc \notin Closing => bal'[Alone][case.to] = bal[Alone][case.to],
             case'.to = case.to, case'.prefix = case.prefix, case'.expected = case.expected, case'.result => case.result,
             case.pc \in Closing => case'.pc \in Closing
      PROVE  ResultInv'
    BY <1>1 DEF ResultInv
<1>2. UNCHANGED <<sender, transit>> /\ case'.to = case.to /\ case'.prefix = case.prefix => Arrived' = Arrived
    BY DEF Arrived, Destination, TargetShard
<1>3. CASE Begin \/ CheckFunding \/ GenerateReceiver \/ StartingBalance \/ GenerateAndFundSenders
    <2>1. /\ UNCHANGED <<sender, transit>> /\ case'.to = case.to /\ case'.expected = case.expected /\ case'.prefix = case.prefix
          /\ case'.result \in {FALSE, case.result} /\ case.pc \notin Closing
          /\ bal'[Alone] = bal[Alone]
        BY <1>3, OpeningBase, FundingBase, Types DEF Opening, Closing
    <2> QED BY <1>1, <1>2, <2>1
<1>4. CASE EnterSettings \/ LeaveSettings
    <2>1. /\ UNCHANGED <<sender, transit>> /\ case'.to = case.to /\ case'.expected = case.expected /\ case'.prefix = case.prefix
          /\ case'.result \in {FALSE, case.result} /\ case.pc \notin Closing
          /\ bal'[Alone] = bal[Alone]
        BY <1>4, SettingsBase DEF Closing
    <2> QED BY <1>1, <1>2, <2>1
<1>5. CASE Spawn
    <2>1. \A a \in Many : sender'[a].tx = sender[a].tx
        BY <1>5, SpawnBase
    <2>2. UNCHANGED <<bal, transit>> /\ case.pc \notin Closing
        BY <1>5, SpawnBase DEF Closing, accountVars
    <2>4. case'["to"] = case["to"] /\ case'["prefix"] = case["prefix"] /\ case'["expected"] = case["expected"] /\ case'["result"] = case["result"]
        BY <1>5, SpawnBase
    <2>3. Arrived' = Arrived
        BY <2>1, <2>2, <2>4 DEF Arrived, Destination, TargetShard
    <2> QED BY <1>1, <2>2, <2>3, <2>4
<1>6. CASE CountResponses
    <2>1. UNCHANGED <<bal, sender, transit>> /\ case.pc \notin Closing
        BY <1>6, CountingBase DEF Closing, accountVars
    <2>2. case'["to"] = case["to"] /\ case'["prefix"] = case["prefix"] /\ case'["expected"] = case["expected"] /\ case'["result"] = case["result"]
        BY <1>6, CountingBase
    <2> QED BY <1>1, <1>2, <2>1, <2>2
<1>7. CASE EndingBalance
    <2>1. /\ UNCHANGED <<sender, transit>> /\ case.pc \notin Closing /\ case'.pc \in Closing
          /\ case'.result /\ case.expected => bal[Alone][case.to] = Amount * SenderCount
        BY <1>7, EndingBase DEF Closing
    <2>2. case'["expected"] = case["expected"] /\ case'["to"] = case["to"] /\ case'["prefix"] = case["prefix"]
        BY <1>7, EndingBase
    <2>3. ASSUME case'.result, case'.expected PROVE Arrived' = Many
        <3>1. Amount * Cardinality(Arrived) = Amount * SenderCount
            BY <2>1, <2>2, <2>3 DEF ResultInv
        <3>2. Cardinality(Arrived) = Cardinality(Many)
            BY <3>1, Product, Finite, Types DEF SenderCount
        <3>3. Arrived = Many
            BY <3>2, Finite, FS_Subset
        <3> QED BY <1>2, <2>1, <2>2, <3>3
    <2> QED BY <2>1, <2>3 DEF ResultInv
<1>8. CASE Finish
    <2>1. UNCHANGED <<sender, transit>> /\ case.pc \in Closing /\ case'.pc \in Closing
        BY <1>8, FinishBase DEF Closing
    <2>2. case'["to"] = case["to"] /\ case'["prefix"] = case["prefix"] /\ case'["expected"] = case["expected"] /\ case'["result"] = case["result"]
        BY <1>8, FinishBase
    <2> QED BY <1>1, <1>2, <2>1, <2>2
<1>9. CASE SpawnTeardowns \/ \E g \in Tearing : TearStep(g)
    <2>1. UNCHANGED <<case, sender, transit>> /\ case.pc \in Closing
        BY <1>9, SpawningBase, TearBase DEF scenarioVars, Closing
    <2> QED BY <1>1, <1>2, <2>1
<1>10. ASSUME NEW a \in Many, SenderStep(a) PROVE ResultInv'
    <2>1. /\ UNCHANGED <<case, transit, bal>> /\ \A b \in Many \ {a} : sender'[b] = sender[b]
          /\ sender[a].tx = "mined" <=> sender'[a].tx = "mined"
        BY <1>10, SenderBase DEF accountVars
    <2>2. Arrived' = Arrived
        BY <2>1 DEF Arrived, Destination, TargetShard
    <2> QED BY <1>1, <2>1, <2>2
<1>11. ASSUME NEW a \in Many, ChainStep(a) PROVE ResultInv'
    <2>1. /\ UNCHANGED case /\ \A b \in Many \ {a} : sender'[b] = sender[b]
          /\ sender[a].tx = "mined" => sender'[a].tx = "mined"
          /\ \/ UNCHANGED <<sender, transit>> /\ \A b \in TestAccountIds \ {a} : bal'[b] = bal[b]
             \/ /\ sender[a].tx = "pending" /\ a \notin transit
                /\ sender'[a].tx = "failed" /\ UNCHANGED <<bal, transit>>
             \/ /\ sender[a].tx = "pending" /\ a \notin transit
                /\ sender'[a].tx = "mined" /\ UNCHANGED transit /\ Credited
             \/ /\ sender[a].tx = "pending" /\ a \notin transit
                /\ sender'[a].tx = "mined" /\ transit' = transit \cup {a}
                /\ \A b \in TestAccountIds \ {a} : bal'[b] = bal[b]
             \/ /\ sender[a].tx = "mined" /\ UNCHANGED sender
                /\ a \in transit /\ transit' = transit \ {a} /\ Credited
        BY <1>11, ChainBase
    <2>2. Alone \in TestAccountIds \ {a}
        BY Types
    <2>3. \/ Arrived' = Arrived /\ bal'[Alone][case.to] = bal[Alone][case.to]
          \/ /\ a \notin Arrived /\ Arrived' = Arrived \cup {a}
             /\ bal'[Alone][case.to] = bal[Alone][case.to] + Amount
        <3>1. CASE Destination = case.to
            BY <2>1, <2>2, <3>1 DEF Arrived, Destination, TargetShard, Credited
        <3>2. CASE Destination # case.to
            <4>1. bal[Alone][case.to] + 0 = bal[Alone][case.to]
                BY Types
            <4> QED BY <2>1, <2>2, <3>2, <4>1 DEF Arrived, Destination, TargetShard, Credited
        <3> QED BY <3>1, <3>2
    <2>4. CASE Arrived' = Arrived /\ bal'[Alone][case.to] = bal[Alone][case.to]
        BY <1>1, <2>1, <2>4
    <2>5. CASE /\ a \notin Arrived /\ Arrived' = Arrived \cup {a}
               /\ bal'[Alone][case.to] = bal[Alone][case.to] + Amount
        <3>1. Cardinality(Arrived') = Cardinality(Arrived) + 1
            BY <2>5, Finite, FS_AddElement
        <3>2. Amount * Cardinality(Arrived') = Amount * Cardinality(Arrived) + Amount
            BY <3>1, Finite, Product, Types
        <3>3. ~(case.result /\ case.expected)
            BY <2>5 DEF ResultInv
        <3> QED BY <2>1, <2>5, <3>2, <3>3 DEF ResultInv
    <2> QED BY <2>3, <2>4, <2>5
<1>12. CASE UNCHANGED vars
    BY <1>1, <1>2, <1>12 DEF vars, accountVars, scenarioVars
<1> QED BY <1>3, <1>4, <1>5, <1>6, <1>7, <1>8, <1>9, <1>10, <1>11, <1>12 DEF Next, MainStep, Stopped

\* A positive result where one is expected is the receiver's balance of all
\* transfers: every sender paid, and all of it has arrived in the shard that the
\* test case names.
THEOREM ResultsAreEarned == Spec => []ResultIsEarned
<1>1. Init => Base /\ ResultInv
    BY BaseInit, ResultInvInit
<1>2. Base /\ ResultInv /\ [Next]_vars => (Base /\ ResultInv)'
    BY BaseStep, ResultInvNext
<1>3. ResultInv => ResultIsEarned
    BY MultipleSenderAssumption DEF ResultInv, ResultIsEarned, Arrived
<1> QED BY <1>1, <1>2, <1>3, PTL DEF Spec
====
