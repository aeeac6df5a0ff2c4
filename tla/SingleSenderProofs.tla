---- MODULE SingleSenderProofs ----
(***************************************************************************)
(* SingleSender for any number of test cases, shards and amounts: the      *)
(* settings a send leaves behind, what a positive result rests on, and the *)
(* keys a test case leaves in the keystore.                                *)
(***************************************************************************)
EXTENDS SingleSender, TestAccountsProofs

\* The test cases run in turn: one that has not begun owns nothing, and nothing
\* of it is on its way; one that was left behind is over.
InTurn ==
    /\ \A t \in Cases :
          /\ t > current => case[t].pc = "new"
          /\ t < current => case[t].pc = "over"
    /\ current # 0 => case[current].pc # "new"

\* A test case whose transfer ends up where nothing else is credited to.
Exact(t) == case[t].scenario = "standard" \/ case[t].to # FromShard

Unbegun(t) == case[t].pc = "new"
Unsent == {"new", "funding", "generate", "fund", "receiver", "start", "enter", "send"}
Settled(t) == case[t].pc \in {"teardown", "over"}

\* Until its teardown, the payee of such a test case holds the transfer or
\* nothing in the shard named: what is pending, failed, in transit or was sent to
\* another shard has not been credited there.
Uncredited(t) == case[t].tx # "mined" \/ t \in transit \/ Destination(t) # case[t].to

TransferOf(t) ==
    /\ Unbegun(t) => /\ case[t].late = 0 /\ case[t].start = 0
                     /\ \A s \in Shards : bal[Sender(t)][s] = 0 /\ bal[Receiver(t)][s] = 0
    /\ case[t].pc \in Unsent => case[t].tx = "none"
    /\ t \in transit => case[t].tx = "mined" /\ Destination(t) # FromShard
    /\ Exact(t) /\ ~Settled(t) =>
          /\ case[t].start = 0
          /\ Uncredited(t) => bal[Payee(t)][case[t].to] = 0

\* success is a receipt, errors leave the scenario, and the result is computed last.
ResultOf(t) ==
    /\ case[t].success => case[t].tx = "mined"
    /\ case[t].error => case[t].pc \in {"revert", "over"}
    /\ case[t].result => /\ Settled(t) /\ case[t].tx = "mined" /\ t \notin transit /\ ~case[t].error
                         /\ Destination(t) = case[t].to

TransferInv == \A t \in Cases : TransferOf(t) /\ ResultOf(t)

\* The settings in force are those of the process, or a send has swapped them
\* and the history holds what they were.
Swapped == history = [prefix |-> ConfiguredPrefix, chain |-> NativeChain]

SettingsInv ==
    \/ settings = InitialSettings /\ history = NoHistory
    \/ current # 0 /\ Sending(current) /\ Swapped

\* The goroutines of a standard teardown start together, and one that is over
\* has removed its key.
KeysInv ==
    /\ current # 0 /\ ~Settled(current) => tear = NotTearing
    /\ current # 0 /\ case[current].pc = "teardown" /\ case[current].scenario = "standard" =>
          \/ tear = NotTearing
          \/ \A g \in Tearing :
                tear[g].pc # "off" /\ (tear[g].pc = "over" => <<current, g>> \notin held)
    /\ StandardLeavesNoKeys

\* The part of TypeOK that does not speak of the settings.
CasesTyped ==
    /\ AccountsTypeOK
    /\ current \in 0 .. Tests
    /\ case \in [Cases -> Case]
    /\ transit \subseteq Cases

CasesInv == CasesTyped /\ InTurn

\* A step of one test case leaves the others as they were.
OthersKept(t) ==
    \A u \in Cases \ {t} :
        /\ case'[u] = case[u] /\ (u \in transit' <=> u \in transit)
        /\ bal'[Sender(u)] = bal[Sender(u)] /\ bal'[Receiver(u)] = bal[Receiver(u)]

\* The accounts of two test cases are four, and a test case owns two.
LEMMA OwnAccounts ==
    ASSUME NEW t \in Cases
    PROVE  /\ Sender(t) \in TestAccountIds /\ Receiver(t) \in TestAccountIds
           /\ Payee(t) \in {Sender(t), Receiver(t)} /\ Sender(t) # Receiver(t)
           /\ \A u \in Cases \ {t} : \A a \in {Sender(t), Receiver(t)} :
                 a # Sender(u) /\ a # Receiver(u)
    BY SingleSenderAssumption DEF Sender, Receiver, Payee

\* What a test case does on its own: it runs, and touches nobody else's state.
LEMMA OwnStep ==
    ASSUME CasesInv, NEW t \in Cases, CaseStep(t)
    PROVE  /\ CasesTyped' /\ OthersKept(t)
           /\ current' = current /\ current = t /\ transit' = transit
           /\ case[t].pc \notin {"new", "over"} /\ case'[t].pc # "new"
           /\ case'[t].scenario = case[t].scenario /\ case'[t].to = case[t].to /\ case'[t].prefix = case[t].prefix
<1> USE DEF OthersKept
<1>0. /\ AccountsTypeOK /\ case \in [Cases -> Case] /\ case[t] \in Case /\ transit \subseteq Cases
      /\ bal \in [TestAccountIds -> [Shards -> Nat]] /\ current \in 0 .. Tests /\ FromShard \in Shards
      /\ case[t].to \in Shards /\ held \subseteq TestAccountIds /\ Amount \in Nat /\ GasCost \in Nat
    BY SingleSenderAssumption DEF CasesInv, CasesTyped, AccountsTypeOK, Case
<1>1. /\ Sender(t) \in TestAccountIds /\ Receiver(t) \in TestAccountIds
      /\ \A u \in Cases \ {t} : /\ Sender(u) \in TestAccountIds \ {Sender(t), Receiver(t)}
                               /\ Receiver(u) \in TestAccountIds \ {Sender(t), Receiver(t)}
    BY OwnAccounts
\* Its accounts are all that a step may change.
<1> DEFINE OwnBalances ==
        AccountsTypeOK' /\ \A a \in TestAccountIds \ {Sender(t), Receiver(t)} : bal'[a] = bal[a]
<1>2. UNCHANGED accountVars => OwnBalances
    BY <1>0 DEF AccountsTypeOK, accountVars
<1>3. ASSUME NEW a \in TestAccountIds, GenerateAccount(a) \/ UNCHANGED held, UNCHANGED <<bal, tear>>
      PROVE  OwnBalances
    BY <1>0, <1>3 DEF AccountsTypeOK, GenerateAccount
<1>4. ASSUME OwnBalances, UNCHANGED <<current, transit>>,
             NEW c \in Case, case' = [case EXCEPT ![t] = c]
      PROVE  CasesTyped' /\ OthersKept(t) /\ case'[t] = c
    BY <1>0, <1>1, <1>4 DEF CasesTyped
<1> HIDE DEF OwnBalances
<1>5. ASSUME OwnBalances, UNCHANGED <<current, transit>>, NEW pc \in CasePC,
             Goto(t, pc) \/ ErrorOccurred(t)
      PROVE  /\ CasesTyped' /\ OthersKept(t)
             /\ case'[t].pc \in {pc, "over"}
             /\ case'[t].scenario = case[t].scenario /\ case'[t].to = case[t].to /\ case'[t].prefix = case[t].prefix
    <2>1. CASE Goto(t, pc)
        <3>1. [case[t] EXCEPT !.pc = pc] \in Case
            BY <1>0 DEF Case
        <3> QED BY <1>0, <1>4, <1>5, <2>1, <3>1 DEF Goto, Case
    <2>2. CASE ErrorOccurred(t)
        <3>1. [case[t] EXCEPT !.pc = "over", !.error = TRUE, !.result = FALSE] \in Case
            BY <1>0 DEF Case, CasePC
        <3>2. case' = [case EXCEPT ![t] =
                          [case[t] EXCEPT !.pc = "over", !.error = TRUE, !.result = FALSE]]
            BY <1>0, <2>2 DEF ErrorOccurred, Case
        <3> QED BY <1>0, <1>4, <1>5, <3>1, <3>2 DEF Case
    <2> QED BY <1>5, <2>1, <2>2
<1> DEFINE Own ==
        /\ CasesTyped' /\ OthersKept(t) /\ current' = current /\ current = t /\ transit' = transit
        /\ case[t].pc \notin {"new", "over"} /\ case'[t].pc # "new"
        /\ case'[t].scenario = case[t].scenario /\ case'[t].to = case[t].to /\ case'[t].prefix = case[t].prefix
<1>6. ASSUME OwnBalances, UNCHANGED <<current, transit>>, current = t, case[t].pc \notin {"new", "over"},
             NEW c \in Case, case' = [case EXCEPT ![t] = c], c.pc # "new",
             c.scenario = case[t].scenario, c.to = case[t].to /\ c.prefix = case[t].prefix
      PROVE  Own
    BY <1>0, <1>4, <1>6
<1> USE DEF CasePC, At
<1>7. CASE CheckFunding(t)
    BY <1>0, <1>2, <1>5, <1>7 DEF CheckFunding
<1>8. CASE GenerateSender(t)
    BY <1>0, <1>1, <1>3, <1>5, <1>8 DEF GenerateSender
<1>9. CASE Fund(t)
    <2>1. PICK n \in 0 .. MaxPayments, late \in 0 .. MaxPayments :
              /\ Credit(Sender(t), FromShard, n * (Amount + GasCost))
              /\ case' = [case EXCEPT
                    ![t].pc = IF case[t].scenario = "standard" THEN "receiver" ELSE "start",
                    ![t].late = late]
        BY <1>9 DEF Fund
    <2>2. n * (Amount + GasCost) \in Nat
        BY <1>0, SingleSenderAssumption
    <2>3. OwnBalances
        BY <1>0, <1>1, <1>9, <2>1, <2>2, BalancesTyped DEF OwnBalances, Fund, AccountsTypeOK
    <2> DEFINE c == [case[t] EXCEPT
                        !.pc = IF case[t].scenario = "standard" THEN "receiver" ELSE "start",
                        !.late = late]
    <2>4. /\ c \in Case /\ case' = [case EXCEPT ![t] = c] /\ c.pc # "new"
          /\ c.scenario = case[t].scenario /\ c.to = case[t].to /\ c.prefix = case[t].prefix
        BY <1>0, <2>1 DEF Case
    <2> HIDE DEF c
    <2> QED BY <1>6, <1>9, <2>3, <2>4 DEF Fund
<1>10. CASE GenerateReceiver(t)
    BY <1>0, <1>1, <1>3, <1>5, <1>10 DEF GenerateReceiver
<1>11. CASE StartingBalances(t)
    <2> DEFINE c == [case[t] EXCEPT !.pc = "enter", !.start = bal[Payee(t)][case[t].to]]
    <2>1. CASE case' = [case EXCEPT ![t].pc = "enter", ![t].start = bal[Payee(t)][case[t].to]]
        <3>0. bal[Payee(t)][case[t].to] \in Nat
            BY <1>0, OwnAccounts
        <3>1. /\ c \in Case /\ case' = [case EXCEPT ![t] = c] /\ c.pc # "new"
              /\ c.scenario = case[t].scenario /\ c.to = case[t].to /\ c.prefix = case[t].prefix
            BY <1>0, <2>1, <3>0 DEF Case
        <3> HIDE DEF c
        <3> QED BY <1>2, <1>6, <1>11, <3>1 DEF StartingBalances
    <2> QED BY <1>0, <1>2, <1>5, <1>11, <2>1 DEF StartingBalances
<1>12. CASE EnterSettings(t)
    BY <1>0, <1>2, <1>5, <1>12 DEF EnterSettings
<1>13. CASE Send(t)
    <2>1. PICK pc \in {"await", "revert"}, tx \in {"pending", case[t].tx}, error \in {TRUE, case[t].error} :
              case' = [case EXCEPT ![t].pc = pc, ![t].tx = tx, ![t].error = error]
        <3>1. CASE case' = [case EXCEPT ![t].pc = "await", ![t].tx = "pending"]
            <4>1. case' = [case EXCEPT ![t].pc = "await", ![t].tx = "pending",
                                       ![t].error = case[t].error]
                BY <1>0, <3>1 DEF Case
            <4> QED BY <4>1
        <3>2. CASE case' = [case EXCEPT ![t].pc = "revert", ![t].tx = "pending", ![t].error = TRUE]
            BY <1>0, <3>2 DEF Case
        <3>3. CASE case' = [case EXCEPT ![t].pc = "revert", ![t].error = TRUE]
            BY <1>0, <3>3 DEF Case
        <3> QED BY <1>13, <3>1, <3>2, <3>3 DEF Send
    <2> DEFINE c == [case[t] EXCEPT !.pc = pc, !.tx = tx, !.error = error]
    <2>2. /\ c \in Case /\ case' = [case EXCEPT ![t] = c] /\ c.pc # "new"
          /\ c.scenario = case[t].scenario /\ c.to = case[t].to /\ c.prefix = case[t].prefix
        BY <1>0, <2>1 DEF Case, TxState
    <2> HIDE DEF c
    <2> QED BY <1>2, <1>6, <1>13, <2>2 DEF Send
<1>14. CASE Await(t)
    <2> DEFINE minedNow == case[t].tx = "mined"
    <2>1. PICK success \in {FALSE, minedNow} :
              case' = [case EXCEPT ![t].pc = "revert", ![t].success = success]
        BY <1>14 DEF Await
    <2> DEFINE c == [case[t] EXCEPT !.pc = "revert", !.success = success]
    <2>2. /\ c \in Case /\ case' = [case EXCEPT ![t] = c] /\ c.pc # "new"
          /\ c.scenario = case[t].scenario /\ c.to = case[t].to /\ c.prefix = case[t].prefix
        <3>1. success \in BOOLEAN
            BY <2>1
        <3> QED BY <1>0, <2>1, <3>1 DEF Case
    <2> HIDE DEF c
    <2> QED BY <1>2, <1>6, <1>14, <2>2 DEF Await
<1>15. CASE LeaveSettings(t)
    BY <1>0, <1>2, <1>5, <1>15 DEF LeaveSettings
<1>16. CASE SenderEndingBalance(t)
    BY <1>0, <1>2, <1>5, <1>16 DEF SenderEndingBalance
<1>17. CASE ReceiverEndingBalance(t)
    <2>1. CASE ErrorOccurred(t)
        BY <1>0, <1>2, <1>5, <1>17, <2>1 DEF ReceiverEndingBalance
    <2>2. ASSUME NEW result \in BOOLEAN,
                 case' = [case EXCEPT ![t].pc = "teardown", ![t].result = result]
          PROVE  Own
        <3> DEFINE c == [case[t] EXCEPT !.pc = "teardown", !.result = result]
        <3>1. /\ c \in Case /\ case' = [case EXCEPT ![t] = c] /\ c.pc # "new"
              /\ c.scenario = case[t].scenario /\ c.to = case[t].to /\ c.prefix = case[t].prefix
            BY <1>0, <2>2 DEF Case
        <3> HIDE DEF c
        <3> QED BY <1>2, <1>6, <1>17, <3>1 DEF ReceiverEndingBalance
    <2> QED BY <1>17, <2>1, <2>2 DEF ReceiverEndingBalance
<1>18. CASE StartTeardowns(t)
    <2>1. OwnBalances
        BY <1>0, <1>1, <1>18, SingleSenderAssumption
        DEF StartTeardowns, StartTeardown, OwnBalances, AccountsTypeOK, TearPC
    <2> QED BY <1>0, <1>18, <2>1 DEF StartTeardowns, OwnBalances, CasesTyped
<1>19. CASE \E g \in Tearing : TearStep(t, g)
    <2>1. PICK g \in Tearing : TearStep(t, g)
        BY <1>19
    <2>2. <<t, g>> \in {Sender(t), Receiver(t)} /\ TearShard(t, g) \in Shards
        BY <1>0, SingleSenderAssumption DEF Sender, Receiver, TearShard
    <2>3. AccountsTypeOK' /\ \A a \in TestAccountIds \ {<<t, g>>} : bal'[a] = bal[a]
        <3>1. <<t, g>> \in TestAccountIds /\ Teardown(g, <<t, g>>, TearShard(t, g))
            BY <1>1, <2>1, <2>2 DEF TearStep
        <3> HIDE DEF At
        <3> QED BY <1>0, <2>2, <3>1, TeardownTyped
    <2>4. OwnBalances
        BY <1>1, <2>2, <2>3 DEF OwnBalances
    <2> QED BY <1>0, <1>1, <2>1, <2>4 DEF TearStep, OwnBalances, CasesTyped
<1>20. CASE Finish(t)
    BY <1>0, <1>2, <1>5, <1>20 DEF Finish
<1> QED BY <1>7, <1>8, <1>9, <1>10, <1>11, <1>12, <1>13, <1>14, <1>15, <1>16, <1>17, <1>18,
           <1>19, <1>20 DEF CaseStep

\* What the chain does to a test case, whatever the test case is at.
LEMMA ChainMoves ==
    ASSUME CasesInv, NEW t \in Cases, MineFunding(t) \/ MineTransfer(t) \/ Arrive(t)
    PROVE  /\ CasesTyped' /\ OthersKept(t) /\ current' = current
           /\ case'[t].pc = case[t].pc /\ case'[t].scenario = case[t].scenario
           /\ case'[t].to = case[t].to /\ case'[t].prefix = case[t].prefix /\ case'[t].error = case[t].error
           /\ case'[t].result = case[t].result /\ case'[t].success = case[t].success
           /\ case'[t].start = case[t].start
<1> USE DEF OthersKept
<1>0. /\ AccountsTypeOK /\ case \in [Cases -> Case] /\ case[t] \in Case /\ transit \subseteq Cases
      /\ bal \in [TestAccountIds -> [Shards -> Nat]] /\ current \in 0 .. Tests /\ FromShard \in Shards
      /\ Destination(t) \in Shards /\ Amount \in Nat /\ GasCost \in Nat
    BY SingleSenderAssumption DEF CasesInv, CasesTyped, AccountsTypeOK, Case, Destination, TargetShard
<1>1. /\ Sender(t) \in TestAccountIds /\ Payee(t) \in TestAccountIds
      /\ \A u \in Cases \ {t} : /\ Sender(u) \in TestAccountIds \ {Sender(t), Payee(t)}
                               /\ Receiver(u) \in TestAccountIds \ {Sender(t), Payee(t)}
    BY OwnAccounts
<1>2. ASSUME bal' \in [TestAccountIds -> [Shards -> Nat]], UNCHANGED <<held, tear>>
      PROVE  AccountsTypeOK'
    BY <1>0, <1>2 DEF AccountsTypeOK
<1>3. CASE MineFunding(t)
    <2>0. Amount + GasCost \in Nat /\ case[t].late - 1 \in 0 .. MaxPayments
        BY <1>0, <1>3, SingleSenderAssumption DEF MineFunding, Case
    <2>1. /\ bal' \in [TestAccountIds -> [Shards -> Nat]]
          /\ \A a \in TestAccountIds \ {Sender(t)} : bal'[a] = bal[a]
        BY <1>0, <1>1, <1>3, <2>0, BalancesTyped DEF MineFunding
    <2> DEFINE c == [case[t] EXCEPT !.late = @ - 1]
    <2>2. c \in Case /\ case' = [case EXCEPT ![t] = c]
        BY <1>0, <1>3, <2>0 DEF MineFunding, Case
    <2> QED BY <1>0, <1>1, <1>2, <1>3, <2>1, <2>2 DEF MineFunding, CasesTyped, Case
<1>4. CASE MineTransfer(t)
    <2>1. ASSUME NEW tx \in TxState, case' = [case EXCEPT ![t].tx = tx]
          PROVE  /\ case' \in [Cases -> Case] /\ \A u \in Cases \ {t} : case'[u] = case[u]
                 /\ case'[t].pc = case[t].pc /\ case'[t].scenario = case[t].scenario
                 /\ case'[t].to = case[t].to /\ case'[t].prefix = case[t].prefix /\ case'[t].error = case[t].error
                 /\ case'[t].result = case[t].result /\ case'[t].success = case[t].success
                 /\ case'[t].start = case[t].start
        BY <1>0, <2>1 DEF Case
    <2>2. CASE /\ case' = [case EXCEPT ![t].tx = "failed"] /\ UNCHANGED <<bal, transit>>
        BY <1>0, <1>1, <1>2, <1>4, <2>1, <2>2 DEF MineTransfer, CasesTyped, TxState
    <2>3. CASE /\ bal[Sender(t)][FromShard] > Amount
               /\ case' = [case EXCEPT ![t].tx = "mined"]
               /\ IF Destination(t) = FromShard
                  THEN Transfer(Sender(t), Payee(t), FromShard, Amount) /\ UNCHANGED transit
                  ELSE Debit(Sender(t), FromShard, Amount) /\ transit' = transit \cup {t}
        <3>1. /\ bal' \in [TestAccountIds -> [Shards -> Nat]]
              /\ \A a \in TestAccountIds \ {Sender(t), Payee(t)} : bal'[a] = bal[a]
            BY <1>0, <1>1, <2>3, BalancesTyped
        <3> QED BY <1>0, <1>1, <1>2, <1>4, <2>1, <2>3, <3>1 DEF MineTransfer, CasesTyped, TxState
    <2> QED BY <1>4, <2>2, <2>3 DEF MineTransfer
<1>5. CASE Arrive(t)
    <2>1. /\ bal' \in [TestAccountIds -> [Shards -> Nat]]
          /\ \A a \in TestAccountIds \ {Payee(t)} : bal'[a] = bal[a]
        BY <1>0, <1>1, <1>5, BalancesTyped DEF Arrive
    <2> QED BY <1>0, <1>1, <1>2, <1>5, <2>1 DEF Arrive, CasesTyped
<1> QED BY <1>3, <1>4, <1>5

\* The next test case takes the place of one that is over.
LEMMA BeginStep ==
    ASSUME CasesInv, Begin
    PROVE  /\ CasesTyped' /\ current' = current + 1 /\ current' \in Cases
           /\ \A u \in Cases \ {current'} : case'[u] = case[u]
           /\ case[current'].pc = "new" /\ case'[current'].pc \in {"funding", "over"}
           /\ case'[current'].error = (case'[current'].pc = "over")
           /\ case'[current'].tx = case[current'].tx /\ case'[current'].start = case[current'].start
           /\ case'[current'].success = case[current'].success
           /\ case'[current'].result = case[current'].result
<1>0. /\ AccountsTypeOK /\ case \in [Cases -> Case] /\ transit \subseteq Cases
      /\ current \in 0 .. Tests /\ Tests \in Nat
    BY SingleSenderAssumption DEF CasesInv, CasesTyped
<1>1. current + 1 \in Cases /\ current' = current + 1
    BY <1>0 DEF Begin, Cases
<1>2. case[current + 1].pc = "new" /\ case[current + 1] \in Case
    BY <1>0, <1>1 DEF CasesInv, InTurn
<1>3. PICK s \in Scenarios, p \in Prefixes, to \in Shards, initialized \in BOOLEAN :
          case' = [case EXCEPT ![current + 1] =
              [@ EXCEPT !.pc = IF initialized THEN "funding" ELSE "over",
                        !.scenario = s, !.prefix = p, !.to = to, !.error = ~initialized]]
    BY DEF Begin
<1> DEFINE c == [case[current + 1] EXCEPT !.pc = IF initialized THEN "funding" ELSE "over",
                        !.scenario = s, !.prefix = p, !.to = to, !.error = ~initialized]
<1>4. c \in Case
    BY <1>2 DEF Case, CasePC
<1>5. /\ c.pc \in {"funding", "over"} /\ c.error = (c.pc = "over")
      /\ c.tx = case[current + 1].tx /\ c.start = case[current + 1].start
      /\ c.success = case[current + 1].success /\ c.result = case[current + 1].result
    BY <1>2 DEF Case
<1>6. case' = [case EXCEPT ![current + 1] = c]
    BY <1>0, <1>1, <1>3
<1> HIDE DEF c
<1>7. AccountsTypeOK'
    BY <1>0 DEF Begin, AccountsTypeOK, NotTearing, TearPC
<1> QED BY <1>0, <1>1, <1>2, <1>4, <1>5, <1>6, <1>7 DEF Begin, CasesTyped

\* The types and the turns are kept by every step.
LEMMA CasesInvNext == CasesInv /\ [Next]_vars => CasesInv'
<1> SUFFICES ASSUME CasesInv, [Next]_vars PROVE CasesInv'
    OBVIOUS
<1>0. current \in 0 .. Tests /\ Tests \in Nat
    BY SingleSenderAssumption DEF CasesInv, CasesTyped
<1>1. CASE Begin
    <2>1. /\ CasesTyped' /\ current' = current + 1 /\ current' \in Cases
          /\ \A u \in Cases \ {current'} : case'[u] = case[u]
          /\ case'[current'].pc \in {"funding", "over"}
        BY <1>1, BeginStep
    <2>2. /\ \A t \in Cases : t > current => case[t].pc = "new"
          /\ \A t \in Cases : t < current \/ t = current => case[t].pc = "over"
        BY <1>0, <1>1 DEF Begin, CasesInv, InTurn, Cases
    <2>3. \A t \in Cases : /\ t > current' => t > current /\ t # current'
                           /\ t < current' => (t < current \/ t = current) /\ t # current'
        BY <1>0, <2>1 DEF Cases
    <2>4. InTurn'
        BY <2>1, <2>2, <2>3 DEF InTurn
    <2> QED BY <2>1, <2>4 DEF CasesInv
<1>2. CASE \E t \in Cases : CaseStep(t)
    <2>1. PICK t \in Cases : CaseStep(t)
        BY <1>2
    <2> QED BY <1>0, <2>1, OwnStep DEF CasesInv, InTurn, OthersKept, Cases
<1>3. CASE \E t \in Cases : MineFunding(t) \/ MineTransfer(t) \/ Arrive(t)
    <2>1. PICK t \in Cases : MineFunding(t) \/ MineTransfer(t) \/ Arrive(t)
        BY <1>3
    <2>2. /\ CasesTyped' /\ current' = current
          /\ \A u \in Cases : case'[u].pc = case[u].pc
        BY <2>1, ChainMoves DEF OthersKept
    <2>3. current # 0 => current \in Cases
        BY <1>0 DEF Cases
    <2> QED BY <2>2, <2>3 DEF CasesInv, InTurn
<1>4. CASE UNCHANGED vars
    BY <1>4 DEF CasesInv, CasesTyped, InTurn, AccountsTypeOK, vars, accountVars
<1> QED BY <1>1, <1>2, <1>3, <1>4 DEF Next, Stopped

\* Initially nothing has begun.
LEMMA CasesInvInit == Init => CasesInv
<1> SUFFICES ASSUME Init PROVE CasesInv
    OBVIOUS
<1>1. AccountsTypeOK
    BY DEF Init, AccountsInit, AccountsTypeOK, NotTearing, TearPC
<1>2. case \in [Cases -> Case]
    BY SingleSenderAssumption DEF Init, Case, CasePC, Scenarios, Prefixes, TxState
<1>3. current = 0 /\ \A t \in Cases : case[t].pc = "new" /\ ~(t < 0)
    BY DEF Init, Cases
<1>4. InTurn
    BY <1>3 DEF InTurn
<1>5. current \in 0 .. Tests /\ transit \subseteq Cases
    BY SingleSenderAssumption DEF Init
<1> QED BY <1>1, <1>2, <1>4, <1>5 DEF CasesInv, CasesTyped

----
\* A test case that is none of the step's business keeps what is said of it.
LEMMA OthersTransfer ==
    ASSUME NEW t \in Cases, OthersKept(t), NEW u \in Cases \ {t}, TransferOf(u), ResultOf(u)
    PROVE  TransferOf(u)' /\ ResultOf(u)'
<1> DEFINE a == Payee(u)
<1>1. case'[u] = case[u] /\ (u \in transit' <=> u \in transit) /\ a \in {Sender(u), Receiver(u)}
    BY DEF OthersKept, Payee
<1>2. bal'[Sender(u)] = bal[Sender(u)] /\ bal'[Receiver(u)] = bal[Receiver(u)] /\ a' = a
    BY DEF OthersKept, Payee, Sender, Receiver
<1>3. Sender(u)' = Sender(u) /\ Receiver(u)' = Receiver(u) /\ Destination(u)' = Destination(u)
    BY <1>1 DEF Sender, Receiver, Destination, TargetShard
<1>4. ResultOf(u)'
    BY <1>1, <1>3 DEF ResultOf, Settled
<1>5. bal'[a] = bal[a]
    BY <1>1, <1>2
<1> HIDE DEF a
<1>6. TransferOf(u)'
    <2> DEFINE due == bal[a][case[u].to] = 0
    <2>1. due' = due
        BY <1>1, <1>2, <1>5
    <2>2. Exact(u)' = Exact(u) /\ Settled(u)' = Settled(u) /\ Uncredited(u)' = Uncredited(u)
          /\ Unbegun(u)' = Unbegun(u)
        BY <1>1, <1>3 DEF Exact, Settled, Uncredited, Unbegun
    <2> QED BY <1>1, <1>2, <1>3, <2>1, <2>2 DEF TransferOf, a
<1> QED BY <1>4, <1>6

\* What the test case itself does to its transfer and its result.
LEMMA OwnTransfer ==
    ASSUME CasesInv, NEW t \in Cases, TransferOf(t), ResultOf(t), CaseStep(t)
    PROVE  TransferOf(t)' /\ ResultOf(t)'
<1>0. /\ case \in [Cases -> Case] /\ case[t] \in Case
      /\ bal \in [TestAccountIds -> [Shards -> Nat]] /\ FromShard \in Shards
      /\ case[t].to \in Shards /\ Amount \in Nat \ {0} /\ GasCost \in Nat
    BY SingleSenderAssumption DEF CasesInv, CasesTyped, AccountsTypeOK, Case
<1>1. /\ case' \in [Cases -> Case] /\ case'[t] \in Case /\ transit' = transit
      /\ case[t].pc \notin {"new", "over"} /\ case'[t].pc # "new"
      /\ case'[t].scenario = case[t].scenario /\ case'[t].to = case[t].to
      /\ Destination(t)' = Destination(t)
    BY OwnStep DEF CasesTyped, Destination, TargetShard
<1>2. /\ Sender(t)' = Sender(t) /\ Receiver(t)' = Receiver(t) /\ Payee(t)' = Payee(t)
      /\ Payee(t) \in TestAccountIds /\ Sender(t) \in TestAccountIds
    BY <1>1, OwnAccounts DEF Sender, Receiver, Payee
\* A step that neither sends nor computes the result.
<1>3. ASSUME case'[t].tx = case[t].tx, case'[t].start = case[t].start,
             case'[t].success = case[t].success, case'[t].result => case[t].result,
             case'[t].error => case'[t].pc \in {"revert", "over"} /\ (case'[t].result => case[t].error),
             case'[t].pc \in Unsent => case[t].pc \in Unsent, Settled(t) => Settled(t)',
             Settled(t)' \/ (Exact(t) => bal'[Payee(t)][case[t].to] = bal[Payee(t)][case[t].to])
      PROVE  TransferOf(t)' /\ ResultOf(t)'
    <2>1. Exact(t)' = Exact(t) /\ Uncredited(t)' = Uncredited(t) /\ ~Unbegun(t)'
        BY <1>1, <1>3 DEF Exact, Uncredited, Unbegun
    <2>2. ResultOf(t)'
        BY <1>1, <1>3 DEF ResultOf
    <2>3. TransferOf(t)'
        BY <1>1, <1>2, <1>3, <2>1 DEF TransferOf
    <2> QED BY <2>2, <2>3
<1>4. ASSUME NEW pc \in CasePC, (Goto(t, pc) /\ ~case[t].error) \/ ErrorOccurred(t),
             Settled(t)' \/ (Exact(t) => bal'[Payee(t)][case[t].to] = bal[Payee(t)][case[t].to]),
             pc \in Unsent => case[t].pc \in Unsent, pc \in {"teardown", "over"} \/ ~Settled(t)
      PROVE  TransferOf(t)' /\ ResultOf(t)'
    BY <1>0, <1>3, <1>4 DEF Goto, ErrorOccurred, Settled, Case, Unsent
<1> USE DEF CasePC, At, Unsent, Settled
<1>5. case[t].error => case[t].pc = "revert"
    BY <1>1 DEF ResultOf
<1>7. CASE CheckFunding(t)
    BY <1>4, <1>5, <1>7 DEF CheckFunding, accountVars
<1>8. CASE GenerateSender(t)
    BY <1>4, <1>5, <1>8 DEF GenerateSender
<1>9. CASE Fund(t)
    <2>1. PICK n \in 0 .. MaxPayments, late \in 0 .. MaxPayments :
              /\ Credit(Sender(t), FromShard, n * (Amount + GasCost))
              /\ case' = [case EXCEPT
                    ![t].pc = IF case[t].scenario = "standard" THEN "receiver" ELSE "start",
                    ![t].late = late]
        BY <1>9 DEF Fund
    <2>2. Exact(t) => Payee(t) # Sender(t) \/ case[t].to # FromShard
        BY <1>0, OwnAccounts DEF Exact, Payee, Sender, Receiver
    <2>3. Exact(t) => bal'[Payee(t)][case[t].to] = bal[Payee(t)][case[t].to]
        BY <1>0, <1>2, <2>1, <2>2 DEF Credit
    <2>4. /\ case'[t].tx = case[t].tx /\ case'[t].start = case[t].start
          /\ case'[t].success = case[t].success /\ case'[t].result = case[t].result
          /\ case'[t].error = case[t].error /\ case'[t].pc \in {"receiver", "start"}
        BY <1>0, <2>1 DEF Case
    <2> QED BY <1>3, <1>5, <1>9, <2>3, <2>4 DEF Fund
<1>10. CASE GenerateReceiver(t)
    BY <1>4, <1>5, <1>10 DEF GenerateReceiver
<1>11. CASE StartingBalances(t)
    <2>1. CASE case' = [case EXCEPT ![t].pc = "enter", ![t].start = bal[Payee(t)][case[t].to]]
        <3>1. Exact(t) => bal[Payee(t)][case[t].to] = 0 /\ case[t].tx = "none"
            BY <1>11 DEF StartingBalances, TransferOf, Uncredited
        <3>2. /\ case'[t].start = bal[Payee(t)][case[t].to] /\ case'[t].pc = "enter"
              /\ case'[t].tx = case[t].tx /\ case'[t].success = case[t].success
              /\ case'[t].result = case[t].result /\ case'[t].error = case[t].error /\ bal' = bal
            BY <1>0, <1>11, <2>1 DEF Case, StartingBalances, accountVars
        <3>3. Exact(t)' = Exact(t) /\ Uncredited(t)' = Uncredited(t) /\ ~Unbegun(t)'
            BY <1>1, <3>2 DEF Exact, Uncredited, Unbegun
        <3>4. TransferOf(t)'
            BY <1>1, <1>2, <1>11, <3>1, <3>2, <3>3 DEF StartingBalances, TransferOf
        <3>5. ResultOf(t)'
            BY <1>1, <1>5, <1>11, <3>2 DEF StartingBalances, ResultOf
        <3> QED BY <3>4, <3>5
    <2> QED BY <1>4, <1>5, <1>11, <2>1 DEF StartingBalances, accountVars
<1>12. CASE EnterSettings(t)
    BY <1>4, <1>5, <1>12 DEF EnterSettings, accountVars
<1>13. CASE Send(t)
    <2>1. /\ case'[t].start = case[t].start /\ case'[t].success = case[t].success
          /\ case'[t].result = case[t].result /\ bal' = bal
          /\ case'[t].pc \in {"await", "revert"}
          /\ case'[t].error => case'[t].pc = "revert" \/ case[t].error
          /\ case'[t].tx = case[t].tx \/ case'[t].tx = "pending"
        BY <1>0, <1>13 DEF Send, Case, accountVars
    <2>2. case[t].tx = "none" /\ ~case[t].success /\ ~case[t].result /\ t \notin transit
        BY <1>13 DEF Send, TransferOf, ResultOf
    <2>3. Exact(t)' = Exact(t) /\ Uncredited(t) /\ ~Unbegun(t)'
        BY <1>1, <2>1, <2>2 DEF Exact, Uncredited, Unbegun
    <2>4. TransferOf(t)'
        BY <1>1, <1>2, <1>13, <2>1, <2>2, <2>3 DEF Send, TransferOf
    <2> QED BY <1>1, <1>5, <1>13, <2>1, <2>2, <2>4 DEF Send, ResultOf
<1>14. CASE Await(t)
    <2>1. /\ case'[t].start = case[t].start /\ case'[t].tx = case[t].tx
          /\ case'[t].result = case[t].result /\ case'[t].error = case[t].error
          /\ case'[t].pc = "revert" /\ bal' = bal
          /\ case'[t].success => case[t].tx = "mined"
        <3> DEFINE minedNow == case[t].tx = "mined"
        <3>1. PICK success \in {FALSE, minedNow} :
                  case' = [case EXCEPT ![t].pc = "revert", ![t].success = success]
            BY <1>14 DEF Await
        <3>2. case'[t].success = success /\ (success => minedNow)
            BY <1>0, <3>1 DEF Case
        <3> HIDE DEF minedNow
        <3>3. /\ case'[t].start = case[t].start /\ case'[t].tx = case[t].tx
              /\ case'[t].result = case[t].result /\ case'[t].error = case[t].error
              /\ case'[t].pc = "revert"
            BY <1>0, <3>1 DEF Case
        <3> QED BY <1>14, <3>2, <3>3 DEF Await, accountVars, minedNow
    <2>2. Exact(t)' = Exact(t) /\ Uncredited(t)' = Uncredited(t) /\ ~Unbegun(t)'
        BY <1>1, <2>1 DEF Exact, Uncredited, Unbegun
    <2>3. TransferOf(t)'
        BY <1>1, <1>2, <1>14, <2>1, <2>2 DEF Await, TransferOf
    <2> QED BY <1>1, <1>14, <2>1, <2>3 DEF Await, ResultOf
<1>15. CASE LeaveSettings(t)
    BY <1>4, <1>5, <1>15 DEF LeaveSettings, accountVars
<1>16. CASE SenderEndingBalance(t)
    BY <1>4, <1>5, <1>16 DEF SenderEndingBalance, accountVars
\* The result compares the ending balance: what is still in transit is missing.
<1>17. CASE ReceiverEndingBalance(t)
    <2> DEFINE ending == bal[Payee(t)][case[t].to]
               expected == case[t].start + Amount
               sameShard == case[t].scenario = "same_account" /\ case[t].to = FromShard
               right == case[t].success
                        /\ (IF sameShard THEN ending <= expected ELSE ending = expected)
    <2>1. CASE ErrorOccurred(t)
        BY <1>4, <1>5, <1>17, <2>1 DEF ReceiverEndingBalance, accountVars
    <2>2. CASE case' = [case EXCEPT ![t].pc = "teardown", ![t].result = right]
        <3>1. right => case[t].tx = "mined" /\ t \notin transit /\ Destination(t) = case[t].to
            <4>0. Destination(t) # FromShard => case[t].to # FromShard
                BY DEF Destination, TargetShard
            <4>1. t \in transit \/ Destination(t) # case[t].to =>
                      Exact(t) /\ ~sameShard /\ ending = 0 /\ expected = Amount
                BY <1>0, <1>17, <4>0 DEF TransferOf, Exact, Uncredited, ReceiverEndingBalance, Destination,
                      TargetShard
            <4> QED BY <1>0, <4>1 DEF ResultOf
        <3> HIDE DEF right
        <3>2. /\ case'[t].start = case[t].start /\ case'[t].tx = case[t].tx
              /\ case'[t].success = case[t].success /\ case'[t].error = case[t].error
              /\ case'[t].pc = "teardown" /\ bal' = bal /\ case'[t].result = right
            BY <1>0, <1>17, <2>2 DEF ReceiverEndingBalance, Case, accountVars
        <3>3. TransferOf(t)'
            BY <1>1, <3>2 DEF TransferOf, Unbegun
        <3>4. ~case[t].error
            BY <1>5, <1>17 DEF ReceiverEndingBalance
        <3> QED BY <1>1, <3>1, <3>2, <3>3, <3>4 DEF ResultOf
    <2> HIDE DEF right
    <2> QED BY <1>17, <2>1, <2>2 DEF ReceiverEndingBalance, right
<1>18. CASE StartTeardowns(t)
    BY <1>3, <1>5, <1>18 DEF StartTeardowns
<1>19. CASE \E g \in Tearing : TearStep(t, g)
    BY <1>3, <1>5, <1>19 DEF TearStep
<1>20. CASE Finish(t)
    BY <1>4, <1>5, <1>20 DEF Finish, accountVars
<1> QED BY <1>7, <1>8, <1>9, <1>10, <1>11, <1>12, <1>13, <1>14, <1>15, <1>16, <1>17, <1>18,
           <1>19, <1>20 DEF CaseStep

\* What the chain does to a transfer: it arrives where the ending balance is read.
LEMMA ChainTransfer ==
    ASSUME CasesInv, NEW t \in Cases, TransferOf(t), ResultOf(t),
           MineFunding(t) \/ MineTransfer(t) \/ Arrive(t)
    PROVE  TransferOf(t)' /\ ResultOf(t)'
<1>0. /\ case \in [Cases -> Case] /\ case[t] \in Case
      /\ bal \in [TestAccountIds -> [Shards -> Nat]] /\ FromShard \in Shards
      /\ case[t].to \in Shards /\ Amount \in Nat \ {0} /\ GasCost \in Nat
    BY SingleSenderAssumption DEF CasesInv, CasesTyped, AccountsTypeOK, Case
<1>1. /\ case'[t].pc = case[t].pc /\ case'[t].scenario = case[t].scenario
      /\ case'[t].to = case[t].to /\ case'[t].error = case[t].error
      /\ case'[t].result = case[t].result /\ case'[t].success = case[t].success
      /\ case'[t].start = case[t].start /\ Destination(t)' = Destination(t)
    BY ChainMoves DEF Destination, TargetShard
<1>2. /\ Sender(t)' = Sender(t) /\ Receiver(t)' = Receiver(t) /\ Payee(t)' = Payee(t)
      /\ Payee(t) \in TestAccountIds /\ Sender(t) \in TestAccountIds /\ Sender(t) # Receiver(t)
      /\ Payee(t) = Sender(t) => case[t].scenario # "standard"
    BY <1>1, OwnAccounts DEF Sender, Receiver, Payee
<1>3. /\ Exact(t)' = Exact(t) /\ Settled(t)' = Settled(t) /\ Unbegun(t)' = Unbegun(t)
      /\ Exact(t) => Payee(t) # Sender(t) \/ case[t].to # FromShard
      /\ Destination(t) # FromShard => Destination(t) = case[t].to
    BY <1>1, <1>2 DEF Exact, Settled, Unbegun, Destination, TargetShard
<1>4. CASE MineFunding(t)
    <2>1. /\ case'[t].tx = case[t].tx /\ transit' = transit /\ ~Unbegun(t)
          /\ Exact(t) => bal'[Payee(t)][case[t].to] = bal[Payee(t)][case[t].to]
        BY <1>0, <1>2, <1>3, <1>4 DEF MineFunding, Credit, Case, TransferOf
    <2>2. Uncredited(t)' = Uncredited(t)
        BY <1>1, <2>1 DEF Uncredited
    <2>3. TransferOf(t)'
        BY <1>1, <1>2, <1>3, <2>1, <2>2 DEF TransferOf
    <2> QED BY <1>1, <1>3, <2>1, <2>3 DEF ResultOf
<1>5. CASE MineTransfer(t)
    <2>1. case[t].tx = "pending" /\ case[t].pc \notin Unsent /\ ~Unbegun(t) /\ t \notin transit
        BY <1>5 DEF MineTransfer, TransferOf, Unbegun, Unsent
    <2>2. ~case[t].success /\ ~case[t].result
        BY <2>1 DEF ResultOf
    <2>3. Exact(t) /\ ~Settled(t) => case[t].start = 0 /\ bal[Payee(t)][case[t].to] = 0
        BY <2>1 DEF TransferOf, Uncredited
    <2>4. ResultOf(t)'
        BY <1>1, <2>2 DEF ResultOf
    <2>5. CASE case' = [case EXCEPT ![t].tx = "failed"] /\ UNCHANGED <<bal, transit>>
        BY <1>0, <1>1, <1>2, <1>3, <2>1, <2>3, <2>4, <2>5 DEF TransferOf
    <2>6. CASE /\ case' = [case EXCEPT ![t].tx = "mined"] /\ Destination(t) = FromShard
               /\ Transfer(Sender(t), Payee(t), FromShard, Amount) /\ UNCHANGED transit
        <3>1. case'[t].tx = "mined" /\ (Uncredited(t)' => case[t].to # FromShard)
            BY <1>0, <1>1, <2>1, <2>6 DEF Uncredited, Case
        <3>2. Uncredited(t)' => bal'[Payee(t)][case[t].to] = bal[Payee(t)][case[t].to]
            BY <1>0, <1>2, <2>6, <3>1 DEF Transfer
        <3> QED BY <1>1, <1>2, <1>3, <2>1, <2>3, <2>4, <2>6, <3>1, <3>2 DEF TransferOf
    <2>7. CASE /\ case' = [case EXCEPT ![t].tx = "mined"] /\ Destination(t) # FromShard
               /\ Debit(Sender(t), FromShard, Amount) /\ transit' = transit \cup {t}
        <3>1. case'[t].tx = "mined" /\ bal'[Payee(t)][case[t].to] = bal[Payee(t)][case[t].to]
            BY <1>0, <1>2, <1>3, <2>7 DEF Case, Debit
        <3> QED BY <1>1, <1>2, <1>3, <2>1, <2>3, <2>4, <2>7, <3>1 DEF TransferOf
    <2> QED BY <1>5, <2>5, <2>6, <2>7 DEF MineTransfer
<1>6. CASE Arrive(t)
    <2>1. case[t].tx = "mined" /\ case[t].pc \notin Unsent /\ ~Unbegun(t)
        BY <1>6 DEF Arrive, TransferOf, Unbegun, Unsent
    <2>2. case' = case /\ transit' = transit \ {t} /\ ~Uncredited(t)'
        BY <1>1, <1>3, <1>6, <2>1 DEF Arrive, Uncredited, TransferOf
    <2> QED BY <1>1, <1>2, <1>3, <2>1, <2>2 DEF TransferOf, ResultOf
<1> QED BY <1>4, <1>5, <1>6

\* The transfers and the results, over every step.
LEMMA TransferInvNext == CasesInv /\ TransferInv /\ [Next]_vars => TransferInv'
<1> SUFFICES ASSUME CasesInv, TransferInv, [Next]_vars, NEW u \in Cases
             PROVE  TransferOf(u)' /\ ResultOf(u)'
    BY DEF TransferInv
<1>0. TransferOf(u) /\ ResultOf(u)
    BY DEF TransferInv
<1>1. CASE Begin
    <2>1. CASE u = current'
        <3>0. case[u].pc = "new" /\ case[u].tx = "none" /\ u \notin transit /\ case[u].start = 0
              /\ case[u].to \in Shards /\ case'[u].to \in Shards /\ ~case[u].result /\ ~case[u].success
            <4>1. case[u].pc = "new" /\ CasesTyped'
                BY <1>1, <2>1, BeginStep
            <4>2. case[u].to \in Shards /\ case'[u].to \in Shards
                BY <4>1 DEF CasesInv, CasesTyped, Case
            <4> QED BY <1>0, <4>1, <4>2 DEF TransferOf, ResultOf, Unbegun, Unsent, Settled
        <3>1. \A s \in Shards : bal[Sender(u)][s] = 0 /\ bal[Receiver(u)][s] = 0
            BY <1>0, <3>0 DEF TransferOf, Unbegun
        <3>2. /\ Sender(u)' = Sender(u) /\ Receiver(u)' = Receiver(u)
              /\ Payee(u)' \in {Sender(u), Receiver(u)} /\ bal' = bal /\ transit' = transit
            BY <1>1 DEF Sender, Receiver, Payee, Begin
        <3>3. bal'[Payee(u)'][case'[u].to] = 0
            BY <3>0, <3>1, <3>2
        <3>4. /\ case'[u].tx = "none" /\ case'[u].start = 0 /\ ~case'[u].result /\ ~case'[u].success
              /\ case'[u].pc \in {"funding", "over"} /\ (case'[u].error => case'[u].pc = "over")
            BY <1>1, <2>1, <3>0, BeginStep
        <3>5. TransferOf(u)'
            BY <3>0, <3>2, <3>3, <3>4 DEF TransferOf, Unbegun
        <3> QED BY <3>4, <3>5 DEF ResultOf
    <2>2. CASE u # current'
        <3>1. current' \in Cases /\ OthersKept(current')
            BY <1>1, BeginStep DEF OthersKept, Begin, Sender, Receiver
        <3> QED BY <1>0, <2>2, <3>1, OthersTransfer
    <2> QED BY <2>1, <2>2
<1>2. CASE \E t \in Cases : CaseStep(t)
    <2>1. PICK t \in Cases : CaseStep(t)
        BY <1>2
    <2>2. OthersKept(t)
        BY <2>1, OwnStep
    <2> QED BY <1>0, <2>1, <2>2, OwnTransfer, OthersTransfer
<1>3. CASE \E t \in Cases : MineFunding(t) \/ MineTransfer(t) \/ Arrive(t)
    <2>1. PICK t \in Cases : MineFunding(t) \/ MineTransfer(t) \/ Arrive(t)
        BY <1>3
    <2>2. OthersKept(t)
        BY <2>1, ChainMoves
    <2> QED BY <1>0, <2>1, <2>2, ChainTransfer, OthersTransfer
<1>4. CASE UNCHANGED vars
    <2>1. UNCHANGED <<case, transit, bal>>
        BY <1>4 DEF vars, accountVars
    <2>2. ResultOf(u)'
        BY <1>0, <2>1 DEF ResultOf, Settled, Destination, TargetShard
    <2> QED BY <1>0, <2>1, <2>2 DEF TransferOf, Exact, Settled, Uncredited, Unbegun, Payee, Sender, Receiver,
               Destination, TargetShard
<1> QED BY <1>1, <1>2, <1>3, <1>4 DEF Next, Stopped

\* Initially nothing was credited.
LEMMA TransferInvInit == Init => TransferInv
<1> SUFFICES ASSUME Init, NEW t \in Cases PROVE TransferOf(t) /\ ResultOf(t)
    BY DEF TransferInv
<1>1. /\ case[t].pc = "new" /\ case[t].tx = "none" /\ case[t].late = 0 /\ case[t].start = 0
      /\ case[t].to = FromShard /\ ~case[t].success /\ ~case[t].error /\ ~case[t].result
      /\ t \notin transit
    BY DEF Init
<1>2. \A a \in TestAccountIds : \A s \in Shards : bal[a][s] = 0
    BY DEF Init, AccountsInit
<1> QED BY <1>1, <1>2, OwnAccounts, SingleSenderAssumption
        DEF TransferOf, ResultOf, Unbegun, Unsent, Exact, Settled, Uncredited

\* A positive result rests on a transfer that was mined and has arrived in the
\* shard the test case names.
THEOREM ResultsAreEarned == Spec => []ResultIsEarned
<1> DEFINE I == CasesInv /\ TransferInv
<1>1. Init => I
    BY CasesInvInit, TransferInvInit
<1>2. I /\ [Next]_vars => I'
    BY CasesInvNext, TransferInvNext
<1>3. I => ResultIsEarned
    BY DEF TransferInv, ResultOf, ResultIsEarned
<1> QED BY <1>1, <1>2, <1>3, PTL DEF Spec

----
\* Under the prefix the go-sdk starts with, going back to the history is going
\* back to the settings of the process.
NativeSettings == ConfiguredPrefix = "hmy" /\ NativeChain # "nil"

\* The test case that runs changes the settings around its send only.
LEMMA SettingsInvNext ==
    ASSUME NativeSettings, CasesInv, SettingsInv, [Next]_vars
    PROVE  SettingsInv'
<1>0. current # 0 => current \in Cases
    BY SingleSenderAssumption DEF CasesInv, CasesTyped, Cases
\* Steps that leave the settings alone, and do not end the sending.
<1>1. ASSUME UNCHANGED settingsVars, current' = current,
             current # 0 /\ Sending(current) => Sending(current)'
      PROVE  SettingsInv'
    BY <1>1 DEF SettingsInv, Swapped, settingsVars
<1>2. CASE Begin
    <2>1. current # 0 => ~Sending(current)
        BY <1>0, <1>2, SingleSenderAssumption DEF Begin, Sending, CasesInv, CasesTyped
    <2> QED BY <1>2, <2>1 DEF Begin, SettingsInv, settingsVars
<1>3. CASE \E t \in Cases : CaseStep(t)
    <2>1. PICK t \in Cases : CaseStep(t)
        BY <1>3
    <2>2. /\ current' = t /\ current = t /\ t # 0 /\ case \in [Cases -> Case]
          /\ case'[t].pc # "new" /\ case' \in [Cases -> Case] /\ case[t] \in Case
        BY <2>1, OwnStep DEF CasesInv, CasesTyped, Cases
    <2>3. CASE EnterSettings(t)
        <3>1. settings = InitialSettings /\ history = NoHistory
            BY <2>2, <2>3 DEF EnterSettings, At, SettingsInv, Sending
        <3>2. Sending(t)'
            BY <2>2, <2>3 DEF EnterSettings, Goto, Sending, Case
        <3> QED BY <2>2, <2>3, <3>1, <3>2 DEF EnterSettings, EnterSend, ChangeRPCSettings, SettingsInv,
                    InitialSettings, Swapped, settingsVars
    <2>4. CASE LeaveSettings(t)
        <3>1. CASE settings = InitialSettings /\ history = NoHistory
            BY <2>4, <3>1 DEF LeaveSettings, RevertRPCSettings, NoHistory, SettingsInv, settingsVars
        <3>2. CASE Swapped
            BY <2>4, <3>2 DEF LeaveSettings, RevertRPCSettings, Swapped, NativeSettings, NoHistory,
                  SettingsInv, SettingsFor, MethodFor, InitialSettings
        <3> QED BY <3>1, <3>2 DEF SettingsInv
    <2>5. CASE Send(t) \/ Await(t)
        <3>1. UNCHANGED settingsVars
            BY <2>5 DEF Send, Await
        <3>2. case'[t].pc \in {"await", "revert"}
            BY <2>2, <2>5 DEF Send, Await, Case
        <3> QED BY <1>1, <2>2, <3>1, <3>2 DEF Sending
    <2>6. CASE ~(EnterSettings(t) \/ LeaveSettings(t) \/ Send(t) \/ Await(t))
        <3>1. UNCHANGED settingsVars /\ ~Sending(t)
            BY <2>1, <2>6 DEF CaseStep, CheckFunding, GenerateSender, Fund, GenerateReceiver,
                  StartingBalances, SenderEndingBalance, ReceiverEndingBalance, StartTeardowns,
                  TearStep, Finish, At, Sending
        <3> QED BY <1>1, <2>2, <3>1
    <2> QED BY <2>3, <2>4, <2>5, <2>6
<1>4. CASE \E t \in Cases : MineFunding(t) \/ MineTransfer(t) \/ Arrive(t)
    <2>1. PICK t \in Cases : MineFunding(t) \/ MineTransfer(t) \/ Arrive(t)
        BY <1>4
    <2>2. UNCHANGED settingsVars /\ current' = current /\ \A u \in Cases : case'[u].pc = case[u].pc
        BY <2>1, ChainMoves DEF OthersKept, MineFunding, MineTransfer, Arrive
    <2> QED BY <1>0, <1>1, <2>2 DEF Sending
<1>5. CASE UNCHANGED vars
    BY <1>1, <1>5 DEF vars, Sending
<1> QED BY <1>2, <1>3, <1>4, <1>5 DEF Next, Stopped

\* All requests but the sends run under the settings the process started with.
THEOREM SettingsAreRestored == NativeSettings => (Spec => []SettingsRestored)
<1> SUFFICES ASSUME NativeSettings PROVE Spec => []SettingsRestored
    OBVIOUS
<1> DEFINE I == CasesInv /\ SettingsInv
<1>1. Init => I
    BY CasesInvInit DEF Init, SettingsInit, SettingsInv
<1>2. I /\ [Next]_vars => I'
    BY CasesInvNext, SettingsInvNext
<1>3. I => SettingsRestored
    BY DEF SettingsInv, SettingsRestored
<1> QED BY <1>1, <1>2, <1>3, PTL DEF Spec

\* Whatever the process was configured with, the prefixes are known ones.
PrefixInv ==
    /\ settings.prefix \in {ConfiguredPrefix} \cup Prefixes
    /\ history.prefix \in {"", ConfiguredPrefix} \cup Prefixes

LEMMA PrefixInvNext == PrefixInv /\ [Next]_vars => PrefixInv'
<1> SUFFICES ASSUME PrefixInv, [Next]_vars PROVE PrefixInv'
    OBVIOUS
<1>1. ASSUME UNCHANGED settingsVars PROVE PrefixInv'
    BY <1>1 DEF PrefixInv, settingsVars
<1>2. ASSUME NEW t \in Cases, EnterSettings(t) PROVE PrefixInv'
    <2>1. CASE ChangeRPCSettings("eth", EthChain)
        <3>1. settings'.prefix = "eth" /\ history'.prefix = settings.prefix
            BY <2>1 DEF ChangeRPCSettings, SettingsFor
        <3> QED BY <3>1 DEF PrefixInv, Prefixes
    <2> QED BY <1>1, <1>2, <2>1 DEF EnterSettings, EnterSend
<1>3. ASSUME NEW t \in Cases, LeaveSettings(t) PROVE PrefixInv'
    <2>1. CASE /\ history.prefix # "" /\ settings' = SettingsFor(history.prefix, history.chain)
               /\ history' = NoHistory
        <3>1. settings'.prefix = history.prefix /\ history'.prefix = ""
            BY <2>1 DEF SettingsFor, NoHistory
        <3> QED BY <2>1, <3>1 DEF PrefixInv
    <2> QED BY <1>1, <1>3, <2>1 DEF LeaveSettings, RevertRPCSettings
<1>4. ASSUME NEW t \in Cases, CaseStep(t), ~EnterSettings(t), ~LeaveSettings(t) PROVE PrefixInv'
    BY <1>1, <1>4 DEF CaseStep, CheckFunding, GenerateSender, Fund, GenerateReceiver, StartingBalances,
          Send, Await, SenderEndingBalance, ReceiverEndingBalance, StartTeardowns, TearStep, Finish
<1>5. ASSUME NEW t \in Cases, MineFunding(t) \/ MineTransfer(t) \/ Arrive(t) PROVE PrefixInv'
    BY <1>1, <1>5 DEF MineFunding, MineTransfer, Arrive
<1> QED BY <1>1, <1>2, <1>3, <1>4, <1>5 DEF Next, Begin, Stopped, vars

\* The type invariant: balances and amounts are natural numbers - no transfer
\* and no sweep takes more than there is - and every record has its shape.
THEOREM TypeCorrect == Spec => []TypeOK
<1> DEFINE I == CasesInv /\ PrefixInv
<1>1. Init => I
    <2>1. SettingsInit => settings.prefix = ConfiguredPrefix /\ history.prefix = ""
        <3>1. InitialSettings.prefix = ConfiguredPrefix /\ NoHistory.prefix = ""
            BY DEF InitialSettings, NoHistory
        <3> QED BY <3>1 DEF SettingsInit
    <2> QED BY <2>1, CasesInvInit DEF Init, PrefixInv
<1>2. I /\ [Next]_vars => I'
    BY CasesInvNext, PrefixInvNext
<1>3. I => TypeOK
    BY DEF CasesInv, CasesTyped, PrefixInv, TypeOK
<1> QED BY <1>1, <1>2, <1>3, PTL DEF Spec

\* The keys, over every step of a test case: it adds none once it is over.
LEMMA KeysInvNext == ASSUME CasesInv, KeysInv, [Next]_vars PROVE KeysInv'
<1>0. /\ current # 0 => current \in Cases
      /\ current \in 0 .. Tests /\ Tests \in Nat /\ case \in [Cases -> Case]
      /\ tear \in [Tearing -> [pc : TearPC, amount : Nat]] /\ Tearing = {"sender", "receiver"}
    BY SingleSenderAssumption DEF CasesInv, CasesTyped, AccountsTypeOK, Cases
<1> DEFINE Ran(u) == case[u].pc = "over" /\ case[u].scenario = "standard" /\ ~case[u].error
           Clean(u) == Sender(u) \notin held /\ Receiver(u) \notin held
<1>1. \A u \in Cases : Ran(u) => Clean(u)
    BY DEF KeysInv, StandardLeavesNoKeys
<1>2. CASE Begin
    <2>1. ASSUME NEW u \in Cases, Ran(u)' PROVE Clean(u)'
        <3>1. u # current' /\ case'[u] = case[u]
            BY <1>2, <2>1, BeginStep
        <3> QED BY <1>1, <1>2, <2>1, <3>1 DEF Begin, Sender, Receiver
    <2>2. tear' = NotTearing /\ NotTearing' = NotTearing
        BY <1>2 DEF Begin, NotTearing
    <2> QED BY <2>1, <2>2 DEF KeysInv, StandardLeavesNoKeys
<1>3. CASE \E t \in Cases : CaseStep(t)
    <2>1. PICK t \in Cases : CaseStep(t)
        BY <1>3
    <2>2. /\ current' = t /\ current = t /\ t # 0 /\ case[t] \in Case /\ OthersKept(t)
          /\ case[t].pc \notin {"new", "over"} /\ case'[t].scenario = case[t].scenario
          /\ AccountsTypeOK /\ NotTearing' = NotTearing
        BY <2>1, OwnStep DEF CasesInv, CasesTyped, Cases, NotTearing
    \* It generates no account but its own.
    <2>3. held' \subseteq held \cup {Sender(t), Receiver(t)}
        <3>1. CASE GenerateSender(t) \/ GenerateReceiver(t)
            BY <3>1 DEF GenerateSender, GenerateReceiver, GenerateAccount
        <3>2. CASE \E g \in Tearing : TearStep(t, g)
            BY <3>2 DEF TearStep, Teardown, TeardownRead, TeardownSend, TeardownRemove, RemoveAccount
        <3>3. CASE ~(GenerateSender(t) \/ GenerateReceiver(t) \/ \E g \in Tearing : TearStep(t, g))
            <4>1. UNCHANGED held
                BY <2>1, <3>3 DEF CaseStep, CheckFunding, Fund, StartingBalances, EnterSettings, Send,
                      Await, LeaveSettings, SenderEndingBalance, ReceiverEndingBalance,
                      StartTeardowns, Finish, accountVars
            <4> QED BY <4>1
        <3> QED BY <3>1, <3>2, <3>3
    <2>4. ASSUME NEW u \in Cases \ {t}, Ran(u)' PROVE Clean(u)'
        <3>1. Ran(u) /\ Clean(u) /\ Sender(u)' = Sender(u) /\ Receiver(u)' = Receiver(u)
            BY <1>1, <2>2, <2>4 DEF OthersKept, Sender, Receiver
        <3> QED BY <2>3, <3>1, OwnAccounts
    \* Before its teardown a test case is over by an error only.
    <2>5. CASE ~Settled(t)
        <3>0. ASSUME ErrorOccurred(t) PROVE ~Ran(t)'
            BY <1>0, <2>2, <3>0 DEF ErrorOccurred, Case
        <3>1. ASSUME NEW pc, pc # "over", Goto(t, pc) PROVE ~Ran(t)'
            BY <1>0, <2>2, <3>1 DEF Goto, Case
        <3>2. ASSUME Fund(t) \/ Send(t) \/ Await(t) PROVE ~Ran(t)'
            <4>1. case'[t].pc # "over"
                BY <1>0, <2>2, <3>2 DEF Fund, Send, Await, Case
            <4> QED BY <4>1
        <3>3. ASSUME StartingBalances(t) \/ ReceiverEndingBalance(t) PROVE ~Ran(t)'
            <4>1. ErrorOccurred(t) \/ case'[t].pc # "over"
                BY <1>0, <2>2, <3>3 DEF StartingBalances, ReceiverEndingBalance, Case
            <4> QED BY <3>0, <4>1
        <3>4. ASSUME CheckFunding(t) \/ GenerateSender(t) \/ GenerateReceiver(t) \/ EnterSettings(t)
                     \/ LeaveSettings(t) \/ SenderEndingBalance(t)
              PROVE  ~Ran(t)'
            <4>1. \/ ErrorOccurred(t)
                  \/ \E pc \in {"generate", "fund", "start", "send", "senderEnd", "receiverEnd"} : Goto(t, pc)
                BY <3>4 DEF CheckFunding, GenerateSender, GenerateReceiver, EnterSettings,
                      LeaveSettings, SenderEndingBalance
            <4> QED BY <3>0, <3>1, <4>1
        <3>5. tear' = tear /\ ~Ran(t)'
            <4>1. ~(StartTeardowns(t) \/ (\E g \in Tearing : TearStep(t, g)) \/ Finish(t))
                BY <2>5 DEF StartTeardowns, TearStep, Finish, At, Settled
            <4>2. tear' = tear
                BY <2>1, <4>1 DEF CaseStep, CheckFunding, GenerateSender, Fund, GenerateReceiver,
                      StartingBalances, EnterSettings, Send, Await, LeaveSettings,
                      SenderEndingBalance, ReceiverEndingBalance, accountVars
            <4> QED BY <2>1, <3>2, <3>3, <3>4, <4>1, <4>2 DEF CaseStep
        <3>6. tear' = NotTearing
            BY <2>2, <2>5, <3>5 DEF KeysInv
        <3> QED BY <2>2, <2>4, <3>5, <3>6 DEF KeysInv, StandardLeavesNoKeys
    <2>6. CASE StartTeardowns(t)
        <3>1. case' = case /\ case[t].pc = "teardown"
            BY <2>6 DEF StartTeardowns, At
        <3>2. case[t].scenario = "standard" => \A g \in Tearing : tear'[g].pc = "read"
            BY <2>6 DEF StartTeardowns
        <3> QED BY <2>2, <2>4, <3>1, <3>2 DEF KeysInv, StandardLeavesNoKeys, Settled
    <2>7. CASE \E g \in Tearing : TearStep(t, g)
        <3>1. PICK g \in Tearing : TearStep(t, g)
            BY <2>7
        <3>2. case' = case /\ case[t].pc = "teardown" /\ Teardown(g, <<t, g>>, TearShard(t, g))
            BY <3>1 DEF TearStep, At
        <3>3. TearShard(t, g) \in Shards /\ <<t, g>> \in TestAccountIds
            BY <1>0, <2>2, SingleSenderAssumption DEF TearShard, Case
        <3>4. /\ held' \subseteq held /\ \A h \in Tearing \ {g} : tear'[h] = tear[h]
              /\ tear'[g].pc # "off" /\ (tear'[g].pc = "over" => <<t, g>> \notin held')
            BY <2>2, <3>2, <3>3, TeardownTyped
        <3>5. tear # NotTearing
            BY <3>2 DEF Teardown, TeardownRead, TeardownSend, TeardownRemove, NotTearing
        <3> QED BY <2>2, <2>4, <3>2, <3>4, <3>5 DEF KeysInv, StandardLeavesNoKeys, Settled
    <2>8. CASE Finish(t)
        <3>1. /\ case[t].pc = "teardown" /\ held' = held /\ case'[t].pc = "over"
              /\ tear # NotTearing /\ \A g \in Tearing : tear[g].pc \in {"off", "over"}
            BY <1>0, <2>2, <2>8 DEF Finish, At, Goto, accountVars, Case
        <3>2. case[t].scenario = "standard" => \A g \in Tearing : <<t, g>> \notin held
            BY <2>2, <3>1 DEF KeysInv
        <3>3. Ran(t)' => Clean(t)'
            BY <1>0, <2>2, <3>1, <3>2 DEF Sender, Receiver
        <3> QED BY <2>2, <2>4, <3>1, <3>3 DEF KeysInv, StandardLeavesNoKeys, Settled
    <2>9. Settled(t) => StartTeardowns(t) \/ (\E g \in Tearing : TearStep(t, g)) \/ Finish(t)
        BY <2>1, <2>2 DEF CaseStep, Settled, At, CheckFunding, GenerateSender, Fund, GenerateReceiver,
              StartingBalances, EnterSettings, Send, Await, LeaveSettings, SenderEndingBalance,
              ReceiverEndingBalance
    <2> QED BY <2>5, <2>6, <2>7, <2>8, <2>9
<1>4. CASE \E t \in Cases : MineFunding(t) \/ MineTransfer(t) \/ Arrive(t)
    <2>1. PICK t \in Cases : MineFunding(t) \/ MineTransfer(t) \/ Arrive(t)
        BY <1>4
    <2>2. /\ UNCHANGED <<held, tear, current>> /\ NotTearing' = NotTearing
          /\ \A u \in Cases : /\ case'[u].pc = case[u].pc /\ case'[u].scenario = case[u].scenario
                              /\ case'[u].error = case[u].error
        BY <2>1, ChainMoves DEF OthersKept, MineFunding, MineTransfer, Arrive, NotTearing
    <2> QED BY <1>0, <2>2 DEF KeysInv, StandardLeavesNoKeys, Settled, Sender, Receiver
<1>5. CASE UNCHANGED vars
    BY <1>5 DEF vars, accountVars, KeysInv, StandardLeavesNoKeys, Settled, Sender, Receiver, NotTearing
<1> QED BY <1>2, <1>3, <1>4, <1>5 DEF Next, Stopped

\* A standard test case that ran to its end leaves no key behind.
THEOREM StandardIsClean == Spec => []StandardLeavesNoKeys
<1> DEFINE I == CasesInv /\ KeysInv
<1>1. Init => I
    <2>1. Init => KeysInv
        BY DEF Init, KeysInv, StandardLeavesNoKeys
    <2> QED BY <2>1, CasesInvInit
<1>2. I /\ [Next]_vars => I'
    BY CasesInvNext, KeysInvNext
<1>3. I => StandardLeavesNoKeys
    BY DEF KeysInv
<1> QED BY <1>1, <1>2, <1>3, PTL DEF Spec
====
