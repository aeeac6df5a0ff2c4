---- MODULE MultipleReceiverProofs ----
(***************************************************************************)
(* MultipleReceiverInvalidNonce for any number of receivers, any amounts   *)
(* and any prices: the transactions of one run of the scenario all carry   *)
(* the nonce that was read before the first goroutine started, and a chain *)
(* consumes a nonce once.                                                  *)
(***************************************************************************)
EXTENDS MultipleReceiverInvalidNonce, TestAccountsProofs, FiniteSetTheorems

\* The types the argument needs: those of the ledger, of the test case and of
\* its goroutines.
Typed ==
    /\ LedgerTypeOK
    /\ case \in Case
    /\ worker \in [Many -> Worker]
    /\ txs \in Seq(BOOLEAN)

\* The test case has not read the nonce yet.
NonceUnread ==
    case.pc \in {"new", "funding", "sender", "fund", "receivers", "enter", "nonce"}

\* Until then there is no goroutine and no transaction; from then on the nonce
\* is fixed, and everything in the pool and on the chain carries it.
InTheSlot(t) == t.from = Alone /\ t.nonce = case.nonce

OneSlot ==
    /\ NonceUnread => pool = {} /\ chain = {} /\ \A r \in Many : worker[r].pc = "unborn"
    /\ \A t \in pool : InTheSlot(t)
    /\ \A r \in chain : InTheSlot(r.tx)

\* The chain holds at most one receipt for a nonce it has consumed.
ConsumedOnce ==
    /\ \A r \in chain : r.tx.nonce < mined[r.tx.from]
    /\ \A r, s \in chain : SameSlot(r.tx, s.tx) => r = s

SlotInv == Typed /\ OneSlot /\ ConsumedOnce

\* How many responses say a transfer succeeded is a natural number.
LEMMA CountNat ==
    ASSUME NEW s \in Seq(BOOLEAN)
    PROVE  Cardinality({i \in DOMAIN s : s[i]}) \in Nat
<1>1. IsFiniteSet(DOMAIN s)
    BY FS_Interval
<1> QED BY <1>1, FS_Subset, FS_CardinalityType

\* Initially nothing was sent.
LEMMA SlotInit == Init => SlotInv
<1> SUFFICES ASSUME Init PROVE SlotInv
    OBVIOUS
<1>1. LedgerTypeOK
    BY MultipleReceiverAssumption DEF Init, LedgerInit, LedgerTypeOK
<1>2. case \in Case
    <2>1. <<>> \in Seq(Many) /\ FALSE \in BOOLEAN /\ 0 \in Nat /\ "new" \in CasePC
        BY DEF CasePC
    <2>2. PICK prefix \in {"hmy", "eth"}, to \in Shards :
              case = [pc |-> "new", prefix |-> prefix, to |-> to, receivers |-> <<>>, late |-> 0,
                      nonce |-> 0, successful |-> 0, error |-> FALSE, result |-> FALSE]
        BY DEF Init
    <2>3. 0 \in 0 .. MaxPayments
        BY MultipleReceiverAssumption
    <2> QED BY <2>1, <2>2, <2>3 DEF Case
<1>3. worker \in [Many -> Worker] /\ txs \in Seq(BOOLEAN)
    BY DEF Init, Worker, WorkerPC
<1>4. OneSlot
    BY DEF Init, LedgerInit, OneSlot
<1>5. ConsumedOnce
    BY DEF Init, LedgerInit, ConsumedOnce
<1> QED BY <1>1, <1>2, <1>3, <1>4, <1>5 DEF SlotInv, Typed

\* A step that sends and mines nothing, keeps the nonce once it was read, and
\* starts no goroutine before.
LEMMA QuietStep ==
    ASSUME SlotInv, UNCHANGED ledgerVars, Typed',
           NonceUnread' => NonceUnread,
           NonceUnread' => \A r \in Many : worker'[r].pc = "unborn",
           ~NonceUnread => case'.nonce = case.nonce
    PROVE  SlotInv'
<1>1. OneSlot'
    BY DEF SlotInv, OneSlot, InTheSlot, ledgerVars
<1>2. ConsumedOnce'
    BY DEF SlotInv, ConsumedOnce, ledgerVars
<1> QED BY <1>1, <1>2 DEF SlotInv

\* The scenario itself neither sends nor mines.
LEMMA MainInv == ASSUME SlotInv, MainStep PROVE SlotInv'
<1>0. /\ case \in Case /\ worker \in [Many -> Worker] /\ txs \in Seq(BOOLEAN) /\ LedgerTypeOK
    BY DEF SlotInv, Typed
<1>1. ASSUME UNCHANGED ledgerVars PROVE LedgerTypeOK'
    BY <1>0, <1>1 DEF LedgerTypeOK, ledgerVars
\* A step that moves on, within the scenario or out of it by an error.
<1>2. ASSUME NEW pc \in CasePC, UNCHANGED <<ledgerVars, worker, txs>>,
             Goto(pc) \/ ErrorOccurred,
             pc # "new",
             pc \in {"funding", "sender", "fund", "receivers", "enter", "nonce"} => NonceUnread
      PROVE  SlotInv'
    <2>1. /\ case' \in Case /\ case'.pc \in {pc, "over"} /\ case'.nonce = case.nonce
        BY <1>0, <1>2 DEF Goto, ErrorOccurred, Case, CasePC
    <2>2. Typed'
        BY <1>0, <1>1, <1>2, <2>1 DEF Typed
    <2> QED BY <1>0, <1>2, <2>1, <2>2, QuietStep DEF NonceUnread, SlotInv, OneSlot
<1> USE DEF CasePC, At
<1>3. CASE Begin
    BY <1>2, <1>3 DEF Begin, NonceUnread
<1>4. CASE CheckFunding
    BY <1>2, <1>4 DEF CheckFunding, NonceUnread
<1>5. CASE GenerateSender
    BY <1>2, <1>5 DEF GenerateSender, NonceUnread
<1>6. CASE FundSender
    <2>1. case' \in Case /\ case'.pc = "receivers" /\ case'.nonce = case.nonce
        BY <1>0, <1>6 DEF FundSender, Goto, Case
    <2>2. UNCHANGED <<ledgerVars, worker, txs>> /\ NonceUnread
        BY <1>6 DEF FundSender, NonceUnread
    <2> QED BY <1>0, <1>1, <2>1, <2>2, QuietStep DEF NonceUnread, SlotInv, OneSlot, Typed
<1>7. CASE GenerateReceivers
    <2>1. PICK list \in UNION {[1 .. n -> Many] : n \in 0 .. ReceiverCount} :
              case' = [case EXCEPT !.pc = "enter", !.receivers = list]
        BY <1>7 DEF GenerateReceivers
    <2>2. list \in Seq(Many)
        BY <2>1
    <2>3. case' \in Case /\ case'.pc = "enter" /\ case'.nonce = case.nonce
        BY <1>0, <2>1, <2>2 DEF Case
    <2>4. UNCHANGED <<ledgerVars, worker, txs>> /\ NonceUnread
        BY <1>7 DEF GenerateReceivers, NonceUnread
    <2> QED BY <1>0, <1>1, <2>3, <2>4, QuietStep DEF NonceUnread, SlotInv, OneSlot, Typed
<1>8. CASE EnterSettings
    BY <1>2, <1>8 DEF EnterSettings, NonceUnread
<1>9. CASE ReadNonce
    <2>1. PICK n \in CurrentNonces(Alone) : case' = [case EXCEPT !.pc = "spawn", !.nonce = n]
        BY <1>9 DEF ReadNonce
    <2>2. n \in Nat
        BY <1>0, <2>1, MultipleReceiverAssumption DEF CurrentNonces, LedgerTypeOK
    <2>3. case' \in Case /\ case'.pc = "spawn"
        BY <1>0, <2>1, <2>2 DEF Case
    <2>4. UNCHANGED <<ledgerVars, worker, txs>> /\ NonceUnread
        BY <1>9 DEF ReadNonce, NonceUnread
    <2> QED BY <1>0, <1>1, <2>3, <2>4, QuietStep DEF NonceUnread, Typed
<1>10. CASE Spawn
    <2>1. ~NonceUnread /\ UNCHANGED <<ledgerVars, txs>>
        BY <1>10 DEF Spawn, NonceUnread
    <2>2. case' \in Case /\ case'.nonce = case.nonce /\ ~NonceUnread'
        BY <1>0, <1>10 DEF Spawn, Goto, Case, NonceUnread
    <2>3. worker' \in [Many -> Worker]
        <3>1. ASSUME NEW r PROVE [worker EXCEPT ![r].pc = "balance"] \in [Many -> Worker]
            BY <1>0 DEF Worker, WorkerPC
        <3> QED BY <1>0, <1>10, <3>1 DEF Spawn
    <2> QED BY <1>0, <1>1, <2>1, <2>2, <2>3, QuietStep DEF Typed
<1>11. CASE CountResponses
    <2>1. ~NonceUnread /\ UNCHANGED <<ledgerVars, worker>> /\ txs' = <<>>
        BY <1>11 DEF CountResponses, NonceUnread
    <2>2. case' \in Case /\ case'.nonce = case.nonce /\ ~NonceUnread'
        BY <1>0, <1>11, CountNat DEF CountResponses, Case, NonceUnread
    <2> QED BY <1>0, <1>1, <2>1, <2>2, QuietStep DEF Typed
<1>12. CASE LeaveSettings
    <2>1. ~NonceUnread /\ UNCHANGED <<ledgerVars, worker, txs>>
        BY <1>12 DEF LeaveSettings, AllSuccessful, NonceUnread
    <2>2. case' \in Case /\ case'.nonce = case.nonce /\ ~NonceUnread'
        BY <1>0, <1>12 DEF LeaveSettings, AllSuccessful, Case, NonceUnread
    <2> QED BY <1>0, <1>1, <2>1, <2>2, QuietStep DEF Typed
<1>13. CASE SpawnTeardowns
    BY <1>0, <1>1, <1>13, QuietStep DEF SpawnTeardowns, scenarioVars, NonceUnread, Typed
<1>14. CASE Finish
    BY <1>2, <1>14 DEF Finish
<1> QED BY <1>3, <1>4, <1>5, <1>6, <1>7, <1>8, <1>9, <1>10, <1>11, <1>12, <1>13, <1>14
        DEF MainStep

\* A goroutine sends with the nonce of the test case, whatever it finds.
LEMMA WorkerInv == ASSUME SlotInv, NEW q \in Many, WorkerStep(q) PROVE SlotInv'
<1>0. /\ case \in Case /\ worker \in [Many -> Worker] /\ txs \in Seq(BOOLEAN) /\ LedgerTypeOK
      /\ worker[q] \in Worker /\ case.nonce \in Nat
    BY DEF SlotInv, Typed, Case
<1>1. ~NonceUnread
    BY DEF SlotInv, OneSlot, WorkerStep, WorkerBalance, WorkerSend, WorkerAwait, WorkerRespond
<1>2. ASSUME NEW pc \in WorkerPC, WorkerGoto(q, pc) PROVE worker' \in [Many -> Worker]
    BY <1>0, <1>2 DEF WorkerGoto, Worker
<1>3. ASSUME UNCHANGED ledgerVars, worker' \in [Many -> Worker], txs' \in Seq(BOOLEAN),
             case' \in Case, case'.pc = case.pc, case'.nonce = case.nonce
      PROVE  SlotInv'
    BY <1>0, <1>1, <1>3, QuietStep DEF NonceUnread, Typed, LedgerTypeOK, ledgerVars
<1>4. CASE WorkerBalance(q)
    <2>1. case' \in Case /\ case'.pc = case.pc /\ case'.nonce = case.nonce
        BY <1>0, <1>4 DEF WorkerBalance, Case
    <2>2. worker' \in [Many -> Worker]
        BY <1>2, <1>4 DEF WorkerBalance, WorkerPC
    <2> QED BY <1>0, <1>3, <1>4, <2>1, <2>2 DEF WorkerBalance
<1>5. CASE WorkerSend(q)
    <2>1. worker' \in [Many -> Worker] /\ UNCHANGED <<case, txs>>
        BY <1>2, <1>5 DEF WorkerSend, WorkerPC
    <2>2. CASE UNCHANGED ledgerVars
        BY <1>0, <1>3, <2>1, <2>2
    <2>3. CASE Accept(TxTo(q))
        <3> DEFINE t == TxTo(q)
        <3>1. t \in Transaction /\ InTheSlot(t)
            BY <1>0, MultipleReceiverAssumption DEF TxTo, Transaction, InTheSlot
        <3>2. pool' \subseteq pool \cup {t} /\ mined' = mined /\ chain' = chain
            BY <2>3 DEF Accept
        <3> HIDE DEF t
        <3>3. LedgerTypeOK'
            BY <1>0, <3>1, <3>2 DEF LedgerTypeOK
        <3>4. OneSlot'
            BY <1>1, <2>1, <3>1, <3>2 DEF SlotInv, OneSlot, InTheSlot, NonceUnread
        <3>5. ConsumedOnce'
            BY <3>2 DEF SlotInv, ConsumedOnce
        <3> QED BY <1>0, <2>1, <3>3, <3>4, <3>5 DEF SlotInv, Typed
    <2> QED BY <1>5, <2>2, <2>3 DEF WorkerSend
<1>6. CASE WorkerAwait(q)
    <2> DEFINE paid == [tx |-> TxTo(q), ok |-> TRUE] \in chain
    <2>0. paid \in BOOLEAN
        OBVIOUS
    <2>a. \E success \in {FALSE, paid} :
              worker' = [worker EXCEPT ![q].pc = "respond", ![q].success = success]
        BY <1>6 DEF WorkerAwait
    <2> HIDE DEF paid
    <2>1. PICK success \in BOOLEAN :
              worker' = [worker EXCEPT ![q].pc = "respond", ![q].success = success]
        BY <2>0, <2>a
    <2>2. worker' \in [Many -> Worker]
        BY <1>0, <2>1 DEF Worker, WorkerPC
    <2> QED BY <1>0, <1>3, <1>6, <2>2 DEF WorkerAwait
<1>7. CASE WorkerRespond(q)
    <2>1. worker' \in [Many -> Worker]
        BY <1>2, <1>7 DEF WorkerRespond, WorkerPC
    <2>2. txs' \in Seq(BOOLEAN)
        BY <1>0, <1>7 DEF WorkerRespond, Worker
    <2> QED BY <1>0, <1>3, <1>7, <2>1, <2>2 DEF WorkerRespond
<1> QED BY <1>4, <1>5, <1>6, <1>7 DEF WorkerStep

\* A block consumes the nonce of the transaction it takes: no other receipt can
\* have it.
LEMMA MineInv == ASSUME SlotInv, Mine, UNCHANGED scenarioVars PROVE SlotInv'
<1>1. PICK t \in pool, ok \in BOOLEAN :
          /\ t.nonce = mined[t.from]
          /\ pool' = pool \ {t}
          /\ mined' = [mined EXCEPT ![t.from] = @ + 1]
          /\ chain' = chain \cup {[tx |-> t, ok |-> ok]}
    BY DEF Mine, MineTransaction
<1>2. t \in Transaction /\ t.from \in Senders /\ mined \in [Senders -> Nat]
    BY DEF SlotInv, Typed, LedgerTypeOK, Transaction
<1>3. LedgerTypeOK'
    BY <1>1, <1>2 DEF SlotInv, Typed, LedgerTypeOK, Receipt
<1>4. OneSlot'
    BY <1>1 DEF SlotInv, OneSlot, InTheSlot, NonceUnread, scenarioVars
<1>5. ConsumedOnce'
    <2>1. \A r \in chain : r.tx.from \in Senders /\ r.tx.nonce \in Nat
        BY DEF SlotInv, Typed, LedgerTypeOK, Receipt, Transaction
    <2>2. \A r \in chain : r.tx.nonce < mined'[r.tx.from] /\ ~SameSlot(r.tx, t)
        BY <1>1, <1>2, <2>1 DEF SlotInv, ConsumedOnce, SameSlot
    <2>3. t.nonce < mined'[t.from]
        BY <1>1, <1>2
    <2> QED BY <1>1, <2>2, <2>3 DEF SlotInv, ConsumedOnce, SameSlot
<1> QED BY <1>3, <1>4, <1>5 DEF SlotInv, Typed, scenarioVars

\* What the chain does besides.
LEMMA ChainInv == ASSUME SlotInv, ChainStep PROVE SlotInv'
<1>0. case \in Case /\ LedgerTypeOK
    BY DEF SlotInv, Typed
<1>1. CASE MineFunding
    <2>1. UNCHANGED <<ledgerVars, worker, txs>>
        BY <1>1 DEF MineFunding
    <2>2. case' \in Case /\ case'.pc = case.pc /\ case'.nonce = case.nonce
        <3>1. case.late - 1 \in 0 .. MaxPayments
            BY <1>0, <1>1, MultipleReceiverAssumption DEF MineFunding, Case
        <3> QED BY <1>0, <1>1, <3>1 DEF MineFunding, Case
    <2> QED BY <2>1, <2>2, QuietStep DEF SlotInv, OneSlot, Typed, NonceUnread, LedgerTypeOK, ledgerVars
<1>2. CASE MineTransfer
    BY <1>2, MineInv DEF MineTransfer
<1>3. CASE EvictTransfer
    <2>1. /\ pool' \subseteq pool /\ mined' = mined /\ chain' = chain
          /\ UNCHANGED scenarioVars
        BY <1>3 DEF EvictTransfer, Evict
    <2> QED BY <2>1 DEF SlotInv, Typed, LedgerTypeOK, OneSlot, ConsumedOnce, InTheSlot,
                NonceUnread, scenarioVars
<1> QED BY <1>1, <1>2, <1>3 DEF ChainStep

\* SlotInv holds in every state.
THEOREM SlotInvariant == Spec => []SlotInv
<1>1. Init => SlotInv
    BY SlotInit
<1>2. SlotInv /\ [Next]_vars => SlotInv'
    <2> SUFFICES ASSUME SlotInv, [Next]_vars PROVE SlotInv'
        OBVIOUS
    <2>1. ASSUME UNCHANGED <<ledgerVars, scenarioVars>> PROVE SlotInv'
        BY <2>1, QuietStep DEF SlotInv, OneSlot, Typed, LedgerTypeOK, NonceUnread, ledgerVars,
           scenarioVars
    <2>2. CASE UNCHANGED vars
        BY <2>1, <2>2 DEF vars
    <2>3. CASE MainStep
        BY <2>3, MainInv
    <2>4. CASE \E r \in Many : WorkerStep(r)
        BY <2>4, WorkerInv
    <2>5. CASE \E g \in Tearing : TearStep(g)
        BY <2>1, <2>5 DEF TearStep
    <2>6. CASE ChainStep
        BY <2>6, ChainInv
    <2> QED BY <2>2, <2>3, <2>4, <2>5, <2>6 DEF Next, Stopped
<1> QED BY <1>1, <1>2, PTL DEF Spec

\* However many receivers executeInvalidNonceTransaction is started for, and
\* whatever the node answers, loses, evicts or mines late: one receiver at most
\* is paid.
THEOREM PaysOneReceiver == Spec => []SameNoncePaysOnce
<1>1. SlotInv => SameNoncePaysOnce
    <2> SUFFICES ASSUME SlotInv PROVE Cardinality(Paid) <= 1
        BY DEF SameNoncePaysOnce
    <2>1. \A p, q \in Paid : p = q
        <3> SUFFICES ASSUME NEW p \in Paid, NEW q \in Paid PROVE p = q
            OBVIOUS
        <3>1. PICK r \in PaidBy(p), s \in PaidBy(q) : TRUE
            BY DEF Paid
        <3>2. r \in chain /\ s \in chain /\ r.tx.to = p /\ s.tx.to = q
            BY DEF PaidBy
        <3>3. SameSlot(r.tx, s.tx)
            BY <3>2 DEF SlotInv, OneSlot, InTheSlot, SameSlot
        <3> QED BY <3>2, <3>3 DEF SlotInv, ConsumedOnce
    <2>2. CASE Paid = {}
        BY <2>2, FS_EmptySet
    <2>3. CASE Paid # {}
        <3>1. PICK p \in Paid : Paid = {p}
            BY <2>1, <2>3
        <3>2. Cardinality({p}) = 1
            BY FS_Singleton
        <3> QED BY <3>1, <3>2
    <2> QED BY <2>2, <2>3
<1> QED BY <1>1, SlotInvariant, PTL
----
\* The part of the types the argument above does without: the teardown loop goes
\* over the receivers, and has no goroutine for an iteration it has not begun.
TeardownInv ==
    /\ AccountsTypeOK
    /\ Len(txs) <= ReceiverCount
    /\ Len(case.receivers) <= ReceiverCount
    /\ iteration \in 0 .. Len(case.receivers)
    /\ case.pc \in {"new", "funding", "sender", "fund", "receivers"} => iteration = 0
    /\ \A g \in Tearing : g > iteration => tear[g].pc = "off"

LEMMA Counts ==
    /\ ReceiverCount \in Nat /\ Tearing = 0 .. ReceiverCount /\ TestAccountIds = Many \cup {Alone}
    /\ 0 \in Tearing /\ Alone \in TestAccountIds
<1>1. ReceiverCount \in Nat /\ Tearing = 0 .. ReceiverCount /\ TestAccountIds = Many \cup {Alone}
    BY AsyncTeardownsAssumption, FS_CardinalityType DEF ReceiverCount
<1> QED BY <1>1

LEMMA TeardownInit == ASSUME Init PROVE TeardownInv
<1>1. /\ held = {} /\ bal = [a \in TestAccountIds |-> [s \in Shards |-> 0]] /\ tear = NotTearing
      /\ txs = <<>> /\ case.receivers = <<>> /\ iteration = 0
    BY DEF Init, AccountsInit
<1>2. AccountsTypeOK
    BY <1>1 DEF AccountsTypeOK, NotTearing, TearPC
<1> QED BY <1>1, <1>2, Counts DEF TeardownInv, NotTearing

\* A step that leaves the teardown and the receivers as they were.
LEMMA Untouched ==
    ASSUME TeardownInv, AccountsTypeOK', UNCHANGED <<tear, iteration>>,
           case'.receivers = case.receivers, Len(txs') <= ReceiverCount,
           case'.pc \in {"new", "funding", "sender", "fund", "receivers"} =>
               case.pc \in {"new", "funding", "sender", "fund", "receivers"}
    PROVE  TeardownInv'
BY DEF TeardownInv

LEMMA MainTyped ==
    ASSUME SlotInv, TeardownInv, MainStep
    PROVE  TeardownInv'
<1>0. /\ case \in Case /\ worker \in [Many -> Worker] /\ txs \in Seq(BOOLEAN)
      /\ AccountsTypeOK /\ Len(txs) <= ReceiverCount /\ ReceiverCount \in Nat
    BY Counts DEF SlotInv, Typed, TeardownInv
<1>1. ASSUME UNCHANGED accountVars PROVE AccountsTypeOK'
    BY <1>0, <1>1 DEF accountVars, AccountsTypeOK
<1> DEFINE opening == {"new", "funding", "sender", "fund", "receivers"}
\* Steps that at most leave the opening phases.
<1>2. ASSUME NEW pc \in CasePC, Goto(pc) \/ ErrorOccurred, pc \in opening => case.pc \in opening
      PROVE  case'.receivers = case.receivers /\ (case'.pc \in opening => case.pc \in opening)
    BY <1>0, <1>2 DEF Goto, ErrorOccurred, Case, CasePC
<1>3. CASE Begin
    <2>1. UNCHANGED <<accountVars, tear, iteration, txs>> /\ case.pc = "new"
        BY <1>3 DEF Begin, At, accountVars
    <2>2. case'.receivers = case.receivers
        BY <1>0, <1>3 DEF Begin, Goto, ErrorOccurred, Case
    <2> QED BY <1>0, <1>1, <2>1, <2>2, Untouched
<1>4. CASE CheckFunding
    <2>1. UNCHANGED <<accountVars, tear, iteration, txs>> /\ case.pc = "funding"
        BY <1>4 DEF CheckFunding, At, accountVars
    <2>2. case'.receivers = case.receivers
        BY <1>0, <1>4 DEF CheckFunding, Goto, ErrorOccurred, Case
    <2> QED BY <1>0, <1>1, <2>1, <2>2, Untouched
<1>5. CASE GenerateSender
    <2>1. UNCHANGED <<bal, tear, iteration, txs>> /\ case.pc = "sender"
        BY <1>5 DEF GenerateSender, At
    <2>2. case'.receivers = case.receivers
        BY <1>0, <1>5 DEF GenerateSender, Goto, ErrorOccurred, Case
    <2>3. AccountsTypeOK'
        BY <1>0, <1>5, <2>1, Counts DEF GenerateSender, GenerateAccount, AccountsTypeOK
    <2> QED BY <1>0, <2>1, <2>2, <2>3, Untouched
<1>6. CASE FundSender
    <2>1. UNCHANGED <<held, tear, iteration, txs>> /\ case.pc = "fund"
        BY <1>6 DEF FundSender, At
    <2>2. case'.receivers = case.receivers
        BY <1>0, <1>6 DEF FundSender, Goto, Case
    <2>3. RequiredFunding \in Nat /\ case.to \in Shards
        BY <1>0, MultipleReceiverAssumption DEF RequiredFunding, Case
    <2>4. bal' \in [TestAccountIds -> [Shards -> Nat]]
        <3>1. PICK n \in 0 .. MaxPayments : Credit(Alone, case.to, n * RequiredFunding)
            BY <1>6 DEF FundSender
        <3>2. n * RequiredFunding \in Nat
            BY <2>3, MultipleReceiverAssumption
        <3> QED BY <1>0, <2>3, <3>1, <3>2, Counts, BalancesTyped DEF AccountsTypeOK
    <2>5. AccountsTypeOK'
        BY <1>0, <2>1, <2>4 DEF AccountsTypeOK
    <2> QED BY <1>0, <2>1, <2>2, <2>5, Untouched
<1>7. CASE GenerateReceivers
    <2>1. PICK list \in UNION {[1 .. n -> Many] : n \in 0 .. ReceiverCount} :
              held' = held \cup ToSet(list) /\ case' = [case EXCEPT !.pc = "enter", !.receivers = list]
        BY <1>7 DEF GenerateReceivers
    <2>2. PICK n \in 0 .. ReceiverCount : list \in [1 .. n -> Many]
        BY <2>1
    <2>3. Len(list) = n /\ ToSet(list) \subseteq Many
        BY <1>0, <2>2 DEF ToSet
    <2>4. UNCHANGED <<bal, tear, iteration, txs>> /\ iteration = 0
        BY <1>7 DEF GenerateReceivers, At, TeardownInv
    <2>5. case'.receivers = list /\ case'.pc = "enter"
        BY <1>0, <2>1 DEF Case
    <2>6. AccountsTypeOK'
        BY <1>0, <2>1, <2>3, <2>4, Counts DEF AccountsTypeOK
    <2> QED BY <1>0, <2>2, <2>3, <2>4, <2>5, <2>6 DEF TeardownInv
<1>8. CASE EnterSettings
    <2>1. UNCHANGED <<accountVars, tear, iteration, txs>>
        BY <1>8 DEF EnterSettings, accountVars
    <2>2. case'.receivers = case.receivers /\ case'.pc = "nonce"
        BY <1>0, <1>8 DEF EnterSettings, Goto, Case
    <2> QED BY <1>0, <1>1, <2>1, <2>2, Untouched
<1>9. CASE ReadNonce
    <2>1. UNCHANGED <<accountVars, tear, iteration, txs>>
        BY <1>9 DEF ReadNonce, accountVars
    <2>2. case'.receivers = case.receivers /\ case'.pc = "spawn"
        BY <1>0, <1>9 DEF ReadNonce, Case
    <2> QED BY <1>0, <1>1, <2>1, <2>2, Untouched
<1>10. CASE Spawn
    <2>1. UNCHANGED <<accountVars, tear, iteration, txs>> /\ case.pc = "spawn"
        BY <1>10 DEF Spawn, At, accountVars
    <2>2. case'.receivers = case.receivers /\ case'.pc \in {"spawn", "wait"}
        BY <1>0, <1>10, <2>1 DEF Spawn, Goto, Case
    <2> QED BY <1>0, <1>1, <2>1, <2>2, Untouched
<1>11. CASE CountResponses
    <2>1. UNCHANGED <<accountVars, tear, iteration>> /\ txs' = <<>>
        BY <1>11 DEF CountResponses, accountVars
    <2>2. case'.receivers = case.receivers /\ case'.pc = "revert"
        BY <1>0, <1>11 DEF CountResponses, Case
    <2> QED BY <1>0, <1>1, <2>1, <2>2, Untouched
<1>12. CASE LeaveSettings
    <2>1. UNCHANGED <<accountVars, tear, iteration, txs>>
        BY <1>12 DEF LeaveSettings, AllSuccessful, accountVars
    <2>2. case'.receivers = case.receivers /\ case'.pc = "teardown"
        BY <1>0, <1>12 DEF LeaveSettings, AllSuccessful, Case
    <2> QED BY <1>0, <1>1, <2>1, <2>2, Untouched
<1>13. CASE SpawnTeardowns
    <2>1. UNCHANGED <<held, bal, case, txs>> /\ case.pc = "teardown"
        BY <1>13 DEF SpawnTeardowns, At, SpawnAlone, SpawnNext, scenarioVars
    <2>2. /\ iteration \in Nat /\ Len(case.receivers) \in Nat /\ iteration <= Len(case.receivers)
          /\ Len(case.receivers) <= ReceiverCount
          /\ tear \in [Tearing -> [pc : TearPC, amount : Nat]]
        BY <1>0 DEF TeardownInv, Case, AccountsTypeOK
    <2>3. PICK g \in Nat :
              /\ tear' = [tear EXCEPT ![g] = [pc |-> "read", amount |-> 0]]
              /\ \/ g = 0 /\ iteration' = iteration
                 \/ iteration < Len(case.receivers) /\ iteration' = iteration + 1 /\ g = iteration + 1
        BY <1>13, <2>2 DEF SpawnTeardowns, SpawnAlone, SpawnNext, StartTeardown
    <2>4. tear' \in [Tearing -> [pc : TearPC, amount : Nat]]
        BY <2>2, <2>3 DEF TearPC
    <2>5. /\ iteration' \in 0 .. Len(case.receivers) /\ iteration <= iteration' /\ g <= iteration'
        BY <2>2, <2>3
    <2>6. ASSUME NEW h \in Tearing, h > iteration' PROVE tear'[h].pc = "off"
        <3>1. h > iteration /\ h # g
            BY <2>2, <2>5, <2>6, Counts
        <3> QED BY <2>2, <2>3, <3>1 DEF TeardownInv
    <2>7. AccountsTypeOK'
        BY <1>0, <2>1, <2>4 DEF AccountsTypeOK
    <2> QED BY <1>0, <2>1, <2>2, <2>5, <2>6, <2>7 DEF TeardownInv
<1>14. CASE Finish
    <2>1. UNCHANGED <<accountVars, tear, iteration, txs>>
        BY <1>14 DEF Finish, accountVars
    <2>2. case'.receivers = case.receivers /\ case'.pc = "over"
        BY <1>0, <1>14 DEF Finish, Goto, Case
    <2> QED BY <1>0, <1>1, <2>1, <2>2, Untouched
<1> QED BY <1>3, <1>4, <1>5, <1>6, <1>7, <1>8, <1>9, <1>10, <1>11, <1>12, <1>13, <1>14
        DEF MainStep

\* A teardown goroutine finds an account behind its pointer.
LEMMA TearTyped ==
    ASSUME SlotInv, TeardownInv, NEW g \in Tearing, TearStep(g)
    PROVE  TeardownInv'
<1>0. /\ case \in Case /\ iteration \in Nat /\ iteration <= Len(case.receivers)
      /\ AccountsTypeOK /\ tear \in [Tearing -> [pc : TearPC, amount : Nat]] /\ g \in Nat
      /\ Len(case.receivers) \in Nat
    BY Counts DEF SlotInv, Typed, TeardownInv, AccountsTypeOK, Case
<1>1. /\ tear[g].pc # "off" /\ UNCHANGED <<iteration, case, txs>> /\ case.pc = "teardown"
    BY DEF TearStep, AsyncTeardown, scenarioVars, At
<1>2. g <= iteration
    BY <1>0, <1>1 DEF TeardownInv
<1> DEFINE shard == IF g = 0 THEN FromShard ELSE case.to
           account == Behind(g, case.receivers)
<1>3. shard \in Shards /\ account \in TestAccountIds
    <2>1. CASE g = 0
        BY <2>1, Counts, MultipleReceiverAssumption DEF Behind
    <2>2. CASE g # 0
        <3>1. iteration \in 1 .. Len(case.receivers) /\ case.receivers \in Seq(Many) /\ case.to \in Shards
            BY <1>0, <1>2, <2>2 DEF Case
        <3> QED BY <2>2, <3>1, Counts DEF Behind
    <2> QED BY <2>1, <2>2
<1>4. Teardown(g, account, shard) \/ TornRemove(g, case.receivers)
    BY DEF TearStep, AsyncTeardown
<1> HIDE DEF shard, account
<1>5. AccountsTypeOK' /\ \A h \in Tearing \ {g} : tear'[h] = tear[h]
    <2>1. CASE Teardown(g, account, shard)
        BY <1>0, <1>3, <2>1, TeardownTyped
    <2>2. CASE TornRemove(g, case.receivers)
        BY <1>0, <2>2 DEF TornRemove, AccountsTypeOK, TearPC
    <2> QED BY <1>4, <2>1, <2>2
<1> QED BY <1>0, <1>1, <1>2, <1>5 DEF TeardownInv

\* The goroutines of the transfers hand at most one response each to the channel.
LEMMA WorkerTyped ==
    ASSUME SlotInv, TeardownInv, NEW r \in Many, WorkerStep(r)
    PROVE  TeardownInv'
<1>0. case \in Case /\ txs \in Seq(BOOLEAN) /\ worker \in [Many -> Worker] /\ ReceiverCount \in Nat
      /\ Len(txs) <= ReceiverCount /\ AccountsTypeOK
    BY Counts DEF SlotInv, Typed, TeardownInv
<1>1. UNCHANGED <<held, bal, tear, iteration>>
    BY DEF WorkerStep, WorkerBalance, WorkerSend, WorkerAwait, WorkerRespond, accountVars
<1>2. case'.receivers = case.receivers /\ case'.pc = case.pc
    BY <1>0 DEF WorkerStep, WorkerBalance, WorkerSend, WorkerAwait, WorkerRespond, Case
<1>3. Len(txs') <= ReceiverCount
    <2>1. CASE txs' = txs
        BY <1>0, <2>1
    <2>2. CASE WorkerRespond(r)
        <3>1. Len(txs) < ReceiverCount /\ txs' = Append(txs, worker[r].reported)
            BY <2>2 DEF WorkerRespond
        <3> QED BY <1>0, <3>1
    <2> QED BY <2>1, <2>2 DEF WorkerStep, WorkerBalance, WorkerSend, WorkerAwait
<1>4. AccountsTypeOK'
    BY <1>0, <1>1 DEF AccountsTypeOK
<1> QED BY <1>1, <1>2, <1>3, <1>4, Untouched

\* A block moves what the sender has.
LEMMA ChainTyped ==
    ASSUME SlotInv, SlotInv', TeardownInv, ChainStep
    PROVE  TeardownInv'
<1>0. case \in Case /\ Len(txs) <= ReceiverCount /\ AccountsTypeOK /\ LedgerTypeOK'
      /\ case.to \in Shards /\ Destination \in Shards
      /\ bal \in [TestAccountIds -> [Shards -> Nat]]
    BY MultipleReceiverAssumption
    DEF SlotInv, Typed, TeardownInv, Case, AccountsTypeOK, Destination, TargetShard
<1>1. CASE MineFunding
    <2>1. UNCHANGED <<held, tear, iteration, txs>> /\ Credit(Alone, case.to, RequiredFunding)
        BY <1>1 DEF MineFunding
    <2>2. case'.receivers = case.receivers /\ case'.pc = case.pc
        BY <1>0, <1>1 DEF MineFunding, Case
    <2>3. RequiredFunding \in Nat
        BY Counts, MultipleReceiverAssumption DEF RequiredFunding
    <2>4. AccountsTypeOK'
        BY <1>0, <2>1, <2>3, Counts, BalancesTyped DEF AccountsTypeOK
    <2> QED BY <1>0, <2>1, <2>2, <2>4, Untouched
<1>2. CASE MineTransfer
    <2>1. UNCHANGED <<held, tear, iteration, case, txs>>
        BY <1>2 DEF MineTransfer, scenarioVars
    <2>2. PICK r \in chain' \ chain :
              IF r.ok
              THEN /\ bal[Alone][FromShard] > Amount
                   /\ IF Destination = FromShard THEN Transfer(Alone, r.tx.to, FromShard, Amount)
                      ELSE bal' = [bal EXCEPT ![Alone][FromShard] = @ - Amount,
                                              ![r.tx.to][Destination] = @ + Amount]
              ELSE UNCHANGED bal
        BY <1>2 DEF MineTransfer
    <2>3. /\ r.tx.to \in Many /\ Amount \in Nat /\ FromShard \in Shards
          /\ r.tx.to \in TestAccountIds /\ Alone \in TestAccountIds /\ r.tx.to # Alone
        BY <1>0, <2>2, Counts, MultipleReceiverAssumption DEF LedgerTypeOK, Receipt, Transaction
    <2> DEFINE payee == r.tx.to
    <2> HIDE DEF payee
    <2>4. bal' \in [TestAccountIds -> [Shards -> Nat]]
        <3>1. CASE Transfer(Alone, payee, FromShard, Amount) /\ bal[Alone][FromShard] > Amount
            <4>1. bal[Alone][FromShard] >= Amount
                BY <1>0, <2>3, <3>1
            <4> QED BY <1>0, <2>3, <3>1, <4>1, BalancesTyped DEF payee
        <3>2. CASE /\ bal[Alone][FromShard] > Amount
                   /\ bal' = [bal EXCEPT ![Alone][FromShard] = @ - Amount, ![payee][Destination] = @ + Amount]
            <4> DEFINE sent == [bal[Alone] EXCEPT ![FromShard] = @ - Amount]
                       received == [bal[payee] EXCEPT ![Destination] = @ + Amount]
            <4>1. sent \in [Shards -> Nat] /\ received \in [Shards -> Nat]
                BY <1>0, <2>3, <3>2 DEF payee
            <4>2. bal' = [bal EXCEPT ![Alone] = sent, ![payee] = received]
                BY <1>0, <2>3, <3>2 DEF payee
            <4> HIDE DEF sent, received
            <4> QED BY <1>0, <2>3, <4>1, <4>2 DEF payee
        <3>3. CASE UNCHANGED bal
            BY <1>0, <3>3
        <3> QED BY <2>2, <3>1, <3>2, <3>3 DEF payee
    <2>5. AccountsTypeOK'
        BY <1>0, <2>1, <2>4 DEF AccountsTypeOK
    <2> QED BY <1>0, <2>1, <2>5, Untouched
<1>3. CASE EvictTransfer
    <2>1. UNCHANGED <<accountVars, tear, iteration, case, txs>>
        BY <1>3 DEF EvictTransfer, accountVars, scenarioVars
    <2>2. AccountsTypeOK'
        BY <1>0, <2>1 DEF accountVars, AccountsTypeOK
    <2> QED BY <1>0, <2>1, <2>2, Untouched
<1> QED BY <1>1, <1>2, <1>3 DEF ChainStep

\* The type invariant: no balance falls below zero, the channel of the responses
\* holds no more than it was made for, and no teardown looks past its list.
THEOREM TypeCorrect == Spec => []TypeOK
<1>1. Init => TeardownInv
    BY TeardownInit
<1>2. SlotInv /\ SlotInv' /\ TeardownInv /\ [Next]_vars => TeardownInv'
    <2> SUFFICES ASSUME SlotInv, SlotInv', TeardownInv, [Next]_vars PROVE TeardownInv'
        OBVIOUS
    <2>1. CASE UNCHANGED vars
        BY <2>1 DEF vars, accountVars, scenarioVars, TeardownInv, AccountsTypeOK
    <2> QED BY <2>1, MainTyped, TearTyped, WorkerTyped, ChainTyped DEF Next, Stopped
<1>3. SlotInv /\ TeardownInv => TypeOK
    <2> SUFFICES ASSUME SlotInv, TeardownInv PROVE TypeOK
        OBVIOUS
    <2>1. iteration \in 0 .. ReceiverCount
        <3>1. Len(case.receivers) \in Nat
            BY DEF SlotInv, Typed, Case
        <3> QED BY <3>1, Counts DEF TeardownInv
    <2> QED BY <2>1 DEF SlotInv, Typed, TeardownInv, TypeOK
<1> QED BY <1>1, <1>2, <1>3, SlotInvariant, PTL DEF Spec
====
