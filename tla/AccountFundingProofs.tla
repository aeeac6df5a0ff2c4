---- MODULE AccountFundingProofs ----
(***************************************************************************)
(* AccountFunding for any number of batches, accounts, attempts and any    *)
(* gas price.  FundingInv is inductive: that an account is paid at most    *)
(* once and that receipts follow the order of the accounts are read off    *)
(* from it.  With WaitGroupInv and ChannelInv, which count the goroutines  *)
(* and what they hand out, it shows that the batch implements              *)
(* FundingPromise.                                                         *)
(***************************************************************************)
EXTENDS AccountFunding, FiniteSetTheorems, TLAPS

\* Abbreviation for the proofs: everything the named parts are made of.
\* The accounts are the pairs of a batch and an index below the batch's count.
LEMMA AccountsArePairs ==
    /\ \A p \in Payments : /\ p = <<p[1], p[2]>>
                           /\ p[1] \in 1 .. Batches /\ p[2] \in 0 .. Count[p[1]] - 1
    /\ \A b \in 1 .. Batches : Count[b] \in Nat /\ \A i \in 0 .. Count[b] - 1 : <<b, i>> \in Payments
<1>1. \A p \in Payments : /\ p = <<p[1], p[2]>>
                         /\ p[1] \in 1 .. Batches /\ p[2] \in 0 .. Count[p[1]] - 1
    <2> SUFFICES ASSUME NEW b \in 1 .. Batches, NEW p \in {b} \X (0 .. Count[b] - 1)
                 PROVE  p = <<p[1], p[2]>> /\ p[1] \in 1 .. Batches /\ p[2] \in 0 .. Count[p[1]] - 1
        BY AccountFundingAssumption DEF Accounts
    <2> QED OBVIOUS
<1>2. \A b \in 1 .. Batches : Count[b] \in Nat /\ \A i \in 0 .. Count[b] - 1 : <<b, i>> \in Payments
    BY AccountFundingAssumption DEF Accounts
<1> QED BY <1>1, <1>2

USE AccountsArePairs

\* The nonce the node answers with is a natural number.
LEMMA CurrentNoncesNat ==
    ASSUME LedgerTypeOK, NEW s \in Senders
    PROVE  CurrentNonces(s) \subseteq Nat
BY DEF CurrentNonces, LedgerTypeOK

LEMMA InitInv == Init => FundingInv
<1> SUFFICES ASSUME Init PROVE FundingInv
    OBVIOUS
<1> USE FundingTransactionAssumption, AccountFundingAssumption, LedgerAssumption
<1>1. LedgerTypeOK
    BY DEF Init, LedgerInit, LedgerTypeOK
<1>2. CallTypeOK
    <2> DEFINE anySender == CHOOSE s \in Senders : TRUE
               frame == [pc |-> "idle", from |-> anySender, given |-> -1, nonce |-> 0,
                         attempts |-> Attempts, gasPrice |-> GasPrice]
    <2>1. anySender \in Senders
        OBVIOUS
    <2>2. call = [p \in Payments |-> frame] /\ exited = FALSE
        BY DEF Init, CallInit
    <2> HIDE DEF anySender
    <2>3. frame \in Frame
        BY <2>1 DEF Frame, CallPC
    <2> QED BY <2>2, <2>3 DEF CallTypeOK
<1>3. TypeOK
    BY <1>1, <1>2 DEF Init, TypeOK, Main, MainPC, WorkerPC
<1>4. SpawnedInTurn /\ FramesKept
    BY DEF Init, CallInit, SpawnedInTurn, FramesKept
<1>5. SentInOwnSlot /\ ReceiptsUnique
    BY DEF Init, LedgerInit, SentInOwnSlot, ReceiptsUnique
<1>6. NoncesFollowIndex
    BY DEF Init, NoncesFollowIndex
<1> QED BY <1>3, <1>4, <1>5, <1>6 DEF FundingInv

\* A step that only rewrites the frame of a running call, and keeps the nonce
\* it was given, keeps what the invariant says of frames.
LEMMA FrameStep ==
    ASSUME FundingInv, NEW p \in Payments, NEW f \in Frame,
           worker[p] = "pay", call' = [call EXCEPT ![p] = f],
           f.given = call[p].given,
           f.pc \in {"send", "receipt"} => f.attempts > 0 /\ f.nonce = f.given,
           exited' \in BOOLEAN, UNCHANGED batchVars
    PROVE  /\ CallTypeOK' /\ SpawnedInTurn' /\ FramesKept' /\ NoncesFollowIndex'
           /\ \A q \in Payments : call'[q].given = call[q].given
<1> USE DEF FundingInv, TypeOK, CallTypeOK, batchVars
<1>1. CallTypeOK'
    OBVIOUS
<1>2. \A q \in Payments : call'[q].given = call[q].given
    OBVIOUS
<1>3. SpawnedInTurn'
    BY DEF SpawnedInTurn
<1>4. FramesKept'
    BY DEF FramesKept
<1>5. NoncesFollowIndex'
    BY <1>2 DEF NoncesFollowIndex
<1> QED BY <1>1, <1>2, <1>3, <1>4, <1>5

\* The ledger accepts a transaction of a running call that sits in its slot.
LEMMA AcceptStep ==
    ASSUME FundingInv, NEW p \in Payments, NEW t, t = TxOf(p), Accept(t), worker[p] = "pay",
           call[p].pc = "send", UNCHANGED batchVars,
           \A q \in Payments : call'[q].given = call[q].given
    PROVE  LedgerTypeOK' /\ SentInOwnSlot' /\ ReceiptsUnique'
<1> USE DEF FundingInv, TypeOK, LedgerTypeOK, batchVars
<1>1. t \in Transaction /\ t.to = p /\ t.nonce = call[p].given
    BY DEF TxOf, Transaction, CallTypeOK, Frame, FramesKept
<1>2. /\ pool' \subseteq pool \cup {t}
      /\ mined' = mined /\ chain' = chain
    BY DEF Accept
<1>3. LedgerTypeOK'
    BY <1>1, <1>2
<1>4. OwnSlot(t)'
    BY <1>1 DEF OwnSlot
<1>5. \A u \in Transaction : OwnSlot(u) => OwnSlot(u)'
    BY DEF OwnSlot, Transaction
<1>6. SentInOwnSlot'
    BY <1>2, <1>4, <1>5 DEF SentInOwnSlot, Receipt
<1>7. ReceiptsUnique'
    BY <1>2 DEF ReceiptsUnique
<1> QED BY <1>3, <1>6, <1>7

\* A step of the process that leaves the ledger alone.
LEMMA LedgerUntouched ==
    ASSUME FundingInv, UNCHANGED ledgerVars,
           \A q \in Payments : (worker[q] \notin {"unborn", "generate"}) =>
               /\ worker'[q] \notin {"unborn", "generate"}
               /\ call'[q].given = call[q].given
    PROVE  LedgerTypeOK' /\ SentInOwnSlot' /\ ReceiptsUnique'
<1> USE DEF FundingInv, TypeOK, ledgerVars
<1>1. LedgerTypeOK'
    BY DEF LedgerTypeOK
<1>2. \A u \in Transaction : OwnSlot(u) => OwnSlot(u)'
    BY DEF OwnSlot, Transaction
<1>3. SentInOwnSlot'
    BY <1>2 DEF SentInOwnSlot, LedgerTypeOK, Receipt
<1>4. ReceiptsUnique'
    BY DEF ReceiptsUnique
<1> QED BY <1>1, <1>3, <1>4

\* The types of the ledger and of the frames when a step leaves both alone.
LEMMA TypesKept ==
    ASSUME TypeOK, UNCHANGED <<ledgerVars, callVars>>
    PROVE  LedgerTypeOK' /\ CallTypeOK'
BY DEF TypeOK, LedgerTypeOK, CallTypeOK, ledgerVars, callVars

\* Whatever the chain does, every receipt stays in the slot of its account and
\* no nonce is consumed twice.
LEMMA LedgerInv == FundingInv /\ LedgerStep => FundingInv'
<1> SUFFICES ASSUME FundingInv, LedgerStep PROVE FundingInv'
    OBVIOUS
<1> USE DEF FundingInv, LedgerStep, LedgerNext, callVars, batchVars
<1>1. SpawnedInTurn' /\ FramesKept' /\ NoncesFollowIndex'
    BY DEF SpawnedInTurn, FramesKept, NoncesFollowIndex
<1>2. \A u : OwnSlot(u)' <=> OwnSlot(u)
    BY DEF OwnSlot
<1>3. CASE Evict
    <2>1. LedgerTypeOK'
        BY <1>3 DEF Evict, TypeOK, LedgerTypeOK
    <2>2. SentInOwnSlot' /\ ReceiptsUnique'
        BY <1>2, <1>3 DEF Evict, SentInOwnSlot, ReceiptsUnique
    <2> QED BY <1>1, <2>1, <2>2 DEF TypeOK, CallTypeOK
<1>4. CASE Mine
    <2>1. PICK t \in pool, ok \in BOOLEAN :
              /\ t.nonce = mined[t.from]
              /\ pool' = pool \ {t}
              /\ mined' = [mined EXCEPT ![t.from] = @ + 1]
              /\ chain' = chain \cup {[tx |-> t, ok |-> ok]}
        BY <1>4 DEF Mine, MineTransaction
    <2>2. t \in Transaction /\ t.from \in Senders /\ mined \in [Senders -> Nat]
        BY DEF TypeOK, LedgerTypeOK, Transaction
    <2>3. LedgerTypeOK'
        BY <2>1, <2>2 DEF TypeOK, LedgerTypeOK, Receipt
    <2>4. SentInOwnSlot'
        BY <1>2, <2>1 DEF SentInOwnSlot
    <2>5. \A r \in chain : r.tx.from \in Senders /\ r.tx.nonce \in Nat
        BY DEF TypeOK, LedgerTypeOK, Receipt, Transaction
    <2>6. \A r \in chain : r.tx.nonce < mined'[r.tx.from] /\ ~SameSlot(r.tx, t)
        BY <2>1, <2>2, <2>5 DEF ReceiptsUnique, SameSlot
    <2>7. t.nonce < mined'[t.from]
        BY <2>1, <2>2
    <2>8. ReceiptsUnique'
        BY <2>1, <2>6, <2>7 DEF ReceiptsUnique, SameSlot
    <2> QED BY <1>1, <2>3, <2>4, <2>8 DEF TypeOK, CallTypeOK
<1> QED BY <1>3, <1>4

\* Every step of PerformFundingTransaction: an attempt, explicit nonce and
\* all, stays in the slot of its account.
LEMMA PayInv == ASSUME FundingInv, NEW p \in Payments, Pay(p) PROVE FundingInv'
<1> USE FundingTransactionAssumption
<1> USE DEF CallPC, ReturnedNil, Returned
<1>0. /\ worker[p] = "pay" /\ UNCHANGED batchVars
      /\ call \in [Payments -> Frame] /\ exited \in BOOLEAN
      /\ call[p] \in Frame /\ call[p].given \in Nat
      /\ call[p].pc \in {"send", "receipt"} =>
            call[p].attempts > 0 /\ call[p].nonce = call[p].given
    BY DEF Pay, FundingInv, TypeOK, CallTypeOK, FramesKept
\* The frames a step may leave behind.
<1> DEFINE Moved(f) == /\ f \in Frame /\ f.given = call[p].given
                       /\ f.pc \in {"send", "receipt"} =>
                             f.attempts > 0 /\ f.nonce = f.given
<1>1. ASSUME NEW pc \in CallPC, Goto(p, pc),
             pc \in {"send", "receipt"} => call[p].pc \in {"send", "receipt"}
      PROVE  \E f : Moved(f) /\ call' = [call EXCEPT ![p] = f]
    <2>1. call' = [call EXCEPT ![p] = [call[p] EXCEPT !.pc = pc]]
        BY <1>0, <1>1 DEF Goto
    <2>2. Moved([call[p] EXCEPT !.pc = pc])
        BY <1>0, <1>1 DEF Frame
    <2> QED BY <2>1, <2>2
<1>2. ASSUME NEW price \in Nat, Retry(p, price), call[p].attempts > 0
      PROVE  \E f : Moved(f) /\ call' = [call EXCEPT ![p] = f]
    <2> DEFINE f == [call[p] EXCEPT !.pc = "loop", !.attempts = call[p].attempts - 1,
                                   !.gasPrice = price]
    <2>1. call' = [call EXCEPT ![p] = f]
        BY <1>0, <1>2, TypesKept DEF Retry
    <2>2. call[p].attempts - 1 \in 0 .. Attempts
        BY <1>0, <1>2, TypesKept DEF Frame
    <2>3. f \in Frame
        BY <1>0, <1>2, <2>2 DEF Frame
    <2>4. f.given = call[p].given /\ f.pc = "loop"
        BY <1>0 DEF Frame
    <2> QED BY <2>1, <2>3, <2>4
<1>3. call[p].gasPrice \in Nat /\ BumpGasPrice(call[p].gasPrice) \in Nat
    BY <1>0 DEF Frame, BumpGasPrice
<1>4. ASSUME \E f : Moved(f) /\ call' = [call EXCEPT ![p] = f], exited' \in BOOLEAN
      PROVE  /\ CallTypeOK' /\ SpawnedInTurn' /\ FramesKept' /\ NoncesFollowIndex'
             /\ \A q \in Payments : call'[q].given = call[q].given
    BY <1>0, <1>4, FrameStep
<1>5. ASSUME UNCHANGED ledgerVars, exited' \in BOOLEAN,
             \E f : Moved(f) /\ call' = [call EXCEPT ![p] = f]
      PROVE  FundingInv'
    <2>1. LedgerTypeOK' /\ SentInOwnSlot' /\ ReceiptsUnique'
        BY <1>0, <1>4, <1>5, LedgerUntouched DEF batchVars
    <2> QED BY <1>0, <1>4, <1>5, <2>1 DEF FundingInv, TypeOK, batchVars
<1>6. ASSUME Accept(TxOf(p)), call[p].pc = "send", exited' = exited,
             \E f : Moved(f) /\ call' = [call EXCEPT ![p] = f]
      PROVE  FundingInv'
    <2>1. LedgerTypeOK' /\ SentInOwnSlot' /\ ReceiptsUnique'
        BY <1>0, <1>4, <1>6, AcceptStep
    <2> QED BY <1>0, <1>4, <1>6, <2>1 DEF FundingInv, TypeOK, batchVars
<1> HIDE DEF Moved
<1>7. CASE GiveUp(p)
    BY <1>0, <1>1, <1>5, <1>7 DEF GiveUp
<1>8. CASE Prepare(p)
    <2>1. CASE RetrySamePrice(p)
        BY <1>0, <1>2, <1>3, <1>5, <1>8, <2>1 DEF Prepare, RetrySamePrice
    <2>2. CASE \E n \in ResolvedNonces(p) :
                 call' = [call EXCEPT ![p] = [call[p] EXCEPT !.pc = "send", !.nonce = n]]
        <3>0. ResolvedNonces(p) = {call[p].given}
            BY <1>0 DEF ResolvedNonces
        <3>1. call' = [call EXCEPT ![p] = [call[p] EXCEPT !.pc = "send",
                                                       !.nonce = call[p].given]]
            BY <2>2, <3>0
        <3>2. Moved([call[p] EXCEPT !.pc = "send", !.nonce = call[p].given])
            BY <1>0, <1>8 DEF Moved, Frame, Prepare
        <3> QED BY <1>0, <1>5, <1>8, <3>1, <3>2 DEF Prepare
    <2> QED BY <1>8, <2>1, <2>2 DEF Prepare
<1>9. CASE SendAccepted(p)
    BY <1>0, <1>1, <1>6, <1>9 DEF SendAccepted
<1>10. CASE SendAnswerLost(p)
    BY <1>0, <1>2, <1>3, <1>6, <1>10 DEF SendAnswerLost, RetrySamePrice
<1>11. CASE SendUnderpriced(p)
    BY <1>0, <1>2, <1>3, <1>5, <1>11 DEF SendUnderpriced, RetryHigherPrice
<1>12. CASE SendRefused(p)
    BY <1>0, <1>2, <1>3, <1>5, <1>12 DEF SendRefused, RetrySamePrice
<1>13. CASE SendInsufficient(p)
    BY <1>0, <1>1, <1>5, <1>13 DEF SendInsufficient
<1>14. CASE SendMissingAccount(p)
    <2>1. call' = [call EXCEPT ![p] = call[p]] /\ Moved(call[p])
        BY <1>0, <1>14 DEF SendMissingAccount, Moved
    <2> QED BY <1>5, <1>14, <2>1 DEF SendMissingAccount
<1>15. CASE ReceiptSuccessful(p)
    BY <1>0, <1>1, <1>5, <1>15 DEF ReceiptSuccessful
<1>16. CASE ReceiptUnsuccessful(p)
    BY <1>0, <1>2, <1>3, <1>5, <1>16 DEF ReceiptUnsuccessful, RetryHigherPrice
<1> QED BY <1>7, <1>8, <1>9, <1>10, <1>11, <1>12, <1>13, <1>14, <1>15, <1>16
        DEF Pay, CallStep, Send, AwaitReceipt

\* The steps of a goroutine around the call leave nonces and frames alone,
\* except that Generate enters the call with the nonce it was spawned with.
LEMMA WorkerInv == ASSUME FundingInv, NEW p \in Payments, WorkerStep(p) PROVE FundingInv'
<1> USE AccountFundingAssumption, FundingTransactionAssumption
<1>0. /\ p[1] \in 1 .. Batches /\ p[2] \in Nat
      /\ worker \in [Payments -> WorkerPC] /\ call \in [Payments -> Frame]
      /\ TypeOK /\ call[p] \in Frame
    BY DEF FundingInv, TypeOK, CallTypeOK
<1>1. ASSUME UNCHANGED <<ledgerVars, callVars, main>>, TypeOK',
             NEW pc \in WorkerPC \ {"unborn", "generate"}, worker[p] # "unborn",
             worker' = [worker EXCEPT ![p] = pc]
      PROVE  FundingInv'
    <2>1. LedgerTypeOK' /\ SentInOwnSlot' /\ ReceiptsUnique'
        BY <1>0, <1>1, LedgerUntouched DEF callVars
    <2>2. SpawnedInTurn' /\ FramesKept' /\ NoncesFollowIndex'
        BY <1>0, <1>1 DEF FundingInv, callVars, SpawnedInTurn, FramesKept, NoncesFollowIndex
    <2> QED BY <1>1, <2>1, <2>2 DEF FundingInv
<1>2. CASE GenerateFails(p)
    <2>1. TypeOK'
        BY <1>0, <1>2, TypesKept DEF GenerateFails, TypeOK, WorkerPC
    <2> QED BY <1>1, <1>2, <2>1 DEF GenerateFails, WorkerPC
<1>3. CASE Generate(p)
    <2> DEFINE pc == IF main.positive THEN "loop" ELSE "skipped"
               f == [pc |-> pc, from |-> FundingAccount, given |-> call[p].given, nonce |-> 0,
                     attempts |-> Attempts, gasPrice |-> GasPrice]
    <2>1. call' = [call EXCEPT ![p] = f]
        BY <1>3 DEF Generate, Enter
    <2>2. f \in Frame
        <3>1. pc \in CallPC
            BY DEF CallPC, Returned, ReturnedNil
        <3>2. call[p].given \in Int
            BY <1>0 DEF Frame
        <3> QED BY <3>1, <3>2 DEF Frame
    <2>3. f.given = call[p].given /\ f.pc \notin {"send", "receipt", "idle"}
        OBVIOUS
    <2> HIDE DEF f
    <2>4. TypeOK'
        BY <1>0, <1>3, <2>1, <2>2
           DEF Generate, TypeOK, LedgerTypeOK, CallTypeOK, ledgerVars, WorkerPC
    <2>5. \A q \in Payments : call'[q].given = call[q].given
        BY <1>0, <2>1, <2>3
    <2>6. LedgerTypeOK' /\ SentInOwnSlot' /\ ReceiptsUnique'
        BY <1>0, <1>3, <2>5, LedgerUntouched DEF Generate
    <2>7. SpawnedInTurn' /\ NoncesFollowIndex'
        BY <1>0, <1>3, <2>5 DEF Generate, FundingInv, SpawnedInTurn, NoncesFollowIndex
    <2>8. FramesKept'
        BY <1>0, <1>3, <2>1, <2>3 DEF Generate, FundingInv, FramesKept
    <2> QED BY <2>4, <2>6, <2>7, <2>8 DEF FundingInv
<1>4. CASE Pay(p)
    BY <1>4, PayInv
<1>5. CASE PayReturns(p)
    <2>1. TypeOK'
        BY <1>0, <1>5, TypesKept DEF PayReturns, TypeOK, WorkerPC
    <2> QED BY <1>1, <1>5, <2>1 DEF PayReturns, WorkerPC
<1>6. CASE Push(p)
    <2>1. Append(channel[p[1]], p) \in Seq(Payments)
        BY <1>0 DEF TypeOK
    <2>2. TypeOK'
        BY <1>0, <1>6, <2>1, TypesKept
           DEF Push, TypeOK, WorkerPC
    <2> QED BY <1>1, <1>6, <2>2 DEF Push, WorkerPC
<1>7. CASE Done(p)
    <2>1. TypeOK'
        <3>1. LedgerTypeOK' /\ CallTypeOK'
            BY <1>0, <1>7, TypesKept DEF Done
        <3>2. waitGroup' \in [1 .. Batches -> Int]
            BY <1>0, <1>7 DEF Done, TypeOK
        <3>3. worker' \in [Payments -> WorkerPC]
            BY <1>0, <1>7 DEF Done, WorkerPC
        <3> QED BY <1>0, <1>7, <3>1, <3>2, <3>3 DEF Done, TypeOK
    <2> QED BY <1>1, <1>7, <2>1 DEF Done, WorkerPC
<1> QED BY <1>2, <1>3, <1>4, <1>5, <1>6, <1>7 DEF WorkerStep

\* The caller: a batch hands out consecutive nonces, in the order it spawns.
LEMMA MainInv == FundingInv /\ MainStep => FundingInv'
<1> SUFFICES ASSUME FundingInv, MainStep PROVE FundingInv'
    OBVIOUS
<1> USE AccountFundingAssumption
<1>0. /\ TypeOK /\ main \in Main /\ call \in [Payments -> Frame]
      /\ worker \in [Payments -> WorkerPC]
    BY DEF FundingInv, TypeOK, CallTypeOK
<1>1. ASSUME UNCHANGED <<ledgerVars, callVars, worker>>, TypeOK',
             \/ main'.batch = main.batch /\ main'.index = main.index /\ main'.nonce = main.nonce
             \/ main'.batch = main.batch + 1,
             main'.pc # "idle" => main'.batch > 0
      PROVE  FundingInv'
    <2>1. LedgerTypeOK' /\ SentInOwnSlot' /\ ReceiptsUnique'
        BY <1>1, LedgerUntouched DEF callVars
    <2>2. FramesKept'
        BY <1>1 DEF FundingInv, callVars, FramesKept
    <2>3. \A p \in Payments : p[1] \in Int /\ p[2] \in Int
        OBVIOUS
    <2>4. main.batch \in Int /\ main.index \in Int
        BY <1>0 DEF Main
    <2>5. SpawnedInTurn'
        BY <1>1, <2>3, <2>4 DEF FundingInv, SpawnedInTurn
    <2>6. \A p \in Payments : worker[p] # "unborn" => p[1] <= main.batch
        BY <2>3, <2>4 DEF FundingInv, SpawnedInTurn
    <2>7. CASE main'.batch = main.batch + 1
        BY <1>1, <2>1, <2>2, <2>3, <2>4, <2>5, <2>6, <2>7
           DEF FundingInv, callVars, NoncesFollowIndex
    <2>8. CASE main'.batch = main.batch /\ main'.index = main.index /\ main'.nonce = main.nonce
        BY <1>1, <2>1, <2>2, <2>5, <2>8 DEF FundingInv, callVars, NoncesFollowIndex
    <2> QED BY <1>1, <2>7, <2>8
<1>2. CASE Refuse
    <2>1. TypeOK'
        <3>1. LedgerTypeOK' /\ CallTypeOK'
            BY <1>0, <1>2, TypesKept DEF Refuse
        <3>2. main.batch + 1 \in 0 .. Batches
            BY <1>0, <1>2 DEF Refuse, Main
        <3>3. main' \in Main
            BY <1>0, <1>2, <3>2 DEF Refuse, Main
        <3> QED BY <1>0, <1>2, <3>1, <3>3 DEF Refuse, TypeOK
    <2> QED BY <1>0, <1>1, <1>2, <2>1 DEF Refuse, Main, FundingInv, SpawnedInTurn
<1>3. CASE Start
    <2>1. PICK n \in CurrentNonces(FundingAccount), positive \in BOOLEAN :
              main' = [pc |-> "spawn", batch |-> main.batch + 1, index |-> 0, nonce |-> n,
                       positive |-> positive]
        BY <1>3 DEF Start
    <2>2. n \in Nat
        BY <1>0, CurrentNoncesNat DEF TypeOK
    <2>3. TypeOK'
        <3>1. LedgerTypeOK' /\ CallTypeOK'
            BY <1>0, <1>3, TypesKept DEF Start
        <3>2. main.batch + 1 \in 0 .. Batches
            BY <1>0, <1>3 DEF Start, Main
        <3>3. main' \in Main
            BY <2>1, <2>2, <3>2 DEF Main, MainPC
        <3> QED BY <1>0, <1>3, <3>1, <3>3 DEF Start, TypeOK
    <2> QED BY <1>0, <1>1, <1>3, <2>1, <2>3 DEF Start, Main
<1>4. CASE Spawn
    <2> DEFINE p == <<main.batch, main.index>>
    <2>1. /\ main.batch \in 1 .. Batches /\ main.index \in 0 .. Count[main.batch] - 1 /\ main.nonce \in Nat
          /\ p \in Payments
        BY <1>0, <1>4 DEF Spawn, Main, FundingInv, SpawnedInTurn
    <2>2. worker[p] = "unborn" /\ call[p].pc = "idle"
        BY <2>1 DEF FundingInv, SpawnedInTurn, FramesKept
    <2>3. \A q \in Payments : q[1] \in Int /\ q[2] \in Int /\ q = <<q[1], q[2]>>
        OBVIOUS
    <2>4. /\ worker' = [worker EXCEPT ![p] = "generate"]
          /\ call' = [call EXCEPT ![p] = [call[p] EXCEPT !.given = main.nonce]]
          /\ main' = [main EXCEPT !.index = main.index + 1, !.nonce = main.nonce + 1]
          /\ UNCHANGED <<ledgerVars, exited>>
        BY <1>4 DEF Spawn
    <2> HIDE DEF p
    <2>5. [call[p] EXCEPT !.given = main.nonce] \in Frame
        <3>1. call[p] \in Frame /\ main.nonce \in Int
            BY <1>0, <2>1
        <3> QED BY <3>1 DEF Frame
    <2>6. TypeOK'
        <3>1. CallTypeOK' /\ LedgerTypeOK'
            BY <1>0, <2>4, <2>5 DEF TypeOK, CallTypeOK, LedgerTypeOK, ledgerVars
        <3>2. main' \in Main /\ worker' \in [Payments -> WorkerPC]
            <4>1. main.index + 1 \in Nat /\ main.nonce + 1 \in Nat
                BY <2>1
            <4>2. main' \in Main
                BY <1>0, <2>4, <4>1 DEF Main
            <4> QED BY <1>0, <2>4, <4>2 DEF WorkerPC
        <3> QED BY <1>0, <1>4, <3>1, <3>2 DEF TypeOK, Spawn
    <2>7. \A q \in Payments : q # p => call'[q] = call[q] /\ worker'[q] = worker[q]
        BY <1>0, <2>4
    <2>8. /\ call'[p].given = main.nonce /\ call'[p].pc = "idle" /\ worker'[p] = "generate"
          /\ main'.batch = main.batch /\ main'.pc = main.pc
          /\ main'.index = main.index + 1 /\ main'.nonce = main.nonce + 1
        BY <1>0, <2>1, <2>2, <2>4 DEF Frame, Main
    <2>9. LedgerTypeOK' /\ SentInOwnSlot' /\ ReceiptsUnique'
        BY <2>2, <2>4, <2>7, LedgerUntouched
    <2>10. SpawnedInTurn'
        BY <2>1, <2>3, <2>7, <2>8 DEF p, FundingInv, SpawnedInTurn
    <2>11. FramesKept'
        BY <2>1, <2>7, <2>8 DEF FundingInv, FramesKept
    <2>12. \A q \in Payments : (worker[q] # "unborn" /\ q[1] = main.batch) =>
                call[q].given - q[2] = main.nonce - main.index
        BY DEF FundingInv, NoncesFollowIndex
    <2>13. \A q \in Payments : (worker'[q] # "unborn" /\ q[1] = main.batch) =>
                call'[q].given - q[2] = main.nonce - main.index
        BY <2>1, <2>7, <2>8, <2>12 DEF p
    <2>14. NoncesFollowIndex'
        <3>1. \A q, r \in Payments :
                  (worker'[q] # "unborn" /\ worker'[r] # "unborn" /\ q[1] = r[1]) =>
                      call'[q].given - q[2] = call'[r].given - r[2]
            <4> SUFFICES ASSUME NEW q \in Payments, NEW r \in Payments,
                                worker'[q] # "unborn", worker'[r] # "unborn", q[1] = r[1]
                         PROVE  call'[q].given - q[2] = call'[r].given - r[2]
                OBVIOUS
            <4>1. CASE q[1] = main.batch
                BY <2>13, <4>1
            <4>2. CASE q[1] # main.batch
                <5>1. q # p /\ r # p
                    BY <4>2 DEF p
                <5>2. /\ worker[q] # "unborn" /\ worker[r] # "unborn"
                      /\ call'[q].given = call[q].given /\ call'[r].given = call[r].given
                    BY <2>7, <5>1
                <5> QED BY <5>2 DEF FundingInv, NoncesFollowIndex
            <4> QED BY <4>1, <4>2
        <3>2. \A q \in Payments : (worker'[q] # "unborn" /\ q[1] = main'.batch) =>
                  call'[q].given - q[2] = main'.nonce - main'.index
            <4>1. main.index \in Int /\ main.nonce \in Int
                BY <2>1
            <4>2. main'.nonce - main'.index = main.nonce - main.index
                BY <2>8, <4>1
            <4> QED BY <2>8, <2>13, <4>2
        <3> QED BY <3>1, <3>2 DEF NoncesFollowIndex
    <2> QED BY <2>6, <2>9, <2>10, <2>11, <2>14 DEF FundingInv
<1>5. CASE Close
    <2>1. TypeOK'
        BY <1>0, <1>5, TypesKept DEF Close, TypeOK, Main, MainPC
    <2> QED BY <1>0, <1>1, <1>5, <2>1 DEF Close, Main, FundingInv, SpawnedInTurn
<1>6. CASE Collect
    <2>1. TypeOK'
        <3>1. LedgerTypeOK' /\ CallTypeOK'
            BY <1>0, <1>6, TypesKept DEF Collect
        <3>2. main' \in Main /\ main.batch \in 0 .. Batches
            BY <1>0, <1>6 DEF Collect, Main, MainPC
        <3>3. /\ channel' \in [1 .. Batches -> Seq(Payments)]
              /\ accs' \in [1 .. Batches -> Seq(Payments)]
            <4>1. main.batch \in 1 .. Batches
                BY <1>0, <1>6, <3>2 DEF Collect, FundingInv, SpawnedInTurn
            <4>2. channel[main.batch] \in Seq(Payments) /\ <<>> \in Seq(Payments)
                BY <1>0, <4>1 DEF TypeOK
            <4> QED BY <1>0, <1>6, <4>2 DEF Collect, TypeOK
        <3> QED BY <1>0, <1>6, <3>1, <3>2, <3>3 DEF Collect, TypeOK
    <2> QED BY <1>0, <1>1, <1>6, <2>1 DEF Collect, Main, FundingInv, SpawnedInTurn
<1> QED BY <1>2, <1>3, <1>4, <1>5, <1>6 DEF MainStep

LEMMA StepInv == FundingInv /\ [Next]_vars => FundingInv'
<1> SUFFICES ASSUME FundingInv, [Next]_vars PROVE FundingInv'
    OBVIOUS
<1>1. CASE UNCHANGED vars
    <2>1. /\ UNCHANGED <<ledgerVars, callVars, batchVars>>
          /\ \A u : OwnSlot(u)' <=> OwnSlot(u)
        BY <1>1 DEF vars, OwnSlot, callVars, batchVars
    <2>2. TypeOK'
        BY <2>1, TypesKept DEF FundingInv, TypeOK, batchVars
    <2>3. SentInOwnSlot' /\ ReceiptsUnique'
        BY <2>1 DEF FundingInv, SentInOwnSlot, ReceiptsUnique, ledgerVars
    <2>4. SpawnedInTurn' /\ FramesKept' /\ NoncesFollowIndex'
        BY <2>1 DEF FundingInv, SpawnedInTurn, FramesKept, NoncesFollowIndex, callVars, batchVars
    <2> QED BY <2>2, <2>3, <2>4 DEF FundingInv
<1>2. CASE MainStep
    BY <1>2, MainInv
<1>3. CASE \E p \in Payments : WorkerStep(p)
    BY <1>3, WorkerInv
<1>4. CASE LedgerStep
    BY <1>4, LedgerInv
<1> QED BY <1>1, <1>2, <1>3, <1>4 DEF Next, Stopped

\* FundingInv holds in every state, for every size of batch and retry budget.
THEOREM FundingInvariant == Spec => []FundingInv
<1>1. Init => FundingInv
    BY InitInv
<1>2. FundingInv /\ [Next]_vars => FundingInv'
    BY StepInv
<1> QED BY <1>1, <1>2, PTL DEF Spec

\* Type correctness of the ledger, the retry loops and the batch.
THEOREM TypeCorrect == Spec => []TypeOK
<1>1. FundingInv => TypeOK
    BY DEF FundingInv
<1> QED BY <1>1, FundingInvariant, PTL

\* No account generateAndFundAccount pays is ever paid twice, however many
\* times PerformFundingTransaction sends again and whatever the node loses,
\* delays or evicts: two receipts for it would sit in one slot.
THEOREM PaysAtMostOnce == Spec => []PaidAtMostOnce
<1>1. FundingInv => PaidAtMostOnce
    <2> SUFFICES ASSUME FundingInv, NEW p \in Payments, NEW r \in PaidBy(p), NEW s \in PaidBy(p)
                 PROVE  r = s
        BY DEF PaidAtMostOnce
    <2>1. r \in chain /\ s \in chain /\ r.tx.to = p /\ s.tx.to = p
        BY DEF PaidBy
    <2>2. r.tx.nonce = call[p].given /\ s.tx.nonce = call[p].given
        BY <2>1 DEF FundingInv, SentInOwnSlot, OwnSlot
    <2>3. r.tx.from = FundingAccount /\ s.tx.from = FundingAccount
        BY <2>1, AccountFundingAssumption
           DEF FundingInv, TypeOK, LedgerTypeOK, Receipt, Transaction
    <2> QED BY <2>1, <2>2, <2>3 DEF FundingInv, ReceiptsUnique, SameSlot
<1> QED BY <1>1, FundingInvariant, PTL

\* The payments of a batch reach the chain in the order of its accounts: an
\* account that was never generated holds back all those after it.
THEOREM PaysInIndexOrder == Spec => []PaidInIndexOrder
<1>1. FundingInv => PaidInIndexOrder
    <2> SUFFICES ASSUME FundingInv, NEW r \in chain, NEW s \in chain,
                        r.tx.to[1] = s.tx.to[1], r.tx.nonce < s.tx.nonce
                 PROVE  r.tx.to[2] < s.tx.to[2]
        BY DEF PaidInIndexOrder
    <2> DEFINE p == r.tx.to
               q == s.tx.to
    <2>1. p \in Payments /\ q \in Payments
        BY DEF FundingInv, TypeOK, LedgerTypeOK, Receipt, Transaction
    <2>2. /\ r.tx.nonce = call[p].given /\ s.tx.nonce = call[q].given
          /\ worker[p] # "unborn" /\ worker[q] # "unborn"
        BY DEF FundingInv, SentInOwnSlot, OwnSlot
    <2>3. call[p].given - p[2] = call[q].given - q[2]
        BY <2>1, <2>2 DEF FundingInv, NoncesFollowIndex
    <2>4. call[p].given \in Int /\ call[q].given \in Int
        BY <2>1 DEF FundingInv, TypeOK, CallTypeOK, Frame
    <2>5. p[2] \in Int /\ q[2] \in Int
        BY <2>1, AccountFundingAssumption
    <2> QED BY <2>2, <2>3, <2>4, <2>5
<1> QED BY <1>1, FundingInvariant, PTL

----
\* The second argument: the WaitGroup counts the goroutines that still run.

LEMMA RunningFinite == \A b : IsFiniteSet(Running(b))
<1> SUFFICES ASSUME NEW b PROVE IsFiniteSet(Running(b))
    OBVIOUS
<1>1. ASSUME b \in 1 .. Batches PROVE IsFiniteSet({b} \X (0 .. Count[b] - 1))
    <2> DEFINE I == 0 .. Count[b] - 1
    <2>1. IsFiniteSet({b})
        BY FS_Singleton
    <2>2. IsFiniteSet(I)
        <3>1. Count[b] \in Int
            BY <1>1, AccountFundingAssumption
        <3>2. 0 \in Int /\ Count[b] - 1 \in Int
            BY <3>1
        <3> QED BY <3>2, FS_Interval
    <2> HIDE DEF I
    <2>3. IsFiniteSet({b} \X I)
        BY <2>1, <2>2, FS_Product
    <2> QED BY <2>3 DEF I
<1>2. Running(b) \subseteq {b} \X (0 .. Count[b] - 1)
    BY DEF Running
<1>3. CASE b \in 1 .. Batches
    BY <1>1, <1>2, <1>3, FS_Subset
<1>4. CASE b \notin 1 .. Batches
    BY <1>4, FS_EmptySet DEF Running
<1> QED BY <1>3, <1>4

\* A step that neither starts nor ends a goroutine, nor counts one.
LEMMA RunningKept ==
    ASSUME WaitGroupInv, UNCHANGED <<waitGroup, closed, main>>,
           \A p \in Payments : worker'[p] \in {"unborn", "done"} <=> worker[p] \in {"unborn", "done"}
    PROVE  WaitGroupInv'
<1>1. \A b : Running(b)' = Running(b)
    BY DEF Running
<1> QED BY <1>1 DEF WaitGroupInv, WaitIsOver

\* The caller adds to the WaitGroup before it starts a goroutine, and closes
\* the channel when the count is back to zero.
LEMMA MainCounts == FundingInv /\ WaitGroupInv /\ MainStep => WaitGroupInv'
<1> SUFFICES ASSUME FundingInv, WaitGroupInv, MainStep PROVE WaitGroupInv'
    OBVIOUS
<1>0. /\ main \in Main /\ worker \in [Payments -> WorkerPC]
      /\ waitGroup \in [1 .. Batches -> Int] /\ closed \in [1 .. Batches -> BOOLEAN]
      /\ main.batch \in Int
    BY DEF FundingInv, TypeOK, Main
<1>1. ASSUME UNCHANGED worker PROVE \A b : Running(b)' = Running(b)
    BY <1>1 DEF Running
<1>2. CASE Refuse
    <2>1. \A b \in 1 .. Batches : WaitIsOver(b)' => WaitIsOver(b) \/ b = main.batch + 1
        BY <1>0, <1>2 DEF Refuse, WaitIsOver, Main
    <2>2. \A b \in 1 .. Batches : WaitIsOver(b) => WaitIsOver(b)'
        BY <1>0, <1>2 DEF Refuse, WaitIsOver, Main
    <2>3. Running(main.batch + 1) = {}
        BY <1>0, AccountFundingAssumption DEF Running, FundingInv, SpawnedInTurn
    <2> QED BY <1>1, <1>2, <2>1, <2>2, <2>3 DEF Refuse, WaitGroupInv
<1>3. CASE Start
    <2>1. \A b \in 1 .. Batches : WaitIsOver(b)' <=> WaitIsOver(b)
        BY <1>0, <1>3 DEF Start, WaitIsOver
    <2> QED BY <1>1, <1>3, <2>1 DEF Start, WaitGroupInv
<1>4. CASE Spawn
    <2>0. PICK p, B : p = <<main.batch, main.index>> /\ B = main.batch
        OBVIOUS
    <2>1. p \in Payments /\ B \in 1 .. Batches /\ main.index \in Int
        BY <1>0, <1>4, <2>0, AccountFundingAssumption DEF Spawn, Main, FundingInv, SpawnedInTurn
    <2>2. worker[p] = "unborn"
        BY <1>0, <2>0, <2>1 DEF FundingInv, SpawnedInTurn
    <2>3. /\ worker' = [worker EXCEPT ![p] = "generate"] /\ UNCHANGED closed
          /\ waitGroup' = [waitGroup EXCEPT ![B] = @ + 1]
          /\ main'.batch = B /\ main'.pc = "spawn" /\ main.pc = "spawn"
        BY <1>0, <1>4, <2>0 DEF Spawn, Main
    <2>4. Running(B)' = Running(B) \cup {p} /\ p \notin Running(B)
        BY <1>0, <2>0, <2>1, <2>2, <2>3 DEF Running
    <2>5. \A b \in 1 .. Batches : b # B => Running(b)' = Running(b)
        BY <1>0, <2>0, <2>3 DEF Running
    <2>6. Cardinality(Running(B)') = Cardinality(Running(B)) + 1
        BY <2>4, RunningFinite, FS_AddElement
    <2>7. \A b \in 1 .. Batches : WaitIsOver(b)' <=> WaitIsOver(b)
        BY <2>0, <2>3 DEF WaitIsOver
    <2>8. ~WaitIsOver(B)
        BY <1>0, <2>0, <2>3 DEF WaitIsOver
    <2>9. \A b \in 1 .. Batches : waitGroup'[b] = IF b = B THEN waitGroup[b] + 1 ELSE waitGroup[b]
        BY <1>0, <2>3
    <2> QED BY <2>1, <2>3, <2>5, <2>6, <2>7, <2>8, <2>9 DEF WaitGroupInv
<1>5. CASE Close
    <2>1. main.batch \in 1 .. Batches
        BY <1>0, <1>5 DEF Close, Main, FundingInv, SpawnedInTurn
    <2>2. Running(main.batch) = {}
        BY <1>5, <2>1, RunningFinite, FS_EmptySet DEF Close, WaitGroupInv
    <2>3. \A b \in 1 .. Batches : WaitIsOver(b)' <=> WaitIsOver(b) \/ b = main.batch
        BY <1>0, <1>5 DEF Close, WaitIsOver, Main
    <2>4. \A b \in 1 .. Batches : closed'[b] => closed[b] \/ b = main.batch
        BY <1>0, <1>5 DEF Close
    <2> QED BY <1>1, <1>5, <2>2, <2>3, <2>4 DEF Close, WaitGroupInv
<1>6. CASE Collect
    <2>1. \A b \in 1 .. Batches : WaitIsOver(b)' <=> WaitIsOver(b)
        BY <1>0, <1>6 DEF Collect, WaitIsOver, Main
    <2> QED BY <1>1, <1>6, <2>1 DEF Collect, WaitGroupInv
<1> QED BY <1>2, <1>3, <1>4, <1>5, <1>6 DEF MainStep

\* A goroutine leaves the count exactly when its deferred Done() runs.
LEMMA WorkerCounts ==
    ASSUME FundingInv, WaitGroupInv, NEW p \in Payments, WorkerStep(p)
    PROVE  WaitGroupInv'
<1>0. worker \in [Payments -> WorkerPC] /\ p[1] \in 1 .. Batches
      /\ waitGroup \in [1 .. Batches -> Int]
    BY AccountFundingAssumption DEF FundingInv, TypeOK
<1>1. CASE GenerateFails(p)
    BY <1>0, <1>1, RunningKept DEF GenerateFails
<1>2. CASE Generate(p)
    BY <1>0, <1>2, RunningKept DEF Generate
<1>3. CASE Pay(p)
    BY <1>0, <1>3, RunningKept DEF Pay, batchVars
<1>4. CASE PayReturns(p)
    BY <1>0, <1>4, RunningKept DEF PayReturns
<1>5. CASE Push(p)
    BY <1>0, <1>5, RunningKept DEF Push
<1>6. CASE Done(p)
    <2>1. /\ worker' = [worker EXCEPT ![p] = "done"] /\ worker[p] = "deferred"
          /\ UNCHANGED <<main, closed>>
          /\ \A b \in 1 .. Batches :
                waitGroup'[b] = IF b = p[1] THEN waitGroup[b] - 1 ELSE waitGroup[b]
        BY <1>0, <1>6 DEF Done
    <2>2. Running(p[1])' = Running(p[1]) \ {p} /\ p \in Running(p[1])
        BY <1>0, <2>1 DEF Running
    <2>3. \A b \in 1 .. Batches : b # p[1] => Running(b)' = Running(b)
        BY <1>0, <2>1 DEF Running
    <2>4. Cardinality(Running(p[1])') = Cardinality(Running(p[1])) - 1
        BY <2>2, RunningFinite, FS_RemoveElement
    <2>5. \A b \in 1 .. Batches : Running(b)' \subseteq Running(b)
        BY <2>2, <2>3
    <2> QED BY <2>1, <2>3, <2>4, <2>5 DEF WaitGroupInv, WaitIsOver
<1> QED BY <1>1, <1>2, <1>3, <1>4, <1>5, <1>6 DEF WorkerStep

\* The counter of every WaitGroup is the number of its goroutines that run, and
\* none runs once Wait() has returned.
THEOREM WaitGroupCounts == Spec => []WaitGroupInv
<1>1. Init => WaitGroupInv
    <2> SUFFICES ASSUME Init PROVE WaitGroupInv
        OBVIOUS
    <2>1. \A b : Running(b) = {}
        BY DEF Init, Running
    <2>2. \A b \in 1 .. Batches : waitGroup[b] = 0 /\ ~closed[b]
        BY DEF Init
    <2> QED BY <2>1, <2>2, FS_EmptySet DEF WaitGroupInv
<1>2. FundingInv /\ WaitGroupInv /\ [Next]_vars => WaitGroupInv'
    <2> SUFFICES ASSUME FundingInv, WaitGroupInv, [Next]_vars PROVE WaitGroupInv'
        OBVIOUS
    <2>1. CASE UNCHANGED vars
        BY <2>1, RunningKept DEF vars, batchVars
    <2>2. CASE MainStep
        BY <2>2, MainCounts
    <2>3. CASE \E p \in Payments : WorkerStep(p)
        BY <2>3, WorkerCounts
    <2>4. CASE LedgerStep
        BY <2>4, RunningKept DEF LedgerStep, batchVars
    <2> QED BY <2>1, <2>2, <2>3, <2>4 DEF Next, Stopped
<1> QED BY <1>1, <1>2, FundingInvariant, PTL DEF Spec

\* No goroutine can reach its send after close(accountsChannel), which would
\* panic.
THEOREM NeverSendsOnClosedChannel == Spec => []NoSendOnClosedChannel
<1>1. FundingInv /\ WaitGroupInv => NoSendOnClosedChannel
    <2> SUFFICES ASSUME FundingInv, WaitGroupInv, NEW p \in Payments,
                        worker[p] \in {"generate", "pay", "push"}, closed[p[1]]
                 PROVE  FALSE
        BY DEF NoSendOnClosedChannel
    <2>1. p[1] \in 1 .. Batches /\ p \in Running(p[1])
        BY AccountFundingAssumption DEF Running
    <2> QED BY <2>1 DEF WaitGroupInv
<1> QED BY <1>1, FundingInvariant, WaitGroupCounts, PTL

\* The funding account is only spent from by calls that are running, so never
\* by a batch that has returned.
THEOREM SpendsOnlyWhileRunning == Spec => OnlyRunningCallsSpend
<1>1. ASSUME FundingInv, WaitGroupInv, [Next]_vars
      PROVE  [\A t \in pool' \ pool : worker[t.to] = "pay" /\ t.to[1] \notin ReturnedBatches]_vars
    <2> SUFFICES ASSUME NEW t \in pool', t \notin pool
                 PROVE  worker[t.to] = "pay" /\ t.to[1] \notin ReturnedBatches
        OBVIOUS
    <2>1. ~UNCHANGED pool
        OBVIOUS
    <2>2. CASE MainStep
        BY <2>1, <2>2 DEF MainStep, Refuse, Start, Spawn, Close, Collect, ledgerVars
    <2>3. CASE LedgerStep
        BY <2>3 DEF LedgerStep, LedgerNext, Mine, MineTransaction, Evict
    <2>4. CASE \E p \in Payments : WorkerStep(p)
        <3>1. PICK p \in Payments : WorkerStep(p)
            BY <2>4
        <3>2. Pay(p)
            BY <2>1, <3>1 DEF WorkerStep, GenerateFails, Generate, PayReturns, Push, Done, ledgerVars
        <3>3. Accept(TxOf(p))
            BY <2>1, <3>2 DEF Pay, CallStep, Send, AwaitReceipt, GiveUp, Prepare, SendAccepted,
               SendAnswerLost, SendUnderpriced, SendRefused, SendInsufficient, SendMissingAccount,
               ReceiptSuccessful, ReceiptUnsuccessful, ledgerVars
        <3>4. t.to = p /\ worker[p] = "pay"
            <4>1. t = TxOf(p)
                BY <3>3 DEF Accept
            <4>2. TxOf(p).to = p
                BY DEF TxOf
            <4> QED BY <3>2, <4>1, <4>2 DEF Pay
        <3>5. p[1] \in 1 .. Batches /\ p \in Running(p[1])
            BY <3>2, AccountFundingAssumption DEF Running, Pay
        <3>6. p[1] \notin ReturnedBatches
            <4>1. ~WaitIsOver(p[1])
                BY <1>1, <3>5 DEF WaitGroupInv
            <4> QED BY <4>1 DEF WaitIsOver, ReturnedBatches
        <3> QED BY <3>4, <3>6
    <2> QED BY <1>1, <2>1, <2>2, <2>3, <2>4 DEF Next, Stopped, vars, ledgerVars
<1> QED BY <1>1, FundingInvariant, WaitGroupCounts, PTL DEF Spec, OnlyRunningCallsSpend

\* Receipts stay on the chain: what a step leaves of the chain holds everything
\* it held before.
LEMMA ChainGrows == [Next]_vars => chain \subseteq chain'
<1> SUFFICES ASSUME [Next]_vars PROVE chain \subseteq chain'
    OBVIOUS
<1>1. CASE UNCHANGED vars
    BY <1>1 DEF vars, ledgerVars
<1>2. CASE MainStep
    BY <1>2 DEF MainStep, Refuse, Start, Spawn, Close, Collect, ledgerVars
<1>3. CASE \E p \in Payments : WorkerStep(p)
    <2>1. PICK p \in Payments : WorkerStep(p)
        BY <1>3
    <2>2. CASE Pay(p)
        <3>1. chain' = chain
            BY <2>2 DEF Pay, CallStep, Send, AwaitReceipt, GiveUp, Prepare, SendAccepted,
               SendAnswerLost, SendUnderpriced, SendRefused, SendInsufficient,
               SendMissingAccount, ReceiptSuccessful, ReceiptUnsuccessful, ledgerVars, Accept
        <3> QED BY <3>1
    <2> QED BY <2>1, <2>2 DEF WorkerStep, GenerateFails, Generate, PayReturns, Push, Done, ledgerVars
<1>4. CASE LedgerStep
    BY <1>4 DEF LedgerStep, LedgerNext, Mine, MineTransaction, Evict
<1> QED BY <1>1, <1>2, <1>3, <1>4 DEF Next, Stopped

\* A call comes to "success" only past the receipt of what it sent last.
LEMMA SuccessHasReceipt ==
    ASSUME FundingInv, [Next]_vars, NEW q \in Payments,
           call'[q].pc = "success", call[q].pc # "success"
    PROVE  \E r \in chain : r.ok /\ r.tx.to = q
<1>0. call \in [Payments -> Frame] /\ call[q] \in Frame
    BY DEF FundingInv, TypeOK, CallTypeOK
<1>1. ~UNCHANGED callVars
    BY DEF callVars
<1>2. CASE MainStep
    <2>1. Spawn
        BY <1>1, <1>2 DEF MainStep, Refuse, Start, Close, Collect
    <2>2. call'[q].pc = call[q].pc
        <3> DEFINE p == <<main.batch, main.index>>
        <3>1. call' = [call EXCEPT ![p] = [call[p] EXCEPT !.given = main.nonce]]
            BY <2>1 DEF Spawn
        <3>2. CASE q = p
            BY <1>0, <3>1, <3>2 DEF Frame
        <3>3. CASE q # p
            BY <1>0, <3>1, <3>3
        <3> QED BY <3>2, <3>3
    <2> QED BY <2>2
<1>3. CASE \E p \in Payments : WorkerStep(p)
    <2>1. PICK p \in Payments : WorkerStep(p)
        BY <1>3
    <2>2. CASE Generate(p)
        <3>1. PICK f : call' = [call EXCEPT ![p] = f] /\ f.pc \in {"loop", "skipped"}
            BY <2>2 DEF Generate, Enter
        <3> QED BY <1>0, <3>1
    <2>3. CASE Pay(p)
        <3>0. call[p] \in Frame
            BY <1>0
        <3>1. ASSUME NEW pc, Goto(p, pc), pc # "success" PROVE FALSE
            BY <1>0, <3>1 DEF Goto, Frame
        <3>2. ASSUME NEW price, Retry(p, price) PROVE FALSE
            BY <1>0, <3>2 DEF Retry, Frame
        <3>3. ASSUME NEW n, call' = [call EXCEPT ![p] = [call[p] EXCEPT !.pc = "send", !.nonce = n]]
              PROVE  FALSE
            BY <1>0, <3>3 DEF Frame
        <3>4. ReceiptSuccessful(p)
            BY <1>1, <2>3, <3>1, <3>2, <3>3
               DEF Pay, CallStep, Send, AwaitReceipt, GiveUp, Prepare, SendAccepted,
                   SendAnswerLost, SendUnderpriced, SendRefused, SendInsufficient,
                   SendMissingAccount, ReceiptUnsuccessful, RetrySamePrice, RetryHigherPrice,
                   callVars
        <3>5. p = q
            BY <1>0, <3>4 DEF ReceiptSuccessful, Goto
        <3>6. [tx |-> TxOf(p), ok |-> TRUE] \in chain
            BY <3>4 DEF ReceiptSuccessful
        <3>7. TxOf(p).to = q
            BY <3>5 DEF TxOf
        <3> QED BY <3>6, <3>7
    <2> QED BY <1>1, <2>1, <2>2, <2>3
            DEF WorkerStep, GenerateFails, PayReturns, Push, Done
<1> QED BY <1>1, <1>2, <1>3 DEF Next, Stopped, LedgerStep, vars

\* A call that ended by a successful receipt has paid its account, and nothing
\* the chain or the other goroutines do later takes the payment back.
THEOREM SuccessIsPaid == Spec => []SuccessMeansPaid
<1>1. Init => SuccessMeansPaid
    BY DEF Init, CallInit, SuccessMeansPaid
<1>2. FundingInv /\ SuccessMeansPaid /\ [Next]_vars => SuccessMeansPaid'
    <2> SUFFICES ASSUME FundingInv, SuccessMeansPaid, [Next]_vars, NEW q \in Payments,
                        call'[q].pc = "success"
                 PROVE  PaidBy(q)' # {}
        BY DEF SuccessMeansPaid
    <2>1. PICK r \in chain : r.ok /\ r.tx.to = q
        BY SuccessHasReceipt DEF SuccessMeansPaid, PaidBy
    <2>2. r \in chain'
        BY ChainGrows
    <2> QED BY <2>1, <2>2 DEF PaidBy
<1> QED BY <1>1, <1>2, FundingInvariant, PTL DEF Spec

\* What the channel and the results of a batch hold: the accounts whose call
\* is back and which were pushed, in the channel until the batch returns and
\* among its results from then on.
Handed(b) ==
    {p \in Payments : p[1] = b /\ worker[p] \in {"deferred", "done"} /\ call[p].pc \in Returned}

ChannelInv ==
    /\ \A p \in Payments : worker[p] = "push" => call[p].pc \in Returned
    /\ \A b \in 1 .. Batches :
          /\ IsInjective(channel[b]) /\ IsInjective(accs[b])
          /\ ToSet(IF b \in ReturnedBatches THEN accs[b] ELSE channel[b]) = Handed(b)
          /\ b \notin ReturnedBatches => accs[b] = <<>>

LEMMA HandedKept ==
    ASSUME ChannelInv, UNCHANGED <<main, channel, accs>>,
           \A p \in Payments : worker'[p] = "push" => call'[p].pc \in Returned,
           \A b \in 1 .. Batches : Handed(b)' = Handed(b)
    PROVE  ChannelInv'
<1>1. ReturnedBatches' = ReturnedBatches
    BY DEF ReturnedBatches
<1> QED BY <1>1 DEF ChannelInv

\* The steps of the caller.
LEMMA MainCollects == FundingInv /\ WaitGroupInv /\ ChannelInv /\ MainStep => ChannelInv'
<1> SUFFICES ASSUME FundingInv, WaitGroupInv, ChannelInv, MainStep PROVE ChannelInv'
    OBVIOUS
<1> USE AccountFundingAssumption
<1>0. /\ main \in Main /\ worker \in [Payments -> WorkerPC] /\ call \in [Payments -> Frame]
      /\ channel \in [1 .. Batches -> Seq(Payments)] /\ accs \in [1 .. Batches -> Seq(Payments)]
      /\ main.batch \in Nat /\ main.index \in Nat
    BY DEF FundingInv, TypeOK, CallTypeOK, Main
<1>1. ASSUME UNCHANGED <<worker, call>>
      PROVE  /\ \A b : Handed(b)' = Handed(b)
             /\ \A p \in Payments : worker'[p] = "push" => call'[p].pc \in Returned
    BY <1>1 DEF Handed, ChannelInv
<1>2. CASE Refuse
    <2> DEFINE b == main.batch + 1
    <2>1. b \in 1 .. Batches /\ b \notin ReturnedBatches
        BY <1>0, <1>2 DEF Refuse, ReturnedBatches
    <2>2. Handed(b) = {}
        <3> SUFFICES ASSUME NEW p \in Payments, p[1] = b, worker[p] # "unborn" PROVE FALSE
            BY DEF Handed
        <3>1. p[1] < main.batch \/ p[1] = main.batch
            BY DEF FundingInv, SpawnedInTurn
        <3> QED BY <1>0, <3>1
    <2>3. accs[b] = <<>> /\ ToSet(accs[b]) = {}
        BY <2>1 DEF ChannelInv, ToSet
    <2>4. ReturnedBatches' = ReturnedBatches \cup {b}
        BY <1>0, <1>2 DEF Refuse, ReturnedBatches, Main
    <2>5. UNCHANGED <<worker, call, channel, accs>>
        BY <1>2 DEF Refuse, callVars
    <2> HIDE DEF b
    <2> QED BY <1>1, <2>1, <2>2, <2>3, <2>4, <2>5 DEF ChannelInv
<1>3. CASE Start
    <2>1. ReturnedBatches' = ReturnedBatches
        <3>1. main'.pc = "spawn" /\ main'.batch = main.batch + 1 /\ main.pc = "idle"
            BY <1>3 DEF Start
        <3> QED BY <1>0, <3>1 DEF ReturnedBatches
    <2>2. UNCHANGED <<worker, call, channel, accs>>
        BY <1>3 DEF Start, callVars
    <2> QED BY <1>1, <2>1, <2>2 DEF ChannelInv
<1>4. CASE Spawn
    <2>0. PICK p : p = <<main.batch, main.index>>
        OBVIOUS
    <2>1. p \in Payments /\ worker[p] = "unborn"
        <3>1. p \in Payments
            BY <1>0, <1>4, <2>0 DEF Spawn, Main, FundingInv, SpawnedInTurn
        <3>2. p[1] = main.batch /\ p[2] = main.index
            BY <2>0
        <3>3. worker[p] # "unborn" => p[1] < main.batch \/ (p[1] = main.batch /\ p[2] < main.index)
            BY <3>1 DEF FundingInv, SpawnedInTurn
        <3> QED BY <1>0, <3>1, <3>2, <3>3
    <2>2. /\ worker' = [worker EXCEPT ![p] = "generate"]
          /\ call' = [call EXCEPT ![p] = [call[p] EXCEPT !.given = main.nonce]]
          /\ UNCHANGED <<channel, accs>>
        BY <1>4, <2>0 DEF Spawn
    <2>3. ReturnedBatches' = ReturnedBatches
        BY <1>0, <1>4 DEF Spawn, ReturnedBatches, Main
    <2>4. \A q \in Payments : q # p => worker'[q] = worker[q] /\ call'[q] = call[q]
        BY <1>0, <2>2
    <2>5. worker'[p] = "generate"
        BY <1>0, <2>1, <2>2
    <2>6. \A b : Handed(b)' = Handed(b)
        BY <2>1, <2>4, <2>5 DEF Handed
    <2>7. \A q \in Payments : worker'[q] = "push" => call'[q].pc \in Returned
        BY <2>4, <2>5 DEF ChannelInv
    <2> QED BY <2>2, <2>3, <2>6, <2>7 DEF ChannelInv
<1>5. CASE Close
    <2>1. ReturnedBatches' = ReturnedBatches
        BY <1>0, <1>5 DEF Close, ReturnedBatches, Main
    <2>2. UNCHANGED <<worker, call, channel, accs>>
        BY <1>5 DEF Close, callVars
    <2> QED BY <1>1, <2>1, <2>2 DEF ChannelInv
<1>6. CASE Collect
    <2> DEFINE b == main.batch
    <2>1. b \in 1 .. Batches /\ b \notin ReturnedBatches
        BY <1>0, <1>6 DEF Collect, Main, ReturnedBatches, FundingInv, SpawnedInTurn
    <2>2. ReturnedBatches' = ReturnedBatches \cup {b}
        BY <1>0, <1>6, <2>1 DEF Collect, ReturnedBatches, Main
    <2>3. /\ \A c \in 1 .. Batches : c # b => accs'[c] = accs[c] /\ channel'[c] = channel[c]
          /\ accs'[b] = channel[b] /\ channel'[b] = <<>>
        BY <1>0, <1>6, <2>1 DEF Collect
    <2>4. UNCHANGED <<worker, call>>
        BY <1>6 DEF Collect, callVars
    <2>5. IsInjective(<<>>)
        BY DEF IsInjective
    <2> HIDE DEF b
    <2>6. /\ IsInjective(channel[b]) /\ ToSet(channel[b]) = Handed(b)
        BY <2>1 DEF ChannelInv
    <2>7. \A c \in 1 .. Batches : IsInjective(channel'[c]) /\ IsInjective(accs'[c])
        BY <2>3, <2>5, <2>6 DEF ChannelInv
    <2>8. \A c \in 1 .. Batches :
             ToSet(IF c \in ReturnedBatches' THEN accs'[c] ELSE channel'[c]) = Handed(c)
        BY <2>2, <2>3, <2>6 DEF ChannelInv
    <2>9. \A c \in 1 .. Batches : c \notin ReturnedBatches' => accs'[c] = <<>>
        BY <2>2, <2>3 DEF ChannelInv
    <2> QED BY <1>1, <2>4, <2>7, <2>8, <2>9 DEF ChannelInv
<1> QED BY <1>2, <1>3, <1>4, <1>5, <1>6 DEF MainStep

\* A step of PerformFundingTransaction leaves a call that has not returned.
LEMMA WorkerPushes ==
    ASSUME FundingInv, WaitGroupInv, ChannelInv, NEW p \in Payments, WorkerStep(p)
    PROVE  ChannelInv'
<1> USE AccountFundingAssumption
<1>0. /\ worker \in [Payments -> WorkerPC] /\ call \in [Payments -> Frame]
      /\ channel \in [1 .. Batches -> Seq(Payments)]
      /\ p[1] \in 1 .. Batches
    BY AccountsArePairs DEF FundingInv, TypeOK, CallTypeOK
<1>1. ASSUME NEW pc, pc \notin {"push", "deferred", "done"}, worker[p] \notin {"deferred", "done"},
             worker'[p] = pc, \A q \in Payments : q # p => worker'[q] = worker[q] /\ call'[q] = call[q],
             UNCHANGED <<main, channel, accs>>
      PROVE  ChannelInv'
    <2>1. \A b : Handed(b)' = Handed(b)
        BY <1>1 DEF Handed
    <2> QED BY <1>1, <2>1, HandedKept DEF ChannelInv
<1>2. CASE GenerateFails(p)
    <2>1. call[p].pc \notin Returned
        BY <1>2 DEF GenerateFails, FundingInv, FramesKept, Returned, ReturnedNil
    <2>2. worker' = [worker EXCEPT ![p] = "deferred"] /\ worker[p] = "generate" /\ call' = call
        BY <1>2 DEF GenerateFails, callVars
    <2>3. \A b : Handed(b)' = Handed(b)
        BY <1>0, <2>1, <2>2 DEF Handed
    <2> QED BY <1>0, <1>2, <2>2, <2>3, HandedKept DEF GenerateFails, ChannelInv
<1>3. CASE Generate(p)
    <2>1. PICK f : call' = [call EXCEPT ![p] = f]
        BY <1>3 DEF Generate, Enter
    <2>2. worker' = [worker EXCEPT ![p] = "pay"] /\ worker[p] = "generate"
        BY <1>3 DEF Generate
    <2> QED BY <1>0, <1>1, <1>3, <2>1, <2>2 DEF Generate
<1>4. CASE Pay(p)
    <2>1. worker[p] = "pay" /\ UNCHANGED batchVars
        BY <1>4 DEF Pay
    <2>2. \A q \in Payments : q # p => call'[q] = call[q]
        BY <1>0, <1>4 DEF Pay, CallStep, Send, AwaitReceipt, GiveUp, Prepare, SendAccepted,
           SendAnswerLost, SendUnderpriced, SendRefused, SendInsufficient,
           SendMissingAccount, ReceiptSuccessful, ReceiptUnsuccessful, RetrySamePrice,
           RetryHigherPrice, Retry, Goto
    <2> QED BY <1>1, <2>1, <2>2 DEF batchVars
<1>5. CASE PayReturns(p)
    <2>1. worker' = [worker EXCEPT ![p] = "push"] /\ worker[p] = "pay" /\ call' = call
        BY <1>5 DEF PayReturns, callVars
    <2>2. \A b : Handed(b)' = Handed(b)
        BY <1>0, <2>1 DEF Handed
    <2> QED BY <1>0, <1>5, <2>1, <2>2, HandedKept DEF PayReturns, ChannelInv
<1>6. CASE Push(p)
    <2> DEFINE b == p[1]
    <2>1. /\ worker' = [worker EXCEPT ![p] = "deferred"] /\ worker[p] = "push" /\ call' = call
          /\ UNCHANGED <<main, accs>>
          /\ channel' = [channel EXCEPT ![b] = Append(channel[b], p)]
        BY <1>6 DEF Push, callVars
    <2>2. b \in 1 .. Batches /\ b \notin ReturnedBatches
        <3>1. p \in Running(b)
            BY <2>1 DEF Running
        <3> QED BY <1>0, <3>1 DEF WaitGroupInv, WaitIsOver, ReturnedBatches
    <2>3. ReturnedBatches' = ReturnedBatches
        BY <2>1 DEF ReturnedBatches
    <2>4. call[p].pc \in Returned
        BY <2>1 DEF ChannelInv
    <2>5. Handed(b)' = Handed(b) \cup {p} /\ p \notin Handed(b)
        BY <1>0, <2>1, <2>4 DEF Handed
    <2>6. \A c : c # b => Handed(c)' = Handed(c)
        BY <1>0, <2>1 DEF Handed
    <2>7. ToSet(channel[b]) = Handed(b) /\ IsInjective(channel[b]) /\ channel[b] \in Seq(Payments)
        BY <1>0, <2>2 DEF ChannelInv
    <2> HIDE DEF b
    <2> DEFINE s == channel[b]
               t == Append(channel[b], p)
    <2>8. /\ DOMAIN t = 1 .. Len(s) + 1 /\ DOMAIN s = 1 .. Len(s) /\ Len(s) \in Nat
          /\ t[Len(s) + 1] = p /\ \A i \in 1 .. Len(s) : t[i] = s[i]
        BY <2>7
    <2> HIDE DEF s, t
    <2>9. ToSet(t) = ToSet(s) \cup {p}
        <3>1. DOMAIN t = DOMAIN s \cup {Len(s) + 1}
            BY <2>8
        <3>2. \A i \in DOMAIN s : t[i] = s[i]
            BY <2>8
        <3>3. {t[i] : i \in DOMAIN t} = {t[i] : i \in DOMAIN s} \cup {t[Len(s) + 1]}
            BY <3>1
        <3>4. {t[i] : i \in DOMAIN s} = {s[i] : i \in DOMAIN s}
            BY <3>2
        <3> QED BY <2>8, <3>3, <3>4 DEF ToSet
    <2>10. IsInjective(t)
        <3>0. ToSet(s) = Handed(b) /\ IsInjective(s)
            BY <2>7 DEF s
        <3>1. \A i \in 1 .. Len(s) : s[i] # p
            BY <2>5, <2>8, <3>0 DEF ToSet
        <3>2. SUFFICES ASSUME NEW i \in 1 .. Len(s) + 1, NEW j \in 1 .. Len(s) + 1, t[i] = t[j]
                       PROVE  i = j
            BY <2>8 DEF IsInjective
        <3>3. CASE i = Len(s) + 1 \/ j = Len(s) + 1
            BY <2>8, <3>1, <3>2, <3>3
        <3>4. CASE i \in 1 .. Len(s) /\ j \in 1 .. Len(s)
            <4>1. s[i] = s[j]
                BY <2>8, <3>2, <3>4
            <4> QED BY <2>8, <3>0, <3>4, <4>1 DEF IsInjective
        <3> QED BY <2>8, <3>3, <3>4
    <2>11. /\ channel'[b] = t
           /\ \A c \in 1 .. Batches : c # b => channel'[c] = channel[c]
        BY <1>0, <2>1, <2>2 DEF s, t
    <2>12. \A q \in Payments : worker'[q] = "push" => call'[q].pc \in Returned
        BY <1>0, <2>1 DEF ChannelInv
    <2>13. \A c \in 1 .. Batches : IsInjective(channel'[c]) /\ IsInjective(accs'[c])
        BY <2>1, <2>10, <2>11 DEF ChannelInv
    <2>14. \A c \in 1 .. Batches :
              ToSet(IF c \in ReturnedBatches THEN accs[c] ELSE channel'[c]) = Handed(c)'
        BY <2>2, <2>5, <2>6, <2>7, <2>9, <2>11 DEF ChannelInv, s
    <2> QED BY <2>1, <2>3, <2>12, <2>13, <2>14 DEF ChannelInv
<1>7. CASE Done(p)
    <2>1. worker' = [worker EXCEPT ![p] = "done"] /\ worker[p] = "deferred" /\ call' = call
        BY <1>7 DEF Done, callVars
    <2>2. \A b : Handed(b)' = Handed(b)
        BY <1>0, <2>1 DEF Handed
    <2> QED BY <1>0, <1>7, <2>1, <2>2, HandedKept DEF Done, ChannelInv
<1> QED BY <1>2, <1>3, <1>4, <1>5, <1>6, <1>7 DEF WorkerStep

\* ChannelInv holds in every state.
THEOREM ChannelInvariant == Spec => []ChannelInv
<1>1. Init => ChannelInv
    BY DEF Init, CallInit, ChannelInv, Handed, ToSet, IsInjective
<1>2. FundingInv /\ WaitGroupInv /\ ChannelInv /\ [Next]_vars => ChannelInv'
    <2> SUFFICES ASSUME FundingInv, WaitGroupInv, ChannelInv, [Next]_vars PROVE ChannelInv'
        OBVIOUS
    <2>1. ASSUME UNCHANGED <<callVars, batchVars>> PROVE ChannelInv'
        BY <2>1, HandedKept DEF callVars, batchVars, Handed, ChannelInv
    <2>2. CASE UNCHANGED vars
        BY <2>1, <2>2 DEF vars
    <2>3. CASE MainStep
        BY <2>3, MainCollects
    <2>4. CASE \E p \in Payments : WorkerStep(p)
        BY <2>4, WorkerPushes
    <2>5. CASE LedgerStep
        BY <2>1, <2>5 DEF LedgerStep
    <2> QED BY <2>2, <2>3, <2>4, <2>5 DEF Next, Stopped
<1> QED BY <1>1, <1>2, FundingInvariant, WaitGroupCounts, PTL DEF Spec

\* GenerateAndFundAccounts returns every account it generated exactly once, and
\* leaves no goroutine behind.
THEOREM EveryAccountReturned == Spec => []ReturnsEveryAccount
<1>1. FundingInv /\ WaitGroupInv /\ ChannelInv => ReturnsEveryAccount
    <2> SUFFICES ASSUME FundingInv, WaitGroupInv, ChannelInv, NEW b \in ReturnedBatches
                 PROVE  LET batch == {p \in Payments : p[1] = b}
                        IN  /\ \A p \in batch : worker[p] \in {"unborn", "done"}
                            /\ ToSet(accs[b]) = {p \in batch : call[p].pc \in Returned}
                            /\ IsInjective(accs[b])
        BY DEF ReturnsEveryAccount
    <2>1. b \in 1 .. Batches /\ WaitIsOver(b)
        BY DEF ReturnedBatches, WaitIsOver
    <2>2. \A p \in Payments : p[1] = b => worker[p] \in {"unborn", "done"}
        BY <2>1 DEF WaitGroupInv, Running
    <2>3. ToSet(accs[b]) = Handed(b) /\ IsInjective(accs[b])
        BY <2>1 DEF ChannelInv
    <2>4. \A p \in Payments : worker[p] = "unborn" => call[p].pc \notin Returned
        BY DEF FundingInv, FramesKept, Returned, ReturnedNil
    <2> QED BY <2>2, <2>3, <2>4 DEF Handed
<1> QED BY <1>1, FundingInvariant, WaitGroupCounts, ChannelInvariant, PTL

\* The nonces at which an account was paid, as FundingPromise sees them.
PaidNonces(p) == {r.tx.nonce : r \in PaidBy(p)}

\* What FundingPromise sees of a step that leaves the chain alone.
LEMMA PromiseStutter ==
    ASSUME UNCHANGED <<main, chain, accs>>
    PROVE  UNCHANGED Promise!vars
<1>1. \A p : PaidBy(p)' = PaidBy(p)
    BY DEF PaidBy
<1> QED BY <1>1 DEF Promise!vars

\* A block that pays an account is the one payment the promise allows, also
\* when it comes after the batch has returned.
LEMMA LedgerKeepsPromise ==
    ASSUME FundingInv, PaidAtMostOnce', LedgerStep
    PROVE  [Promise!Next]_Promise!vars
<1>1. CASE Evict
    BY <1>1, PromiseStutter DEF Evict, LedgerStep, batchVars
<1>2. CASE Mine
    <2>1. PICK t \in pool, ok \in BOOLEAN :
              /\ t.nonce = mined[t.from]
              /\ chain' = chain \cup {[tx |-> t, ok |-> ok]}
        BY <1>2 DEF Mine, MineTransaction
    <2>2. t \in Transaction /\ t.to \in Payments
        BY DEF FundingInv, TypeOK, LedgerTypeOK, Transaction
    <2>3. UNCHANGED <<main, accs>>
        BY DEF LedgerStep, batchVars
    <2>4. CASE ok = FALSE
        <3>1. \A p : PaidBy(p)' = PaidBy(p)
            BY <2>1, <2>4 DEF PaidBy
        <3> QED BY <2>3, <3>1 DEF Promise!vars
    <2>5. CASE ok = TRUE
        <3> DEFINE r == [tx |-> t, ok |-> TRUE]
                   p == t.to
        <3>1. r \in PaidBy(p)'
            BY <2>1, <2>5 DEF PaidBy
        <3>2. r \notin chain
            <4>1. \A s \in chain : s.tx.nonce < mined[s.tx.from]
                BY DEF FundingInv, ReceiptsUnique
            <4>2. mined[t.from] \in Nat
                BY <2>2 DEF FundingInv, TypeOK, LedgerTypeOK, Transaction
            <4> QED BY <2>1, <4>1, <4>2
        <3>3. PaidBy(p) = {} /\ PaidBy(p)' = {r}
            <4>1. PaidBy(p) \subseteq PaidBy(p)'
                BY <2>1 DEF PaidBy
            <4>2. \A s \in PaidBy(p)' : s = r
                BY <2>2, <3>1 DEF PaidAtMostOnce
            <4>3. r \notin PaidBy(p)
                BY <3>2 DEF PaidBy
            <4> QED BY <3>1, <4>1, <4>2, <4>3
        <3>4. \A q : q # p => PaidBy(q)' = PaidBy(q)
            BY <2>1 DEF PaidBy
        <3>5. p[1] <= main.batch
            <4>1. worker[p] # "unborn"
                BY DEF FundingInv, SentInOwnSlot, OwnSlot
            <4>2. p[1] < main.batch \/ p[1] = main.batch
                BY <2>2, <4>1 DEF FundingInv, SpawnedInTurn
            <4>3. p[1] \in Int /\ main.batch \in Int
                BY <2>2 DEF FundingInv, TypeOK, Main
            <4> QED BY <4>2, <4>3
        <3>6. /\ PaidNonces(p) = {} /\ PaidNonces(p)' = {t.nonce}
              /\ \A q : q # p => PaidNonces(q)' = PaidNonces(q)
            BY <3>3, <3>4 DEF PaidNonces
        <3> HIDE DEF p, r
        <3>7. p \in Accounts
            BY <2>2, AccountFundingAssumption DEF p
        <3>8. Promise!PayOnce(p)
            <4> DEFINE before == [q \in Accounts |-> PaidNonces(q)]
            <4>1. before' = [before EXCEPT ![p] = {t.nonce}]
                BY <3>6, <3>7
            <4>2. t.nonce \in before'[p]
                BY <3>6, <3>7
            <4>3. before[p] = {}
                BY <3>6, <3>7
            <4> QED BY <2>3, <3>5, <4>1, <4>2, <4>3 DEF Promise!PayOnce, PaidNonces
        <3> QED BY <3>7, <3>8 DEF Promise!Next
    <2> QED BY <2>4, <2>5
<1> QED BY <1>1, <1>2 DEF LedgerStep, LedgerNext

\* The caller begins a batch, and returns it when it has collected the channel.
LEMMA MainKeepsPromise ==
    ASSUME FundingInv, ChannelInv, MainStep
    PROVE  [Promise!Next]_Promise!vars
<1> USE AccountFundingAssumption
<1>0. /\ main \in Main /\ main.batch \in Nat
      /\ channel \in [1 .. Batches -> Seq(Payments)] /\ accs \in [1 .. Batches -> Seq(Payments)]
    BY DEF FundingInv, TypeOK, Main
<1>1. chain' = chain
    BY DEF MainStep, Refuse, Start, Spawn, Close, Collect, ledgerVars
<1>2. \A p : PaidBy(p)' = PaidBy(p)
    BY <1>1 DEF PaidBy
<1>3. CASE Refuse
    BY <1>0, <1>2, <1>3 DEF Refuse, Promise!Begin, Promise!Next
<1>4. CASE Start
    <2>1. main.pc = "idle" /\ main'.pc = "spawn" /\ main'.batch = main.batch + 1
        BY <1>4 DEF Start
    <2> QED BY <1>2, <1>4, <2>1 DEF Start, Promise!Begin, Promise!Next
<1>5. CASE Spawn
    <2>1. main'.pc = main.pc /\ main'.batch = main.batch /\ accs' = accs
        BY <1>0, <1>5 DEF Spawn, Main
    <2> QED BY <1>2, <2>1 DEF Promise!vars
<1>6. CASE Close
    <2>1. main'.pc # "idle" /\ main.pc # "idle" /\ main'.batch = main.batch /\ accs' = accs
        BY <1>0, <1>6 DEF Close, Main
    <2> QED BY <1>2, <2>1 DEF Promise!vars
<1>7. CASE Collect
    <2> DEFINE b == main.batch
    <2>1. b \in 1 .. Batches /\ b \notin ReturnedBatches
        BY <1>0, <1>7 DEF Collect, Main, ReturnedBatches, FundingInv, SpawnedInTurn
    <2>2. /\ accs' = [accs EXCEPT ![b] = channel[b]]
          /\ main.pc = "collect" /\ main'.pc = "idle" /\ main'.batch = main.batch
        BY <1>0, <1>7 DEF Collect, Main
    <2>3. accs'[b] = channel[b]
        BY <1>0, <2>1, <2>2
    <2>4. IsInjective(channel[b]) /\ ToSet(channel[b]) = Handed(b)
        BY <2>1 DEF ChannelInv
    <2>5. \A p \in Handed(b) : p \in Accounts /\ p[1] = b
        BY DEF Handed
    <2>6. IsInjective(accs'[b]) /\ \A p \in ToSet(accs'[b]) : p \in Accounts /\ p[1] = b
        BY <2>3, <2>4, <2>5
    <2>7. Promise!Return
        <3>1. accs' = [accs EXCEPT ![b] = accs'[b]]
            BY <2>2, <2>3
        <3>2. [p \in Accounts |-> PaidNonces(p)]' = [p \in Accounts |-> PaidNonces(p)]
            BY <1>2 DEF PaidNonces
        <3>3. Promise!IsInjective(accs'[b])
            BY <2>6 DEF IsInjective, Promise!IsInjective
        <3>4. Promise!ToSet(accs'[b]) = ToSet(accs'[b])
            BY DEF ToSet, Promise!ToSet
        <3> QED BY <2>2, <2>6, <3>1, <3>2, <3>3, <3>4 DEF Promise!Return, PaidNonces
    <2> QED BY <2>7 DEF Promise!Next
<1> QED BY <1>3, <1>4, <1>5, <1>6, <1>7 DEF MainStep

\* The goroutines are invisible: what they send shows when it is mined, and
\* what they push when it is collected.
LEMMA WorkersInvisible ==
    ASSUME NEW p \in Payments, WorkerStep(p)
    PROVE  UNCHANGED <<main, chain, accs>>
<1>1. CASE Pay(p)
    BY <1>1 DEF Pay, batchVars, CallStep, Send, AwaitReceipt, GiveUp, Prepare, SendAccepted,
       SendAnswerLost, SendUnderpriced, SendRefused, SendInsufficient,
       SendMissingAccount, ReceiptSuccessful, ReceiptUnsuccessful, ledgerVars, Accept
<1> QED BY <1>1 DEF WorkerStep, GenerateFails, Generate, PayReturns, Push, Done, ledgerVars

\* The goroutines, the retries and the chain of AccountFunding implement what
\* GenerateAndFundAccounts promises its callers.
THEOREM ImplementsPromise == Spec => KeepsPromise
<1>1. Init => Promise!Init
    <2>1. Init => \A p : PaidBy(p) = {}
        BY DEF Init, LedgerInit, PaidBy
    <2> QED BY <2>1 DEF Init, Promise!Init
<1>2. FundingInv /\ ChannelInv /\ PaidAtMostOnce' /\ [Next]_vars => [Promise!Next]_Promise!vars
    <2> SUFFICES ASSUME FundingInv, ChannelInv, PaidAtMostOnce', [Next]_vars
                 PROVE  [Promise!Next]_Promise!vars
        OBVIOUS
    <2>1. CASE UNCHANGED vars
        BY <2>1, PromiseStutter DEF vars, ledgerVars, batchVars
    <2>2. CASE MainStep
        BY <2>2, MainKeepsPromise
    <2>3. CASE \E p \in Payments : WorkerStep(p)
        BY <2>3, WorkersInvisible, PromiseStutter
    <2>4. CASE LedgerStep
        BY <2>4, LedgerKeepsPromise
    <2> QED BY <2>1, <2>2, <2>3, <2>4 DEF Next, Stopped
<1> QED BY <1>1, <1>2, FundingInvariant, ChannelInvariant, PaysAtMostOnce, PTL
        DEF Spec, KeepsPromise, Promise!Spec
====
