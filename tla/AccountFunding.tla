---- MODULE AccountFunding ----
(***************************************************************************)
(* GenerateAndFundAccounts of funding/manager.go: a batch of goroutines,   *)
(* each generating an account and paying it from the funding account with  *)
(* a nonce fixed before it starts.  Batches follow one another, the way    *)
(* test cases do, and the chain still holds what earlier ones left behind. *)
(***************************************************************************)
EXTENDS FundingTransaction, Sequences, SequencesExt

CONSTANTS
    FundingAccount, \* config.Configuration.Funding.Account, in the shard it pays from
    Batches,        \* how many times GenerateAndFundAccounts is called
    Count           \* Count[b]: the count argument of call b, one goroutine each

\* Account <<b, i>> is the one goroutine i of batch b generates and pays.
Accounts == UNION {{b} \X (0 .. Count[b] - 1) : b \in 1 .. Batches}

ASSUME AccountFundingAssumption ==
    /\ Batches \in Nat \ {0} /\ Count \in [1 .. Batches -> Nat \ {0}]
    /\ Senders = {FundingAccount}
    /\ Payments = Accounts

VARIABLES
    main,       \* the goroutine that called GenerateAndFundAccounts
    worker,     \* worker[p]: where the goroutine of account p stands
    waitGroup,  \* waitGroup[b]: the counter of batch b's sync.WaitGroup
    channel,    \* channel[b]: what is buffered in batch b's accountsChannel
    closed,     \* closed[b]: close(accountsChannel) was executed
    accs        \* accs[b]: what batch b returned

batchVars == <<main, worker, waitGroup, channel, closed, accs>>
vars == <<ledgerVars, callVars, batchVars>>

MainPC == {"idle", "spawn", "collect"}
WorkerPC == {"unborn", "generate", "pay", "push", "deferred", "done"}

\* index and nonce are the loop variables of the spawning loop.
Main == [pc : MainPC, batch : 0 .. Batches, index : Nat, nonce : Nat,
         positive : BOOLEAN]

TypeOK ==
    /\ LedgerTypeOK
    /\ CallTypeOK
    /\ main \in Main
    /\ worker \in [Payments -> WorkerPC]
    /\ waitGroup \in [1 .. Batches -> Int]
    /\ channel \in [1 .. Batches -> Seq(Payments)]
    /\ closed \in [1 .. Batches -> BOOLEAN]
    /\ accs \in [1 .. Batches -> Seq(Payments)]

Init ==
    /\ LedgerInit
    /\ CallInit
    /\ main = [pc |-> "idle", batch |-> 0, index |-> 0, nonce |-> 0, positive |-> FALSE]
    /\ worker = [p \in Payments |-> "unborn"]
    /\ waitGroup = [b \in 1 .. Batches |-> 0]
    /\ channel = [b \in 1 .. Batches |-> <<>>]
    /\ closed = [b \in 1 .. Batches |-> FALSE]
    /\ accs = [b \in 1 .. Batches |-> <<>>]

\* The batch is refused before any goroutine starts: no RPC client, no shard
\* balance, or an amount that is nil or negative.
Refuse ==
    /\ main.pc = "idle" /\ main.batch < Batches
    /\ main' = [main EXCEPT !.batch = @ + 1]
    /\ UNCHANGED <<ledgerVars, callVars, worker, waitGroup, channel, closed, accs>>

\* The nonce of the funding account is read once for the whole batch; the
\* amount, with the gas cost added, may still be zero.
Start ==
    /\ main.pc = "idle" /\ main.batch < Batches
    /\ \E n \in CurrentNonces(FundingAccount), positive \in BOOLEAN :
          main' = [pc |-> "spawn", batch |-> main.batch + 1, index |-> 0, nonce |-> n,
                   positive |-> positive]
    /\ UNCHANGED <<ledgerVars, callVars, worker, waitGroup, channel, closed, accs>>

\* Fault: waitGroup.Add(1) is left to the goroutine and never executed here.
SpawnUncounted ==
    /\ main.pc = "spawn" /\ main.index < Count[main.batch]
    /\ LET p == <<main.batch, main.index>>
       IN  /\ worker' = [worker EXCEPT ![p] = "generate"]
           /\ call' = [call EXCEPT ![p].given = main.nonce]
    /\ main' = [main EXCEPT !.index = @ + 1, !.nonce = @ + 1]
    /\ UNCHANGED <<ledgerVars, exited, waitGroup, channel, closed, accs>>

\* waitGroup.Add(1); go generateAndFundAccount(i, ..., nonce, ...); nonce++.
\* The frame of the call the goroutine may make already holds its nonce.
Spawn ==
    /\ main.pc = "spawn" /\ main.index < Count[main.batch]
    /\ LET p == <<main.batch, main.index>>
       IN  /\ worker' = [worker EXCEPT ![p] = "generate"]
           /\ call' = [call EXCEPT ![p].given = main.nonce]
    /\ waitGroup' = [waitGroup EXCEPT ![main.batch] = @ + 1]
    /\ main' = [main EXCEPT !.index = @ + 1, !.nonce = @ + 1]
    /\ UNCHANGED <<ledgerVars, exited, channel, closed, accs>>

\* Fault: the channel is closed without waiting for the goroutines.
CloseAtOnce ==
    /\ main.pc = "spawn" /\ main.index = Count[main.batch]
    /\ closed' = [closed EXCEPT ![main.batch] = TRUE]
    /\ main' = [main EXCEPT !.pc = "collect"]
    /\ UNCHANGED <<ledgerVars, callVars, worker, waitGroup, channel, accs>>

\* waitGroup.Wait(); close(accountsChannel).
Close ==
    /\ main.pc = "spawn" /\ main.index = Count[main.batch]
    /\ waitGroup[main.batch] = 0
    /\ closed' = [closed EXCEPT ![main.batch] = TRUE]
    /\ main' = [main EXCEPT !.pc = "collect"]
    /\ UNCHANGED <<ledgerVars, callVars, worker, waitGroup, channel, accs>>

\* for acc := range accountsChannel { accs = append(accs, acc) }.
Collect ==
    /\ main.pc = "collect"
    /\ accs' = [accs EXCEPT ![main.batch] = channel[main.batch]]
    /\ channel' = [channel EXCEPT ![main.batch] = <<>>]
    /\ main' = [main EXCEPT !.pc = "idle"]
    /\ UNCHANGED <<ledgerVars, callVars, worker, waitGroup, closed>>

\* Fault: an account that could not be generated is handed out all the same.
GenerateFailsUnseen(p) ==
    /\ worker[p] = "generate"
    /\ worker' = [worker EXCEPT ![p] = "push"]
    /\ UNCHANGED <<ledgerVars, callVars, main, waitGroup, channel, closed, accs>>

\* accounts.GenerateAccount: an error that outlives its retries ends the
\* goroutine, and its nonce is never used.
GenerateFails(p) ==
    /\ worker[p] = "generate"
    /\ worker' = [worker EXCEPT ![p] = "deferred"]
    /\ UNCHANGED <<ledgerVars, callVars, main, waitGroup, channel, closed, accs>>

\* Fault: the goroutine leaves the nonce to PerformFundingTransaction.
GenerateWithoutNonce(p) ==
    /\ worker[p] = "generate"
    /\ worker' = [worker EXCEPT ![p] = "pay"]
    /\ Enter(p, FundingAccount, -1, main.positive)
    /\ UNCHANGED <<ledgerVars, exited, main, waitGroup, channel, closed, accs>>

Generate(p) ==
    /\ worker[p] = "generate"
    /\ worker' = [worker EXCEPT ![p] = "pay"]
    /\ Enter(p, FundingAccount, call[p].given, main.positive)
    /\ UNCHANGED <<ledgerVars, exited, main, waitGroup, channel, closed, accs>>

\* A step of the call to PerformFundingTransaction.
Pay(p) ==
    /\ worker[p] = "pay"
    /\ CallStep(p)
    /\ UNCHANGED batchVars

\* The call is back; what it returned is ignored.
PayReturns(p) ==
    /\ worker[p] = "pay" /\ call[p].pc \in Returned
    /\ worker' = [worker EXCEPT ![p] = "push"]
    /\ UNCHANGED <<ledgerVars, callVars, main, waitGroup, channel, closed, accs>>

\* accountsChannel <- account: blocks while the buffer is full.
Push(p) ==
    /\ worker[p] = "push"
    /\ Len(channel[p[1]]) < Count[p[1]]
    /\ channel' = [channel EXCEPT ![p[1]] = Append(@, p)]
    /\ worker' = [worker EXCEPT ![p] = "deferred"]
    /\ UNCHANGED <<ledgerVars, callVars, main, waitGroup, closed, accs>>

\* The deferred waitGroup.Done().
Done(p) ==
    /\ worker[p] = "deferred"
    /\ waitGroup' = [waitGroup EXCEPT ![p[1]] = @ - 1]
    /\ worker' = [worker EXCEPT ![p] = "done"]
    /\ UNCHANGED <<ledgerVars, callVars, main, channel, closed, accs>>

MainStep == Refuse \/ Start \/ Spawn \/ Close \/ Collect

WorkerStep(p) ==
    \/ GenerateFails(p)
    \/ Generate(p)
    \/ Pay(p)
    \/ PayReturns(p)
    \/ Push(p)
    \/ Done(p)

\* The chain goes on whatever becomes of the process.
LedgerStep == LedgerNext /\ UNCHANGED <<callVars, batchVars>>

\* All batches have returned, or the process has exited.
Stopped ==
    /\ exited \/ (main.pc = "idle" /\ main.batch = Batches)
    /\ UNCHANGED vars

Next ==
    \/ ~exited /\ MainStep
    \/ ~exited /\ \E p \in Payments : WorkerStep(p)
    \/ LedgerStep
    \/ Stopped

\* Every goroutine is scheduled, and every RPC call and receipt wait returns
\* (the SDK gives up after Funding.Timeout); the chain promises nothing.
Fairness ==
    /\ WF_vars(~exited /\ MainStep)
    /\ \A p \in Payments : WF_vars(~exited /\ WorkerStep(p))

Spec == Init /\ [][Next]_vars /\ Fairness
----
\* The batches that have returned to their caller.
ReturnedBatches == {b \in 1 .. Batches : b < main.batch \/ (b = main.batch /\ main.pc = "idle")}

\* An account generated in a batch is paid at most once, however often the
\* retry loop of PerformFundingTransaction sends its transaction again: every
\* attempt carries the nonce the goroutine was started with.
PaidAtMostOnce == \A p \in Payments : \A r, s \in PaidBy(p) : r = s

\* The receipts of one batch are in the order of its accounts: the nonce of a
\* goroutine grows with its index, so no two accounts of a batch compete for a
\* slot, and an account is only paid once the nonces before it are consumed.
PaidInIndexOrder ==
    \A r, s \in chain :
        (r.tx.to[1] = s.tx.to[1] /\ r.tx.nonce < s.tx.nonce) => r.tx.to[2] < s.tx.to[2]

\* A successful return of PerformFundingTransaction means the account is paid.
SuccessMeansPaid == \A p \in Payments : call[p].pc = "success" => PaidBy(p) # {}

\* waitGroup.Wait() covers every goroutine of the batch: what is returned holds
\* each generated account once, and no goroutine is left to send on the closed
\* channel or to spend from the funding account.
ReturnsEveryAccount ==
    \A b \in ReturnedBatches :
        LET batch == {p \in Payments : p[1] = b}
        IN  /\ \A p \in batch : worker[p] \in {"unborn", "done"}
            /\ ToSet(accs[b]) = {p \in batch : call[p].pc \in Returned}
            /\ IsInjective(accs[b])

\* A send on a closed channel would panic: while a goroutine may still push,
\* its channel is open.
NoSendOnClosedChannel ==
    \A p \in Payments :
        worker[p] \in {"generate", "pay", "push"} => ~closed[p[1]]

\* Only a call that is running puts a transaction of its account in the pool.
OnlyRunningCallsSpend ==
    [][\A t \in pool' \ pool : worker[t.to] = "pay" /\ t.to[1] \notin ReturnedBatches]_vars

\* A batch that was started returns: each attempt is used up, no goroutine
\* blocks on the channel, and the WaitGroup reaches zero - unless os.Exit.
BatchReturns ==
    \A b \in 1 .. Batches :
        main.batch = b /\ main.pc # "idle" ~> exited \/ b \in ReturnedBatches

\* Seen through its receipts and results alone, the batch does no more than
\* FundingPromise allows.
Promise == INSTANCE FundingPromise WITH
    batch <- main.batch,
    open <- main.pc # "idle",
    paidAt <- [p \in Accounts |-> {r.tx.nonce : r \in PaidBy(p)}]

KeepsPromise == Promise!Spec

\* The inductive invariant behind PaidAtMostOnce and PaidInIndexOrder.  Account
\* <<b, i>> is not spawned before its turn; a frame is untouched until its
\* goroutine calls PerformFundingTransaction, and an attempt that is under way
\* is paid for and carries the nonce the goroutine was given.
SpawnedInTurn ==
    /\ main.pc # "idle" => main.batch > 0
    /\ \A p \in Payments : worker[p] # "unborn" =>
          p[1] < main.batch \/ (p[1] = main.batch /\ p[2] < main.index)

FramesKept ==
    \A p \in Payments :
        /\ worker[p] \in {"unborn", "generate"} => call[p].pc = "idle"
        /\ worker[p] # "unborn" => call[p].given \in Nat
        /\ call[p].pc \in {"send", "receipt"} =>
              call[p].attempts > 0 /\ call[p].nonce = call[p].given

\* Whatever was ever sent for an account sits in the account's own slot.
OwnSlot(t) == t.nonce = call[t.to].given /\ worker[t.to] \notin {"unborn", "generate"}
SentInOwnSlot == (\A t \in pool : OwnSlot(t)) /\ (\A r \in chain : OwnSlot(r.tx))

\* The chain holds one receipt per consumed nonce.
ReceiptsUnique ==
    /\ \A r \in chain : r.tx.nonce < mined[r.tx.from]
    /\ \A r, s \in chain : SameSlot(r.tx, s.tx) => r = s

\* The nonces of a batch follow the indexes of its goroutines.
NoncesFollowIndex ==
    /\ \A p, q \in Payments :
          (worker[p] # "unborn" /\ worker[q] # "unborn" /\ p[1] = q[1]) =>
              call[p].given - p[2] = call[q].given - q[2]
    /\ \A p \in Payments :
          (worker[p] # "unborn" /\ p[1] = main.batch) =>
              call[p].given - p[2] = main.nonce - main.index

FundingInv ==
    TypeOK /\ SpawnedInTurn /\ FramesKept /\ SentInOwnSlot /\ ReceiptsUnique /\ NoncesFollowIndex

\* The inductive invariant behind NoSendOnClosedChannel and
\* OnlyRunningCallsSpend: the WaitGroup counts the goroutines of its batch that
\* are still running, there are none once Wait() has returned, and a channel is
\* closed only then.
Running(b) == {p \in Payments : p[1] = b /\ worker[p] \notin {"unborn", "done"}}
WaitIsOver(b) == b < main.batch \/ (b = main.batch /\ main.pc # "spawn")

WaitGroupInv ==
    \A b \in 1 .. Batches :
        /\ waitGroup[b] = Cardinality(Running(b))
        /\ WaitIsOver(b) => Running(b) = {}
        /\ closed[b] => WaitIsOver(b)
====
