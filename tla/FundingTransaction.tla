---- MODULE FundingTransaction ----
(***************************************************************************)
(* PerformFundingTransaction of funding/manager.go, with the calls of      *)
(* transactions.SendTransaction it makes: one frame per call, any number   *)
(* of calls running at once.  A call for payment p is started by Enter; it *)
(* has returned when its pc is one of ReturnedNil or "insufficient".       *)
(***************************************************************************)
EXTENDS Ledger

CONSTANTS
    Attempts,   \* Funding.Retry.Attempts
    GasPrice    \* Funding.Gas.Price, in steps of BumpGasPrice

ASSUME FundingTransactionAssumption == Attempts \in Nat /\ GasPrice \in Nat

VARIABLES
    call,       \* call[p]: the frame of the call that pays p
    exited      \* os.Exit(1) was reached: the whole process is gone

callVars == <<call, exited>>

\* "success" is the break after a successful receipt, "exhausted" the return
\* once no attempts are left, "skipped" the amount that is not positive: the
\* caller sees nil in all three.
ReturnedNil == {"success", "exhausted", "skipped"}
Returned == ReturnedNil \cup {"insufficient"}
CallPC == {"idle", "loop", "send", "receipt"} \cup Returned

Frame == [pc : CallPC, from : Senders, given : Int, nonce : Nat,
          attempts : 0 .. Attempts, gasPrice : Nat]

\* BumpGasPrice of go-lib: the next attempt offers a strictly higher price.
BumpGasPrice(price) == price + 1

CallTypeOK ==
    /\ call \in [Payments -> Frame]
    /\ exited \in BOOLEAN

CallInit ==
    /\ call = [p \in Payments |-> [pc |-> "idle", from |-> CHOOSE s \in Senders : TRUE,
                                  given |-> -1, nonce |-> 0,
                                  attempts |-> Attempts, gasPrice |-> GasPrice]]
    /\ exited = FALSE

\* The call: the amount must be positive for the loop to be entered.
Enter(p, s, given, positive) ==
    call' = [call EXCEPT ![p] = [pc |-> IF positive THEN "loop" ELSE "skipped",
                                 from |-> s, given |-> given, nonce |-> 0,
                                 attempts |-> Attempts, gasPrice |-> GasPrice]]

\* The transaction an attempt signs.
TxOf(p) == [from |-> call[p].from, nonce |-> call[p].nonce, to |-> p,
            price |-> call[p].gasPrice]

Goto(p, pc) == call' = [call EXCEPT ![p].pc = pc]

\* attempts--, and back to the head of the loop.
Retry(p, price) ==
    call' = [call EXCEPT ![p] = [call[p] EXCEPT !.pc = "loop",
                                                !.attempts = call[p].attempts - 1,
                                                !.gasPrice = price]]
\* Fault: an unrecognised error continues the loop without using up an attempt.
RetryForFree(p) == Goto(p, "loop")

RetrySamePrice(p) == Retry(p, call[p].gasPrice)
RetryHigherPrice(p) == Retry(p, BumpGasPrice(call[p].gasPrice))

\* return nil once no attempts are left.
GiveUp(p) ==
    /\ call[p].pc = "loop" /\ call[p].attempts = 0
    /\ Goto(p, "exhausted")
    /\ UNCHANGED <<exited, ledgerVars>>

\* Fault: every attempt asks the node for the nonce, also when one was given.
ResolvedAfresh(p) == CurrentNonces(call[p].from)

\* The nonces TransactionPrerequisites may come back with: a negative nonce
\* asks the node, anything else is taken as given.
ResolvedNonces(p) ==
    IF call[p].given < 0 THEN CurrentNonces(call[p].from) ELSE {call[p].given}

\* TransactionPrerequisites: the nonce is settled before the transaction is
\* signed and sent; without an RPC client the attempt is over.
Prepare(p) ==
    /\ call[p].pc = "loop" /\ call[p].attempts > 0
    /\ \/ \E n \in ResolvedNonces(p) :
             call' = [call EXCEPT ![p] = [call[p] EXCEPT !.pc = "send", !.nonce = n]]
       \/ RetrySamePrice(p)
    /\ UNCHANGED <<exited, ledgerVars>>

\* The node accepts the transaction and its hash reaches the caller.
SendAccepted(p) ==
    /\ call[p].pc = "send"
    /\ Accept(TxOf(p))
    /\ Goto(p, "receipt")
    /\ UNCHANGED exited

\* The node accepts the transaction but the answer is lost: an error that
\* none of the branches recognises.
SendAnswerLost(p) ==
    /\ call[p].pc = "send"
    /\ Accept(TxOf(p))
    /\ RetrySamePrice(p)
    /\ UNCHANGED exited

\* ErrUnderpriced (the node's floor), ErrReplaceUnderpriced, ErrIntrinsicGas.
SendUnderpriced(p) ==
    /\ call[p].pc = "send"
    /\ ~NonceTooLow(TxOf(p))
    /\ RetryHigherPrice(p)
    /\ UNCHANGED <<exited, ledgerVars>>

\* Any other error: nonce too low, a hash the node already knows, a node that
\* cannot be reached.
SendRefused(p) ==
    /\ call[p].pc = "send"
    /\ RetrySamePrice(p)
    /\ UNCHANGED <<exited, ledgerVars>>

\* ErrInsufficientFunds is handed to the caller.
SendInsufficient(p) ==
    /\ call[p].pc = "send"
    /\ Goto(p, "insufficient")
    /\ UNCHANGED <<exited, ledgerVars>>

\* ErrMissingAccount ends the process, whatever the other calls are doing.
SendMissingAccount(p) ==
    /\ call[p].pc = "send"
    /\ exited' = TRUE
    /\ UNCHANGED <<call, ledgerVars>>

\* Fault: a receipt counts as success whatever its status.
ReceiptPresent(p) ==
    /\ call[p].pc = "receipt"
    /\ \E ok \in BOOLEAN : [tx |-> TxOf(p), ok |-> ok] \in chain
    /\ Goto(p, "success")
    /\ UNCHANGED <<exited, ledgerVars>>

\* IsTransactionSuccessful: the receipt of the transaction just sent is there
\* and reports success.
ReceiptSuccessful(p) ==
    /\ call[p].pc = "receipt"
    /\ [tx |-> TxOf(p), ok |-> TRUE] \in chain
    /\ Goto(p, "success")
    /\ UNCHANGED <<exited, ledgerVars>>

\* The transaction failed on chain, or Funding.Timeout passed without a
\* receipt (it may still be mined later, or be mined and not yet visible).
ReceiptUnsuccessful(p) ==
    /\ call[p].pc = "receipt"
    /\ RetryHigherPrice(p)
    /\ UNCHANGED <<exited, ledgerVars>>

Send(p) ==
    \/ SendAccepted(p)
    \/ SendAnswerLost(p)
    \/ SendUnderpriced(p)
    \/ SendRefused(p)
    \/ SendInsufficient(p)
    \/ SendMissingAccount(p)

AwaitReceipt(p) == ReceiptSuccessful(p) \/ ReceiptUnsuccessful(p)

CallStep(p) == GiveUp(p) \/ Prepare(p) \/ Send(p) \/ AwaitReceipt(p)
====
