---- MODULE FundingPromise ----
(***************************************************************************)
(* What GenerateAndFundAccounts promises the scenarios that call it,       *)
(* whatever happens to its transactions: batches do not overlap, a batch   *)
(* hands out some of its own accounts, none twice, and an account is paid  *)
(* at most once - possibly after its batch has returned, since a payment   *)
(* that timed out may still be mined.                                      *)
(***************************************************************************)
EXTENDS Integers, Sequences, SequencesExt

CONSTANTS
    Batches,    \* how many batches are asked for
    Accounts    \* the accounts: <<batch, index>>

VARIABLES
    batch,      \* the last batch that was asked for
    open,       \* it has not returned yet
    paidAt,     \* paidAt[p]: the nonces at which p was paid
    accs        \* accs[b]: what batch b handed out

vars == <<batch, open, paidAt, accs>>

Init ==
    /\ batch = 0 /\ open = FALSE
    /\ paidAt = [p \in Accounts |-> {}]
    /\ accs = [b \in 1 .. Batches |-> <<>>]

Begin ==
    /\ ~open /\ batch < Batches
    /\ batch' = batch + 1 /\ open' \in BOOLEAN
    /\ UNCHANGED <<paidAt, accs>>

PayOnce(p) ==
    /\ p[1] <= batch
    /\ paidAt[p] = {}
    /\ \E nonce \in paidAt'[p] : paidAt' = [paidAt EXCEPT ![p] = {nonce}]
    /\ UNCHANGED <<batch, open, accs>>

Return ==
    /\ open /\ open' = FALSE
    /\ LET handedOut == accs'[batch]
       IN  /\ accs' = [accs EXCEPT ![batch] = handedOut]
           /\ IsInjective(handedOut)
           /\ \A p \in ToSet(handedOut) : p \in Accounts /\ p[1] = batch
    /\ UNCHANGED <<batch, paidAt>>

Next == Begin \/ Return \/ \E p \in Accounts : PayOnce(p)

Spec == Init /\ [][Next]_vars
====
