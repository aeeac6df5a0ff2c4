---- MODULE Ledger ----
(***************************************************************************)
(* The Harmony chain as the framework meets it through go-lib and go-sdk:  *)
(* a pool of signed transactions, one per nonce of a sender, and the       *)
(* transactions mined so far.  The node and the SDK are not part of the    *)
(* repository, so everything here is external: it is what the retry loop   *)
(* of funding/manager.go and transactions/transactions.go rely on.         *)
(***************************************************************************)
EXTENDS Integers, FiniteSets

CONSTANTS
    Senders,    \* an account in a shard: the owner of one sequence of nonces
    Payments    \* what a transaction pays: one transfer somebody asked for

ASSUME LedgerAssumption == Senders # {}

VARIABLES
    mined,      \* mined[s]: how many transactions of s the chain holds
    pool,       \* the transactions the node has accepted and not yet mined
    chain       \* the receipts of the mined transactions

ledgerVars == <<mined, pool, chain>>

\* A transaction names its sender and nonce, whom it pays and its gas price:
\* two transactions that agree on all four have the same hash.
Transaction == [from : Senders, nonce : Nat, to : Payments, price : Nat]
Receipt == [tx : Transaction, ok : BOOLEAN]

LedgerTypeOK ==
    /\ mined \in [Senders -> Nat]
    /\ pool \subseteq Transaction
    /\ chain \subseteq Receipt

LedgerInit ==
    /\ mined = [s \in Senders |-> 0]
    /\ pool = {}
    /\ chain = {}

SameSlot(t, u) == t.from = u.from /\ t.nonce = u.nonce

NonceTooLow(t) == t.nonce < mined[t.from]

\* A transaction replaces the one that holds its slot only at a higher price.
ReplaceUnderpriced(t) == \E u \in pool : SameSlot(t, u) /\ u # t /\ t.price <= u.price

Acceptable(t) == t \notin pool /\ ~NonceTooLow(t) /\ ~ReplaceUnderpriced(t)

Accept(t) ==
    /\ Acceptable(t)
    /\ pool' = {u \in pool : ~SameSlot(t, u)} \cup {t}
    /\ UNCHANGED <<mined, chain>>

\* What the node may answer when asked for the nonce of s: the number of its
\* mined transactions, or the first nonce neither mined nor in the pool.
CurrentNonces(s) ==
    LET taken == {t.nonce : t \in {u \in pool : u.from = s}}
        free == {n \in mined[s] .. mined[s] + Cardinality(taken) : n \notin taken}
    IN  {mined[s]} \cup {n \in free : \A m \in free : n <= m}

\* A block takes the next transaction of a sender; whether it succeeds or
\* fails on chain, its nonce is consumed.
MineTransaction(t, ok) ==
    /\ t.nonce = mined[t.from]
    /\ pool' = pool \ {t}
    /\ mined' = [mined EXCEPT ![t.from] = @ + 1]
    /\ chain' = chain \cup {[tx |-> t, ok |-> ok]}

Mine == \E t \in pool, ok \in BOOLEAN : MineTransaction(t, ok)

\* The node evicts a transaction from its pool.
Evict ==
    /\ \E t \in pool : pool' = pool \ {t}
    /\ UNCHANGED <<mined, chain>>

LedgerNext == Mine \/ Evict

\* The receipts that paid p.
PaidBy(p) == {r \in chain : r.ok /\ r.tx.to = p}
====
