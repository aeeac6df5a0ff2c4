---- MODULE MCMultipleReceiver ----
(* MultipleReceiverInvalidNonce for TLC: the sender is account 0. *)
EXTENDS MultipleReceiverInvalidNonce

MCNames == [a \in TestAccountIds |-> a]
====
