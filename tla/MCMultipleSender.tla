---- MODULE MCMultipleSender ----
(* MultipleSender for TLC: the receiver is account 0, the senders are 1, 2, ... *)
EXTENDS MultipleSender

MCNames == [a \in TestAccountIds |-> a]
====
