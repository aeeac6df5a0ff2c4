---- MODULE MCSingleSender ----
(* SingleSender with two shards for TLC; every test case has its own account names. *)
EXTENDS SingleSender

MCAccounts == Cases \X {"sender", "receiver"}
MCNames == [a \in MCAccounts |-> a]
====
