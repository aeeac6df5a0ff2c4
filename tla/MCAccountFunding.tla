---- MODULE MCAccountFunding ----
(* AccountFunding on small batches for TLC. *)
EXTENDS AccountFunding

MCSenders == {FundingAccount}
MCPayments == Accounts
MCCount == <<2, 1>>
====
