---- MODULE MCApp ----
(***************************************************************************)
(* App for TLC: two source accounts, two shards, a nested directory.       *)
(***************************************************************************)
EXTENDS App

MCAddresses == {"a", "b"}
MCSenders == {"a", "b", "funder"} \X {0, 1}
MCPayments == (0 .. 3) \X {0, 1}
MCPrivateKeys == <<"a">>
MCFileAddress == <<"a", "b", "b", NoAddress>>

MCTargets == {"", "all", "transactions", "stake", "staking", "t2"}
MCConfig(test, shards, removeEmpty, export) ==
    [test |-> test, shards |-> shards, removeEmpty |-> removeEmpty, export |-> export]
MCHolding(a, b, funder) == [x \in {"a", "b", "funder"} |->
    LET held == CASE x = "a" -> a [] x = "b" -> b [] x = "funder" -> funder
    IN  [s \in {0, 1} |-> held[s + 1]]]

\* Funds that reach shard 1 by a sweep or by a top-up; the funding account's
\* own funds alone, enough for a top-up to be paid twice, and every key removed;
\* staking, with funds in both shards; a funded account with a private key and a
\* keystore file; a JSON file that is no keystore.
MCStarts == {
    [config |-> MCConfig("all", 1, TRUE, "csv"), files |-> {2, 3},
     holdings |-> MCHolding(<<0, 0>>, <<0, 3>>, <<4, 0>>)],
    [config |-> MCConfig("", Unset, TRUE, "csv"), files |-> {1, 2},
     holdings |-> MCHolding(<<0, 0>>, <<1, 1>>, <<8, 1>>)],
    [config |-> MCConfig("stake", AllShards, FALSE, ""), files |-> {},
     holdings |-> MCHolding(<<2, 2>>, <<0, 0>>, <<0, 0>>)],
    [config |-> MCConfig("t2", 1, TRUE, "csv"), files |-> {1},
     holdings |-> MCHolding(<<6, 0>>, <<0, 0>>, <<1, 0>>)],
    [config |-> MCConfig("t2", 0, TRUE, "csv"), files |-> {4},
     holdings |-> MCHolding(<<6, 0>>, <<0, 0>>, <<0, 0>>)]}

MCDirs == <<"staking", "staking/validator", "transactions">>
MCFiles == {"s1", "v1", "t2", "t10"}
MCDirOf == [s1 |-> "staking", v1 |-> "staking/validator", t2 |-> "transactions", t10 |-> "transactions"]
MCRoot == [f \in MCFiles |-> IF f \in {"s1", "v1"} THEN "staking" ELSE "transactions"]
MCWithin == [d \in ToSet(MCDirs) |-> IF d = "staking" THEN {"staking", "staking/validator"} ELSE {d}]
MCNumber == [s1 |-> 1, v1 |-> -1, t2 |-> 2, t10 |-> 10]
MCRank == [s1 |-> 1, v1 |-> 4, t2 |-> 3, t10 |-> 2]
MCContent == [f \in MCFiles |-> [valid |-> TRUE, execute |-> f # "s1", expected |-> f = "t2"]]
====
