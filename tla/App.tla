---- MODULE App ----
(***************************************************************************)
(* The program from start to end: Configure of config/configure.go, then   *)
(* Execute of testcases/app.go - load, LoadKeys, SetupFundingAccount,      *)
(* execute, results, ExportCSV.  Composes Keys, FundingSetup and           *)
(* TestSuite; the chain moves on its own while the funds are set up.       *)
(***************************************************************************)
EXTENDS FundingSetup, TestSuite

CONSTANTS
    Targets,    \* what framework.test may say: a name below, a directory, a file
    Starts      \* how the program may be started: what config.yml and the arguments
                \* come to, what the accounts hold, and the keystore files

\* Of the funding.shards setting: AllShards, a number, or nothing; of the others
\* what is told apart.
Unset == -2
Config == [test : Targets, shards : Int, removeEmpty : BOOLEAN, export : STRING]
Start == [config : Config, holdings : [Accounts -> [Shards -> Nat]],
          files : SUBSET DOMAIN FileAddress]

ASSUME AppAssumption ==
    /\ {"all", "transactions", "staking"} \subseteq Targets
    /\ Starts \subseteq Start

VARIABLES
    phase,      \* what the process is doing
    config      \* the configuration

vars == <<phase, config, keysVars, setupVars, callVars, ledgerVars, suiteVars>>

startVars == <<keysVars, setupVars, callVars, ledgerVars>>

Phases == {"configure", "identify", "load", "private", "keystore", "setup",
           "execute", "export", "over", "exited"}

TypeOK ==
    /\ phase \in Phases
    /\ config \in Config
    /\ LedgerTypeOK /\ CallTypeOK /\ KeysTypeOK /\ SetupTypeOK /\ SuiteTypeOK

Init ==
    /\ phase = "configure"
    /\ \E start \in Starts :
          config = start.config /\ holdings = start.holdings /\ files = start.files
    /\ keystore = {} /\ keyMapping = NoMapping /\ accs = <<>>
    /\ LedgerInit /\ CallInit /\ SetupInit /\ SuiteInit

Goes(from, to) == phase = from /\ phase' = to

\* configureFundingConfig: staking happens in the beacon shard.
FundingShards(test, shards) ==
    IF test = "staking" THEN 0 ELSE IF shards = Unset THEN AllShards ELSE shards

\* configureFrameworkConfig: the names a test target goes by.
NormalizedTest(test) ==
    CASE test \in {"txs", "transactions"} -> "transactions"
      [] test \in {"staking", "validator", "stake"} -> "staking"
      [] test = "" -> "all"
      [] OTHER -> test

\* Configure, or an error of one of its parts.
Configure ==
    /\ \/ /\ Goes("configure", "identify")
          /\ LET test == NormalizedTest(config.test)
             IN  config' = [config EXCEPT !.test = test,
                                          !.shards = FundingShards(test, @)]
       \/ Goes("configure", "over") /\ UNCHANGED config
    /\ UNCHANGED <<startVars, suiteVars>>

Identify ==
    /\ Goes("identify", "load")
    /\ IdentifySections(config.test)
    /\ UNCHANGED <<config, startVars>>

Load ==
    /\ IF sections # {} THEN phase = "load" /\ LoadSection(config.test) /\ UNCHANGED phase
       ELSE Goes("load", "private") /\ UNCHANGED suiteVars
    /\ UNCHANGED <<config, startVars>>

LoadKeys ==
    /\ \/ Goes("private", "keystore") /\ LoadPrivateKeys(config.removeEmpty)
       \/ Goes("private", "over") /\ LoadKeysFails(ToSet(PrivateKeys), keyMapping)
       \/ Goes("keystore", "setup") /\ LoadKeystoreKeys(config.removeEmpty)
       \/ /\ Goes("keystore", "over") /\ ~PanicsOnKeyFile
          /\ LoadKeysFails(DOMAIN IdentifiedKeys, IdentifiedKeys)
       \/ Goes("keystore", "exited") /\ PanicsOnKeyFile /\ UNCHANGED keysVars
    /\ UNCHANGED <<config, setupVars, callVars, ledgerVars, suiteVars>>

\* One step of SetupFundingAccount or of a transfer it started.
Setup ==
    /\ phase = "setup" /\ setup.pc \notin {"done", "failed"}
    /\ SetupStep(config.test, config.shards)
    /\ UNCHANGED <<phase, config, suiteVars>>

SetupTransfer(p) ==
    /\ phase = "setup"
    /\ SetupCall(p)
    /\ phase' = IF exited' THEN "exited" ELSE phase
    /\ UNCHANGED <<config, suiteVars>>

\* An error of prepare ends Execute; without test cases there is nothing to do.
SetupOver ==
    /\ setup.pc \in {"done", "failed"}
    /\ Goes("setup", IF setup.pc = "failed" \/ testCases = <<>> THEN "over" ELSE "execute")
    /\ UNCHANGED <<config, startVars, suiteVars>>

Execute ==
    /\ phase = "execute" /\ ExecuteNext
    /\ UNCHANGED <<phase, config, startVars>>

\* A missing funding key makes a scenario end the process: no result is shown
\* and none is exported.
ExitWhileExecuting ==
    /\ next < Len(testCases) /\ testCases[next + 1].execute
    /\ Goes("execute", "exited")
    /\ UNCHANGED <<config, startVars, suiteVars>>

Results ==
    /\ Goes("execute", "export")
    /\ CountResults
    /\ UNCHANGED <<config, startVars>>

Export ==
    /\ Goes("export", "over")
    /\ IF config.export = "csv" THEN ExportCSV ELSE UNCHANGED suiteVars
    /\ UNCHANGED <<config, startVars>>

Stopped == phase \in {"over", "exited"} /\ UNCHANGED vars

Chain == phase = "setup" /\ SetupLedgerNext /\ UNCHANGED <<phase, config, suiteVars>>

AppStep ==
    \/ Configure \/ Identify \/ Load \/ LoadKeys \/ Setup \/ SetupOver
    \/ Execute \/ ExitWhileExecuting \/ Results \/ Export

Next == AppStep \/ (\E p \in Payments : SetupTransfer(p)) \/ Chain \/ Stopped

\* The process goes on, in main and in each goroutine, whatever the chain does.
Spec ==
    /\ Init /\ [][Next]_vars
    /\ WF_vars(AppStep)
    /\ \A p \in Payments : WF_vars(SetupTransfer(p))
----
\* remove_empty deletes nothing of an account that is kept: every account that
\* LoadKeys returned has its key, and the only keystore files that disappear
\* are those of accounts that hold no more than the minimum over all shards.
FundedKeysKept ==
    [][/\ ToSet(accs') \subseteq keystore'
       /\ \A f \in files \ files' : ~HasFunds(FileAddress[f])]_vars

\* A setup that succeeds while everything is tested leaves the minimum in every
\* shard but the beacon shard, although sweeps and top-ups report success when
\* they have only run out of attempts.
SetupMeansFunded ==
    setup.pc = "done" /\ config.test = "all" =>
        \A s \in Shards \ {0} : holdings[Funder][s] >= MinimumFunds

\* A retry asks for the nonce again, so that a transfer may be made more than
\* once, but never more often than attempts were used.
PaidAtMostAttempts ==
    \A p \in Payments :
        Cardinality(PaidBy(p)) <= Attempts - call[p].attempts
                                  + IF call[p].pc \in {"receipt", "success"} THEN 1 ELSE 0

\* Once the sweeps were awaited none of them is sent any more, and what staking
\* tests touch is the beacon shard alone.
SweepsStayInBounds ==
    [][\A t \in pool' \ pool :
          /\ IsSweep(t.to) => setup.pc \in {"sweep", "wait"}
          /\ config.test = "staking" => t.from[2] = 0]_vars

\* Only a funding account whose key is missing ends the process during the
\* setup: no source account does, although their transfers could.
ExitsForTheFunderAlone ==
    exited => Funder \notin keystore

\* The program ends, whatever the chain does with its transactions.
ProgramEnds == <>(phase \in {"over", "exited"})
====
