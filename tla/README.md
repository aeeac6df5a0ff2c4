# TLA+ models of harmony-tf

harmony-tf runs test cases against a Harmony network: it funds temporary
accounts, sends the transactions a test case describes, looks at balances and
staking state, decides whether the test case came out as expected, and sends
what is left back to the funding account. The program is a client: the node, the
transaction pool, the chain, and the go-lib and go-sdk libraries are not in this
repository. What is hard in it is what happens between its goroutines, between
its retries and a node that answers late or not at all, and between one test
case and the next, which share the keystore, the RPC settings, the funding
account's nonce and the shared validator.

Paths below are relative to the repository. The code is built with Go 1.15, so
the variable of a `for ... range` loop is one variable for all its iterations.

## Inventory

| Component | State it keeps | Operations | Interacts with | What is hard, and what makes it correct |
|---|---|---|---|---|
| Batch funding, `funding/manager.go:165-229` | index and nonce of the spawning loop, a `WaitGroup`, a buffered channel, the accounts returned | `GenerateAndFundAccounts`, `generateAndFundAccount` | accounts, funding transactions; called by the multiple-sender scenario | goroutines pay from one account at once with nonces fixed before they start; a batch follows another while old transactions are still in the pool. No account may be paid twice, payments follow the index, nothing is sent on a closed channel, the batch returns |
| Funding transaction, `funding/manager.go:278-316`, `transactions/transactions.go` | attempts left, gas price, nonce | `PerformFundingTransaction`, `SendTransaction`, `TransactionPrerequisites` | node | lost answers, underpriced replacements, receipts that are late or failed, insufficient funds, `os.Exit` |
| Funding setup, `funding/manager.go:24-163`, `balances/balances.go:39-57` | address of the funding account | `SetupFundingAccount`, `FundFundingAccount`, `FundFundingAccountInShard`, `GetExpectedShardBalance` | keys, balances, funding transactions | several sources at once, implicit nonces; transfers that gave up report success. The tests may only start when the funds are there |
| Funding calculations, `funding/common.go` | none | `CalculateFundingDetails` and its parts | balances | the error of a zero balance is nil (47-58) |
| RPC settings, `config/config.go:156-195` | prefix, SDK prefix, method, node list, chain id, and the saved previous prefix and chain id | `Initialize`, `ChangeRPCSettings`, `RevertRPCSettings` | read by every request to the node | global; changed around concurrent sends; must be restored after every send |
| Sending, `rpc/rpc.go` | none | `SendTransaction`, `SendGenericTransaction`, chain ids | RPC settings, transactions | an `eth` case signs for another chain id |
| Accounts, `accounts/accounts.go` | keystore (files) | `GenerateAccount`, `AsyncGenerateMultipleAccounts` | keystore | a key of the same name is replaced; concurrent generation |
| Teardown, `testing/teardown.go` | balance read, amount to return | `Teardown`, `AsyncTeardown` | balances, transactions, keystore | read, send and remove are separate; the first two may fail |
| Single-transfer scenarios, `scenarios/transactions/standard.go`, `sameaccount.go` | locals, the test case's result and error | one function each | all of the above | a transfer may be late, cross a shard, or arrive after it was reported failed |
| Multiple senders, `scenarios/transactions/multiplesender.go` | same, and a channel of responses | scenario, sender goroutine, teardown loop | batch funding | settings around all goroutines, counting, the loop variable of the teardown |
| Multiple receivers, one nonce, `multiplereceiverinvalidnonce.go` | same | same | pool | transactions compete for one slot |
| Delegation scenarios, `scenarios/staking/delegation/**/standard.go`, `nextepoch.go`, `staking/*.go`, `testing/funding.go` | locals, `Framework.CurrentValidator` | one function per scenario, `ReuseOrCreateValidator`, `Basic*` helpers | chain, keystore | a validator shared by test cases; waiting for an epoch |
| Validator and refusal scenarios, `scenarios/staking/validator/**`, `**/invalidaddress.go`, `**/nonexisting.go` | same | one function per scenario | chain, keystore | what must be refused may not be taken for a success because something before it was late; which accounts each path tears down |
| Editing a validator, `scenarios/staking/validator/edit/standard.go`, `testing/parameters/editvalidatorparameters.go` | detected changes and their number, kept in the test case | `DetectChanges`, `EvaluateChanges`, the edit loop | chain | repeated edits over the same counters |
| Test case, `testing/testcase.go` | executed, result, error, times | `ErrorOccurred`, `HandleError`, `Successful` | every scenario | an error must not leave a positive result |
| Suite, `testcases/app.go`, `load.go` | test cases, `Results`, `Dismissed`, `Failed` | load, prepare, execute, results | all scenarios, export | every executed case in exactly the lists the summary is made of |
| Keys, `keys/keys.go`, `balances/balances.go:59-76` | `KeyMapping` | `LoadKeys` and its parts, `FilterKeys` | keystore, file system | removes keys and their source files; the same account may come from both sources |
| Program, `config/configure.go`, `testcases/app.go` | configuration | `Configure`, `Execute`, `prepare` | all of the above | names decide which files are run and from which shards the funds come; an error ends it at any point |
| Export, `export/csv.go` | none | `ExportCSV` | suite | its three parts have to agree with the counts |
| Parameters, logger, BLS, utilities | none, or read once at start | | | pure computation or output |

## Modules

Components are written so that the ones that interact are composed by
`EXTENDS`: each declares its own variables and its steps, and the module that
uses it says what the rest of the state does.

| Module | Models | State and actions |
|---|---|---|
| `Ledger` | node, pool and chain (external) | `mined`, `pool`, `chain`; one slot per sender and nonce, a higher price replaces, `MineTransaction` (success or failure on chain), `Evict` |
| `FundingTransaction` | `PerformFundingTransaction` and the `SendTransaction` below it | `call[p]` is the frame of the call paying `p`; `Prepare` resolves the nonce, `SendAccepted`, `SendAnswerLost`, `SendUnderpriced`, `SendRefused`, `SendInsufficient`, `SendMissingAccount` are what an attempt can meet, `ReceiptSuccessful`, `ReceiptUnsuccessful` end its wait, `GiveUp` is the nil return after the last attempt |
| `AccountFunding` | `GenerateAndFundAccounts` over `FundingTransaction` | `main` (the caller), `worker[p]` (its goroutines), `waitGroup`, `channel`, `closed`, `accs`; several batches, one after the other, over one ledger |
| `FundingPromise` | what a batch promises its caller | refined by `AccountFunding` (`KeepsPromise`); `MultipleSender` uses what it allows instead of the whole batch machinery |
| `RPCSettings` | `Network.ChangeRPCSettings`, `RevertRPCSettings`, and the switch before a send | `settings`, `history`; `TargetShard` is the shard a transfer is sent to under a prefix |
| `TestAccounts` | keystore, balances in units, `Teardown` in three steps | `held`, `bal`, `tear` |
| `AsyncTeardowns` | the teardown loops over a shared loop variable | `iteration` is what the variable holds; a goroutine reads it at every step it takes |
| `SingleSender` | the two single-transfer scenarios, cases one after the other | `case[t]`, one action per call of the scenario, an error path wherever the code has one |
| `MultipleSender` | the multiple-sender scenario | the scenario's steps, `SenderBalance`, `SenderSend`, `SenderAwait`, `SenderRespond` per goroutine, teardown goroutines, arriving payments |
| `MultipleReceiverInvalidNonce` | the one-nonce scenario, its transfers through `Ledger` | the same shape, `txs` without the shadowed responses |
| `DelegationScenarios` | delegate, undelegate, redelegate, next epoch, and a one-edit edit, cases one after the other | `case` (one record with the script of the scenario), `held`, `shared` (`CurrentValidator`), the chain's validators, pending and mined operations, epoch |
| `EditValidator` | the edit loop with its counters, as a part of a scenario | `edit`, `applied` (fields on the chain), `tx` |
| `ValidatorScenarios` | the scenarios that create or edit a validator and those that expect a refusal, over `EditValidator` | `case`, `held`, `validators`, `delegated`, `pending`, `mined`; `Script` says which accounts and transactions a scenario goes through, what weighs in, whose account an error hands to `HandleError`; `TornDown` and `Disabled` say how it ends |
| `Orders` | what a loop that keeps some elements of a list leaves | positions in ascending order (`InOrder`), which is how `Keys` and `TestSuite` write their lists |
| `Keys` | `LoadKeys`: import, filter, removal | `keystore`, `files` (positions in the directory's listing), `keyMapping`, `accs`, and what the accounts hold |
| `FundingSetup` | `SetupFundingAccount` over `FundingTransaction` and `Keys` | `setup` (the caller), `amount[p]`; a payment is a sweep `<<position, shard>>` or a top-up `<<0, shard>>`; `holdings` change as the transfers are mined (`SetupMine`) |
| `TestSuite` | finding, ordering, parsing, executing, counting and exporting test cases | `sections` (positions of directories), `testCases`, `next`, `lists`, `report`; a scenario is one step that sets executed and result |
| `App` | the program: `Configure`, then `Execute`, composing `FundingSetup` and `TestSuite` | `phase`, `config`; main is sequential, the transfers of the setup are its goroutines |

The theorems are in a module next to each specification: `AccountFundingProofs`,
`SingleSenderProofs`, `MultipleSenderProofs`, `MultipleReceiverProofs`, `DelegationProofs`,
`ValidatorProofs` and `AppProofs`; `TestAccountsProofs` holds the lemmas about balances
and teardowns that the scenarios share.

`MC*` modules give the constants their values for TLC. Operators commented
`Fault:` next to an action are mutated forms of it; the specification never uses
them. Each is a plausible slip, and `PROJECT.json` pairs it with the property that notices.

## Abstractions

* Amounts are units, gas is less than one unit; decimal arithmetic, formatting,
  logging, transaction payloads and signatures are left out.
* A request to the node returns an answer or an error. Which one is open
  wherever the code distinguishes them, and what it says is bounded by what
  the chain holds: a receipt is only shown for what was mined, a refusal or a
  late receipt says nothing about the future.
* The chain promises no progress. A transaction may be mined late, after its
  caller has given up, or never, or be evicted; one that crosses shards arrives later.
* In `SingleSender` and the one-nonce scenario, the funding step is summarised by
  how often and how late it pays (`MaxPayments`), since with nonce -1 a
  retry may pay twice; in `MultipleSender` by `FundingPromise`.
* `DelegationScenarios` has no balances: a teardown is the removal of a key.
  The result of a redelegation also depends on a balance check, which is a
  choice here.
* In `ValidatorScenarios` the chain accepts a staking transaction only when the
  account it is about has signed it; that, the uniqueness of BLS keys and the
  existence of what a transaction names are its only rules. Ending balances are a choice.
  The disable at the end of a case is an edit like any other: once mined, it overwrites the field `StatusField`.
* `App` starts from a list of configurations, holdings and key files (`Starts`).
  The files below the keys directory are those it starts with. A parsed
  configuration is modelled, not its text; `Targets` are the values framework.test may hold: `all`,
  `transactions`, `staking`, and the names of directories and files. `funding.shards` is a number, all shards, or unset. What the scenarios do in `execute` is left to their own modules.
* A teardown goroutine reads the shared loop variable at every step. Go does not make
  the read of an account structure atomic: `TornRemove` is the goroutine that reads a
  half-written name when it comes to the removal, and removes nothing. Its balance
  and its sweep are always those of one account of the list.
* `RemoveAccount` removes an account by its identity, the code by its name. The names
  of one case differ, by an index or by a role, so that the two agree.
* `KeysAssumption` keeps the funding account apart from the source accounts. The
  configuration does not (`config/configure.go:204-210`): with the funding account among the
  sources, the sweeps would go from it to itself.
* The transfers of a teardown are sent with timeout 0 and are modelled as
  accepted or not; one mined after the test case is over changes nothing a property looks at.

## Runs

Bounds were chosen so that every action and every disjunct fires, and so that
the actor a property is about has at least one partner: two goroutines, two
batches or two test cases. State counts are distinct states.

| Run | Instance | Shows |
|---|---|---|
| `AccountFunding_funding` | a batch of 2 accounts, then one of 1, 2 attempts each (560 398 states) | no account is paid twice by retries or by the next batch, payments follow the index, a successful call means paid, all generated accounts are returned once, no send on a closed channel, the `WaitGroup` counts its goroutines, only running calls spend; the batches return and implement `FundingPromise` |
| `SingleSender_suite` | 2 cases of either scenario, prefix and target shard (506 342 states) | settings are restored after every send, a positive result means a transfer that was mined and has arrived in the shard the case names, a completed standard case leaves no key, every case ends |
| `SingleSender_omitted` | 1 case, no `rpc_prefix` configured | violation: the settings are not restored |
| `MultipleSender_settle` | 2 senders, 2 shards (704 670 states) | successes are counted once and are real, the result rests on transfers that arrived in the shard named, the settings hold for all goroutines, the receiver's and the last sender's keys are removed, the case ends |
| `MultipleSender_keysleft` | 2 senders, 1 shard | violation: a key stays although the scenario got to its teardown |
| `MultipleReceiver_onenonce` | 2 receivers, 2 shards, the sender funded never, once or twice (113 134 states) | one of the competing transfers pays at most, the case ends |
| `Delegation_shared` | 2 cases of any of five scenarios, 2 epochs, 1 poll (644 730 states) | results are earned, the shared validator stays active, cases without an error clean up, every case ends provided epochs can be read from some time on |
| `Delegation_epochwait` | 1 next-epoch case | violation: the case does not end while the epoch cannot be read |
| `Validator_scenarios` | 1 case of any of eleven scenarios, with or without a shared validator whose key may be gone; 3 fields, any subset asked, 1 edit (12 608 states) | what the chain must refuse is never reported as a success, however late the transactions before it; a positive result is what the chain holds; an edit is evaluated as it should be; a case without an error tears down the accounts its scenario goes through; the shared validator survives every case without an error; every case ends |
| `Validator_miscount` | 3 fields, 2 edits | violation: a second edit that was successful is evaluated as failed |
| `Validator_untried` | 1 delegation with a wrong sender | violation: the delegation is never sent |
| `App_program` | 5 starts: funds that reach the second shard by a sweep or by a top-up; the funding account's own funds, enough for a top-up to be paid twice, and every key removed; staking; a funded account with a private key and a keystore file; a key file without an address. 2 source accounts, 2 shards, 2 attempts, 1 poll; 4 test case files, one directory in another (553 310 states) | tests start only with the minimum in every shard; a transfer is paid at most once per attempt; no sweep outlives the setup and staking takes nothing from other shards; keys and files of accounts that are kept stay; only a missing funding key ends the process; test cases are in numerical order, each executed one in exactly the lists reported and exported; the program ends |

The type invariants are proved (see below). `App` checks its `TypeOK` in its run as well; the other
modules' hold on the instances above and are not among the runs' properties.

Two goroutines are enough for the pairwise hazards here: every property that
relates goroutines relates two of them, or counts them all; the theorems cover
any number of goroutines, accounts, test cases and attempts. Two batches or cases are enough for what one leaves to the next.
The batch run has a second batch of one account: what a late payment of the first does to
the second needs no more, and its theorems do not depend on it. The scripts of
`ValidatorScenarios` share nothing but the validator of an earlier case, so that one
case is run from every state another may have left it. In `App_program` units are
small: the gas costs one, the minimum is two, so that each balance is at one side
or the other of every comparison the setup makes.

### Fairness

Weak fairness on the main goroutine and on every other goroutine of a model: the
Go scheduler runs each runnable goroutine, and every request to the node comes
back, since the SDK polls for a receipt a limited time (the timeout argument of each
send) and reports errors. Nothing is assumed of the chain: mining, eviction,
arrival and epochs may never happen. `os.Exit` stops every goroutine, so
`BatchReturns` reads "returned or exited". In `App` it is weak fairness on main
(`AppStep`) and on every transfer goroutine; that the loop over test cases goes on assumes each scenario returns,
which the liveness properties of the scenarios' own runs are about.

## Proofs

Every safety property of the runs is proved for all values of the constants, and so is the
refinement of `FundingPromise`. The theorems are `Spec => []P`, or `Spec => P` for an action
property or a refinement.

| Module | Theorem | Property | What it says, for all values of the constants |
|---|---|---|---|
| `AccountFundingProofs` | `FundingInvariant` | `FundingInv` | the inductive invariant: every transaction of a payment sits in the slot the payment was given, slots follow the batch index, receipts are unique per slot |
|  | `TypeCorrect` |  | the type invariant TypeOK, for any number of batches, accounts per batch and attempts |
|  | `PaysAtMostOnce` | `PaidAtMostOnce` | no account of a batch is funded twice, whatever is retried, lost, mined or evicted |
|  | `PaysInIndexOrder` | `PaidInIndexOrder` | payments of a batch are mined in the order of their index |
|  | `WaitGroupCounts` | `WaitGroupInv` | the WaitGroup counts exactly the goroutines that have not finished, and none is left when the wait is over |
|  | `NeverSendsOnClosedChannel` | `NoSendOnClosedChannel` | no goroutine is about to send once the channel is closed |
|  | `SpendsOnlyWhileRunning` | `OnlyRunningCallsSpend` | the pool grows only by a transaction of a call that is running |
|  | `SuccessIsPaid` | `SuccessMeansPaid` | a call of PerformFundingTransaction that ends by a successful receipt has paid its account, and the payment stays: no later step of the node or of another goroutine takes it back |
|  | `ChannelInvariant` |  | an account that was generated is with its goroutine, in the channel or collected, exactly once: the inductive invariant behind EveryAccountReturned |
|  | `EveryAccountReturned` | `ReturnsEveryAccount` | a batch that has returned gave back every account it generated, each once, in whatever order its goroutines finished |
|  | `ImplementsPromise` | `KeepsPromise` | every step of the goroutines, the retries and the node is a step of FundingPromise or leaves it alone |
| `MultipleReceiverProofs` | `SlotInvariant` |  | all transfers of the test case sit in one slot of its sender, which the chain consumes once: the inductive invariant behind PaysOneReceiver |
|  | `PaysOneReceiver` | `SameNoncePaysOnce` | of any number of transfers with one nonce at most one receiver is paid |
|  | `TypeCorrect` |  | the type invariant: no balance below zero, no more responses than the channel holds, and no teardown goroutine that looks past the list |
| `SingleSenderProofs` | `ResultsAreEarned` | `ResultIsEarned` | a positive result rests on a transfer that was mined and has arrived in the shard the test case names, under either prefix, for any number of cases |
|  | `SettingsAreRestored` | `SettingsRestored` | when the configured prefix is hmy all requests but the sends run under the settings the process started with |
|  | `TypeCorrect` |  | the type invariant: no transfer, sweep or late funding takes a balance below zero |
|  | `StandardIsClean` | `StandardLeavesNoKeys` | a standard case that ran to its end has left no key |
| `MultipleSenderProofs` | `TypeCorrect` |  | the type invariant, over any number of sender and teardown goroutines |
|  | `SettingsAreTheirs` | `SendsUseTheirSettings` | when the configured prefix is hmy every send runs under the settings of the case, and everything after under the configured ones |
|  | `LastKeysAreRemoved` | `LastKeysRemoved` | although the teardowns share a loop variable, the receiver's key and that of the last sender are removed |
|  | `CountsAreEarned` | `CountIsEarned` | every counted success is the mined transfer of a goroutine of its own |
|  | `ResultsAreEarned` | `ResultIsEarned` | a positive result where one is expected means that every sender paid and all payments have arrived in the shard the test case names |
| `DelegationProofs` | `InductiveInvariant` |  | the inductive invariant of any sequence of delegation cases: what the scripts have sent, what the chain holds, and that disabling comes last |
|  | `TypeCorrect` |  | the type invariant, for any number of cases and epochs |
|  | `ResultsAreEarned` | `ResultIsEarned` | a positive result rests on the last step of the script, mined for this case |
|  | `SharedStaysActive` | `SharedValidatorStaysActive` | the validator test cases share stays active through any sequence of cases |
|  | `LeavesNoKeys` | `CleanWithoutError` | a case without an error leaves no key of its own, but for the wait for an epoch |
| `ValidatorProofs` | `RefusalsAreRefused` | `NothingRefusedSucceeds` | no scenario that expects a refusal is ever successful, whatever the node reports and however late it mines |
|  | `ResultsAreEarned` | `ResultIsEarned` | a positive result of a creation or an edit is what the chain says, for any number of edits; afterwards only the status of the edited validator may change, by the disabling of the teardown |
|  | `FirstEditIsEvaluated` |  | the evaluation of the first edit is right, for any fields and any number of edits |
|  | `SingleEditIsEvaluated` | `EvaluatesTheChanges` | with one edit per case every evaluation is right |
|  | `AccountsAreRemoved` | `AccountsRemoved` | whichever transaction a scenario is left by without an error, it has removed the keys of every delegator, of the wrong changer of an edit, of the accounts of a creation that does not expect a wrong sender, and of a validator that is not kept for reuse |
|  | `SharedKeyIsKept` | `SharedValidatorKept` | only an error takes the key of the shared validator |
|  | `TypeCorrect` |  | the type invariant, for any fields and any number of edits |
| `AppProofs` | `TypeCorrect` | `TypeOK` | the type invariant of the whole program, for any start, key files, accounts, shards, test cases and bounds |
|  | `EveryCaseIsAccounted` | `EveryTestCaseAccounted` | every test case that was to be executed is in exactly one list, and summary and export agree, for any suite |
|  | `RunsInNumericalOrder` | `SectionsInNumericalOrder` | a section whose files are all numbered is executed in the order of the numbers, whatever order the sort leaves |
|  | `KeepsFundedKeys` | `FundedKeysKept` | no step removes the key or the file of an account that holds more than the minimum |
|  | `SetupLeavesTheMinimum` | `SetupMeansFunded` | a setup that succeeds has left the minimum in every shard but the beacon shard, whatever its sweeps and top-ups came to |
|  | `PaysPerAttempt` | `PaidAtMostAttempts` | no sweep or top-up is paid more often than attempts were used, whatever the chain delays, drops and mines |
|  | `SweepsAreBounded` | `SweepsStayInBounds` | no sweep is sent after the wait group was passed, and staking runs send from the beacon shard alone |
|  | `EndsForTheFunderAlone` | `ExitsForTheFunderAlone` | a transfer of the setup ends the process only when the funding account has no key |

The hypotheses are the named assumptions that each module makes of its constants: numbers are
natural numbers, attempts may be none, there is at least one sender, shard or case where the code
cannot do without, the addresses are finite and contain no marker. TLC evaluates all of them. Three
theorems have a premise of their own, each for a reason that a run shows:

* `SettingsAreRestored` and `SettingsAreTheirs` suppose `NativeSettings`: the configured prefix is
  `hmy` and the native chain has an id. With an empty prefix `RevertRPCSettings` returns
  at once; `SingleSender_omitted` is that case. With any other, the first revert copies a prefix to the
  go-sdk that it did not start with, because `Network.Initialize` is never called.
* `SingleEditIsEvaluated` supposes `Repeat = 1`. With two edits it is false (`Validator_miscount`);
  `FirstEditIsEvaluated` says what is left of it for any `Repeat`.

The invariants that are not properties themselves (`FundingInv`, `ChannelInv`, `SlotInv`, `ProgramInv` and so
on) were first checked by TLC on the instances of the runs, then proved inductive: one step per action, under
it one per conjunct the action can disturb.

### Batch funding

*Paid at most once.* That an account has one receipt is not inductive. What is:
everything ever sent for an account, in the pool or on the chain, has the nonce
its goroutine was given before it started (`SentInOwnSlot`); an attempt under way carries that
nonce (`FramesKept`), because a nonce that is not negative is never looked up again;
and the chain consumes a slot once (`ReceiptsUnique`). Two receipts of one account
then share a slot and are the same. *Index order* needs that the nonces given in a batch
grow with the index (`NoncesFollowIndex`), for which a goroutine must not start
before its turn (`SpawnedInTurn`). The conjunction is `FundingInv`.

*WaitGroup and channel.* `WaitGroupInv` says that the counter is the number of
goroutines of its batch that have started and not finished, that there are none once the wait is
over, and that a channel is closed only after it. No goroutine can then be about to send on a closed
channel, and none of a batch that has returned can spend. `ChannelInv` says what channel and results hold:
as sets, the accounts of goroutines that have pushed, each once. A batch returns when its counter is zero;
`WaitGroupInv` then says that every account was pushed, and `EveryAccountReturned` follows.

*Success means paid.* A call comes to "success" only past a receipt of the transaction it
sent last (`SuccessHasReceipt`), no other step of any goroutine brings it there, and
the chain only grows (`ChainGrows`): with the types of the frames, the invariant is inductive by itself.

*Refinement.* `KeepsPromise` maps the receipts of an account to the nonces at which
`FundingPromise` paid it, and a caller that has not returned to an open batch. A mined transaction is a new payment because of
`PaidAtMostOnce`; the step by which a batch returns is allowed because of `ChannelInv`; every other
step of caller, goroutines and node leaves the mapped state alone.

### Transaction scenarios

*One nonce.* `SlotInv`: until the nonce is read there is no goroutine and no transaction, from then on
everything in the pool and on the chain is from the sender with that nonce, and the
chain has consumed it at most once. Two receivers cannot both be paid, however many there are. `TeardownInv` adds what
the types of the teardown loop need: a goroutine only runs once its iteration was reached.

*Single transfers.* `CasesInv` orders the cases: a later one owns nothing yet, an earlier one
is over. `TransferInv` carries the result: until the teardown the payee holds the transfer or nothing,
so the balance the scenario compares, that of the shard the case names, can only be met by what has arrived there. An
`eth` transfer never does when that is another shard than the sender's (`Destination`). `SettingsInv` has two states: settings
of the process and no history, or a send under way with the history that takes it
back. `KeysInv` follows the two goroutines of a teardown.

*Many senders.* `CountInv` relates counts over different sets: the responses that say success are as many as
the goroutines that are done with a mined transfer, by the cardinality theorems, since each goroutine responds once.
`ResultInv` says that the receiver holds `Amount` for each arrived transfer: the full balance then means
that all of them arrived. `SettingsInv` is about the phases of the caller, not of the goroutines. `KeysInv`
holds of the last iteration because the loop variable keeps its last value; this is where the same claim about an
earlier sender fails, as `MultipleSender_keysleft` shows.

### Staking scenarios

*Delegation.* The shared validator stays active since whoever is disabled is not
shared (`DisabledLast`): a disabling transaction belongs to a case that is over, or that does not reuse its validator,
and such a case never becomes `CurrentValidator` afterwards.

*Validators.* `Script` is data, so a first lemma spells out the instructions of each of the
eleven scenarios. `CaseInv` and `EditInv` say where the script and the edit loop stand,
`ChainInv` that every validator and delegation on the chain is backed by a mined
transaction of the script, and that the chain broke none of its rules for it, `EarnedInv` that what was weighed
so far was mined. `NothingRefusedSucceeds` follows without looking at the interleavings: a positive result
would need a mined transaction that the rules exclude, whenever it was mined. `TypesInv` bounds the number of
changes the edits add up (`CountBounded`), since no edit adds more than there are fields. `EditInv` holds the fields to what the
chain showed when they were last read: only the disable that ends a case changes one afterwards, which is why `ResultIsEarned`
speaks of the fields it leaves alone (`DisabledFields`). `KeysInv` counts
generated accounts against what `TornDown` takes away at each exit.

### Program

*Suite* (`SuiteInv`). The lists hold positions in ascending order, so that they have no doubles, their lengths are
the numbers of their elements, and the rows of the export correspond to the test cases one to one. For the
order of a section: a sort that keeps what is numbered in order is refuted by the
first position out of place (`LeastElement`). A directory is loaded once (`NotLoaded`), so a section stays what its step made it.

*Setup* (`ProgramInv`). An attempt leaves at most one transaction, which is pending or mined: `Counted`
bounds payments and pending transactions together, which is inductive where the bound on payments alone is not. A checked shard
stays above the minimum since sweeps are over (`SetupInPhase`), top-ups leave from shard 0 alone
(`FramesKept`, `SentByCalls`), and a late mined transaction can only add to the other shards (`CheckedAreFunded`).
`accs` holds accounts with funds that still have a key (`AccsInPhase`): a sweep always finds the key it signs
with, so the only call that ends the process is a top-up of a funding account without one (`FunderMissing`).
`FundedKeysKept` needs that the filter removes what the
mapping named and the balances refused, never what it has kept.

Only model-checked: liveness (`BatchReturns`, `EveryCaseEnds`, `CaseEnds`,
`ProgramEnds`, `EndsOnceEpochsAreRead`), since the prover can do neither fairness nor `ENABLED`. The five runs that expect a
violation are counterexamples and need no proof.

## Where the code and its words differ

Shown by a run:

* `RevertRPCSettings` does nothing when the configured prefix is empty
  (`config/config.go:190`), and the settings of an `eth` case stay for all later ones.
* The teardown goroutines of the multiple-sender scenario share the loop
  variable (`multiplesender.go:186`): senders may be torn down twice or never, and their keys stay, although
  `README.md:10` says that test accounts are removed from the keystore.
* The wait for the next epoch skips its timeout when the epoch cannot be read (`nextepoch.go:147`).
* `TotalChanged` is never reset (`editvalidatorparameters.go:206`): a second edit never evaluates as successful.
* The delegation test with a wrong sender creates its validator with the wrong
  sender as well (`delegate/invalidaddress.go:54`): that is refused, and the delegation it is about is
  never tried. The undelegation test does the same (`undelegate/invalidaddress.go:55`). A creation that is merely
  late skips the delegation as well; the run is of the code as it stands, where no creation can ever be in time.

Modelled as the code has them, and not given a run of their own:

* A batch returns accounts whose funding attempts ran out as if they were funded (`manager.go:215, 307`).
* Error paths after accounts were generated return without a teardown
  (`standard.go:67`, `sameaccount.go:53`), and a failed batch of senders is handled without an account (`multiplesender.go:66`).
* `Teardown` removes the key also when the balance could not be read or the send failed (`teardown.go:16-28`).
* The one-nonce scenario never counts a success, its response being shadowed (`multiplereceiverinvalidnonce.go:146`).
* The epoch timeout calls `HandleError` with a nil error, which does nothing (`nextepoch.go:157`).
* An error of a case tears the shared validator down while `CurrentValidator` still names it (`helper.go:24`).
* A file in a nested directory is in the sections of both directories, and is executed twice (`load.go:80`).
* An `eth` transfer is sent without its target shard (`rpc/rpc.go:52-53`, `multiplesender.go:151-152`) and stays in the shard of its
  sender: such a case across shards that expects a success never gets one (`ResultIsEarned`).
* A sweep or top-up that is retried may be paid once per attempt, since each attempt reads the nonce anew (`manager.go:127, 152`).
  In the second start of `App_program` a top-up is paid twice.
* An account that is in `private_keys.txt` and in a keystore file is in the list of sources twice (`keys.go:40`), and is
  swept by two goroutines for every shard.
* Shard 0 is checked when the map yields it; a top-up paid from it later may leave it empty (`manager.go:50-76`).
* A JSON file without an address in the keys directory ends the process by a panic (`keys.go:182-183`).
* The wrong senders' accounts are never torn down, against `README.md:10`, nor is the validator that was not created for the edit with a
  wrong address (`delegate/invalidaddress.go:95`, `undelegate/invalidaddress.go:112`, `create/invalidaddress.go:72`, `edit/invalidaddress.go:39`).
* An undelegation is reported as successful whatever the delegations show (`helper.go:215`); its receipt alone decides.

## Not modelled

* `FundAccounts`, `fundAccount` (`manager.go:236-276`), `GenerateMultipleAccounts`, `VerifyBalance` and
  `OutputBalanceStatusForAddresses`: nothing calls them.
* The parsing of flags and YAML, test case parameters, the columns of the CSV file, logging,
  string and file helpers: conversions, input and output without later state.
* BLS key generation (`crypto/bls.go`): a loop over random keys; that it never ends for a shard number not below the
  shard count is listed as a hazard and needs no model.
* Payloads, gas and nonces of staking transactions; decimal arithmetic.
* The data race of the one-nonce scenario on the test case's error
  (`multiplereceiverinvalidnonce.go:127`): no outcome depends on it.
* Torn reads of a shared loop variable other than that of the name at the removal.

## Plan

Modules were written in this order: the ledger and the funding transaction, the batch, the settings and the
accounts, the transaction scenarios, the delegation scenarios, the edit loop and the validator
scenarios, the keys and the funding setup, the suite and the program; then the proofs, module by module in the same
order. Every safety property of a run is now a theorem. What is left:

1. Step invariants that carry most of a liveness argument: what strictly decreases while a batch, a case or the program
   has not ended (attempts, polls, goroutines left), with which the fairness step stays with TLC.
2. The error path of a teardown that fails: what the keystore and the chain disagree about afterwards.
