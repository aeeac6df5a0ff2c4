---- MODULE AsyncTeardowns ----
(***************************************************************************)
(* The teardown of the scenarios with many accounts: one goroutine for the *)
(* account that stands alone and one per iteration of a loop over the      *)
(* others.  The loop hands out the address of its variable, which every    *)
(* iteration assigns again (the module is built as Go 1.15): a goroutine   *)
(* reads it anew whenever Teardown looks at its account.                   *)
(***************************************************************************)
EXTENDS TestAccounts, Sequences

CONSTANTS
    Alone,      \* the account with a goroutine of its own
    Many        \* the accounts of the loop

ASSUME AsyncTeardownsAssumption ==
    /\ IsFiniteSet(Many)
    /\ TestAccountIds = Many \cup {Alone}
    /\ Tearing = 0 .. Cardinality(Many)

VARIABLE
    iteration   \* the iterations the loop has started: its variable holds the last of them

NoLoop == iteration = 0

\* go AsyncTeardown(&account) for the account that stands alone: goroutine 0.
SpawnAlone ==
    /\ tear[0].pc = "off"
    /\ StartTeardown(0)
    /\ UNCHANGED <<held, bal, iteration>>

\* The loop assigns its variable and starts the goroutine of the iteration.
SpawnNext(list) ==
    /\ iteration < Len(list)
    /\ iteration' = iteration + 1
    /\ StartTeardown(iteration + 1)
    /\ UNCHANGED <<held, bal>>

\* The account goroutine g finds behind its pointer.
Behind(g, list) == IF g = 0 THEN Alone ELSE list[iteration]

\* While the loop still assigns the variable a goroutine may read half of its
\* name: no key has such a name, and none is removed.
TornRemove(g, list) ==
    /\ g > 0 /\ iteration < Len(list)
    /\ tear[g].pc = "remove"
    /\ tear' = [tear EXCEPT ![g].pc = "over"]
    /\ UNCHANGED <<held, bal>>

AsyncTeardown(g, list, shard) ==
    /\ tear[g].pc # "off"
    /\ Teardown(g, Behind(g, list), shard) \/ TornRemove(g, list)
    /\ UNCHANGED iteration

\* Fault: the WaitGroup is set to len(list), one less than there are goroutines.
LoopAwaited(list) == \A g \in 1 .. Len(list) : tear[g].pc = "over"

\* waitGroup.Wait(): the counter was set to 1 + len(list) before the first go.
TeardownsAwaited(list) == \A g \in 0 .. Len(list) : tear[g].pc = "over"
====
