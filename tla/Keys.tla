---- MODULE Keys ----
(***************************************************************************)
(* keys/keys.go: LoadKeys imports the private keys of a text file and the  *)
(* keystore files below the keys directory, keeps the accounts that hold   *)
(* more than the minimum and, when remove_empty is set, removes the        *)
(* others' keys and files.                                                 *)
(***************************************************************************)
EXTENDS Orders, Sequences, SequencesExt, FiniteSetsExt

CONSTANTS
    Addresses,      \* the source accounts
    Funder,         \* the funding account
    ShardCount,     \* Network.Shards
    MinimumFunds,   \* Funding.MinimumFunds
    PrivateKeys,    \* the address of each line of private_keys.txt
    FileAddress     \* what each file below the keys directory, in Walk's order, names:
                    \* an address, NotKeystore or NoAddress

NotKeystore == "not JSON"
NoAddress == "no address"

Shards == 0 .. ShardCount - 1
Accounts == Addresses \cup {Funder}

ASSUME KeysAssumption ==
    /\ ShardCount \in Nat \ {0} /\ MinimumFunds \in Nat
    /\ IsFiniteSet(Addresses) /\ Addresses \cap {Funder, NotKeystore, NoAddress} = {}
    /\ PrivateKeys \in Seq(Addresses)
    /\ FileAddress \in Seq(Addresses \cup {NotKeystore, NoAddress})

VARIABLES
    holdings,   \* what each account holds in each shard
    keystore,   \* the accounts whose key is in the keystore
    files,      \* the files below the keys directory, by their place in FileAddress
    keyMapping, \* KeyMapping: the file of each identified address
    accs        \* the accounts LoadKeys returns

keysVars == <<holdings, keystore, files, keyMapping, accs>>

NoMapping == [a \in {} |-> 0]

KeysTypeOK ==
    /\ holdings \in [Accounts -> [Shards -> Int]]
    /\ keystore \subseteq Accounts
    /\ files \subseteq DOMAIN FileAddress
    /\ DOMAIN keyMapping \subseteq Addresses
    /\ accs \in Seq(Addresses)

\* GetTotalBalance, over all shards; nothing is sent while the keys are loaded.
TotalBalance(held) == MapThenSumSet(LAMBDA s : held[s], Shards)

\* FilterMinimumBalanceAccounts: exactly the minimum is not enough.
HasFunds(a) == TotalBalance(holdings[a]) > MinimumFunds

\* Fault: remove_empty removes every imported account, funded or not.
FilterKeysAll(imported, kept, mapping, removeEmpty) ==
    LET sources == {mapping[a] : a \in imported \cap DOMAIN mapping}
    IN  /\ accs' = accs \o kept
        /\ IF removeEmpty
           THEN keystore' = (keystore \cup imported) \ imported /\ files' = files \ sources
           ELSE keystore' = keystore \cup imported /\ UNCHANGED files

\* FilterKeys, once every balance was read: kept are the imported accounts above
\* the minimum; with remove_empty, the keys of the others leave the keystore, and
\* so do the files that KeyMapping holds for them - none before the keystore
\* files are identified.
FilterKeys(imported, kept, mapping, removeEmpty) ==
    LET missing == {a \in imported : ~HasFunds(a)}
        sources == {mapping[a] : a \in missing \cap DOMAIN mapping}
    IN  /\ accs' = accs \o kept
        /\ IF removeEmpty
           THEN keystore' = (keystore \cup imported) \ missing /\ files' = files \ sources
           ELSE keystore' = keystore \cup imported /\ UNCHANGED files

\* LoadPrivateKeys, when it succeeds: the lines whose import fails are skipped,
\* and an account is listed once per line.
LoadPrivateKeys(removeEmpty) ==
    /\ \E lines \in SUBSET DOMAIN PrivateKeys :
          \E kept \in InOrder({i \in lines : HasFunds(PrivateKeys[i])}) :
             FilterKeys({PrivateKeys[i] : i \in lines},
                        [i \in DOMAIN kept |-> PrivateKeys[kept[i]]], NoMapping, removeEmpty)
    /\ UNCHANGED <<holdings, keyMapping>>

\* IdentifyKeystoreKeys: of the files that name an address, the last one counts.
Naming(a) == {f \in files : FileAddress[f] = a}
IdentifiedKeys == [a \in {b \in Addresses : Naming(b) # {}} |-> Max(Naming(a))]

\* A JSON file that names no address panics in parseKeystoreJSON.
PanicsOnKeyFile == \E f \in files : FileAddress[f] = NoAddress

\* LoadKeystoreKeys, when it succeeds: the map yields its keys in any order.
LoadKeystoreKeys(removeEmpty) ==
    /\ ~PanicsOnKeyFile
    /\ keyMapping' = IdentifiedKeys
    /\ \E imported \in SUBSET DOMAIN IdentifiedKeys :
          \E kept \in SetToSeqs({a \in imported : HasFunds(a)}) :
             FilterKeys(imported, kept, IdentifiedKeys, removeEmpty)
    /\ UNCHANGED holdings

\* A keys directory or a balance that cannot be read ends either half: keys
\* imported so far stay, and nothing is removed.
LoadKeysFails(listed, mapping) ==
    /\ \E imported \in SUBSET listed : keystore' = keystore \cup imported
    /\ keyMapping' = mapping
    /\ UNCHANGED <<holdings, files, accs>>
====
