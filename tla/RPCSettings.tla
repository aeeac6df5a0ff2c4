---- MODULE RPCSettings ----
(***************************************************************************)
(* The RPC settings of config/config.go that every request of the process  *)
(* reads: the prefix, the go-sdk globals it is copied to, and the chain ID *)
(* transactions are signed for.  A test case for the eth_ endpoints swaps  *)
(* them around its sends (rpc/rpc.go and the two multi scenarios).         *)
(***************************************************************************)
CONSTANTS
    ConfiguredPrefix,   \* network.rpc_prefix of config.yml; "" when it is omitted
    NativeChain,        \* the chain ID the network was set up with
    EthChain            \* what GenerateEthereumChainID maps the network to

VARIABLES
    settings,   \* the settings in force
    history     \* Network.NetworkHistory

settingsVars == <<settings, history>>

NoHistory == [prefix |-> "", chain |-> "nil"]

\* The go-sdk starts with the hmy_ methods: Network.Initialize, which would
\* copy the configured prefix to it, is never called.
InitialSettings == [prefix |-> ConfiguredPrefix, sdkPrefix |-> "hmy", method |-> "v1",
                    chain |-> NativeChain]

SettingsInit == settings = InitialSettings /\ history = NoHistory

\* goSDKRPC.Method: the eth_ methods for "eth", the hmy_ methods otherwise.
MethodFor(name) == IF name = "eth" THEN "eth" ELSE "v1"

SettingsFor(name, chain) ==
    [prefix |-> name, sdkPrefix |-> name, method |-> MethodFor(name), chain |-> chain]

\* The settings in force become the history, under Network.Mutex.
ChangeRPCSettings(name, chain) ==
    /\ history' = [prefix |-> settings.prefix, chain |-> settings.chain]
    /\ settings' = SettingsFor(name, chain)

\* Only a complete history is gone back to; it is then cleared.
RevertRPCSettings ==
    IF history.prefix # "" /\ history.chain # "nil"
    THEN /\ settings' = SettingsFor(history.prefix, history.chain)
         /\ history' = NoHistory
    ELSE UNCHANGED settingsVars

\* What a scenario does before it sends with the prefix of its test case.
EnterSend(prefix) ==
    IF prefix = "eth" THEN ChangeRPCSettings("eth", EthChain) ELSE UNCHANGED settingsVars
\* SendGenericTransaction: SendEthTransaction is not given the target shard, so
\* an eth_ transfer stays in the shard of its sender.
TargetShard(prefix, from, to) == IF prefix = "eth" THEN from ELSE to
====
