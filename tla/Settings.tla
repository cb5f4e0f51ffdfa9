-------------------------------- MODULE Settings --------------------------------
(***************************************************************************)
(* Where an IohTee instance, a contract wrapper and the services around     *)
(* them take their settings from                                           *)
(*   packages/iohtee/src/IohTee.ts, IohTeeOptions.ts, Registry.ts,         *)
(*     configuration.ts, env.ts, buy.ts                                    *)
(*   packages/contracts/src/Unidirectional.ts                              *)
(*   packages/abi-wrapper/src/baseContract.ts                              *)
(*   packages/playground/src/config.ts, packages/examples/src/common.ts    *)
(* A value is a string; the environment and parsed objects are functions   *)
(* from names to values.  What throws is the value Thrown.                 *)
(***************************************************************************)
EXTENDS Integers

Undefined == "undefined"
Thrown == "thrown"
Blank == {"", " "}

Of(object, name) == IF name \in DOMAIN object THEN object[name] ELSE Undefined

\* a || b, a ?? b, and a.trim().
Or(a, b) == IF a \in {Undefined, ""} THEN b ELSE a
Unless(a, b) == IF a = Undefined THEN b ELSE a
Trim(a) == IF a \in Blank THEN "" ELSE a

\* An object that throws unless each of its fields could be computed.
Whole(object) == IF \E f \in DOMAIN object : object[f] = Thrown
                 THEN [outcome |-> Thrown] ELSE object

-----------------------------------------------------------------------------
(* Making an instance. *)

\* Positive integers, of which "12345" is no chain that viem knows.
KnownChain == {"amoy", "hardhat", "ethereum", "optimism"}
PositiveInteger == KnownChain \cup {"12345"}

Legacy == {"currentProvider", "eth", "web3", "provider"}
EtherPath == {"m/44'/60'/0'/0/0"}

assertCtorParams(params) ==
  /\ DOMAIN params \cap Legacy = {}
  /\ Of(params, "networkId") \in PositiveInteger
  /\ Of(params, "httpRpcUrl") \notin Blank \cup {Undefined}
  /\ Of(params, "mnemonic") \notin Blank \cup {Undefined}
  /\ Of(params, "hdPath") \in EtherPath

\* Object.assign: what the options name overrides, also when it is undefined.
defaults(options) ==
  [name \in DOMAIN options \cup {"databaseUrl"} |->
     IF name \in DOMAIN options THEN options[name] ELSE "sqlite:///home"]

findChainById(networkId) == IF networkId \in KnownChain THEN networkId ELSE Undefined

\* The instance, or Thrown; its clients are of the chain that was found.
IohTee(params, options) ==
  IF ~assertCtorParams(params) THEN [outcome |-> Thrown]
  ELSE [chain |-> findChainById(params.networkId), options |-> defaults(options)]

\* The contract of payments in Ether, the first thing a getter needs.
DefaultUnidirectionalAddress(chain) ==
  CASE chain \in {"amoy", "hardhat"} -> "0xDefault"
    [] chain = "ethereum" -> "0x"
    [] OTHER -> Thrown

isCtorAccountParamPure(params) ==
  Of(params, "httpRpcUrl") # Undefined /\ Of(params, "mnemonic") # Undefined
isCtorAccountParamViem(params) ==
  Of(params, "publicClientViem") # Undefined /\ Of(params, "walletClientViem") # Undefined
isCtorAccountParamEthers(params) ==
  Of(params, "providerEthers") # Undefined /\ Of(params, "signerEthers") # Undefined

\* A client is named by its chain.
unidirectionalAddress(deployed, params) ==
  IF deployed \notin {Undefined, ""} THEN deployed
  ELSE DefaultUnidirectionalAddress(
         IF isCtorAccountParamPure(params) THEN Of(params, "networkId")
         ELSE Of(params, "publicClientViem"))

\* The reader and the writer of a wrapper: viem takes clients unchecked.
BaseContractViem(params) ==
  IF isCtorAccountParamPure(params)
  THEN [reader |-> findChainById(Of(params, "networkId")),
        writer |-> findChainById(Of(params, "networkId"))]
  ELSE [reader |-> Of(params, "publicClientViem"), writer |-> Of(params, "walletClientViem")]

BaseContractEthers(params) ==
  IF isCtorAccountParamPure(params)
  THEN [reader |-> Of(params, "networkId"), writer |-> Of(params, "networkId")]
  ELSE IF isCtorAccountParamEthers(params)
  THEN [reader |-> params.providerEthers, writer |-> params.signerEthers]
  ELSE [reader |-> Thrown, writer |-> Thrown]

readTokenUnidirectionalAddressFromEnv(env) == Of(env, "TOKEN_UNIDIRECTIONAL_ADDRESS")

\* The token contract, or Undefined: payments in tokens are off.
channelTokenContractOrNull(options, env) ==
  LET configured == Unless(Of(options, "tokenUnidirectionalAddress"),
                           readTokenUnidirectionalAddressFromEnv(env))
  IN IF configured \in {Undefined, "", "0x"} THEN Undefined ELSE configured

-----------------------------------------------------------------------------
(* configuration.ts: the environment, and a file in the home directory. *)

\* Node has an object global, so the environment of the process is not reached.
container(global, env) == global

contractAddress(global, env) ==
  LET from == container(global, env)
      network == Or(Of(from, "IOHTEE_NETWORK"), "polygonAmoy")
  IN Or(Of(from, "CONTRACT_ADDRESS"),
        IF network \in {"development", "polygonAmoy"} THEN "0xDefault" ELSE Thrown)

Configuration(options) ==
  [account |-> options.account, password |-> options.password,
   databaseUrl |-> Or(options.databaseUrl, "sqlite:///home")]

\* A file holds an object with sections, or null; one that cannot be read or
\* parsed is as one without sections.
configurationOptions(file) == IF file.content = "unreadable" THEN << >> ELSE file

Section(options, name) == IF name \in DOMAIN options THEN options[name] ELSE << >>

Unset == [account |-> Undefined, password |-> Undefined, databaseUrl |-> Undefined]

\* Of null no section can be read: what is caught hides the environment too.
Chosen(options, section, env, account, password) ==
  Configuration(
    IF Of(options, "content") = "null" THEN Unset
    ELSE [account |-> Or(Of(env, account), Of(section, "account")),
          password |-> Or(Of(env, password), Of(section, "password")),
          databaseUrl |-> Or(Of(env, "IOHTEE_DATABASE_URL"), Of(section, "databaseUrl"))])

sender(file, env) ==
  LET options == configurationOptions(file) IN
  Chosen(options, Section(options, "sender"), env,
         "IOHTEE_SENDER_ACCOUNT", "IOHTEE_SENDER_PASSWORD")
receiver(file, env) ==
  LET options == configurationOptions(file) IN
  Chosen(options, Section(options, "receiver"), env,
         "IOHTEE_RECEIVER_ACCOUNT", "IOHTEE_RECEIVER_PASSWORD")

httpRpc(env) == Or(Of(env, "RPC_URL"), "localhost")

\* In a browser with a wallet, its transport; without a chain, unlike the other.
publicClient(ethereum, env) ==
  [transport |-> IF ethereum # Undefined THEN ethereum ELSE httpRpc(env), chain |-> Undefined]
walletClient(ethereum, env, chain) ==
  [transport |-> IF ethereum # Undefined THEN ethereum ELSE httpRpc(env),
   chain |-> Unless(chain, "amoy")]

\* It reads the sender's settings and makes an instance with the defaults.
buyContent(chainId, file, env) ==
  LET settings == sender(file, env)
      params == [networkId |-> chainId, httpRpcUrl |-> httpRpc(env),
                 mnemonic |-> Trim(Unless(Of(env, "ACCOUNT_MNEMONIC"), "")),
                 hdPath |-> "m/44'/60'/0'/0/0"]
  IN IohTee(params, << >>)

-----------------------------------------------------------------------------
(* The playground and the examples. *)

requiredEnv(env, name) ==
  IF Of(env, name) \in Blank \cup {Undefined} THEN Thrown ELSE Trim(env[name])

\* A number that cannot be read, or none, is the default.
Number == {"7", "1000"}
parseIntOrDefault(value, fallback) == IF value \in Number THEN value ELSE fallback

loadConfig(env) ==
  Whole([host |-> Or(Trim(Of(env, "HOST")), "0.0.0.0"),
         port |-> parseIntOrDefault(Of(env, "PORT"), "3000"),
         gatewayUrl |-> requiredEnv(env, "GATEWAY_URL"),
         receiverAddress |-> requiredEnv(env, "ACCOUNT_ADDRESS_0"),
         paywallPriceWei |->
           LET price == Or(Trim(Of(env, "PAYWALL_PRICE_WEI")), "1000") IN
           IF price \in Number THEN price ELSE Thrown,
         tokenTtlSeconds |-> parseIntOrDefault(Of(env, "PAYWALL_TOKEN_TTL_SECONDS"), "1800"),
         sqlitePath |-> Or(Trim(Of(env, "PLAYGROUND_DB_PATH")), ":memory:")])

runtimeConfig(env) ==
  Whole([chainId |-> LET chainId == requiredEnv(env, "CHAIN_ID") IN
                     IF chainId \in PositiveInteger THEN chainId ELSE Thrown,
         mnemonic |-> requiredEnv(env, "ACCOUNT_MNEMONIC"),
         rpcUrl |-> requiredEnv(env, "RPC_URL")])
=============================================================================
