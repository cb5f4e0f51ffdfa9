------------------------------ MODULE MCSettings ------------------------------
(***************************************************************************)
(* What the choices of Settings come to, for every environment, file and   *)
(* option that differs for them.  TLC evaluates the assumptions at the     *)
(* start of every run whose module extends this one.                       *)
(***************************************************************************)
EXTENDS Settings

Value == {Undefined, "", " ", "x"}

Params(networkId) == [networkId |-> networkId, httpRpcUrl |-> "x", mnemonic |-> "x",
                      hdPath |-> "m/44'/60'/0'/0/0"]

(* An instance is made exactly when each setting is there and none is of    *)
(* the old constructor, whatever else is given.                             *)
ASSUME InstancesAreMadeWhole ==
  \A url, phrase \in Value : \A old \in BOOLEAN :
    LET params == [f \in {"networkId", "httpRpcUrl", "mnemonic", "hdPath"}
                          \cup (IF old THEN {"web3"} ELSE {}) |->
                     CASE f = "httpRpcUrl" -> url [] f = "mnemonic" -> phrase
                       [] f = "web3" -> "x" [] OTHER -> Params("amoy")[f]]
    IN assertCtorParams(params) <=> url = "x" /\ phrase = "x" /\ ~old

(* The constructor lets through networks on which no getter works: the      *)
(* contract in Ether has no address there, or one no call can reach.        *)
ASSUME AcceptedButUnreachable ==
  LET Reaches(n) ==
        unidirectionalAddress(Undefined, [publicClientViem |-> IohTee(Params(n), << >>).chain,
                                          walletClientViem |-> IohTee(Params(n), << >>).chain])
          \notin {Thrown, "0x"}
  IN {n \in PositiveInteger : assertCtorParams(Params(n)) /\ ~Reaches(n)}
       = {"ethereum", "optimism", "12345"}

(* The same network gives the wrapper the same address by either way of     *)
(* making it.                                                               *)
ASSUME WaysOfMakingAgree ==
  \A n \in KnownChain :
    unidirectionalAddress(Undefined, Params(n))
      = unidirectionalAddress(Undefined, [publicClientViem |-> n, walletClientViem |-> n])

(* With settings or with both clients a wrapper of either backend has       *)
(* both; with one client only ethers objects.                               *)
ASSUME OnlyEthersObjects ==
  /\ BaseContractEthers([providerEthers |-> "amoy"]) = [reader |-> Thrown, writer |-> Thrown]
  /\ BaseContractViem([publicClientViem |-> "amoy"]) = [reader |-> "amoy", writer |-> Undefined]
  /\ \A n \in KnownChain : /\ BaseContractViem(Params(n)) = [reader |-> n, writer |-> n]
                           /\ BaseContractEthers(Params(n)) = [reader |-> n, writer |-> n]

(* The option decides on the token contract when it is there, also by       *)
(* turning it off; else the environment does.                               *)
ASSUME TokenContractPrecedence ==
  \A option, variable \in {Undefined, "", "0x", "0xA", "0xB"} :
    LET got == channelTokenContractOrNull([tokenUnidirectionalAddress |-> option],
                                          [TOKEN_UNIDIRECTIONAL_ADDRESS |-> variable])
    IN /\ option \in {"", "0x"} => got = Undefined
       /\ option \in {"0xA", "0xB"} => got = option
       /\ option = Undefined => got = IF variable \in {"0xA", "0xB"} THEN variable ELSE Undefined

(* An option that is named and undefined takes the database's default away. *)
ASSUME NamedIsOverridden ==
  /\ defaults(<< >>).databaseUrl = "sqlite:///home"
  /\ defaults([databaseUrl |-> Undefined]).databaseUrl = Undefined

Environments == [{"IOHTEE_NETWORK", "CONTRACT_ADDRESS", "RPC_URL", "IOHTEE_DATABASE_URL",
                  "IOHTEE_SENDER_ACCOUNT", "ACCOUNT_MNEMONIC"} -> Value]
Files == {[content |-> content, sender |-> [account |-> a, databaseUrl |-> "y"]] :
            content \in {"object", "null", "unreadable"}, a \in {"y", ""}}

(* In Node the environment never reaches contractAddress.                   *)
ASSUME EnvironmentUnread ==
  \A env \in Environments : contractAddress(<< >>, env) = "0xDefault"

(* Of the environment, the file and the default, the first that says        *)
(* anything decides, unless the file holds null: then neither is heard.     *)
ASSUME SenderPrecedence ==
  \A env \in Environments : \A file \in Files :
    LET got == sender(file, env) IN
    IF file.content = "null"
    THEN got = [account |-> Undefined, password |-> Undefined, databaseUrl |-> "sqlite:///home"]
    ELSE /\ env.IOHTEE_SENDER_ACCOUNT \in {"x", " "} => got.account = env.IOHTEE_SENDER_ACCOUNT
         /\ env.IOHTEE_SENDER_ACCOUNT \notin {"x", " "} =>
              got.account = IF file.content = "object" THEN file.sender.account ELSE Undefined
         /\ got.databaseUrl \notin {"", Undefined}

(* What buyContent buys with does not depend on the settings it reads.      *)
ASSUME SettingsUnused ==
  \A env \in Environments : \A file \in Files : \A url \in Value :
    buyContent("amoy", file, env)
      = buyContent("amoy", [content |-> "unreadable"], [env EXCEPT !.IOHTEE_DATABASE_URL = url])

(* A service starts with every required variable, or not at all; a          *)
(* variable of spaces is missing, and a number that cannot be read is the   *)
(* default, except the price.                                               *)
ASSUME ServicesStartWhole ==
  /\ \A gatewayUrl, address, price, ttl \in Value \cup {"7"} :
       LET env == [GATEWAY_URL |-> gatewayUrl, ACCOUNT_ADDRESS_0 |-> address,
                   PAYWALL_PRICE_WEI |-> price, PAYWALL_TOKEN_TTL_SECONDS |-> ttl]
           config == loadConfig(env)
           starts == /\ gatewayUrl \in {"x", "7"} /\ address \in {"x", "7"}
                     /\ price # "x"
       IN /\ ("outcome" \notin DOMAIN config) <=> starts
          /\ starts => /\ config.paywallPriceWei \in {"1000", "7"}
                       /\ config.tokenTtlSeconds = IF ttl = "7" THEN "7" ELSE "1800"
  /\ \A chainId, phrase, url \in Value \cup {"amoy"} :
       ("outcome" \notin DOMAIN runtimeConfig([CHAIN_ID |-> chainId, RPC_URL |-> url,
                                               ACCOUNT_MNEMONIC |-> phrase]))
         <=> /\ chainId = "amoy"
             /\ {phrase, url} \subseteq {"x", "amoy"}
=============================================================================
