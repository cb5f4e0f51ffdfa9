------------------------------- MODULE TestToken -------------------------------
(***************************************************************************)
(* The tokens that channels are opened in: ERC20 contracts whose supply is *)
(* minted by accounts with the minter role                                 *)
(*   packages/contracts/contracts/support/ERC20Mintable.sol, MinterRole.sol *)
(* over OpenZeppelin's ERC20.  The only spender an account ever approves   *)
(* is the channel contract, and no account transfers tokens by itself.     *)
(***************************************************************************)
EXTENDS Integers

CONSTANTS
  Token,         \* token contracts
  Account,       \* accounts
  This,          \* the address of the channel contract
  Deployer,      \* deploys the tokens, and with that is their first minter
  Supply,        \* what the accounts hold of each token at first
  Mintable,      \* tokens still being minted; of the others minting has finished
  MintLimit      \* bounds what is minted of each token

ASSUME TokenAssumption == /\ This \notin Account
                          /\ Deployer \in Account
                          /\ Supply \in [Token -> [Account -> Nat]]
                          /\ Mintable \subseteq Token
                          /\ MintLimit \in Nat

VARIABLES
  held,              \* balanceOf
  allowance,         \* allowance towards the channel contract
  minted,            \* totalSupply, less the supply of the start
  minters,           \* Roles.Role of each token
  mintingFinished    \* mintingFinished_ of each token

funds == <<held, allowance>>
roles == <<minted, minters, mintingFinished>>

Holder == Account \cup {This}

TokenInit ==
  /\ held = [token \in Token |->
               [h \in Holder |-> IF h = This THEN 0 ELSE Supply[token][h]]]
  /\ allowance = [token \in Token |-> [account \in Account |-> 0]]
  /\ minted = [token \in Token |-> 0]
  /\ minters = [token \in Token |-> IF token \in Mintable THEN {Deployer} ELSE {}]
  /\ mintingFinished = [token \in Token |-> token \notin Mintable]

onlyMinter(token, caller) == caller \in minters[token]

mint(caller, token, to, amount) ==
  /\ onlyMinter(token, caller)
  /\ ~mintingFinished[token]
  /\ minted[token] + amount <= MintLimit
  /\ held' = [held EXCEPT ![token][to] = @ + amount]
  /\ minted' = [minted EXCEPT ![token] = @ + amount]
  /\ UNCHANGED <<allowance, minters, mintingFinished>>

finishMinting(caller, token) ==
  /\ onlyMinter(token, caller)
  /\ ~mintingFinished[token]
  /\ mintingFinished' = [mintingFinished EXCEPT ![token] = TRUE]
  /\ UNCHANGED <<funds, minted, minters>>

addMinter(caller, token, account) ==
  /\ onlyMinter(token, caller)
  /\ minters' = [minters EXCEPT ![token] = @ \cup {account}]
  /\ UNCHANGED <<funds, minted, mintingFinished>>

renounceMinter(caller, token) ==
  /\ minters' = [minters EXCEPT ![token] = @ \ {caller}]
  /\ UNCHANGED <<funds, minted, mintingFinished>>

\* approve replaces the allowance, whatever was left of it.
approve_Adds(caller, token, amount) ==
  /\ allowance' = [allowance EXCEPT ![token][caller] = @ + amount]
  /\ UNCHANGED <<held, roles>>
approve(caller, token, amount) ==
  /\ allowance' = [allowance EXCEPT ![token][caller] = amount]
  /\ UNCHANGED <<held, roles>>

\* transferFrom and transfer, as the channel contract calls them.
CanPull(token, from, amount) == /\ amount <= allowance[token][from]
                                /\ amount <= held[token][from]
Pull(token, from, amount) ==
  /\ held' = [held EXCEPT ![token][from] = @ - amount, ![token][This] = @ + amount]
  /\ allowance' = [allowance EXCEPT ![token][from] = @ - amount]

CanPush(token, amount) == amount <= held[token][This]
Push(to, amount, purse) == [purse EXCEPT ![This] = @ - amount, ![to] = @ + amount]

TokenTypeOK ==
  /\ held \in [Token -> [Holder -> Nat]]
  /\ allowance \in [Token -> [Account -> Nat]]
  /\ minted \in [Token -> Nat]
  /\ minters \in [Token -> SUBSET Account]
  /\ mintingFinished \in [Token -> BOOLEAN]
=============================================================================
