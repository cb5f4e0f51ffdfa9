# IohTee in TLA+

IohTee lets a client pay a service many small amounts while touching the chain
only to open and to close a channel. The client locks a deposit in a contract,
signs ever larger promises against it, and the service redeems the largest one.
Money is lost or stuck if the contract, the two processes and their databases
disagree about a channel. This directory models those parts in TLA+, checks them
with TLC on small instances and proves the results that matter most with TLAPS.

    tlc -config Unidirectional.cfg MCUnidirectional.tla
    tlapm Unidirectional_proofs.tla

Source paths below are relative to the repository; `contracts/` is
`packages/contracts`, `iohtee/` is `packages/iohtee/src`.

## 1. Inventory

| Component | State | Operations | What is hard | What makes it correct |
|---|---|---|---|---|
| Ether contract, `contracts/contracts/UnidirectionalUpgradeable.sol` | `channels`, pause, owner, balance | open, deposit, startSettling, settle, claim, pause, unpause, ownership | any caller in any order; deadline against claim; payees that refuse Ether; one balance for all channels | a channel ends by a signed promise or by a refund after its period; terms are fixed; each step balances; settlement terminates |
| Token contract, `TokenUnidirectionalUpgradeable.sol`, and its tokens | the same, with a token per channel; balances, allowances, minters | the same, pulling and pushing ERC20 tokens | anybody may ask for a pull; ids used again for another token | the same per token; tokens leave an account only by its consent |
| Legacy contracts, proxy | `channels`, balance | as above, without pause and owner | clients written for them meet the new contracts | the new ones do what they would have done, except for whom they manage to pay |
| Wrappers and transactions, `contracts/src`, `iohtee/ChannelContract.ts`, `ChannelTokenContract.ts` | none of their own | reads; approve; simulate, send, wait for the receipt | two transactions per opening in tokens; a receipt times out while the transaction is mined; a reverted receipt is not looked at | nothing left over by one call harms the next; a return means the effect |
| Mutex, `iohtee/Mutex.ts` | map of promises | synchronize, synchronizeOn | calls that arrive while others wait; tasks that throw | exclusion, order, no leaked entry, no call waits for ever |
| Paying side, `iohtee/IohTee.ts`, `ChannelManager.ts` | channel and payment tables | buy, open, deposit, close, payment | purchases overlap; a lost answer; a crash between chain and database; closings meanwhile | promises are covered; the books agree; a channel is opened only when needed, and recorded |
| Paid side, `ChannelManager.acceptPayment`, `PaymentValidation.ts` | channel, payment, token tables | acceptPayment, acceptToken, close | payments out of order; a deposit during validation; closing on an invalid payment | a token means a stored payment; a claim redeems the most |
| Storage, `iohtee/storage` | SQLite or PostgreSQL tables | see `ChannelStore.tla` | amounts are text; the value read is the chain's; foreign keys | the rows say what happened; the listings are true |
| Migrations, `SqlMigrator.ts`, `checkMigrationsState` | version rows, tables, `migrated` | isLatest, sync | several calls and instances; failing statements | the version never says more than the tables |
| Set-up, `iohtee/Registry.ts`, `EnginePostgres.ts`, `EngineSqlite.ts` | lazily built objects, pool, open files | getters, exec, close, shutdown | awaits between a test and its assignment; a connection in progress, failed or closing | one of each object, one pool, nothing left open, every call ends |
| HTTP and paywall, `transport.ts`, `client.ts`, `packages/playground`, `packages/examples` | token cache with a time to live; exchanges | terms, pay, forward, ask with a token, verify, clean up | lost requests and answers, restarts, expiry against the gateway's answer, two gateways | content only behind a stored payment; what was bought is served |
| Payment data, `iohtee/payment.ts`, `*Request.ts`, `*Response.ts` | none | serialize, deserialize | fields lost or renamed on the way | what is read is what was written |
| Configuration, `configuration.ts`, `IohTeeOptions.ts`, `baseContract.ts`, examples | none | choices among argument, option, file, environment | which one decides | an instance is made only whole |
| Wrapper generator, `packages/abi-wrapper` | files | conversion of types, naming, the run | overloads, unnamed parameters, a file that fails | one member per function, one wrapper per file |
| Memory caches | a map with expiry | | used by nothing | |

The two processes share nothing but the chain and one HTTP exchange per purchase:
`buy` takes the default key of the mutex to find or open a channel, then the key
of that channel to read what was spent and sign the next promise, then releases it,
sends the payment, and after the answer writes `spent` and the payment to its
tables; that last insert throws on SQLite, the only database `buy` gets so far on. The receiver takes the key of the channel, reads its row, validates the
payment against the contract, writes row, token and payment, and answers with the
token. With the token the buyer asks the site again, which asks the gateway or its
own cache.

## 2. Modules

| Module | Models | Built on |
|---|---|---|
| `ChannelLifecycle` | what a channel promises (`doc/Contract.md`): none, open, settling, expired; escrow, purses, promises | |
| `Unidirectional` | the Ether contract, one action per transaction, plus signing and blocks | implements `ChannelLifecycle` and, but for payees that need more gas than `transfer` leaves, `LegacyUnidirectional` |
| `LegacyUnidirectional`, `LegacyTokenUnidirectional` | the contracts they replaced | `TestToken` |
| `TestToken` | ERC20 balances and allowances, minting and its roles | |
| `TokenUnidirectional` | the token contract | `TestToken`; implements `LegacyTokenUnidirectional` |
| `TokenChannels` | the library's calls on token channels: approve, open, deposit, close, claim, as transactions with simulations, receipts and time-outs | `TokenUnidirectional` |
| `FifoLock` | a first-in first-out lock per key | |
| `Mutex` | `Mutex.ts`: the map of promise chains | implements `FifoLock` |
| `ChannelStore` | the channel table as operators on a sequence of rows, with the text order of SQLite | |
| `PaymentNetwork` | what both processes share: the chain (an instance of `ChannelLifecycle`), the exchanges, the rows as they are read | `ChannelStore` |
| `Sender` | buy, open, deposit and close of the paying process, on SQLite | `PaymentNetwork` |
| `Receiver` | acceptPayment and close of the paid process, on SQLite or PostgreSQL | `PaymentNetwork` |
| `PaymentSystem` | both together; the properties that relate them | `Sender`, `Receiver` |
| `Migration` | `checkMigrationsState` over the migrators | |
| `Startup` | every API function up to its work: the getters of the registry, the engines, shutdown | `Migration` |
| `Wire` | the serializers, and the row of a payment | |
| `Paywall` | visitors, playground, two hubs and a merchant; every request and answer a step | `Wire` |
| `Settings` | which setting decides, and what is refused | |
| `WrapperGenerator` | the generator as functions from ABIs and disks to wrappers | |
| `MC...` | instances of these; `MCChannelStore`, `MCSettings`, `MCWrapperGenerator` and `MCPaywall` also hold the assumptions TLC evaluates about the pure modules | |
| `Sums_proofs` | lemmas about sums over finite sets | |
| `Unidirectional_proofs` `TokenUnidirectional_proofs` `TokenChannels_proofs` `Mutex_proofs` `PaymentSystem_proofs` `Startup_proofs` `Paywall_proofs` | theorems about the modules they are named after, `Startup_proofs` also about `Migration`, the first two also about the contracts that were replaced: section 4 | |

The chain of `PaymentSystem` is the abstract lifecycle rather than the contract:
`Unidirectional` is shown to implement it, by TLC and by proof, so blocks,
ownership and pausing need not be carried along. A key of the mutex is a queue of
calls there, which is what `Mutex` shows.

An operator whose name contains an underscore (`canSettle_AnyTime`) is a mutant:
the definition below it as a plausible slip would write it. No specification uses
one; replacing the definition by it must break the property listed for it in
`PROJECT.json`.

### Correspondence

`PROJECT.json` names the lines of every definition. The conventions:

- **Contracts.** A transaction is one action; a revert is an action that is not
  enabled. The functions that pay are `nonReentrant` and delete the record first, so
  a payee cannot observe an intermediate state. A signature binds contract, id and
  amount, and in the token contract the token, so a promise is that record, and stays
  good for a later channel under the same id. A payee that refuses Ether reverts the
  transaction (`Accepting`). The contract pays by `call` with all the gas; the one it
  replaced paid by `transfer`, which leaves 2300, so its payees are a set of their own
  (`Frugal`), and `ImplementsLegacy` names the payments that only the new one can make
  (`PaysBeyondTransfer`). `announced` is a history variable. The only spender an
  account approves is the channel contract, and tokens move by nothing else.
- **Processes.** An action is a stretch of code between two awaits that another
  call, the chain or the other process can be seen from. `pc` and `handler` say
  where a call is; `at`, `spent`, `seen`, `payment` are its local variables.
- **Transactions.** `simulateContract` comes first and refuses what the contract
  would revert; then the transaction is mined, or refused by the node (`"refused"`).
  The caller sees its receipt or a time-out (`"timeout"`, after which the transaction is
  mined all the same). What was possible at simulation and is not when mined has no
  effect, and the caller takes its receipt for success. `TokenChannels` keeps the
  transactions sent and not mined in a queue per account.
- **Tables.** A row is id, value, spent, state. Rows are inflated as they are read:
  value and state are the chain's; the stored ones are compared only in the WHERE
  clauses of `findUsable` and `allOpen`. `findUsable` is two steps, its query and the
  look at the chain that follows. Payments and tokens are the sets of purchases that
  have one, with their foreign key on channel. The three writes of `acceptPayment` are
  one step with the outcomes they can have (`Inserted`): on SQLite the insert of the
  payment always throws, and that of a token too when the row of its channel is not
  there yet; on PostgreSQL the three run on connections of their own, so that for a new
  channel each insert may come before the row or after it. The first that fails rejects
  the payment, and the others take their effect all the same. In the code they may do so
  after the key is released; the model has them done by then, since whoever takes the key
  next reads the database and calls the chain before it writes anything. Only the row of a
  known channel, once both inserts are done, is a step of its own (`reply`).
  The payer's engine is SQLite: on PostgreSQL its `findUsable` adds to a column of type
  text and always throws, so no purchase gets that far. On SQLite the last step of every
  purchase, `storePayment`, throws: purchases end as failed, after they have been answered
  and counted as spent.
- **Faults.** `"lost"`: the connection of a purchase fails before or after the
  receiver did its work. `"crash"`: a process ends between any two steps and keeps
  its database. A retry is a further purchase, since the code retries nothing.
- **Ids** are random 32 bytes, so a channel is opened under one never used before.
- **Set-up.** A call is a stack of frames, one per async function it is in (`stack`),
  and `answer` is what its innermost await came to. Each instance is a process: one call
  runs at a time, from one await to the next, and answers of the database are delivered
  when nothing else is ready. A statement that fails throws out of the call; a restart
  replaces the process and keeps the database. The statements of the SQLite migrator
  run without an await in one engine call; they are modelled with one between them
  like PostgreSQL's, which allows more.
- **Data.** In `Wire` a message is a function from field names to values, and a number
  and its text are different values, so that a conversion forgotten or done twice shows.
- **Paywall.** The gateways accept or refuse a payment in one step, since what happens
  within is `Receiver`; only those on PostgreSQL accept one (`OnPostgreSQL`), while the hubs
  of the examples are given SQLite files, and with them nobody would ever buy. A token that
  is stored with a refused payment is told to nobody, and left out. The token of a purchase is named after its buyer. The
  playground's `/payments` prefix is taken to be routed to the hub.

## 3. Runs

| Run | Instance | Properties | States | Shows |
|---|---|---|---|---|
| `Unidirectional` | 2 ids, 2 accounts of which one needs more gas than `transfer` leaves, 3 blocks, periods and values 0 and 1, a promise of 2, an heir, fair | `WellFormed` `EndsFairly` `TermsHold` `StepsBalance` `ImplementsLifecycle` `ImplementsLegacy` `AnnouncedIsClosed` | 231k | every way a channel can end, with the pause and two owners; channels do not touch each other; both refinements; termination |
| `Mutex` | 4 calls, 2 keys, fair | `Fifo` `EntriesAreBusyKeys` `EveryCallSettles` `ImplementsFifoLock` | 26k | three calls can wait behind one |
| `PaymentsSerial` | 3 purchases one at a time, a deposit, a closing, 2 ids, receiver on PostgreSQL; time-outs and refusals | `BooksAgree` `EarningsAreRedeemable` | 1.0M | both databases agree, also after payments that were stored and refused |
| `PaymentsConcurrent` | 2 purchases, an opening, a deposit and a closing, all at once, 3 ids, receiver on SQLite | `ListingsAreTrue` `ChannelsAreRecorded` `OpensOnlyWhenNeeded` | 130k | what the default key of the mutex is for, and which rows keep a channel from being found |
| `PaymentsOverlap` | 2 purchases at once, a deposit and a claim, receiver on PostgreSQL; all four faults | `AnsweredIsStored` `ClaimsTheMost` | 143k | what survives faults |
| `PaymentsLive` | 2 purchases at once on channels with room for one of them, an opening, a claim, 3 ids, receiver on PostgreSQL; refusals; fair | `PromisesAreCovered` `EveryCallEnds` | 103k | depletion; no call hangs |
| `Startup` | 2 processes, a shutdown among 3 calls, either engine, failures and restarts, fair | `BuiltOnce` `OnePool` `VersionImpliesTables` `RaiseIsReady` `ShutdownReleases` `TablesInTheEnd` `EveryApiCallEnds` | 221k | the lazy getters and engines under failures |
| `Token` | 1 id, 2 tokens, one still minted, 2 accounts | `WellFormed` `EndsFairly` `StepsBalance` `PullsAreConsented` | 721k | an id used again for another token; consent |
| `TokenCalls` | 2 openings, a deposit, 2 closings, a claim, 1 id; time-outs; fair | `AllowanceIsExact` `RefusedForAReason` `ReturnsAreReal` `EveryTokenCallEnds` `ImplementsLegacy` | 77k | what the first of two transactions leaves behind |
| `Paywall` | 2 visitors with 2 visits each, 4 sites, both hubs on PostgreSQL, 3 kinds of client, 3 instants | `TypeOK` `ServedIsPaid` `ServedIsFresh` `BoughtIsHonoured` | 1.5M | serving and refusing, over losses, expiry and restarts |
| `LargestPayment` | purchases of 9, a claim | `ClaimsTheMost` | violated | text order, below |
| `TwoAtOnce` | 3 purchases, 2 at a time | `EarningsAreRedeemable` | violated | overlapping purchases, below |

**Bounds.** Two channels suffice for what channels can do to each other, since no
action touches more than one. In `Unidirectional` three blocks hold a period with
the announcement before it, and the largest number, 3, is reached by blocks,
deposits and `number + settlingPeriod`; a promise of 2 against deposits of 1 that may be
added to reaches both branches of `claim`. `Token` keeps one id, which two tokens use
in turn. In the payment runs prices 10 and 20 (30) against a minimum deposit of 900 keep
every total at two digits, so that the passing runs do not meet the text order;
`LargestPayment` does. In `PaymentsLive` prices of 48 meet a channel of 90, which covers
one of them. Three purchases give the first payment of a channel, a retry
and one that overlaps. `PaymentsConcurrent` needs three ids: with two, a purchase that
passes over an open channel behind one that is closing finds no id left to open a third
under, and nothing wrong can happen. `MaxInFlight`, `MaxAtOnce` and `MaxTogether` bound what the
application has under way, `MaxUint` and `MaxBlock` the blocks, `MaxVisits`, `MaxNow`,
`MintLimit` and `MaxPromises` what their names say; each call is made at most once. The
ids are a symmetry set in two safety runs; nothing orders them.

In `TokenCalls` the payer has 2 tokens and asks for 1 or 3, so an opening that left an
allowance of 3 is followed by one of 1 under the same id; two closings are an announcement
and the refund, or two announcements of which the first came too late.

`MaxAtOnce` is 1 in `TokenCalls`, and the properties say so: two calls of a payer at once
share its one allowance, and the second approval replaces the first. `MaxTogether` is 1 in
`Startup`, and the three theorems about the registry and its pools assume it: two first calls made in one tick each find the registry empty and each build a
channel manager, and `BuiltOnce` fails. `PaymentSystem` takes each side to have one
channel manager, as it has in the examples, where the first call is awaited.

**Pure modules.** `TextLeq` is the lexicographic order of numerals, for amounts up to
130 (`MCChannelStore`). Payments, tokens, answers and terms survive the wire, a row of
table payment loses only the token contract, and two conversions lose something
(`MCPaywall`). An instance is made exactly when each setting is there; which of
argument, option, file and environment decides (`MCSettings`). Members of a wrapper
differ, each function has one, a run that ends well has written every wrapper
(`MCWrapperGenerator`). These are `ASSUME`s of the MC modules of the runs `PaymentsSerial`
and the like, `Paywall`, `Startup` and `TokenCalls`; TLC evaluates them first.

`CHECK_DEADLOCK FALSE` stands where the calls of the instance can all be over.

### Disagreements

Two runs end in a violation, each of something the documentation says. The receiver is
on PostgreSQL in both, since one on SQLite never answers with a token:

- `LargestPayment` / `ClaimsTheMost`. Payments are ordered as text: after 9 and 18 the
  receiver claims 9.
- `TwoAtOnce` / `EarningsAreRedeemable`. `spent` is written back outside the key under
  which it was read, so overlapping purchases sign the same total.

Met while modelling, and true of the models, without a run of their own:

- The insert of a payment binds `contractAddress`, which the serializer does not write
  (`SqlitePaymentsDatabase.ts:29`). PostgreSQL stores NULL; `node:sqlite` refuses to bind
  `undefined`, and the insert throws. `buy` throws with it after the gateway has answered
  (`storePayment`), so the caller never gets the token it paid for. A receiver on SQLite
  stores the token and not the payment, answers with an error, and has nothing to claim.
- `acceptPayment` starts its three writes at once (`ChannelManager.ts:212`), and
  `saveOrUpdate` looks the row up before it inserts it. The inserts of a new channel's first
  token and payment may come before the row, and their foreign keys refuse them
  (`Inserted`): the valid first payment of a channel is refused. The row is inserted all the
  same, so the next purchase goes through.
- `deposit` of the channel table adds to a value that is the chain's already
  (`SqliteChannelsDatabase.ts:60`), so the stored value counts a deposit twice.
- `findUsable` compares as text and looks at one row only (`SqliteChannelsDatabase.ts:100`):
  with equal prices `OpensOnlyWhenNeeded` fails at the first extra digit, and a row that says
  open of a channel that no longer is hides the open channels after it. The property
  names this case (`Picks`). It lasts: when the receiver has claimed a channel, nothing updates
  the payer's row, and from then on every purchase that the row seems to have room for opens
  a channel of its own. The token contract is not looked at either.
- After a lost answer the next purchase signs a total that was already used.
- `open` locks ten times the value it is given (`ChannelManager.ts:312`, `DepositAmount`).
- `migrated` is set before `sync` has run, so a second call can overtake the
  creation of the tables (`IohTee.ts:419`).
- The map of open SQLite databases keeps a closed handle (`EngineSqlite.ts:7`), so a second
  `buyContent` in a process throws; a PostgreSQL connection that failed stays failed
  (`EnginePostgres.ts:55`).
- Hubs and playground write terms under versions the library does not read, and without the
  channels it needs (`PaymentRequiredResponse.ts:54`), so `Understands("library", ...)` holds
  for a merchant that uses the serializer, and for the token hub. A request for terms is
  written with `timestamp` and read with `datetime` (`PaymentRequiredRequest.ts:19`, `:37`).
- A configuration file that holds `null` hides the environment too (`configuration.ts:96`);
  `env.ts` never reaches `process.env` under Node; on some networks the constructor accepts,
  no contract address exists or it is `0x` (`AcceptedButUnreachable`).
- A generated overload `f1` collides with a function of that name, and a function called
  `toString` keeps the wrapper from being made (`MembersDiffer`, `FunctionsAreWrapped`).

### Fairness

- `Unidirectional`: blocks keep coming (`Mine`), and somebody keeps calling `settle`,
  which anyone may, until it is accepted. `AnnouncedIsClosed` also assumes that
  pauses end, since the owner may pause for ever and may even renounce ownership while
  paused.
- `Mutex`: the event loop runs a continuation whose promise is resolved, and a task
  settles. `EveryCallEnds` shows the latter of the tasks that use it.
- `PaymentSystem`: RPC, database and HTTP calls settle (receipts have a time-out of 45 s),
  a request that nobody gave up on arrives. Nothing is assumed of when the application
  makes its calls.
- `Startup`: a process goes on while it has something to run or an answer comes, and the
  database answers every statement and connection, with success or failure.
- `TokenCalls`: the node mines what it was sent, and a call whose turn it is goes on.
- `Paywall`: none; no liveness is claimed, since `fetch` in the playground has no
  time-out.

Fairness is weak everywhere: no call depends on being lucky again and again.

## 4. Proofs

TLC's instances are small; the following hold for every value of the constants that
satisfies the assumptions named in the modules:

| Assumption | Says |
|---|---|
| `AddressAssumption`, `ZeroAssumption`, `TokenAssumption` | the null address is no account, and neither is the contract |
| `NumberAssumption`, `RangeAssumption` | amounts, periods and blocks fit a uint256 |
| `DistinctAssumption` | the null values of `Mutex` are no calls or keys |
| `CallAssumption` | a purchase is no other call; prices and deposits are positive; an engine and faults are among those modelled |
| `CallsAssumption` | a call on a token channel is of one kind; payer and payee are accounts; the library asks for a positive settlement period (`ChannelManager.ts:319`) |
| `HomeAssumption`, `StartupAssumption` | each call has an instance and an API function; names of outcomes are no calls |
| `PaywallAssumption`, `ValuesAssumption` | sites, clients and gateways on PostgreSQL are among those modelled; a payment has the fields of `payment.ts`, and what is undefined is no value |

| Theorem | Statement | Argument |
|---|---|---|
| `Invariance` | `Spec => [](TypeOK /\ WellFormed)` | inductive as it stands, once `WellFormed` ties each deadline to its announcement and demands that a deleted record is all zero |
| `FairEnding` | `Spec => EndsFairly` | only `settle` and `claim` end a channel; the invariant turns the guard of `settle` into the elapsed period |
| `TermsAreKept` | `Spec => TermsHold` | one case per action; `canDeposit` and `canStartSettling` refuse a settling channel |
| `EveryStepBalances` | `Spec => StepsBalance` | one case per action |
| `BalanceIsOwed` | the balance is the sum of the channels' values (finitely many ids) | from `StepsBalance` and the lemmas of `Sums_proofs` |
| `Refinement` | `Spec => ImplementsLifecycle` | initial states map to initial states, each action to one of the lifecycle or to a stutter; a block maps to the set of channels whose period it ends |
| `Compatible`, `TokenCompatible` | `Spec => ImplementsLegacy` | each transaction of the new contract is the one of the old under a stronger guard; pause, ownership and roles are stutters. In Ether a payment is the old one if its payees are `Frugal`, and the exception that the property names if not |
| `TokenInvariance`, `FairTokenEnding`, `TokenTermsAreKept` | the same three of `TokenUnidirectional` | as above; the record also names its token, and a promise is for that token |
| `EveryTokenStepBalances`, `Consent` | `Spec => StepsBalance`, `Spec => PullsAreConsented` | three facts about steps: what `open` and `deposit` do (`PaysIn`), what `settle` and `claim` do (`PaysOut`), and that every other step takes nothing from anybody (`KeepsMoney`) |
| `ChannelsAreFunded` | of each token the contract holds at least the sum of its channels (finitely many ids) | as for Ether, token by token |
| `CallsFollowContract`, `CallsFollowLegacy` | `CallsSpec => Spec`, `CallsSpec => ImplementsLegacy` | a transaction that is mined is one of the contract's, anything else a stutter |
| `AllowanceStaysExact`, `RefusalsHaveReasons` | `[]AllowanceIsExact`, `RefusedForAReason`, if `MaxAtOnce = 1` | `Order`, `Exact` below |
| `ReceiptsNeedNoReading` | `ReturnsAreReal`, if `MaxAtOnce = 1`, with finitely many ids and deadlines in range | `Owned`, `Outcomes` below and `ChannelsAreFunded` |
| `FirstInFirstOut`, `Exclusion`, `NoEntryLeaks` | `[]Fifo`, `[]MutualExclusion`, `[]EntriesAreBusyKeys` of `Mutex` | invariant `IInv` below |
| `MutexIsFifoLock` | `Spec => ImplementsFifoLock` | the calls ahead of one in the lock are those that arrived earlier on its key; `Fifo` says that they have settled when it starts, `Arrivals` that the position it takes is new |
| `PurchasesAreStored` | `[]AnsweredIsStored` | `Progress` below |
| `PromisesStayCovered` | `[]PromisesAreCovered` | `Covered`: also a promise about to be signed has its money, since what a living channel holds never shrinks |
| `ListingsStayTrue` | `[]ListingsAreTrue` | `RowsFollow` |
| `ChannelsStayRecorded` | `[]ChannelsAreRecorded`, if nothing crashes and no receipt is late | inductive over `Types` |
| `OpeningsAreNeeded` | `OpensOnlyWhenNeeded`, as long as the amounts compared have the order of their texts | `RowsFollow`, `OpensAlone` |
| `ClaimsAreFresh` | a claim asks for the last payment there is when it is mined | `ClaimIsFresh` |
| `ClaimsPayTheMost` | `ClaimsTheMost`, as long as the amounts stored have the order of their texts | `ClaimIsFresh`, and a set of numbers below a bound has a largest |
| `BooksStayEqual`, `EarningsStayRedeemable` | `[]BooksAgree`, `[]EarningsAreRedeemable`, if `MaxInFlight = 1` and the faults are late receipts and refusals, on either engine of the receiver | `Books`, `Earnings` |
| `VersionIsHonest`, `RaisingIsSafe` | `[]VersionImpliesTables`, `[]RaiseIsReady` of `Migration` | a call about to write the version has created the tables, and tables are never dropped |
| `StartupImplementsMigration` | `StartupSpec => Spec` of `Migration` | every step of code either takes the step of `Migration` it names or leaves its variables alone; throws of several calls at once are `fail` |
| `VersionStaysHonest`, `RaisingStaysSafe` | the same of `Startup` | from the refinement and the theorems of `Migration` |
| `ObjectsAreBuiltOnce`, `OnePoolAtATime`, `ShutdownLeavesNothingOpen` | `[]BuiltOnce`, `[]OnePool`, `ShutdownReleases`, if `MaxTogether = 1` | `SetUp`, `Pools`, `Releases` below |
| `TypesHold`, `TokensAreRedeemable` | `[]TypeOK` of `Paywall`; each issued token has a stored payment that can be claimed | `Messages`, `Tokens` below |
| `ContentIsPaid`, `ContentIsFresh`, `TokensAreHonoured` | `ServedIsPaid`, `ServedIsFresh`, `BoughtIsHonoured` | from the same invariant, for the one step that serves and the one that refuses |

The extra assumptions are those under which the properties are claimed and run;
`LargestPayment` and `TwoAtOnce` show what happens without two of them.

### The invariants

**Mutex.** `Fifo` alone is not inductive: nothing in it says which promise a call waits
for. `IInv` adds that a call waits for the call just before it on its key, or that
all earlier ones have settled if it waits for none (`Chain`), the same of the promise the
map holds for the next call (`Tail`), that no two calls have the same position
(`Arrivals`), and that a promise is resolved only when its call has settled (`Released`).

**Contracts.** In the token contract `StepsBalance` and `PullsAreConsented` are about sums
and about whoever pays, and `open` and `deposit` would each need the whole argument. The
three facts above separate what moves (proved per action) from what follows of it (proved
once). `EndsFairly` needs `WellFormed` twice: a deleted record has no deadline, and a
living one a token, so that `Pull` and `Push` move the token the record names.

**Sums.** The sum over a finite set is a fold over an element chosen at each step, and
what holds of it for every set cannot be shown by the library's induction over finite
sets. `Sums_proofs` argues by a smallest counterexample instead: strict inclusion is
well-founded on the subsets of a finite set, so if a claim fails for some subset, it fails
for one that is least, and the chosen element of that gives a contradiction.

**PaymentSystem.** Layers, each inductive given those before it. `Types` says what the
place of a call implies for its channel, its row and its queue. `Progress` follows one
exchange: a request was signed, a token means rows on the other side. `Covered` and
`RowsFollow` relate rows and promises to the chain; `RowsFollow` needs that an id is
never used again, so also that whatever a receiver has a row of was opened or promised
once (`Remembered`). `ClaimIsFresh` and `OpensAlone` say that whoever is past the lookup
stays the head of its queue. `Books` is the largest: with one purchase at a time, what the
row of a channel counts as spent is the sum of the prices of the purchases the receiver
has accepted on it, but for the one whose answer is on its way (`Uncounted`). A payment
that was stored and then refused is in neither. `Earnings` adds that this sum is nothing or
one of the amounts stored for the channel: that of the purchase accepted last.

**TokenChannels.** A step has one of five shapes (a call starts, walks on, sends a
transaction or stops, or a transaction is mined), and each part is shown shape by shape.
`Order`: the transaction a call waits for is the last of its account, so a receipt is
followed by nobody else's effect. `Exact`: an approval that was mined stands until the
pull. `Owned`: a channel that is being opened is nobody else's business (`Private`,
`OpensOnce`) and everything that names a channel names it with one token (`Agreed`).
`Outcomes`: what a simulation showed holds until the transaction is mined, and what a
receipt says until it is seen.

**Startup.** The getters are stacks of frames, and the argument is about them. `SetUp`
says that each frame has been given what is in the fields of its instance, that a getter
is entered only above a frame that awaits it and of a higher rank, so never twice in
one stack (`Stacks`), that of all calls of an instance at most one is not waiting for the
database, and a waiting one is past the getters (`Control`), and that the object
in a field is the only one built by its getter (`Objects`). The order of the getters by
rank is what makes a second building impossible. `Pools` ties the state of a pool to the
promise of its connection and to the calls that wait for it, `Releases` says that nothing
is opened again between the end of the engine and the return of a shutdown.

**Paywall.** `Messages` says what the place of a visitor promises of the message on its
way; `Tokens` backs each table by the one before it, from the token a visitor holds through
the playground's memory and the gateway's table to the payment. The lemmas about `Wire`
show that the conversions keep what a claim needs.

### What the proofs corrected

- `OnePool` was false for more calls than the run has: a later call whose connection was
  rejected, or that reopened a pool after a shutdown, could be followed by another
  instance in the process. The guard of `another` now looks at all pools of the process,
  and a pool that could not connect is not counted.
- `OpensOnlyWhenNeeded` was false with three ids and held in the run because that had two.
  It now says of the decision to open a channel what the code ensures, with its two
  exceptions, and the run has three ids.
- `Books` used to say that what is spent equals the best stored promise. It does not once a
  payment may be stored and still be refused, as PostgreSQL allows; `BooksAgree` and
  `EarningsAreRedeemable` are about the purchases that were answered, and so hold on both.

### Only model-checked

Liveness (`AnnouncedIsClosed`, `EveryCallSettles`, `EveryCallEnds`, `TablesInTheEnd`,
`EveryApiCallEnds`, `EveryTokenCallEnds`), which needs fairness and ENABLED. What TLC
evaluates of the pure modules: `TextLeq` against the lexicographic order, `Settings`,
and the examples of `Wire`. `WrapperGenerator` declares recursive operators, so nothing
can be proved in it or in a module that reaches it.

`TokenTermsAreKept`, `BalanceIsOwed`, `ChannelsAreFunded`, `CallsFollowContract`,
`ClaimsAreFresh`, `Exclusion`, `TokensAreRedeemable` and the type correctness of the
contracts are proved and not run. `StepsBalance` of the Ether contract is proved for
payees that refuse Ether as well; the run has only payees that accept.

## 5. What is not modelled

- Upgrades of the contracts (after one, any code may run), the proxy, which only
  delegates, and, in the token contract, the transfer of ownership, which is that of the
  Ether contract.
- `payment` of the library (a promise made outside an exchange) beyond its set-up; payments
  in tokens in `Sender` and `Receiver`; the column settlingUntil, which no decision reads.
- PostgreSQL's listings and `findUsable`; `drop`; `sync` to a chosen version and the
  legacy migration scripts, which nothing runs.
- Amounts beyond a SQLite integer, gas (but for what `transfer` leaves a payee),
  reorganizations of the chain, decoding of events,
  emitted events, logging, pages; the wrappers of the legacy contracts, which nothing
  instantiates.
- The memory caches, which nothing uses.
- One table with channels in Ether and in tokens: `findUsable` ignores the token contract,
  and here the two kinds are in different models.

## 6. Plan

1. Done: contracts and lifecycle, mutex, stores, the payment system, migrations, set-up,
   token channels, paywall, wire, settings, generator; the theorems above, among them
   every safety property of a passing run.
2. Prove: that a row which says open of a channel that is gone is never repaired, so that the
   exception of `OpensOnlyWhenNeeded` lasts; the facts of `Settings` for any settings.
3. Extend: payments in tokens, with one table for both kinds of channel; `payment`.
