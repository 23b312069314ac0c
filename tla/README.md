# RedStone oracles: TLA+ models, checks and proofs

RedStone nodes sign prices of feeds (*data packages*) and hand them to gateways. The
SDK fetches packages from the gateways; a connector (one per chain) takes them to an
on-chain adapter in a transaction; the adapter verifies signatures, time and quorum, and
stores the median. Below the connectors, `utils` spreads the calls of a chain's RPC
providers: over several providers that must agree, in batches, one at a time.

This directory holds TLA+ modules of the parts of that program that decide something under
concurrency, failure or hostile input; TLC configurations that check them on small
instances; and theorems about them that TLAPS checks. All paths below are relative to
`src/packages/`. `PROJECT.json` maps each definition to the lines it stands for.

    tlc -workers 2 -config MCSuiPriceAdapter.cfg MCSuiPriceAdapter.tla
    tlapm SuiPriceAdapterProofs.tla

## 1. Inventory

### Components, their state and their operations

| component | state | operations | what makes it hard |
|---|---|---|---|
| **OperationQueue, SetOperationQueue** (`utils/src/operation-queue`) | `queue`, `isProcessing`, `activeOperations` | `enqueue` (replace, refuse, push), `processQueue`, hooks `conforms`, `purge` | calls come while the loop awaits an operation; replacement and purge in the middle of the queue |
| **RequestCollector, CollectorRegistry** (`utils/src/Collector`) | `pending`, `waitingEntries`, timer, two counters, `batchSupported` | `collectMany`, `registerCall`, flush on overflow and by timer, chunks, `fetchSingle` fallback, `dispose`, `onIdle` | answers travel by offset and index through several callers' promises; flushes await in the middle of a registration |
| **MultiExecutor** (`utils/src/multi-executor`) | results, errors, `didFinish` of one call | `execute` of six modes, timeouts | any order of answers, errors, hangs and timeouts; several results seen at once |
| **CuratedRpcList, QuarantinedListFnDelegate** (`utils/src/curated-list`, `.../multi-executor`) | scores, quarantine, two timers; the delegate's copy of the healthy | `scoreRpc`, evaluation, release, `getBestProviders`, `isQuarantined` | late answers, stale copies, timers that re-arm in passing |
| executor proxies, client builders (`utils`) | none of their own | wiring | - |
| caches, retry, throttling (`utils/src/common`) | promises by key, time stamps | `memoize`, `retry`, `batchPromises`, `pThrottle` | a late rejection against a newer entry |
| other helpers of `utils` | none | safe numbers, logging, telemetry, I/O | - |
| **data package requests** (`sdk/src`) | `pendingPromises` by key, the caller's storage | `requestDataPackages`, staged and shared fetch, `checkResults`, filter, storage and cache | requests with different parameters share one fetch and one storage |
| contract parameters, package selection (`sdk`) | cached request | `ContractParamsProvider`, `pickClosestToMedian` | the cache used directly |
| **transaction delivery** (`multichain-kit`) | attempt number, update context | `TxDeliveryMan`, `MultiTxDeliveryMan`, `FallbackMultiTxDeliveryMan` | an attempt goes on after its timeout |
| transaction look-up (`multichain-kit`) | pages of an explorer | `TxLookup` | - |
| **Move delivery** (`move-connector`) | one queue per account, sequence number | `MoveTxDeliveryMan` | several writers, one queue, replaced closures |
| **Stellar connector** | `baseTxHash` in the context | `StellarTransactionExecutor`, `StellarContractUpdater` | TRY_AGAIN_LATER against an earlier attempt |
| **Solana connector** | none of its own | `SolanaContractUpdater`, Jito bundles, skipped errors | an error that means success |
| Sui connector | executor, in-flight count, reinitialisation promise | `SuiContractUpdater` | executor replaced while in use |
| **Sui `price_adapter` contract** | table of prices, config, version | `write_price`, `update_config`, migration | order and clocks of writes by several updaters, config changes |
| **Sui `redstone_sdk`** | none | parse, filter, verify, median | faulty signers, zeros, overflow |
| Sui `main`, `admin` | capabilities | creation | type system |
| **Stellar `redstone-adapter`** | last price and a bounded history per feed | `write_prices`, reads | a batch whose feeds are skipped one by one; two places for one price |
| **Stellar `redstone-sep-40`** | feed map in five storage entries, decimals | add, remove, update a feed; `price`, `prices`, `lastprice` | five entries in step; scaling and overflow |
| **Aptos, Radix, Solana, Stylus adapters** | an entry per feed | `write_prices` and its kin | own units of time, own idea of a feed without entry |
| **Casper, Fuel, Starknet, TON adapters** | one timestamp for the feeds of the last round | `write_prices`, TON's `FETCH_DATA` | feeds come and go between rounds; messages between contracts |
| **Canton adapter and price pills** (daml) | the records of each feed, the pills on the ledger | `WritePrices`, `UpdatePillFactory`, `UnlinkAllPills`, the cleaner | time is what the caller claims; one transaction archives pills of all feeds |
| price feed contracts, Stellar router, Canton core | none, or a link | reads | - |
| payload format, signing; legacy interfaces; configuration data | none | - | - |

Bold rows are modelled here.

### How they interact

* A connector's client is a proxy over `MultiExecutor`: each method call becomes one
  `execute` over the providers that `QuarantinedListFnDelegate` lets through, and each
  provider's success or failure is scored in `CuratedRpcList`, which decides who is let
  through next.
* Reads of many ledger entries or accounts go through a `RequestCollector`
  (`LedgerEntriesCollector`, `SimulationCollector`), whose chunks are calls of such a client.
* Relayers ask `requestDataPackages`, often at the same moment for different feeds, and share
  fetches and storage.
* A contract updater takes the packages and writes them; `TxDeliveryMan` repeats the write, batch by
  batch and attempt by attempt, with a context the attempts share; on Move chains the calls of all
  managers of an account queue up in one `OperationQueue`, where a newer call for the same data
  replaces the one that waits.
* On the chain, the adapter trusts none of this: it takes a payload from anybody and checks
  signers, time and order again. On Stellar a second contract reads the first; on TON a price feed
  asks its manager by messages; on Canton consumers hold pills instead of asking the adapter.

### What makes each modelled part correct

* **Queue**: one operation at a time; nothing queued is lost, starved, overtaken, or run with
  an older closure than the newest call for it.
* **Collector**: every caller gets the answer to each of its keys, once; no entry and no
  pending key is left behind; a collector is retired only when idle.
* **Executor**: an agreed value has its quorum in every order of answers; a rejection
  means that no order could have settled; a caller with a guard against hanging is answered.
* **Curated list**: callers always find enough providers; nobody stays in quarantine.
* **SDK**: whoever started a shared fetch and wherever a response was stored, a caller gets
  only what its own parameters accept, and is turned away only when no gateway is left to ask.
* **Delivery**: what is reported as delivered is on chain, by a transaction of its own, however
  attempts that were given up run on; every caller is answered.
* **Adapters**: stored prices lie among honest ones and only give way to later ones, feed by feed
  or round by round; what an honest quorum signs now is accepted. Whatever reads a price in another
  way (history, registry, price feed, pill) agrees with it.

### Hazards

`PROJECT.json` lists them at their lines with the properties that would catch them: 40 of
them, 32 with a property. The others say why none covers them; some are work for section 8, and some are
what the code does and no text of the repository forbids (a batch rejected for one point, a race without a guard, a superseded
call on Move).

## 2. Modules

```
Median -- MultiExecutor -- MCMultiExecutor
  |            `------------------- ExecutorProofs (with CuratedRpcList)
  |
  PayloadVerification -- SuiPriceAdapter ---- SuiPriceAdapterProofs
        |                 |  (PriceFeeds)
        |                 MCSuiPriceAdapter
        |
        ChainPayloads -- FeedAdapters  (PriceFeeds) --.
                    |--- RoundAdapters (PriceRounds) -- PriceAdapters -- MCPriceAdapters
                    `--- CantonAdapter (PriceRounds) -'      |
                                                        PriceAdaptersProofs

Sep40FeedMap -- StellarOracle (PriceFeeds) -- StellarOracleProofs
                  |
                  MCStellarOracle

Subsequences -- OperationQueue -- MCSetOperationQueue (+ SetOperationQueue)
     |             |      |
     |             |      `(INSTANCE)-- MoveDelivery --.
     |             |                      TxDelivery -- Deliveries -- MCDeliveries
     |             |                                      |
     |             |                                     DeliveryProofs
     |             `--------------.
     |                            QueueAndCollectorProofs
     |             .--------------'
     RequestCollector -- MCRequestCollector
     |
     DataPackagesResponses -- DataPackagesRequest -- MCDataPackagesRequest
                                   |
                                   DataPackagesProofs

CuratedRpcList (checked by itself)
```

Names in parentheses are abstract specifications that a module instantiates and refines. `FiniteLemmas`, which the
modules of proofs extend, has the facts about medians, finite sets, least positions and `Keep` that several of them need.

JavaScript runs to its next `await` without interruption, so an action of the TypeScript
modules is one such stretch: everything that happens from one external event (a call, an
answer, a timer) to the next await, unless other promises' continuations can come in between,
when it is split there. A transaction on a chain is atomic and is one action; one that fails
changes nothing and is no step.

Each module also holds operators marked *Mutant of ...*: a definition as a plausible bug would
have it. None of them is used by a specification; substituting one for the definition it names
must break the property it is listed with, which shows that the property can be broken.

### OperationQueue, SetOperationQueue, Subsequences

`queue`, `isProcessing` and `activeOperations` are the fields of the class. `awaited` is the
set of entries that a `processQueue` call awaits (a set, so that two loops could show), and
`latest` is history: the operation last accepted for each id. `Replace`, `Refuse` and `Push` are
the three ways through `enqueue`; `Push` contains the synchronous start of `processQueue`.
`Settle` is the end of an operation, which in the code is the same for a result and an error,
with the loop's next turn. The hooks are the constants `Conforms` and `Purging`;
`SetOperationQueue` gives the superset relation. `ConformsAssumption` says that conforming
is reflexive and transitive and strict conforming is equality, which both classes satisfy.
`Subsequences!Keep` removes entries and keeps the order (splice in a backwards loop).

### RequestCollector

`pending`, `waitingEntries`, `timer`, `batchSupported` and the two counters are the class's;
`call`, `consume` and `caller` are the activations of `registerCall`, `consumeWaitingEntries` and
`collectMany` that are alive, with the point they have reached. `CollectPending`,
`CollectRegistering`, `CollectFlushing` are the ways through `collectMany` up to its first await
(everything is pending; the entry is pushed; the batch would overflow and is flushed first).
`RegisterPushes` is the push after that flush, `TimerFires` the flush by timer, `ChunkFetched`,
`ChunkFails` and `ChunkUnsupported` the outcomes of a chunk, the last with the fall back
to single requests. `RegisterReturns` and `CallerSettles` are the two `finally` blocks. `Dispose`
and `NewCollector` stand for the registry's `disposeAll` and `get`; `AfterIdle` is
`maybeFireOnIdle` with the registry's deletion. Activations are reused when nothing can reach
them (`Garbage`), so that executions are not bounded in length.

### MultiExecutor, Median

One call from `execute` to its outcome. `answer` fixes in the initial state what each
provider will do (a value, an error, nothing) and who is filtered out as quarantined; `Record` and
`Handle` are the two microtasks of a promise, its `then`/`catch` and its `finally`, because
several may be recorded before the first `finally` looks at the results. `Verdict` is
`verifySettlements` with `aggregate` per mode. In fallback mode `Record` waits for the providers
before it to have failed. `Median` is shared with the contracts: `KthSmallest` as an order statistic;
`calculate_median` halves the sum of the middle two downwards, the executor upwards. The mode `ceil_median` is
an `Executor` handed over in the place of a mode (`MultiExecutorFactory.ts:45`), the `CeilMedianConsensusExecutor` with which clients
ask for block numbers (`ClientBuilder.ts:22`). The plain `CONSENSUS_MEDIAN`, the same without the rounding, is used by no client
and not modelled.

### CuratedRpcList

Scores, quarantine and the timers as in the class; the delegate's copy `healthyIdentifiers` with
`refreshDue`, whether it is older than its refresh interval; and the number of calls in flight per
provider. `Released` is the loop of `getBestProviders` that frees providers until enough are
healthy; `FreeOne` the timer's random choice.

### DataPackagesResponses, DataPackagesRequest

`DataPackagesResponses` has the code without state of its own: what a request accepts of a response
(`Accepts`, `Selected`), when a cache entry conforms to a request and may be extended, and the
storage's `get`, `set` and purge. A package is its signer and timestamp; a key whose value is `undefined`, which the parser leaves
for a feed without readable packages, has the empty sequence.
`DataPackagesRequest` has the callers, the running fetch per key (`pendingPromises`), the storage and
the clock. `Request` is `requestDataPackages` up to its first await; `GatewayAnswers`, `GatewayFails`
and `StopWaitingForAll` are the events of a fetch. Each leads through `checkResults` to one of
`Resolve`, `Retry` (the second stage), `Reject`, `KeepWaiting`, together with the callers' own
filters, which run in the same drain of microtasks. A fetch follows the
parameters of the request that started it, as the code does. `fetch` is a function of the keys that have a
pending promise, as the code's map is.

### TxDelivery, MoveDelivery, Deliveries

`TxDelivery` is one update by `MultiTxDeliveryMan` or `FallbackMultiTxDeliveryMan`. `delivery` is where
`TxDeliveryMan.submit` is with each batch; `operation` is one activation of `updater.update` per batch and
attempt, with the payload's timestamp and the hash it waits for; `tx` is its transaction as the chain
knows it; `baseTxHash` is `StellarOperationContext`; `price` is what the contract has of the batch. `TimedOut`
ends the waiting and starts the next attempt: the old operation stays and may still send, be confirmed or
fail (`Return` looks whether its attempt is still awaited). `Begin` starts a chunk of batches, or the Jito
bundle (delivery `Bundle`) and after its failure the batches. There is one bundle of all batches: that `FallbackMultiTxDeliveryMan`
cuts longer updates into several bundles, each with its own fallback, is left out. `Send`, `TryAgainLater`, `FailToSend`, `Confirm`
and `GiveUp` are the executor's outcomes; `FailToSend` includes an answer lost after the chain has the
transaction. `Execute` is the chain, which takes pending transactions in any order, late, or never, and
refuses what its contract refuses; `Skippable` are the errors that Solana's connector counts as success.

`MoveDelivery` is `MoveTxDeliveryMan`: concurrent calls of `sendTransaction`, each a series of iterations that
go through the account's queue, which is an INSTANCE of `OperationQueue` (its operations are the calls and
those of the account's other managers). `Enqueue`, `Supersede` and `BeRefused` are what the queue does with an
iteration; `sequenceNumber` is the manager's and `accountNext` the chain's.

`Deliveries` is one process of a relayer: the connector, chosen in the initial state, says which of the two
runs.

### PayloadVerification, SuiPriceAdapter, PriceFeeds

`PayloadVerification` says what `try_process_payload` accepts and returns over a parsed payload: the
sequence of its packages, with repeated packages, repeated feeds, zeros, over-wide values and
unknown signers among them. Additions that overflow `u64` abort (`U64`); `from_bytes_to_u256` is
`% U256`. `SuiPriceAdapter` is the shared object: `WritePrice` (the update-time check, the payload,
the table), `UpdateConfig`, `MigrateToVersion2` and the chain's `Tick`. A call that fails changes
nothing and is no step, with one exception the code has and `Overwritten` keeps: the default entry
put in the table before the timestamp is compared. An object of version 1, which a migration finds, may hold prices of the version
before (`Tables`); what is assumed of them is what every write has left (`TableAssumption`).

`PriceFeeds` is the abstract specification of an adapter that keeps its feeds apart: what readers may
rely on, namely that a price is replaced only by one with a later package and a later write, both
stamped, and that it is honest, as long as its feed is `vouched` for. It says nothing of signers, configurations, intervals or payloads.
Six adapters refine it: Sui and Stellar, each in a module of its own, and those of `FeedAdapters`. All of them vouch for every feed at any time
but Aptos, which cannot: see `FeedAdapters`.

### Sep40FeedMap, StellarOracle

`StellarOracle` is both Stellar contracts. `latest` and `history` are the two places where the adapter keeps a
price: a key of the version before the history (which the initial state may hold already) and the bounded
`PriceDataStorage`. `WritePrices` updates or skips each feed of a payload on its own. What the payload
processor, an external crate, returns is `ProcessedPayloads`. `Sep40FeedMap` has the registry
as a record of its five storage entries and `add`, `remove`, `update` as functions of it; `PriceAt`, `Prices` and
`LastPrice` are the three readers with the scaling of `price_data_to_sep_40`.

### ChainPayloads, FeedAdapters, RoundAdapters, CantonAdapter, PriceRounds, PriceAdapters

The adapters of nine further chains. `ChainPayloads` has what each takes for a valid payload: the processors that are
part of the repository (Aptos, Starknet, TON) over the packages of a payload, and the library that the
others call as what it may return (`Processed`). `FeedAdapters` keep an entry per feed (`prices`);
`RoundAdapters` one timestamp for all feeds of the last round (`values`, `feed_ids`, `timestamp`), which is cleared of
the feeds that the next round leaves out. On TON a price feed is a contract of its own (`feeds`), and its
`FETCH_DATA` and the answer are messages in transit (`requests`, `answers`). Units of time are the
chains' own: seconds and milliseconds meet in `Now` and `MS_IN_SEC`, and the Stylus contract's mixture of both is kept
(`WriteClock`).

On Aptos every point of a package is a value in the median (`payload.move:201-217`), and nothing looks whether a package has a feed
once. One faulty signer who repeats a feed outvotes the others. The model lets it happen: `repeated` is a history variable, the set of
the feeds whose price was taken from a payload with such a package (`RepeatedIn`), and the adapter vouches for the others. A price of
this kind still has to be later than the one it replaces, and a write without repetitions ends it.

`CantonAdapter` has `feedData` (the `PillRecord`s of each feed, newest first), the active `pills`, and whether the adapter has
a factory. A write claims a time (`ClaimSound`), skips the feeds without an agreed or newer value (`NewValues`),
and with a factory creates pills, keeps the two newest records of each feed, stamps the older ones as demoted and archives
those whose stamp is old enough, of all feeds (`Remaining`, `ToArchive`); a pill that is gone fails the transaction. A
signer who names two values for a feed takes the feed out of the write, and so does a stranger in one package (`Unconflicted`).
`ArchiveStale` is the maintenance script that archives stale pills past the adapter.

`PriceRounds` is the second abstract specification: a round of prices gives way only to a later round, as a whole, and each of
its prices is honest for its time or after it. It is implemented by the round adapters (all feeds in one round) and, feed by
feed, by TON's price feeds and by Canton. Canton does not implement `PriceFeeds`: its write times are claims of
different updaters, and a later claim may be less than the ledger's time.

## 3. Runs

| run | instance | distinct states | what it shows |
|---|---|---|---|
| `set_queue` | four ids (a chain, an overlap, two incomparable), two operations | 5 509 | one loop, no covered entry, newest closure, nothing overtaken, everything eventually run |
| `collector` | two callers, two overlapping lists of two of three keys, batches of two, two register calls and two flushes alive | 29 421 | nothing forgotten, answers match, fetches accounted for, every `collectMany` settles |
| `multi_executor` | three providers, two values, two points, every mode with one, the other or no timeout | 62 680 | quorum, consensus, justified rejection, answered callers |
| `curated_list` | three providers, minimum two, rate 1/2, three calls | 13 720 | timers, minimum of healthy providers, release, evaluation |
| `sdk_request` | two callers, two gateways, seven kinds of request, clock to 3, ttl 1 | 17 643 | answers conform, justified rejection, every request settles |
| `sdk_extended_cache` | the same with one gateway | violation | finding 1 |
| `tx_delivery` | two attempts on Stellar and Solana, a Jito bundle of two batches with its fallback; on Move two calls for the same data with two iterations each and another manager | 312 644 | what is reported as delivered is on chain; every caller is answered |
| `stellar_two_batches` | an update of Stellar in two batches | violation | finding 2 |
| `sui_adapter` | three honest signers, a faulty one and a stranger, two feeds, five configs, about 35 payload shapes per timestamp, clock to 4, tables with and without prices before the migration | 6 476 | honest prices, no lock-out, fresh quorum accepted, refinement of `PriceFeeds` |
| `stellar_oracle` | two feeds, two assets, decimals 1, 3 and none, a history of two, clock to 4 | 195 692 | the registry in step, the history in order, readers agree, refinement of `PriceFeeds` |
| `price_adapters` | each of nine chains (Fuel and TON with both their contracts), two feeds, three honest signers, a faulty one and a stranger, five timestamps, clock to 4 | 96 091 | refinement of `PriceFeeds` and `PriceRounds`, pills kept |
| `canton_pills` | the same with the chain Canton only | violation | finding 3 |

### Why the bounds are enough

* *set_queue* has no bound but the ids: no entry covers a later one, so ids bound the queue. Four ids
  are enough for a replacement that purges from behind an entry that stays.
* *collector*: two callers with lists of two fill a batch, overflow it together and share a key. Two
  register calls are what a draining call and its successor need. `Calls` and
  `Consumes` bound what is alive at one time, not how often; a call that finds none free waits. With three
  calls (one drains while a caller waits for another's) the liveness check takes too long; the four
  invariants are theorems for any number of them (section 5).
* *multi_executor*: with three providers a quorum of two can be reached, missed, tied and reached after an error.
  The two values 1 and 4 have an odd sum, so that rounding of the median shows.
* *curated_list*: three calls let a score arrive after quarantine, release and evaluation.
* *sdk_request*: each caller asks once; what one leaves in the storage is what the other finds. Seven kinds of
  request cover equal and different keys, both stages, the storage, a past timestamp, a limit to the age, all packages
  and missing feeds. Gateways serve, at each time, responses of this or the last
  moment: two signers, one, an unknown one, two moments, feeds missing or without readable packages. `MaxTime` 3 lets an entry expire and one be added after.
* *tx_delivery*: two attempts are what it takes for one to run on beside its successor; `MaxClock` 2 and `MaxDelay` 0 let a
  payload be new, old and too late. On Stellar the update has one batch (finding 2 is what happens with two). Two calls
  for the same data, with another manager's operation, replace, refuse and supersede one another. `MaxSequenceNumber`
  bounds the transactions of the account.
* *sui_adapter*: widths are made small (`U64` 9, `U256` 8) so that overflow and truncation happen.
  One config has a sum that overflows, one is refused by `check`. The clock to 4 has each interval and
  each delay expire.
* *stellar_oracle*: two timestamps in one second, a history that drops an entry, a price that overflows when scaled (`I128` 100), and
  two feeds for two assets, so that an update can take another's asset.
* *price_adapters*: several shapes of payload per timestamp (all feeds or one in a package, one timestamp or several, a faulty value,
  a package twice, a feed three times in a faulty package so that it has the majority on Aptos, a stranger's package, one that contradicts itself). Five timestamps and four seconds let rounds follow one another with feeds left out. On TON one
  feed has a contract, with at most two messages in transit (`MaxMessages`). On Canton four claimed times, a keeping
  time of 1 and one choice of the owner (`MaxOwnerCalls`) are the least with which a pill is made, demoted, archived, unlinked, cleaned away, and a
  write refused because of it; its payloads are a subset (`CantonPayloads`), since the orders of writes and claims multiply.

`CHECK_DEADLOCK FALSE` is set where the system may stop: a call of an executor ends, callers of the SDK
have asked, an update has its answer, the modelled clock of a chain reaches its bound.

### Properties

* OperationQueue: `TypeOK`, `SingleFlight`, `NoCoveredEntry`, `FreshOperation`, `NeverOvertaken` (action property),
  `EventuallyRun` (liveness).
* RequestCollector: `CollectorTypeOK`, `NothingForgotten` (the timer and the pending keys), `AnswersMatch`, `FetchesAccounted` (the counters
  behind `onIdle`, and no key fetched twice at a time), `EveryCallerAnswered` (liveness).
* MultiExecutor: `TypeOK`, `ResolvedByVotes`, `RejectedOnlyUnsettled`, `CallerAnswered` (liveness).
* CuratedRpcList: `ListTypeOK`, `TimersArmed`, `EnoughHealthy`, `EventuallyReviewed` (liveness).
* DataPackagesRequest: `TypeOK`, `AnswersConform`, `RejectedUnserved` (action properties), `EveryRequestSettled` (liveness).
* Deliveries: `TypeOK` (with the context's hash and Move's number naming what is on the chain), `DeliveredMeansWritten`,
  `EveryCallerAnswered` (liveness).
* SuiPriceAdapter: `TypeOK`, `HonestPrices`, `NeverLockedOut`, `FreshQuorumAccepted`, `ImplementsPriceFeeds` (refinement).
* StellarOracle: `TypeOK`, `FeedMapOK`, `HistoryInOrder`, `ReadersAgree`, `ImplementsPriceFeeds` (refinement).
* PriceAdapters: `TypeOK`, `ImplementsPriceFeeds`, `ImplementsPriceRounds` (refinements), `PillsKept` (a write archives a pill only
  if two newer prices of its feed were there before; otherwise pills go only as stale ones; one that the adapter links to is there unless stale). It
  does not say that writes never fail over a pill that is gone: they do, once the owner's script has taken a linked one (finding 3).

## 4. Fairness

* **OperationQueue**: weak fairness of `Settle`, that is, an operation that was called ends. Callers need not
  call, and may call for ever: liveness holds against any stream of calls.
* **RequestCollector**: weak fairness for continuations. Strong fairness for the timer and for
  each flush's chunks: callers of the model could spin on keys that are at hand and keep the event loop from
  timers and network callbacks, which real callers, who await something each time, do not. Chunks
  settle because the fetch behind them does.
* **MultiExecutor**: weak fairness of `Record` and `Handle` (promises that do not hang settle, microtasks run; a
  hanging one settles by the single timeout where its mode passes it on) and of the total
  timeout. `CallerAnswered` is claimed only of guarded calls (`Guarded`).
* **CuratedRpcList**: weak fairness of the evaluation timer, and strong fairness of `FreeOne` for each
  provider: the weighted random choice frees each quarantined provider with positive probability each time the timer fires.
* **DataPackagesRequest**: weak fairness, per key, of a gateway answering or failing: every HTTP request has a timeout.
  Nothing is assumed of answers, of the clock or of `StopWaitingForAll`.
* **Deliveries**: weak fairness of `Begin` (the loop over batches) and of `TimedOut` (a timer), and none of any operation
  of an update: the answer comes though every operation hangs. On Move, where no timer guards an iteration, weak fairness of each
  caller's steps (the client's calls end, with an error if need be) and of the other manager's operations.
* **Adapters**: none; their properties are about safety.

## 5. Theorems

| module | theorem | statement |
|---|---|---|
| `QueueAndCollectorProofs` | `TypeCorrect` | `Spec => []TypeOK` (the queue) |
| | `EntriesUncovered` | `Spec => []NoCoveredEntry` |
| | `OneLoop` | `Spec => []SingleFlight` |
| | `NewestOperationRuns` | `Spec => []FreshOperation` |
| | `NothingOvertaken` | `Spec => NeverOvertaken` |
| | `CollectorTypeCorrect` | `CollectorSpec => []CollectorTypeOK` (the collector) |
| | `NothingLeftWaiting` | `CollectorSpec => []NothingForgotten` |
| | `AnswersBelong` | `CollectorSpec => []AnswersMatch` |
| | `FetchesKnown` | `CollectorSpec => []FetchesAccounted` |
| `ExecutorProofs` | `TypeCorrect` | `Spec => []TypeOK` (a call of the executor) |
| | `ResultsVoted` | `Spec => []ResolvedByVotes` |
| | `RejectionsJustified` | `Spec => []RejectedOnlyUnsettled` |
| | `ListTypeCorrect` | `ListSpec => []ListTypeOK` (the curated list) |
| | `TimersRun` | `ListSpec => []TimersArmed` |
| | `EnoughToCall` | `ListSpec => []EnoughHealthy` |
| `DataPackagesProofs` | `TypeCorrect` | `Spec => []TypeOK` |
| | `ConformingAnswers` | `Spec => AnswersConform` |
| | `JustifiedRejections` | `Spec => RejectedUnserved` |
| `DeliveryProofs` | `TypeCorrect` | `Spec => []TypeOK` |
| | `DeliveredIsWritten` | `Spec => []DeliveredMeansWritten`, if an update of Stellar takes one transaction |
| `FiniteLemmas` | `MedianHonest` | a median lies between two numbers of any majority |
| `SuiPriceAdapterProofs` | `TypeCorrect` | `Spec => []TypeOK` |
| | `PricesHonest` | `Spec => []HonestPrices` |
| | `NotLockedOut` | `Spec => []NeverLockedOut` |
| | `FreshQuorumsAccepted` | `Spec => []FreshQuorumAccepted` |
| | `PriceFeedsImplemented` | `Spec => ImplementsPriceFeeds` |
| `StellarOracleProofs` | `TypeCorrect` | `Spec => []TypeOK` |
| | `FeedMapSound` | `Spec => []FeedMapOK` |
| | `HistoriesOrdered` | `Spec => []HistoryInOrder` |
| | `ReadersAgreed` | `Spec => []ReadersAgree` |
| | `PriceFeedsImplemented` | `Spec => ImplementsPriceFeeds` |
| `PriceAdaptersProofs` | `TypeCorrect` | `Spec => []TypeOK` |
| | `PriceFeedsImplemented` | `Spec => ImplementsPriceFeeds` |
| | `PriceRoundsImplemented` | `Spec => ImplementsPriceRounds` |
| | `PillsStay` | `Spec => PillsKept` |

The provers check 10 223 obligations in eight modules.

**The queue**, for every set of ids, every conforming relation within `ConformsAssumption` and every
interleaving. `SingleFlight` is inductive by itself. `NoCoveredEntry` needs the type and what a purge
keeps (`PurgeProperties`): after a replacement at position k no entry behind k is covered by
the new id, and one before k that covered it would, by transitivity, have covered an
entry it did not. `FreshOperation` is not inductive alone: were there two entries of one id, replacing the
first would leave the second with an older closure. `NoCoveredEntry` excludes that, since conforming is reflexive.
`NeverOvertaken` is an action property, proved from the type and `SingleFlight`. `SupersetsConform` says that the
relation of `SetOperationQueue` is within `ConformsAssumption` for all ids, and not just for those of the run.

**The collector**, for any keys and lists of them, batch sizes, callers, and finite numbers of calls alive (`BoundsAssumption`). None of the three invariants is
inductive alone; `CollectorInv` adds how the parts of the state refer to each other. The entries that wait are calls that wait,
those of consume calls are being fetched and are in one of them only (`Batches`): so a consume call settles each entry once, and
a flush that ends while another one starts cannot touch its entries. What `pending` and the callers hold points at a key of
the call that fetches it (`PendingPlaced`, `ViaPlaced`), which a free call has none of (`FreeCallsEmpty`): so a call's number can be
given out again, and a call nobody refers to be dropped. The calls that callers own are different (`OwnsApart`), and the keys of a
call in progress are pending under it (`OwnKeysPending`): so the `finally` of one `collectMany` cannot forget another's keys, and
two callers do not fetch one key. The counters are cardinalities (`Counted`): while a consume call runs its entries are not
counted out, so `onIdle` cannot fire at its end (`ConsumeEndsStep`), and where it fires nothing is in progress
(`RegisterReturnsStep`). `SliceIsKeys` is the arithmetic: of the flattened lists, the slice at the offset of an entry is
that entry's list. `FlattenSeq` is a recursive function; what it gathers is related position by position, by the least position at
which that would fail (`AllPositions`, `GatheredPrefix`, `FlattenSlice`).

**The executor**, for any number of providers, any values and outcomes of their calls, every mode and configuration within
`ConfigAssumption`. The invariant says what is recorded: results come from providers that answer, once each, and errors from the
others (`RecordsInv`). A result is judged by the answers recorded when the verdict falls, the properties by the answers there are, and
`VoteCount` relates the two: a count over what was heard is never above the number of those who would answer, and equals it once
all have settled. From that follow, mode by mode, that a value that is agreed on has its quorum and that a rejection leaves
no value with one (`SettlementVotes`, `MultiAgreementVotes`, `ConsensusVotes`, `FirstVotes`); for multi agreement they are
counted per point. `ConsensusVotes` needs the medians rounded upwards (`CeilMedianProperties`).

**The curated list**, for any providers and rates: `ListTypeOK /\ TimersArmed /\ EnoughHealthy` is inductive. An evaluation that
quarantines arms the release timer in the same step, and a refresh ends only when enough providers are healthy (`RefreshStep`).

**The SDK's requests**, for any callers, gateways, parameters, times to live, and whatever the gateways serve. The invariant
relates callers and fetches: a caller waits exactly while the fetch of its own key has it (`CallersOK`), and a fetch has
each gateway asked, still to be asked or failed, with answers, failures and pending ones adding up to those asked (`FetchOK`). Between an
event and what `checkResults` makes of it only `FetchOK` holds; afterwards a fetch that remains has a gateway pending, and nothing
collected once its wait has ended (`FetchWaits`). So each event has one lemma that leads to `FetchOK`, and
`CheckedStep` takes all of them to the invariant. `ConformingAnswers` needs no more of a response than that it is one
(`SelectedConforms`): the filter at the end does it, which is why neither a fetch for other parameters nor finding 1 can break it.
`JustifiedRejections` is the other direction: what a fetch has collected was accepted under its own parameters, the newest response
of several is one of them or has no feeds as one of them (`NewestCollected`), and without an age limit what was accepted then is accepted
now (`AcceptsAnytime`); so a rejection leaves only the case that all gateways have failed, and adding up shows which.

**The median.** `KthSmallest` is defined by counting, so its two bounds are facts about cardinalities
(`KthSmallestProperties`). A family in which an honest part is more than half has an honest
number on each side of every middle rank (`KthSmallestHonest`); the halved sum of the two middle ones
lies between (`MidpointBetween`).

**The Sui adapter**, for every set of signers, configurations, payloads and schedules. Assumptions, all named in
`SuiPriceAdapter`: signatures cannot be forged (`PayloadAssumption`: what carries an honest
signer was signed by it, or is a zero); in each configuration faulty signers are fewer than half of the
threshold (`FaultAssumption`); honest signers sign positive numbers below 2^256 and never for time zero
(`DomainAssumption`). The inductive invariant is `TypeOK /\ HonestPrices`. The step that matters is
`WrittenPrice`: distinct signers and at most one point of the feed in each package make the faulty points
fewer than half of the threshold, so of all points (`FaultyMinority`), every other point was signed
for the same timestamp (`HonestPoint`), and `MedianHonest` does the rest. The refinement
(`RefinesStep`) uses that a write has a later package by `overwrite_price` and a later clock by
`is_update_time_sound`, whose interval is at least one millisecond also for trusted updaters;
that a written timestamp is positive excludes the default entry. `NotLockedOut` is an induction of its own kind: a timestamp is
bounded by the configuration under which it was written and the clock then, and both the clock and the bound only move in its favour, since the
property asks for some configuration of all and not for the current one. `FreshQuorumsAccepted` needs no history: the zeros are
dropped before packages are counted (`RelevantPackages`), and what then is left of a quorum passes each check in turn (`QuorumSound`).

**The Stellar oracle**, for all feeds, assets, decimals, payloads and bounds. The registry and the prices share no
state, so `FeedMapOK` has an induction of its own, with one lemma per operation on the map: the list of
assets is what keeps it together (an asset is listed exactly if it is mapped, and once), and `update` is proved as a removal followed
by an addition. `HistoryInOrder` is inductive with the type: a push keeps a suffix of the old entries (so what was ordered
stays so) and is later than the last entry because `Verified` compared it with `latest`, which the invariant says is
that entry. The refinement maps `latest` to `prices` and the clock to milliseconds; that a stored price is honest is part of the
invariant, since an initial state may hold prices of the version before. `ReadersAgreed` follows from the two invariants
together: the last entry of the history is `latest`, and since timestamps only grow along a history, a search by seconds that
misses the last entry has found an earlier one of the same second.

**The adapters of nine further chains**, each of them, for any feeds, payloads, clocks and signers. `ChainAssumption` says of the packages what
`PayloadAssumption` says on Sui, and that a node signs for times after zero. It lets faulty signers (and strangers) put into a package what they like,
and asks of nobody that a package has a feed once; `FeedAssumption` and `RoundAssumption` say that the
values standing for "no entry" and "never" are none of the others. The state of one chain is untouched by the steps of another, so that
the invariant has a part for each kind:
* *an entry per feed*: a written price is honest, because the library promises it (`ProcessedHonest`) or, on Aptos, because the median over
the points that its own loops gather is one of a quorum's as long as no faulty package has the feed twice (`AptosHonest`), which is when the adapter vouches for
it. So the theorem claims no honesty of an Aptos price that was taken from a payload with such a repetition, and could not: the counterexample is a state of the run. With the order that each contract checks this is the refinement of
`PriceFeeds`.
* *rounds*: only the feeds of the last round have a value (`RoundsOK`), so clearing those clears all, and a new round takes the place of
the old as a whole (`RoundReplaced`); what it holds is honest (`RoundHonest`, which TON's answers need).
* *TON's messages*: the price of a feed, the answers on their way to it in their order, and the manager's price are of later and
later rounds (`MessagesInOrder`). The feed's contract compares
nothing when an answer arrives: that messages between two contracts keep their order is what its property rests on.
* *Canton*: a feed's records are ordered by their packages and the two newest were never demoted (`RecordsOK`); what is linked is on the ledger unless
stale (`LinkedKept`, the second half of `PillsKept`). An archived pill was demoted by an earlier write, so two newer records were there
before (`RemainingRecords`, `MergedRecords`). A feed's record implements a round by itself, which is what `PriceRounds` is instantiated with.

**Delivery**, for every number of batches, attempts, calls and iterations. `DeliveredMeansWritten` alone is not inductive: a
confirmation that comes later must find that the transaction it names was sent for its own batch and that the
contract has its prices. The strengthening (`DeliveryInv`, `MoveInv`) says that an operation only waits for a hash of its own
batch (`WaitsForOwnBatch`), that operations are called by their attempts in turn (`CalledInTurn`), that an operation has no
transaction before it is sent (`Unsent`), that the context's hash names a transaction the network took (`ContextOfSent`), that only Jito
delivers a bundle (`ContextAndBundle`), and that an executed transaction has left prices at least as new as its own (`ExecutedMeansWritten`),
which stays true since prices only grow. For Move it adds the types of the calls, that the account has passed the number of every
transaction that took part in it (`NumbersPassed`), that no call works with a number the chain has not reached (`SequenceNumberReached`), and that a
resolved call saw its transaction committed (`ResolvedMeansCommitted`). Every step of a delivery only adds to what is known
(`Progress`), which each invariant is shown to survive once. `SingleBatch` (an update of Stellar takes one transaction)
is an assumption of `DeliveredIsWritten` alone and is needed for `WaitsForOwnBatch`: finding 2 is its counterexample. `TypeCorrect`
does not need it.

What the proofs changed in the models: that `multiAgreementShouldResolveUnagreedToUndefined` counts in multi agreement only (the other modes
do not read it); that honest nodes sign nothing for the time zero, which Canton's first record of a feed needs and every run had.
Sets of removed positions, the keys that are left to register, the running fetches and the cache's extension are written as explicit functions, so that the provers can see
through them.

Only model-checked: liveness, everywhere; every invariant and action property of the passing runs is a theorem.
Liveness under fairness stays with TLC: TLAPS does not prove `ENABLED` facts. The provers cannot instantiate the induction
theorems over data either; this is why the median is a counting definition and not the code's insertion sort, and why facts
about positions are proved by a least counterexample. No module declares a RECURSIVE operator, which would take tlapm's SMT backend away.

## 6. Findings

1. **An extended cache entry is served to requests for more signers**
   (`sdk/src/DataPackagesResponseCache.ts:164`). An entry fetched for two signers is extended with a response fetched for one and keeps its
   count of two; it then conforms to requests for two. `sdk/test/DataPackagesResponseStorage.test.ts:247` expects `undefined` for
   a "higher uniqueSignersCount". `requestDataPackages` filters again and falls back to a fetch, so that it is not misled
   (`AnswersConform` holds); code that takes what the cache returns is. Run `sdk_extended_cache`; with the count compared the other
   way round as well the run finds no violation.
2. **A batch of a Stellar update is reported as delivered by another batch's transaction**
   (`stellar-connector/src/tx/StellarTransactionExecutor.ts:41`). `MultiTxDeliveryMan` passes one context to all batches
   (`multichain-kit/src/MultiTxDeliveryMan.ts:24`, `:34`). An operation told TRY_AGAIN_LATER waits for the hash in that context, which
   the batch before it has left there; the transaction is found to be successful, and the update is reported as delivered, though the
   feeds of the second batch were never sent. Run `stellar_two_batches`. With one transaction per update it cannot happen, which
   `DeliveredIsWritten` proves.
3. **The cleaning script archives pills that Canton's adapter still links to**
   (`canton-connector/src/adapters/PillCleaner.ts:45`). `canton-connector/daml/adapter/README.md:287` says that the adapter "always keeps the
   **2 newest pills per feed** regardless of age", and line 288 that "Only `creators` (the updater party) can archive pills". The script
   archives as the owner, by age alone (`createStalenessFilter`), and so also the newest pills of a feed that was not updated for a day. The write that would
   archive such a pill later on fails, and with it every write of any feed, until the owner calls `UnlinkAllPills`. Run `canton_pills`;
   `PillsKept` says that nothing else takes a linked pill.

Seen while modelling, without a run:

* `utils/src/multi-executor/AgreementExecutor.ts:55` says of `multiAgreementShouldResolveUnagreedToUndefined` that an unagreed result
  "Will be resolved to undefined". The code returns the most frequent value whenever it is the only most frequent one, quorum or not.
  `ResolvedByVotes` states what the code does.
* `sdk/src/request-data-packages.ts:34` says of `waitForAllGatewaysTimeMs` that responses of all gateways are
  waited for; the staged fetch asks only the first one as long as it does not fail.
* `request-data-packages.ts:28` speaks of unique signers; the filter compares `uniqueSignersCount` with the
  number of packages, in which a signer may appear twice.
* The key of a shared fetch leaves out the number and set of signers and the age limit, so a modest request may be turned away because it joined
  a demanding one. `RejectedUnserved` is therefore stated for the requests whose parameters the fetch follows.
* With `ignoreMissingFeed` a cache entry conforms to requests for any feeds and answers those it does not have with nothing, until it expires.
* The status of an update is that of its last batch (`MultiTxDeliveryMan.ts:44`): an update whose earlier batches failed is a success.
* A Move operation that is replaced while it waits in the queue never settles its promise (`MoveTxDeliveryMan.ts:79`); it may be the first attempt of a
  newer call, replaced by the retry of an older one. `EveryCallerAnswered` is stated for the calls that were not replaced.
* Solana's connector counts an old timestamp as success (`SolanaRustSdkErrorHandler.ts:13`), also one refused because it came too late, so that a
  delivered update need not have left newer prices; `Written` says so.
* The Sui updater returns the digest of a transaction as a success where its own log reports a failure by the update-error event.
* The Stylus adapter adds the interval between updates, in milliseconds, to a block's time in seconds
  (`stylus-connector/stylus/price-adapter/src/lib.rs:197`): for updaters that are not trusted the interval is a thousand times as long. The
  refinement holds, since the interval is only bounded from below.
* In SEP-40, a price whose scaled value is no `i128` drops out of every answer, the last one included, while older prices may still be answered.
* The older Starknet `price_adapter` keeps no order of timestamps at all; the rounds adapter does.
* Aptos compares the requested feeds with each other (`payload.move:59`), not the points of a package, and takes every point into the median
  (`payload.move:201`): a faulty signer who repeats a feed decides its price. The Sui contract refuses such a package (`validate.move:171`); no text
  of the repository says that the Aptos one does.
* Canton, `canton-connector/daml/adapter/README.md`: a demoted pill "stays available for at least `pill_keep_ms`". The code compares the times that two
  updaters claim (`PillRecord.daml:50`), each within three minutes behind and one ahead of the ledger's, so that in the ledger's time it may be
  much less. `PillsKept` states what does hold: the write that supersedes a pill does not archive it.
* Canton: the traffic cost handed to a write is returned to its meter when no update was performed, but not when the write fails
  (`canton-connector/src/adapters/PricesCantonContractAdapter.ts:74`).

## 7. What the models leave out

* *RequestCollector*: counters that are only logged. Two collectors of one key, alive at once after `disposeAll`, whose `onIdle` may
  retire the wrong one: a hazard without a property yet.
* *MultiExecutor*: voting on a projection of results, `shouldFailWhenFastestFails`, custom executors and nested configuration;
  a call and its quarantine list are not composed yet.
* *DataPackagesRequest*: which packages are closest to the median (any the filter keeps), packages of several feeds, values
  and so the dropping of zeros, HTTP and parsing, the cache's own `update`, `takeFromOther`, `deleteFromResponse` and `invalidate`, and a call made in
  the very drain of microtasks in which a shared fetch ends.
* *TxDelivery*: gas and its escalation, simulation, signing, the size of batches in bytes; the payload is its timestamp. *MoveDelivery*:
  `sendBatchTransactions`, which is a loop over `sendTransaction`. The Sui updater: its parallel executor is a library's, and the race
  between its reinitialisation and a caller would be a model of that library.
* *PayloadVerification*, *ChainPayloads*: the byte parsers and signature recovery; parsed packages with their recovered signers are the input.
  Sorting is abstracted to the order statistic. The processors of Radix, Solana, Stylus, Casper, Fuel and Stellar are outside the repository
  and represented by what they may return.
* *Adapters*: events, views that only forward, ownership and capabilities, upgrades and storage rent, initialisation beyond the initial state; Casper's
  relay adapter; TON's messages that carry coins back; Canton's rewards, contract ids and the core contract; the older adapter on Starknet.
* Price feed contracts that read an adapter, and the Stellar router: one forwarding read each.
* Stateless code (payload format, signing, safe numbers), I/O (clients, explorers), wiring and configuration data.

The bigger part of the repository's lines is of these last kinds: clients of nodes and their generated code, scripts of deployment, and
tables of chains and tokens. They hold no decision that an interleaving or a failure could turn, so that they stay outside.

## 8. Plan

Done: the queue, the executor and the curated list, the SDK's requests, delivery by multichain-kit, Stellar, Solana and Move, the Sui adapter, the
Stellar contracts and the adapters of nine further chains, each with the theorems of section 5, and `RequestCollector`.

Next, in this order:

1. Distinct signers in the SDK's filter; the cache given to `ContractParamsProvider`.
2. The executor composed with the curated list; two collectors of one key; `memoize`; `SuiContractUpdater`'s reinitialisation.
