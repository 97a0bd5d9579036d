# Swyft: TLA+ models and proofs

This directory specifies the parts of Swyft whose correctness depends on order,
concurrency and failure. TLC checks every model on small instances; TLAPS proves
the most important properties for all values of the constants
(section 4). `PROJECT.json`
is the index: components, runs, the lines each definition models, findings,
hazards and theorems. Paths below are relative to the repository's root.

## 1. The system

Swyft is a concentrated-liquidity exchange on Stellar. Soroban contracts
(`packages/contract/contracts`, Rust) hold the pools, positions, fees and a price
oracle. A NestJS API (`apps/api`) follows the chain through Horizon, stores what it
sees in Postgres (Prisma) and serves it with Redis in front. An SDK and a Next
web application use both. `packages/contracts` is a legacy tree that is not
deployed (`docs/ARCHITECTURE.md:112`).

```
 contracts --events--> Horizon --effects--> HorizonService --jobs--> BullMQ (Redis)
                                                 ^                      |
                                    checkpoint   |                      v
                        IndexerCursorService <---+----------------- IndexerWorker
                         Redis + Postgres                 |    |         |
                                          dead-letter table    |    webhooks queue
                                                 ^             v         |
                                          replay endpoint    rows        v
                                                                    subscribers
```

### Components

| Component | State it keeps | Operations | What is hard | What makes it correct |
| --- | --- | --- | --- | --- |
| Ledger checkpoint (`indexer-cursor.service.ts`) | one number, in Redis and in Postgres | advanceLedger, getLastLedger | the two copies are written by separate round trips of concurrent callers; either store may fail; Redis may lose its data | never ahead of what was persisted; Redis not behind Postgres; a register that only rises |
| Horizon poller (`horizon.service.ts`) | tracked accounts, one paging cursor each, all in memory | start, poll, page, ledger window, discovery of pools, enqueue | partial failure of five `addBulk` calls; effects without a ledger; cursor moved while a batch fails | an effect the cursor has passed was handed to BullMQ |
| Queues and worker (`queues.ts`, `indexer.worker.ts`) | BullMQ jobs, the tables of events, pools, swaps, positions | take, guard, write, project, checkpoint, retry, acknowledge, shut down | jobs in parallel and more than once; stalls; crash between the statements; swallowed errors | at-least-once; checkpoint after persist; rows that agree with the chain |
| Dead-letter table (`indexer-dead-letter.service.ts`) | one row per failed job | record, read, clear | key collisions, failures while recording | a failed job is told about, only a failed one |
| Replay (`indexer-replay.service.ts`, controller, `dlq-replay.guard.ts`) | in-flight and completed maps, a fixed window of requests, all in memory | admit, replay dead letters, replay from a ledger | concurrent requests, the row read, the job added and the row marked in separate steps; the window ends or the process restarts between requests | the last trace of an event never disappears; one execution per key; no more requests to a window than allowed |
| Direct ingest (`indexer.service.ts`) | none of its own; the sink is external | ingest: check, look up, persist | the lookup and the write are separate round trips of concurrent deliveries, and the sink may fail after it stored | an event is stored once; nothing unauthorized or unknown is stored |
| Webhooks (`webhooks/*`) | row of each webhook, delivery jobs, delivery and audit rows | register, dispatch, deliver, retry, disable, remove | replicas deliver concurrently with a row read before the request | no event dropped in silence; disabled after consecutive failures, and for good |
| Wallet authentication (`auth/*`), API keys (`api-keys/*`), the socket's policy (`price/ws-auth-policy.ts`) | the nonce of a wallet and its failed attempts, in Redis; the row of an API key; who a socket is | issue, look up, count, consume, expire; admit by token or key; connect, subscribe | several round trips per attempt, on keys that another request replaces; four gates that read one token each in their own way | a nonce buys one token; every gate takes a token for the same wallet, and a revoked key opens nothing |
| Rate limiting (`rate-limit/*`) | counters in Redis, none without it | count, expire, decide | increment and expiry are separate commands of concurrent requests | no window above its limit; no counter without an end |
| Cache (`cache/*`), a pool's detail (`pools/*`) | Redis keys, a lock, the map of fetches in flight | get, set, delete, getOrFetch, checkRateLimit; load under the lock | deletions overtake loads, locks expire and are released by others, Redis comes and goes | answers no older than the last deletion; one load; one fetch, and nobody waits for one that has ended; a budget kept |
| Price stream (`price/*`) | two maps of watchers, the Redis subscriptions | connect, subscribe, leave, reconnect; candles of a pair | commands are sent without waiting over a connection that is restored | subscribed exactly while somebody watches |
| Candles (`candles/*`) | candle rows, a run's place | aggregate, backfill, read pages | replicas and intervals overlap; rows inserted late | a candle is its swaps |
| TVL alerts, statistics (`stats/*`) | thresholds, stamps, history | check, record, stamp, dispatch, edit | overlapping runs, edits between read and stamp | recorded before sent, justified, once a day |
| Administration (`admin/*`) | key ring, audit rows, a pool's pause | admit, rotate, pause, audit | boots with several rings; an entry written after the answer | a retired key opens nothing; entries are true |
| Read APIs (`positions/*`, `swaps/*`, `balances/*`, `tokens/*`, analytics) | token rows | page, walk, merge, enrich | tables grow while they are read, prices and balances change between two reads; passes overlap | no row missed or seen twice; a balance, price or total is one that was true; metadata does not regress |
| API infrastructure (`compression.middleware.ts`, ...) | the body held back | write, end, compress | a body that outgrows its buffer half-way | what the client decodes is what the handler wrote |
| cl-pool, position NFT (`packages/contract/contracts`) | positions, ticks, bitmap, growth, tokens | add, remove, collect, swap, hand on | long sequences of calls, rounding, two contracts that must agree | counters are sums of positions; NFT and position say the same; fees no more than paid |
| Pool | price, ticks, positions | mint, burn, collect, flip, cross, set, swap | callers name ranges and ticks | the counters stay balanced |
| Factory, fee collector, router | registry; books | create, set; deposit, collect | order of pairs; donations, revocations | one pool per pair and tier; books covered |
| Oracle adapter (`oracle-adapter`) | a ring of observations | initialize, write_observation, get_twap | wrap-around, saturation, several swaps in a ledger | ordered ring; the average is over the window asked for |
| Math library, SDK | none | roots, ticks, amounts | fixed point at its edges; two implementations of one formula | results are exact floors; both agree |
| Web application, UI kit | React state, session and local storage | quote, confirm, swap, add, remove, move and collect, report, reload, connect, switch network; refresh portfolio, chart, history, webhooks | answers that are late, aborted or of another account; closures of an earlier render; reloads half-way | what is shown, and what is handed to the wallet, is about the inputs, the wallet and the network shown |

The hazards of each, at the line where they bite, are in `PROJECT.json` under
`hazards`, with the properties that would catch them going wrong.

## 2. The modules

| Module | Models | State | Actions |
| --- | --- | --- | --- |
| `MaxRegister` | what the checkpoint promises its readers: a volatile register that, until it forgets, rises only, and to values it was offered | one number | offer, raise, forget |
| `IndexerCursor` | both copies of the checkpoint | Redis, Postgres, the place of each call between its round trips | one per round trip of `advanceLedger` and `getLastLedger`, their failures, Redis losing the key, a crash |
| `IndexerPipeline` (EXTENDS `IndexerCursor`) | poller, queues, workers, dead letters | cursors and page of the poller; BullMQ's jobs; each worker slot; event tables; dead-letter rows; process status | one per handler between two awaits: boot, poll, page, window, fetch, guard, persist, checkpoint, complete, fail, record, stall, crash, shutdown, exit |
| `IndexerProjection` | the pool, swap and position rows of one pool and one position | those rows, jobs, slots | one per SQL statement |
| `DeadLetterReplay` | replay requests beside the worker | dead-letter rows, jobs by id, requests, the two maps | one per await |
| `DirectIngest` | events delivered straight to the indexer | deliveries, the sink's ids | deliver, look up, persist, the sink fails |
| `WebhookDelivery` | one webhook and its deliveries by several replicas | webhook row, jobs, each replica's place in `deliver` | one per statement or request |
| `TvlAlerts` | one pool's alerts | thresholds, snapshots, runs | one per statement, owners' edits |
| `RequestGuards` | the guards for wallets' tokens and API keys, the price socket's handshake and messages | the deployment, time, a key's row and a request with it, a socket | connect with a token or without, subscribe, unsubscribe, announce a swap; find, stamp and revoke a key |
| `WalletAuth` | the nonce challenge of a wallet | nonce, attempts, requests | one per Redis command |
| `RateLimit` | one caller on one route group | counters, calls | one per Redis command, a crash, Redis lost |
| `AdminGate` | what stands before the operators' endpoints: key ring, pause and audit; the guard of the replay endpoint | rings by boot, calls, entries; switches, the window's start and count, requests | boot, admit, pause, answer, audit; admit, time passes, restart |
| `PriceStream` | watchers and the Redis subscription | both maps, the connection, commands in flight | connect, subscribe, leave, close, execute, disconnect, ready |
| `Candles` | aggregation of two intervals by two runners | swaps, candles, runs | insert, begin, upsert one pool's candle, break off |
| `CandleChart` | the price chart over the API's candles and its socket | the choice, the series, its pool, requests, the socket | choose, respond, open, cut, reconnect, a live event |
| `CachedReads` | a pool's detail behind its cache; `getOrFetch`; `checkRateLimit` | row, entry, lock, requests; fetches and their map; a counter | one per Redis command or query, lost connections, expiries; patch, drop, project |
| `PagedReads` | the portfolio's refreshes; a walk by key | rows, refreshes, display; rows, walk | mint, count, read a page, sign in and out; insert, next page |
| `AccountReads` | answers put together from several reads: the activity feed, positions in bulk, balances, the list of pools with its tag | rows, prices, balances, cache; one request of each | one per read, and what changes the rows between two |
| `TokenEnrichment` | passes over tokens' metadata | rows, passes | discover, start, read, upsert, fail |
| `ResponseCompression` | one response | what is held and sent | write, end, compress, give up |
| `SwapQuote` | the swap form's request for a quote | form, timer, requests | edit, fire, answer, event |
| `SwapForm` | the swap form, its dialog and its pickers | pair, entry, dialog, network checks, calls | select, enter, press, confirm, check ends, retry, dismiss |
| `TxStatus` | one indicator and the transactions that report to it | transactions, indicator, session storage | sign, send, answer, poll, reload, dismiss |
| `WalletSession` | session and selected network | both, operations under way | connect, restore, grant, refuse, switch |
| `AccountScreens` | a wallet's history and its webhooks | filters, react-query's cache; list, form, orders | turn, filter, ask, answer; order, serve, end |
| `AddLiquidity` | the form that adds liquidity | pool, range, amounts; transactions | select, drag, type, press, answer |
| `PositionScreens` | the panel that removes liquidity or collects, the page that moves a range, the portfolio | panel, estimates, transactions; bounds; list, loads, collections | choose, estimate, confirm, collect; type, press; load, sign in, collect |
| `OracleAdapter` | the TWAP ring and its clock | ring, index, count, pool price | one per contract call (a call is atomic) |
| `PositionNft` | the NFT contract | metadata by id, counter | mint, burn, update, transfer |
| `ClPool` (EXTENDS `PositionNft`) | the concentrated-liquidity pool with its loop over ticks | price, ticks, bitmap, growth, positions, balances | add, remove, collect, swap, hand on |
| `Pool` | the other pool contract | price, ticks, positions | every entry point, in any order |
| `PoolFactory`, `FeeCollector` | registry; books and balances | those | one per entry point |
| `TickMath` (EXTENDS `ClPool`) | the contracts' arithmetic: integer roots, prices of ticks and the search back, `math-lib`, the words of both bitmaps; the SDK's and the API's arithmetic about a pool | a probe; a bitmap | next probe; flip |

`MC*` modules give the constants their values for TLC. Six modules hold the
theorems: `IndexerProofs` (checkpoint, pipeline, replay), `IndexerProjectionProofs`,
`ClientsProofs` (webhooks, alerts, guards, screens), `ServicesProofs`, which rests on the
lemmas of `ReadProofs` about the reads and about sequences, and `ContractProofs`.

How they compose: the pipeline's workers and starter are the *callers* of the
checkpoint, so `IndexerPipeline` extends `IndexerCursor` and each of its steps is
a step of the cursor service or leaves it alone (theorem `PipelineUsesCursor`).
`IndexerProjection` refines the pipeline's single "write" into statements, with a
job's life (waiting, active, done, dead) kept and the poller left out;
`DeadLetterReplay` keeps the same life and adds what comes after a failure.
`ClPool` extends `PositionNft` and calls its actions within its own, as the contract
does; `TickMath` extends `ClPool`, so that the SDK computes on its state.

`MCContracts`, `MCServices`, `MCClients` and `MCRecovery` put together components that
share no state: no contract of this commit is wired to another but the pool to its
NFTs (the factory deploys pools without initializing them, no pool knows the
collector), and the services and screens keep different keys, rows or pages. Interleaving
them would multiply their states and show nothing, so a behaviour picks one of them,
its `focus`, at the start and the others stay as they began. `MCRecovery` does so with
the pipeline's restart and the replay of dead letters.

Conventions. A history variable (a comment marks it) records the past for the
properties and influences no step. Every bound is a constant named `Max...`,
`Last...`, `copies` or `Backlog` and limits only how often a fault, a clock tick, a user or
an operator acts. A definition that nothing uses, next to the one it varies
(`FlippedOnGrowth` beside `Flipped`), is a plausible mistake in the code, used to
check that the property it is paired with can fail.

### Abstractions, and what is external

* Events are positions in a stream and columns are the event their value came
  from. Amounts and names do not occur, since no property depends on them.
* BullMQ is modelled from how it is configured: jobs wait, are active, and
  complete or fail; ids count from 1 per queue; a job whose process died is put
  back by the stalled check; `add` with an id that exists does nothing, as the
  comment at `indexer-replay.service.ts:286` says. That BullMQ accepts the
  colon of `dlq-replay:<jobId>` is taken from that use of it. Priorities and order among
  waiting jobs are left open.
* `CacheService.setMaxNumber` is called by the cursor service but not defined in
  `cache.service.ts`; it is modelled as the raise its name and callers demand. So are the methods of the
  single-flight lock, after `cache/cache-stampede.spec.ts`: set if absent for five
  seconds, true without Redis, released by deletion.
* Redis may lose the *checkpoint*; losing BullMQ's own data is not modelled.
* Retry delays, the poller's backoff and rate limits are the freedom of when a
  step happens.
* A job's attempts are 2 in the runs, 3 in the code: 2 has a retry and a last
  attempt.
* Contract calls are atomic, as Soroban makes them. Arithmetic is the contract's on
  small numbers: `One` stands for 2^96, `Word` for 2^128, `TickUnits` for the
  linear price's 20000; 5 against 16 keeps the rounding of the original, where a
  tick's price is seldom exact.
* Each request, run or refresh of a service is a record with the place it is at;
  a step is what happens between two awaits, a Redis command or a statement.
  React's effects run with the change that causes them.
* Values are reduced to what is compared: a TVL of two levels, swaps of two prices,
  a token's four fields as one, chunks of a body as numbers; a token for a caller is
  its signature, expiry and claims; the price of a form is the tick nearest to it.
* The wallet, react-query's cache, the sink of direct ingest and the execution of a swap
  (an empty file at this commit) are external. `useSwaps.ts`,
  `useRemoveLiquidity.ts` and the SDK's `liquidity.ts` do not parse as committed; they are
  read with the obvious correction, named in the module that does.

## 3. What the runs check

Six runs pass, each a rich small instance that TLC finishes in minutes; six
`violation` runs each show one sentence of the repository that the code does not
keep. Where a run composes components by `focus`, it checks each of them apart.

| Run | Shows | Bounds, and why they are enough |
| --- | --- | --- |
| `pipeline_safety` | A window that failed is not paged past (`PagedMeansEnqueued`); a dead letter is about a job that used up its attempts (`DeadLetterIsFinal`); checkpoint after persist (`CheckpointPersisted`); until a shutdown, nothing enqueued is lost (`EnqueuedNotLost`). | 2 effects of which one creates the account of the other, 2 slots, and at most two of: 2 faults, 1 crash, 1 lapse of Redis, or a shutdown alone (`FewTroubles`). Two faults use up a job's attempts; a crash with a fault covers a retry across a restart |
| `projection` | Unordered: twice each in any order on two slots, with a failing statement and a crash, a creation's tokens stay (`TokensBackfilled`), a priced swap has its row (`PricedSwapKept`), a position event is never acknowledged without a position (`PositionNotDropped`). Ordered: the rows are what the chain adds up to (`RowsMatchChain`). | 3 events with 2 jobs each unordered; 6 events, one of every kind, in order; 1 fault, 1 crash |
| `recovery` | Restart: every complete effect is settled in the end (`EventuallyIndexed`). Replay: an event that is not indexed keeps a job or an unrecovered dead letter (`EventAccounted`); one execution per target and key, and nobody awaits one that has ended (`SharedExecution`); every request is answered unless its process dies (`EventuallyAnswered`). | 4 effects: a creation, a blank one, an incomplete one and one without a ledger, and 1 shutdown at any moment; 2 requests with any target and key, 2 failing jobs (so a replay of a replay, and two rows for "all"), 2 faults, 1 crash; with fairness |
| `clients` | Webhook: a job is finished only with its event accepted or its webhook disabled or gone (`PayloadAccounted`); without faults an accepted event is not sent again (`AcceptedOnce`); deliveries that do not overlap disable the webhook exactly at the limit (`DisabledByStreak`). Alerts: recorded before sent, justified, once a day (`AlertsHold`). Guards: every gate takes a token for the same wallet, and nothing opens beyond what deployment and key allow (`AccessHolds`). Screens: what is confirmed, deposited, removed, moved and listed is what was shown and asked for (`ScreensHold`, the conjunction of the screens' properties). | 2 deliveries, 2 replicas, limit 2, 2 attempts, 1 fault, 1 crash, 1 manual retry; 2 runs of the job, 2 owners, 2 calls, 1 mishap, 2 days; 1 address, 2 hours, caps 2 and 1 for 3 pools, so that a cap is met with a subscription to spare; 2 tokens and amounts up to 2 around a balance of 1; 2 wallets, 2 webhooks, 3 orders; ticks -5..5 with spacings 1 and 3; 4 moves of each form, 2 transactions, so that a second one is handed over while the first is open; 3 positions on pages of 2 and 3 loads |
| `contracts` | cl-pool: counters, net and bit of a boundary are sums over the positions that use it, and in the other pool the books balance whatever range a caller names (`TicksAccounted`); NFT and position agree (`NftMatchesPosition`); a swap never charges more than its input nor credits more fees than it took (`SwapChargesFairly`); the SDK converts and counts as the contract does, roots, searches, `math-lib` and the bitmaps' searches are exact for every argument (`MathAgrees`). Factory: `OnePoolPerPair`. Collector: `BooksCovered`. Oracle: the ring stays ordered (`RingOrdered`); `get_twap` answers exactly when it can, with the mean over a window that ends now and is at least as long as asked (`TwapSpansWindow`). | 2 positions over 3 ticks, so that they share a boundary, straddle or miss the price; 2 swaps of inputs that end within a segment and cross two ticks; a ring of 3 with up to 6 observations, so that it wraps with every alignment; an accumulator that saturates at 20; a machine word of 256, of which every value is tried; bitmap words of 4 bits, and ticks across 4 of them |
| `services` | `NonceSingleUse`; `WindowKeepsLimit`; `PricesTrue` (the stream is subscribed to while somebody watches, a candle is its swaps); `OperatorsHeld` (a retired key opens nothing, the replay guard keeps its window); `TradeShown` (the quote of the inputs on display, the indicator's transaction); `RowsKept` (metadata is not undone, an event is stored once); `ReadsHold` (pages of growing tables, the cache with its lock, fetches and budget, the chart, a compressed response, the activity feed, positions in bulk, balances, the list of pools). The checkpoint: no store and no call carries a ledger that was not requested (`NeverAhead`), until Redis lapses it covers Postgres (`CacheCoversDb`), and the Redis copy implements `MaxRegister`. | 2 of each actor: two requests race for one key, two replicas for one row, two transactions for one indicator, two refreshes for one page; 3 deliveries of 2 events and 3 requests at the guard, so that a window of one is exceeded and a second begins. Limits of 1 and 2, so that a window is exceeded by the third call; a body of 5 chunks for a buffer of 3 and a minimum of 2; pages of 2 for 4 rows, so that a walk has a full, a short and an empty last page; two versions of a pool's row, one expiry and one lost command or connection, so that one deletion overtakes one load; a chart of 3 buckets with 3 choices and 2 live events; feeds and bulk answers one row beyond their caps; 2 callers of the checkpoint, 3 ledgers and 1 lapse: two calls that cross, with a third value to be overtaken by |
| `pipeline_first_start` (violation) | Without a checkpoint the poller asks from `now` for ever. | 3 effects, with fairness |
| `cl_crossing` (violation) | A tick's net loses its sign when the tick is crossed. | as `contracts` |
| `cl_partial_swap` (violation) | A swap whose input ends within a segment is paid and fed for, and leaves the price where it was. | as `contracts` |
| `swap_stale_quote` (violation) | A quote of the pair before is shown for the pair turned round. | two pools that share a token |
| `wallet_network` (violation) | A session is set up for the network that was left. | two networks |
| `chart_live` (violation) | A live event becomes a candle without a time. | 1 event |

### Fairness

Fairness is assumed for steps that the runtime takes by itself: timers fire,
awaited promises settle one way or the other, BullMQ hands out waiting jobs and
runs its stalled check, the platform restarts a process that has exited. Nothing
is assumed of effects, failures, crashes, shutdowns, lapses, operators or new
requests: these may happen or not. Weak fairness suffices, because such a step
stays enabled until it is taken. `recovery` and `pipeline_first_start` use it.

## 4. What is proved

A theorem holds for all values of the constants that satisfy the named ASSUMEs
of the modules (limits are naturals, a ring has a slot, ledgers are naturals, the
collector is no pool, ticks are finitely many integers, a fee is at most the amount, an address is none of the words that stand for its absence, the
ends of the axis are usable ticks of the selector); TLC evaluates them in every run. So they hold for any
number of actors, retries, faults and crashes. A theorem about a property of section 3
states it as the run does.

| Theorem | Says | Argument |
| --- | --- | --- |
| `CursorTypeCorrect`, `NeverAheadCorrect`, `CacheCoversDbCorrect` | the checkpoint's invariants for any callers and ledgers | `CacheCoversDb` is not inductive: a call past setMax carries a ledger towards Postgres, so the strengthening says that every such ledger is covered by Redis already. |
| `RegisterImplemented` | the Redis copy implements `MaxRegister` | each step raises the copy to a requested ledger, leaves it, or is Redis losing it; uses `NeverAhead` for the requested part |
| `PipelineUsesCursor` | the pipeline's behaviours are behaviours of the cursor service | one lemma per pipeline action: a step of `IndexerCursor` or a stutter of its variables |
| `PipelineTypeCorrect` | types of poller, queues, workers, checkpoint for every stream, number of slots and limits | strengthened by `PageHasEvents` (a page in work has events left) and by the types of the job copies the slots hold |
| `CheckpointPersistedCorrect` | through failures, crashes and shutdowns the checkpoint names a ledger of which a row is in Postgres | strengthening: every *requested* ledger is the ledger of a persisted event; with `NeverAhead`, transported by `PipelineUsesCursor`, both copies follow |
| `DeadLetterIsFinalCorrect`, `EnqueuedNotLostCorrect` | a dead letter is about a job that is over; what was enqueued has its row or a job | inductive together (`JobsInv`, which has beside them that a job is in one slot at a time and no waiting or failed one is). What carries them is the number of a job: it is unique in its queue for ever, so the record with which a step replaces a job (one more attempt, another state) equals no other job's, and a report of a failure meets its own job. `RankInBatch` numbers a batch |
| `PagedMeansEnqueuedCorrect` | no page, failure, discovery or restart moves a cursor past a complete effect that was not enqueued or indexed | `PagesInv`: the page in work is exactly what is left of its account between the cursor and the page's last effect, and what is before it has been enqueued. Hypotheses: `LedgersTogether` (of an account, effects that share a ledger follow one another) and `CreationsFirst` (a pool is announced before it acts). Horizon's order grants both for effects that carry a ledger; the effects the first one excludes are the hazard at `horizon.service.ts:162`, where the code does page past a window, and without it the theorem is false |
| `ReplayTypeCorrect`, `EventAccountedCorrect` | replaying loses no event: what is not indexed keeps a job that will run or an unrecovered dead letter, unless recording one failed | `StoreInv`. *Traced*: every job there was of the event is followed, at its own depth of replays or deeper, by a job or row that still counts, so to mark a row recovered is harmless once its replay's job was added (*Enqueued*: between the two at most one row is open). *Depths*: a replay's name has no more prefixes than jobs have failed, so the job it names exists |
| `SharedExecutionCorrect` | one execution per target and key, and a request that waits has one to wait for | `FlightInv`: the in-flight map holds exactly one request for each execution under way and nothing else, through rejections and deaths |
| `ProjectionTypeCorrect`, `TokensBackfilledCorrect`, `PricedSwapKeptCorrect`, `PositionNotDroppedCorrect` | the rows' invariants for every story, any jobs per event, slots, retries and crashes, in any order | `Slotted` and `Tries` for the jobs; `Stage`: a slot past the statement that makes a row finds the row made, whoever made it, and rows are not taken back |
| `RowsMatchChainCorrect` | indexed in the chain's order, pool and position hold what the events add up to | `Foremost`: in that order all busy slots are at one event and no later one has begun; `Latest`: so what a row holds is of the last event that writes it, or of the statement before |
| `AcceptedOnceCorrect`, `DisabledByStreakCorrect`, `PayloadAccountedCorrect` | the webhook's properties for any deliveries, replicas, attempts, limit and removals | `WebhookInv`: a delivery is in one replica's hands, and as long as no two overlap the count a replica read before its request is still the row's when it writes |
| `AlertsHoldCorrect` | alerts are recorded, justified and once a day, for any owners, runs, days and mishaps | `AlertsInv`: two runs that hold one row read it at the same time (`raced`). Otherwise the stamp of an alert that is about to go out, or went out, stays on its row, so whoever holds the row after it is a later run on a later day |
| `AccessHoldsCorrect` | all gates read one wallet from a token; sessions and keys stay within what is allowed | `AccessInv`: of two claims CHOOSE takes the first, so every gate's search ends at the same one (`FirstClaim`); a session's pools are counted against whoever holds them, and nobody holds none; a key found live was live on arrival, as revoking is for ever |
| `ScreensHoldCorrect` | each screen hands over what it showed and shows what was asked for | `ScreensInv`, an invariant per screen, which only its own steps touch. Swap: the quote a dialog or a waiting confirmation carries is the one it was opened with. History: a page past the last one leads to an earlier page, and following those ends (`ChainRests`), so the snap-back comes to rest on a page the feed has. Deposit: rounding to the spacing is idempotent off the clamp (`UsableSound`), the first bounds differ (`FirstBounds`), and what goes with an amount is nothing outside the range, so an amount of 0 follows any range. Removal: only the estimate of what is on display is live, and what is asked about is what is on display. Range: the page's status is the stage of the one transaction in flight. Portfolio: what a load has got stands no earlier in the list it is cut from (`Drawn`), as positions opened meanwhile move the others back; so with as many as the total and none twice it is the whole (`DrawnWhole`) |
| `NonceSingleUseCorrect`, `AuthTypeCorrect` | a nonce buys one token, for any number of requests | the count of tokens is not inductive: between the script that deletes the nonce and the token, the right to it is in a request. `RightIsUnique` says that this request is the only one with the nonce, and that store and tokens have none of it |
| `WindowKeepsLimitCorrect` | a counter that Redis kept lets no more calls through than the limit, and has an end unless the call that opened it died | the numbers INCR answers within a window are distinct, so the calls let through inject into 1..Limit |
| `OperatorsHeldCorrect` | a retired key opens nothing, audit entries are about answered calls; any window of the replay guard lets in its limit at most | the key a boot lets in lags behind every request past its guard; for the window, the crowd admitted since an instant is bounded by what earlier windows had spent and the present count |
| `RowsKeptCorrect` | metadata is put back to the placeholder only by a pass that overlapped; the sink holds an event once | what a pass read of a token that was found is stored still if the pass is alone; an event in the sink was written by a delivery that had looked before |
| `PricesTrueCorrect` | the stream is subscribed to exactly what is watched, but for failed commands; a candle is what its swaps make it | `StreamInv`: of the commands under way the last about a pool decides (`WillBeSays`, for a queue that grows at one end and shrinks at the other). `CandleInv`: a candle in Postgres, and one that a run has computed and not yet written, each is the summary of what its period held when it was read, and prices are summarized by pieces as well as in one go (`SummaryAppend`, `FlattenFits`) |
| `ReadsHoldCorrect` | for any readers, rows, caps, chunks and troubles of Redis: no answer older than the row's last deletion, one fetch, a budget kept; complete pages and walks; one candle per bucket; the body that was sent; feed, bulk answer, balances and list of rows that were there | An invariant per part. *Cache*: whoever loaded a row knows of every deletion since (`CurrentInv`), and each load holds the lock or one of the lapses let it in (`LoadInv`). *Portfolio*: a count that was not torn is still the wallet's number of positions, and what a refresh got are some of these, so as many as were counted and none twice are all (`RunTrue`). *Walk*: what was seen ends at the cursor and what is to come lies beyond it, also of rows inserted meanwhile (`WalkInv`). *Feed*: the newest rows of each table, cut at the cap, hold the newest of all, since an older row that got in would have a cap's worth of newer ones before it (`AheadFew`, `CountTo`). *Chart*: filling the gaps of rising candles gives a series that climbs by the step without a hole, by recursion on its pieces (`Spaced`, `Leveled`), and merging a live one keeps that |
| `ServicesTypeCorrect` | keys, rows, maps and bounded counters of every service keep their types | the invariants above together (`TypesInv`), with the switches, flags and counts none of them needs; and of the cursor, which is typed by itself (`CursorStays`) |
| `TradeShownCorrect` | a settled quote is the one for the inputs on display; the indicator tells of a transaction what the ledger did | the form's latest request is for the inputs shown, and only its answer counts; the page keeps the transaction it shows, and one that nobody answered is in no ledger |
| `OracleTypeCorrect`, `RingOrderedCorrect` | the ring of any size stays typed and ordered | while it is not full the next slot is the first free one; an append is last in the order and keeps the order of the others, and the newest observation is the last one before it |
| `NftMatchesPositionCorrect` | positions and NFTs agree one to one, for any owners, ticks, amounts and prices | strengthened by the fields of the entries and by counters ahead of every id in use (`Entries`); a lemma per call, and one for the calls that leave the tokens alone |
| `TwapSpansWindowCorrect` | the ring answers exactly when it reaches back far enough, and then with the mean over a window as long as asked | `TwapInv`: an observation's accumulator is the saturated sum of what every second before it was credited (`CreditKept`). The halving, a function that recurs, is shown to exist by recursion on the ages left (`SearchExists`); each turn keeps the ages below `lo` at or before the window's start and those beyond `hi` after it (`Narrowed`), so it ends at the newest one |
| `TicksMatchPositionsCorrect`, `TicksAccountedCorrect` | counters, net and bit of a boundary are sums over its positions; in the other pool the books balance | `TicksInv`: NFTs and positions agree, entries have the types of their fields, and every boundary is *Counted*. A sum over a finite set is split at one element (`Total`, climbed along the cardinality), so a call that moves one position, or two ticks of one range, moves the sums by what it adds |
| `SwapChargesFairlyCorrect` | whatever a swap would be given, it charges no more than its input and credits no more fees than it took | the loop invariant `Running` of a swap's segments: paid, left and fees are naturals, and the fees so far are at most the fee of the amount consumed, since quotients are superadditive (`FeesAdd`) |
| `ContractsTypeCorrect` | no call of any contract leaves an entry that is not of its type: no balance overdrawn, no counter below zero, no quotient by zero | beside `TicksInv` and the loop invariant, `ClTyped`: every open range begins where there is a price (`Priced`), since prices rise with the tick (`TickPricesRise`) its end has one too, and a swap's output is a number the pool has |
| `BitmapExactCorrect` | a search of the bitmap finds the next bit or none, for words of any number of bits and any spacing | `BitmapInv`: a bit is set exactly for a marked multiple of the spacing; ticks are ordered as their words and bits are (`TicksOrder`), and division rounds down in one contract and towards zero in the other (`CompressedOrder`) |
| `MathAgreesCorrect` | both square roots are floors, the search ends between two ticks' prices, `math-lib`'s amounts and prices fit together, and the SDK converts and counts as the contract does, for any word, scale, step, range of ticks and positions | a loop is a function that recurs: it exists because each turn makes a measure smaller, and what every turn keeps is true of the answer (`LoopKeeps`). Newton's iteration stays at or above the root (`MeanAboveRoot`) and stops at it (`LastMean`); the halving keeps the root between its bounds although the square of its middle saturates (`HalvedTurn`), which is why the largest argument of the word is left out. Amounts follow from quotients of sums (`HalvesHold0`, `HalvesHold1`, `MoveOfToken0`, `MoveOfToken1`). The SDK's part needs `ClTyped`: every open range begins where there is a price, so the SDK's floor of 1 never applies to one. Assumed beside the types: `LowestPriceAssumption`, since a price of zero is answered without a search |
| `OnePoolPerPairCorrect` | one pool for two tokens and a tier, found from both orders | `KeysSorted`: keys hold the smaller token first, so equal sets are equal keys |
| `BooksCoveredCorrect`, `FeeTypeCorrect` | the collector holds what its books say | types and cover are inductive together; `MovedBalances` says what a transfer does to every balance |

The services of `ServicesProofs` are proved for `ServicesSpec`: each has an invariant
of its own, which a step of another leaves alone because it leaves its variables alone
(`ServicesApart`). The type invariants of checkpoint, pipeline, projection and replay are
proved and no longer checked by a run.

Model-checked only, because the prover does not reach it: everything under
fairness (`EventuallyIndexed`, `EventuallyAnswered`).

## 5. Findings

The violation runs each refute one sentence of the repository; `findings` in
`PROJECT.json` quotes it and says at which line the code does otherwise:

* a first start never begins (`horizon.service.ts:97`);
* a tick's net is applied without its sign (`cl-pool/src/lib.rs:906`);
* a swap that ends within a segment computes the next price for its output only: the
  pool stores, and hands the oracle, the price and the tick from before the
  segment, so that a trade may be repeated at one price for ever
  (`cl-pool/src/lib.rs:481-503`, `:557-562`);
* a late quote of the previous pair counts after the pair was turned round
  (`useSwapQuote.ts:68`);
* a wallet session of the network that was left is set up after the switch
  (`NetworkSwitcher.tsx:33`);
* a live price becomes a candle without a time (`usePriceCandles.ts:262`).

Also met while modelling, visible in the models but without a run of their own.

Indexer, queues, webhooks:

* jobs of two queues have equal ids, so that the second one's dead letter only
  updates the error of the first one's row (`indexer-dead-letter.service.ts:79`);
* a second replay of a failed replay job adds nothing and marks the row recovered
  (`indexer-replay.service.ts:289`, against `docs/INDEXER_DLQ_REPLAY.md:66`);
* with several replicas a late failure enables a disabled webhook again
  (`webhook.processor.ts:174`);
* two crossing `advanceLedger` calls can lower the durable checkpoint
  (`UpsertCursor` after a larger one; `indexer-cursor.service.ts:45,62`);
* a job that reaches the guard after the shutdown began is acknowledged unhandled
  (`Skip`; `indexer.worker.ts:169`): only the next start pages over it again;
* when effects with and without a ledger alternate on a page, the ledgerless window
  moves the cursor past a later window that may then fail (`Window`,
  `EnqueueWindow`; `horizon.service.ts:162`);
* the projections depend on order and repetition (`SwappedPool`, `CreatedPool`,
  `InsertSwap`, `ResolveFee`, `HeldPosition`): of two swaps in parallel the older
  price can stay, a replay puts an old price back, a swap without a price handled
  before its pool loses its row, a swap handled before its pool keeps fee 0, a mint
  handled after its burn gives a closed position liquidity;
* requests that share a failing replay get the raw error instead of the 503
  (`Reject`; `indexer-replay.service.ts:172`);
* a delivery attempt whose row cannot be written is neither recorded nor counted
  (`StatementFails`; `webhook.processor.ts:152`);
* direct ingest answers that nothing was stored when the sink stored the event and its
  answer was lost (`SinkFails`; `indexer.service.ts:128-129`);
* the replay endpoint's window is per process: a restart, or another replica, opens a
  new one (`Reboot`; `dlq-replay.guard.ts`);

Contracts and SDK:

* the accumulator saturates silently and later averages fall below every price
  (`Saturated`; `oracle-adapter/src/lib.rs:133`); a price is weighed with the time
  before its swap, and the second swap of a ledger counts for nothing (`:134`,
  `:128`);
* `sqrt_price_to_tick(tick_to_sqrt_price(t))` is t - 1 for most ticks; a swap that
  ends exactly on a tick never crosses it later; a limit on the wrong side of the
  price is accepted; `remove_liquidity` does not settle fees; `amount_0` of
  `add_liquidity` ignores the price (`ClPool`);
* in the other pool a swap moves no tokens, its output is 0 from token 1 to token 0,
  fees always go to token 0, `collect` transfers nothing although its comment says
  so, and `burn` takes any range (`Pool`);
* the SDK's `getAmountsForLiquidity` says it mirrors the contract
  (`position-math.ts:57`) but differs for token 0: the contract ignores the price,
  the SDK counts from the lower end to the price instead of from the price to the
  upper end, so TVL and removal estimates of token 0 are off. `SdkAgrees` claims
  the conversions and token 1 only;
* the SDK's quote reads fields of pool and ticks that the API does not send
  (`swaps.service.ts:127-145`), so that it always fails; it refuses a ladder of ticks that
  reaches beyond the price's side;
* the pool's search of its bitmap truncates instead of rounding down
  (`pool/src/lib.rs:240`) and starts its scan at the least `i32` (`:247-248`); cl-pool's comment
  says "strictly below" and the search includes the tick (`cl-pool/src/lib.rs:980-981`);
* in `math-lib`, `get_amount_0_delta` underflows for every price within a range, the
  comments of `next_sqrt_price_1` name the wrong direction, and
  `next_sqrt_price_0(.., false)` with amount 0 gives Q96²/price;
* a position's range status takes its interval as open; the contract includes the lower
  bound (`positions.service.ts`, `BulkTrue`); `getImpermanentLossPercentage` has the opposite sign of its
  comment.

Services:

* a failed attempt on an old nonce may delete the new one: attempts are counted per
  wallet (`auth.service.ts:253`), although `:72` and `:191` say per nonce;
* a request that dies between INCR and EXPIRE leaves a counter without end
  (`rate-limit.middleware.ts:318`);
* a subscribe that fails is not repeated until the next `ready`, and a client at its
  limit is refused a pool it already holds (`price.service.ts:155-170`);
* a threshold is stamped before its alert is dispatched, so that a failed dispatch is
  not tried again for a day (`tvl-alert.service.ts:151`); two runs that overlap send
  it twice; an edit keeps the stamp;
* an audit entry is written after the answer and its failure is dropped
  (`admin-audit.interceptor.ts:158-176`, against "fail-closed" at `:95-99`);
* a position minted between the count of a page and its rows can take the place of
  the oldest, and no check of the page notices (`PagedReads`, `torn`;
  `positions.repository.ts:177-180`);
* two passes over a token that overlap can put the placeholder back
  (`TokenEnrichment`, `overtaken`; `token-enrichment.service.ts:64-82`, against
  `:70-73`);
* a body given to `end` alone is not counted against the cap
  (`ResponseCompression`; `compression.middleware.ts:281-295`, against `:18-19`);
* a load of a pool's detail that a deletion overtakes puts the old detail back for up
  to 15 seconds (`CachedReads`, `putBack`; `pools.controller.ts:309`, against
  `pools.service.ts:198-199`); a mint or burn is answered as done, with
  `replayed: false`, though nothing is applied and its idempotency key is not kept
  (`pools.controller.ts:559-570`, against `:349`);
* a call of `getOrFetch` that must fail closed still fetches when Redis goes between
  its check and its read (`cache.service.ts:230-238`); one that joins an open call's
  fetch gets the raw error; and a fetcher that throws before its first await leaves
  its rejected promise in the map for good (`StartFetch`; `:262,266`);
* the price feed's comment says the stats job takes 1 for a missing price
  (`usd-price-feed.service.ts:38`), the job throws (`stats.worker.ts:186`);
* the token the API issues for a wallet has neither role nor scope, so that the guard
  of the wallets' routes refuses it (`jwt-auth.guard.ts:127`, against
  `docs/ARCHITECTURE.md:72-73`);
* a socket stays open after its token has expired, and its handshake takes tokens
  without an expiry (`RequestGuards`); `PoolInitGuard` (which uses `timingSafeEqual` without importing it),
  `TestnetRedeployGuard` and `authorizeWebSocket` guard nothing;
* positions in bulk: token 1's unclaimed estimate is what was collected, although the
  comment says that is subtracted (`positions.repository.ts:339-342`); the activity feed's total and its deep
  pages are cut by the cap of 200 rows per table;
* `getTokenPairPrice` looks up a key that has its prefix twice, so it never finds the spot
  price (`price.service.ts`); the pool list documents the orders `volume24h` and `feeApr`, the repository
  knows `volume` and `apr`; `LP_REPLAY_DETECTED` and `LP_POOL_INACTIVE` are documented and never thrown.

Web application (at this commit `useRemoveLiquidity.ts`, `useSwaps.ts` and the SDK's
`liquidity.ts` do not parse, so it does not build):

* transactions: a report of another one ends the wait for a pending one, whose outcome is
  never shown; an error after a lost answer may be about an applied transaction
  (`TxStatus`);
* chart: the API's candles have `time` where the hook requires `timestamp`, so it drops
  them; the default range has a bucket more than its limit, so the newest is
  dropped; a late answer to an earlier choice replaces the series and its pool
  (`CandleChart`, `Respond`); the hook takes the time of a live event for the start of a
  bucket, which the API's stamps are not (`price.service.ts:19`): `Live` brings times
  that are;
* swap form (`SwapForm`): a retry skips the check of the network, though
  `SwapConfirmModal.tsx:114-116` announces it right before signing; a confirmation that
  waits for that check submits even after the dialog is dismissed, and two clicks submit twice;
  a quote that reloads unmounts the dialog, which comes back fresh while a swap may be in
  flight; the exact-output mode compares the quoted input, not the maximum, with the
  balance; a slippage below 0.005 % becomes 0; the token picker shows recent tokens for a
  query too, against its comment (`TokenSelectorModal.tsx:20-21`);
* history and webhooks (`AccountScreens`): the activity's key leaves out the token, which
  nothing clears, so another wallet's activity can be shown; the date filter acts on the
  loaded page and leaves out its last day; the table has 7 cells under 6 headings; a failed
  create does not load the list again, and a list asked for by an older token can be shown;
* adding (`AddLiquidity`): the selector is never given a spacing, so its guard snaps by
  60 and passes inverted or empty ranges on other tiers, which only the builder refuses;
  the text of the unneeded token stays in a disabled input and is submitted; the bounds ±887272 are no
  multiples of the spacing; a retry after a network error may add twice; any message
  with "reject" counts as a refusal by the user;
* removing and collecting (`PositionScreens`): a collection with 100 % chosen says
  "Position closed"; one started while a removal is being confirmed lets the removal be
  submitted beside it; after a success the old position's liquidity can be removed again;
  estimates use floats and can be one unit off; the pages for removal and ranges say
  "Position not found" to a visitor without a token, before they offer to authenticate;
* moving a range: the error path reads an undefined name and throws before its report,
  so that a failure is never reported and the indicator keeps spinning
  (`useRerangeLiquidity.ts:135`; `TxStatus` models the hooks that do report); positions carry no tier, so the spacing is always 60; bounds that
  were typed are reset when the position is loaded again;
* portfolio: what follows a collection uses its render's token and can show another
  wallet's list until the next refresh; a position can be collected twice at a time.

## 6. Plan

Done: indexer, webhooks, contracts, services, and the state of the web application's
screens; the proofs of section 4. What would come next, in order:

1. The exchange of a swap form once its execution exists.
2. The scheduler of analytics over replicas.

## 7. What is not modelled, and why

* The router does not compile as committed; `packages/contracts` is not built or
  deployed. The sink of direct ingest has no implementation, and `AdminAuditService.record` no
  caller.
* `math-lib`'s conversions of ticks: no contract of the workspace calls them, and
  `sqrt_price_to_tick` always answers an error.
* `PoolInitGuard`, `TestnetRedeployGuard` and `authorizeWebSocket` guard nothing.
* The price broadcast of the poller and the webhook dispatch inside the handlers
  (fire-and-forget, no state of the indexer); metrics, logging, configuration,
  validation and HTTP formatting (no state of their own); queries that are one read.
* Presentation in the web application and the UI kit; scripts, fixtures and
  deployment.

## 8. Running

```
tlc -workers 2 -config Contracts.cfg MCContracts.tla    # any run of PROJECT.json
tlapm IndexerProofs.tla                                 # any *Proofs module
```

`CHECK_DEADLOCK FALSE` stands where the modelled system may come to rest: all
deliveries done, all requests answered, every bound reached.
