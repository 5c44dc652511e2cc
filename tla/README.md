# A verification of the forex-maker engine

TLA+ models of the trading engine under `engine/`, checked with TLC on small
instances and, for the properties that matter most, proved with TLAPS for every
value of the constants. `PROJECT.json` lists the runs, the theorems, the source
lines behind every definition, and the hazards the properties are aimed at.

Paths below are relative to the repository; the documents quoted are the ones
under `dashboard/docs/`.

## 1. The system

One Python process, one asyncio loop. Jobs of a scheduler, two web-socket
listeners, an HTTP API and a Telegram bot all run on that loop; a step that
contains no `await` is atomic, and anything may run at an `await`. State lives
in three places: objects in memory (lost by a restart), a SQLite file, and the
world (two chains and two exchanges), which moves on its own.

| component | state it keeps | operations | correct when |
|---|---|---|---|
| arbitrage engine (`arb/engine.py`) | `_arb_executing`, `_enabled`, `execute_*_enabled` | depth tick, DEX update, recover, arm, disarm | at most one trade or recovery is under way |
| execution (`arb/execution/route_execution.py`, `executor.py`, `preflight.py`) | locals of one task | preflight, buy, sell, half-open handling | nothing is bought or sold twice, what is bought and not sold is recorded and stops trading |
| recovery (`arb/execution/recovery.py`) | locals of one task | look up the recorded sell, retry it, reverse the buy | the position is sold once, the row is closed when it is |
| attempt store (`db/queries/arbitrage.py`) | `arb_attempts`, `arb_legs` | insert, update, sweep, find active | a closed row stays closed and tells the truth |
| inventory (`arb/risk/inventory.py`) | balances, daily figures, failures, breaker | `can_trade`, record complete/failure, midnight reset | limits hold; the breaker stays up until someone looks |
| detection, routing (`arb/detection`, `arb/routing`) | none | profit curves, route choice | the chosen route is feasible and the best one |
| LP lifecycle (`lp/rebalancer.py`, `lp/uniswap_v4.py`, `db/queries/positions.py`, `main.py`) | per-venue lock, ownership cache, `lp_token_ids` | cycle: mint, top up, remove and re-mint; withdraw; reconcile at start | one position per venue, known to the engine; idle funds get deployed |
| LP arithmetic (`lp/strategy.py`) | none | EWMA range, token ratio, liquidity | range aligned and within its bounds, ratio adds up |
| Quidax ladder (`venues/cex/quidax*.py`, `ladder_planner.py`, `venue_controls.py`) | tracked orders, `paused`, last requote | sync, cancel and settle, webhook, pause, resume | one ladder on the book, none while paused |
| market orders (`quidax.py`, `strails.py`) | none | submit, poll fills | one order per leg; the status reported is what happened |
| DEX adapters (`venues/dex/v4.py`) | nonce locks, approval cache | send, wait, look up, approve, quote | a broadcast hash is never lost |
| listener (`arb/listener.py`) | pending sets, debounce task, live connections | trigger, drain, reconnect | no update is lost while the listener runs |
| scheduler (`scheduler/`) | `trading_enabled`, bootstrap state, ladder-sync lock | jobs, pause, resume, bootstrap | jobs that must exclude one another do |
| market data (`market/`) | price and pool caches | fetch, blend, value the portfolio | the blend is within its sources |
| rolling volume (`market/dex_volume.py`) | swaps of a day, cursor, a file | live event, scan, gap fill, eviction, save, load | no swap counted twice, no gap left open |
| accounts (`accounts.py`, `arb/wallet_state.py`) | cached balances, trade-wallet figures, low flags | check, seed, refresh, reconcile | the figures come to be what the wallets hold |
| API, bot, web socket | client set | commands to the components above | - |

How they interact. Depth jobs (2 s Quidax, 10 s Strails), swap events and the
30 s fallback job call the engine; the engine picks a route, claims
`_arb_executing` and starts the one execution task. The task calls the adapters,
writes its row through the attempt store, and reports to the inventory.
`/recover` claims the same flag. The LP cycle, manual withdrawals and the
shutdown unwind share a per-venue lock and the adapter's nonce lock with nobody
else. The ladder sync is called from the price job, its own job and `resume`
under a lock, and from the venue controls without it. `pause` switches
`trading_enabled`, which the LP cycle and the ladder sync read and arbitrage does
not.

What is hard here: legs whose outcome is unknown when the call returns (a
120 s receipt timeout, Strails without a trade id, a lost HTTP response); writes
that fail between two effects in the world; a restart between two steps; the
midnight reset; commands that arrive between the awaits of a job; rows reused or
swept by the next tick. `PROJECT.json` lists each at its line.

## 2. Modules

| module | models | status |
|---|---|---|
| `ArbExecution` | engine, execution, recovery, attempt rows, breaker | checked, proved but for liveness |
| `MCArbExecution` | routes and symmetry for TLC | |
| `ArbExecution_proofs` | types, serialization | proved |
| `ArbExecution_legs_proofs` | no leg twice, nothing lost | proved |
| `LpLifecycle` | LP cycle, withdrawals, ownership cache, stored ids, start-up | checked, proved but for liveness |
| `MCLpLifecycle` | symmetry for TLC | |
| `LpLifecycle_proofs` | types; memory and store against the chain; one position, its count, unwinds | proved |
| `QuidaxLadder` | ladder sync, cancel, tracked orders, pause, webhook, restart | checked, proved but for liveness |
| `MCQuidaxLadder` | symmetry for TLC | |
| `QuidaxLadder_proofs` | types, the tracked orders, no second ladder | proved |
| `LegContract` | what a leg promises whoever placed it: the abstract specification | refined by `LegOrders` |
| `LegOrders` | how Quidax, Strails and a chain place one leg, and its look-up | checked; refinement proved |
| `MCLegOrders` | entry point for TLC | |
| `LegOrders_proofs` | types, number of orders, the refinement | proved |
| `ArbTriggers` | listener, debounced batch, pool cache, seed, bootstrap, fallback | checked, proved but for liveness |
| `MCArbTriggers` | two small instances, one for each behaviour, for TLC | |
| `ArbTriggers_proofs` | types, no lost wake-up, live cache | proved |
| `ArbPricing` | walks of a book, swaps in a pool, their inverses: operators | used by the two below |
| `ArbSizing` | search for the best size, caps, choice of a route | checked and proved |
| `ArbSizing_proofs` | the peak is kept, the route is covered | proved |
| `RiskGate` | `can_trade`, trade log, losses, breaker, flag | checked and proved |
| `WalletFigures` | who writes the wallets' figures, and when | checked |
| `PoolVolume` | rolling volume of a pool | checked and proved |
| `MarketFigures` | price blending, portfolio share, tick range: operators | checked and proved |
| `Desk_proofs` | the bounded volume, each swap once, no gap, figures in range | proved |
| `MCDesk` | sizing, gate, wallets, pool and figures, side by side, for TLC | |

### 2.1 ArbExecution

The state is the code's: `db` is `arb_attempts` (status, direction, whether the
amount bought is stored, the two hashes), `executing` is `_arb_executing`,
`armed` the pipelines with both switches on, `breaker` and `failures` those of
the inventory. `task[o]` is the coroutine that works on opportunity `o`, with the
locals that decide what happens next (what the buy reported, the hashes it
holds); it dies with the process. `tx` is the world: for every hash, which leg it
is and whether it is in flight, landed, reverted or dropped. `ack` is a ghost: the
opportunities that were open when an operator last reset the breaker.

A step is the code between two awaits that someone else can overtake:

| action | code |
|---|---|
| `CexTick`, `DexTick`, `DexInsert`, `DexTickUnrecorded`, `Spawn` | `engine.py` 105-286: sweep, find or insert the row, claim the flag |
| `Preflight`, `Mark`, `Buy`, `BuyFailed`, `BuyFilled`, `Sell`, `Complete` | `route_execution.py` 22-315 |
| `HalfOpen`, `Fail` | its `except` and `finally`, 317-377 |
| `Recover`, `ResolveRecordedSell`, `RetrySell`, `ReverseBuy`, `RecoveryComplete`, `RecoveryFailed` | `recovery.py` 19-497, both commands |
| `SetArmed`, `ResetBreaker`, `Rollover`, `Crash` | operator, midnight, restart |
| `Resolve` | a transaction in flight ends |

Amounts, prices, profits and slippage are abstracted: a leg has an outcome, the
choice of route and size is an input. `Outcomes(venue)` is what each adapter can
report together with what has happened by then: a Quidax order that fills has no
hash, a chain leg has one, a timed-out one is `pending` with its hash. A Quidax leg that
is `ok` was accepted; that it fills as well is what the fault `unfilled` takes away.

The constant `Faults` switches on what the environment may do beyond answering
each call: `store` (a write raises), `crash`, `rollover` (midnight), `pending_buy`
and `pending_recovery` (a leg returns unconfirmed; a pending *sell* of the
execution is always possible), `untracked` (Strails names no trade id), `drop` (a
transaction never lands nor reverts), `lost_response` (a leg takes effect and is
reported failed), `unrecorded` (a DEX-DEX trade below the recording floor),
`unfilled` (Quidax reports an order ok once it has accepted it, `quidax.py:898` and 940,
and the order ends without a fill). Where a property does not survive one, section 4 says so.

### 2.2 LpLifecycle

One DEX venue and its LP account. `nfts` are the positions the account owns, `used`
the ids handed out so far, `idle` whether the wallet holds a top-up threshold's
worth of a token, `queue` the transactions that were broadcast and that nobody waits
for any more: all of these are the world's. `cache` is `_owned_token_ids` (`NoCache` for
`None`), `enabled` and `paused` the two switches, `waiting` and `job` the coroutines
queued on the venue lock and the one that holds it, with its locals. `db` is the
table `lp_token_ids` with the two stored switches. `unrecorded`, `blind` and
`unwound` are ghosts: ids whose last change the engine did not see through, whether
a read of the chain was wrong, and whether an unwind is in force, in this process or from one before it.

| action | code |
|---|---|
| `Tick`, `LockCycle` | `jobs/lp.py` 25-38, `rebalancer.py` 69-188 |
| `RatioReached`, `RatioMissed` | prices, range, `prepare_lp_balance`, `_record_ratio_swap` |
| `MintConfirmed`, `MintFailed`, `SaveMinted` | `mint_position`, `rebalancer.py` 306-357 |
| `TopUpDone` | `_topup_position_locked`, `increase_liquidity` |
| `RemoveConfirmed`, `RemoveFailed`, `ForgetRemoved` | `remove_position`, `_rebalance_locked` |
| `LockWithdraw`, `RequestUnwind`, `LockUnwind`, `WithdrawConfirmed`, `WithdrawFailed`, `StrikeRemoved` | `withdraw_positions` and its callers |
| `PauseTrading`, `ResumeTrading`, `SetVenue` | scheduler and venue controls: memory, then store |
| `Report` | every unlocked caller of `get_owned_positions` |
| `Stop`, `KilledWaiting`, `StartTrusting`, `StartVerified`, `StartUnread`, `StartAborted` | SIGTERM, a crash in the wait, `_load_lp_token_ids` |
| `MineLate`, `Deposit`, `Sweep` | the chain and the wallet |

Waiting for a receipt is one step: the call is synchronous and blocks the loop, so no
coroutine can run between the broadcast and its outcome. Only the process can die
there, which is `KilledWaiting`. A transaction whose wait ended joins `queue` and is
mined in nonce order, or reverts, at any later time; while it is there no later one
is confirmed.

Abstracted: whether the position is in range, and every amount but "worth a
top-up", is a choice; approvals are part of "may raise"; the `actions` rows and
alerts decide nothing. The rebalance job may run twice at a time
(`max_instances=2`): one holds the lock, one waits; two that wait behind a withdrawal
count as one, since the second does what a later tick may do. A confirmed mint
always names its id, and a broadcast transaction is mined or reverts in the end.
`Faults` has four members here: `store` (a write raises), `pending` (no receipt within
the wait), `killed`, and `rpc` (a read of the chain fails, or the log scan finds only
some of the NFTs).

### 2.3 QuidaxLadder

`state` and `target` are the venue's book: for every id whether it rests, is being
cancelled or is gone, and which side of which ladder it belongs to. `mem`, `loaded` and
`stored` are `_tracked_open_orders`, its flag and its persisted copy; a row's `missing`
count and its "being cancelled" status are the sets `struck` and `ending`. `paused`,
`enabled` and `saved` are the two switches and their rows, `cooling` the requote
cooldown. `job[a]` is one coroutine with its locals: the scheduled sync (which holds the
ladder lock, so there is one), the sync of `resume` or of a manual request (which takes
no lock), and any others that list or cancel.

| action | code |
|---|---|
| `StartSync`, `StartManual`, `Begin` | `scheduler/jobs/market.py`, `venue_controls.py`, head of `sync_order_ladder` |
| `ListOrders`, `Load`, `ListFails`, `LookUp` | `get_open_orders` and `quidax_order_state.py` |
| `CancelAll`, `Settle` | `cancel_all_orders`: its requests, and the polls after them |
| `PostPlaced`, `PostRejected`, `PostLost`, `Track`, `Finish` | `sync_order_ladder` with its `_place_target`, `place_order`, `track` |
| `PauseVenue`, `PauseAll`, `ResumeVenue`, `ResumeTrading` | venue controls, scheduler, bot |
| `Webhook`, `ReadOrders` | the two readers that broadcast a snapshot |
| `CoolDown`, `End`, `Restart` | time, the venue, the process |

Sizes and prices are abstracted to a reference price: a ladder fits when it has one row
for every side at the sync's reference, and `drift` lets a fitting one be replaced.
Orders are posted concurrently; each response is tracked when it arrives.

The first reader of the tracked list loads it (`quidax_order_state.py:43-68`). The flag
goes up before the read, so the load may be slow while others go on with an empty list
(`slow_load`), and a read or a decoding that fails is logged and never tried again
(`unloaded`): the list stays as it was for the rest of the process. Three ghosts say
what the adapter cannot know: `doubt`, open orders the venue denied or never
acknowledged; `unsaved`, tracked orders whose last write failed or never came;
`forgotten`, open orders that a load which failed or came late, or a restart after a
failed write, took off the list.

### 2.4 LegContract and LegOrders

`LegContract` says what `ArbExecution` relies on, whatever the venue: one order at most
for each leg, a report that is true of it (`filled` only if done, `failed` only if none
or void), and a pending report that is only ever replaced by the truth. A leg in
`OnAcceptance` promises less: its `filled` says that there is an order, which may end
either way. These are the Quidax legs, and `unfilled` of `ArbExecution` is the same gap
seen from above.

`LegOrders` is how the adapters do it: the rounds and endpoints of a Quidax market order, the trade
id, reconciliation and polls of Strails, approval, gas estimate, broadcast and receipt
of a swap, and the look-ups of the recovery. A Quidax order that was accepted is live and
later fills or ends without a fill (`quidax.py:803` knows the case); the polls after it
look for a fill and never at its state, and without one it is reported filled after an
alert. A 2xx answer whose body cannot be used is a failed report with an order in place,
beside the answer that does decline. `order` is the venues' book, `call[l]` the
adapter's coroutine, `said[l]` what it reported; `unheard` is a ghost, the orders no
response told the adapter of. The refinement mapping takes the fate of a leg to be that
of the orders it was told of; an order whose acceptance was lost is invisible to any
caller, and `OrdersBounded` is what can be said of those.

### 2.5 ArbTriggers

`link`, `active`, `inbox` and `read` are `_listen_to_chain` of each chain with its
socket; `cache` is `_POOL_CACHE`. `market`, `venues` and `calc` are the pending sets and
the debounced task; `seed[s]` is one `seed_dex_pool_states`, the bootstrap's or a task's,
and several may be inside at once; `boot` is the bootstrap with its pending flag and
retry interval. What an evaluation decides is left out: here it only matters that it
happens.

A pool is the number of its swaps, which stands for the price, its tick, and its
liquidity, a pair of the tick and of the number of mints and burns so far. A swap moves
the price, and with it the tick as it may, and its event carries all three. A mint or a
burn, the engine's own included, moves the liquidity and is announced by no event.
`update_single_v4_pool_state` (`pool_state.py:154-158`) is two reads: slot0, and the
liquidity unless the tick is the cached one, in which case it writes the liquidity that
was cached. `Written` is that write. A read that fails leaves the cache alone, and the
refresh after a connect is not tried again before the next one (`listener.py:188-195`).

Ghosts: `owed`, news nobody has looked at; `told`, the pool as its last swap left it;
`missed`, whether nobody heard of that swap; `setBack`, whether a seed that wrote late
has set back the price, or the liquidity with it.

Every wait inside the listener and the seed is a step boundary, so swaps, mints, losses
and other seeds fall anywhere between them; the tick check is merged with the answer for
the liquidity. The RPC endpoint and the web socket are taken as one view of the chain.
The depth job starts no seed while its last one runs, which is a case of what is allowed.

### 2.6 The desk

`ArbSizing` is one update from detection to the chosen route: the spread check, the
ternary search (`Narrow`), the offer of the DEX pair, the caps by single-trade limit,
stable balance and cNGN, the last by an inverted walk (`CapByBook`) or by bisection
(`Halve`). The market moves once, between the worker thread and the router. Curves are
constants, as any unimodal function of the size; `MCDesk` computes them with
`ArbPricing`, the exact walk of a book and the swap arithmetic of a pool.

`RiskGate` has the trade log with its 24-hour window, the day's losses and the breaker
(reset lazily, at the first look after midnight), the flag, and half-open trades that
are recovered without a gate. `WalletFigures` has the three writers of
`per_account_stable` and `per_account_cngn`: the seed, the refresh after a wallet event,
and the depth tick, which writes what the last check left in a cache; each reads at one
time and writes at another. `PoolVolume` has the store of a pool, its file, the socket
and the scan with its resume block. Time and blocks are two things there: `clock` is the
time, in moments of 86400 / `_BLOCKS_PER_DAY` seconds, `stamp` the time of each block, and
a moment may have several blocks or none. The code converts one into the other as if there
were one block a moment, from the block a scan ends at: `Dated` is the time it gives a
block, `Covered` what it scans, and `Antedated` the swaps which that puts before their
time (`dex_volume.py:230-287`, 303-313). An endpoint may be any number of blocks behind
the head, also behind the head when it is asked (`latest` in `ScanOk`). Two ghosts say
what that costs: `missed`, swaps that the cursor was moved past or that a scan took for
older than they are, and `beyond`, swaps from before the subscription which the endpoint
of the last gap fill had not heard of. Rounding below a block and a host clock that
differs from the chain's are left out. `MarketFigures` has no steps: rates, shares and tick
ranges are computed for every case of a bounded set and compared with what they must
stay within.

## 3. Runs

`ArbExecution`. Bounds: two opportunities, three hashes, three routes
(one of each shape: CEX to chain, chain to the CEX that names its trades, chain
to chain), `MaxFailures = 2`. Two opportunities are what the interesting
interleavings need: an open one and a second trade, two DEX ticks that race, a
row that is reused. Three hashes are a buy, a sell and one more sell or buy, which
is what a duplicate takes. Opportunities and hashes are symmetric in the safety
runs. `attended` has one opportunity, four hashes, which are a
buy, a sell and two more legs of the recovery, and a fourth route, which buys where a pending leg is named
too (Strails); the others leave it out, as it only repeats their shapes. `failures` is capped at `MaxFailures`, where the breaker trips.

| run | faults | checks |
|---|---|---|
| `serial` | store, crash, rollover, lost_response, untracked | `TypeOK`, `OneAtATime`, `CompletedIsFlat`, `RowsMoveForward` |
| `legs` | pending_buy, pending_recovery, unrecorded, rollover, drop, unfilled | `SoldOnce`, `BoughtOnce`, `AbandonedIsEmpty` |
| `attended` | pending_buy, drop | `ExposureHalts`, `ExposureRecorded`, `HalfOpenIsClosed`, `FlagReleased` |

- `OneAtATime`: the flag is up exactly while one execution or recovery runs, and
  no two run. It survives every fault.
- `SoldOnce`, `BoughtOnce`: of all the legs placed for one opportunity at most
  one buy and one sell can take effect, counting the ones still in flight.
- `CompletedIsFlat`, `AbandonedIsEmpty`: the row tells the truth when it says the
  trade is over.
- `ExposureHalts`, `ExposureRecorded`: cNGN that was bought and not sold stops new
  trades until an operator resets the breaker, and its row is one `/recover` takes.
- `RowsMoveForward`: completed rows are final, half-open rows only close, and the
  hash of a sell in flight is never overwritten.
- `HalfOpenIsClosed`: an operator who keeps sending `/recover` gets a half-open trade
  closed, unless the very sell its row names was dropped: that one is looked up for ever.
- `FlagReleased`: every execution and recovery ends.

Fairness. `FairSpec` has weak fairness of each task's next step: asyncio runs a
coroutine that is ready, and every call of the code has a timeout, so a leg
always reports something. Nothing is assumed of ticks, venues or operators. That
is enough for `FlagReleased`. `AttendedSpec`, for `HalfOpenIsClosed`, adds what the
documentation's "recover" procedure presumes: an operator who keeps sending
`/recover` (strong fairness, since the flag comes and goes), transactions in
flight that end, look-ups that answer and venues that fill an order again
eventually. Legs use up the finite set of hashes, so the property excuses the
states where none is left.

`LpLifecycle`. Bounds: token ids are never reused, so `Ids` bounds how many
positions are ever made: three, which is a position, its replacement, and one more
for the duplicate or for a mint after a withdrawal; two in `lp_late`, where two
unmined transactions (`MaxQueue`) beside a position already give every pairing of
stored, remembered and real. Ids are symmetric in the runs without liveness.

| run | faults | checks |
|---|---|---|
| `lp_single` | store | `TypeOK`, `OnePosition`, `CountAgrees`, `UnwindHolds`, `FundsDeployed` |
| `lp_late` | store, pending, killed, rpc | `KnowsAllButUnrecorded`, `StoreAgrees` |
| `v_remint` | none | `RestartRemints`, violated |

- `OnePosition`, `CountAgrees`: the account never owns two positions, and memory has
  as many as there are. Not "the same": a start trusts stored ids when their number
  matches, and a removal whose delete failed followed by a mint whose insert failed
  leaves the right number of wrong ids.
- `UnwindHolds`: what an unwind returns to the wallet is not minted again by the same
  process before trading is resumed, although a cycle may have read the switch before the
  unwind took the lock; `check_and_rebalance` reads it again once it has the lock.
- `FundsDeployed`: idle funds and no position lead to a position.
- `RestartRemints`: the next process deploys what an unwind returned, as the
  documentation says. It does not, see section 4.
- `KnowsAllButUnrecorded`, `StoreAgrees`: memory is wrong only of ids whose last change
  happened behind the engine's back or between a confirmation and its write, and the
  store only of those.

Fairness, for `FundsDeployed`: the scheduler ticks while the switches are on; the
lock is an `asyncio.Lock`, first come first served, so a waiting cycle gets it though
withdrawals keep coming (strong fairness of `LockCycle`); a job's next step is taken,
as every call times out; and the ratio swap and the mint do not fail for ever
(strong fairness of `RatioReached` and `MintConfirmed`), without which no code could
keep the promise. Nothing is assumed of the operator, who may pause, sweep or stop:
the property excuses those.

`QuidaxLadder`. Two sides, one reference price. Three ids in `ladder` are a pair and one
more, the least with which two ladders can overlap or half a ladder be replaced; two ids
and one side in `ladder_any`, where the point is the tracked list, with a second
coroutine and every way to lose track. Symmetric only where nothing is live. The types are
left to the theorem, which covers both instances.

| run | actors and faults | checks |
|---|---|---|
| `ladder` | the locked sync; lag, reject, missing, drift, lost | `KnowsItsOrders`, `NoStacking`, `HalfLadderReplaced`, `FinishedIsForgotten` |
| `ladder_any` | the unlocked sync and another; unread, refuse, store, slow_load, unloaded, restart | `KnowsItsOrders` |

- `NoStacking`: however stale the venue's list, no side holds two orders of the ladder.
- `KnowsItsOrders`: while no read of the store is under way, every open order is on the
  tracked list, or its response is under way, or it is excused: the venue denied it or
  never acknowledged it (`doubt`), or a load that failed or came late, or a restart after
  a failed write, lost it (`forgotten`). `ladder` checks it where look-ups miss and
  responses are lost, `ladder_any` where the store is what fails.
- `HalfLadderReplaced`, `FinishedIsForgotten`: half a ladder does not stand, and a
  finished order does not hold the next ladder back.

Fairness: a coroutine that is ready runs, as every call has a timeout; the sync is
scheduled again; the cooldown passes; the venue carries out the cancellations it
accepted. The venue need not fill, accept or list anything.

`LegOrders`. One leg of each kind, two rounds on Quidax instead of the six of
`quidax.py:838` (what a third adds is more of the same; the theorems hold for any number),
three orders in all: enough for a second Quidax order after an answer that was lost, and
one of another leg. In TLC `OrdersBounded` bites for the legs that may have one order; that
of Quidax, two for each round, is not reached here and is what `FewOrders` proves.
`v_misattributed` has two Strails legs.

| run | faults | checks |
|---|---|---|
| `orders` | lost, down, nameless, unreadable, store | `TypeOK`, `OrdersBounded`, `KeepsContract`, `NothingAfterAcceptance`, `PendingResolves` |
| `v_misattributed` | nameless | `ReferenceIsOwn`, violated |

With one Strails leg a trade that was not named can only be found as itself; with two it
may be taken for the other's, which is what `v_misattributed` shows and why the theorem
`ContractKept` assumes that Strails names its trades. Fairness, for `PendingResolves`:
orders settle, trades get listed, and the recovery asks again.

`ArbTriggers`. One chain with a watched wallet, one swap, one mint and one transfer, two
ticks, and two seeds, the bootstrap's and a task's: enough for an event to arrive in every
phase of a connection, of a batch and of a seed, and for two seeds to overtake each other
and the listener. A second chain multiplies the phases without meeting the first except in
the batch and in the order of the seed, and the theorems cover both chains. A behaviour of
`MCArbTriggers` follows one of two parts, since together they are too many states. "pools"
has the pool, its readers and the faults `drop` and `rpc`, with no gas figure, so that
whoever looks asks for a seed. "jobs" has every fault and all the jobs, one tick, no mint,
and the bootstrap's seed only; what must eventually happen is asked of it alone.

| run | faults | checks |
|---|---|---|
| `triggers` | drop, rpc, gas, store, stop | `TypeOK`, `NoLostWakeup`, `LiveMeansCurrent`, `NewsIsLookedAt`, `BootstrapEnds` |

- `NoLostWakeup`, `NewsIsLookedAt`: an event that arrives while a batch runs is taken by
  the next one. An evaluation that finds a pool cold, or no gas figure, has looked and
  ends in a seed.
- `LiveMeansCurrent`: the subscription stands before the pool is read, so a live chain
  with nothing left to hand over has the pool's price in the cache; and unless the last
  swap came while nobody listened, the liquidity too, but for mints after that swap, which
  nobody announces. Two things leave an older price: a seed that read before and wrote
  after an event, and a refresh that failed after a swap nobody heard of.
- `BootstrapEnds`: the bootstrap is retried until it has run once.

Fairness, said of the part "jobs": the loop runs what is ready, the scheduler its jobs, and
the gas endpoint and the store answer again and again (strong fairness of the two steps
they can fail). Nothing is assumed of sockets. `NewsIsLookedAt` and `BootstrapEnds` are
`NewsIsHandled` and `BootstrapCompletes` of `ArbTriggers` for that part.

`MCDesk`. The machines share no state: a behaviour picks one part and runs it, the
others stay parked. This checks the same states as five runs would.

| run | part and bounds | checks |
|---|---|---|
| `desk` | sizes 0..9, tolerance 2, two markets of one book and two pools, wallets of 0, 3, 8 or unread | `SearchSound`, `RouteIsCovered` |
| | trades of 1 and 2 against a volume of 3, losses and failures of 2, a day of 2 ticks, 5 ticks | `VolumeBounded` |
| | two wallets, one move, one failed read | `FiguresCatchUp` |
| | window 1, slack 1, blocks 0..3, moments 0..2, three swaps, two endpoints | `NoDoubleCount`, `GapFilled` |
| | quotes of four venues, two snapshots, two wallets with failed answers, 15 x 21 tick pairs | `FiguresInRange` |

- `SearchSound`: the interval left by the ternary search holds a best size; the spread
  check drops no direction that pays. True of unimodal curves, which the assumption
  demands and the ones priced here are.
- `RouteIsCovered`: the route fits wallets and limit in the market it is taken in.
- `VolumeBounded`: what passed the gate stays within the day's volume although running
  trades are in no figure. The flag is why: without it TLC finds two trades at once.
- `FiguresCatchUp`: under fair checks and ticks, figures and flags come to be the
  wallets' and stay so, also when no wallet event is ever heard.
- `NoDoubleCount`, `GapFilled`: every swap of the window is counted once, and those of a
  gap are found, but for the three kinds section 4 names. A window of one moment within
  two, and three blocks to share among them, gives moments without a block and with
  several, endpoints behind the start of the scan, and swaps that leave the window; TLC
  refutes the property without any one of the three.
- `FiguresInRange`: the rate lies between the prices it came from, the share between 0
  and 1, and the ticks are aligned, ordered and within the width but for rounding.

Deadlock is checked in the runs whose system never rests. It is switched off where it
may: bounded ids, moves or ticks run out (`desk`), legs are all reported (`orders`), or
the process stops (`triggers`).

## 4. Where the code and its documents differ

Two runs expect a violation.

- `v_misattributed`: `strails.py:340` promises to find the just-placed trade by side and
  amount; the code takes the newest listed trade with that side and amount
  (`strails.py:347`), and a trade in flight may be missing from the list
  (`strails.py:263`), so a retry of the same amount is given the older trade's id and the
  leg is reported on the evidence of another trade while its own is live.
- `v_remint`: `lp/operations.md:60` says of "Unwind + Stop" that on the next restart the
  engine detects the balance of the LP wallet and remints by itself. Both shutdowns with
  unwind pause first (`api/routes/system.py:189`, `bot/telegram.py:553`), the pause stores
  `trading_enabled = false` (`core.py:288`), the next process restores it (`main.py:391`),
  and no cycle touches the funds until somebody resumes trading.

Found with these modules, by giving a run more faults than it has, and recorded here
only:

- The breaker that a half-open trade trips is cleared at midnight UTC
  (`inventory.py:87`): `ExposureHalts` with `rollover`; `arbitrage/execution.md:67` says
  it blocks trading until manually reset. The reset is lazy, so a breaker tripped after
  midnight and before the first look of the day is cleared too.
- A recovery leg that is broadcast and unconfirmed is recorded `completed`
  (`recovery.py:150`) and may revert: `CompletedIsFlat` with `pending_recovery`.
- When the write of `completed` fails the row becomes `half_open` without the hash of
  the sell that landed (`route_execution.py:265`) and the recovery sells again:
  `SoldOnce` with `store`; `execution.md:76` says a broadcast hash is never discarded.
- `get_owned_positions` answers "none" when the discovery fails (`uniswap_v4.py:287`) or
  finds nothing against a positive balance (336), and the cycle mints: `OnePosition` with
  `rpc`; `lp/operations.md:21` says a transient failure should not be read so.
- A removal mined after the 120 s wait leaves the burnt id in the cache
  (`uniswap_v4.py:1129`); each later cycle finds no state for it and returns
  (`rebalancer.py:124`), so the funds are not deployed until a restart counts again:
  `FundsDeployed` with `pending`; `lp/operations.md:33`.
- A pause that falls between the awaits of a sync cancels first and the orders come
  after (`quidax.py:959`): `PausedBookIsEmpty` of `QuidaxLadder`, which no run checks, is
  refuted; `bot/telegram.py:343` offers to cancel open CEX orders.
- The manual sync places beside the scheduled one (`venue_controls.py:62`):
  `NoStacking` with `Syncs = {"sync", "manual"}`.
- The scheduled sync alone places a second ladder too, where the venue's list lags after a
  restart and the tracked orders that should make up for it are not there: the stored list
  could not be read (`quidax_order_state.py:49` logs it, and the flag says "loaded"
  already), or its last write had failed, or another coroutine is still reading it
  (`quidax_order_state.py:43` tells everyone else that it is loaded). TLC refutes
  `NoStacking` with `lag` and `restart` beside `unloaded`, `store`, or `slow_load` with
  `Others = {o1}`. `ListingIsCovered` in `QuidaxLadder_proofs` leaves these cases out.
- A load that fails leaves the orders of the stored list unknown for the rest of the
  process, and a tracked list that is read late overwrites what was tracked meanwhile:
  `KnowsItsOrders` excepts these orders, and no others (`forgotten`).
- Quidax's order is reported filled when it was accepted, whatever it filled
  (`quidax.py:898-905`, 940-948): the contract of a Quidax leg promises no more, and the
  trade above it is not what its row says (`unfilled` in the table below).
- The swaps `GapFilled` excepts, all lost to the volume for good or for a time: those a
  swap moved the cursor past, when it was handled while the subscriptions were confirmed
  (`dex_volume.py:375`) or after a gap fill that ended too early; those before the
  subscription that the gap fill's endpoint had not heard of (`dex_volume.py:297`); and
  those a scan dates before their time, because blocks come faster than `_BLOCKS_PER_DAY`
  says (`dex_volume.py:230-287`).
- The cached liquidity of a pool is reused while its tick stays (`pool_state.py:154`), so
  a mint or a burn, the engine's own included, is seen at the next swap or change of tick;
  a refresh that failed after a connect is not repeated (`listener.py:191`).
  `LiveMeansCurrent` promises no more than that.
- A venue without a volume has no weight in the VWAP (`price_aggregation.py:218`), where
  the field's comment (`price_aggregation.py:42`) promises an equal one.
- The exclusion of a venue whose preflight was refused lasts until the next depth tick,
  which writes the cached balance back (`positions.py:131`).
- `max_inventory_imbalance_usd` is compared with the size alone: nothing feeds the
  imbalance (`update_account_inventory` has no caller).

What the properties do not survive, found with the same module:

| property | fails with |
|---|---|
| `SoldOnce` | store, crash, untracked, lost_response |
| `BoughtOnce`, `AbandonedIsEmpty` | store, crash, lost_response |
| `CompletedIsFlat` | pending_buy, pending_recovery, unfilled; untracked with a Strails buy to reverse |
| `ExposureHalts` | store, crash, rollover, pending_recovery, lost_response, unfilled; untracked as above |
| `ExposureRecorded` | store, crash, unrecorded, pending_recovery, lost_response, unfilled; untracked as above |
| `HalfOpenIsClosed` | drop, without the excuse `SellDropped` |
| `OnePosition`, `UnwindHolds` | pending, killed, rpc |
| `CountAgrees`, `FundsDeployed` | pending, killed, rpc |
| `NoStacking` | the unlocked sync; lag and restart with store, unloaded, or slow_load and another coroutine |
| `KnowsItsOrders` | any of its excuses taken away |
| `LiveMeansCurrent` | drop, rpc, two readers or a mint, each without its excuse |
| `GapFilled` | any of its excuses taken away |
| `ReferenceIsOwn` | nameless, with two Strails legs |

Of the LP, read in the source and not given a run: the start trusts stored ids by their
number and asks for no owner (`main.py:236`); a mint that is broadcast and unconfirmed is
recorded as failed, without its hash (`rebalancer.py:339`), where `v4.py:513` asks callers
to keep it.

Of arbitrage, read and not given a run: a pending buy's hash is never looked up,
though `execution.md:87` says recovery resolves it (`recovery.py:318` looks at the
sell only); the sweep expires `executing` rows too, `post-trade.md:53` says only
`detected` ones (`db/queries/arbitrage.py:298`); `check_transaction` answers `None`
for a dropped transaction, so "confirm or drop, then re-run" (`execution.md:81`)
never leaves the first state (`v4.py:482`); the DEX-DEX half-open write stores no
amount (`route_execution.py:343`, `execution.md:66`), which is harmless as long as
the `buy_filled` write went through; the breaker is tripped after the half-open
write, not before (`route_execution.py:321`, `execution.md:95`); trades below the
recording floor have no row (`engine.py:253`, `post-trade.md:46`); a Strails order
that is pending without a trade id passes the recovery gate (`strails.py:335`,
`base.py:57`); a Quidax POST is retried although the comment at `quidax.py:894`
says a second submission would double-trade.

## 5. Proofs

All theorems hold for any sets of opportunities, hashes and directions, any
`MaxFailures`, and the faults named; the only assumption on constants is
`ConstantsAssumption` (directions are registered ones, `MaxFailures` is positive,
the null values are not members).

`ArbExecution_proofs`:
- `TypeCorrect`: `Spec => []TypeOK`, by one lemma per action.
- `Serialized`: `Spec => []OneAtATime`, every fault included. `OneAtATime` is
  inductive once `TypeOK` is known: the equivalence between the flag and "some
  task is trading" gives uniqueness at each spawn.
- `RowsNeverGoBack`: `Spec => RowsMoveForward`, every fault included. `RowFits` relates
  a row to the task that works on it: an execution has a row that is still open and
  holds no sell, a recovery past its gate one whose recorded sell has come to an end.
  `OwnSteps` and `LegsAreKept` carry it past every step of somebody else: such a step
  can only let a row expire, and a leg that has ended stays as it is.

`ArbExecution_legs_proofs`. `NothingLost` is `Faults` without `store`, `crash`,
`lost_response` and `untracked`, `LegsSettle` without `pending_recovery`, `untracked` and
`unfilled`; the table above shows that TLC refutes the statements with the faults they
assume away, except `BoughtOnce` and `AbandonedIsEmpty` with `untracked`.
- `NeverSoldTwice` (`SoldOnce`), `NeverBoughtTwice` (`BoughtOnce`), `GivenUpIsEmpty`
  (`AbandonedIsEmpty`), assuming `NothingLost`.
- `CompletedMeansFlat` (`CompletedIsFlat`), assuming `LegsSettle` and no
  `pending_buy`: store errors, crashes and lost responses are allowed.
- `ExposureHaltsTrading` (`ExposureHalts`), assuming `NothingLost`, `LegsSettle`
  and no `rollover`; `ExposureIsRecoverable` (`ExposureRecorded`), assuming the first two
  and no `unrecorded`. Both allow buys that stay pending and legs that drop.

None of these is inductive. `BookInv` says, for each point of an execution or recovery,
which legs may be live: no buy before the buy step, no sell before the sell step, and for
a row at rest which statuses go with which legs and that a live sell of a recoverable row
is the one whose hash it stores. The last part carries the argument for `SoldOnce`: the
recovery sells only after it has seen the stored sell reverted, and a reverted leg stays
reverted. `Settled` says that a hash in a row or a task is a sell of that opportunity, and
that a task or row that claims a sale, or a buy, has a landed leg to show for it.
`Watched` and `Recorded` speak of *any* live buy and not of an exposed one, because a sell
in flight may still revert after the operator has reset the breaker; with "a landed sell,
or the breaker, or the operator knew" each is kept by every step. TLC checked all four on
the instances of the runs, with the faults each assumes, before they were proved.

`LpLifecycle_proofs`, for any finite set of ids, any `MaxQueue` and every fault:
- `TypeCorrect`: `Spec => []TypeOK`, by parts (chain, switches, cache, job, store,
  ghosts), with one lemma for every kind of job.

The same module, assuming `Reliable`, that is `Faults \subseteq {"store"}`:
- `SinglePosition` (`OnePosition`), `CountIsRight` (`CountAgrees`), `UnwindIsFinal`
  (`UnwindHolds`). The invariant `Settled` says that memory is empty exactly when the
  account is and never has two ids, that a job on its way to a mint, or that has just
  removed, has an empty account before it, and that a job that will remove holds an id
  of memory. It cannot say that memory is right: a start may trust a wrong id, and the
  step from equal cardinalities to "both empty or both single" is where finiteness of
  the ids is used. `Unwound` adds that after an unwind, and in the same process, trading is
  off wherever it is read and no job is on its way to a mint.

And for every fault again:
- `KnowsItsPositions` (`KnowsAllButUnrecorded`), `StoreFollows` (`StoreAgrees`). The
  invariant `View` relates chain, memory and store at every step of a job: memory
  follows the chain, the store follows memory but for the one id whose write comes next
  (`Writing`), and nothing is stored that is not in memory or about to be struck.

`Settled` and `View` were checked with TLC on the instances of the runs before they
were proved.

`QuidaxLadder_proofs`, for any targets, ids, readers and bounds:
- `TypeCorrect` (`TypeOK`) and `KnowsOrders` (`KnowsItsOrders`), with every fault and with
  the manual sync. `Informed` is the invariant of the second: an open order that is neither
  in doubt nor forgotten is in the list that counts (the stored one until it is read,
  memory from then on), in a response not tracked yet, or in the list a slow read will put
  back (`Known`); what memory has and the store has not is named by `unsaved` (`Saved`);
  until the stored list is read no sync is past its listing (`Unread`). A load that fails makes memory the list that
  counts as it is, and moves to `forgotten` exactly what that loses.
- `NeverStacks` (`NoStacking`), assuming `LockedSync` (no manual sync) and
  `ListingIsCovered`: where the venue's list lags, no slow first read of the store overlaps
  another coroutine, and a restart meets a store whose reads and writes work. Without
  `lag` every fault is allowed. Section 4 shows that each part is necessary. `Unstacked`
  adds what a placing sync may still post: no target whose order rests (`Clear`). It is
  established when a sync turns from cancelling to placing, because by then it has seen
  every open order: in the venue's list when that does not lag (`Seen`), else in the
  tracked one, which is `Informed` again, together with `Kept`: nothing is forgotten and
  nothing unsaved before a restart. That is also why a list that is still being read must
  hold nothing (`NothingOld`).

`LegOrders_proofs`, for any legs and any number of rounds: `TypeCorrect`; `FewOrders`
(`OrdersBounded`), which ties the number of orders to the rounds and endpoints the loop has
left; `NoSecondOrder` (`NothingAfterAcceptance`); and `ContractKept` (`KeepsContract`),
assuming that Strails names its trades. The last is the refinement: every step is one of
the contract or leaves fate and report as they are. What it says of a Quidax leg is that
at most one order was heard of and that no failed report stands over it, not that it
filled.

`ArbTriggers_proofs`, for any chains, wallets, seeders and ticks, any numbers of swaps,
mints and transfers, and every fault: `TypeCorrect`; `NoNewsWithoutACalculation`
(`NoLostWakeup`); and `LiveIsCurrent` (`LiveMeansCurrent`). `ChainInv` is said of each
chain: the last swap in the inbox is the last there was and those before it are older
(`Heard`), only mints separate the pool from what its last swap left (`Told`), a read or
cached pool with the pool's price has its tick and, if it has a liquidity, no less than was
minted before that swap (`Truthful`, and `Seeded` for what a seed holds), and what is
cached is current as far as the phase of the connection, the inbox and the read of the
refresh let it be, but for what the ghosts excuse (`Fresh`).

`ArbSizing_proofs`, for any markets, curves, needs and wallets: `SearchKeepsThePeak`
(`SearchSound`) and `RoutesAreCovered` (`RouteIsCovered`).

`Desk_proofs`, on `RiskGate`, `PoolVolume` and `MarketFigures`, whose figures are sums and
folds over sequences of any length. The library states induction over the naturals with an operator
as a parameter; the proofs use the same principle for sets of naturals instead
(`NatLeast`, `SetInduction`), from which `Unrolled` unrolls a recursive function one step
at a time; this is why the modules fold with functions on prefixes (`Total`, `Filled`, `Summed`).
- `VolumeStaysBounded` (`VolumeBounded`), for any sizes, profits, limits and length of a
  day. The invariant `GateInv` says that there is at most one task and that the flag is up
  exactly while there is one, so that a trade passes the gate only when nothing else is
  claimed; what it claims it adds to the log, and a log that ages or loses the entries in
  front counts less.
- `CountedOnce` (`NoDoubleCount`), for any swaps, window, slack and number of endpoints.
  `CountInv` asks the same of the copy on disk.
- `GapsAreFilled` (`GapFilled`), which needs of `PoolAssumption` that no two swaps share an
  id. It holds however many blocks a moment has and however far behind an endpoint is.
  `GapInv` is the argument of the code made explicit. A store, in memory or on disk, holds
  everything mined before its cursor (`Covers`) but what is excused or too old, by the time
  of its block against the clock (`Held`); what it holds was mined and, unless excused, is
  no older than it is stored as (`Sound`), so that eviction never drops a swap of the
  window; the inbox has the swaps in the order of the chain (`Heard`), so that a live
  event leaves nothing behind the cursor it moves but what is excused; and what is mined
  during a scan is in the inbox (`Scanning`), so that all a lagging endpoint can miss is
  what was mined before the scan and after its answer (`beyond`). Blocks and moments are
  kept apart throughout: a block's time is never later than the next one's nor than the
  clock, and only `Antedated` compares it with the time the code gives it. TLC checked
  `GapInv` before it was proved.

- `FiguresStayInRange` (`FiguresInRange`), for any finite set of venues and any quotes,
  snapshots, answers and raw ticks of the form `FiguresAssumption` states: prices are
  fractions of naturals; Bybit quotes the dollar in naira and every other venue a cNGN
  below a dollar, which `_normalize_single_price` takes for granted of what is stored;
  the minimum width is even (it is 100), because an odd one loses a tick
  (`strategy.py:85`). The
  fractions are compared by cross-multiplication. A weighted sum is carried together
  with two of the prices it was made from, one it is worth at least and one at most
  (`Bounded`); adding an item keeps the old bound or makes the new price the bound
  (`WeightedIs`), and division by the weight leaves the mean between the two (`MeanIs`).
  That also covers the fall-back from VWAP to TWAP to a single venue, since each stage is
  such a mean or a heard price (`Amid`), and weights of zero, which leave the sum zero.

Every invariant and action property of the runs that pass is stated by a theorem. Left to
TLC are the liveness properties, under fairness the prover cannot handle (ENABLED):
`FlagReleased` and `HalfOpenIsClosed` of the execution, `PendingResolves` of the legs, `FundsDeployed`
of the LP, `HalfLadderReplaced` and `FinishedIsForgotten` of the ladder, `NewsIsLookedAt`
and `BootstrapEnds` of the triggers, and `FiguresCatchUp` of the wallets.

## 6. Not modelled

- The dashboard, logging, messages and formatting; the arbitrage history, whose rows no
  decision reads; what other processes do with the same wallets.
- Floating point: the EWMA behind an LP range, its logarithms, liquidity amounts.
- I/O without a decision: fetching of quotes, depth and balances, P2P filters, the gas
  oracle's sources, calldata, the Blockradar wallet and its transfers, refill alerts.
- The stores other than `arb_attempts` and `lp_token_ids`: plain inserts and reads.
- Curves for the dashboard, the rebalance cost and the imbalance tiebreak of the router.

## 7. What is left

1. An abstract position book (none, one, changing hands) that `LpLifecycle` refines, and
   a second venue that shares the wallet's nonces.
2. `ArbExecution` over `LegContract`: its `Outcomes` are the contract's reports, which is
   argued here and not checked by a composition.
