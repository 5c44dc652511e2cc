------------------------------ MODULE ArbTriggers ------------------------------
(* What makes the arbitrage engine look: the chain listeners with their        *)
(* debounced batch, the pool cache they keep, and the jobs that stand in for   *)
(* them (fallback, bootstrap, depth, gas). The price of a pool is the number   *)
(* of its swaps; a step is what one coroutine does between two awaits. What an *)
(* evaluation and a wallet refresh do with what they find is WalletFigures's.  *)
EXTENDS Integers, Sequences

CONSTANTS
  Chains,     \* chains the engine trades and listens on
  Wallets,    \* chains whose trade wallet the listener watches
  Seeders,    \* who may be inside seed_dex_pool_states: the bootstrap, tasks
  Tasks,      \* bound: the tasks that may be there at once
  Ticks,      \* ticks a price may be in
  MaxSwaps,   \* bound on the swaps of each pool
  MaxMints,   \* bound on the changes of liquidity of each pool
  MaxMoves,   \* bound on the transfers of the watched wallets
  Faults      \* what the endpoints and the store may do wrong

(*  drop   a web socket closes or stays silent                                 *)
(*  rpc    a read of a pool fails                                              *)
(*  gas    a gas or price endpoint fails, or the figures age                   *)
(*  store  a write of the opportunity raises                                   *)
(*  stop   the process is shut down                                            *)
AllFaults == {"drop", "rpc", "gas", "store", "stop"}

SeedOrder == (IF "bsc" \in Chains THEN <<"bsc">> ELSE <<>>) \o
             (IF "base" \in Chains THEN <<"base">> ELSE <<>>)

ASSUME TriggersAssumption ==
  /\ Chains \subseteq {"base", "bsc"} /\ Chains # {}
  /\ Wallets \subseteq Chains
  /\ "boot" \in Seeders /\ Tasks \subseteq Seeders \ {"boot"}
  /\ Ticks \subseteq Nat /\ 0 \in Ticks
  /\ MaxSwaps \in Nat /\ MaxMints \in Nat /\ MaxMoves \in Nat
  /\ Faults \subseteq AllFaults

VARIABLES
  running,   \* the listener and the scheduler
  pool,      \* the pools, on their chains
  moves,     \* transfers so far, on the chains
  link,      \* _listen_to_chain of each chain
  active,    \* active_connections
  inbox,     \* events a subscription has yet to hand over
  read,      \* what the refresh after a connect has read, or that it failed
  cache,     \* _POOL_CACHE
  market,    \* _pending_market_update
  venues,    \* _pending_wallet_venues
  calc,      \* _delayed_calculation and its batch
  gas,       \* the gas oracle has fresh figures
  boot,      \* the bootstrap: pending, its task, its last attempt
  seed,      \* each seed_dex_pool_states: pools left, what was read
  owed,      \* ghost: news no evaluation or refresh has looked at
  told,      \* ghost: the pool as its last swap left it
  missed,    \* ghost: nobody heard of that swap
  setBack    \* ghost: what a seed with an older price has set back

listener == <<link, active, inbox, read>>
batch    == <<market, venues, calc>>
jobs     == <<gas, boot, seed>>
swapped  == <<told, missed, setBack>>
vars == <<running, pool, moves, listener, cache, batch, jobs, owed, swapped>>

-----------------------------------------------------------------------------
Never   == -2                 \* nothing is known yet
Unknown == -1                 \* the read failed: -1 stands for an error

(* What the positions add up to depends on the tick the price is in and on     *)
(* what was minted and burnt: a pair that differs wherever either does.        *)
Liquidity == Ticks \X (0..MaxMints)
NoLiq     == <<Never, Never>>
PoolState == [swaps : 0..MaxSwaps, tick : Ticks, liq : Liquidity]

(* A read of a pool: nothing yet, failed, its slot0 alone, or all of it.       *)
Nothing == [swaps |-> Never, tick |-> Never, liq |-> NoLiq]
Failed  == [Nothing EXCEPT !.swaps = Unknown]
Slot0   == [swaps : 0..MaxSwaps, tick : Ticks, liq : {NoLiq}]
Reading == {Nothing, Failed} \cup Slot0 \cup PoolState

Links == {"off", "down", "handshake", "subscribed", "refresh", "live"}

Event == {<<"transfer">>} \cup ({"swap"} \X PoolState)

NoSeed == [todo |-> <<>>, got |-> Nothing]

NewSeed == [todo |-> SeedOrder, got |-> Nothing]

NoCalc == [pc |-> "none", venues |-> {}]

TypeOK ==
  /\ running \in BOOLEAN
  /\ pool \in [Chains -> PoolState]
  /\ moves \in 0..MaxMoves
  /\ link \in [Chains -> Links]
  /\ active \subseteq Chains
  /\ inbox \in [Chains -> Seq(Event)]
  /\ read \in [Chains -> Reading]
  /\ cache \in [Chains -> {Nothing} \cup PoolState]
  /\ market \in BOOLEAN
  /\ venues \subseteq Wallets
  /\ calc \in [pc : {"none", "sleep", "wallet", "dex"}, venues : SUBSET Wallets]
  /\ gas \in BOOLEAN
  /\ boot \in [pending : BOOLEAN, pc : {"idle", "seed", "eval"}, recent : BOOLEAN]
  /\ seed \in [Seeders -> [todo : {SeedOrder, Tail(SeedOrder), <<>>}, got : Reading]]
  /\ owed \subseteq {"swap", "transfer"} \X Chains
  /\ told \in [Chains -> PoolState]
  /\ missed \in [Chains -> BOOLEAN] /\ setBack \in [Chains -> SUBSET {"price", "liquidity"}]

(* schedule_dex_bootstrap, as the value of boot it leaves.                     *)
Scheduled(b) ==
  IF b.pending /\ b.pc = "idle" /\ ~b.recent
    THEN [b EXCEPT !.pc = "seed", !.recent = TRUE]
    ELSE b

(* start() runs after main has tried to read every pool once; an attempt is    *)
(* recent as well while the machine itself is younger than the interval.       *)
Init ==
  /\ running = TRUE
  /\ pool = [c \in Chains |-> [swaps |-> 0, tick |-> 0, liq |-> <<0, 0>>]]
  /\ moves = 0
  /\ link = [c \in Chains |-> "down"]
  /\ active = {}
  /\ inbox = [c \in Chains |-> <<>>]
  /\ read = [c \in Chains |-> Nothing]
  /\ \E cold \in SUBSET Chains :
       cache = [c \in Chains |-> IF c \in cold THEN Nothing ELSE pool[c]]
  /\ market = FALSE
  /\ venues = {}
  /\ calc = NoCalc
  /\ gas = FALSE
  /\ \E young \in BOOLEAN :
       boot = Scheduled([pending |-> TRUE, pc |-> "idle", recent |-> young])
  /\ seed = [s \in Seeders |-> IF s = "boot" /\ boot.pc = "seed" THEN NewSeed ELSE NoSeed]
  /\ owed = {}
  /\ told = pool
  /\ missed = [c \in Chains |-> TRUE]
  /\ setBack = [c \in Chains |-> {}]

-----------------------------------------------------------------------------
(* The chains.                                                               *)

HearsLate(c) == link[c] = "live"

(* The subscriptions stand before the pool is read, so nothing falls between.  *)
Hears(c) == link[c] \in {"subscribed", "refresh", "live"}

Announce(c, event) ==
  inbox' = IF Hears(c) THEN [inbox EXCEPT ![c] = Append(@, event)] ELSE inbox

Swap(c) ==
  /\ running /\ pool[c].swaps < MaxSwaps
  /\ \E t \in Ticks :
       pool' = [pool EXCEPT ![c] = [swaps |-> @.swaps + 1, tick |-> t, liq |-> <<t, @.liq[2]>>]]
  /\ Announce(c, <<"swap", pool'[c]>>)
  /\ told' = [told EXCEPT ![c] = pool'[c]]
  /\ missed' = [missed EXCEPT ![c] = ~Hears(c)]
  /\ UNCHANGED <<running, moves, link, active, read, cache, batch, jobs, owed, setBack>>

(* Liquidity comes or goes, the engine's own position included: no event that  *)
(* anybody has subscribed to.                                                  *)
Mint(c) ==
  /\ running /\ pool[c].liq[2] < MaxMints
  /\ pool' = [pool EXCEPT ![c].liq[2] = @ + 1]
  /\ UNCHANGED <<running, moves, listener, cache, batch, jobs, owed, swapped>>

Transfer(w) ==
  /\ running /\ moves < MaxMoves
  /\ moves' = moves + 1
  /\ Announce(w, <<"transfer">>)
  /\ UNCHANGED <<running, pool, link, active, read, cache, batch, jobs, owed, swapped>>

-----------------------------------------------------------------------------
(* The listener of one chain, and the triggers it pulls.                     *)

Ensured == IF calc.pc = "none" THEN [NoCalc EXCEPT !.pc = "sleep"] ELSE calc

TriggerMarket(c) ==
  /\ market' = TRUE
  /\ calc' = Ensured
  /\ owed' = owed \cup {<<"swap", c>>}
  /\ UNCHANGED venues

TriggerWallet(w) ==
  /\ venues' = venues \cup {w}
  /\ calc' = Ensured
  /\ owed' = owed \cup {<<"transfer", w>>}
  /\ UNCHANGED market

Connect(c) ==
  /\ running /\ link[c] = "down"
  /\ link' = [link EXCEPT ![c] = "handshake"]
  /\ active' = active \cup {c}
  /\ UNCHANGED <<running, pool, moves, inbox, read, cache, batch, jobs, owed, swapped>>

Subscribe(c) ==
  /\ running /\ link[c] = "handshake"
  /\ link' = [link EXCEPT ![c] = "subscribed"]
  /\ UNCHANGED <<running, pool, moves, active, inbox, read, cache, batch, jobs, owed, swapped>>

(* update_single_v4_pool_state. It asks for slot0, then for the liquidity as   *)
(* well unless the tick is the cached one, and writes whatever the listener    *)
(* or another reader has put into the cache meanwhile.                         *)
Answers(r) == {r} \cup (IF "rpc" \in Faults THEN {Failed} ELSE {})

Slot0Answers(c) == Answers([pool[c] EXCEPT !.liq = NoLiq])

AsksLiquidity(r, c) ==
  r \notin {Nothing, Failed} /\ r.liq = NoLiq /\ r.tick # cache[c].tick

LiquidityAnswers(r, c) == Answers([r EXCEPT !.liq = pool[c].liq])

Written(r, c) == IF r.liq = NoLiq THEN [r EXCEPT !.liq = cache[c].liq] ELSE r

(* _refresh_pool_state reads the pool once every subscription is confirmed.    *)
Refresh(c) ==
  /\ running /\ link[c] = "subscribed"
  /\ link' = [link EXCEPT ![c] = "refresh"]
  /\ \E r \in Slot0Answers(c) : read' = [read EXCEPT ![c] = r]
  /\ UNCHANGED <<running, pool, moves, active, inbox, cache, batch, jobs, owed, swapped>>

RefreshLiquidity(c) ==
  /\ running /\ link[c] = "refresh" /\ AsksLiquidity(read[c], c)
  /\ \E r \in LiquidityAnswers(read[c], c) : read' = [read EXCEPT ![c] = r]
  /\ UNCHANGED <<running, pool, moves, link, active, inbox, cache, batch, jobs, owed, swapped>>

(* A refresh that failed leaves the cache as it was, and is not tried again    *)
(* before the next connection.                                                 *)
Refreshed(c) ==
  /\ running /\ link[c] = "refresh" /\ ~AsksLiquidity(read[c], c)
  /\ link' = [link EXCEPT ![c] = "live"]
  /\ IF read[c] = Failed
       THEN UNCHANGED <<read, cache, batch, owed, setBack>>
       ELSE /\ cache' = [cache EXCEPT ![c] = Written(read[c], c)]
            /\ read' = [read EXCEPT ![c] = Nothing]
            /\ setBack' = [setBack EXCEPT ![c] = @ \ {"price"}]
            /\ TriggerMarket(c)
  /\ UNCHANGED <<running, pool, moves, active, inbox, jobs, told, missed>>

(* One event; those that arrive while a later subscription is confirmed are    *)
(* handled there and then. A swap's carries all there is to know of the pool.  *)
Handle(c) ==
  /\ running /\ link[c] \in {"subscribed", "live"}
  /\ inbox[c] # <<>>
  /\ inbox' = [inbox EXCEPT ![c] = Tail(@)]
  /\ LET event == Head(inbox[c]) IN
       IF event[1] = "swap"
         THEN /\ cache' = [cache EXCEPT ![c] = event[2]]
              /\ setBack' = [setBack EXCEPT ![c] = {}]
              /\ TriggerMarket(c)
         ELSE /\ TriggerWallet(c)
              /\ UNCHANGED <<cache, setBack>>
  /\ UNCHANGED <<running, pool, moves, link, active, read, jobs, told, missed>>

Swapped(q) == \E i \in 1..Len(q) : q[i][1] = "swap"

(* The socket closes, a ping goes unanswered, or a subscription is refused.    *)
Lose(c) ==
  /\ "drop" \in Faults
  /\ running /\ link[c] \notin {"off", "down"}
  /\ link' = [link EXCEPT ![c] = "down"]
  /\ active' = active \ {c}
  /\ inbox' = [inbox EXCEPT ![c] = <<>>]
  /\ read' = [read EXCEPT ![c] = Nothing]
  /\ missed' = [missed EXCEPT ![c] = @ \/ Swapped(inbox[c])]
  /\ UNCHANGED <<running, pool, moves, cache, batch, jobs, owed, told, setBack>>

-----------------------------------------------------------------------------
(* on_dex_dex_update, whoever calls it: a cold pool or no gas figure ends in a *)
(* seed of the pools instead of an evaluation of them.                         *)

Warm == \A c \in Chains : cache[c] # Nothing

(* A task of its own for every seed that is asked for. (The depth job starts   *)
(* none while its last one runs: one case of those there are.)                 *)
IdleTasks == {s \in Tasks : seed[s] = NoSeed}

Seeding == IF IdleTasks = {} THEN {seed} ELSE {[seed EXCEPT ![s] = NewSeed] : s \in IdleTasks}

Evaluate ==
  /\ owed' = {n \in owed : n[1] = "transfer"}
  /\ IF gas /\ Warm THEN seed' = seed ELSE seed' \in Seeding

(* seed_dex_pool_states: the two pools in turn, each read and then written.    *)
Reads(s, r) == seed' = [seed EXCEPT ![s].got = r]

SeedSlot0(s) ==
  /\ running /\ seed[s].todo # <<>> /\ seed[s].got = Nothing
  /\ \E r \in Slot0Answers(Head(seed[s].todo)) : Reads(s, r)
  /\ UNCHANGED <<running, pool, moves, listener, cache, batch, gas, boot, owed, swapped>>

SeedLiquidity(s) ==
  /\ running
  /\ LET c == Head(seed[s].todo) got == seed[s].got IN
       /\ AsksLiquidity(got, c)
       /\ \E r \in LiquidityAnswers(got, c) : Reads(s, r)
  /\ UNCHANGED <<running, pool, moves, listener, cache, batch, gas, boot, owed, swapped>>

SeedWriteUnread(s) ==
  /\ running /\ seed[s].got # Nothing
  /\ cache' = [cache EXCEPT ![Head(seed[s].todo)] = seed[s].got]
  /\ seed' = [seed EXCEPT ![s] = [todo |-> Tail(@.todo), got |-> Nothing]]
  /\ UNCHANGED <<running, pool, moves, listener, batch, gas, boot, owed, swapped>>

SeedWrite(s) ==
  /\ running /\ seed[s].got # Nothing
  /\ LET c == Head(seed[s].todo) r == seed[s].got IN
       /\ ~AsksLiquidity(r, c)
       /\ IF r = Failed
            THEN UNCHANGED <<cache, setBack>>
            ELSE /\ cache' = [cache EXCEPT ![c] = Written(r, c)]
                 /\ setBack' = [setBack EXCEPT ![c] =
                                  IF r.swaps < cache[c].swaps THEN {"price", "liquidity"}
                                  ELSE IF r.swaps = pool[c].swaps THEN @ \ {"price"}
                                  ELSE @]
  /\ seed' = [seed EXCEPT ![s] = [todo |-> Tail(@.todo), got |-> Nothing]]
  /\ UNCHANGED <<running, pool, moves, listener, batch, gas, boot, owed, told, missed>>

-----------------------------------------------------------------------------
(* _delayed_calculation: sleep, take everything pending, run the handlers, and *)
(* go round again if something came in meanwhile.                              *)

CalcAt(pc) == running /\ calc.pc = pc

WakeForMarket ==
  /\ CalcAt("sleep")
  /\ calc' = IF ~market
               THEN NoCalc
               ELSE [NoCalc EXCEPT !.pc = IF venues # {} THEN "wallet" ELSE "dex",
                                   !.venues = venues]
  /\ market' = FALSE
  /\ venues' = {}
  /\ UNCHANGED <<running, pool, moves, listener, cache, jobs, owed, swapped>>

(* update_price, which comes first after a market update, changes nothing      *)
(* here and answers for its own errors.                                        *)
Wake ==
  /\ CalcAt("sleep")
  /\ calc' = IF ~market /\ venues = {}
               THEN NoCalc
               ELSE [NoCalc EXCEPT !.pc = IF venues # {} THEN "wallet" ELSE "dex",
                                   !.venues = venues]
  /\ market' = FALSE
  /\ venues' = {}
  /\ UNCHANGED <<running, pool, moves, listener, cache, jobs, owed, swapped>>

WalletActivity ==
  /\ CalcAt("wallet")
  /\ owed' = owed \ {<<"transfer", w>> : w \in calc.venues}
  /\ calc' = [NoCalc EXCEPT !.pc = "dex"]
  /\ UNCHANGED <<running, pool, moves, listener, cache, market, venues, jobs, swapped>>

RoundLeaving ==
  IF market THEN [NoCalc EXCEPT !.pc = "sleep"] ELSE NoCalc

(* An error of the engine is logged, and the batch is not put back.            *)
Round == IF market \/ venues # {} THEN [NoCalc EXCEPT !.pc = "sleep"] ELSE NoCalc

DexEvent ==
  /\ CalcAt("dex")
  /\ Evaluate
  /\ calc' = Round
  /\ UNCHANGED <<running, pool, moves, listener, cache, market, venues, gas, boot, swapped>>

-----------------------------------------------------------------------------
(* The scheduler's jobs.                                                     *)

(* stream_dex_arb_curve: only while a chain has no connection.                 *)
Fallback ==
  /\ running /\ active # Chains
  /\ Evaluate
  /\ UNCHANGED <<running, pool, moves, listener, cache, batch, gas, boot, swapped>>

(* on_cex_dex_depth of either venue: no signal ends in a seed of the pools.    *)
DepthTick ==
  /\ running
  /\ ~(gas /\ Warm)
  /\ seed' \in Seeding
  /\ UNCHANGED <<running, pool, moves, listener, cache, batch, gas, boot, owed, swapped>>

(* update_gas_oracle, by its job: a fetch that succeeds schedules the          *)
(* bootstrap, one that fails leaves everything as it was.                      *)
SeedOf(b) ==
  IF b.pc = "seed" /\ boot.pc # "seed" THEN [seed EXCEPT !["boot"] = NewSeed] ELSE seed

GasJobForgets ==
  /\ running
  /\ gas' = TRUE
  /\ UNCHANGED <<running, pool, moves, listener, cache, batch, boot, seed, owed, swapped>>

GasJob ==
  /\ running
  /\ gas' = TRUE
  /\ boot' = Scheduled(boot)
  /\ seed' = SeedOf(boot')
  /\ UNCHANGED <<running, pool, moves, listener, cache, batch, owed, swapped>>

(* Figures older than five minutes are not used.                               *)
GasAges ==
  /\ "gas" \in Faults
  /\ running /\ gas
  /\ gas' = FALSE
  /\ UNCHANGED <<running, pool, moves, listener, cache, batch, boot, seed, owed, swapped>>

(* _BOOTSTRAP_RETRY_INTERVAL passes.                                           *)
RetryAllowed ==
  /\ running /\ boot.recent
  /\ boot' = [boot EXCEPT !.recent = FALSE]
  /\ UNCHANGED <<running, pool, moves, listener, cache, batch, gas, seed, owed, swapped>>

(* bootstrap_dex_arb_curve, once the pools were read: its own gas update, and  *)
(* no evaluation without a figure.                                             *)
BootGas ==
  /\ running /\ boot.pc = "seed" /\ seed["boot"] = NoSeed
  /\ gas' \in IF "gas" \in Faults THEN {gas, TRUE} ELSE {TRUE}
  /\ boot' = [boot EXCEPT !.pc = IF gas' THEN "eval" ELSE "idle"]
  /\ UNCHANGED <<running, pool, moves, listener, cache, batch, seed, owed, swapped>>

BootEvaluate ==
  /\ running /\ boot.pc = "eval"
  /\ Evaluate
  /\ \/ boot' = [boot EXCEPT !.pc = "idle", !.pending = FALSE]
     \/ "store" \in Faults /\ gas /\ Warm /\ boot' = [boot EXCEPT !.pc = "idle"]
  /\ UNCHANGED <<running, pool, moves, listener, cache, batch, gas, swapped>>

(* stop() cancels the tasks; what they had pending and the names of the live   *)
(* connections stay as they are.                                               *)
Stop ==
  /\ "stop" \in Faults
  /\ running /\ running' = FALSE
  /\ link' = [c \in Chains |-> "off"]
  /\ inbox' = [c \in Chains |-> <<>>]
  /\ calc' = NoCalc
  /\ UNCHANGED <<pool, moves, active, read, cache, market, venues, jobs, owed, swapped>>

-----------------------------------------------------------------------------
Listen(c) ==
  \/ Connect(c) \/ Subscribe(c) \/ Handle(c)
  \/ Refresh(c) \/ RefreshLiquidity(c) \/ Refreshed(c)

Calculate == Wake \/ WalletActivity \/ DexEvent

Seed(s) == SeedSlot0(s) \/ SeedLiquidity(s) \/ SeedWrite(s)

Next ==
  \/ \E c \in Chains : Swap(c) \/ Mint(c) \/ Listen(c) \/ Lose(c)
  \/ \E w \in Wallets : Transfer(w)
  \/ Calculate
  \/ \E s \in Seeders : Seed(s)
  \/ Fallback \/ DepthTick
  \/ GasJob \/ GasAges \/ RetryAllowed \/ BootGas \/ BootEvaluate
  \/ Stop

Spec == Init /\ [][Next]_vars

-----------------------------------------------------------------------------
(* Nothing pending is left without a coroutine that will take it: an event     *)
(* that arrives while a batch is being worked on waits for the next round, and *)
(* one that arrives as a round ends starts another.                            *)
NoLostWakeup == running /\ (market \/ venues # {}) => calc.pc # "none"

(* Once a chain is live and its events are read, the cached price is the       *)
(* pool's, and where the last swap was heard of the liquidity is that of its   *)
(* tick and lacks nothing minted before it: the subscription stands before     *)
(* the pool is read, and an event carries everything. Two things only leave an *)
(* older price: a seed that read before and wrote after an event, and a        *)
(* refresh that failed, until the next swap.                                   *)
LiveMeansCurrent ==
  \A c \in Chains : link[c] = "live" /\ inbox[c] = <<>> =>
    \/ /\ cache[c].swaps = pool[c].swaps
       /\ \/ /\ cache[c].liq[1] = pool[c].tick
             /\ cache[c].liq[2] >= told[c].liq[2]
          \/ missed[c]
          \/ "liquidity" \in setBack[c]
    \/ "price" \in setBack[c]
    \/ read[c] = Failed /\ missed[c]

(* Every swap and every refresh is followed by an evaluation of the pools, and *)
(* every transfer by a refresh of its wallet, also when it comes while a batch *)
(* is under way.                                                               *)
NewsIsHandled ==
  \A n \in {"swap", "transfer"} \X Chains : n \in owed ~> (n \notin owed \/ ~running)

(* The bootstrap is retried until it has run once, however often its gas       *)
(* figures or its writes fail and however young the machine is at the start.   *)
BootstrapCompletes == <>(~boot.pending \/ ~running)

=============================================================================
