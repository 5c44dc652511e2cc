---------------------------- MODULE ArbExecution ----------------------------
(***************************************************************************)
(* Execution and recovery of arbitrage trades: engine/arb/engine.py,       *)
(* engine/arb/execution/route_execution.py and recovery.py, with the rows  *)
(* of arb_attempts they write (engine/db/queries/arbitrage.py) and the     *)
(* circuit breaker of engine/arb/risk/inventory.py.                        *)
(*                                                                         *)
(* One asyncio loop runs the detection ticks, at most one execution or     *)
(* recovery task (the flag _arb_executing), and the operator's commands;   *)
(* a step of this module is what runs between two awaits.  The venues and  *)
(* chains are the environment: a leg may land, revert, stay in flight after*)
(* the call that placed it has returned, or be dropped.                    *)
(***************************************************************************)
EXTENDS Naturals, FiniteSets

CONSTANTS
  Opps,         \* opportunity ids (uuid4 in the code)
  Hash,         \* transaction hashes and venue trade ids
  Directions,   \* the registered directions this instance trades
  MaxFailures,  \* params.max_consecutive_failures
  Faults,       \* environment behaviours switched on, see FaultKinds
  NoOpp, NoHash

(* What the environment may do beyond answering every call in time:        *)
(*  store            a write to SQLite raises and is not applied           *)
(*  crash            the process dies and is started again                 *)
(*  rollover         midnight UTC passes                                   *)
(*  pending_buy      a buy leg returns before its outcome is known         *)
(*  pending_recovery a leg placed by /recover returns before it is known   *)
(*  untracked        strails accepts an order and never names its trade id *)
(*  drop             a transaction in flight leaves the mempool for good   *)
(*  lost_response    a leg takes effect although its call reports failure  *)
(*  unfilled         Quidax reports success for an order it only accepted  *)
(*  unrecorded       a DEX-DEX trade is spawned below the recording floor  *)
FaultKinds == {"store", "crash", "rollover", "pending_buy", "pending_recovery",
               "untracked", "drop", "lost_response", "unfilled", "unrecorded"}

ApiVenues   == {"quidax", "strails"}
ChainVenues == {"uni-base", "uni-bsc"}

TradeRoute(b, s) == [buy |-> b, sell |-> s]

ROUTES ==
  [QUIDAX_TO_UNI_BSC                 |-> TradeRoute("quidax", "uni-bsc"),
   QUIDAX_TO_UNI_BASE                |-> TradeRoute("quidax", "uni-base"),
   UNI_BSC_TO_QUIDAX                 |-> TradeRoute("uni-bsc", "quidax"),
   UNI_BASE_TO_QUIDAX                |-> TradeRoute("uni-base", "quidax"),
   STRAILS_TO_UNI_BASE               |-> TradeRoute("strails", "uni-base"),
   UNI_BASE_TO_STRAILS               |-> TradeRoute("uni-base", "strails"),
   UNI_BSC_TO_UNI_BASE_DELTA_BALANCE |-> TradeRoute("uni-bsc", "uni-base"),
   UNI_BASE_TO_UNI_BSC_DELTA_BALANCE |-> TradeRoute("uni-base", "uni-bsc")]

ASSUME ConstantsAssumption ==
  /\ Directions \subseteq DOMAIN ROUTES
  /\ Faults \subseteq FaultKinds
  /\ MaxFailures \in Nat \ {0}
  /\ NoOpp \notin Opps
  /\ NoHash \notin Hash

Pipelines   == {"cex_dex", "dex_dex"}
pipeline(d) == IF {ROUTES[d].buy, ROUTES[d].sell} \subseteq ChainVenues
                 THEN "dex_dex" ELSE "cex_dex"

VARIABLES
  db,        \* arb_attempts: one row per opportunity
  tx,        \* what each placed leg has come to, whoever knows it
  task,      \* the coroutine working on each opportunity
  executing, \* engine._arb_executing
  armed,     \* pipelines with _enabled and execute_*_enabled set
  breaker,   \* inventory circuit_breaker_active
  failures,  \* inventory consecutive_failures, capped at MaxFailures
  ack        \* ghost: opportunities open when an operator reset the breaker

vars == <<db, tx, task, executing, armed, breaker, failures, ack>>
risk == <<breaker, failures>>

-----------------------------------------------------------------------------
(* Rows, legs and tasks.                                                   *)

Statuses == {"none", "detected", "executing", "buy_filled", "half_open",
             "completed", "abandoned", "expired"}
ActiveWithHalfOpen == {"detected", "executing", "half_open"}
Active      == {"detected", "executing"}
Recoverable(d) == IF pipeline(d) = "dex_dex" THEN {"buy_filled", "half_open"}
                                             ELSE {"half_open"}

Row == [status : Statuses, dir : Directions \cup {"none"}, buyAmt : BOOLEAN,
        buyTx : Hash \cup {NoHash}, sellTx : Hash \cup {NoHash}]

NoRow == [status |-> "none", dir |-> "none", buyAmt |-> FALSE,
          buyTx |-> NoHash, sellTx |-> NoHash]

Leg  == [opp : Opps \cup {NoOpp}, leg : {"buy", "sell", "none"},
         state : {"unused", "inflight", "landed", "reverted", "dropped"}]
NoLeg == [opp |-> NoOpp, leg |-> "none", state |-> "unused"]

FreshHash == {h \in Hash : tx[h].state = "unused"}
Live(h)   == tx[h].state \in {"inflight", "landed"}

LiveLegs(o, l) == {h \in Hash : tx[h].opp = o /\ tx[h].leg = l /\ Live(h)}

Exposed(o) == LiveLegs(o, "buy") # {} /\ LiveLegs(o, "sell") = {}
Open(o)    == LiveLegs(o, "buy") # {} /\ db[o].status # "completed"

ExecSteps    == {"spawned", "mark", "buy", "buyfail", "filled", "sell", "done",
                 "half", "fail"}
RecoverSteps == {"r_gate", "r_retry", "r_reverse", "r_done", "r_failed"}

(* "insert" is a detection tick that found no active row and is awaiting   *)
(* the insert of its new one; it does not hold the flag.                   *)
Task == [pc : ExecSteps \cup RecoverSteps \cup {"idle", "insert"},
         dir : Directions \cup {"none"}, buy : {"none", "ok", "pending"},
         buyRef : Hash \cup {NoHash}, sellRef : Hash \cup {NoHash}]

NoTask == [pc |-> "idle", dir |-> "none", buy |-> "none",
           buyRef |-> NoHash, sellRef |-> NoHash]

Trading(o) == task[o].pc \in ExecSteps \cup RecoverSteps

Fresh(o) == /\ db[o] = NoRow
            /\ task[o] = NoTask
            /\ \A h \in Hash : tx[h].opp # o

Init ==
  /\ db = [o \in Opps |-> NoRow]
  /\ tx = [h \in Hash |-> NoLeg]
  /\ task = [o \in Opps |-> NoTask]
  /\ executing = FALSE
  /\ armed = Pipelines
  /\ breaker = FALSE
  /\ failures = 0
  /\ ack = {}

-----------------------------------------------------------------------------
(* The breaker of InventoryTracker.                                        *)

Bump(n) == IF n < MaxFailures THEN n + 1 ELSE MaxFailures

(* record_trade_failure: the breaker trips at max_consecutive_failures.    *)
RecordFailure ==
  /\ failures' = Bump(failures)
  /\ breaker' = (breaker \/ Bump(failures) = MaxFailures)

RecordCompleteDecays ==
  /\ failures' \in {failures - 1, failures}
  /\ breaker' \in {breaker, TRUE}

(* record_trade_complete: a profit clears the failure count, and the daily *)
(* loss, which this module does not count, may trip the breaker.           *)
RecordComplete ==
  /\ failures' \in {0, failures}
  /\ breaker' \in {breaker, TRUE}

TripSkipped == RecordFailure

(* trip_circuit_breaker followed by record_trade_failure.                  *)
TripAndRecord ==
  /\ failures' = Bump(failures)
  /\ breaker' = TRUE

-----------------------------------------------------------------------------
(* Writes.  An UPDATE of an id that has no row changes nothing, and a      *)
(* field passed as None keeps the value it had.                            *)

Keep(new, old) == IF new = NoHash THEN old ELSE new

Update(o, row) == db' = [db EXCEPT ![o] = IF @.status = "none" THEN @ ELSE row]

SetStatus(o, s) == Update(o, [db[o] EXCEPT !.status = s])

StoreFails == "store" \in Faults /\ UNCHANGED db

Goto(o, step) == task' = [task EXCEPT ![o].pc = step]

ReleaseWithoutFlag(o) ==
  /\ task' = [task EXCEPT ![o] = NoTask]
  /\ UNCHANGED executing

(* The finally clause that ends every execution and every recovery.        *)
Release(o) ==
  /\ task' = [task EXCEPT ![o] = NoTask]
  /\ executing' = FALSE

-----------------------------------------------------------------------------
(* One leg: what the call reports (status, whether it names a hash) and    *)
(* what has become of the trade by then.                                   *)

Outcome(status, ref, fate) == [status |-> status, ref |-> ref, fate |-> fate]

Outcomes(venue, mayPend) ==
  {Outcome("raised", FALSE, "none"), Outcome("failed", FALSE, "none")}
  \cup (IF venue = "quidax"
          THEN {Outcome("ok", FALSE, "landed")}
          ELSE {Outcome("ok", TRUE, "landed"), Outcome("failed", TRUE, "reverted")})
  \cup {x \in {Outcome("pending", TRUE, "inflight")} : mayPend /\ venue # "quidax"}
  \cup {x \in {Outcome("pending", FALSE, "inflight")} :
          "untracked" \in Faults /\ venue = "strails"}
  \cup {x \in {Outcome("ok", FALSE, "inflight")} : "unfilled" \in Faults /\ venue = "quidax"}
  \cup {x \in {Outcome("failed", FALSE, "inflight")} : "lost_response" \in Faults}
  \cup {x \in {Outcome("raised", FALSE, "inflight")} :
          "store" \in Faults /\ venue \in ApiVenues}

(* h is the hash the venue gave the trade, NoHash when there is none.      *)
Place(o, leg, out, h) ==
  IF out.fate = "none"
    THEN h = NoHash /\ UNCHANGED tx
    ELSE /\ h \in FreshHash
         /\ tx' = [tx EXCEPT ![h] = [opp |-> o, leg |-> leg, state |-> out.fate]]

Ref(out, h) == IF out.ref THEN h ELSE NoHash

-----------------------------------------------------------------------------
(* Detection ticks.                                                        *)

CanSpawn(p) == ~executing /\ p \in armed /\ ~breaker

SpawnUnclaimed(o, d) ==
  /\ CanSpawn(pipeline(d))
  /\ task' = [task EXCEPT ![o] = [NoTask EXCEPT !.pc = "spawned", !.dir = d]]
  /\ UNCHANGED executing

(* The flag is claimed where the task is created, before its body runs.    *)
Spawn(o, d) ==
  /\ CanSpawn(pipeline(d))
  /\ executing' = TRUE
  /\ task' = [task EXCEPT ![o] = [NoTask EXCEPT !.pc = "spawned", !.dir = d]]

NoSpawn == UNCHANGED <<executing, task>>

CexTick(d) ==
  /\ pipeline(d) = "cex_dex"
  /\ \E o \in Opps : Fresh(o) /\ Spawn(o, d)
  /\ UNCHANGED <<db, tx, armed, risk, ack>>

DexRows(rows, d) == {o \in Opps : rows[o].status \in Active /\ rows[o].dir = d}

(* on_dex_dex_update up to its first wait on the store that another tick   *)
(* can overtake: rows older than a minute expire, then the active row of   *)
(* the direction is reused, or a new one is on its way.                    *)
DexTick(d) ==
  /\ pipeline(d) = "dex_dex"
  /\ \E old \in SUBSET {o \in Opps : db[o].status \in Active
                                        /\ pipeline(db[o].dir) = "dex_dex"} :
       db' = [o \in Opps |-> IF o \in old THEN [db[o] EXCEPT !.status = "expired"]
                                          ELSE db[o]]
  /\ \/ \E o \in DexRows(db', d) : NoSpawn \/ Spawn(o, d)
     \/ /\ DexRows(db', d) = {}
        /\ \E o \in Opps :
             /\ Fresh(o)
             /\ task' = [task EXCEPT ![o] = [NoTask EXCEPT !.pc = "insert", !.dir = d]]
        /\ UNCHANGED executing
  /\ UNCHANGED <<tx, armed, risk, ack>>

(* The insert has been awaited; the same tick goes on to the flag.         *)
DexInsert(o) ==
  /\ task[o].pc = "insert"
  /\ \/ /\ db' = [db EXCEPT ![o] = [NoRow EXCEPT !.status = "detected", !.dir = task[o].dir]]
        /\ \/ Spawn(o, task[o].dir)
           \/ task' = [task EXCEPT ![o] = NoTask] /\ UNCHANGED executing
     \/ StoreFails /\ task' = [task EXCEPT ![o] = NoTask] /\ UNCHANGED executing
  /\ UNCHANGED <<tx, armed, risk, ack>>

(* A profit under settings.arbitrage_min_profit_usd is not recorded, but   *)
(* is traded when params.min_profit_usd has been set lower still.          *)
DexTickUnrecorded(d) ==
  /\ "unrecorded" \in Faults
  /\ pipeline(d) = "dex_dex"
  /\ \E o \in Opps : Fresh(o) /\ Spawn(o, d)
  /\ UNCHANGED <<db, tx, armed, risk, ack>>

-----------------------------------------------------------------------------
(* execute_route.                                                          *)

(* Simulations on the legs that are on chain.  A refusal leaves a CEX-DEX  *)
(* trade without a row; a paused pool trips the breaker.                   *)
Preflight(o) ==
  /\ task[o].pc = "spawned"
  /\ \/ Goto(o, "mark") /\ UNCHANGED <<db, executing, breaker>>
     \/ /\ Goto(o, "fail")
        /\ UNCHANGED <<db, executing>>
        /\ breaker' \in {breaker, breaker \/ "store" \in Faults}
     \/ Release(o) /\ UNCHANGED <<db, breaker>>
     \/ Release(o) /\ SetStatus(o, "abandoned") /\ breaker' \in {breaker, TRUE}
  /\ UNCHANGED <<tx, armed, failures, ack>>

Mark(o) ==
  /\ task[o].pc = "mark"
  /\ \/ /\ IF pipeline(task[o].dir) = "cex_dex"
             THEN db' = [db EXCEPT ![o] = [NoRow EXCEPT !.status = "executing",
                                                        !.dir = task[o].dir]]
             ELSE SetStatus(o, "executing")
        /\ Goto(o, "buy")
     \/ StoreFails /\ Goto(o, "fail")
  /\ UNCHANGED <<tx, executing, armed, risk, ack>>

AfterBuyPendingIsFailed(d, status) ==
  CASE status = "raised" -> "fail"
    [] status \in {"failed", "pending"} -> "buyfail"
    [] status = "ok" -> IF pipeline(d) = "dex_dex" THEN "filled" ELSE "sell"

AfterBuy(d, status) ==
  CASE status = "raised"  -> "fail"
    [] status = "failed"  -> "buyfail"
    [] status \in {"ok", "pending"} /\ pipeline(d) = "dex_dex" -> "filled"
    [] status = "pending" /\ pipeline(d) = "cex_dex" -> "half"
    [] OTHER              -> "sell"

Buy(o) ==
  /\ task[o].pc = "buy"
  /\ \E out \in Outcomes(ROUTES[task[o].dir].buy, "pending_buy" \in Faults),
        h \in FreshHash \cup {NoHash} :
       /\ Place(o, "buy", out, h)
       /\ task' = [task EXCEPT
                     ![o].pc = AfterBuy(task[o].dir, out.status),
                     ![o].buy = IF out.status \in {"ok", "pending"} THEN out.status ELSE "none",
                     ![o].buyRef = IF out.status \in {"ok", "pending"} THEN Ref(out, h)
                                                                       ELSE NoHash]
  /\ UNCHANGED <<db, executing, armed, risk, ack>>

(* A DEX-DEX row keeps its status: the sweep asked for here is of rows     *)
(* older than the epoch.  A store error runs the except handler as well.   *)
BuyFailed(o) ==
  /\ task[o].pc = "buyfail"
  /\ RecordFailure
  /\ \/ /\ IF pipeline(task[o].dir) = "cex_dex" THEN SetStatus(o, "abandoned")
                                                ELSE UNCHANGED db
        /\ Release(o)
     \/ StoreFails /\ Goto(o, "fail") /\ UNCHANGED executing
  /\ UNCHANGED <<tx, armed, ack>>

BuyFilledWithoutAmount(o) ==
  /\ task[o].pc = "filled"
  /\ Update(o, [db[o] EXCEPT !.status = "buy_filled", !.buyTx = Keep(task[o].buyRef, @)])
  /\ Goto(o, IF task[o].buy = "pending" THEN "half" ELSE "sell")
  /\ UNCHANGED <<tx, executing, armed, risk, ack>>

BuyFilled(o) ==
  /\ task[o].pc = "filled"
  /\ \/ /\ Update(o, [db[o] EXCEPT !.status = "buy_filled", !.buyAmt = TRUE,
                                   !.buyTx = Keep(task[o].buyRef, @)])
        /\ Goto(o, IF task[o].buy = "pending" THEN "half" ELSE "sell")
     \/ StoreFails /\ Goto(o, "half")
  /\ UNCHANGED <<tx, executing, armed, risk, ack>>

(* sell_tx_hash reaches the handler only from a leg that returned.         *)
Sell(o) ==
  /\ task[o].pc = "sell"
  /\ \E out \in Outcomes(ROUTES[task[o].dir].sell, TRUE), h \in FreshHash \cup {NoHash} :
       /\ Place(o, "sell", out, h)
       /\ task' = [task EXCEPT ![o].pc = IF out.status = "ok" THEN "done" ELSE "half",
                               ![o].sellRef = Ref(out, h)]
  /\ UNCHANGED <<db, executing, armed, risk, ack>>

Completed(o) ==
  Update(o, IF pipeline(task[o].dir) = "cex_dex"
              THEN [db[o] EXCEPT !.status = "completed"]
              ELSE [db[o] EXCEPT !.status = "completed",
                                 !.buyTx = Keep(task[o].buyRef, @),
                                 !.sellTx = Keep(task[o].sellRef, @)])

Complete(o) ==
  /\ task[o].pc = "done"
  /\ \/ Completed(o) /\ RecordComplete /\ Release(o)
     \/ /\ StoreFails
        /\ task' = [task EXCEPT ![o].pc = "half", ![o].sellRef = NoHash]
        /\ UNCHANGED <<executing, risk>>
  /\ UNCHANGED <<tx, armed, ack>>

(* The except handler once a buy is live: the row, then the breaker.  An   *)
(* error in the write leaves the handler before the breaker is tripped.    *)
HalfOpen(o) ==
  /\ task[o].pc = "half"
  /\ \/ /\ Update(o, [db[o] EXCEPT !.status = "half_open",
                                   !.buyAmt = @ \/ pipeline(task[o].dir) = "cex_dex",
                                   !.buyTx = Keep(task[o].buyRef, @),
                                   !.sellTx = Keep(task[o].sellRef, @)])
        /\ TripAndRecord
     \/ StoreFails /\ UNCHANGED risk
  /\ Release(o)
  /\ UNCHANGED <<tx, armed, ack>>

(* The except handler when no buy is known to be live.                     *)
Fail(o) ==
  /\ task[o].pc = "fail"
  /\ RecordFailure
  /\ SetStatus(o, "abandoned") \/ StoreFails
  /\ Release(o)
  /\ UNCHANGED <<tx, armed, ack>>

ExecStep(o) == \/ Preflight(o) \/ Mark(o) \/ Buy(o) \/ BuyFailed(o) \/ BuyFilled(o)
               \/ Sell(o) \/ Complete(o) \/ HalfOpen(o) \/ Fail(o)

-----------------------------------------------------------------------------
(* recover_dex_half_open and recover_cex_half_open.                        *)

AfterGate(d) == IF pipeline(d) = "dex_dex" THEN "r_retry" ELSE "r_reverse"

Recover(o) ==
  /\ ~executing
  /\ db[o].status # "none" /\ db[o].status \in Recoverable(db[o].dir)
  /\ db[o].buyAmt
  /\ executing' = TRUE
  /\ task' = [task EXCEPT ![o] =
                [NoTask EXCEPT !.dir = db[o].dir,
                   !.pc = IF db[o].sellTx = NoHash THEN AfterGate(db[o].dir) ELSE "r_gate"]]
  /\ UNCHANGED <<db, tx, armed, risk, ack>>

ResolveIgnoringInflight(o) ==
  /\ task[o].pc = "r_gate"
  /\ Goto(o, AfterGate(task[o].dir))
  /\ UNCHANGED <<db, tx, executing, armed, risk, ack>>

ResolveLandedOnly(o) ==
  /\ task[o].pc = "r_gate"
  /\ IF tx[db[o].sellTx].state = "landed"
       THEN /\ task' = [task EXCEPT ![o].pc = "r_done", ![o].sellRef = db[o].sellTx]
            /\ UNCHANGED executing
       ELSE Release(o)
  /\ UNCHANGED <<db, tx, armed, risk, ack>>

(* A recorded sell is looked up before anything else is sold.  The command *)
(* is refused while its outcome is unknown or unreadable.                  *)
ResolveRecordedSell(o) ==
  /\ task[o].pc = "r_gate"
  /\ \/ Release(o)
     \/ /\ tx[db[o].sellTx].state = "landed"
        /\ task' = [task EXCEPT ![o].pc = "r_done", ![o].sellRef = db[o].sellTx]
        /\ UNCHANGED executing
     \/ /\ tx[db[o].sellTx].state = "reverted"
        /\ Goto(o, AfterGate(task[o].dir))
        /\ UNCHANGED executing
  /\ UNCHANGED <<db, tx, armed, risk, ack>>

RecoveryLegIgnoringStatus(o, venue, onFailure) ==
  \E out \in Outcomes(venue, "pending_recovery" \in Faults), h \in FreshHash \cup {NoHash} :
    /\ Place(o, "sell", out, h)
    /\ task' = [task EXCEPT ![o].pc = "r_done", ![o].sellRef = Ref(out, h)]
    /\ UNCHANGED executing

(* A leg of a recovery counts as done unless it reports failure; one that  *)
(* raises leaves the command with the row as it was.                       *)
RecoveryLeg(o, venue, onFailure) ==
  \E out \in Outcomes(venue, "pending_recovery" \in Faults), h \in FreshHash \cup {NoHash} :
    /\ Place(o, "sell", out, h)
    /\ IF out.status = "raised"
         THEN Release(o)
         ELSE /\ task' = [task EXCEPT
                            ![o].pc = IF out.status = "failed" THEN onFailure ELSE "r_done",
                            ![o].sellRef = Ref(out, h)]
              /\ UNCHANGED executing

RetrySell(o) ==
  /\ task[o].pc = "r_retry"
  /\ \/ RecoveryLeg(o, ROUTES[task[o].dir].sell, "r_reverse")
     \/ Goto(o, "r_reverse") /\ UNCHANGED <<tx, executing>>
  /\ UNCHANGED <<db, armed, risk, ack>>

ReverseBuy(o) ==
  /\ task[o].pc = "r_reverse"
  /\ RecoveryLeg(o, ROUTES[task[o].dir].buy, "r_failed")
  /\ UNCHANGED <<db, armed, risk, ack>>

RecoveryComplete(o) ==
  /\ task[o].pc = "r_done"
  /\ \/ Completed(o) /\ RecordComplete
     \/ StoreFails /\ UNCHANGED risk
  /\ Release(o)
  /\ UNCHANGED <<tx, armed, ack>>

(* Only the DEX-DEX command trips the breaker again.                       *)
RecoveryFailed(o) ==
  /\ task[o].pc = "r_failed"
  /\ \/ /\ SetStatus(o, "half_open")
        /\ IF pipeline(task[o].dir) = "dex_dex" THEN TripAndRecord ELSE UNCHANGED risk
     \/ StoreFails /\ UNCHANGED risk
  /\ Release(o)
  /\ UNCHANGED <<tx, armed, ack>>

RecoverStep(o) == \/ ResolveRecordedSell(o) \/ RetrySell(o) \/ ReverseBuy(o)
                  \/ RecoveryComplete(o) \/ RecoveryFailed(o)

-----------------------------------------------------------------------------
(* The operator, the clock, the chain and the process.                     *)

SetArmed(ps) ==
  /\ armed' = ps
  /\ UNCHANGED <<db, tx, task, executing, risk, ack>>

ResetBreaker ==
  /\ breaker' = FALSE
  /\ failures' = 0
  /\ ack' = ack \cup {o \in Opps : Open(o) /\ task[o].pc \notin ExecSteps}
  /\ UNCHANGED <<db, tx, task, executing, armed>>

(* _reset_daily_if_needed clears the failures only with an active breaker. *)
Rollover ==
  /\ "rollover" \in Faults
  /\ breaker
  /\ breaker' = FALSE
  /\ failures' = 0
  /\ UNCHANGED <<db, tx, task, executing, armed, ack>>

(* A leg that was left in flight comes to an end.                          *)
Ends == {"landed", "reverted"} \cup (IF "drop" \in Faults THEN {"dropped"} ELSE {})

Resolve(h) ==
  /\ tx[h].state = "inflight"
  /\ \E end \in Ends : tx' = [tx EXCEPT ![h].state = end]
  /\ UNCHANGED <<db, task, executing, armed, risk, ack>>

(* Only the database and the chains survive; nothing sweeps the rows.      *)
Crash ==
  /\ "crash" \in Faults
  /\ task' = [o \in Opps |-> NoTask]
  /\ executing' = FALSE
  /\ armed' = Pipelines
  /\ breaker' = FALSE
  /\ failures' = 0
  /\ UNCHANGED <<db, tx, ack>>

Next ==
  \/ \E d \in Directions : CexTick(d) \/ DexTick(d) \/ DexTickUnrecorded(d)
  \/ \E o \in Opps : DexInsert(o) \/ ExecStep(o) \/ Recover(o) \/ RecoverStep(o)
  \/ \E ps \in SUBSET Pipelines : SetArmed(ps)
  \/ ResetBreaker \/ Rollover \/ Crash
  \/ \E h \in Hash : Resolve(h)

Spec == Init /\ [][Next]_vars

(* The loop runs every task that is ready; nothing is owed by the venues   *)
(* or the operator.                                                        *)
FairSpec == Spec /\ \A o \in Opps : WF_vars(DexInsert(o) \/ ExecStep(o) \/ RecoverStep(o))

(* An operator who keeps sending /recover, and venues that answer and fill *)
(* an order again sooner or later: what a half-open trade waits for.       *)
AttendedSpec ==
  /\ FairSpec
  /\ \A h \in Hash : WF_vars(Resolve(h))
  /\ \A o \in Opps :
       /\ SF_vars(Recover(o))
       /\ SF_vars(ResolveRecordedSell(o) /\ task'[o] # NoTask)
       /\ SF_vars((RetrySell(o) \/ ReverseBuy(o)) /\ task'[o].pc = "r_done")

-----------------------------------------------------------------------------
(* Properties.                                                             *)

TypeOK ==
  /\ db \in [Opps -> Row]
  /\ tx \in [Hash -> Leg]
  /\ task \in [Opps -> Task]
  /\ executing \in BOOLEAN
  /\ armed \subseteq Pipelines
  /\ breaker \in BOOLEAN
  /\ failures \in 0..MaxFailures
  /\ ack \subseteq Opps

(* The serialization flag does what its comments say: at most one          *)
(* execution or recovery is under way, and the flag is up exactly while    *)
(* one is, whatever ticks, commands and failures come in between.          *)
OneAtATime ==
  /\ \A p, q \in Opps : Trading(p) /\ Trading(q) => p = q
  /\ executing <=> \E o \in Opps : Trading(o)

(* No opportunity is sold twice: of the sell, the retry and the reversal   *)
(* of one trade at most one can take effect, even while an earlier one is  *)
(* still in flight (the recovery gate of recovery.py).                     *)
SoldOnce ==
  \A o \in Opps : \A g, h \in LiveLegs(o, "sell") : g = h

(* An opportunity is bought once, although DEX-DEX rows are reused while   *)
(* they are active and a failed buy leaves the row "executing".            *)
BoughtOnce ==
  \A o \in Opps : \A g, h \in LiveLegs(o, "buy") : g = h

(* A row that says completed stands for a bought and sold position.        *)
CompletedIsFlat ==
  \A o \in Opps : db[o].status = "completed" =>
    \E g, h \in Hash : /\ g \in LiveLegs(o, "buy") /\ tx[g].state = "landed"
                       /\ h \in LiveLegs(o, "sell") /\ tx[h].state = "landed"

(* A row that was given up stands for no position at all: once its task is *)
(* over, "abandoned" and "expired" rows have no leg that took effect.      *)
AbandonedIsEmpty ==
  \A o \in Opps : db[o].status \in {"abandoned", "expired"} /\ ~Trading(o) =>
    LiveLegs(o, "buy") \cup LiveLegs(o, "sell") = {}

(* While cNGN bought for a trade that is over is still unsold, no new      *)
(* trade starts, unless an operator reset the breaker knowing of it.       *)
ExposureHalts ==
  \A o \in Opps : Exposed(o) /\ ~Trading(o) => breaker \/ o \in ack

(* Whatever is left unsold can be recovered: its row is one /recover takes *)
(* and holds the amount the recovery sells.                                *)
ExposureRecorded ==
  \A o \in Opps : Exposed(o) /\ ~Trading(o) =>
    /\ db[o].status # "none" /\ db[o].status \in Recoverable(db[o].dir)
    /\ db[o].buyAmt

(* A closed row is final, and a half-open one can only be closed: no tick, *)
(* sweep, retry or late write takes a row back.                            *)
RowsMoveForward ==
  [][\A o \in Opps :
       /\ db[o].status = "completed" => db'[o] = db[o]
       /\ db[o].status = "half_open" => db'[o].status \in {"half_open", "completed"}
       /\ db[o].sellTx # NoHash /\ tx[db[o].sellTx].state = "inflight"
            => db'[o].sellTx = db[o].sellTx]_vars

(* The flag is always given back: every execution and recovery ends.       *)
FlagReleased == executing ~> ~executing

(* An attended half-open trade is closed in the end, unless the sell its    *)
(* row names was dropped and will never have a receipt, which is refused    *)
(* for ever, or this instance has run out of hashes to place legs with.     *)
SellDropped(o) == db[o].sellTx # NoHash /\ tx[db[o].sellTx].state = "dropped"

HalfOpenIsClosed ==
  \A o \in Opps : db[o].status = "half_open"
                    ~> (db[o].status = "completed" \/ SellDropped(o) \/ FreshHash = {})

=============================================================================
