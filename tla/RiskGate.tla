------------------------------- MODULE RiskGate -------------------------------
(* The limits of can_trade and what feeds them: the log of completed trades,    *)
(* the losses of the day, the breaker, and the flag that keeps trades apart.    *)
(* A trade passes the gate when its route is chosen and enters the log when it  *)
(* completes; a half-open one never passes it again. All of it is in memory.    *)
EXTENDS Integers, Sequences, SequencesExt

CONSTANTS
  TradeSizes,    \* of a routed trade
  Profits,       \* of a completed one, negative for a loss
  MaxVolume,     \* max_daily_volume_usd
  MaxImbalance,  \* max_inventory_imbalance_usd
  MaxLoss,       \* max_daily_loss_usd
  MaxFailures,   \* max_consecutive_failures
  Day,           \* 24 hours, in ticks
  MaxTime        \* bound: ticks of a behaviour

(* Sizes and limits are amounts, in whatever unit.                             *)
ASSUME GateAssumption ==
  /\ TradeSizes \subseteq Nat /\ Profits \subseteq Int
  /\ MaxVolume \in Nat /\ Day \in Nat \ {0}

VARIABLES
  now,
  log,        \* trade_log, with whether the gate saw the trade
  risk,       \* day, loss, failures in a row, breaker
  heavy,      \* the snapshot says too much cNGN
  executing,  \* _arb_executing
  tasks,      \* trades and recoveries spawned and not over
  halfOpen    \* sizes of half-open trades, in the database

gateVars == <<now, log, risk, heavy, executing, tasks, halfOpen>>

Morning(t) == [day |-> t \div Day, loss |-> 0, failures |-> 0, breaker |-> FALSE]

GateInit ==
  /\ now = 0 /\ log = <<>> /\ risk = Morning(0)
  /\ heavy = FALSE /\ executing = FALSE
  /\ tasks = <<>> /\ halfOpen = {}

-----------------------------------------------------------------------------
(* Every look at the state begins with the reset of the day; the failures in a *)
(* row outlive it unless the breaker is on.                                    *)
Rolled ==
  IF risk.day >= now \div Day THEN risk
  ELSE [day |-> now \div Day, loss |-> 0, breaker |-> FALSE,
        failures |-> IF risk.breaker THEN 0 ELSE risk.failures]

Total(entries, counted) ==
  LET upTo[n \in 0..Len(entries)] ==
        IF n = 0 THEN 0
        ELSE upTo[n - 1] + (IF n \in counted THEN entries[n].size ELSE 0)
  IN upTo[Len(entries)]

Recent(entries) == {i \in DOMAIN entries : entries[i].at > now - Day}

(* The log without the entries in front that no sum will count again.          *)
Trimmed ==
  LET first == CHOOSE i \in Recent(log) : \A j \in Recent(log) : i <= j
  IN IF Recent(log) = {} THEN <<>> ELSE SubSeq(log, first, Len(log))

(* The imbalance of the tracker is what trades report to have moved, which is  *)
(* nothing: a size is compared with the limit alone.                           *)
CanTrade(size) ==
  /\ ~Rolled.breaker
  /\ Total(log, Recent(log)) + size <= MaxVolume
  /\ size <= MaxImbalance
  /\ Rolled.loss < MaxLoss
  /\ ~heavy

(* The flag is claimed when the task is spawned, not when its body begins.     *)
SpawnUnclaimed(size) ==
  /\ ~executing /\ CanTrade(size)
  /\ risk' = Rolled
  /\ tasks' = Append(tasks, [size |-> size, gated |-> TRUE, begun |-> FALSE])
  /\ UNCHANGED <<now, log, heavy, executing, halfOpen>>

Spawn(size) ==
  /\ ~executing /\ CanTrade(size)
  /\ risk' = Rolled
  /\ executing' = TRUE
  /\ tasks' = Append(tasks, [size |-> size, gated |-> TRUE, begun |-> FALSE])
  /\ UNCHANGED <<now, log, heavy, halfOpen>>

Begin(i) ==
  /\ ~tasks[i].begun
  /\ tasks' = [tasks EXCEPT ![i].begun = TRUE]
  /\ executing' = TRUE
  /\ UNCHANGED <<now, log, risk, heavy, halfOpen>>

(* Recovery takes the flag and passes no gate.                                 *)
Recover(size) ==
  /\ size \in halfOpen /\ ~executing
  /\ executing' = TRUE
  /\ tasks' = Append(tasks, [size |-> size, gated |-> FALSE, begun |-> TRUE])
  /\ UNCHANGED <<now, log, risk, heavy, halfOpen>>

Done(i) == tasks' = RemoveAt(tasks, i) /\ executing' = FALSE

Unwound(i) == IF tasks[i].gated THEN halfOpen ELSE halfOpen \ {tasks[i].size}

(* record_trade_complete, of a trade or of a recovery.                         *)
Complete(i, profit) ==
  /\ tasks[i].begun /\ Done(i)
  /\ log' = Append(Trimmed, [at |-> now, size |-> tasks[i].size, gated |-> tasks[i].gated])
  /\ LET loss == Rolled.loss + (IF profit < 0 THEN -profit ELSE 0) IN
       risk' = [Rolled EXCEPT !.loss = loss,
                              !.failures = IF profit >= 0 THEN 0 ELSE @,
                              !.breaker = @ \/ loss >= MaxLoss]
  /\ halfOpen' = Unwound(i)
  /\ UNCHANGED <<now, heavy>>

(* Counted no further than the limit they are compared with.                   *)
Counted ==
  IF risk.failures + 1 >= MaxFailures
    THEN [risk EXCEPT !.failures = MaxFailures, !.breaker = TRUE]
    ELSE [risk EXCEPT !.failures = @ + 1]

(* record_trade_failure, which looks at no day; one leg may have been filled.  *)
Fail(i) ==
  /\ tasks[i].begun /\ Done(i)
  /\ risk' = Counted
  /\ halfOpen' \in {halfOpen, halfOpen \cup {tasks[i].size}}
  /\ UNCHANGED <<now, log, heavy>>

(* A preflight that stops the trade: a paused pool trips the breaker.          *)
Abort(i) ==
  /\ tasks[i].begun /\ tasks[i].gated /\ Done(i)
  /\ \E paused \in BOOLEAN : risk' = [risk EXCEPT !.breaker = @ \/ paused]
  /\ UNCHANGED <<now, log, heavy, halfOpen>>

ResetBreaker ==
  /\ risk.breaker
  /\ risk' = [risk EXCEPT !.breaker = FALSE, !.failures = 0]
  /\ UNCHANGED <<now, log, heavy, executing, tasks, halfOpen>>

Snapshot ==
  /\ heavy' = ~heavy
  /\ UNCHANGED <<now, log, risk, executing, tasks, halfOpen>>

Tick ==
  /\ now < MaxTime /\ now' = now + 1
  /\ UNCHANGED <<log, risk, heavy, executing, tasks, halfOpen>>

(* The log, the losses and the breaker are gone; a trade that ran may be found *)
(* half-open.                                                                  *)
GateRestart ==
  /\ log' = <<>> /\ risk' = Morning(now) /\ heavy' = FALSE
  /\ executing' = FALSE /\ tasks' = <<>>
  /\ halfOpen' \in {halfOpen, halfOpen \cup {tasks[i].size : i \in DOMAIN tasks}}
  /\ UNCHANGED now

GateNext ==
  \/ \E s \in TradeSizes : Spawn(s) \/ Recover(s)
  \/ \E i \in DOMAIN tasks : Begin(i) \/ Fail(i) \/ Abort(i)
  \/ \E i \in DOMAIN tasks, p \in Profits : Complete(i, p)
  \/ ResetBreaker \/ Snapshot \/ Tick \/ GateRestart

GateSpec == GateInit /\ [][GateNext]_gateVars

-----------------------------------------------------------------------------
(* The trades the gate saw, of the log or of the tasks.                        *)
Gated(entries) == {i \in DOMAIN entries : entries[i].gated}

(* What the gate let through stays within the daily volume, although a trade   *)
(* is compared with the limit before those still running have entered the log, *)
(* and whatever recoveries, which pass no gate, add to it.                     *)
VolumeBounded ==
  Total(log, Recent(log) \cap Gated(log)) + Total(tasks, Gated(tasks)) <= MaxVolume

=============================================================================
