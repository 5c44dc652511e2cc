------------------------ MODULE ArbExecution_proofs ------------------------
(***************************************************************************)
(* Theorems about ArbExecution, for every set of opportunities, hashes and *)
(* directions, every failure limit and every combination of faults.        *)
(***************************************************************************)
EXTENDS ArbExecution, TLAPS

-----------------------------------------------------------------------------
(* The helpers the actions are built from keep the types.                  *)

(* Replacing a row, or one that does not exist, leaves rows.               *)
LEMMA UpdateType ==
  ASSUME TypeOK, NEW o \in Opps, NEW row \in Row, Update(o, row)
  PROVE  db' \in [Opps -> Row]
  BY DEF TypeOK, Update

LEMMA SetStatusType ==
  ASSUME TypeOK, NEW o \in Opps, NEW s \in Statuses, SetStatus(o, s)
  PROVE  db' \in [Opps -> Row]
  <1> [db[o] EXCEPT !.status = s] \in Row  BY DEF TypeOK, Row
  <1> QED  BY UpdateType DEF SetStatus

LEMMA CompletedType ==
  ASSUME TypeOK, NEW o \in Opps, Completed(o)
  PROVE  db' \in [Opps -> Row]
  <1>0. db[o] \in Row /\ task[o] \in Task  BY DEF TypeOK
  <1>1. [db[o] EXCEPT !.status = "completed"] \in Row  BY <1>0 DEF Row, Statuses
  <1>2. /\ Keep(task[o].buyRef, db[o].buyTx) \in Hash \cup {NoHash}
        /\ Keep(task[o].sellRef, db[o].sellTx) \in Hash \cup {NoHash}
    BY <1>0 DEF Row, Task, Keep
  <1>3. [db[o] EXCEPT !.status = "completed",
                      !.buyTx = Keep(task[o].buyRef, @),
                      !.sellTx = Keep(task[o].sellRef, @)] \in Row
    BY <1>0, <1>2 DEF Row, Statuses
  <1> QED  BY <1>1, <1>3, UpdateType DEF Completed

(* A leg that is placed is a leg.                                          *)
LEMMA PlaceType ==
  ASSUME TypeOK, NEW o \in Opps, NEW leg \in {"buy", "sell"}, NEW out, NEW h,
         out.fate \in {"none", "landed", "reverted", "inflight"}, Place(o, leg, out, h)
  PROVE  tx' \in [Hash -> Leg]
  <1>1. CASE out.fate = "none"  BY <1>1 DEF TypeOK, Place
  <1>2. CASE out.fate # "none"
    <2>1. [opp |-> o, leg |-> leg, state |-> out.fate] \in Leg  BY <1>2 DEF Leg
    <2> QED  BY <1>2, <2>1 DEF TypeOK, Place
  <1> QED  BY <1>1, <1>2

(* What the legs report and what becomes of them.                          *)
LEMMA OutcomesType ==
  ASSUME NEW venue, NEW mayPend, NEW out \in Outcomes(venue, mayPend)
  PROVE  /\ out.status \in {"raised", "failed", "ok", "pending"}
         /\ out.fate \in {"none", "landed", "reverted", "inflight"}
  <1>1. out \in {Outcome("raised", FALSE, "none"), Outcome("failed", FALSE, "none"),
                 Outcome("ok", FALSE, "landed"), Outcome("ok", TRUE, "landed"),
                 Outcome("failed", TRUE, "reverted"), Outcome("pending", TRUE, "inflight"),
                 Outcome("pending", FALSE, "inflight"), Outcome("failed", FALSE, "inflight"),
                 Outcome("ok", FALSE, "inflight"), Outcome("raised", FALSE, "inflight")}
    BY DEF Outcomes
  <1> QED  BY <1>1 DEF Outcome

LEMMA RecordFailureType ==
  ASSUME TypeOK, RecordFailure \/ TripAndRecord
  PROVE  breaker' \in BOOLEAN /\ failures' \in 0..MaxFailures
  <1>1. Bump(failures) \in 0..MaxFailures  BY ConstantsAssumption DEF TypeOK, Bump
  <1> QED  BY <1>1 DEF TypeOK, RecordFailure, TripAndRecord

LEMMA RecordCompleteType ==
  ASSUME TypeOK, RecordComplete
  PROVE  breaker' \in BOOLEAN /\ failures' \in 0..MaxFailures
  <1>1. breaker' \in BOOLEAN  BY DEF TypeOK, RecordComplete
  <1>2. failures' \in 0..MaxFailures  BY ConstantsAssumption DEF TypeOK, RecordComplete
  <1> QED  BY <1>1, <1>2

LEMMA SpawnType ==
  ASSUME TypeOK, NEW o \in Opps, NEW d \in Directions \cup {"none"}, Spawn(o, d)
  PROVE  task' \in [Opps -> Task] /\ executing' \in BOOLEAN
  <1>1. [NoTask EXCEPT !.pc = "spawned", !.dir = d] \in Task
    BY DEF NoTask, Task, ExecSteps
  <1> QED  BY <1>1 DEF TypeOK, Spawn

LEMMA ReleaseType ==
  ASSUME TypeOK, NEW o \in Opps, Release(o)
  PROVE  task' \in [Opps -> Task] /\ executing' \in BOOLEAN
  BY DEF TypeOK, Release, NoTask, Task

LEMMA GotoType ==
  ASSUME TypeOK, NEW o \in Opps, NEW step \in ExecSteps \cup RecoverSteps, Goto(o, step)
  PROVE  task' \in [Opps -> Task]
  BY DEF TypeOK, Goto, Task

-----------------------------------------------------------------------------
(* Type correctness.                                                       *)

LEMMA InitType == Init => TypeOK
  <1>1. NoRow \in Row  BY DEF NoRow, Row, Statuses
  <1>2. NoLeg \in Leg  BY DEF NoLeg, Leg
  <1>3. NoTask \in Task  BY DEF NoTask, Task
  <1>4. 0 \in 0..MaxFailures  BY ConstantsAssumption
  <1> QED  BY <1>1, <1>2, <1>3, <1>4 DEF Init, TypeOK

LEMMA TickType ==
  ASSUME TypeOK, NEW d \in Directions, CexTick(d) \/ DexTick(d) \/ DexTickUnrecorded(d)
  PROVE  TypeOK'
  <1>1. CASE CexTick(d)
    <2>1. task' \in [Opps -> Task] /\ executing' \in BOOLEAN
      BY <1>1, SpawnType DEF CexTick
    <2> QED  BY <1>1, <2>1 DEF CexTick, TypeOK, risk
  <1>2. CASE DexTick(d)
    <2>1. PICK old \in SUBSET Opps :
            db' = [o \in Opps |-> IF o \in old THEN [db[o] EXCEPT !.status = "expired"]
                                              ELSE db[o]]
      BY <1>2 DEF DexTick
    <2>2. \A o \in Opps : [db[o] EXCEPT !.status = "expired"] \in Row
      BY DEF TypeOK, Row, Statuses
    <2>3. db' \in [Opps -> Row]
      BY <2>1, <2>2 DEF TypeOK
    <2>4. ASSUME NEW o \in Opps, NoSpawn \/ Spawn(o, d)
          PROVE  task' \in [Opps -> Task] /\ executing' \in BOOLEAN
      BY <2>4, SpawnType DEF NoSpawn, TypeOK
    <2>5. ASSUME NEW o \in Opps, UNCHANGED executing,
                 task' = [task EXCEPT ![o] = [NoTask EXCEPT !.pc = "insert", !.dir = d]]
          PROVE  task' \in [Opps -> Task] /\ executing' \in BOOLEAN
      <3>1. [NoTask EXCEPT !.pc = "insert", !.dir = d] \in Task  BY DEF NoTask, Task
      <3> QED  BY <2>5, <3>1 DEF TypeOK
    <2>6. task' \in [Opps -> Task] /\ executing' \in BOOLEAN
      BY <1>2, <2>4, <2>5 DEF DexTick, DexRows
    <2> QED  BY <1>2, <2>3, <2>6 DEF DexTick, TypeOK, risk
  <1>3. CASE DexTickUnrecorded(d)
    <2>1. task' \in [Opps -> Task] /\ executing' \in BOOLEAN
      BY <1>3, SpawnType DEF DexTickUnrecorded
    <2> QED  BY <1>3, <2>1 DEF DexTickUnrecorded, TypeOK, risk
  <1> QED  BY <1>1, <1>2, <1>3

LEMMA InsertType ==
  ASSUME TypeOK, NEW o \in Opps, DexInsert(o)
  PROVE  TypeOK'
  <1>0. task[o].dir \in Directions \cup {"none"}  BY DEF TypeOK, Task
  <1>1. db' \in [Opps -> Row]
    <2>1. [NoRow EXCEPT !.status = "detected", !.dir = task[o].dir] \in Row
      BY <1>0 DEF NoRow, Row, Statuses
    <2> QED  BY <2>1 DEF DexInsert, StoreFails, TypeOK
  <1>2. task' \in [Opps -> Task] /\ executing' \in BOOLEAN
    <2>1. NoTask \in Task  BY DEF NoTask, Task
    <2>2. ASSUME task' = [task EXCEPT ![o] = NoTask], UNCHANGED executing
          PROVE  task' \in [Opps -> Task] /\ executing' \in BOOLEAN
      BY <2>1, <2>2 DEF TypeOK
    <2> QED  BY <1>0, <2>2, SpawnType DEF DexInsert
  <1> QED  BY <1>1, <1>2 DEF DexInsert, TypeOK, risk

(* The legs: whatever a call reports, the task goes on to a step it has.   *)
LEMMA LegType ==
  ASSUME TypeOK, NEW o \in Opps, NEW pc \in ExecSteps \cup RecoverSteps,
         NEW buy \in {"none", "ok", "pending"}, NEW buyRef \in Hash \cup {NoHash},
         NEW sellRef \in Hash \cup {NoHash}
  PROVE  /\ [task EXCEPT ![o].pc = pc, ![o].buy = buy, ![o].buyRef = buyRef]
               \in [Opps -> Task]
         /\ [task EXCEPT ![o].pc = pc, ![o].sellRef = sellRef] \in [Opps -> Task]
  <1>1. task \in [Opps -> Task]  BY DEF TypeOK
  <1>2. [task[o] EXCEPT !.pc = pc, !.buy = buy, !.buyRef = buyRef] \in Task
    BY <1>1 DEF Task
  <1>3. [task[o] EXCEPT !.pc = pc, !.sellRef = sellRef] \in Task
    BY <1>1 DEF Task
  <1> QED  BY <1>1, <1>2, <1>3

LEMMA RefType ==
  ASSUME NEW out, NEW h \in FreshHash \cup {NoHash}
  PROVE  Ref(out, h) \in Hash \cup {NoHash}
  BY DEF Ref, FreshHash

LEMMA ExecType ==
  ASSUME TypeOK, NEW o \in Opps, ExecStep(o)
  PROVE  TypeOK'
  <1>1. CASE Preflight(o)
    <2>1. db' \in [Opps -> Row]
      BY <1>1, SetStatusType DEF Preflight, TypeOK, Statuses
    <2>2. task' \in [Opps -> Task] /\ executing' \in BOOLEAN
      BY <1>1, GotoType, ReleaseType DEF Preflight, TypeOK, ExecSteps
    <2>3. breaker' \in BOOLEAN
      BY <1>1 DEF Preflight, TypeOK
    <2> QED  BY <1>1, <2>1, <2>2, <2>3 DEF Preflight, TypeOK
  <1>2. CASE Mark(o)
    <2>1. [NoRow EXCEPT !.status = "executing", !.dir = task[o].dir] \in Row
      BY DEF TypeOK, Task, NoRow, Row, Statuses
    <2>2. db' \in [Opps -> Row]
      BY <1>2, <2>1, SetStatusType DEF Mark, StoreFails, TypeOK, Statuses
    <2>3. task' \in [Opps -> Task]
      BY <1>2, GotoType DEF Mark, ExecSteps
    <2> QED  BY <1>2, <2>2, <2>3 DEF Mark, TypeOK, risk
  <1>3. CASE Buy(o)
    <2>1. PICK out \in Outcomes(ROUTES[task[o].dir].buy, "pending_buy" \in Faults),
               h \in FreshHash \cup {NoHash} :
            /\ Place(o, "buy", out, h)
            /\ task' = [task EXCEPT
                          ![o].pc = AfterBuy(task[o].dir, out.status),
                          ![o].buy = IF out.status \in {"ok", "pending"} THEN out.status
                                                                        ELSE "none",
                          ![o].buyRef = IF out.status \in {"ok", "pending"} THEN Ref(out, h)
                                                                           ELSE NoHash]
      BY <1>3 DEF Buy
    <2>2. tx' \in [Hash -> Leg]
      <3>1. out.fate \in {"none", "landed", "reverted", "inflight"}  BY OutcomesType
      <3> QED  BY <2>1, <3>1, PlaceType
    <2>3. AfterBuy(task[o].dir, out.status) \in ExecSteps
      BY <2>1, OutcomesType DEF AfterBuy, ExecSteps
    <2>4. /\ (IF out.status \in {"ok", "pending"} THEN out.status ELSE "none")
               \in {"none", "ok", "pending"}
          /\ (IF out.status \in {"ok", "pending"} THEN Ref(out, h) ELSE NoHash)
               \in Hash \cup {NoHash}
      BY RefType
    <2>5. task' \in [Opps -> Task]
      <3> DEFINE pc     == AfterBuy(task[o].dir, out.status)
                 buy    == IF out.status \in {"ok", "pending"} THEN out.status ELSE "none"
                 buyRef == IF out.status \in {"ok", "pending"} THEN Ref(out, h) ELSE NoHash
      <3>1. task' = [task EXCEPT ![o].pc = pc, ![o].buy = buy, ![o].buyRef = buyRef]
        BY <2>1
      <3>2. pc \in ExecSteps /\ buy \in {"none", "ok", "pending"} /\ buyRef \in Hash \cup {NoHash}
        BY <2>3, <2>4
      <3> HIDE DEF pc, buy, buyRef
      <3> QED  BY <3>1, <3>2, LegType
    <2> QED  BY <1>3, <2>2, <2>5 DEF Buy, TypeOK, risk
  <1>4. CASE BuyFailed(o)
    <2>1. db' \in [Opps -> Row]
      BY <1>4, SetStatusType DEF BuyFailed, StoreFails, TypeOK, Statuses
    <2>2. task' \in [Opps -> Task] /\ executing' \in BOOLEAN
      BY <1>4, GotoType, ReleaseType DEF BuyFailed, TypeOK, ExecSteps
    <2> QED  BY <1>4, <2>1, <2>2, RecordFailureType DEF BuyFailed, TypeOK
  <1>5. CASE BuyFilled(o)
    <2>0. db[o] \in Row /\ Keep(task[o].buyRef, db[o].buyTx) \in Hash \cup {NoHash}
      BY DEF TypeOK, Row, Task, Keep
    <2>1. [db[o] EXCEPT !.status = "buy_filled", !.buyAmt = TRUE,
                        !.buyTx = Keep(task[o].buyRef, @)] \in Row
      BY <2>0 DEF Row, Statuses
    <2>2. db' \in [Opps -> Row]
      BY <1>5, <2>1, UpdateType DEF BuyFilled, StoreFails, TypeOK
    <2>3. task' \in [Opps -> Task]
      BY <1>5, GotoType DEF BuyFilled, ExecSteps
    <2> QED  BY <1>5, <2>2, <2>3 DEF BuyFilled, TypeOK, risk
  <1>6. CASE Sell(o)
    <2>1. PICK out \in Outcomes(ROUTES[task[o].dir].sell, TRUE),
               h \in FreshHash \cup {NoHash} :
            /\ Place(o, "sell", out, h)
            /\ task' = [task EXCEPT ![o].pc = IF out.status = "ok" THEN "done" ELSE "half",
                                    ![o].sellRef = Ref(out, h)]
      BY <1>6 DEF Sell
    <2>2. tx' \in [Hash -> Leg]
      <3>1. out.fate \in {"none", "landed", "reverted", "inflight"}  BY OutcomesType
      <3> QED  BY <2>1, <3>1, PlaceType
    <2>3. task' \in [Opps -> Task]
      <3> DEFINE pc      == IF out.status = "ok" THEN "done" ELSE "half"
                 sellRef == Ref(out, h)
      <3>1. task' = [task EXCEPT ![o].pc = pc, ![o].sellRef = sellRef]
        BY <2>1
      <3>2. pc \in ExecSteps /\ sellRef \in Hash \cup {NoHash}
        BY RefType DEF ExecSteps
      <3> HIDE DEF pc, sellRef
      <3> QED  BY <3>1, <3>2, LegType
    <2> QED  BY <1>6, <2>2, <2>3 DEF Sell, TypeOK, risk
  <1>7. CASE Complete(o)
    <2>1. db' \in [Opps -> Row]
      BY <1>7, CompletedType DEF Complete, StoreFails, TypeOK
    <2>2. task' \in [Opps -> Task] /\ executing' \in BOOLEAN
      <3>1. [task EXCEPT ![o].pc = "half", ![o].sellRef = NoHash] \in [Opps -> Task]
        BY LegType DEF ExecSteps
      <3> QED  BY <1>7, <3>1, ReleaseType DEF Complete, TypeOK
    <2>3. breaker' \in BOOLEAN /\ failures' \in 0..MaxFailures
      BY <1>7, RecordCompleteType DEF Complete, TypeOK, risk
    <2> QED  BY <1>7, <2>1, <2>2, <2>3 DEF Complete, TypeOK
  <1>8. CASE HalfOpen(o)
    <2>0. /\ db[o] \in Row
          /\ Keep(task[o].buyRef, db[o].buyTx) \in Hash \cup {NoHash}
          /\ Keep(task[o].sellRef, db[o].sellTx) \in Hash \cup {NoHash}
          /\ (db[o].buyAmt \/ pipeline(task[o].dir) = "cex_dex") \in BOOLEAN
      BY DEF TypeOK, Row, Task, Keep
    <2>1. [db[o] EXCEPT !.status = "half_open",
                        !.buyAmt = @ \/ pipeline(task[o].dir) = "cex_dex",
                        !.buyTx = Keep(task[o].buyRef, @),
                        !.sellTx = Keep(task[o].sellRef, @)] \in Row
      BY <2>0 DEF Row, Statuses
    <2>2. db' \in [Opps -> Row]
      BY <1>8, <2>1, UpdateType DEF HalfOpen, StoreFails, TypeOK
    <2>3. breaker' \in BOOLEAN /\ failures' \in 0..MaxFailures
      BY <1>8, RecordFailureType DEF HalfOpen, TypeOK, risk
    <2> QED  BY <1>8, <2>2, <2>3, ReleaseType DEF HalfOpen, TypeOK
  <1>9. CASE Fail(o)
    <2>1. db' \in [Opps -> Row]
      BY <1>9, SetStatusType DEF Fail, StoreFails, TypeOK, Statuses
    <2> QED  BY <1>9, <2>1, ReleaseType, RecordFailureType DEF Fail, TypeOK
  <1> QED  BY <1>1, <1>2, <1>3, <1>4, <1>5, <1>6, <1>7, <1>8, <1>9 DEF ExecStep

LEMMA RecoverStartType ==
  ASSUME TypeOK, NEW o \in Opps, Recover(o)
  PROVE  TypeOK'
  <1> DEFINE pc == IF db[o].sellTx = NoHash THEN AfterGate(db[o].dir) ELSE "r_gate"
  <1>1. pc \in RecoverSteps  BY DEF AfterGate, RecoverSteps
  <1>2. db[o].dir \in Directions \cup {"none"}  BY DEF TypeOK, Row
  <1>3. task' = [task EXCEPT ![o] = [NoTask EXCEPT !.dir = db[o].dir, !.pc = pc]]
    BY DEF Recover
  <1> HIDE DEF pc
  <1>4. [NoTask EXCEPT !.dir = db[o].dir, !.pc = pc] \in Task
    BY <1>1, <1>2 DEF NoTask, Task
  <1>5. task' \in [Opps -> Task]
    BY <1>3, <1>4 DEF TypeOK
  <1> QED  BY <1>5 DEF Recover, TypeOK, risk

LEMMA RecoveryLegType ==
  ASSUME TypeOK, NEW o \in Opps, NEW venue, NEW onFailure \in RecoverSteps,
         RecoveryLeg(o, venue, onFailure)
  PROVE  /\ tx' \in [Hash -> Leg]
         /\ task' \in [Opps -> Task]
         /\ executing' \in BOOLEAN
  <1>1. PICK out \in Outcomes(venue, "pending_recovery" \in Faults),
             h \in FreshHash \cup {NoHash} :
          /\ Place(o, "sell", out, h)
          /\ IF out.status = "raised"
               THEN Release(o)
               ELSE /\ task' = [task EXCEPT
                                  ![o].pc = IF out.status = "failed" THEN onFailure ELSE "r_done",
                                  ![o].sellRef = Ref(out, h)]
                    /\ UNCHANGED executing
    BY DEF RecoveryLeg
  <1>2. tx' \in [Hash -> Leg]
    <2>1. out.fate \in {"none", "landed", "reverted", "inflight"}  BY OutcomesType
    <2> QED  BY <1>1, <2>1, PlaceType
  <1>3. CASE out.status = "raised"
    BY <1>1, <1>2, <1>3, ReleaseType
  <1>4. CASE out.status # "raised"
    <2> DEFINE pc      == IF out.status = "failed" THEN onFailure ELSE "r_done"
               sellRef == Ref(out, h)
    <2>1. task' = [task EXCEPT ![o].pc = pc, ![o].sellRef = sellRef]
      BY <1>1, <1>4
    <2>2. pc \in RecoverSteps /\ sellRef \in Hash \cup {NoHash}
      BY RefType DEF RecoverSteps
    <2> HIDE DEF pc, sellRef
    <2>3. task' \in [Opps -> Task]
      BY <2>1, <2>2, LegType
    <2> QED  BY <1>1, <1>2, <1>4, <2>3 DEF TypeOK
  <1> QED  BY <1>3, <1>4

LEMMA RecoverType ==
  ASSUME TypeOK, NEW o \in Opps, RecoverStep(o)
  PROVE  TypeOK'
  <1>1. CASE ResolveRecordedSell(o)
    <2>1. ASSUME task' = [task EXCEPT ![o].pc = "r_done", ![o].sellRef = db[o].sellTx]
          PROVE  task' \in [Opps -> Task]
      <3>1. db[o].sellTx \in Hash \cup {NoHash}  BY DEF TypeOK, Row
      <3> QED  BY <2>1, <3>1, LegType DEF RecoverSteps
    <2>2. AfterGate(task[o].dir) \in RecoverSteps  BY DEF AfterGate, RecoverSteps
    <2>3. task' \in [Opps -> Task] /\ executing' \in BOOLEAN
      BY <1>1, <2>1, <2>2, GotoType, ReleaseType DEF ResolveRecordedSell, TypeOK
    <2> QED  BY <1>1, <2>3 DEF ResolveRecordedSell, TypeOK, risk
  <1>2. CASE RetrySell(o)
    <2>1. /\ tx' \in [Hash -> Leg]
          /\ task' \in [Opps -> Task]
          /\ executing' \in BOOLEAN
      BY <1>2, GotoType, RecoveryLegType DEF RetrySell, RecoverSteps, TypeOK
    <2> QED  BY <1>2, <2>1 DEF RetrySell, TypeOK, risk
  <1>3. CASE ReverseBuy(o)
    <2>1. /\ tx' \in [Hash -> Leg]
          /\ task' \in [Opps -> Task]
          /\ executing' \in BOOLEAN
      BY <1>3, RecoveryLegType DEF ReverseBuy, RecoverSteps
    <2> QED  BY <1>3, <2>1 DEF ReverseBuy, TypeOK, risk
  <1>4. CASE RecoveryComplete(o)
    <2>1. db' \in [Opps -> Row]
      BY <1>4, CompletedType DEF RecoveryComplete, StoreFails, TypeOK
    <2>2. breaker' \in BOOLEAN /\ failures' \in 0..MaxFailures
      BY <1>4, RecordCompleteType DEF RecoveryComplete, TypeOK, risk
    <2> QED  BY <1>4, <2>1, <2>2, ReleaseType DEF RecoveryComplete, TypeOK
  <1>5. CASE RecoveryFailed(o)
    <2>1. db' \in [Opps -> Row]
      BY <1>5, SetStatusType DEF RecoveryFailed, StoreFails, TypeOK, Statuses
    <2>2. breaker' \in BOOLEAN /\ failures' \in 0..MaxFailures
      BY <1>5, RecordFailureType DEF RecoveryFailed, TypeOK, risk
    <2> QED  BY <1>5, <2>1, <2>2, ReleaseType DEF RecoveryFailed, TypeOK
  <1> QED  BY <1>1, <1>2, <1>3, <1>4, <1>5 DEF RecoverStep

LEMMA EnvironmentType ==
  ASSUME TypeOK,
         \/ \E ps \in SUBSET Pipelines : SetArmed(ps)
         \/ ResetBreaker \/ Rollover \/ Crash
         \/ \E h \in Hash : Resolve(h)
  PROVE  TypeOK'
  <1>0. 0 \in 0..MaxFailures  BY ConstantsAssumption
  <1>1. CASE \E ps \in SUBSET Pipelines : SetArmed(ps)
    BY <1>1 DEF SetArmed, TypeOK, risk
  <1>2. CASE ResetBreaker
    BY <1>0, <1>2 DEF ResetBreaker, TypeOK
  <1>3. CASE Rollover
    BY <1>0, <1>3 DEF Rollover, TypeOK
  <1>4. CASE Crash
    <2>1. NoTask \in Task  BY DEF NoTask, Task
    <2> QED  BY <1>0, <1>4, <2>1 DEF Crash, TypeOK, Pipelines
  <1>5. CASE \E h \in Hash : Resolve(h)
    <2>1. PICK h \in Hash, end \in Ends : tx' = [tx EXCEPT ![h].state = end]
      BY <1>5 DEF Resolve
    <2>2. end \in {"landed", "reverted", "dropped"}  BY DEF Ends
    <2>3. [tx[h] EXCEPT !.state = end] \in Leg  BY <2>2 DEF TypeOK, Leg
    <2>4. tx' \in [Hash -> Leg]  BY <2>1, <2>3 DEF TypeOK
    <2> QED  BY <1>5, <2>4 DEF Resolve, TypeOK, risk
  <1> QED  BY <1>1, <1>2, <1>3, <1>4, <1>5

LEMMA NextType == TypeOK /\ [Next]_vars => TypeOK'
  <1> SUFFICES ASSUME TypeOK, [Next]_vars PROVE TypeOK'  OBVIOUS
  <1>1. CASE UNCHANGED vars
    BY <1>1 DEF TypeOK, vars
  <1>2. CASE \E d \in Directions : CexTick(d) \/ DexTick(d) \/ DexTickUnrecorded(d)
    BY <1>2, TickType
  <1>3. CASE \E o \in Opps : DexInsert(o) \/ ExecStep(o) \/ Recover(o) \/ RecoverStep(o)
    BY <1>3, InsertType, ExecType, RecoverStartType, RecoverType
  <1> QED  BY <1>1, <1>2, <1>3, EnvironmentType DEF Next

(* The rows, legs, tasks and the breaker stay what the code's declarations *)
(* say they are, whatever fails and whoever acts.                          *)
THEOREM TypeCorrect == Spec => []TypeOK
  BY InitType, NextType, PTL DEF Spec

-----------------------------------------------------------------------------
(* The serialization flag.  OneAtATime is inductive with the types: a step *)
(* starts work where the flag is down, carries on the one task that holds  *)
(* it, ends that task, or leaves the flag and the traders alone.           *)

Steps == ExecSteps \cup RecoverSteps

(* A task is started while the flag is down.                               *)
LEMMA StartSerial ==
  ASSUME TypeOK, OneAtATime, NEW o \in Opps, NEW t, ~executing, executing' = TRUE,
         task' = [task EXCEPT ![o] = t], t.pc \in Steps
  PROVE  OneAtATime'
  <1>1. \A p \in Opps : ~Trading(p)  BY DEF OneAtATime
  <1>2. \A p \in Opps : Trading(p)' <=> p = o
    BY <1>1 DEF Trading, Steps, TypeOK
  <1> QED  BY <1>2 DEF OneAtATime

(* The task at work goes from one step to another.                         *)
LEMMA CarryOnSerial ==
  ASSUME TypeOK, OneAtATime, NEW o \in Opps, Trading(o), UNCHANGED executing,
         task' \in [Opps -> Task], task'[o].pc \in Steps,
         \A p \in Opps \ {o} : task'[p] = task[p]
  PROVE  OneAtATime'
  <1>1. \A p \in Opps : Trading(p)' <=> Trading(p)
    BY DEF Trading, Steps
  <1> QED  BY <1>1 DEF OneAtATime

(* The task at work ends.                                                  *)
LEMMA ReleaseSerial ==
  ASSUME TypeOK, OneAtATime, NEW o \in Opps, Trading(o), Release(o)
  PROVE  OneAtATime'
  <1>1. "idle" \notin Steps  BY DEF Steps, ExecSteps, RecoverSteps
  <1>2. \A p \in Opps : ~Trading(p)'
    BY <1>1 DEF Trading, Release, NoTask, TypeOK, OneAtATime, Steps
  <1> QED  BY <1>2 DEF OneAtATime, Release

(* A tick that does not hold the flag comes and goes.                      *)
LEMMA BystanderSerial ==
  ASSUME TypeOK, OneAtATime, NEW o \in Opps, NEW t, ~Trading(o), UNCHANGED executing,
         task' = [task EXCEPT ![o] = t], t.pc \in {"idle", "insert"}
  PROVE  OneAtATime'
  <1>1. t.pc \notin Steps  BY DEF Steps, ExecSteps, RecoverSteps
  <1>2. \A p \in Opps : Trading(p)' <=> Trading(p)
    BY <1>1 DEF Trading, TypeOK, Steps
  <1> QED  BY <1>2 DEF OneAtATime

LEMMA IdleSerial ==
  ASSUME OneAtATime, UNCHANGED <<task, executing>>
  PROVE  OneAtATime'
  BY DEF OneAtATime, Trading

LEMMA SpawnSerial ==
  ASSUME TypeOK, OneAtATime, NEW o \in Opps, NEW d, Spawn(o, d)
  PROVE  OneAtATime'
  <1>1. [NoTask EXCEPT !.pc = "spawned", !.dir = d].pc \in Steps
    BY DEF NoTask, Steps, ExecSteps
  <1> QED  BY <1>1, StartSerial DEF Spawn, CanSpawn

LEMMA TickSerial ==
  ASSUME TypeOK, OneAtATime, NEW d \in Directions,
         CexTick(d) \/ DexTick(d) \/ DexTickUnrecorded(d)
  PROVE  OneAtATime'
  <1>1. CASE CexTick(d) \/ DexTickUnrecorded(d)
    BY <1>1, SpawnSerial DEF CexTick, DexTickUnrecorded
  <1>2. CASE DexTick(d)
    <2>1. ASSUME NEW o \in Opps, NoSpawn \/ Spawn(o, d)
          PROVE  OneAtATime'
      BY <2>1, SpawnSerial, IdleSerial DEF NoSpawn
    <2>2. ASSUME NEW o \in Opps, Fresh(o), UNCHANGED executing,
                 task' = [task EXCEPT ![o] = [NoTask EXCEPT !.pc = "insert", !.dir = d]]
          PROVE  OneAtATime'
      <3>1. ~Trading(o)
        BY <2>2 DEF Fresh, Trading, NoTask, ExecSteps, RecoverSteps
      <3>2. [NoTask EXCEPT !.pc = "insert", !.dir = d].pc \in {"idle", "insert"}
        BY DEF NoTask
      <3> QED  BY <2>2, <3>1, <3>2, BystanderSerial
    <2> QED  BY <1>2, <2>1, <2>2 DEF DexTick, DexRows
  <1> QED  BY <1>1, <1>2

LEMMA InsertSerial ==
  ASSUME TypeOK, OneAtATime, NEW o \in Opps, DexInsert(o)
  PROVE  OneAtATime'
  <1>1. ASSUME task' = [task EXCEPT ![o] = NoTask], UNCHANGED executing
        PROVE  OneAtATime'
    <2>1. ~Trading(o)  BY DEF DexInsert, Trading, ExecSteps, RecoverSteps
    <2>2. NoTask.pc \in {"idle", "insert"}  BY DEF NoTask
    <2> QED  BY <1>1, <2>1, <2>2, BystanderSerial
  <1> QED  BY <1>1, SpawnSerial DEF DexInsert

LEMMA GotoSerial ==
  ASSUME TypeOK, OneAtATime, NEW o \in Opps, NEW step \in Steps, Trading(o),
         Goto(o, step), UNCHANGED executing
  PROVE  OneAtATime'
  <1>1. task' \in [Opps -> Task]  BY GotoType DEF Steps
  <1> QED  BY <1>1, CarryOnSerial DEF Goto, TypeOK

LEMMA ExecSerial ==
  ASSUME TypeOK, TypeOK', OneAtATime, NEW o \in Opps, ExecStep(o)
  PROVE  OneAtATime'
  <1>0. Trading(o)
    BY DEF ExecStep, Preflight, Mark, Buy, BuyFailed, BuyFilled, Sell, Complete, HalfOpen,
           Fail, Trading, ExecSteps
  <1>1. CASE Preflight(o)
    BY <1>0, <1>1, GotoSerial, ReleaseSerial DEF Preflight, Steps, ExecSteps
  <1>2. CASE Mark(o)
    BY <1>0, <1>2, GotoSerial DEF Mark, Steps, ExecSteps
  <1>3. CASE Buy(o)
    <2>1. UNCHANGED executing  BY <1>3 DEF Buy
    <2>2. task'[o].pc \in Steps
      <3>1. \A d, status : status \in {"raised", "failed", "ok", "pending"} =>
              AfterBuy(d, status) \in Steps
        BY DEF AfterBuy, Steps, ExecSteps
      <3> QED  BY <1>3, <3>1, OutcomesType DEF Buy, TypeOK, Task
    <2>3. \A p \in Opps \ {o} : task'[p] = task[p]  BY <1>3 DEF Buy, TypeOK
    <2> QED  BY <1>0, <2>1, <2>2, <2>3, CarryOnSerial DEF TypeOK
  <1>4. CASE BuyFailed(o)
    BY <1>0, <1>4, GotoSerial, ReleaseSerial DEF BuyFailed, Steps, ExecSteps
  <1>5. CASE BuyFilled(o)
    BY <1>0, <1>5, GotoSerial DEF BuyFilled, Steps, ExecSteps
  <1>6. CASE Sell(o)
    <2>1. UNCHANGED executing  BY <1>6 DEF Sell
    <2>2. task'[o].pc \in Steps  BY <1>6 DEF Sell, Steps, ExecSteps, TypeOK, Task
    <2>3. \A p \in Opps \ {o} : task'[p] = task[p]  BY <1>6 DEF Sell, TypeOK
    <2> QED  BY <1>0, <2>1, <2>2, <2>3, CarryOnSerial DEF TypeOK
  <1>7. CASE Complete(o)
    <2>1. ASSUME task' = [task EXCEPT ![o].pc = "half", ![o].sellRef = NoHash],
                 UNCHANGED executing
          PROVE  OneAtATime'
      <3>1. task'[o].pc \in Steps  BY <2>1 DEF Steps, ExecSteps, TypeOK, Task
      <3>2. \A p \in Opps \ {o} : task'[p] = task[p]  BY <2>1 DEF TypeOK
      <3> QED  BY <1>0, <2>1, <3>1, <3>2, CarryOnSerial DEF TypeOK
    <2> QED  BY <1>0, <1>7, <2>1, ReleaseSerial DEF Complete
  <1>8. CASE HalfOpen(o)
    BY <1>0, <1>8, ReleaseSerial DEF HalfOpen
  <1>9. CASE Fail(o)
    BY <1>0, <1>9, ReleaseSerial DEF Fail
  <1> QED  BY <1>1, <1>2, <1>3, <1>4, <1>5, <1>6, <1>7, <1>8, <1>9 DEF ExecStep

LEMMA RecoverStartSerial ==
  ASSUME TypeOK, OneAtATime, NEW o \in Opps, Recover(o)
  PROVE  OneAtATime'
  <1> DEFINE pc == IF db[o].sellTx = NoHash THEN AfterGate(db[o].dir) ELSE "r_gate"
  <1>1. pc \in Steps  BY DEF AfterGate, Steps, RecoverSteps
  <1>2. task' = [task EXCEPT ![o] = [NoTask EXCEPT !.dir = db[o].dir, !.pc = pc]]
    BY DEF Recover
  <1> HIDE DEF pc
  <1>3. [NoTask EXCEPT !.dir = db[o].dir, !.pc = pc].pc \in Steps
    BY <1>1 DEF NoTask
  <1> QED  BY <1>2, <1>3, StartSerial DEF Recover

LEMMA RecoverSerial ==
  ASSUME TypeOK, TypeOK', OneAtATime, NEW o \in Opps, RecoverStep(o)
  PROVE  OneAtATime'
  <1>0. Trading(o)
    BY DEF RecoverStep, ResolveRecordedSell, RetrySell, ReverseBuy, RecoveryComplete,
           RecoveryFailed, Trading, RecoverSteps
  <1>1. ASSUME task'[o].pc \in Steps, UNCHANGED executing,
               \A p \in Opps \ {o} : task'[p] = task[p]
        PROVE  OneAtATime'
    BY <1>0, <1>1, CarryOnSerial DEF TypeOK
  <1>2. ASSUME NEW venue, NEW onFailure \in Steps, RecoveryLeg(o, venue, onFailure)
        PROVE  OneAtATime'
    <2>1. PICK out, h :
            IF out.status = "raised"
              THEN Release(o)
              ELSE /\ task' = [task EXCEPT
                                 ![o].pc = IF out.status = "failed" THEN onFailure ELSE "r_done",
                                 ![o].sellRef = Ref(out, h)]
                   /\ UNCHANGED executing
      BY <1>2 DEF RecoveryLeg
    <2>2. CASE out.status = "raised"
      BY <1>0, <2>1, <2>2, ReleaseSerial
    <2>3. CASE out.status # "raised"
      <3>1. task'[o].pc \in Steps
        BY <2>1, <2>3 DEF TypeOK, Task, Steps, RecoverSteps
      <3>2. \A p \in Opps \ {o} : task'[p] = task[p]  BY <2>1, <2>3 DEF TypeOK
      <3> QED  BY <1>1, <2>1, <2>3, <3>1, <3>2
    <2> QED  BY <2>2, <2>3
  <1>3. CASE ResolveRecordedSell(o)
    <2>1. AfterGate(task[o].dir) \in Steps  BY DEF AfterGate, Steps, RecoverSteps
    <2>2. CASE Release(o)  BY <1>0, <2>2, ReleaseSerial
    <2>3. CASE task' = [task EXCEPT ![o].pc = "r_done", ![o].sellRef = db[o].sellTx]
               /\ UNCHANGED executing
      BY <1>1, <2>3 DEF TypeOK, Task, Steps, RecoverSteps
    <2>4. CASE Goto(o, AfterGate(task[o].dir)) /\ UNCHANGED executing
      BY <1>0, <2>1, <2>4, GotoSerial
    <2> QED  BY <1>3, <2>2, <2>3, <2>4 DEF ResolveRecordedSell
  <1>4. CASE RetrySell(o)
    BY <1>0, <1>2, <1>4, GotoSerial DEF RetrySell, Steps, RecoverSteps
  <1>5. CASE ReverseBuy(o)
    BY <1>2, <1>5 DEF ReverseBuy, Steps, RecoverSteps
  <1>6. CASE RecoveryComplete(o) \/ RecoveryFailed(o)
    BY <1>0, <1>6, ReleaseSerial DEF RecoveryComplete, RecoveryFailed
  <1> QED  BY <1>3, <1>4, <1>5, <1>6 DEF RecoverStep

LEMMA EnvironmentSerial ==
  ASSUME TypeOK, OneAtATime,
         \/ \E ps \in SUBSET Pipelines : SetArmed(ps)
         \/ ResetBreaker \/ Rollover \/ Crash
         \/ \E h \in Hash : Resolve(h)
  PROVE  OneAtATime'
  <1>1. CASE Crash
    BY <1>1 DEF Crash, OneAtATime, Trading, NoTask, ExecSteps, RecoverSteps
  <1>2. CASE UNCHANGED <<task, executing>>  BY <1>2, IdleSerial
  <1> QED  BY <1>1, <1>2 DEF SetArmed, ResetBreaker, Rollover, Resolve

LEMMA NextSerial == TypeOK /\ OneAtATime /\ [Next]_vars => OneAtATime'
  <1> SUFFICES ASSUME TypeOK, OneAtATime, [Next]_vars PROVE OneAtATime'  OBVIOUS
  <1>0. TypeOK'  BY NextType
  <1>1. CASE UNCHANGED vars
    BY <1>1, IdleSerial DEF vars
  <1>2. CASE \E d \in Directions : CexTick(d) \/ DexTick(d) \/ DexTickUnrecorded(d)
    BY <1>2, TickSerial
  <1>3. CASE \E o \in Opps : DexInsert(o) \/ ExecStep(o) \/ Recover(o) \/ RecoverStep(o)
    BY <1>0, <1>3, InsertSerial, ExecSerial, RecoverStartSerial, RecoverSerial
  <1> QED  BY <1>1, <1>2, <1>3, EnvironmentSerial DEF Next

(* engine.py's serialization flag: at most one execution or recovery is    *)
(* under way and the flag is up exactly while one is, through every fault. *)
THEOREM Serialized == Spec => []OneAtATime
  <1>1. Init => OneAtATime
    BY DEF Init, OneAtATime, Trading, NoTask, ExecSteps, RecoverSteps
  <1> QED  BY <1>1, TypeCorrect, NextSerial, PTL DEF Spec

-----------------------------------------------------------------------------
(* What a step can do to one opportunity's row and task, and to a leg.     *)

(* A tick has started p's task.                                            *)
Ticked(p) ==
  /\ \/ Fresh(p) /\ task'[p].pc = "insert"
     \/ /\ Fresh(p) /\ task'[p].pc = "spawned"
        /\ pipeline(task'[p].dir) = "cex_dex" \/ "unrecorded" \in Faults
     \/ db[p].status \in Active /\ task'[p].pc = "spawned"
  /\ task'[p].sellRef = NoHash
  /\ db'[p] = db[p]
  /\ UNCHANGED tx

Touched(p) == Ticked(p) \/ DexInsert(p) \/ ExecStep(p) \/ Recover(p) \/ RecoverStep(p)

Untouched(p) ==
  /\ task'[p] = task[p]
  /\ \/ db'[p] = db[p]
     \/ db[p].status \in Active /\ db'[p] = [db[p] EXCEPT !.status = "expired"]

(* A step that is not p's leaves its task, and its row but for the sweep.  *)
LEMMA OwnSteps ==
  ASSUME TypeOK, [Next]_vars, NEW p \in Opps
  PROVE  Touched(p) \/ Untouched(p) \/ (Crash /\ task'[p] = NoTask /\ db'[p] = db[p])
  <1>1. CASE UNCHANGED vars
    BY <1>1 DEF vars, Untouched
  <1>2. ASSUME NEW d \in Directions, CexTick(d) \/ DexTickUnrecorded(d)
        PROVE  Touched(p) \/ Untouched(p)
    <2>1. PICK o \in Opps : Fresh(o) /\ Spawn(o, d)
      BY <1>2 DEF CexTick, DexTickUnrecorded
    <2>2. UNCHANGED <<db, tx>>  BY <1>2 DEF CexTick, DexTickUnrecorded
    <2>3. CASE p = o
      <3>1. task'[p].pc = "spawned" /\ task'[p].dir = d /\ task'[p].sellRef = NoHash
        BY <2>1, <2>3 DEF Spawn, TypeOK, NoTask
      <3>2. pipeline(d) = "cex_dex" \/ "unrecorded" \in Faults
        BY <1>2 DEF CexTick, DexTickUnrecorded
      <3> QED  BY <2>1, <2>2, <2>3, <3>1, <3>2 DEF Touched, Ticked
    <2>4. CASE p # o
      BY <2>1, <2>2, <2>4 DEF Spawn, TypeOK, Untouched
    <2> QED  BY <2>3, <2>4
  <1>3. ASSUME NEW d \in Directions, DexTick(d)
        PROVE  Touched(p) \/ Untouched(p)
    <2>1. UNCHANGED tx  BY <1>3 DEF DexTick
    <2>2. \A o \in Opps : \/ db'[o] = db[o]
                          \/ /\ db[o].status \in Active
                             /\ db'[o] = [db[o] EXCEPT !.status = "expired"]
      BY <1>3 DEF DexTick
    <2>3. CASE UNCHANGED task
      BY <2>2, <2>3 DEF Untouched
    <2>4. ASSUME NEW o \in DexRows(db', d), Spawn(o, d)
          PROVE  Touched(p) \/ Untouched(p)
      <3>1. o \in Opps /\ db'[o].status \in Active  BY <2>4 DEF DexRows
      <3>2. db'[o] = db[o]
        <4>1. db[o] \in Row  BY <3>1 DEF TypeOK
        <4> QED  BY <2>2, <3>1, <4>1 DEF Active, Row
      <3>3. CASE p = o
        BY <2>1, <2>4, <3>1, <3>2, <3>3 DEF Spawn, TypeOK, NoTask, Touched, Ticked
      <3>4. CASE p # o
        BY <2>2, <2>4, <3>1, <3>4 DEF Spawn, TypeOK, Untouched
      <3> QED  BY <3>3, <3>4
    <2>5. ASSUME NEW o \in Opps, Fresh(o),
                 task' = [task EXCEPT ![o] = [NoTask EXCEPT !.pc = "insert", !.dir = d]]
          PROVE  Touched(p) \/ Untouched(p)
      <3>1. db'[o] = db[o]
        <4>1. db[o].status = "none"  BY <2>5 DEF Fresh, NoRow
        <4> QED  BY <2>2, <4>1 DEF Active
      <3>2. CASE p = o
        BY <2>1, <2>5, <3>1, <3>2 DEF TypeOK, NoTask, Touched, Ticked
      <3>3. CASE p # o
        BY <2>2, <2>5, <3>3 DEF TypeOK, Untouched
      <3> QED  BY <3>2, <3>3
    <2> QED  BY <1>3, <2>3, <2>4, <2>5 DEF DexTick, NoSpawn
  <1>4. ASSUME NEW o \in Opps, DexInsert(o) \/ ExecStep(o) \/ Recover(o) \/ RecoverStep(o)
        PROVE  Touched(p) \/ Untouched(p)
    <2>1. CASE p = o  BY <1>4, <2>1 DEF Touched
    <2>2. CASE p # o
      <3>1. db'[p] = db[p]
        BY <1>4, <2>2 DEF TypeOK, DexInsert, ExecStep, Preflight, Mark, Buy, BuyFailed, BuyFilled,
           Sell, Complete, HalfOpen, Fail, Recover, RecoverStep, ResolveRecordedSell, RetrySell,
           ReverseBuy, RecoveryComplete, RecoveryFailed, SetStatus, Update, Completed, StoreFails
      <3>2. task'[p] = task[p]
        BY <1>4, <2>2 DEF TypeOK, DexInsert, ExecStep, Preflight, Mark, Buy, BuyFailed, BuyFilled,
           Sell, Complete, HalfOpen, Fail, Recover, RecoverStep, ResolveRecordedSell, RetrySell,
           ReverseBuy, RecoveryComplete, RecoveryFailed, RecoveryLeg, Goto, Release, Spawn
      <3> QED  BY <3>1, <3>2 DEF Untouched
    <2> QED  BY <2>1, <2>2
  <1>5. CASE \/ \E ps \in SUBSET Pipelines : SetArmed(ps)
             \/ ResetBreaker \/ Rollover \/ Crash
             \/ \E h \in Hash : Resolve(h)
    <2>1. CASE Crash  BY <2>1 DEF Crash
    <2>2. CASE UNCHANGED <<db, task>>  BY <2>2 DEF Untouched
    <2> QED  BY <1>5, <2>1, <2>2 DEF SetArmed, ResetBreaker, Rollover, Resolve
  <1> QED  BY <1>1, <1>2, <1>3, <1>4, <1>5 DEF Next

(* A leg keeps its owner, and its end once it has come to one.             *)
LEMMA LegsAreKept ==
  ASSUME TypeOK, [Next]_vars, NEW g \in Hash, tx[g].state # "unused"
  PROVE  /\ tx'[g].opp = tx[g].opp /\ tx'[g].leg = tx[g].leg /\ tx'[g].state # "unused"
         /\ tx[g].state # "inflight" => tx'[g] = tx[g]
  <1>0. tx[g] \in Leg  BY DEF TypeOK
  <1>1. ASSUME NEW o, NEW leg, NEW out, NEW h, Place(o, leg, out, h)
        PROVE  tx'[g] = tx[g]
    BY <1>1 DEF Place, FreshHash, TypeOK
  <1>2. CASE UNCHANGED tx  BY <1>2
  <1>3. ASSUME NEW h \in Hash, Resolve(h)
        PROVE  /\ tx'[g].opp = tx[g].opp /\ tx'[g].leg = tx[g].leg
               /\ tx'[g].state # "unused"
               /\ tx[g].state # "inflight" => tx'[g] = tx[g]
    BY <1>0, <1>3 DEF Resolve, Ends, TypeOK, Leg
  <1>4. ASSUME NEW o \in Opps, DexInsert(o) \/ ExecStep(o) \/ Recover(o) \/ RecoverStep(o)
        PROVE  tx'[g] = tx[g]
    <2>1. CASE Buy(o)  BY <1>1, <2>1 DEF Buy
    <2>2. CASE Sell(o)  BY <1>1, <2>2 DEF Sell
    <2>3. CASE RetrySell(o)  BY <1>1, <2>3 DEF RetrySell, RecoveryLeg
    <2>4. CASE ReverseBuy(o)  BY <1>1, <2>4 DEF ReverseBuy, RecoveryLeg
    <2> QED  BY <1>4, <2>1, <2>2, <2>3, <2>4
             DEF DexInsert, ExecStep, Preflight, Mark, BuyFailed, BuyFilled, Complete, HalfOpen,
                 Fail, Recover, RecoverStep, ResolveRecordedSell, RecoveryComplete, RecoveryFailed
  <1> QED  BY <1>2, <1>3, <1>4
           DEF Next, vars, CexTick, DexTick, DexTickUnrecorded, SetArmed, ResetBreaker, Rollover,
               Crash

-----------------------------------------------------------------------------
(* Rows only move forward.                                                 *)

Unsold == {"buy_filled", "half_open"}

(* A row against the task that works on it: an execution has a row that is *)
(* still open and holds no sell yet, and a recovery past its gate has one  *)
(* whose recorded sell, if any, has come to an end.                        *)
RowFits(p) ==
  /\ db[p].status \in Active \cup {"none"} => db[p].sellTx = NoHash
  /\ task[p].pc = "insert" => db[p].status = "none"
  /\ task[p].pc \in ExecSteps => /\ db[p].status \notin {"completed", "half_open"}
                                /\ db[p].sellTx = NoHash
  /\ task[p].pc \in RecoverSteps => db[p].status \in Unsold
  /\ task[p].pc = "r_gate" => db[p].sellTx # NoHash
  /\ task[p].pc \in RecoverSteps \ {"r_gate"} =>
       db[p].sellTx = NoHash \/ tx[db[p].sellTx].state \in {"landed", "reverted"}

Forward(p) ==
  /\ db[p].status = "completed" => db'[p] = db[p]
  /\ db[p].status = "half_open" => db'[p].status \in {"half_open", "completed"}
  /\ db[p].sellTx # NoHash /\ tx[db[p].sellTx].state = "inflight"
       => db'[p].sellTx = db[p].sellTx

(* What Update does to a row that is there, and to one that is not.        *)
LEMMA UpdateOwn ==
  ASSUME TypeOK, NEW o \in Opps, NEW row, Update(o, row)
  PROVE  IF db[o].status = "none" THEN db'[o] = db[o] ELSE db'[o] = row
  BY DEF Update, TypeOK

LEMMA ExecRow ==
  ASSUME TypeOK, NEW p \in Opps, RowFits(p), ExecStep(p)
  PROVE  RowFits(p)' /\ Forward(p)
  <1>0. /\ db[p] \in Row /\ task[p] \in Task /\ task[p].pc \in ExecSteps
        /\ p \in DOMAIN db /\ p \in DOMAIN task
    BY DEF TypeOK, ExecStep, ExecSteps, Preflight, Mark, Buy, BuyFailed, BuyFilled, Sell,
           Complete, HalfOpen, Fail
  <1>1. /\ db[p].status \notin {"completed", "half_open"}
        /\ db[p].sellTx = NoHash
    BY <1>0 DEF RowFits
  <1>2. Forward(p)  BY <1>1 DEF Forward
  <1> SUFFICES RowFits(p)'  BY <1>2
  <1>s. ASSUME NEW st \in Statuses, SetStatus(p, st)
        PROVE  /\ db'[p].status \in {db[p].status, st} /\ db'[p].sellTx = NoHash
    BY <1>0, <1>1, <1>s DEF SetStatus, Update, Row
  <1>r. ASSUME Release(p)
        PROVE  task'[p].pc = "idle"
    BY <1>0, <1>r DEF Release, NoTask
  <1>g. ASSUME NEW step, Goto(p, step)
        PROVE  task'[p].pc = step
    BY <1>0, <1>g DEF Goto, Task
  <1>i. ASSUME task'[p].pc = "idle", db'[p].status \in Active \cup {"none"} => db'[p].sellTx = NoHash
        PROVE  RowFits(p)'
    BY <1>i DEF RowFits, ExecSteps, RecoverSteps
  <1>e. ASSUME task'[p].pc \in ExecSteps, db'[p].status \notin {"completed", "half_open"},
               db'[p].sellTx = NoHash
        PROVE  RowFits(p)'
    BY <1>e DEF RowFits, ExecSteps, RecoverSteps
  <1>3. CASE Preflight(p)
    BY <1>1, <1>3, <1>s, <1>r, <1>g, <1>i, <1>e DEF Preflight, Statuses, ExecSteps
  <1>4. CASE Mark(p)
    <2>1. task'[p].pc \in {"buy", "fail"}  BY <1>4, <1>g DEF Mark
    <2>2. db'[p].status \notin {"completed", "half_open"} /\ db'[p].sellTx = NoHash
      BY <1>0, <1>1, <1>4, <1>s DEF Mark, StoreFails, NoRow, Statuses
    <2> QED  BY <1>e, <2>1, <2>2 DEF ExecSteps
  <1>5. CASE Buy(p)
    <2>1. db' = db  BY <1>5 DEF Buy
    <2>2. PICK out \in Outcomes(ROUTES[task[p].dir].buy, "pending_buy" \in Faults) :
            task'[p].pc = AfterBuy(task[p].dir, out.status)
      BY <1>0, <1>5 DEF Buy, Task
    <2>3. task'[p].pc \in {"fail", "buyfail", "filled", "half", "sell"}
      BY <2>2, OutcomesType DEF AfterBuy
    <2> QED  BY <1>1, <1>e, <2>1, <2>3 DEF ExecSteps
  <1>6. CASE BuyFailed(p)
    BY <1>1, <1>6, <1>s, <1>r, <1>g, <1>i, <1>e DEF BuyFailed, StoreFails, Statuses, ExecSteps
  <1>7. CASE BuyFilled(p)
    <2>1. task'[p].pc \in {"half", "sell"}  BY <1>7, <1>g DEF BuyFilled
    <2>2. db'[p].status \in {db[p].status, "buy_filled"} /\ db'[p].sellTx = NoHash
      <3> DEFINE row == [db[p] EXCEPT !.status = "buy_filled", !.buyAmt = TRUE,
                                      !.buyTx = Keep(task[p].buyRef, @)]
      <3>1. row.status = "buy_filled" /\ row.sellTx = NoHash  BY <1>0, <1>1 DEF Row
      <3>2. Update(p, row) \/ db' = db  BY <1>7 DEF BuyFilled, StoreFails
      <3> HIDE DEF row
      <3> QED  BY <1>1, <3>1, <3>2, UpdateOwn
    <2> QED  BY <1>1, <1>e, <2>1, <2>2 DEF ExecSteps
  <1>8. CASE Sell(p)
    <2>1. db' = db  BY <1>8 DEF Sell
    <2>2. PICK out, h :
            task' = [task EXCEPT ![p].pc = IF out.status = "ok" THEN "done" ELSE "half",
                                 ![p].sellRef = Ref(out, h)]
      BY <1>8 DEF Sell
    <2>3. task'[p].pc \in {"done", "half"}  BY <1>0, <2>2 DEF Task
    <2> QED  BY <1>1, <1>e, <2>1, <2>3 DEF ExecSteps
  <1>9. CASE Complete(p)
    <2>1. CASE Completed(p) /\ Release(p)
      <3>1. db'[p].status = "completed" \/ db'[p] = db[p]
        BY <1>0, <2>1 DEF Completed, Update, Row
      <3> QED  BY <1>1, <1>r, <1>i, <2>1, <3>1 DEF Active
    <2>2. CASE StoreFails /\ task'[p].pc = "half"
      BY <1>1, <1>e, <2>2 DEF StoreFails, ExecSteps
    <2> QED  BY <1>0, <1>9, <2>1, <2>2 DEF Complete, Task
  <1>10. CASE HalfOpen(p)
    <2>1. db'[p].status = "half_open" \/ db'[p] = db[p]
      BY <1>0, <1>10 DEF HalfOpen, StoreFails, Update, Row
    <2> QED  BY <1>1, <1>10, <1>r, <1>i, <2>1 DEF HalfOpen, Active
  <1>11. CASE Fail(p)
    BY <1>1, <1>11, <1>s, <1>r, <1>i DEF Fail, StoreFails, Statuses
  <1> QED  BY <1>3, <1>4, <1>5, <1>6, <1>7, <1>8, <1>9, <1>10, <1>11 DEF ExecStep

LEMMA RecoverRow ==
  ASSUME TypeOK, [Next]_vars, NEW p \in Opps, RowFits(p), RecoverStep(p)
  PROVE  RowFits(p)' /\ Forward(p)
  <1>0. /\ db[p] \in Row /\ task[p] \in Task /\ task[p].pc \in RecoverSteps
        /\ p \in DOMAIN db /\ p \in DOMAIN task
    BY DEF TypeOK, RecoverStep, RecoverSteps, ResolveRecordedSell, RetrySell, ReverseBuy,
           RecoveryComplete, RecoveryFailed
  <1>1. db[p].status \in Unsold  BY <1>0 DEF RowFits
  <1>r. ASSUME Release(p)
        PROVE  task'[p].pc = "idle"
    BY <1>0, <1>r DEF Release, NoTask
  <1>g. ASSUME NEW step, Goto(p, step)
        PROVE  task'[p].pc = step
    BY <1>0, <1>g DEF Goto, Task
  <1>i. ASSUME task'[p].pc = "idle", db'[p].status \in Unsold \cup {"completed"}
        PROVE  RowFits(p)'
    BY <1>i DEF RowFits, ExecSteps, RecoverSteps, Unsold, Active
  <1>p. ASSUME task'[p].pc \in RecoverSteps \ {"r_gate"}, db'[p] = db[p],
               db[p].sellTx = NoHash \/ tx[db[p].sellTx].state \in {"landed", "reverted"}
        PROVE  RowFits(p)'
    <2>1. db[p].sellTx \in Hash /\ tx[db[p].sellTx].state \in {"landed", "reverted"}
            => tx'[db[p].sellTx] = tx[db[p].sellTx]
      BY LegsAreKept
    <2>2. db[p].sellTx \in Hash \cup {NoHash}  BY <1>0 DEF Row
    <2>3. db[p].sellTx = NoHash \/ tx'[db[p].sellTx].state \in {"landed", "reverted"}
      BY <1>p, <2>1, <2>2
    <2> QED  BY <1>p, <1>1, <2>3 DEF RowFits, ExecSteps, RecoverSteps, Unsold, Active
  <1>f. ASSUME db'[p] = db[p]
        PROVE  Forward(p)
    BY <1>f DEF Forward
  <1>k. ASSUME task[p].pc # "r_gate", NEW venue, NEW onFailure \in {"r_reverse", "r_failed"},
               RecoveryLeg(p, venue, onFailure), db' = db
        PROVE  RowFits(p)'
    <2>1. CASE Release(p)  BY <1>1, <1>k, <1>r, <1>i, <2>1
    <2>2. CASE task'[p].pc \in {onFailure, "r_done"}
      BY <1>0, <1>k, <1>p, <2>2 DEF RowFits, RecoverSteps
    <2> QED  BY <1>0, <1>k, <2>1, <2>2 DEF RecoveryLeg, Task
  <1>2. CASE ResolveRecordedSell(p)
    <2>1. db' = db  BY <1>2 DEF ResolveRecordedSell
    <2>2. CASE Release(p)  BY <1>1, <1>f, <1>r, <1>i, <2>1, <2>2
    <2>3. CASE ~Release(p)
      <3>1. task'[p].pc \in {"r_done", AfterGate(task[p].dir)}
        BY <1>0, <1>2, <1>g, <2>3 DEF ResolveRecordedSell, Task
      <3>2. tx[db[p].sellTx].state \in {"landed", "reverted"}
        BY <1>2, <2>3 DEF ResolveRecordedSell
      <3> QED  BY <1>f, <1>p, <2>1, <3>1, <3>2 DEF AfterGate, RecoverSteps
    <2> QED  BY <2>2, <2>3
  <1>3. CASE RetrySell(p)
    <2>1. db' = db  BY <1>3 DEF RetrySell
    <2>3. db[p].sellTx = NoHash \/ tx[db[p].sellTx].state \in {"landed", "reverted"}
      BY <1>3 DEF RetrySell, RowFits, RecoverSteps
    <2>2. CASE Goto(p, "r_reverse")
      BY <1>3, <1>f, <1>g, <1>p, <2>1, <2>2, <2>3 DEF RecoverSteps
    <2> QED  BY <1>3, <1>f, <1>k, <2>1, <2>2 DEF RetrySell
  <1>4. CASE ReverseBuy(p)
    BY <1>4, <1>f, <1>k DEF ReverseBuy
  <1>5. CASE RecoveryComplete(p)
    <2>1. /\ db[p].sellTx = NoHash \/ tx[db[p].sellTx].state \in {"landed", "reverted"}
      BY <1>0, <1>5 DEF RecoveryComplete, RowFits, RecoverSteps
    <2>2. db'[p] = db[p] \/ db'[p].status = "completed"
      BY <1>0, <1>5 DEF RecoveryComplete, StoreFails, Completed, Update, Row
    <2>3. Forward(p)  BY <1>1, <2>1, <2>2 DEF Forward, Unsold
    <2> QED  BY <1>1, <1>5, <1>r, <1>i, <2>2, <2>3 DEF RecoveryComplete
  <1>6. CASE RecoveryFailed(p)
    <2>1. db'[p] = db[p] \/ (db'[p].status = "half_open" /\ db'[p].sellTx = db[p].sellTx)
      BY <1>0, <1>6 DEF RecoveryFailed, StoreFails, SetStatus, Update, Row
    <2>2. Forward(p)  BY <1>1, <2>1 DEF Forward, Unsold
    <2> QED  BY <1>1, <1>6, <1>r, <1>i, <2>1, <2>2 DEF RecoveryFailed, Unsold
  <1> QED  BY <1>2, <1>3, <1>4, <1>5, <1>6 DEF RecoverStep

LEMMA NextRow ==
  ASSUME TypeOK, OneAtATime, [Next]_vars, NEW p \in Opps, RowFits(p)
  PROVE  RowFits(p)' /\ Forward(p)
  <1>0. db[p] \in Row /\ task[p] \in Task /\ p \in DOMAIN db /\ p \in DOMAIN task
    BY DEF TypeOK
  <1>1. CASE Ticked(p)
    BY <1>1 DEF Ticked, Fresh, NoRow, RowFits, Forward, Active, ExecSteps, RecoverSteps
  <1>2. CASE DexInsert(p)
    <2>1. db[p].status = "none" /\ db[p].sellTx = NoHash
      BY <1>2 DEF DexInsert, RowFits
    <2>2. Forward(p)  BY <2>1 DEF Forward
    <2>3. db'[p].status \in {"none", "detected"} /\ db'[p].sellTx = NoHash
      BY <1>0, <1>2, <2>1 DEF DexInsert, StoreFails, NoRow
    <2>4. task'[p].pc \in {"idle", "spawned"}
      <3>1. CASE Spawn(p, task[p].dir)
        BY <1>0, <3>1 DEF Spawn, NoTask
      <3>2. CASE task' = [task EXCEPT ![p] = NoTask]
        BY <1>0, <3>2 DEF NoTask
      <3> QED  BY <1>2, <3>1, <3>2 DEF DexInsert
    <2> QED  BY <2>2, <2>3, <2>4 DEF RowFits, Active, ExecSteps, RecoverSteps
  <1>3. CASE Recover(p)
    <2>1. db' = db /\ db[p].status \in Unsold
      BY <1>3 DEF Recover, Recoverable, Unsold
    <2>2. task'[p].pc = IF db[p].sellTx = NoHash THEN AfterGate(db[p].dir) ELSE "r_gate"
      BY <1>0, <1>3 DEF Recover, NoTask
    <2> QED  BY <2>1, <2>2 DEF RowFits, Forward, AfterGate, Unsold, Active, ExecSteps, RecoverSteps
  <1>4. CASE Untouched(p)
    <2>1. CASE db'[p] = db[p]
      <3>1. task[p].pc \in RecoverSteps \ {"r_gate"} /\ db[p].sellTx # NoHash
              => tx'[db[p].sellTx] = tx[db[p].sellTx]
        BY <1>0, LegsAreKept DEF RowFits, Row
      <3> QED  BY <1>4, <2>1, <3>1 DEF Untouched, RowFits, Forward
    <2>2. CASE db[p].status \in Active /\ db'[p] = [db[p] EXCEPT !.status = "expired"]
      <3>1. db'[p].status = "expired" /\ db'[p].sellTx = NoHash /\ db[p].sellTx = NoHash
        BY <1>0, <2>2 DEF Row, RowFits
      <3>2. task[p].pc \notin RecoverSteps /\ task[p].pc # "insert"
        BY <2>2 DEF RowFits, Unsold, Active
      <3> QED  BY <1>4, <2>2, <3>1, <3>2 DEF Untouched, RowFits, Forward, Active
    <2> QED  BY <1>4, <2>1, <2>2 DEF Untouched
  <1>5. CASE task'[p] = NoTask /\ db'[p] = db[p]
    BY <1>5 DEF NoTask, RowFits, Forward, ExecSteps, RecoverSteps
  <1> QED  BY <1>1, <1>2, <1>3, <1>4, <1>5, OwnSteps, ExecRow, RecoverRow DEF Touched

RowsFit == \A p \in Opps : RowFits(p)

LEMMA RowsFitHolds == Spec => []RowsFit
  <1>1. Init => RowsFit
    BY DEF Init, RowsFit, RowFits, NoRow, NoTask, ExecSteps, RecoverSteps
  <1>2. TypeOK /\ OneAtATime /\ RowsFit /\ [Next]_vars => RowsFit'
    BY NextRow DEF RowsFit
  <1> QED  BY <1>1, <1>2, TypeCorrect, Serialized, PTL DEF Spec

(* The updates of arb_attempts never take a closed row back, reopen a sold *)
(* half-open one or forget a sell still in flight, whatever fails.         *)
THEOREM RowsNeverGoBack == Spec => RowsMoveForward
  <1>1. TypeOK /\ OneAtATime /\ RowsFit /\ [Next]_vars
          => [\A o \in Opps :
                /\ db[o].status = "completed" => db'[o] = db[o]
                /\ db[o].status = "half_open" => db'[o].status \in {"half_open", "completed"}
                /\ db[o].sellTx # NoHash /\ tx[db[o].sellTx].state = "inflight"
                     => db'[o].sellTx = db[o].sellTx]_vars
    BY NextRow DEF RowsFit, Forward
  <1> QED  BY <1>1, RowsFitHolds, TypeCorrect, Serialized, PTL DEF Spec, RowsMoveForward

=============================================================================
