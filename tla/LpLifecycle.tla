----------------------------- MODULE LpLifecycle -----------------------------
(***************************************************************************)
(* The life of the LP position of one DEX venue: engine/lp/rebalancer.py   *)
(* over engine/lp/uniswap_v4.py, the ids kept in the table lp_token_ids,   *)
(* and the reconcile of the two at start-up (engine/main.py).              *)
(*                                                                         *)
(* The LP account owns NFTs on chain; the engine acts on what it remembers *)
(* of them.  One job at a time holds the venue's lock: the rebalance cycle *)
(* of the scheduler, or a withdrawal an operator asked for.  A step is what*)
(* runs between two awaits; waiting for a receipt blocks the whole loop    *)
(* (wait_for_transaction_receipt is synchronous), so sending a transaction *)
(* and learning its outcome are one step of the engine.  The chain, the    *)
(* wallet and the operator move at any time.                               *)
(***************************************************************************)
EXTENDS Naturals, Sequences, FiniteSets

CONSTANTS
  Ids,       \* NFT token ids the PositionManager may hand out
  Faults,    \* environment behaviours switched on, see FaultKinds
  MaxQueue,  \* bound on the transactions broadcast and not mined
  NoId

(* What the environment may do beyond answering every call:                *)
(*  store    a write to SQLite raises and is not applied                   *)
(*  pending  a receipt does not arrive within the 120 s the engine waits   *)
(*  killed   the process dies while it waits for a receipt                 *)
(*  rpc      a read of the chain fails, or finds only some of the NFTs     *)
FaultKinds == {"store", "pending", "killed", "rpc"}

ASSUME ConstantsAssumption ==
  /\ Faults \subseteq FaultKinds
  /\ MaxQueue \in Nat
  /\ NoId \notin Ids
  /\ IsFiniteSet(Ids)

VARIABLES
  nfts,       \* the NFTs the LP account owns
  used,       \* every id handed out so far
  idle,       \* the LP wallet holds a top-up threshold's worth of a token
  queue,      \* transactions broadcast, not mined and no longer awaited
  up,         \* the process runs
  cache,      \* V4PositionManager._owned_token_ids
  enabled,    \* scheduler.state.trading_enabled
  paused,     \* venue.paused
  waiting,    \* coroutines queued on the venue lock
  job,        \* the coroutine that holds it
  db,         \* lp_token_ids, trading_enabled and venue_paused as stored
  unrecorded, \* ghost: ids whose last change the engine did not see through
  blind,      \* ghost: a discovery failed or was partial
  unwound     \* ghost: whether every position was unwound while trading is off,
              \* by this process ("here") or by an earlier one ("restarted")

chain  == <<nfts, used, idle, queue>>
memory == <<up, cache, enabled, paused, waiting, job>>
ghosts == <<unrecorded, blind, unwound>>
vars   == <<chain, memory, db, ghosts>>

-----------------------------------------------------------------------------
(* Jobs.  "ratio" is the price read and the ratio swap before a mint or a  *)
(* top-up (plan says which); "save", "forget" and "strike" are the writes  *)
(* of lp_token_ids that follow a confirmed mint, rebalance removal and     *)
(* withdrawal.                                                             *)

IdSteps == {"topup", "save", "remove", "forget", "strike"}
Steps   == {"rest", "ratio", "mint", "withdraw"} \cup IdSteps
Plans   == {"none", "mint", "topup", "withdraw", "unwind"}

Job  == [step : Steps, plan : Plans, id : Ids \cup {NoId}, todo : SUBSET Ids,
         clean : BOOLEAN]
Rest == [step |-> "rest", plan |-> "none", id |-> NoId, todo |-> {},
         clean |-> TRUE]

AtRest == job.step = "rest"

Create     == [Rest EXCEPT !.step = "ratio", !.plan = "mint"]
TopUp(id)  == [Rest EXCEPT !.step = "ratio", !.plan = "topup", !.id = id]
Replace(id) == [Rest EXCEPT !.step = "remove", !.id = id]

Tx == [kind : {"mint", "remove", "topup", "swap"}, id : Ids \cup {NoId},
       out : BOOLEAN]

Sent(kind, id, out) == [kind |-> kind, id |-> id, out |-> out]

(* _owned_token_ids = None, a value no set of ids has.                     *)
NoCache == {NoId}

(* What the engine takes its positions to be.                              *)
Known == IF cache = NoCache THEN {} ELSE cache

Init ==
  /\ nfts = {} /\ used = {} /\ idle = FALSE /\ queue = <<>>
  /\ up = TRUE /\ cache = {} /\ enabled = TRUE /\ paused = FALSE
  /\ waiting = {} /\ job = Rest
  /\ db = [ids |-> {}, enabled |-> TRUE, paused |-> FALSE]
  /\ unrecorded = {} /\ blind = FALSE /\ unwound = "no"

-----------------------------------------------------------------------------
(* The chain and the wallet.                                               *)

Deposit == /\ ~idle
           /\ idle' = TRUE
           /\ UNCHANGED <<nfts, used, queue, memory, db, ghosts>>

(* Funds moved out of the LP wallet by hand (scripts/transfer.py).         *)
Sweep == /\ idle
         /\ idle' = FALSE
         /\ UNCHANGED <<nfts, used, queue, memory, db, ghosts>>

(* Effects of a transaction that succeeds.                                 *)
Minted(id)  == /\ idle /\ id \notin used
               /\ nfts' = nfts \cup {id}
               /\ used' = used \cup {id}
               /\ idle' = FALSE
Burnt(id, out) == /\ id \in nfts
                  /\ nfts' = nfts \ {id}
                  /\ idle' = (idle \/ ~out)
                  /\ used' = used
ToppedUp(id) == /\ idle /\ id \in nfts
                /\ idle' = FALSE
                /\ UNCHANGED <<nfts, used>>

(* A transaction nobody waits for is mined, in nonce order, or reverts.    *)
LandMint == /\ Head(queue).kind = "mint"
            /\ \E id \in Ids : Minted(id) /\ unrecorded' = unrecorded \cup {id}
LandRemove == LET t == Head(queue) IN
              /\ t.kind = "remove"
              /\ Burnt(t.id, t.out)
              /\ unrecorded' = unrecorded \cup {t.id}
LandTopUp == /\ Head(queue).kind = "topup"
             /\ ToppedUp(Head(queue).id)
             /\ UNCHANGED unrecorded
Lapse == UNCHANGED <<nfts, used, idle, unrecorded>>

MineLate == /\ queue # <<>>
            /\ queue' = Tail(queue)
            /\ LandMint \/ LandRemove \/ LandTopUp \/ Lapse
            /\ UNCHANGED <<memory, db, blind, unwound>>

(* A transaction is confirmed within the wait only when every earlier one  *)
(* of the account is mined; otherwise, with the fault, it stays behind.    *)
Mined == queue = <<>> /\ queue' = queue

LeftBehind(kind, id, out) ==
  /\ "pending" \in Faults
  /\ Len(queue) < MaxQueue
  /\ queue' = Append(queue, Sent(kind, id, out))
  /\ UNCHANGED <<nfts, used, idle>>

-----------------------------------------------------------------------------
(* What the engine reads of the chain.                                     *)

Found(ids, c, b) == [ids |-> ids, cache |-> c, blind |-> b]

(* _discover_owned_positions: the log scan keeps the ids whose ownerOf it  *)
(* could read, and accepts any non-empty answer.                           *)
PartialDiscoveries ==
  IF "rpc" \in Faults THEN {Found(s, s, TRUE) : s \in (SUBSET nfts) \ {{}, nfts}}
                      ELSE {}
FailedDiscoveries ==
  IF "rpc" \in Faults THEN {Found({}, NoCache, TRUE)} ELSE {}
Discoveries == {Found(nfts, nfts, FALSE)} \cup PartialDiscoveries

(* get_owned_positions: the cache, or a discovery whose failure reads as   *)
(* no position.                                                            *)
OwnedPositions ==
  IF cache # NoCache THEN {Found(cache, cache, FALSE)}
                     ELSE Discoveries \cup FailedDiscoveries

Saw(seen) == /\ cache' = seen.cache
             /\ blind' = (blind \/ seen.blind)

(* _check_and_rebalance_locked up to its first await: more than one id     *)
(* halts, none mints what the wallet holds, and one is looked at; an id    *)
(* that is burnt has no state and is skipped.                              *)
Choices(ids) ==
  IF ids = {} THEN (IF idle THEN {Create} ELSE {Rest})
  ELSE IF Cardinality(ids) > 1 THEN {Rest}
  ELSE {Rest} \cup {Replace(id) : id \in ids \cap nfts}
              \cup {TopUp(id) : id \in {i \in ids \cap nfts : idle}}

NextJobs(ids) == Choices(ids) \cup (IF "rpc" \in Faults THEN {Rest} ELSE {})

-----------------------------------------------------------------------------
(* The rebalance cycle.                                                    *)

(* check_dex_rebalance reads both switches before it asks for the lock.    *)
Tick == /\ up /\ enabled /\ ~paused
        /\ waiting' = waiting \cup {"cycle"}
        /\ UNCHANGED <<chain, up, cache, enabled, paused, job, db, ghosts>>

(* check_and_rebalance, with the lock: trading may be off by now.          *)
MayManageAlways == TRUE

MayManage == enabled

LockCycle ==
  /\ up /\ AtRest /\ "cycle" \in waiting
  /\ waiting' = waiting \ {"cycle"}
  /\ \/ /\ ~MayManage
        /\ UNCHANGED <<cache, job, blind>>
     \/ /\ MayManage
        /\ \E seen \in OwnedPositions :
             /\ Saw(seen)
             /\ job' \in NextJobs(seen.ids)
  /\ UNCHANGED <<chain, up, enabled, paused, db, unrecorded, unwound>>

(* The frame of a step of the job: what no step of it writes.              *)
JobFrame == UNCHANGED <<up, enabled, paused, waiting, blind>>

(* The write of the job's id is not carried out.                           *)
Unfinished ==
  unrecorded' = IF job.step \in {"save", "forget", "strike"}
                  THEN unrecorded \cup {job.id} ELSE unrecorded

(* The prices are read, the range is computed and the wallet is swapped to *)
(* the ratio of the range, if it is not there already.                     *)
RatioReached ==
  /\ up /\ job.step = "ratio"
  /\ job' = [job EXCEPT !.step = job.plan]
  /\ UNCHANGED <<chain, cache, db, unrecorded, unwound>>
  /\ JobFrame

(* Too few prices, an error, or a swap that is not confirmed.              *)
RatioMissed ==
  /\ up /\ job.step = "ratio"
  /\ job' = Rest
  /\ \/ UNCHANGED chain
     \/ LeftBehind("swap", NoId, FALSE)
  /\ UNCHANGED <<cache, db, unrecorded, unwound>>
  /\ JobFrame

(* mint_position adds the id to the cache; the id is stored afterwards.    *)
MintedCacheMissed(id) == cache

MintedCache(id) == Known \cup {id}

MintConfirmed ==
  /\ up /\ job.step = "mint"
  /\ Mined
  /\ \E id \in Ids :
       /\ Minted(id)
       /\ cache' = MintedCache(id)
       /\ job' = [Rest EXCEPT !.step = "save", !.id = id]
  /\ UNCHANGED <<db, unrecorded, unwound>>
  /\ JobFrame

(* A mint that raises, reverts or stays unconfirmed is recorded as failed. *)
MintFailed ==
  /\ up /\ job.step = "mint"
  /\ job' = Rest
  /\ \/ UNCHANGED chain
     \/ idle /\ LeftBehind("mint", NoId, FALSE)
  /\ UNCHANGED <<cache, db, unrecorded, unwound>>
  /\ JobFrame

SaveMinted ==
  /\ up /\ job.step = "save"
  /\ job' = Rest
  /\ \/ db' = [db EXCEPT !.ids = @ \cup {job.id}] /\ UNCHANGED unrecorded
     \/ "store" \in Faults /\ db' = db /\ Unfinished
  /\ UNCHANGED <<chain, cache, unwound>>
  /\ JobFrame

TopUpDone ==
  /\ up /\ job.step = "topup"
  /\ job' = Rest
  /\ \/ Mined /\ ToppedUp(job.id)
     \/ UNCHANGED chain
     \/ idle /\ LeftBehind("topup", job.id, FALSE)
  /\ UNCHANGED <<cache, db, unrecorded, unwound>>
  /\ JobFrame

(* remove_position drops the id from the cache once it is confirmed.       *)
RemovedCacheKept(id) == cache

RemovedCache(id) == IF cache = NoCache THEN NoCache ELSE cache \ {id}

RemoveConfirmed ==
  /\ up /\ job.step = "remove"
  /\ Mined
  /\ Burnt(job.id, FALSE)
  /\ cache' = RemovedCache(job.id)
  /\ job' = [job EXCEPT !.step = "forget"]
  /\ UNCHANGED <<db, unrecorded, unwound>>
  /\ JobFrame

AfterFailedRemoveCreate == Create

AfterFailedRemove == Rest

RemoveFailed ==
  /\ up /\ job.step = "remove"
  /\ job' = AfterFailedRemove
  /\ \/ UNCHANGED chain
     \/ job.id \in nfts /\ LeftBehind("remove", job.id, FALSE)
  /\ UNCHANGED <<cache, db, unrecorded, unwound>>
  /\ JobFrame

(* The stored id goes before the position is made anew; an error of either *)
(* write ends the rebalance without a mint.                                *)
ForgottenNot == db

Forgotten == [db EXCEPT !.ids = @ \ {job.id}]

ForgetRemoved ==
  /\ up /\ job.step = "forget"
  /\ \/ db' = Forgotten /\ job' = Create /\ UNCHANGED unrecorded
     \/ "store" \in Faults /\ db' \in {db, Forgotten} /\ job' = Rest /\ Unfinished
  /\ UNCHANGED <<chain, cache, unwound>>
  /\ JobFrame

-----------------------------------------------------------------------------
(* Withdrawals: withdraw_positions, whatever trading_enabled and paused.   *)

WithdrawalOfNothing(plan, ids) ==
  [Rest EXCEPT !.step = "withdraw", !.plan = plan, !.todo = ids]

Withdrawal(plan, ids) ==
  IF ids = {} THEN Rest
  ELSE [Rest EXCEPT !.step = "withdraw", !.plan = plan, !.todo = ids]

(* The ghost of an unwind that removed all it knew of while trading is off *)
(* in memory and in the store.                                             *)
Unwinding(plan, done) ==
  unwound' = IF plan = "unwind" /\ done /\ ~enabled /\ ~db.enabled THEN "here"
             ELSE unwound

(* /withdraw with a recipient: the tokens leave the LP wallet.             *)
LockWithdraw ==
  /\ up /\ AtRest
  /\ \E seen \in OwnedPositions :
       /\ Saw(seen)
       /\ job' = Withdrawal("withdraw", seen.ids)
  /\ UNCHANGED <<chain, up, enabled, paused, waiting, db, unrecorded, unwound>>

(* shutdown with unwind: trading is switched off first, then the lock is   *)
(* awaited.  A store error of the switch ends the command.                 *)
RequestUnwind ==
  /\ up
  /\ enabled' = FALSE
  /\ \/ /\ db' = [db EXCEPT !.enabled = FALSE]
        /\ waiting' = waiting \cup {"unwind"}
     \/ "store" \in Faults /\ UNCHANGED <<db, waiting>>
  /\ UNCHANGED <<chain, up, cache, paused, job, ghosts>>

LockUnwind ==
  /\ up /\ AtRest /\ "unwind" \in waiting
  /\ waiting' = waiting \ {"unwind"}
  /\ \E seen \in OwnedPositions :
       /\ Saw(seen)
       /\ job' = Withdrawal("unwind", seen.ids)
       /\ Unwinding("unwind", seen.ids = {})
  /\ UNCHANGED <<chain, up, enabled, paused, db, unrecorded>>

WithdrawConfirmed ==
  /\ up /\ job.step = "withdraw"
  /\ Mined
  /\ \E id \in job.todo :
       /\ Burnt(id, job.plan = "withdraw")
       /\ cache' = RemovedCache(id)
       /\ job' = [job EXCEPT !.step = "strike", !.id = id]
  /\ UNCHANGED <<db, unrecorded, unwound>>
  /\ JobFrame

(* The loop goes on after a removal that failed or stays unconfirmed, and  *)
(* ends with one that raises (an id that is burnt fails to estimate).      *)
Continue(todo, clean) ==
  IF todo = {} THEN Rest
  ELSE [job EXCEPT !.step = "withdraw", !.id = NoId, !.todo = todo,
                   !.clean = clean]

WithdrawFailed ==
  /\ up /\ job.step = "withdraw"
  /\ \E id \in job.todo :
       /\ job' \in {Continue(job.todo \ {id}, FALSE), Rest}
       /\ \/ UNCHANGED chain
          \/ id \in nfts /\ LeftBehind("remove", id, job.plan = "withdraw")
  /\ UNCHANGED <<cache, db, unrecorded, unwound>>
  /\ JobFrame

StrikeRemoved ==
  LET left == job.todo \ {job.id} IN
  /\ up /\ job.step = "strike"
  /\ \/ /\ db' = Forgotten
        /\ job' = Continue(left, job.clean)
        /\ Unwinding(job.plan, left = {} /\ job.clean)
        /\ UNCHANGED unrecorded
     \/ /\ "store" \in Faults
        /\ db' \in {db, Forgotten}
        /\ job' = Rest
        /\ Unfinished
        /\ UNCHANGED unwound
  /\ UNCHANGED <<chain, cache>>
  /\ JobFrame

-----------------------------------------------------------------------------
(* Switches: each is set in memory and then stored.                        *)

Stored(new) == \/ db' = new
               \/ "store" \in Faults /\ db' = db

PauseTrading ==
  /\ up /\ enabled' = FALSE
  /\ Stored([db EXCEPT !.enabled = FALSE])
  /\ UNCHANGED <<chain, up, cache, paused, waiting, job, ghosts>>

ResumeTrading ==
  /\ up /\ enabled' = TRUE
  /\ Stored([db EXCEPT !.enabled = TRUE])
  /\ unwound' = "no"
  /\ UNCHANGED <<chain, up, cache, paused, waiting, job, unrecorded, blind>>

SetVenue(b) ==
  /\ up /\ paused' = b
  /\ Stored([db EXCEPT !.paused = b])
  /\ UNCHANGED <<chain, up, cache, enabled, waiting, job, ghosts>>

(* The reports (sync_positions, /positions, exposure) ask for the owned    *)
(* positions without the lock, and fill an unset cache.                    *)
Report ==
  /\ up /\ cache = NoCache
  /\ \E seen \in OwnedPositions : Saw(seen)
  /\ UNCHANGED <<chain, up, enabled, paused, waiting, job, db, unrecorded, unwound>>

-----------------------------------------------------------------------------
(* The end of the process and its start.                                   *)

Down == /\ up' = FALSE /\ cache' = NoCache /\ enabled' = FALSE
        /\ paused' = FALSE /\ waiting' = {} /\ job' = Rest

(* SIGTERM, at any await.                                                  *)
Stop == /\ up
        /\ Down
        /\ Unfinished
        /\ UNCHANGED <<chain, db, blind, unwound>>

(* The process dies while it waits for the receipt of what it just sent.   *)
KilledWaiting ==
  /\ "killed" \in Faults
  /\ up
  /\ Len(queue) < MaxQueue
  /\ \/ job.step = "mint" /\ queue' = Append(queue, Sent("mint", NoId, FALSE))
     \/ job.step \in {"remove", "topup"}
          /\ queue' = Append(queue, Sent(job.step, job.id, FALSE))
     \/ /\ job.step = "withdraw"
        /\ \E id \in job.todo :
             queue' = Append(queue, Sent("remove", id, job.plan = "withdraw"))
  /\ Down
  /\ UNCHANGED <<nfts, used, idle, db, ghosts>>

(* lifespan: the switches are restored from the store.                     *)
Started(c) ==
  /\ up' = TRUE /\ cache' = c
  /\ enabled' = db.enabled /\ paused' = db.paused
  /\ unwound' = IF unwound = "no" THEN "no" ELSE "restarted"
  /\ UNCHANGED <<waiting, job>>

CountMatches == db.ids # {} /\ Cardinality(db.ids) = Cardinality(nfts)

(* _load_lp_token_ids: stored ids are trusted when their number is the     *)
(* balance on chain.                                                       *)
StartTrusting ==
  /\ ~up
  /\ CountMatches
  /\ Started(db.ids)
  /\ UNCHANGED <<chain, db, unrecorded, blind>>

(* ... otherwise discovered anew, and the table corrected.                 *)
StartVerified ==
  /\ ~up
  /\ ~CountMatches
  /\ \E seen \in Discoveries :
       /\ blind' = (blind \/ seen.blind)
       /\ db' = [db EXCEPT !.ids = seen.ids]
       /\ Started(seen.ids)
  /\ UNCHANGED <<chain, unrecorded>>

(* A store error, or a stop, between two of those corrections: first the   *)
(* removals, then the insertions.                                          *)
StartAborted ==
  /\ ~up
  /\ ~CountMatches
  /\ \E seen \in Discoveries :
       /\ blind' = (blind \/ seen.blind)
       /\ \E part \in SUBSET (db.ids \cup seen.ids) :
            /\ db.ids \cap seen.ids \subseteq part
            /\ part \subseteq db.ids \/ part \subseteq seen.ids
            /\ db' = [db EXCEPT !.ids = part]
  /\ UNCHANGED <<chain, memory, unrecorded, unwound>>

(* ... and kept when the chain cannot be read; with none stored the cache  *)
(* stays unset.                                                            *)
StartUnread ==
  /\ ~up
  /\ "rpc" \in Faults
  /\ blind' = TRUE
  /\ Started(IF db.ids = {} THEN NoCache ELSE db.ids)
  /\ UNCHANGED <<chain, db, unrecorded>>

-----------------------------------------------------------------------------
CycleStep == \/ LockCycle \/ RatioReached \/ RatioMissed
             \/ MintConfirmed \/ MintFailed \/ SaveMinted
             \/ TopUpDone
             \/ RemoveConfirmed \/ RemoveFailed \/ ForgetRemoved

WithdrawStep == \/ LockUnwind \/ WithdrawConfirmed \/ WithdrawFailed
                \/ StrikeRemoved

Operator == \/ LockWithdraw \/ RequestUnwind
            \/ PauseTrading \/ ResumeTrading
            \/ \E b \in BOOLEAN : SetVenue(b)
            \/ Deposit \/ Sweep \/ Stop

Start == StartTrusting \/ StartVerified \/ StartUnread

Next == \/ Tick \/ CycleStep \/ WithdrawStep \/ Report
        \/ Operator \/ MineLate \/ KilledWaiting
        \/ Start \/ StartAborted

Spec == Init /\ [][Next]_vars

(* The scheduler ticks while its job may run, a coroutine that can run is  *)
(* run, the lock is handed over in order, and the prices, the ratio swap   *)
(* and the mint do not fail for ever.  No fairness of the operator, of the *)
(* chain beyond that, or of a start.                                       *)
Fairness == /\ WF_vars(Tick)
            /\ SF_vars(LockCycle)
            /\ WF_vars(CycleStep \/ WithdrawStep)
            /\ SF_vars(RatioReached)
            /\ SF_vars(MintConfirmed)

FairSpec == Spec /\ Fairness

-----------------------------------------------------------------------------
(* Properties.                                                             *)

(* A step that acts on an NFT names it, and a withdrawal has one to remove.*)
JobShape ==
  /\ job.step \in IdSteps => job.id # NoId
  /\ job.step = "withdraw" => job.todo # {}
  /\ job.step = "ratio" => job.plan \in {"mint", "topup"}
  /\ job.plan = "topup" => job.id # NoId /\ job.step \in {"ratio", "topup"}

(* Every variable keeps its type and the job its shape.                    *)
TypeOK ==
  /\ nfts \subseteq used /\ used \subseteq Ids
  /\ idle \in BOOLEAN /\ up \in BOOLEAN
  /\ enabled \in BOOLEAN /\ paused \in BOOLEAN /\ blind \in BOOLEAN
  /\ queue \in Seq(Tx)
  /\ cache \in (SUBSET Ids) \cup {NoCache}
  /\ waiting \subseteq {"cycle", "unwind"}
  /\ job \in Job /\ JobShape
  /\ db \in [ids : SUBSET Ids, enabled : BOOLEAN, paused : BOOLEAN]
  /\ unrecorded \subseteq Ids
  /\ unwound \in {"no", "here", "restarted"}

(* The LP account never owns two positions of the venue: a cycle mints     *)
(* only into an empty account, through store errors, failed steps, pauses, *)
(* withdrawals and restarts.  Checked while receipts arrive and the chain  *)
(* can be read.                                                            *)
OnePosition == \A a, b \in nfts : a = b

(* operations.md:21: "a transient RPC or cache failure should not be read  *)
(* as 'no LP position'": a position is only made when there is none.       *)
EmptyWhenMinting == job.plan = "mint" => nfts = {}

(* What the engine manages is as many positions as there are, in every     *)
(* state it runs in: it neither forgets one nor keeps one that is gone.    *)
CountAgrees ==
  up /\ cache # NoCache => Cardinality(cache) = Cardinality(nfts)

(* Once an unwind has removed every position, this process makes none      *)
(* before trading is resumed: a cycle already queued on the lock must not  *)
(* mint what the unwind returned to the wallet.                            *)
UnwindHolds == unwound = "here" => nfts = {}

(* operations.md:60: "On the next engine restart, the engine will detect   *)
(* the LP wallet balance and automatically remint the position": what an   *)
(* unwind returned to the wallet is deployed again by the next process,    *)
(* unless the funds, a switch or the process change first.  It is not: the *)
(* unwind has stored trading_enabled = false and no cycle manages them.    *)
RestartRemints ==
  (up /\ unwound = "restarted" /\ ~paused /\ idle /\ nfts = {} /\ used # Ids)
     ~> (nfts # {} \/ ~idle \/ paused \/ ~up \/ unwound # "restarted")

(* A funded wallet without a position gets one, or the funds, the switches *)
(* or the process change first.                                            *)
FundsDeployed ==
  (up /\ enabled /\ ~paused /\ idle /\ nfts = {} /\ used # Ids)
     ~> (nfts # {} \/ ~idle \/ ~enabled \/ paused \/ ~up)

Differ(s, t) == (s \ t) \cup (t \ s)

(* The engine's view of what it owns is wrong only of NFTs whose last      *)
(* change it did not see through: their transaction landed after the wait, *)
(* or the process or the store failed between the confirmation and the     *)
(* write.  A restart that trusts the stored ids adds no other.             *)
KnowsAllButUnrecorded ==
  up /\ ~blind => Differ(Known, nfts) \subseteq unrecorded

(* Between jobs the stored ids are the ones in memory, with the same       *)
(* exception, and none is stored that the engine does not manage even when *)
(* the chain could not be read.                                            *)
StoreAgrees ==
  up /\ AtRest => /\ db.ids \ Known \subseteq unrecorded
                  /\ ~blind => Known \ db.ids \subseteq unrecorded

=============================================================================
