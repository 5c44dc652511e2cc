------------------------- MODULE LpLifecycle_proofs -------------------------
(***************************************************************************)
(* Theorems about LpLifecycle, for every set of token ids and every bound  *)
(* of the queue.  For every choice of faults: the types, and that memory   *)
(* and store are wrong only of NFTs whose last change was not seen         *)
(* through.  Then, while receipts arrive within the wait, the chain can be *)
(* read and the process is not killed waiting: the LP account never owns   *)
(* two NFTs, whatever the store, the operator, the wallet, stops and       *)
(* starts do, and an unwind holds.                                         *)
(***************************************************************************)
EXTENDS LpLifecycle, FiniteSetTheorems, TLAPS

-----------------------------------------------------------------------------
(* The type invariant in parts, one for each group of variables a step     *)
(* writes together.                                                        *)

Db == [ids : SUBSET Ids, enabled : BOOLEAN, paused : BOOLEAN]

ChainType  == /\ nfts \subseteq used /\ used \subseteq Ids
              /\ idle \in BOOLEAN /\ queue \in Seq(Tx)
SwitchType == /\ up \in BOOLEAN /\ enabled \in BOOLEAN /\ paused \in BOOLEAN
              /\ waiting \subseteq {"cycle", "unwind"}
CacheType  == cache \in (SUBSET Ids) \cup {NoCache} /\ blind \in BOOLEAN
JobType    == job \in Job /\ JobShape
StoreType  == db \in Db
GhostType  == unrecorded \subseteq Ids /\ unwound \in {"no", "here", "restarted"}

LEMMA TypeParts ==
  TypeOK <=> ChainType /\ SwitchType /\ CacheType /\ JobType /\ StoreType /\ GhostType
  BY DEF TypeOK, ChainType, SwitchType, CacheType, JobType, StoreType, GhostType, Db

LEMMA TypePartsNext ==
  /\ ChainType' /\ SwitchType' /\ CacheType' /\ JobType' /\ StoreType' /\ GhostType'
  => TypeOK'
  BY DEF TypeOK, ChainType, SwitchType, CacheType, JobType, StoreType, GhostType, Db

-----------------------------------------------------------------------------
(* Jobs.                                                                   *)

LEMMA RestType == ASSUME job' = Rest PROVE JobType'
  <1>1. Rest \in Job  BY DEF Rest, Job, Steps, Plans
  <1> QED  BY <1>1 DEF JobType, JobShape, Rest, IdSteps

LEMMA CreateType == ASSUME job' = Create PROVE JobType'
  <1>1. job' = [step |-> "ratio", plan |-> "mint", id |-> NoId, todo |-> {},
                clean |-> TRUE]
    BY DEF Create, Rest
  <1>2. job' \in Job  BY <1>1 DEF Job, Steps, Plans
  <1> QED  BY <1>1, <1>2 DEF JobType, JobShape, IdSteps

LEMMA TopUpType == ASSUME NEW id \in Ids, job' = TopUp(id) PROVE JobType'
  <1>1. job' = [step |-> "ratio", plan |-> "topup", id |-> id, todo |-> {},
                clean |-> TRUE]
    BY DEF TopUp, Rest
  <1>2. job' \in Job  BY <1>1 DEF Job, Steps, Plans
  <1> QED  BY <1>1, <1>2, ConstantsAssumption DEF JobType, JobShape, IdSteps

(* A job that has nothing but an id to act on.                             *)
LEMMA SingleType ==
  ASSUME NEW id \in Ids, NEW step \in IdSteps,
         job' = [Rest EXCEPT !.step = step, !.id = id]
  PROVE  JobType'
  <1>1. job' = [step |-> step, plan |-> "none", id |-> id, todo |-> {}, clean |-> TRUE]
    BY DEF Rest
  <1>2. step \in Steps /\ "none" \in Plans /\ {} \in SUBSET Ids
    BY DEF Steps, Plans
  <1>3. [step |-> step, plan |-> "none", id |-> id, todo |-> {}, clean |-> TRUE] \in Job
    BY <1>2, Zenon DEF Job
  <1>4. job' \in Job  BY <1>1, <1>3, Zenon
  <1>5. job'.step = step /\ job'.plan = "none" /\ job'.id = id
    <2> DEFINE J == [step |-> step, plan |-> "none", id |-> id, todo |-> {}, clean |-> TRUE]
    <2>1. J.step = step /\ J.plan = "none" /\ J.id = id  OBVIOUS
    <2>2. job' = J  BY <1>1
    <2> HIDE DEF J
    <2> QED  BY <2>1, <2>2, Zenon
  <1>6. step # "withdraw" /\ step # "ratio" /\ id # NoId
    BY ConstantsAssumption DEF IdSteps
  <1> QED  BY <1>4, <1>5, <1>6 DEF JobType, JobShape

LEMMA WithdrawalType ==
  ASSUME NEW ids \in SUBSET Ids, NEW plan \in {"withdraw", "unwind"},
         job' = Withdrawal(plan, ids)
  PROVE  JobType'
  <1>1. CASE ids = {}  BY <1>1, RestType DEF Withdrawal
  <1>2. CASE ids # {}
    <2>1. job' = [step |-> "withdraw", plan |-> plan, id |-> NoId, todo |-> ids,
                  clean |-> TRUE]
      BY <1>2 DEF Withdrawal, Rest
    <2>2. job' \in Job  BY <2>1 DEF Job, Steps, Plans
    <2> QED  BY <1>2, <2>1, <2>2 DEF JobType, JobShape, IdSteps
  <1> QED  BY <1>1, <1>2

LEMMA ContinueType ==
  ASSUME JobType, NEW todo \in SUBSET Ids, NEW clean \in BOOLEAN,
         job.plan # "topup", job' = Continue(todo, clean)
  PROVE  JobType'
  <1>1. CASE todo = {}  BY <1>1, RestType DEF Continue
  <1>2. CASE todo # {}
    <2>1. job' = [job EXCEPT !.step = "withdraw", !.id = NoId, !.todo = todo,
                             !.clean = clean]
      BY <1>2 DEF Continue
    <2>2. job' \in Job  BY <2>1 DEF JobType, Job, Steps
    <2>3. job'.step = "withdraw" /\ job'.todo = todo /\ job'.plan = job.plan
      BY <2>1 DEF JobType, Job
    <2> QED  BY <1>2, <2>2, <2>3 DEF JobType, JobShape, IdSteps
  <1> QED  BY <1>1, <1>2

(* The next step of the job under way, on the same id.                     *)
LEMMA StepType ==
  ASSUME JobType, NEW step \in IdSteps \cup {"mint"},
         step \in IdSteps => job.id # NoId, job.plan = "topup" => step = "topup",
         job' = [job EXCEPT !.step = step]
  PROVE  JobType'
  <1>1. job' \in Job  BY DEF JobType, Job, Steps
  <1>2. job'.step = step /\ job'.id = job.id /\ job'.plan = job.plan
    BY DEF JobType, Job
  <1> QED  BY <1>1, <1>2 DEF JobType, JobShape, IdSteps

-----------------------------------------------------------------------------
(* What the engine reads.                                                  *)

(* What a read of the chain reports: some of the NFTs, and all of them     *)
(* when it is not blind.                                                   *)
LEMMA DiscoveriesType ==
  ASSUME NEW seen \in Discoveries
  PROVE  /\ seen.ids \subseteq nfts /\ seen.cache = seen.ids
         /\ seen.blind \in BOOLEAN
         /\ ~seen.blind => seen.ids = nfts
         /\ "rpc" \notin Faults => ~seen.blind
  <1>1. CASE seen = Found(nfts, nfts, FALSE)  BY <1>1 DEF Found
  <1>2. CASE seen \in PartialDiscoveries
    <2>1. "rpc" \in Faults  BY <1>2 DEF PartialDiscoveries
    <2>2. PICK s \in (SUBSET nfts) \ {{}, nfts} : seen = Found(s, s, TRUE)
      BY <1>2, <2>1 DEF PartialDiscoveries
    <2> QED  BY <2>1, <2>2 DEF Found
  <1> QED  BY <1>1, <1>2 DEF Discoveries

(* What get_owned_positions returns, from the cache or the chain.          *)
LEMMA OwnedPositionsType ==
  ASSUME ChainType, CacheType, NEW seen \in OwnedPositions
  PROVE  /\ seen.ids \subseteq Ids
         /\ seen.cache \in (SUBSET Ids) \cup {NoCache}
         /\ seen.blind \in BOOLEAN
         /\ cache # NoCache => seen = Found(cache, cache, FALSE)
         /\ cache = NoCache /\ ~seen.blind => seen.ids = nfts /\ seen.cache = nfts
  <1>1. CASE cache # NoCache
    <2>1. seen = Found(cache, cache, FALSE)  BY <1>1 DEF OwnedPositions
    <2> QED  BY <1>1, <2>1 DEF CacheType, Found
  <1>2. CASE cache = NoCache /\ seen \in FailedDiscoveries
    <2>1. seen = Found({}, NoCache, TRUE)  BY <1>2 DEF FailedDiscoveries
    <2> QED  BY <1>2, <2>1 DEF Found
  <1>3. CASE cache = NoCache /\ seen \in Discoveries
    <2>1. seen.ids \subseteq Ids  BY <1>3, DiscoveriesType DEF ChainType
    <2> QED  BY <1>3, <2>1, DiscoveriesType
  <1> QED  BY <1>1, <1>2, <1>3 DEF OwnedPositions

LEMMA SawType ==
  ASSUME ChainType, CacheType, NEW seen \in OwnedPositions, Saw(seen)
  PROVE  CacheType' /\ seen.ids \subseteq Ids
  <1>1. cache' \in (SUBSET Ids) \cup {NoCache}  BY OwnedPositionsType DEF Saw
  <1>2. blind' \in BOOLEAN  BY OwnedPositionsType DEF Saw, CacheType
  <1> QED  BY <1>1, <1>2, OwnedPositionsType DEF CacheType

(* What a cycle decides on.                                                *)
LEMMA NextJobsType ==
  ASSUME NEW ids, NEW j \in NextJobs(ids)
  PROVE  \/ j = Rest
         \/ j = Create /\ ids = {}
         \/ \E id \in ids \cap nfts : j = TopUp(id) \/ j = Replace(id)
  BY DEF NextJobs, Choices

-----------------------------------------------------------------------------
(* Effects.                                                                *)

LEMMA LeftBehindType ==
  ASSUME ChainType, NEW kind \in {"mint", "remove", "topup", "swap"},
         NEW id \in Ids \cup {NoId}, NEW out \in BOOLEAN, LeftBehind(kind, id, out)
  PROVE  ChainType'
  <1>1. Sent(kind, id, out) \in Tx  BY DEF Sent, Tx
  <1>2. queue' \in Seq(Tx)  BY <1>1 DEF LeftBehind, ChainType
  <1> QED  BY <1>2 DEF LeftBehind, ChainType

LEMMA EffectType ==
  ASSUME ChainType, queue' \in Seq(Tx), NEW id \in Ids, NEW out \in BOOLEAN,
         Minted(id) \/ Burnt(id, out) \/ ToppedUp(id)
  PROVE  ChainType'
  <1>1. idle' \in BOOLEAN  BY DEF ChainType, Minted, Burnt, ToppedUp
  <1>2. nfts' \subseteq used' /\ used' \subseteq Ids
    BY DEF ChainType, Minted, Burnt, ToppedUp
  <1> QED  BY <1>1, <1>2 DEF ChainType

LEMMA UnfinishedType ==
  ASSUME GhostType, JobType, Unfinished
  PROVE  unrecorded' \subseteq Ids
  BY DEF GhostType, JobType, JobShape, Job, IdSteps, Unfinished

LEMMA ForgottenType ==
  ASSUME StoreType
  PROVE  Forgotten \in Db
  BY DEF StoreType, Db, Forgotten

-----------------------------------------------------------------------------
(* Every variable keeps its type and the job its shape.                    *)

LEMMA InitType == Init => TypeOK
  <1> SUFFICES ASSUME Init PROVE TypeOK
    OBVIOUS
  <1>1. ChainType
    <2>1. idle \in BOOLEAN  BY DEF Init
    <2>2. queue \in Seq(Tx)  BY DEF Init
    <2> QED  BY <2>1, <2>2 DEF Init, ChainType
  <1>2. SwitchType  BY DEF Init, SwitchType
  <1>3. CacheType  BY DEF Init, CacheType
  <1>4. JobType
    <2>1. Rest \in Job  BY DEF Rest, Job, Steps, Plans
    <2> QED  BY <2>1 DEF Init, JobType, JobShape, Rest, IdSteps
  <1>5. StoreType
    <2>1. [ids |-> {}, enabled |-> TRUE, paused |-> FALSE] \in Db  BY DEF Db
    <2> QED  BY <2>1 DEF Init, StoreType
  <1>6. GhostType  BY DEF Init, GhostType
  <1> QED  BY <1>1, <1>2, <1>3, <1>4, <1>5, <1>6, TypeParts

(* The steps of the scheduler's cycle.                                     *)
LEMMA CycleType ==
  ASSUME TypeOK, Tick \/ CycleStep PROVE TypeOK'
  <1>0. ChainType /\ SwitchType /\ CacheType /\ JobType /\ StoreType /\ GhostType
    BY TypeParts
  <1>1. CASE Tick
    <2>1. ChainType' /\ CacheType' /\ JobType' /\ StoreType' /\ GhostType'
      BY <1>0, <1>1 DEF Tick, chain, ghosts, ChainType, CacheType, JobType, JobShape,
                        StoreType, GhostType
    <2>2. SwitchType'  BY <1>0, <1>1 DEF Tick, SwitchType
    <2> QED  BY <2>1, <2>2, TypePartsNext
  <1>2. CASE LockCycle
    <2>1. ChainType' /\ StoreType' /\ GhostType' /\ SwitchType'
      BY <1>0, <1>2 DEF LockCycle, chain, ChainType, StoreType, GhostType, SwitchType
    <2>2. CASE UNCHANGED <<cache, job, blind>>
      <3>1. CacheType' /\ JobType'
        BY <1>0, <2>2 DEF CacheType, JobType, JobShape
      <3> QED  BY <2>1, <3>1, TypePartsNext
    <2>3. CASE \E seen \in OwnedPositions : Saw(seen) /\ job' \in NextJobs(seen.ids)
      <3>1. PICK seen \in OwnedPositions : Saw(seen) /\ job' \in NextJobs(seen.ids)
        BY <2>3
      <3>2. CacheType' /\ seen.ids \subseteq Ids  BY <1>0, <3>1, SawType
      <3>3. JobType'
        <4>1. CASE job' = Rest \/ job' = Create  BY <4>1, RestType, CreateType
        <4>2. CASE \E id \in seen.ids \cap nfts : job' = TopUp(id)
          BY <3>2, <4>2, TopUpType
        <4>3. CASE \E id \in seen.ids \cap nfts : job' = Replace(id)
          <5>1. PICK id \in seen.ids \cap nfts : job' = Replace(id)  BY <4>3
          <5>2. "remove" \in IdSteps  BY DEF IdSteps
          <5> QED  BY <3>2, <5>1, <5>2, SingleType DEF Replace
        <4> QED  BY <3>1, <4>1, <4>2, <4>3, NextJobsType
      <3> QED  BY <2>1, <3>2, <3>3, TypePartsNext
    <2> QED  BY <1>2, <2>2, <2>3 DEF LockCycle
  <1>3. ASSUME JobFrame, UNCHANGED <<unwound>>, ChainType', JobType', StoreType',
               cache' \in (SUBSET Ids) \cup {NoCache}, unrecorded' \subseteq Ids
        PROVE  TypeOK'
    <2>1. SwitchType' /\ CacheType' /\ GhostType'
      BY <1>0, <1>3 DEF JobFrame, SwitchType, CacheType, GhostType
    <2> QED  BY <1>3, <2>1, TypePartsNext
  <1>4. CASE RatioReached
    <2>1. ChainType' /\ StoreType' /\ cache' \in (SUBSET Ids) \cup {NoCache}
             /\ unrecorded' \subseteq Ids
      BY <1>0, <1>4 DEF RatioReached, chain, ChainType, CacheType, StoreType, GhostType
    <2>2. /\ job.plan \in IdSteps \cup {"mint"}
          /\ job.plan \in IdSteps => job.id # NoId
      BY <1>0, <1>4 DEF RatioReached, JobType, JobShape, IdSteps
    <2>3. JobType'  BY <1>0, <1>4, <2>2, StepType DEF RatioReached
    <2> QED  BY <1>3, <1>4, <2>1, <2>3 DEF RatioReached
  <1>5. CASE RatioMissed \/ MintFailed \/ RemoveFailed
    <2>1. StoreType' /\ cache' \in (SUBSET Ids) \cup {NoCache} /\ unrecorded' \subseteq Ids
      BY <1>0, <1>5 DEF RatioMissed, MintFailed, RemoveFailed, CacheType, StoreType, GhostType
    <2>2. JobType'
      BY <1>5, RestType DEF RatioMissed, MintFailed, RemoveFailed, AfterFailedRemove
    <2>3. CASE UNCHANGED chain
      <3>1. ChainType'  BY <1>0, <2>3 DEF chain, ChainType
      <3> QED  BY <1>3, <1>5, <2>1, <2>2, <3>1 DEF RatioMissed, MintFailed, RemoveFailed
    <2>4. CASE \/ LeftBehind("swap", NoId, FALSE) \/ LeftBehind("mint", NoId, FALSE)
               \/ job.id \in nfts /\ LeftBehind("remove", job.id, FALSE)
      <3>1. job.id \in Ids \cup {NoId}  BY <1>0 DEF JobType, Job
      <3>2. ChainType'  BY <1>0, <2>4, <3>1, LeftBehindType
      <3> QED  BY <1>3, <1>5, <2>1, <2>2, <3>2 DEF RatioMissed, MintFailed, RemoveFailed
    <2> QED  BY <1>5, <2>3, <2>4 DEF RatioMissed, MintFailed, RemoveFailed
  <1>6. CASE MintConfirmed
    <2>1. PICK id \in Ids : /\ Minted(id) /\ cache' = MintedCache(id)
                           /\ job' = [Rest EXCEPT !.step = "save", !.id = id]
      BY <1>6 DEF MintConfirmed
    <2>2. queue' \in Seq(Tx)  BY <1>0, <1>6 DEF MintConfirmed, Mined, ChainType
    <2>3. ChainType'  BY <1>0, <2>1, <2>2, EffectType
    <2>4. cache' \in (SUBSET Ids) \cup {NoCache}
      BY <1>0, <2>1 DEF MintedCache, Known, CacheType
    <2>5. "save" \in IdSteps  BY DEF IdSteps
    <2>6. JobType'  BY <2>1, <2>5, SingleType
    <2>7. StoreType' /\ unrecorded' \subseteq Ids
      BY <1>0, <1>6 DEF MintConfirmed, StoreType, GhostType
    <2> QED  BY <1>3, <1>6, <2>3, <2>4, <2>6, <2>7 DEF MintConfirmed
  <1>7. CASE SaveMinted
    <2>1. ChainType' /\ cache' \in (SUBSET Ids) \cup {NoCache}
      BY <1>0, <1>7 DEF SaveMinted, chain, ChainType, CacheType
    <2>2. JobType'  BY <1>7, RestType DEF SaveMinted
    <2>3. job.id \in Ids
      BY <1>0, <1>7 DEF SaveMinted, JobType, JobShape, Job, IdSteps
    <2>4. [db EXCEPT !.ids = @ \cup {job.id}] \in Db  BY <1>0, <2>3 DEF StoreType, Db
    <2>5. StoreType'  BY <1>0, <1>7, <2>4 DEF SaveMinted, StoreType
    <2>6. unrecorded' \subseteq Ids
      BY <1>0, <1>7, UnfinishedType DEF SaveMinted, GhostType
    <2> QED  BY <1>3, <1>7, <2>1, <2>2, <2>5, <2>6 DEF SaveMinted
  <1>8. CASE TopUpDone
    <2>1. StoreType' /\ cache' \in (SUBSET Ids) \cup {NoCache} /\ unrecorded' \subseteq Ids
      BY <1>0, <1>8 DEF TopUpDone, CacheType, StoreType, GhostType
    <2>2. JobType'  BY <1>8, RestType DEF TopUpDone
    <2>3. job.id \in Ids
      BY <1>0, <1>8 DEF TopUpDone, JobType, JobShape, Job, IdSteps
    <2>4. ChainType'
      <3>1. CASE UNCHANGED chain  BY <1>0, <3>1 DEF chain, ChainType
      <3>2. CASE Mined /\ ToppedUp(job.id)
        <4>1. queue' \in Seq(Tx)  BY <1>0, <3>2 DEF Mined, ChainType
        <4> QED  BY <1>0, <2>3, <3>2, <4>1, EffectType
      <3>3. CASE LeftBehind("topup", job.id, FALSE)  BY <1>0, <2>3, <3>3, LeftBehindType
      <3> QED  BY <1>8, <3>1, <3>2, <3>3 DEF TopUpDone
    <2> QED  BY <1>3, <1>8, <2>1, <2>2, <2>4 DEF TopUpDone
  <1>9. CASE RemoveConfirmed
    <2>1. job.id \in Ids /\ job.id # NoId /\ job.plan # "topup"
      BY <1>0, <1>9 DEF RemoveConfirmed, JobType, JobShape, Job, IdSteps
    <2>2. queue' \in Seq(Tx)  BY <1>0, <1>9 DEF RemoveConfirmed, Mined, ChainType
    <2>3. ChainType'  BY <1>0, <1>9, <2>1, <2>2, EffectType DEF RemoveConfirmed
    <2>4. cache' \in (SUBSET Ids) \cup {NoCache}
      BY <1>0, <1>9 DEF RemoveConfirmed, RemovedCache, CacheType
    <2>5. "forget" \in IdSteps  BY DEF IdSteps
    <2>6. JobType'  BY <1>0, <1>9, <2>1, <2>5, StepType DEF RemoveConfirmed
    <2>7. StoreType' /\ unrecorded' \subseteq Ids
      BY <1>0, <1>9 DEF RemoveConfirmed, StoreType, GhostType
    <2> QED  BY <1>3, <1>9, <2>3, <2>4, <2>6, <2>7 DEF RemoveConfirmed
  <1>10. CASE ForgetRemoved
    <2>1. ChainType' /\ cache' \in (SUBSET Ids) \cup {NoCache}
      BY <1>0, <1>10 DEF ForgetRemoved, chain, ChainType, CacheType
    <2>2. JobType'  BY <1>10, RestType, CreateType DEF ForgetRemoved
    <2>3. StoreType'  BY <1>0, <1>10, ForgottenType DEF ForgetRemoved, StoreType
    <2>4. unrecorded' \subseteq Ids
      BY <1>0, <1>10, UnfinishedType DEF ForgetRemoved, GhostType
    <2> QED  BY <1>3, <1>10, <2>1, <2>2, <2>3, <2>4 DEF ForgetRemoved
  <1> QED
    BY <1>1, <1>2, <1>4, <1>5, <1>6, <1>7, <1>8, <1>9, <1>10 DEF CycleStep

(* The steps of a withdrawal, and the reads the reports make.              *)
LEMMA WithdrawType ==
  ASSUME TypeOK, WithdrawStep \/ LockWithdraw \/ Report PROVE TypeOK'
  <1>0. ChainType /\ SwitchType /\ CacheType /\ JobType /\ StoreType /\ GhostType
    BY TypeParts
  <1>1. CASE LockWithdraw \/ LockUnwind
    <2>1. ChainType' /\ StoreType' /\ SwitchType'
      BY <1>0, <1>1 DEF LockWithdraw, LockUnwind, chain, ChainType, StoreType, SwitchType
    <2>2. GhostType'
      BY <1>0, <1>1 DEF LockWithdraw, LockUnwind, Unwinding, GhostType
    <2>3. PICK seen \in OwnedPositions, plan \in {"withdraw", "unwind"} :
             Saw(seen) /\ job' = Withdrawal(plan, seen.ids)
      BY <1>1 DEF LockWithdraw, LockUnwind
    <2>4. CacheType' /\ seen.ids \subseteq Ids  BY <1>0, <2>3, SawType
    <2>5. JobType'  BY <2>3, <2>4, WithdrawalType
    <2> QED  BY <2>1, <2>2, <2>4, <2>5, TypePartsNext
  <1>2. CASE Report
    <2>1. ChainType' /\ SwitchType' /\ JobType' /\ StoreType' /\ GhostType'
      BY <1>0, <1>2 DEF Report, chain, ChainType, SwitchType, JobType, JobShape, StoreType,
                        GhostType
    <2>2. CacheType'  BY <1>0, <1>2, SawType DEF Report
    <2> QED  BY <2>1, <2>2, TypePartsNext
  <1>3. CASE WithdrawConfirmed
    <2>1. PICK id \in job.todo : /\ Burnt(id, job.plan = "withdraw")
                               /\ cache' = RemovedCache(id)
                               /\ job' = [job EXCEPT !.step = "strike", !.id = id]
      BY <1>3 DEF WithdrawConfirmed
    <2>2. id \in Ids /\ (job.plan = "withdraw") \in BOOLEAN
      BY <1>0 DEF JobType, Job
    <2>3. queue' \in Seq(Tx)  BY <1>0, <1>3 DEF WithdrawConfirmed, Mined, ChainType
    <2>4. ChainType'  BY <1>0, <2>1, <2>2, <2>3, EffectType
    <2>5. CacheType'
      BY <1>0, <1>3, <2>1 DEF WithdrawConfirmed, JobFrame, RemovedCache, CacheType
    <2>6. SwitchType' /\ StoreType' /\ GhostType'
      BY <1>0, <1>3 DEF WithdrawConfirmed, JobFrame, SwitchType, StoreType, GhostType
    <2>7. JobType'
      <3>1. job' \in Job  BY <1>0, <2>1, <2>2 DEF JobType, Job, Steps, IdSteps
      <3>2. job'.step = "strike" /\ job'.id = id /\ job'.plan = job.plan
        BY <1>0, <2>1 DEF JobType, Job
      <3>3. job.plan # "topup"
        BY <1>0, <1>3 DEF WithdrawConfirmed, JobType, JobShape
      <3> QED  BY <2>2, <3>1, <3>2, <3>3, ConstantsAssumption DEF JobType, JobShape
    <2> QED  BY <2>4, <2>5, <2>6, <2>7, TypePartsNext
  <1>4. CASE WithdrawFailed
    <2>1. PICK id \in job.todo :
             /\ job' \in {Continue(job.todo \ {id}, FALSE), Rest}
             /\ \/ UNCHANGED chain
                \/ id \in nfts /\ LeftBehind("remove", id, job.plan = "withdraw")
      BY <1>4 DEF WithdrawFailed
    <2>2. id \in Ids /\ job.todo \ {id} \in SUBSET Ids /\ job.plan # "topup"
             /\ (job.plan = "withdraw") \in BOOLEAN
      BY <1>0, <1>4 DEF WithdrawFailed, JobType, JobShape, Job
    <2>3. CacheType' /\ SwitchType' /\ StoreType' /\ GhostType'
      BY <1>0, <1>4 DEF WithdrawFailed, JobFrame, CacheType, SwitchType, StoreType, GhostType
    <2>4. JobType'  BY <1>0, <2>1, <2>2, ContinueType, RestType
    <2>5. ChainType'
      <3>1. CASE UNCHANGED chain  BY <1>0, <3>1 DEF chain, ChainType
      <3>2. CASE LeftBehind("remove", id, job.plan = "withdraw")
        BY <1>0, <2>2, <3>2, LeftBehindType
      <3> QED  BY <2>1, <3>1, <3>2
    <2> QED  BY <2>3, <2>4, <2>5, TypePartsNext
  <1>5. CASE StrikeRemoved
    <2> DEFINE left == job.todo \ {job.id}
    <2>1. left \in SUBSET Ids /\ job.clean \in BOOLEAN /\ job.plan # "topup"
      BY <1>0, <1>5 DEF StrikeRemoved, JobType, JobShape, Job
    <2>2. job' = Continue(left, job.clean) \/ job' = Rest
      BY <1>5 DEF StrikeRemoved
    <2>3. JobType'  BY <1>0, <2>1, <2>2, ContinueType, RestType
    <2>4. ChainType' /\ CacheType' /\ SwitchType'
      BY <1>0, <1>5 DEF StrikeRemoved, JobFrame, chain, ChainType, CacheType, SwitchType
    <2>5. StoreType'  BY <1>0, <1>5, ForgottenType DEF StrikeRemoved, StoreType
    <2>6. unwound' \in {"no", "here", "restarted"}
      BY <1>0, <1>5 DEF StrikeRemoved, Unwinding, GhostType
    <2>7. unrecorded' \subseteq Ids
      BY <1>0, <1>5, UnfinishedType DEF StrikeRemoved, GhostType
    <2> QED  BY <2>3, <2>4, <2>5, <2>6, <2>7, TypePartsNext DEF GhostType
  <1> QED
    BY <1>1, <1>2, <1>3, <1>4, <1>5 DEF WithdrawStep

(* The operator, the chain, the end of the process and its start.          *)
LEMMA OutsideType ==
  ASSUME TypeOK,
         \/ RequestUnwind \/ PauseTrading \/ ResumeTrading
         \/ \E b \in BOOLEAN : SetVenue(b)
         \/ Deposit \/ Sweep \/ Stop \/ MineLate \/ KilledWaiting
         \/ Start \/ StartAborted
  PROVE  TypeOK'
  <1>0. ChainType /\ SwitchType /\ CacheType /\ JobType /\ StoreType /\ GhostType
    BY TypeParts
  <1>1. CASE \/ RequestUnwind \/ PauseTrading \/ ResumeTrading
             \/ \E b \in BOOLEAN : SetVenue(b)
    <2>1. ChainType' /\ CacheType' /\ JobType'
      BY <1>0, <1>1 DEF RequestUnwind, PauseTrading, ResumeTrading, SetVenue, chain, ghosts,
                        ChainType, CacheType, JobType, JobShape
    <2>2. up' \in BOOLEAN /\ waiting' \subseteq {"cycle", "unwind"}
      BY <1>0, <1>1 DEF RequestUnwind, PauseTrading, ResumeTrading, SetVenue, SwitchType
    <2>3. enabled' \in BOOLEAN
      BY <1>0, <1>1 DEF RequestUnwind, PauseTrading, ResumeTrading, SetVenue, SwitchType
    <2>4. paused' \in BOOLEAN
      BY <1>0, <1>1 DEF RequestUnwind, PauseTrading, ResumeTrading, SetVenue, SwitchType
    <2>5. GhostType'
      BY <1>0, <1>1 DEF RequestUnwind, PauseTrading, ResumeTrading, SetVenue, ghosts, GhostType
    <2>6. /\ [db EXCEPT !.enabled = FALSE] \in Db /\ [db EXCEPT !.enabled = TRUE] \in Db
          /\ \A b \in BOOLEAN : [db EXCEPT !.paused = b] \in Db
      BY <1>0 DEF StoreType, Db
    <2>7. StoreType'
      BY <1>0, <1>1, <2>6 DEF RequestUnwind, PauseTrading, ResumeTrading, SetVenue, Stored,
                              StoreType
    <2> QED  BY <2>1, <2>2, <2>3, <2>4, <2>5, <2>7, TypePartsNext DEF SwitchType
  <1>2. CASE Deposit \/ Sweep
    <2>1. idle' \in BOOLEAN  BY <1>2 DEF Deposit, Sweep
    <2>2. ChainType'  BY <1>0, <1>2, <2>1 DEF Deposit, Sweep, ChainType
    <2>3. SwitchType' /\ CacheType' /\ JobType' /\ StoreType' /\ GhostType'
      BY <1>0, <1>2 DEF Deposit, Sweep, memory, ghosts, SwitchType, CacheType, JobType,
                        JobShape, StoreType, GhostType
    <2> QED  BY <2>2, <2>3, TypePartsNext
  <1>3. ASSUME Down PROVE SwitchType' /\ cache' \in (SUBSET Ids) \cup {NoCache} /\ JobType'
    <2>1. up' \in BOOLEAN /\ enabled' \in BOOLEAN /\ paused' \in BOOLEAN
      BY <1>3 DEF Down
    <2> QED  BY <1>3, <2>1, RestType DEF Down, SwitchType
  <1>4. CASE Stop
    <2>1. ChainType' /\ StoreType' /\ blind' \in BOOLEAN /\ unwound' \in {"no", "here", "restarted"}
      BY <1>0, <1>4 DEF Stop, chain, ChainType, StoreType, CacheType, GhostType
    <2>2. unrecorded' \subseteq Ids  BY <1>0, <1>4, UnfinishedType DEF Stop
    <2> QED  BY <1>3, <1>4, <2>1, <2>2, TypePartsNext DEF Stop, CacheType, GhostType
  <1>5. CASE KilledWaiting
    <2>1. StoreType' /\ GhostType' /\ blind' \in BOOLEAN
      BY <1>0, <1>5 DEF KilledWaiting, ghosts, StoreType, CacheType, GhostType
    <2>2. job.id \in Ids \cup {NoId} /\ job.todo \subseteq Ids
             /\ (job.plan = "withdraw") \in BOOLEAN
      BY <1>0 DEF JobType, Job
    <2>3. PICK kind \in {"mint", "remove", "topup"}, id \in Ids \cup {NoId}, out \in BOOLEAN :
             queue' = Append(queue, Sent(kind, id, out))
      BY <1>5, <2>2 DEF KilledWaiting
    <2>4. Sent(kind, id, out) \in Tx  BY DEF Sent, Tx
    <2>5. ChainType'  BY <1>0, <1>5, <2>3, <2>4 DEF KilledWaiting, ChainType
    <2> QED  BY <1>3, <1>5, <2>1, <2>5, TypePartsNext DEF KilledWaiting, CacheType
  <1>6. CASE MineLate
    <2>1. SwitchType' /\ CacheType' /\ JobType' /\ StoreType' /\ unwound' \in {"no", "here", "restarted"}
      BY <1>0, <1>6 DEF MineLate, memory, SwitchType, CacheType, JobType, JobShape, StoreType,
                        GhostType
    <2>2. queue' \in Seq(Tx) /\ Head(queue) \in Tx
      BY <1>0, <1>6 DEF MineLate, ChainType
    <2>3. CASE LandMint
      <3>1. PICK id \in Ids : Minted(id) /\ unrecorded' = unrecorded \cup {id}
        BY <2>3 DEF LandMint
      <3>2. ChainType'  BY <1>0, <2>2, <3>1, EffectType
      <3>3. GhostType'  BY <1>0, <2>1, <3>1 DEF GhostType
      <3> QED  BY <2>1, <3>2, <3>3, TypePartsNext
    <2>4. CASE LandRemove
      <3>1. Head(queue).id \in Ids /\ Head(queue).out \in BOOLEAN
        BY <1>0, <2>2, <2>4 DEF LandRemove, Burnt, Tx, ChainType
      <3>2. ChainType'  BY <1>0, <2>2, <2>4, <3>1, EffectType DEF LandRemove
      <3>3. GhostType'  BY <1>0, <2>1, <2>4, <3>1 DEF LandRemove, GhostType
      <3> QED  BY <2>1, <3>2, <3>3, TypePartsNext
    <2>5. CASE LandTopUp
      <3>1. Head(queue).id \in Ids  BY <1>0, <2>5 DEF LandTopUp, ToppedUp, ChainType
      <3>2. ChainType'  BY <1>0, <2>2, <2>5, <3>1, EffectType DEF LandTopUp
      <3>3. GhostType'  BY <1>0, <2>1, <2>5 DEF LandTopUp, GhostType
      <3> QED  BY <2>1, <3>2, <3>3, TypePartsNext
    <2>6. CASE Lapse
      <3>1. ChainType' /\ GhostType'  BY <1>0, <2>1, <2>2, <2>6 DEF Lapse, ChainType, GhostType
      <3> QED  BY <2>1, <3>1, TypePartsNext
    <2> QED  BY <1>6, <2>3, <2>4, <2>5, <2>6 DEF MineLate
  <1>7. CASE Start
    <2>1. ChainType' /\ JobType' /\ GhostType'
      BY <1>0, <1>7 DEF Start, StartTrusting, StartVerified, StartUnread, Started, chain,
                        ChainType, JobType, JobShape, GhostType
    <2>2. db.ids \in SUBSET Ids /\ db.enabled \in BOOLEAN /\ db.paused \in BOOLEAN
      BY <1>0 DEF StoreType, Db
    <2>3. up' = TRUE /\ enabled' = db.enabled /\ paused' = db.paused /\ waiting' = waiting
      BY <1>7 DEF Start, StartTrusting, StartVerified, StartUnread, Started
    <2>4. SwitchType'  BY <1>0, <2>2, <2>3 DEF SwitchType
    <2>5. CASE StartTrusting \/ StartUnread
      <3>1. CacheType' /\ StoreType'
        BY <1>0, <2>2, <2>5 DEF StartTrusting, StartUnread, Started, CacheType, StoreType
      <3> QED  BY <2>1, <2>4, <3>1, TypePartsNext
    <2>6. CASE StartVerified
      <3>1. PICK seen \in Discoveries : /\ blind' = (blind \/ seen.blind)
                                       /\ db' = [db EXCEPT !.ids = seen.ids]
                                       /\ Started(seen.ids)
        BY <2>6 DEF StartVerified
      <3>2. seen.ids \in SUBSET Ids /\ seen.blind \in BOOLEAN
        BY <1>0, DiscoveriesType DEF ChainType
      <3>3. blind' \in BOOLEAN  BY <1>0, <3>1, <3>2 DEF CacheType
      <3>4. StoreType'  BY <1>0, <3>1, <3>2 DEF StoreType, Db
      <3>5. CacheType'  BY <3>1, <3>2, <3>3 DEF Started, CacheType
      <3> QED  BY <2>1, <2>4, <3>4, <3>5, TypePartsNext
    <2> QED  BY <1>7, <2>5, <2>6 DEF Start
  <1>8. CASE StartAborted
    <2>0. PICK seen \in Discoveries :
             /\ blind' = (blind \/ seen.blind)
             /\ \E part \in SUBSET (db.ids \cup seen.ids) :
                  db' = [db EXCEPT !.ids = part]
      BY <1>8 DEF StartAborted
    <2>1. PICK part \in SUBSET (db.ids \cup seen.ids) : db' = [db EXCEPT !.ids = part]
      BY <2>0
    <2>2. seen.ids \subseteq Ids /\ seen.blind \in BOOLEAN
      BY <1>0, DiscoveriesType DEF ChainType
    <2>3. blind' \in BOOLEAN  BY <1>0, <2>0, <2>2 DEF CacheType
    <2>4. part \in SUBSET Ids  BY <1>0, <2>1, <2>2 DEF StoreType, Db
    <2>5. StoreType'  BY <1>0, <2>1, <2>4 DEF StoreType, Db
    <2>6. ChainType' /\ SwitchType' /\ CacheType' /\ JobType' /\ GhostType'
      BY <1>0, <1>8, <2>3 DEF StartAborted, chain, memory, ChainType, SwitchType, CacheType,
                              JobType, JobShape, GhostType
    <2> QED  BY <2>5, <2>6, TypePartsNext
  <1> QED
    BY <1>1, <1>2, <1>4, <1>5, <1>6, <1>7, <1>8

(* Memory, store, job and chain keep their types whatever fails, and a job *)
(* that acts on an NFT or withdraws always has one to act on.              *)
THEOREM TypeCorrect == Spec => []TypeOK
  <1>1. TypeOK /\ [Next]_vars => TypeOK'
    <2> SUFFICES ASSUME TypeOK, [Next]_vars PROVE TypeOK'
      OBVIOUS
    <2>1. CASE UNCHANGED vars
      BY <2>1 DEF vars, chain, memory, ghosts, TypeOK, JobShape
    <2>2. CASE Next
      BY <2>2, CycleType, WithdrawType, OutsideType DEF Next, Operator
    <2> QED  BY <2>1, <2>2
  <1> QED  BY <1>1, InitType, PTL DEF Spec

-----------------------------------------------------------------------------
(* The inductive invariant.  While the chain has been read whole, memory   *)
(* follows the chain and the store follows memory but for the id whose     *)
(* write comes next; nothing is stored that is not in memory in any case.  *)

WriteSteps == {"save", "forget", "strike"}
Writing    == IF job.step \in WriteSteps THEN {job.id} ELSE {}

SavedKnown  == job.step = "save" => job.id \in Known
StoredKnown == up => db.ids \ Known \subseteq unrecorded \cup Writing
DownAtRest  == ~up => job = Rest

SightedUp == /\ cache # NoCache
             /\ Differ(cache, nfts) \subseteq unrecorded
             /\ cache \ db.ids \subseteq unrecorded \cup Writing
             /\ job.step \in {"forget", "strike"} => job.id \notin cache
SightedDown == Differ(db.ids, nfts) \subseteq unrecorded
Sighted     == (up => SightedUp) /\ (~up => SightedDown)

View == SavedKnown /\ StoredKnown /\ DownAtRest /\ (~blind => Sighted)

LEMMA ViewImplies == View => KnowsAllButUnrecorded /\ StoreAgrees
  <1> SUFFICES ASSUME View PROVE KnowsAllButUnrecorded /\ StoreAgrees
    OBVIOUS
  <1>1. KnowsAllButUnrecorded
    BY DEF View, Sighted, SightedUp, KnowsAllButUnrecorded, Known
  <1>2. StoreAgrees
    BY DEF View, StoredKnown, Sighted, SightedUp, Writing, WriteSteps, StoreAgrees,
           Known, AtRest
  <1> QED  BY <1>1, <1>2

LEMMA ViewInit == Init => View
  BY DEF Init, View, SavedKnown, StoredKnown, DownAtRest, Sighted, SightedUp, Differ,
         Known, NoCache, Rest, Writing, WriteSteps

-----------------------------------------------------------------------------
(* Steps that disturb nothing the invariant reads.                         *)

LEMMA ViewSame ==
  ASSUME View, UNCHANGED <<nfts, cache, up, job, unrecorded, blind>>, db'.ids = db.ids
  PROVE  View'
  BY DEF View, SavedKnown, StoredKnown, DownAtRest, Sighted, SightedUp, SightedDown,
         Differ, Known, Writing

(* A step of a job with nothing to write, before it or after it.           *)
LEMMA ViewStep ==
  ASSUME View, up, UNCHANGED <<nfts, cache, up, unrecorded, blind>>, db'.ids = db.ids,
         job.step \notin WriteSteps, job'.step \notin WriteSteps
  PROVE  View'
  BY DEF View, SavedKnown, StoredKnown, DownAtRest, Sighted, SightedUp, Differ, Known,
         Writing, WriteSteps

(* What a read finds of a cache that is set is that cache, and of one that *)
(* is not, the NFTs unless it is blind.                                    *)
LEMMA ViewSaw ==
  ASSUME TypeOK, View, up, UNCHANGED <<nfts, up, unrecorded>>, db'.ids = db.ids,
         NEW seen \in OwnedPositions, Saw(seen),
         \/ job' = job
         \/ job.step \notin WriteSteps /\ job'.step \notin WriteSteps
  PROVE  View'
  <1>0. ChainType /\ CacheType  BY TypeParts
  <1>1. CASE cache # NoCache
    <2>1. cache' = cache /\ blind' = blind
      BY <1>0, <1>1, OwnedPositionsType DEF Saw, Found, CacheType
    <2> QED  BY <2>1, ViewSame, ViewStep
  <1>2. CASE cache = NoCache
    <2>1. blind \/ FALSE  BY <1>2 DEF View, Sighted, SightedUp
    <2>2. blind'  BY <2>1 DEF Saw
    <2>3. Known = {} /\ job.step # "save"
      BY <1>2 DEF Known, View, SavedKnown
    <2>4. Writing \subseteq Writing'  BY DEF Writing
    <2>5. SavedKnown'  BY <2>3 DEF SavedKnown, WriteSteps
    <2>6. StoredKnown'  BY <2>3, <2>4 DEF StoredKnown, View
    <2> QED  BY <2>2, <2>5, <2>6 DEF View, DownAtRest
  <1> QED  BY <1>1, <1>2

-----------------------------------------------------------------------------
(* A confirmation moves memory with the chain, and names the id to write.  *)

LEMMA ViewMinted ==
  ASSUME TypeOK, View, up, UNCHANGED <<up, db, unrecorded, blind>>,
         NEW id \in Ids, nfts' = nfts \cup {id}, cache' = Known \cup {id},
         job.step \notin WriteSteps, job'.step = "save", job'.id = id
  PROVE  View'
  <1>1. Known' = Known \cup {id}
    BY ConstantsAssumption DEF Known, NoCache
  <1>2. Writing = {} /\ Writing' = {id}  BY DEF Writing, WriteSteps
  <1>3. SavedKnown' /\ StoredKnown' /\ DownAtRest'
    BY <1>1, <1>2 DEF SavedKnown, StoredKnown, DownAtRest, View
  <1>4. ASSUME ~blind' PROVE SightedUp'
    <2>1. SightedUp  BY <1>4 DEF View, Sighted
    <2>2. Known = cache  BY <2>1 DEF SightedUp, Known
    <2>3. cache' # NoCache  BY ConstantsAssumption DEF NoCache
    <2>4. Differ(cache, nfts)' \subseteq unrecorded'
      BY <2>1, <2>2 DEF SightedUp, Differ
    <2>5. (cache \ db.ids)' \subseteq unrecorded' \cup Writing'
      BY <1>2, <2>1, <2>2 DEF SightedUp
    <2> QED  BY <2>3, <2>4, <2>5 DEF SightedUp
  <1> QED  BY <1>3, <1>4 DEF View, Sighted

LEMMA ViewBurnt ==
  ASSUME TypeOK, View, up, UNCHANGED <<up, db, unrecorded, blind>>,
         NEW id \in Ids, nfts' = nfts \ {id}, cache' = RemovedCache(id),
         job.step \notin WriteSteps, job'.step \in {"forget", "strike"}, job'.id = id
  PROVE  View'
  <1>0. CacheType  BY TypeParts
  <1>1. Known' = Known \ {id}
    BY <1>0, ConstantsAssumption DEF CacheType, RemovedCache, Known, NoCache
  <1>2. Writing = {} /\ Writing' = {id}  BY DEF Writing, WriteSteps
  <1>3. SavedKnown' /\ StoredKnown' /\ DownAtRest'
    BY <1>1, <1>2 DEF SavedKnown, StoredKnown, DownAtRest, View
  <1>4. ASSUME ~blind' PROVE SightedUp'
    <2>1. SightedUp  BY <1>4 DEF View, Sighted
    <2>2. cache \in SUBSET Ids /\ cache' = cache \ {id}
      BY <1>0, <2>1 DEF SightedUp, CacheType, RemovedCache
    <2>3. cache' # NoCache  BY <2>2, ConstantsAssumption DEF NoCache
    <2>4. Differ(cache, nfts)' \subseteq unrecorded'
      BY <2>1, <2>2 DEF SightedUp, Differ
    <2>5. (cache \ db.ids)' \subseteq unrecorded' \cup Writing'
      BY <1>2, <2>1, <2>2 DEF SightedUp
    <2> QED  BY <2>2, <2>3, <2>4, <2>5 DEF SightedUp
  <1> QED  BY <1>3, <1>4 DEF View, Sighted

(* The write is made, or its id counts as unrecorded.                      *)
LEMMA ViewWritten ==
  ASSUME TypeOK, View, up, UNCHANGED <<nfts, cache, up, blind>>,
         job.step \in WriteSteps, job'.step \notin WriteSteps,
         unrecorded' \in {unrecorded, unrecorded \cup {job.id}},
         \/ unrecorded' = unrecorded \cup {job.id} /\ db'.ids = db.ids
         \/ job.step = "save" /\ db'.ids = db.ids \cup {job.id}
         \/ job.step \in {"forget", "strike"} /\ db'.ids = db.ids \ {job.id}
  PROVE  View'
  <1>1. Writing = {job.id} /\ Writing' = {} /\ Known' = Known
    BY DEF Writing, Known
  <1>2. SavedKnown' /\ DownAtRest'  BY DEF SavedKnown, DownAtRest, WriteSteps
  <1>3. StoredKnown'
    BY <1>1 DEF View, StoredKnown, SavedKnown
  <1>4. ASSUME ~blind' PROVE SightedUp'
    <2>1. SightedUp  BY <1>4 DEF View, Sighted
    <2>2. Differ(cache, nfts)' \subseteq unrecorded'  BY <2>1 DEF SightedUp, Differ
    <2>3. (cache \ db.ids)' \subseteq unrecorded' \cup Writing'
      BY <1>1, <2>1 DEF SightedUp
    <2> QED  BY <2>1, <2>2, <2>3 DEF SightedUp, WriteSteps
  <1> QED  BY <1>2, <1>3, <1>4 DEF View, Sighted

-----------------------------------------------------------------------------
(* The steps of the system.                                                *)

(* A job that has no id to write about does not name a write step.         *)
LEMMA NoWrite ==
  /\ Rest.step \notin WriteSteps /\ Create.step \notin WriteSteps
  /\ \A id : TopUp(id).step \notin WriteSteps /\ Replace(id).step \notin WriteSteps
  BY DEF Rest, Create, TopUp, Replace, WriteSteps

LEMMA NoWriteNext ==
  ASSUME NEW ids, NEW j \in NextJobs(ids) PROVE j.step \notin WriteSteps
  BY NextJobsType, NoWrite

LEMMA NoWriteWithdrawal ==
  ASSUME NEW plan, NEW ids PROVE Withdrawal(plan, ids).step \notin WriteSteps
  BY NoWrite DEF Withdrawal, Rest, WriteSteps

LEMMA NoWriteContinue ==
  ASSUME JobType, NEW todo, NEW clean PROVE Continue(todo, clean).step \notin WriteSteps
  <1>1. CASE todo = {}  BY <1>1, NoWrite DEF Continue
  <1>2. CASE todo # {}
    <2>1. Continue(todo, clean)
             = [job EXCEPT !.step = "withdraw", !.id = NoId, !.todo = todo, !.clean = clean]
      BY <1>2 DEF Continue
    <2>2. Continue(todo, clean).step = "withdraw"  BY <2>1 DEF JobType, Job
    <2> QED  BY <2>2 DEF WriteSteps
  <1> QED  BY <1>1, <1>2

LEMMA CycleView ==
  ASSUME TypeOK, View, Tick \/ CycleStep PROVE View'
  <1>0. ChainType /\ CacheType /\ JobType /\ StoreType  BY TypeParts
  <1>1. CASE Tick
    BY <1>1, ViewSame DEF Tick, chain, ghosts
  <1>2. CASE LockCycle
    <2>0. up /\ UNCHANGED <<nfts, up, unrecorded>> /\ db'.ids = db.ids
             /\ job.step \notin WriteSteps
      BY <1>2 DEF LockCycle, AtRest, WriteSteps, chain
    <2>1. CASE UNCHANGED <<cache, job, blind>>  BY <2>0, <2>1, ViewSame
    <2>2. CASE \E seen \in OwnedPositions : Saw(seen) /\ job' \in NextJobs(seen.ids)
      BY <2>0, <2>2, ViewSaw, NoWriteNext
    <2> QED  BY <1>2, <2>1, <2>2 DEF LockCycle
  <1>3. CASE RatioReached
    <2>1. job.plan \notin WriteSteps /\ job'.step = job.plan
      BY <1>0, <1>3 DEF RatioReached, JobType, JobShape, Job, WriteSteps
    <2> QED  BY <1>3, <2>1, ViewStep DEF RatioReached, chain, JobFrame, WriteSteps
  <1>4. CASE RatioMissed \/ MintFailed \/ RemoveFailed \/ TopUpDone
    <2>1. job.step \notin WriteSteps /\ job'.step \notin WriteSteps
      BY <1>4, NoWrite DEF RatioMissed, MintFailed, RemoveFailed, TopUpDone,
                           AfterFailedRemove, WriteSteps
    <2>2. up /\ UNCHANGED <<nfts, cache, up, db, unrecorded, blind>>
      BY <1>4 DEF RatioMissed, MintFailed, RemoveFailed, TopUpDone, chain, LeftBehind,
                  ToppedUp, JobFrame
    <2> QED  BY <2>1, <2>2, ViewStep
  <1>5. CASE MintConfirmed
    <2>1. PICK id \in Ids : /\ Minted(id) /\ cache' = MintedCache(id)
                           /\ job' = [Rest EXCEPT !.step = "save", !.id = id]
      BY <1>5 DEF MintConfirmed
    <2>2. job'.step = "save" /\ job'.id = id  BY <2>1 DEF Rest
    <2>3. job.step \notin WriteSteps  BY <1>5 DEF MintConfirmed, WriteSteps
    <2> QED
      BY <1>5, <2>1, <2>2, <2>3, ViewMinted DEF MintConfirmed, Minted, MintedCache, JobFrame
  <1>6. CASE RemoveConfirmed
    <2>1. job.id \in Ids /\ job'.step = "forget" /\ job'.id = job.id
      BY <1>0, <1>6 DEF RemoveConfirmed, JobType, JobShape, Job, IdSteps
    <2>2. job.step \notin WriteSteps  BY <1>6 DEF RemoveConfirmed, WriteSteps
    <2> QED  BY <1>6, <2>1, <2>2, ViewBurnt DEF RemoveConfirmed, Burnt, JobFrame
  <1>7. CASE SaveMinted
    <2>1. job.step \in WriteSteps /\ job'.step \notin WriteSteps
      BY <1>7, NoWrite DEF SaveMinted, WriteSteps
    <2>2. up /\ UNCHANGED <<nfts, cache, up, blind>>
      BY <1>7 DEF SaveMinted, chain, JobFrame
    <2>3. CASE db' = [db EXCEPT !.ids = @ \cup {job.id}] /\ UNCHANGED unrecorded
      <3>1. db'.ids = db.ids \cup {job.id}  BY <1>0, <2>3 DEF StoreType, Db
      <3> QED  BY <1>7, <2>1, <2>2, <2>3, <3>1, ViewWritten DEF SaveMinted
    <2>4. CASE db' = db /\ Unfinished
      <3>1. unrecorded' = unrecorded \cup {job.id}
        BY <2>1, <2>4 DEF Unfinished, WriteSteps
      <3> QED  BY <2>1, <2>2, <2>4, <3>1, ViewWritten
    <2> QED  BY <1>7, <2>3, <2>4 DEF SaveMinted
  <1>8. CASE ForgetRemoved
    <2>1. job.step \in {"forget", "strike"} /\ job.step \in WriteSteps
             /\ job'.step \notin WriteSteps
      BY <1>8, NoWrite DEF ForgetRemoved, WriteSteps
    <2>2. up /\ UNCHANGED <<nfts, cache, up, blind>>
      BY <1>8 DEF ForgetRemoved, chain, JobFrame
    <2>3. Forgotten.ids = db.ids \ {job.id}  BY <1>0 DEF Forgotten, StoreType, Db
    <2>4. \/ db' = Forgotten /\ unrecorded' = unrecorded
          \/ db' \in {db, Forgotten} /\ unrecorded' = unrecorded \cup {job.id}
      BY <1>8, <2>1 DEF ForgetRemoved, Unfinished, WriteSteps
    <2> QED  BY <2>1, <2>2, <2>3, <2>4, ViewWritten
  <1> QED  BY <1>1, <1>2, <1>3, <1>4, <1>5, <1>6, <1>7, <1>8 DEF CycleStep

LEMMA WithdrawView ==
  ASSUME TypeOK, View, WithdrawStep \/ LockWithdraw PROVE View'
  <1>0. ChainType /\ CacheType /\ JobType /\ StoreType  BY TypeParts
  <1>1. CASE LockUnwind \/ LockWithdraw
    <2>0. up /\ UNCHANGED <<nfts, up, unrecorded>> /\ db'.ids = db.ids
             /\ job.step \notin WriteSteps
      BY <1>1 DEF LockUnwind, LockWithdraw, AtRest, WriteSteps, chain
    <2>1. \E seen \in OwnedPositions, plan \in {"withdraw", "unwind"} :
             Saw(seen) /\ job' = Withdrawal(plan, seen.ids)
      BY <1>1 DEF LockUnwind, LockWithdraw
    <2> QED  BY <2>0, <2>1, ViewSaw, NoWriteWithdrawal
  <1>2. CASE WithdrawConfirmed
    <2>1. PICK id \in job.todo : /\ Burnt(id, job.plan = "withdraw")
                                /\ cache' = RemovedCache(id)
                                /\ job' = [job EXCEPT !.step = "strike", !.id = id]
      BY <1>2 DEF WithdrawConfirmed
    <2>2. id \in Ids /\ job'.step = "strike" /\ job'.id = id
      BY <1>0, <2>1 DEF JobType, Job
    <2>3. job.step \notin WriteSteps  BY <1>2 DEF WithdrawConfirmed, WriteSteps
    <2> QED  BY <1>2, <2>1, <2>2, <2>3, ViewBurnt DEF WithdrawConfirmed, Burnt, JobFrame
  <1>3. CASE WithdrawFailed
    <2>1. job.step \notin WriteSteps  BY <1>3 DEF WithdrawFailed, WriteSteps
    <2>2. job'.step \notin WriteSteps
      BY <1>0, <1>3, NoWrite, NoWriteContinue DEF WithdrawFailed
    <2>3. up /\ UNCHANGED <<nfts, cache, up, db, unrecorded, blind>>
      BY <1>3 DEF WithdrawFailed, chain, LeftBehind, JobFrame
    <2> QED  BY <2>1, <2>2, <2>3, ViewStep
  <1>4. CASE StrikeRemoved
    <2>1. job.step \in {"forget", "strike"} /\ job.step \in WriteSteps
      BY <1>4 DEF StrikeRemoved, WriteSteps
    <2>2. job'.step \notin WriteSteps
      BY <1>0, <1>4, NoWrite, NoWriteContinue DEF StrikeRemoved
    <2>3. up /\ UNCHANGED <<nfts, cache, up, blind>>
      BY <1>4 DEF StrikeRemoved, chain, JobFrame
    <2>4. Forgotten.ids = db.ids \ {job.id}  BY <1>0 DEF Forgotten, StoreType, Db
    <2>5. \/ db' = Forgotten /\ unrecorded' = unrecorded
          \/ db' \in {db, Forgotten} /\ unrecorded' = unrecorded \cup {job.id}
      BY <1>4, <2>1 DEF StrikeRemoved, Unfinished, WriteSteps
    <2> QED  BY <2>1, <2>2, <2>3, <2>4, <2>5, ViewWritten
  <1> QED  BY <1>1, <1>2, <1>3, <1>4 DEF WithdrawStep

LEMMA OutsideView ==
  ASSUME TypeOK, View,
         \/ RequestUnwind \/ PauseTrading \/ ResumeTrading
         \/ \E b \in BOOLEAN : SetVenue(b)
         \/ Deposit \/ Sweep \/ Report \/ MineLate
  PROVE  View'
  <1>0. ChainType /\ CacheType /\ JobType /\ StoreType  BY TypeParts
  <1>1. CASE \/ RequestUnwind \/ PauseTrading \/ ResumeTrading
             \/ \E b \in BOOLEAN : SetVenue(b)
    <2>1. db'.ids = db.ids
      BY <1>0, <1>1 DEF RequestUnwind, PauseTrading, ResumeTrading, SetVenue, Stored,
                        StoreType, Db
    <2>2. UNCHANGED <<nfts, cache, up, job, unrecorded, blind>>
      BY <1>1 DEF RequestUnwind, PauseTrading, ResumeTrading, SetVenue, chain, ghosts
    <2> QED  BY <2>1, <2>2, ViewSame
  <1>2. CASE Deposit \/ Sweep
    BY <1>2, ViewSame DEF Deposit, Sweep, memory, ghosts
  <1>3. CASE Report
    BY <1>3, ViewSaw DEF Report, chain
  <1>4. CASE MineLate
    <2>1. UNCHANGED <<cache, up, job, db, blind>>  BY <1>4 DEF MineLate, memory
    <2>2. /\ unrecorded \subseteq unrecorded'
          /\ Differ(nfts, nfts') \subseteq unrecorded'
      BY <1>4 DEF MineLate, LandMint, LandRemove, LandTopUp, Lapse, Minted, Burnt, ToppedUp,
                  Differ
    <2>3. SavedKnown' /\ StoredKnown' /\ DownAtRest'
      BY <2>1, <2>2 DEF View, SavedKnown, StoredKnown, DownAtRest, Known, Writing
    <2>4. (~blind => Sighted)'
      BY <2>1, <2>2 DEF View, Sighted, SightedUp, SightedDown, Differ, Writing
    <2> QED  BY <2>3, <2>4 DEF View
  <1> QED  BY <1>1, <1>2, <1>3, <1>4

(* Stopping leaves behind the store, which is wrong of the id being        *)
(* written as well; starting takes the store or the chain for memory.      *)
LEMMA RestartView ==
  ASSUME TypeOK, View, Stop \/ KilledWaiting \/ Start \/ StartAborted PROVE View'
  <1>0. ChainType /\ CacheType /\ JobType /\ StoreType  BY TypeParts
  <1>1. ASSUME Down, UNCHANGED <<nfts, db, blind>>, up,
               unrecorded \cup Writing \subseteq unrecorded'
        PROVE  View'
    <2>1. ~up' /\ job' = Rest  BY <1>1 DEF Down
    <2>2. SavedKnown' /\ StoredKnown' /\ DownAtRest'
      BY <2>1 DEF SavedKnown, StoredKnown, DownAtRest, Rest
    <2>3. ASSUME ~blind' PROVE SightedDown'
      <3>1. SightedUp  BY <1>1, <2>3 DEF View, Sighted
      <3>2. cache = Known  BY <3>1 DEF SightedUp, Known
      <3>3. db.ids \ cache \subseteq unrecorded'
        BY <1>1, <3>2 DEF View, StoredKnown
      <3>4. cache \ db.ids \subseteq unrecorded' /\ Differ(cache, nfts) \subseteq unrecorded'
        BY <1>1, <3>1 DEF SightedUp
      <3> QED  BY <1>1, <3>3, <3>4 DEF SightedDown, Differ
    <2> QED  BY <2>1, <2>2, <2>3 DEF View, Sighted
  <1>2. CASE Stop
    <2>1. unrecorded \cup Writing \subseteq unrecorded'
      BY <1>2 DEF Stop, Unfinished, Writing, WriteSteps
    <2> QED  BY <1>1, <1>2, <2>1 DEF Stop, chain
  <1>3. CASE KilledWaiting
    <2>1. Writing = {}  BY <1>3 DEF KilledWaiting, Writing, WriteSteps
    <2> QED  BY <1>1, <1>3, <2>1 DEF KilledWaiting, ghosts
  <1>4. ASSUME Start \/ StartAborted PROVE ~up /\ job = Rest /\ Writing = {}
    <2>1. ~up  BY <1>4 DEF Start, StartTrusting, StartVerified, StartUnread, StartAborted
    <2> QED  BY <2>1 DEF View, DownAtRest, Writing, WriteSteps, Rest
  <1>5. ASSUME NEW c, Started(c), ~up, c # NoCache, UNCHANGED <<nfts, unrecorded>>,
               db'.ids = c, ~blind' => Differ(c, nfts) \subseteq unrecorded
        PROVE  View'
    <2>1. up' /\ cache' = c /\ job' = Rest /\ job'.step = "rest"
      BY <1>5 DEF Started, View, DownAtRest, Rest
    <2>2. Known' = c  BY <1>5, <2>1 DEF Known, NoCache
    <2>3. SavedKnown' /\ StoredKnown' /\ DownAtRest'
      BY <1>5, <2>1, <2>2 DEF SavedKnown, StoredKnown, DownAtRest
    <2>4. ~blind' => SightedUp'
      BY <1>5, <2>1 DEF SightedUp, Differ, NoCache
    <2> QED  BY <2>1, <2>3, <2>4 DEF View, Sighted
  <1>6. db.ids \in SUBSET Ids /\ db.ids # NoCache /\ nfts \in SUBSET Ids
    BY <1>0, ConstantsAssumption DEF StoreType, Db, NoCache, ChainType
  <1>7. CASE StartTrusting
    <2>1. ~blind' => Differ(db.ids, nfts) \subseteq unrecorded
      BY <1>7 DEF StartTrusting, View, Sighted, SightedDown
    <2> QED  BY <1>5, <1>6, <1>7, <2>1 DEF StartTrusting, chain
  <1>8. CASE StartVerified
    <2>1. PICK seen \in Discoveries : /\ blind' = (blind \/ seen.blind)
                                     /\ db' = [db EXCEPT !.ids = seen.ids]
                                     /\ Started(seen.ids)
      BY <1>8 DEF StartVerified
    <2>2. seen.ids \subseteq Ids /\ (~seen.blind => seen.ids = nfts)
      BY <1>6, DiscoveriesType
    <2>3. seen.ids # NoCache  BY <2>2, ConstantsAssumption DEF NoCache
    <2>4. db'.ids = seen.ids  BY <1>0, <2>1 DEF StoreType, Db
    <2>5. ~blind' => Differ(seen.ids, nfts) \subseteq unrecorded
      BY <2>1, <2>2 DEF Differ
    <2> QED  BY <1>5, <1>8, <2>1, <2>3, <2>4, <2>5 DEF StartVerified, chain
  <1>9. CASE StartUnread
    <2>1. blind' /\ up' /\ job' = Rest /\ job'.step = "rest" /\ db' = db
             /\ (db.ids # {} => cache' = db.ids)
      BY <1>4, <1>9 DEF StartUnread, Started, Start, Rest
    <2>2. db.ids \subseteq Known'  BY <1>6, <2>1 DEF Known, NoCache
    <2>3. SavedKnown' /\ StoredKnown' /\ DownAtRest'
      BY <2>1, <2>2 DEF SavedKnown, StoredKnown, DownAtRest
    <2> QED  BY <2>1, <2>3 DEF View
  <1>10. CASE StartAborted
    <2>1. PICK seen \in Discoveries :
            /\ blind' = (blind \/ seen.blind)
            /\ \E part \in SUBSET (db.ids \cup seen.ids) :
                 /\ db.ids \cap seen.ids \subseteq part
                 /\ part \subseteq db.ids \/ part \subseteq seen.ids
                 /\ db' = [db EXCEPT !.ids = part]
      BY <1>10 DEF StartAborted
    <2>2. PICK part \in SUBSET (db.ids \cup seen.ids) :
            /\ db.ids \cap seen.ids \subseteq part
            /\ part \subseteq db.ids \/ part \subseteq seen.ids
            /\ db' = [db EXCEPT !.ids = part]
      BY <2>1
    <2>3. db'.ids = part  BY <1>0, <2>2 DEF StoreType, Db
    <2>4. ~up' /\ UNCHANGED <<nfts, cache, job, unrecorded>>
      BY <1>10 DEF StartAborted, chain, memory
    <2>5. ASSUME ~blind' PROVE SightedDown'
      <3>1. ~blind /\ seen.ids = nfts  BY <2>1, <2>5, DiscoveriesType
      <3>2. Differ(db.ids, nfts) \subseteq unrecorded
        BY <2>4, <3>1, <1>10 DEF View, Sighted, SightedDown, StartAborted
      <3> QED  BY <2>2, <2>3, <2>4, <3>1, <3>2 DEF SightedDown, Differ
    <2>6. SavedKnown' /\ StoredKnown' /\ DownAtRest'
      BY <1>4, <1>10, <2>4 DEF SavedKnown, StoredKnown, DownAtRest, Rest
    <2> QED  BY <2>4, <2>5, <2>6 DEF View, Sighted
  <1> QED  BY <1>2, <1>3, <1>7, <1>8, <1>9, <1>10 DEF Start

LEMMA NextView == TypeOK /\ View /\ [Next]_vars => View'
  <1> SUFFICES ASSUME TypeOK, View, [Next]_vars PROVE View'
    OBVIOUS
  <1>1. CASE UNCHANGED vars
    BY <1>1, ViewSame DEF vars, chain, memory, ghosts
  <1>2. CASE Next
    BY <1>2, CycleView, WithdrawView, OutsideView, RestartView DEF Next, Operator
  <1> QED  BY <1>1, <1>2

(* The engine's view of what it owns (the cache of uniswap_v4.py) is wrong *)
(* only of NFTs whose last change it did not see through, as long as no    *)
(* read of the chain was partial or failed: through lost receipts, stops,  *)
(* crashes, store errors and starts that trust the stored ids by number.   *)
THEOREM KnowsItsPositions == Spec => []KnowsAllButUnrecorded
  <1>1. Spec => []View  BY TypeCorrect, ViewInit, NextView, PTL DEF Spec
  <1>2. View => KnowsAllButUnrecorded  BY ViewImplies
  <1> QED  BY <1>1, <1>2, PTL

(* Between jobs the table lp_token_ids holds the ids the engine manages,   *)
(* with the same exception; without it none is stored that is not managed, *)
(* even after a read of the chain failed.                                  *)
THEOREM StoreFollows == Spec => []StoreAgrees
  <1>1. Spec => []View  BY TypeCorrect, ViewInit, NextView, PTL DEF Spec
  <1>2. View => StoreAgrees  BY ViewImplies
  <1> QED  BY <1>1, <1>2, PTL

-----------------------------------------------------------------------------
Reliable == Faults \subseteq {"store"}

-----------------------------------------------------------------------------
(* The inductive invariant.  Memory may name another NFT than the one that *)
(* exists (a start trusts the stored ids by number), so all it can say is  *)
(* that memory is empty when the account is; a job that will mint, or that *)
(* has just removed, has seen the account empty.                           *)

Quiet   == queue = <<>> /\ ~blind
Single(s) == \A a, b \in s : a = b
Counted == up => cache # NoCache /\ Single(cache) /\ (cache = {} <=> nfts = {})

JobSettled ==
  /\ job.plan = "mint" \/ job.step \in {"mint", "forget", "strike"} => nfts = {}
  /\ job.step = "remove" => job.id \in cache
  /\ job.step = "withdraw" => job.todo \subseteq cache
  /\ job.step = "strike" => job.todo \ {job.id} \subseteq cache

Settled == Quiet /\ OnePosition /\ Counted /\ DownAtRest /\ JobSettled

(* ... and, of an unwind: trading is off wherever it is read, and no job   *)
(* is on its way to a mint.                                                *)
TradingOff == ~db.enabled /\ (up => ~enabled)
NoMintJob  == job.step \in {"rest", "withdraw", "strike"} /\ job.plan # "mint"
Unwound    == unwound # "no" => nfts = {} /\ TradingOff /\ NoMintJob

LEMMA SettledInit == Init => Settled /\ Unwound
  BY ConstantsAssumption DEF Init, Settled, Quiet, OnePosition, Counted, Single,
     DownAtRest, JobSettled, Rest, NoCache, Unwound

-----------------------------------------------------------------------------
(* Cardinalities of sets with at most one element.                         *)

LEMMA SingleCardinality ==
  ASSUME NEW s \in SUBSET Ids, Single(s)
  PROVE  Cardinality(s) = IF s = {} THEN 0 ELSE 1
  <1>1. CASE s = {}  BY <1>1, FS_EmptySet
  <1>2. CASE s # {}
    <2>1. PICK a : a \in s  BY <1>2
    <2>2. s = {a}  BY <2>1 DEF Single
    <2> QED  BY <1>2, <2>2, FS_Singleton
  <1> QED  BY <1>1, <1>2

LEMMA SameCardinality ==
  ASSUME NEW s \in SUBSET Ids, NEW t \in SUBSET Ids, Single(t),
         Cardinality(s) = Cardinality(t)
  PROVE  Single(s) /\ (s = {} <=> t = {})
  <1>1. IsFiniteSet(s)  BY ConstantsAssumption, FS_Subset
  <1>2. CASE t = {}
    <2>1. s = {}  BY <1>1, <1>2, FS_EmptySet
    <2> QED  BY <1>2, <2>1 DEF Single
  <1>3. CASE t # {}
    <2>1. Cardinality(s) = 1  BY <1>3, SingleCardinality
    <2>2. PICK a : s = {a}  BY <1>1, <2>1, FS_Singleton
    <2> QED  BY <1>3, <2>2 DEF Single
  <1> QED  BY <1>2, <1>3

LEMMA SettledCounts == TypeOK /\ Settled => CountAgrees
  <1> SUFFICES ASSUME TypeOK, Settled, up, cache # NoCache
               PROVE  Cardinality(cache) = Cardinality(nfts)
    BY DEF CountAgrees
  <1>1. cache \in SUBSET Ids /\ nfts \in SUBSET Ids  BY DEF TypeOK
  <1>2. Single(cache) /\ Single(nfts) /\ (cache = {} <=> nfts = {})
    BY DEF Settled, Counted, OnePosition, Single
  <1> QED  BY <1>1, <1>2, SingleCardinality

-----------------------------------------------------------------------------
(* Steps that disturb nothing the invariant reads, or only the job.        *)

LEMMA SettledSame ==
  ASSUME Settled, UNCHANGED <<nfts, queue, blind, up, cache, job>> PROVE Settled'
  BY DEF Settled, Quiet, OnePosition, Counted, Single, DownAtRest, JobSettled

LEMMA SettledJob ==
  ASSUME Settled, up, UNCHANGED <<nfts, queue, blind, up, cache>>, JobSettled'
  PROVE  Settled'
  BY DEF Settled, Quiet, OnePosition, Counted, Single, DownAtRest

LEMMA SettledRest ==
  ASSUME Settled, up, UNCHANGED <<nfts, queue, blind, up, cache>>, job' = Rest
  PROVE  Settled'
  BY SettledJob DEF JobSettled, Rest

LEMMA NothingLeftBehind ==
  ASSUME Reliable, NEW kind, NEW id, NEW out PROVE ~LeftBehind(kind, id, out)
  BY DEF Reliable, LeftBehind

(* A read of the positions is what memory holds.                           *)
LEMMA SettledSaw ==
  ASSUME TypeOK, Settled, up, NEW seen \in OwnedPositions, Saw(seen)
  PROVE  seen.ids = cache /\ cache' = cache /\ blind' = blind
  <1>1. cache # NoCache /\ CacheType  BY TypeParts DEF Settled, Counted
  <1>2. seen = Found(cache, cache, FALSE)  BY <1>1 DEF OwnedPositions
  <1> QED  BY <1>1, <1>2 DEF Found, Saw, CacheType

(* The only NFT goes, and memory with it.                                  *)
LEMMA SettledBurnt ==
  ASSUME TypeOK, Settled, up, UNCHANGED <<queue, blind, up>>,
         NEW id \in cache, NEW out, Burnt(id, out), cache' = RemovedCache(id)
  PROVE  nfts' = {} /\ cache' = {} /\ cache = {id}
  <1>1. nfts' = {}  BY DEF Settled, OnePosition, Burnt
  <1>2. cache' = cache \ {id} /\ Single(cache)
    BY DEF Settled, Counted, RemovedCache
  <1> QED  BY <1>1, <1>2 DEF Single

-----------------------------------------------------------------------------
LEMMA CycleSettled ==
  ASSUME Reliable, TypeOK, Settled, Tick \/ CycleStep PROVE Settled'
  <1>0. ChainType /\ CacheType /\ JobType  BY TypeParts
  <1>1. CASE Tick
    BY <1>1, SettledSame DEF Tick, chain, ghosts
  <1>2. CASE LockCycle
    <2>1. up /\ UNCHANGED <<nfts, queue, up>>  BY <1>2 DEF LockCycle, chain
    <2>2. CASE UNCHANGED <<cache, job, blind>>  BY <2>1, <2>2, SettledSame
    <2>3. CASE \E seen \in OwnedPositions : Saw(seen) /\ job' \in NextJobs(seen.ids)
      <3>1. PICK seen \in OwnedPositions : Saw(seen) /\ job' \in NextJobs(seen.ids)
        BY <2>3
      <3>2. seen.ids = cache /\ cache' = cache /\ blind' = blind
        BY <2>1, <3>1, SettledSaw
      <3>3. JobSettled'
        <4>1. CASE job' = Rest  BY <4>1 DEF JobSettled, Rest
        <4>2. CASE job' = Create /\ cache = {}
          BY <2>1, <4>2 DEF JobSettled, Create, Rest, Settled, Counted
        <4>3. CASE \E id \in cache : job' = TopUp(id) \/ job' = Replace(id)
          BY <3>2, <4>3 DEF JobSettled, TopUp, Replace, Rest
        <4> QED  BY <3>1, <3>2, <4>1, <4>2, <4>3, NextJobsType
      <3> QED  BY <2>1, <3>2, <3>3, SettledJob
    <2> QED  BY <1>2, <2>2, <2>3 DEF LockCycle
  <1>3. CASE RatioReached
    <2>1. up /\ UNCHANGED <<nfts, queue, blind, up, cache>>
      BY <1>3 DEF RatioReached, chain, JobFrame
    <2>2. /\ job'.step = job.plan /\ job'.plan = job.plan
          /\ job.plan \in {"mint", "topup"}
      BY <1>0, <1>3 DEF RatioReached, JobType, JobShape, Job
    <2>3. JobSettled'  BY <2>1, <2>2 DEF Settled, JobSettled
    <2> QED  BY <2>1, <2>3, SettledJob
  <1>4. CASE RatioMissed \/ MintFailed \/ RemoveFailed \/ SaveMinted
    <2>1. job' = Rest /\ up /\ UNCHANGED <<nfts, queue, blind, up, cache>>
      BY <1>4, NothingLeftBehind DEF RatioMissed, MintFailed, RemoveFailed, SaveMinted,
                                     AfterFailedRemove, chain, JobFrame
    <2> QED  BY <2>1, SettledRest
  <1>5. CASE TopUpDone
    <2>1. job' = Rest /\ up /\ UNCHANGED <<nfts, queue, blind, up, cache>>
      BY <1>5, NothingLeftBehind DEF TopUpDone, ToppedUp, Mined, chain, JobFrame
    <2> QED  BY <2>1, SettledRest
  <1>6. CASE MintConfirmed
    <2>1. PICK id \in Ids : /\ Minted(id) /\ cache' = MintedCache(id)
                           /\ job' = [Rest EXCEPT !.step = "save", !.id = id]
      BY <1>6 DEF MintConfirmed
    <2>2. nfts = {} /\ cache = {} /\ cache # NoCache /\ up
      BY <1>6 DEF MintConfirmed, Settled, JobSettled, Counted
    <2>3. nfts' = {id} /\ cache' = {id}
      BY <2>1, <2>2 DEF Minted, MintedCache, Known
    <2>4. cache' # NoCache  BY <2>3, ConstantsAssumption DEF NoCache
    <2>5. UNCHANGED <<queue, blind, up>>  BY <1>6 DEF MintConfirmed, Mined, JobFrame
    <2>6. JobSettled'  BY <2>1 DEF JobSettled, Rest
    <2> QED
      BY <2>2, <2>3, <2>4, <2>5, <2>6 DEF Settled, Quiet, OnePosition, Counted, Single,
                                          DownAtRest
  <1>7. CASE RemoveConfirmed
    <2>1. up /\ UNCHANGED <<queue, blind, up>>
      BY <1>7 DEF RemoveConfirmed, Mined, JobFrame
    <2>2. nfts' = {} /\ cache' = {}
      BY <1>7, <2>1, SettledBurnt DEF RemoveConfirmed, Settled, JobSettled
    <2>3. job'.step = "forget"  BY <1>0, <1>7 DEF RemoveConfirmed, JobType, Job
    <2>4. JobSettled'  BY <2>2, <2>3 DEF JobSettled
    <2> QED
      BY <2>1, <2>2, <2>4 DEF Settled, Quiet, OnePosition, Counted, Single, DownAtRest,
                              NoCache
  <1>8. CASE ForgetRemoved
    <2>1. up /\ UNCHANGED <<nfts, queue, blind, up, cache>>
      BY <1>8 DEF ForgetRemoved, chain, JobFrame
    <2>2. nfts = {}  BY <1>8 DEF ForgetRemoved, Settled, JobSettled
    <2>3. job' = Create \/ job' = Rest  BY <1>8 DEF ForgetRemoved
    <2>4. JobSettled'
      <3>1. Create.step = "ratio" /\ Rest.step = "rest"  BY DEF Create, Rest
      <3>2. job'.step \in {"rest", "ratio"}  BY <2>3, <3>1
      <3> QED  BY <2>1, <2>2, <3>2 DEF JobSettled
    <2> QED  BY <2>1, <2>4, SettledJob
  <1> QED  BY <1>1, <1>2, <1>3, <1>4, <1>5, <1>6, <1>7, <1>8 DEF CycleStep

(* What is left of a withdrawal is in memory.                              *)
LEMMA SettledContinue ==
  ASSUME JobType, NEW todo \in SUBSET Ids, NEW clean,
         job' = Continue(todo, clean), todo \subseteq cache',
         job.plan = "mint" => nfts' = {}
  PROVE  JobSettled'
  <1>1. CASE todo = {}  BY <1>1 DEF Continue, JobSettled, Rest
  <1>2. CASE todo # {}
    <2>1. job' = [job EXCEPT !.step = "withdraw", !.id = NoId, !.todo = todo, !.clean = clean]
      BY <1>2 DEF Continue
    <2>2. job'.step = "withdraw" /\ job'.plan = job.plan /\ job'.todo = todo
      BY <2>1 DEF JobType, Job
    <2> QED  BY <2>2 DEF JobSettled
  <1> QED  BY <1>1, <1>2

LEMMA WithdrawSettled ==
  ASSUME Reliable, TypeOK, Settled, WithdrawStep \/ LockWithdraw PROVE Settled'
  <1>0. ChainType /\ CacheType /\ JobType  BY TypeParts
  <1>1. CASE LockUnwind \/ LockWithdraw
    <2>1. up /\ UNCHANGED <<nfts, queue, up>>  BY <1>1 DEF LockUnwind, LockWithdraw, chain
    <2>2. PICK seen \in OwnedPositions, plan \in {"withdraw", "unwind"} :
             Saw(seen) /\ job' = Withdrawal(plan, seen.ids)
      BY <1>1 DEF LockUnwind, LockWithdraw
    <2>3. seen.ids = cache /\ cache' = cache /\ blind' = blind
      BY <2>1, <2>2, SettledSaw
    <2>4. \/ job' = Rest
          \/ job'.step = "withdraw" /\ job'.plan = plan /\ job'.todo = cache
      BY <2>2, <2>3 DEF Withdrawal, Rest
    <2>5. JobSettled'  BY <2>3, <2>4 DEF JobSettled, Rest
    <2> QED  BY <2>1, <2>3, <2>5, SettledJob
  <1>2. CASE WithdrawConfirmed
    <2>1. PICK id \in job.todo : /\ Burnt(id, job.plan = "withdraw")
                                /\ cache' = RemovedCache(id)
                                /\ job' = [job EXCEPT !.step = "strike", !.id = id]
      BY <1>2 DEF WithdrawConfirmed
    <2>2. up /\ UNCHANGED <<queue, blind, up>> /\ job.todo \subseteq cache
      BY <1>2 DEF WithdrawConfirmed, Mined, JobFrame, Settled, JobSettled
    <2>3. nfts' = {} /\ cache' = {} /\ cache = {id}
      BY <2>1, <2>2, SettledBurnt
    <2>4. job'.step = "strike" /\ job'.id = id /\ job'.todo = job.todo
      BY <1>0, <2>1 DEF JobType, Job
    <2>5. JobSettled'  BY <2>2, <2>3, <2>4 DEF JobSettled
    <2> QED
      BY <2>2, <2>3, <2>5 DEF Settled, Quiet, OnePosition, Counted, Single, DownAtRest,
                              NoCache
  <1>3. CASE WithdrawFailed
    <2>1. up /\ UNCHANGED <<nfts, queue, blind, up, cache>>
      BY <1>3, NothingLeftBehind DEF WithdrawFailed, chain, JobFrame
    <2>2. job.todo \subseteq cache /\ job.todo \in SUBSET Ids
             /\ (job.plan = "mint" => nfts = {})
      BY <1>0, <1>3 DEF WithdrawFailed, Settled, JobSettled, JobType, Job
    <2>3. PICK id \in job.todo : job' \in {Continue(job.todo \ {id}, FALSE), Rest}
      BY <1>3 DEF WithdrawFailed
    <2>4. CASE job' = Rest  BY <2>1, <2>4, SettledRest
    <2>5. CASE job' = Continue(job.todo \ {id}, FALSE)
      <3>1. JobSettled'  BY <1>0, <2>1, <2>2, <2>5, SettledContinue
      <3> QED  BY <2>1, <3>1, SettledJob
    <2> QED  BY <2>3, <2>4, <2>5
  <1>4. CASE StrikeRemoved
    <2>1. up /\ UNCHANGED <<nfts, queue, blind, up, cache>>
      BY <1>4 DEF StrikeRemoved, chain, JobFrame
    <2>2. /\ job.todo \ {job.id} \subseteq cache /\ job.todo \ {job.id} \in SUBSET Ids
          /\ nfts = {}
      BY <1>0, <1>4 DEF StrikeRemoved, Settled, JobSettled, JobType, Job
    <2>3. CASE job' = Rest  BY <2>1, <2>3, SettledRest
    <2>4. CASE job' = Continue(job.todo \ {job.id}, job.clean)
      <3>1. JobSettled'  BY <1>0, <2>1, <2>2, <2>4, SettledContinue
      <3> QED  BY <2>1, <3>1, SettledJob
    <2> QED  BY <1>4, <2>3, <2>4 DEF StrikeRemoved
  <1> QED  BY <1>1, <1>2, <1>3, <1>4 DEF WithdrawStep

LEMMA OutsideSettled ==
  ASSUME Reliable, TypeOK, Settled,
         \/ RequestUnwind \/ PauseTrading \/ ResumeTrading
         \/ \E b \in BOOLEAN : SetVenue(b)
         \/ Deposit \/ Sweep \/ Report \/ MineLate
         \/ Stop \/ KilledWaiting \/ Start \/ StartAborted
  PROVE  Settled'
  <1>0. ChainType /\ CacheType /\ StoreType  BY TypeParts
  <1>1. CASE \/ RequestUnwind \/ PauseTrading \/ ResumeTrading
             \/ \E b \in BOOLEAN : SetVenue(b)
    <2>1. UNCHANGED <<nfts, queue, blind, up, cache, job>>
      BY <1>1 DEF RequestUnwind, PauseTrading, ResumeTrading, SetVenue, chain, ghosts
    <2> QED  BY <2>1, SettledSame
  <1>2. CASE Deposit \/ Sweep
    BY <1>2, SettledSame DEF Deposit, Sweep, memory, ghosts
  <1>3. CASE Report \/ MineLate \/ KilledWaiting
    BY <1>3 DEF Report, MineLate, KilledWaiting, Reliable, Settled, Counted, Quiet
  <1>4. CASE Stop
    <2>1. ~up' /\ job' = Rest /\ UNCHANGED <<nfts, queue, blind>>
      BY <1>4 DEF Stop, Down, chain
    <2>2. JobSettled'  BY <2>1 DEF JobSettled, Rest
    <2> QED  BY <2>1, <2>2 DEF Settled, Quiet, OnePosition, Counted, DownAtRest
  <1>5. ASSUME NEW c \in SUBSET Ids, Started(c), ~up, UNCHANGED <<nfts, queue, blind>>,
               Single(c), c = {} <=> nfts = {}
        PROVE  Settled'
    <2>1. up' /\ cache' = c /\ job' = Rest
      BY <1>5 DEF Started, Settled, DownAtRest
    <2>2. cache' # NoCache  BY <2>1, ConstantsAssumption DEF NoCache
    <2>3. JobSettled'  BY <2>1 DEF JobSettled, Rest
    <2> QED
      BY <1>5, <2>1, <2>2, <2>3 DEF Settled, Quiet, OnePosition, Counted, Single, DownAtRest
  <1>6. db.ids \in SUBSET Ids /\ nfts \in SUBSET Ids /\ Single(nfts) /\ blind = FALSE
    BY <1>0 DEF CacheType, StoreType, Db, ChainType, Settled, OnePosition, Single, Quiet
  <1>7. ASSUME NEW seen \in Discoveries PROVE seen.ids = nfts /\ ~seen.blind
    BY DiscoveriesType DEF Reliable
  <1>8. CASE StartTrusting
    <2>1. Single(db.ids) /\ (db.ids = {} <=> nfts = {})
      BY <1>6, <1>8, SameCardinality DEF StartTrusting, CountMatches
    <2> QED  BY <1>5, <1>6, <1>8, <2>1 DEF StartTrusting, chain
  <1>9. CASE StartVerified
    <2>1. PICK seen \in Discoveries : blind' = (blind \/ seen.blind) /\ Started(seen.ids)
      BY <1>9 DEF StartVerified
    <2>2. seen.ids = nfts /\ ~seen.blind  BY <1>7
    <2>3. Started(nfts)  BY <2>1, <2>2
    <2>4. blind' = blind  BY <1>6, <2>1, <2>2, Zenon
    <2> QED  BY <1>5, <1>6, <1>9, <2>3, <2>4 DEF StartVerified, chain
  <1>10. CASE StartUnread  BY <1>10 DEF StartUnread, Reliable
  <1>11. CASE StartAborted
    <2>1. PICK seen \in Discoveries : blind' = (blind \/ seen.blind)
      BY <1>11 DEF StartAborted
    <2>2. blind' = blind  BY <1>6, <1>7, <2>1, Zenon
    <2> QED  BY <1>11, <2>2, SettledSame DEF StartAborted, chain, memory
  <1> QED  BY <1>1, <1>2, <1>3, <1>4, <1>8, <1>9, <1>10, <1>11 DEF Start

LEMMA NextSettled == Reliable => (TypeOK /\ Settled /\ [Next]_vars => Settled')
  <1> SUFFICES ASSUME Reliable, TypeOK, Settled, [Next]_vars PROVE Settled'
    OBVIOUS
  <1>1. CASE UNCHANGED vars
    BY <1>1, SettledSame DEF vars, chain, memory, ghosts
  <1>2. CASE Next
    BY <1>2, CycleSettled, WithdrawSettled, OutsideSettled DEF Next, Operator
  <1> QED  BY <1>1, <1>2

-----------------------------------------------------------------------------
(* After an unwind.                                                        *)

LEMMA CycleUnwound ==
  ASSUME TypeOK, Settled, Unwound, Tick \/ CycleStep PROVE Unwound'
  <1> SUFFICES ASSUME unwound' # "no" PROVE nfts' = {} /\ TradingOff' /\ NoMintJob'
    BY DEF Unwound
  <1>0. unwound # "no" /\ UNCHANGED <<up, enabled>>
    BY DEF Tick, CycleStep, LockCycle, RatioReached, RatioMissed, MintConfirmed, MintFailed,
           SaveMinted, TopUpDone, RemoveConfirmed, RemoveFailed, ForgetRemoved, JobFrame,
           ghosts
  <1>1. nfts = {} /\ TradingOff /\ NoMintJob  BY <1>0 DEF Unwound
  <1>2. CASE Tick
    BY <1>1, <1>2 DEF Tick, chain, TradingOff
  <1>3. CASE LockCycle
    <2>1. ~MayManage /\ UNCHANGED <<nfts, job, db>>
      BY <1>1, <1>3 DEF LockCycle, TradingOff, MayManage, chain
    <2> QED  BY <1>0, <1>1, <2>1 DEF TradingOff, NoMintJob
  <1>4. CASE CycleStep /\ ~LockCycle
    BY <1>1, <1>4 DEF NoMintJob, CycleStep, RatioReached, RatioMissed, MintConfirmed,
       MintFailed, SaveMinted, TopUpDone, RemoveConfirmed, RemoveFailed, ForgetRemoved
  <1> QED  BY <1>2, <1>3, <1>4

LEMMA WithdrawUnwound ==
  ASSUME TypeOK, Settled, Unwound, WithdrawStep \/ LockWithdraw PROVE Unwound'
  <1> SUFFICES ASSUME unwound' # "no" PROVE nfts' = {} /\ TradingOff' /\ NoMintJob'
    BY DEF Unwound
  <1>0. CacheType /\ JobType /\ StoreType  BY TypeParts
  <1>1. CASE LockUnwind \/ LockWithdraw
    <2>1. up /\ UNCHANGED <<nfts, up, enabled, db>>
      BY <1>1 DEF LockUnwind, LockWithdraw, chain
    <2>2. PICK seen \in OwnedPositions, plan \in {"withdraw", "unwind"} :
             /\ Saw(seen) /\ job' = Withdrawal(plan, seen.ids)
             /\ \/ unwound' = unwound
                \/ Unwinding("unwind", seen.ids = {})
      BY <1>1 DEF LockUnwind, LockWithdraw
    <2>3. seen.ids = cache  BY <2>1, <2>2, SettledSaw
    <2>4. NoMintJob'  BY <2>2 DEF NoMintJob, Withdrawal, Rest
    <2>5. CASE unwound # "no"  BY <2>1, <2>4, <2>5 DEF Unwound, TradingOff
    <2>6. CASE unwound = "no"
      <3>1. seen.ids = {} /\ ~enabled /\ ~db.enabled
        BY <2>2, <2>6 DEF Unwinding
      <3>2. nfts = {}  BY <2>1, <2>3, <3>1 DEF Settled, Counted
      <3> QED  BY <2>1, <2>4, <3>1, <3>2 DEF TradingOff
    <2> QED  BY <2>5, <2>6
  <1>2. ASSUME NEW todo, NEW clean, job' = Rest \/ job' = Continue(todo, clean),
               job.plan # "mint"
        PROVE  NoMintJob'
    <2>1. CASE job' = Rest \/ todo = {}  BY <1>2, <2>1 DEF Continue, NoMintJob, Rest
    <2>2. CASE job' = [job EXCEPT !.step = "withdraw", !.id = NoId, !.todo = todo,
                                  !.clean = clean]
      <3>1. job'.step = "withdraw" /\ job'.plan = job.plan
        BY <1>0, <2>2 DEF JobType, Job
      <3> QED  BY <1>2, <3>1 DEF NoMintJob
    <2> QED  BY <1>2, <2>1, <2>2 DEF Continue
  <1>3. CASE WithdrawConfirmed \/ WithdrawFailed
    <2>1. unwound # "no" /\ UNCHANGED <<up, enabled, db>>
      BY <1>3 DEF WithdrawConfirmed, WithdrawFailed, JobFrame
    <2>2. nfts = {} /\ TradingOff /\ NoMintJob  BY <2>1 DEF Unwound
    <2>3. WithdrawFailed  BY <1>3, <2>2 DEF WithdrawConfirmed, Burnt
    <2>4. NoMintJob'
      <3>1. PICK id \in job.todo : job' = Rest \/ job' = Continue(job.todo \ {id}, FALSE)
        BY <2>3 DEF WithdrawFailed
      <3>2. job.plan # "mint"  BY <2>2 DEF NoMintJob
      <3> QED  BY <1>2, <3>1, <3>2, Zenon
    <2>5. nfts' = nfts  BY <2>3 DEF WithdrawFailed, chain, LeftBehind
    <2> QED  BY <2>1, <2>2, <2>4, <2>5 DEF TradingOff
  <1>4. CASE StrikeRemoved
    <2>1. nfts = {} /\ UNCHANGED <<nfts, up, enabled>>
      BY <1>4 DEF StrikeRemoved, Settled, JobSettled, chain, JobFrame
    <2>2. db'.enabled = db.enabled
      BY <1>0, <1>4 DEF StrikeRemoved, Forgotten, StoreType, Db
    <2>3. job' = Rest \/ job' = Continue(job.todo \ {job.id}, job.clean)
      BY <1>4 DEF StrikeRemoved
    <2>4. CASE unwound # "no"
      <3>1. TradingOff /\ job.plan # "mint"  BY <2>4 DEF Unwound, NoMintJob
      <3>2. NoMintJob'  BY <1>2, <2>3, <3>1, Zenon
      <3> QED  BY <2>1, <2>2, <3>1, <3>2 DEF TradingOff
    <2>5. CASE unwound = "no"
      <3>1. job.plan = "unwind" /\ ~enabled /\ ~db.enabled
        BY <1>4, <2>5 DEF StrikeRemoved, Unwinding
      <3>2. NoMintJob'  BY <1>2, <2>3, <3>1
      <3> QED  BY <2>1, <2>2, <3>1, <3>2 DEF TradingOff
    <2> QED  BY <2>4, <2>5
  <1> QED  BY <1>1, <1>3, <1>4 DEF WithdrawStep

LEMMA OutsideUnwound ==
  ASSUME TypeOK, Settled, Unwound,
         \/ RequestUnwind \/ PauseTrading \/ ResumeTrading
         \/ \E b \in BOOLEAN : SetVenue(b)
         \/ Deposit \/ Sweep \/ Report \/ MineLate
         \/ Stop \/ KilledWaiting \/ Start \/ StartAborted
  PROVE  Unwound'
  <1> SUFFICES ASSUME unwound' # "no" PROVE nfts' = {} /\ TradingOff' /\ NoMintJob'
    BY DEF Unwound
  <1>0. StoreType  BY TypeParts
  <1>1. CASE ResumeTrading  BY <1>1 DEF ResumeTrading
  <1>2. CASE Report \/ MineLate
    BY <1>2 DEF Report, MineLate, Settled, Counted, Quiet
  <1>3. CASE \/ RequestUnwind \/ PauseTrading
             \/ \E b \in BOOLEAN : SetVenue(b)
             \/ Deposit \/ Sweep
    <2>1. unwound # "no" /\ UNCHANGED <<nfts, up, job>> /\ (enabled' = FALSE \/ enabled' = enabled)
      BY <1>3 DEF RequestUnwind, PauseTrading, SetVenue, Deposit, Sweep, chain, memory, ghosts
    <2>2. nfts = {} /\ TradingOff /\ NoMintJob  BY <2>1 DEF Unwound
    <2>3. db'.enabled = FALSE \/ db'.enabled = db.enabled
      BY <1>0, <1>3 DEF RequestUnwind, PauseTrading, SetVenue, Deposit, Sweep, Stored,
                        StoreType, Db
    <2> QED  BY <2>1, <2>2, <2>3 DEF TradingOff, NoMintJob
  <1>4. CASE Stop \/ KilledWaiting
    <2>1. unwound # "no" /\ UNCHANGED <<nfts, db>> /\ ~up' /\ job' = Rest
      BY <1>4 DEF Stop, KilledWaiting, Down, chain, ghosts
    <2> QED  BY <2>1 DEF Unwound, TradingOff, NoMintJob, Rest
  <1>5. CASE Start \/ StartAborted
    <2>1. ~up  BY <1>5 DEF Start, StartTrusting, StartVerified, StartUnread, StartAborted
    <2>2. unwound # "no" /\ UNCHANGED <<nfts, job>> /\ (up' => enabled' = db.enabled)
      <3>1. CASE Start
        <4>1. UNCHANGED nfts
          BY <3>1 DEF Start, StartTrusting, StartVerified, StartUnread, chain
        <4>2. \E c : Started(c)
          BY <3>1 DEF Start, StartTrusting, StartVerified, StartUnread
        <4> QED  BY <4>1, <4>2 DEF Started
      <3>2. CASE StartAborted  BY <2>1, <3>2 DEF StartAborted, chain, memory
      <3> QED  BY <1>5, <3>1, <3>2
    <2>3. db'.enabled = db.enabled
      <3>1. db' = db \/ \E part : db' = [db EXCEPT !.ids = part]
        BY <1>5 DEF Start, StartTrusting, StartVerified, StartUnread, StartAborted
      <3> QED  BY <1>0, <3>1 DEF StoreType, Db
    <2> QED  BY <2>1, <2>2, <2>3 DEF Unwound, TradingOff, NoMintJob
  <1> QED  BY <1>1, <1>2, <1>3, <1>4, <1>5

LEMMA NextUnwound == TypeOK /\ Settled /\ Unwound /\ [Next]_vars => Unwound'
  <1> SUFFICES ASSUME TypeOK, Settled, Unwound, [Next]_vars PROVE Unwound'
    OBVIOUS
  <1>1. CASE UNCHANGED vars
    BY <1>1 DEF vars, chain, memory, ghosts, Unwound, TradingOff, NoMintJob
  <1>2. CASE Next
    BY <1>2, CycleUnwound, WithdrawUnwound, OutsideUnwound DEF Next, Operator
  <1> QED  BY <1>1, <1>2

-----------------------------------------------------------------------------
(* The LP account never owns two positions of the venue: the rebalancer    *)
(* mints only into an empty account, whatever store write fails, whatever  *)
(* step of a job fails, and whenever the process stops and starts.         *)
THEOREM SinglePosition == ASSUME Reliable PROVE Spec => []OnePosition
  <1>1. Settled => OnePosition  BY DEF Settled
  <1>2. TypeOK /\ Settled /\ [Next]_vars => Settled'  BY NextSettled
  <1> QED  BY <1>1, <1>2, TypeCorrect, SettledInit, PTL DEF Spec

(* Under the same conditions the engine never takes a position it has for  *)
(* none, nor manages one more than it has: the count that decides between  *)
(* a mint and a halt is right even when the id itself is not.              *)
THEOREM CountIsRight == ASSUME Reliable PROVE Spec => []CountAgrees
  <1>1. TypeOK /\ Settled /\ [Next]_vars => Settled'  BY NextSettled
  <1> QED  BY <1>1, SettledCounts, TypeCorrect, SettledInit, PTL DEF Spec

(* ... and this process mints nothing of what its unwind returned to the   *)
(* wallet until trading is resumed, not even by a cycle that was queued on *)
(* the lock before.                                                        *)
THEOREM UnwindIsFinal == ASSUME Reliable PROVE Spec => []UnwindHolds
  <1>1. Unwound => UnwindHolds  BY DEF Unwound, UnwindHolds
  <1>2. TypeOK /\ Settled /\ [Next]_vars => Settled'  BY NextSettled
  <1> QED  BY <1>1, <1>2, TypeCorrect, SettledInit, NextUnwound, PTL DEF Spec

=============================================================================
