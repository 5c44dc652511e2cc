---------------------------- MODULE QuidaxLadder ----------------------------
(* The order ladder of the Quidax adapter: the sync that requotes it, the      *)
(* cancellation a pause runs, the readers of the open orders, and the list of  *)
(* tracked orders that stands in for the venue's own list when that one lags.  *)
EXTENDS FiniteSets, Integers

CONSTANTS
  Ids,       \* order ids the venue may hand out
  Sides,     \* targets of one ladder: a buy and a sell
  Refs,      \* reference prices too far apart to share a ladder
  Others,    \* coroutines that read or cancel: pauses, requests, webhooks
  Syncs,     \* the ladder syncs: the scheduled one, the one without the lock
  Faults,    \* what the venue and the process may do wrong
  NoTarget,  \* an id that was not handed out yet
  NoRef      \* a job that needs no reference price

Actors == Syncs \cup Others

AllFaults == {"lag", "missing", "unread", "refuse", "reject", "lost", "store",
              "slow_load", "unloaded", "restart", "drift"}

ASSUME LadderAssumption ==
  /\ Syncs \subseteq {"sync", "manual"} /\ Others \cap {"sync", "manual"} = {}
  /\ Faults \subseteq AllFaults
  /\ Sides # {} /\ Refs # {}
  /\ NoTarget \notin Sides \X Refs /\ NoRef \notin Refs

VARIABLES
  state,    \* of each id at the venue
  target,   \* side and reference price of each id
  mem,      \* _tracked_open_orders: ids, those missing once, those being cancelled
  loaded,   \* _tracked_open_orders_loaded
  stored,   \* the persisted copy of mem
  paused,   \* the adapter's switch
  enabled,  \* trading_enabled
  saved,    \* the persisted copies of the two switches
  cooling,  \* the last requote is younger than the cooldown
  job,      \* the coroutine of each actor with its locals
  doubt,     \* ghost: open orders the venue denied or never acknowledged
  unsaved,   \* ghost: tracked orders whose last write failed or never came
  forgotten  \* ghost: open orders the store lost: see Loads and Restart

ghosts == <<doubt, unsaved, forgotten>>

vars == <<state, target, mem, loaded, stored, paused, enabled, saved, cooling,
          job, ghosts>>

-----------------------------------------------------------------------------
(* Orders and the tracked list.                                              *)

Targets == Sides \X Refs

States == {"none", "wait", "cancelling", "gone"}

Open == {i \in Ids : state[i] \in {"wait", "cancelling"}}

Unused == {i \in Ids : state[i] = "none"}

View == [ids : SUBSET Ids, struck : SUBSET Ids, ending : SUBSET Ids]

NoView == [ids |-> {}, struck |-> {}, ending |-> {}]

Without(view, gone) ==
  [ids |-> view.ids \ gone, struck |-> view.struck \ gone,
   ending |-> view.ending \ gone]

(* What a row of the venue says of its order: open again, so no strike, and    *)
(* its status is copied.                                                       *)
Refreshed(view, seen) ==
  [view EXCEPT !.struck = @ \ seen,
               !.ending = (@ \ seen) \cup
                          {i \in seen \cap view.ids : state[i] = "cancelling"}]

Tracking(view, i) ==
  [ids |-> view.ids \cup {i}, struck |-> view.struck \ {i},
   ending |-> view.ending \ {i}]

ReconciledToRows(view, rows, finished) == Without(view, view.ids \ rows)

(* reconcile_from_rows: drop the terminal rows, refresh the open ones.         *)
Reconciled(view, rows, finished) ==
  Refreshed(Without(view, finished), rows)

(* persist: a failed write is logged and forgotten.                            *)
Persist(view) ==
  \/ stored' = view /\ unsaved' = {}
  \/ "store" \in Faults /\ stored' = stored /\ unsaved' = view.ids \ stored.ids

(* A list that did not change is not written.                                  *)
Saves(view) ==
  IF mem' = view THEN UNCHANGED <<stored, unsaved>> ELSE Persist(mem')

(* ensure_loaded replaces the list by what it read, whatever was tracked while  *)
(* the read was awaited. A read or a decoding that fails is logged and leaves  *)
(* the list as it is; the flag is up already, so nobody reads again.           *)
Loads(read, view) ==
  \/ view = read /\ forgotten' = forgotten \cup ((Open \cap mem.ids) \ read.ids)
  \/ /\ "unloaded" \in Faults /\ view = mem
     /\ forgotten' = forgotten \cup ((Open \cap read.ids) \ mem.ids)

EnsureLoaded(view) ==
  IF loaded THEN view = mem /\ forgotten' = forgotten ELSE Loads(stored, view)

-----------------------------------------------------------------------------
(* Jobs.                                                                     *)

(* order_collection_endpoints: each target may be posted to both.              *)
Endpoints == 2

Steps == {"idle", "anchor", "list", "load", "lookup", "cancel", "settle", "place"}

Goals == {"requote", "cancel", "check", "view"}

Job == [pc : Steps, goal : Goals, ref : Refs \cup {NoRef}, rows : SUBSET Ids,
        late : View, todo : [Sides -> 0..Endpoints], acked : SUBSET Ids, placed : BOOLEAN]

Idle == [pc |-> "idle", goal |-> "view", ref |-> NoRef, rows |-> {},
         late |-> NoView, todo |-> [s \in Sides |-> 0], acked |-> {},
         placed |-> FALSE]

Reading(goal, ref) == [Idle EXCEPT !.pc = "list", !.goal = goal, !.ref = ref]

Placing(ref) == [Idle EXCEPT !.pc = "place", !.goal = "check", !.ref = ref,
                             !.todo = [s \in Sides |-> Endpoints]]

Becomes(a, j) == job' = [job EXCEPT ![a] = j]

IsIdle(a) == a \in Actors /\ job[a].pc = "idle"

TypeOK ==
  /\ state \in [Ids -> States]
  /\ target \in [Ids -> Targets \cup {NoTarget}]
  /\ mem \in View
  /\ loaded \in BOOLEAN
  /\ stored \in View
  /\ paused \in BOOLEAN
  /\ enabled \in BOOLEAN
  /\ saved \in [paused : BOOLEAN, enabled : BOOLEAN]
  /\ cooling \in BOOLEAN
  /\ job \in [Actors -> Job]
  /\ doubt \subseteq Ids /\ unsaved \subseteq Ids /\ forgotten \subseteq Ids

Init ==
  /\ state = [i \in Ids |-> "none"]
  /\ target = [i \in Ids |-> NoTarget]
  /\ mem = NoView
  /\ loaded = FALSE
  /\ stored = NoView
  /\ paused = FALSE
  /\ enabled = TRUE
  /\ saved = [paused |-> FALSE, enabled |-> TRUE]
  /\ cooling = FALSE
  /\ job = [a \in Actors |-> Idle]
  /\ doubt = {} /\ unsaved = {} /\ forgotten = {}

-----------------------------------------------------------------------------
(* Starting a sync. The scheduled one holds the ladder lock, which is what     *)
(* "sync is not idle" says; the manual one takes no lock.                      *)

book == <<state, target>>
tracking == <<mem, loaded, stored>>
switches == <<paused, enabled, saved>>

StartSync(r) ==
  /\ IsIdle("sync") /\ enabled /\ ~paused
  /\ Becomes("sync", [Idle EXCEPT !.pc = "anchor", !.ref = r])
  /\ UNCHANGED <<book, tracking, switches, cooling, ghosts>>

StartManual(r) ==
  /\ IsIdle("manual")
  /\ Becomes("manual", [Idle EXCEPT !.pc = "anchor", !.ref = r])
  /\ UNCHANGED <<book, tracking, switches, cooling, ghosts>>

(* sync_order_ladder reads the switch once, before its first await.            *)
Begin(a) ==
  /\ job[a].pc = "anchor"
  /\ Becomes(a, IF paused THEN Idle ELSE Reading("requote", job[a].ref))
  /\ UNCHANGED <<book, tracking, switches, cooling, ghosts>>

-----------------------------------------------------------------------------
(* get_open_orders: the venue's list, then every tracked order the list does   *)
(* not name.                                                                   *)

Listings ==
  IF "lag" \in Faults THEN SUBSET Open ELSE {Open}

ListOrders(a) ==
  /\ job[a].pc = "list"
  /\ \E rows \in Listings, finished \in {{}, Ids \ Open} :
       \/ /\ loaded \/ "slow_load" \notin Faults
          /\ \E view \in {mem, stored} :
               /\ EnsureLoaded(view)
               /\ mem' = Reconciled(view, rows, finished)
               /\ Saves(view)
          /\ Becomes(a, [job[a] EXCEPT !.pc = "lookup", !.rows = rows])
       \/ /\ ~loaded /\ "slow_load" \in Faults
          /\ Becomes(a, [job[a] EXCEPT !.pc = "load", !.rows = rows,
                                       !.late = stored])
          /\ UNCHANGED <<mem, stored, unsaved, forgotten>>
  /\ loaded' = TRUE
  /\ UNCHANGED <<book, switches, cooling, doubt>>

(* The awaited read of the stored list ends; its list is not written back      *)
(* unless a row changes it, even when the store holds another one by now.      *)
Load(a) ==
  /\ job[a].pc = "load"
  /\ \E view \in {mem, job[a].late} :
       /\ Loads(job[a].late, view)
       /\ mem' = Refreshed(view, job[a].rows)
       /\ IF mem' = view THEN stored' = stored /\ unsaved' = view.ids \ stored.ids
                         ELSE Persist(mem')
  /\ Becomes(a, [job[a] EXCEPT !.pc = "lookup", !.late = NoView])
  /\ UNCHANGED <<book, loaded, switches, cooling, doubt>>

(* Both endpoints of the list fail: the call raises and the caller gives up.   *)
ListFails(a) ==
  /\ job[a].pc = "list" /\ "unread" \in Faults
  /\ Becomes(a, Idle)
  /\ UNCHANGED <<book, tracking, switches, cooling, ghosts>>

Answers(i) ==
  (IF i \in Open THEN {"found"} ELSE {"terminal"})
    \cup (IF "missing" \in Faults THEN {"missing"} ELSE {})
    \cup (IF "unread" \in Faults THEN {"unknown"} ELSE {})

FitsOneSided(rows, ref) == {target[i] : i \in rows} \subseteq Sides \X {ref}

(* get_requote_reason on whole ladders: every row must be a target of the      *)
(* reference price, one for each side. Where "drift" is on, the remaining size  *)
(* of a row that was filled in part may call for a new ladder all the same.     *)
Fits(rows, ref) ==
  /\ Cardinality(rows) = Cardinality(Sides)
  /\ {target[i] : i \in rows} = Sides \X {ref}

(* A cancellation that found nothing to cancel.                                *)
NothingToCancel(a) == IF a \in Others THEN Idle ELSE Reading("check", job[a].ref)

AfterRead(a, rows) ==
  LET j == job[a]
  IN  CASE j.goal = "view" -> Becomes(a, Idle)
        [] j.goal = "cancel" ->
             Becomes(a, IF rows # {} THEN [j EXCEPT !.pc = "cancel", !.rows = rows]
                        ELSE NothingToCancel(a))
        [] j.goal = "check" ->
             Becomes(a, IF rows = {} THEN Placing(j.ref) ELSE Idle)
        [] j.goal = "requote" ->
             \/ rows = {} /\ Becomes(a, Placing(j.ref))
             \/ rows # {} /\ Fits(rows, j.ref) /\ Becomes(a, Idle)
             \/ rows # {} /\ (~Fits(rows, j.ref) \/ "drift" \in Faults)
                /\ Becomes(a, IF cooling THEN Idle ELSE Reading("cancel", j.ref))

ForgottenIfCancelled(view, missing) == missing \cap view.ending

(* An order the venue does not know is dropped when it was being cancelled or  *)
(* was missing once before.                                                    *)
Forgotten(view, missing) == missing \cap (view.ending \cup view.struck)

LookUp(a) ==
  /\ job[a].pc = "lookup"
  /\ LET asked == mem.ids \ job[a].rows
     IN  \E answer \in [asked -> {"found", "terminal", "missing", "unknown"}] :
           LET missing == {i \in asked : answer[i] = "missing"}
               dropped == {i \in asked : answer[i] = "terminal"} \cup
                          Forgotten(mem, missing)
               found == {i \in asked : answer[i] = "found"}
               view == Refreshed(Without([mem EXCEPT !.struck = @ \cup missing],
                                         dropped), found)
           IN  /\ \A i \in asked : answer[i] \in Answers(i)
               /\ mem' = view
               /\ Saves(mem)
               /\ doubt' = doubt \cup (dropped \cap Open)
               /\ AfterRead(a, job[a].rows \cup view.ids)
  /\ UNCHANGED <<book, loaded, switches, cooling, forgotten>>

-----------------------------------------------------------------------------
(* cancel_all_orders.                                                        *)

(* Rows with a strike are looked up once more; a row that is missing again or  *)
(* terminal is dropped, every other one gets a cancel request. The request     *)
(* changes nothing for an order that is gone.                                  *)
CancelAll(a) ==
  /\ job[a].pc = "cancel"
  /\ LET rows == job[a].rows
     IN  \E lost \in SUBSET (rows \cap mem.struck),
            accepted \in SUBSET (rows \cap Open), swift \in SUBSET (rows \cap Open) :
           /\ \A i \in lost : "terminal" \in Answers(i) \/ "missing" \in Answers(i)
           /\ accepted \cap lost = {} /\ swift \subseteq accepted
           /\ "refuse" \in Faults \/ (rows \cap Open) \ lost \subseteq accepted
           /\ state' = [i \in Ids |-> IF i \in swift THEN "gone"
                                      ELSE IF i \in accepted THEN "cancelling"
                                      ELSE state[i]]
           /\ mem' = [ids |-> (mem.ids \cup accepted) \ lost,
                      struck |-> mem.struck \ lost,
                      ending |-> (mem.ending \cup accepted) \ lost]
           /\ doubt' = doubt \cup (lost \cap Open)
           /\ Saves(mem)
           /\ Becomes(a, IF rows = lost THEN NothingToCancel(a)
                         ELSE [job[a] EXCEPT !.pc = "settle", !.rows = accepted])
  /\ UNCHANGED <<target, loaded, switches, cooling, forgotten>>

AfterCancelPlace(a) ==
  IF a \in Others THEN Reading("view", NoRef) ELSE Placing(job[a].ref)

(* The cancellation of a pause ends with a broadcast of what is left; the one  *)
(* of a sync goes on to its check.                                             *)
AfterCancel(a) ==
  IF a \in Others THEN Reading("view", NoRef) ELSE Reading("check", job[a].ref)

(* The polls after the requests.                                               *)
Settle(a) ==
  /\ job[a].pc = "settle"
  /\ LET rows == job[a].rows
     IN  \E settled \in SUBSET rows :
           /\ \A i \in settled : i \in Open => "missing" \in Faults
           /\ mem' = Refreshed(Without(mem, settled), (rows \ settled) \cap Open)
           /\ doubt' = doubt \cup (settled \cap Open)
           /\ Saves(mem)
           /\ Becomes(a, AfterCancel(a))
  /\ UNCHANGED <<book, loaded, switches, cooling, forgotten>>

-----------------------------------------------------------------------------
(* Placement. The targets are posted concurrently; an order is tracked when    *)
(* its response arrives.                                                       *)

Rest(i, side, ref) ==
  /\ state' = [state EXCEPT ![i] = "wait"]
  /\ target' = [target EXCEPT ![i] = <<side, ref>>]

Posting(a, side) == job[a].pc = "place" /\ job[a].todo[side] > 0

PostPlacedUntracked(a, side) ==
  /\ Posting(a, side)
  /\ \E i \in Unused : Rest(i, side, job[a].ref)
  /\ Becomes(a, [job[a] EXCEPT !.todo[side] = 0, !.placed = TRUE])
  /\ UNCHANGED <<tracking, switches, cooling, ghosts>>

PostPlaced(a, side) ==
  /\ Posting(a, side)
  /\ \E i \in Unused :
       /\ Rest(i, side, job[a].ref)
       /\ Becomes(a, [job[a] EXCEPT !.todo[side] = 0, !.acked = @ \cup {i},
                                    !.placed = TRUE])
  /\ UNCHANGED <<tracking, switches, cooling, ghosts>>

(* An endpoint turns the order down, and the next one is tried.                *)
PostRejected(a, side) ==
  /\ Posting(a, side) /\ "reject" \in Faults
  /\ Becomes(a, [job[a] EXCEPT !.todo[side] = @ - 1])
  /\ UNCHANGED <<book, tracking, switches, cooling, ghosts>>

(* An endpoint takes the order and its response is lost: the next one gets the *)
(* same target.                                                                *)
PostLost(a, side) ==
  /\ Posting(a, side) /\ "lost" \in Faults
  /\ \E i \in Unused :
       /\ Rest(i, side, job[a].ref)
       /\ doubt' = doubt \cup {i}
  /\ Becomes(a, [job[a] EXCEPT !.todo[side] = @ - 1])
  /\ UNCHANGED <<tracking, switches, cooling, unsaved, forgotten>>

Track(a, i) ==
  /\ job[a].pc = "place" /\ i \in job[a].acked
  /\ mem' = Tracking(mem, i)
  /\ Persist(mem')
  /\ Becomes(a, [job[a] EXCEPT !.acked = @ \ {i}])
  /\ UNCHANGED <<book, loaded, switches, cooling, doubt, forgotten>>

(* Nothing accepted is an error; one side accepted is a ladder. Either way the *)
(* cooldown starts only when something was placed.                             *)
Finish(a) ==
  /\ job[a].pc = "place" /\ job[a].acked = {}
  /\ \A s \in Sides : job[a].todo[s] = 0
  /\ cooling' = (cooling \/ job[a].placed)
  /\ Becomes(a, IF job[a].placed THEN Reading("view", NoRef) ELSE Idle)
  /\ UNCHANGED <<book, tracking, switches, ghosts>>

-----------------------------------------------------------------------------
(* Commands, webhook, readers, time, the venue, restarts.                     *)

SaveSwitches ==
  \/ saved' = [paused |-> paused', enabled |-> enabled']
  \/ "store" \in Faults /\ saved' = saved

(* pause_venue_now. A write that raises leaves the switch set and cancels      *)
(* nothing.                                                                    *)
PauseVenue(a) ==
  /\ a \in Others /\ IsIdle(a)
  /\ paused' = TRUE /\ enabled' = enabled
  /\ \/ /\ saved' = [saved EXCEPT !.paused = TRUE]
        /\ Becomes(a, Reading("cancel", NoRef))
     \/ "store" \in Faults /\ UNCHANGED <<saved, job>>
  /\ UNCHANGED <<book, tracking, cooling, ghosts>>

(* The bot's pause of all trading: the scheduler's switch, then a cancellation *)
(* that leaves the adapter's own switch alone.                                 *)
PauseAll(a) ==
  /\ a \in Others /\ IsIdle(a)
  /\ enabled' = FALSE /\ paused' = paused
  /\ \/ /\ saved' = [saved EXCEPT !.enabled = FALSE]
        /\ Becomes(a, Reading("cancel", NoRef))
     \/ "store" \in Faults /\ UNCHANGED <<saved, job>>
  /\ UNCHANGED <<book, tracking, cooling, ghosts>>

(* resume_venue_now, whose sync takes no lock.                                 *)
ResumeVenue(r) ==
  /\ IsIdle("manual")
  /\ paused' = FALSE /\ enabled' = enabled
  /\ \/ /\ saved' = [saved EXCEPT !.paused = FALSE]
        /\ IF enabled
           THEN Becomes("manual", [Idle EXCEPT !.pc = "anchor", !.ref = r])
           ELSE job' = job
     \/ "store" \in Faults /\ UNCHANGED <<saved, job>>
  /\ UNCHANGED <<book, tracking, cooling, ghosts>>

(* scheduler.resume; the sync it runs is a scheduled one.                      *)
ResumeTrading ==
  /\ ~enabled /\ enabled' = TRUE /\ paused' = paused
  /\ \/ saved' = [saved EXCEPT !.enabled = TRUE]
     \/ "store" \in Faults /\ saved' = saved
  /\ UNCHANGED <<book, tracking, cooling, job, ghosts>>

(* A webhook about an order that is over, then the snapshot it broadcasts.     *)
Webhook(a, i) ==
  /\ a \in Others /\ IsIdle(a) /\ state[i] = "gone"
  /\ \E view \in {mem, stored} :
       /\ EnsureLoaded(view)
       /\ mem' = Without(view, {i})
       /\ Saves(view)
  /\ loaded' = TRUE
  /\ Becomes(a, Reading("view", NoRef))
  /\ UNCHANGED <<book, switches, cooling, doubt>>

(* GET /venues/quidax/orders and the bot's listing.                            *)
ReadOrders(a) ==
  /\ a \in Others /\ IsIdle(a)
  /\ Becomes(a, Reading("view", NoRef))
  /\ UNCHANGED <<book, tracking, switches, cooling, ghosts>>

CoolDown ==
  /\ cooling /\ cooling' = FALSE
  /\ UNCHANGED <<book, tracking, switches, job, ghosts>>

(* The venue fills an order or carries a cancellation out.                     *)
End(i) ==
  /\ i \in Open
  /\ state' = [state EXCEPT ![i] = "gone"]
  /\ doubt' = doubt \ {i} /\ forgotten' = forgotten \ {i}
  /\ UNCHANGED <<target, tracking, switches, cooling, job, unsaved>>

(* A restart loses the responses under way and what the store does not hold:   *)
(* orders whose write failed, or that only a read under way still knew of.     *)
Restart ==
  /\ "restart" \in Faults
  /\ mem' = NoView /\ loaded' = FALSE /\ stored' = stored
  /\ paused' = saved.paused /\ enabled' = saved.enabled /\ saved' = saved
  /\ cooling' = FALSE
  /\ job' = [a \in Actors |-> Idle]
  /\ doubt' = doubt \cup (Open \cap UNION {job[a].acked : a \in Actors})
  /\ forgotten' = (forgotten \cup (Open \cap (unsaved \cup
                     UNION {job[a].late.ids : a \in Actors}))) \ stored.ids
  /\ unsaved' = {}
  /\ UNCHANGED book

SyncStep(a) ==
  \/ Begin(a)
  \/ ListOrders(a)
  \/ Load(a)
  \/ LookUp(a)
  \/ CancelAll(a)
  \/ Settle(a)
  \/ \E s \in Sides : PostPlaced(a, s)
  \/ \E i \in Ids : Track(a, i)
  \/ Finish(a)

SyncFault(a) ==
  \/ ListFails(a)
  \/ \E s \in Sides : PostRejected(a, s) \/ PostLost(a, s)

Next ==
  \/ \E r \in Refs : StartSync(r) \/ StartManual(r) \/ ResumeVenue(r)
  \/ \E a \in Actors : SyncStep(a) \/ SyncFault(a)
  \/ \E a \in Others : PauseVenue(a) \/ PauseAll(a) \/ ReadOrders(a)
  \/ \E a \in Others, i \in Ids : Webhook(a, i)
  \/ \E i \in Ids : End(i)
  \/ ResumeTrading \/ CoolDown \/ Restart

Spec == Init /\ [][Next]_vars

(* The jobs run on: every call has a timeout, the cooldown passes, the sync is  *)
(* scheduled again and again while trading is on, and the venue carries out    *)
(* the cancellations it accepted.                                              *)
FairSpec ==
  /\ Spec
  /\ \A a \in Actors : WF_vars(SyncStep(a))
  /\ WF_vars(\E r \in Refs : StartSync(r))
  /\ WF_vars(CoolDown)
  /\ \A i \in Ids : WF_vars(state[i] = "cancelling" /\ End(i))

-----------------------------------------------------------------------------
(* Properties.                                                               *)

(* Every open order is tracked, or its response is about to be, or the venue   *)
(* denied it or never acknowledged it, or the store lost it: by a failed load, *)
(* by a late one that replaced newer entries, by a restart after a failed      *)
(* write. Nothing else takes an open order off the list that get_open_orders   *)
(* adds to a listing of the venue that lags.                                   *)
KnowsItsOrders ==
  loaded /\ (\A a \in Actors : job[a].pc # "load") =>
    Open \subseteq mem.ids \cup doubt \cup forgotten
                  \cup UNION {job[a].acked : a \in Actors}

(* No side of the book holds two orders of the ladder: a sync places only over *)
(* an empty book, whatever the list omits.                                     *)
NoStacking ==
  \A i, j \in Open \ doubt : target[i][1] = target[j][1] => i = j

(* When a pause was carried out and nothing is under way, no order rests.      *)
PausedBookIsEmpty ==
  (paused \/ ~enabled) /\ (\A a \in Actors : job[a].pc = "idle") => Open = {}

(* Half a ladder, left by placements that failed, does not stand while there    *)
(* are ids to replace it with: the next syncs count its rows and cancel it.    *)
Half == Cardinality(Open) \in 1..(Cardinality(Sides) - 1) /\ Open \cap doubt = {}

HalfLadderReplaced == Half ~> (~Half \/ paused \/ ~enabled \/ Unused = {})

(* A finished order does not stay on the tracked list, where it would keep the *)
(* sync from placing: two look-ups that miss it are enough.                    *)
Stale == {i \in mem.ids : state[i] = "gone"}

FinishedIsForgotten ==
  Stale # {} ~> (Stale = {} \/ paused \/ ~enabled \/ Unused = {})

=============================================================================
