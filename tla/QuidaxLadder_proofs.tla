------------------------- MODULE QuidaxLadder_proofs -------------------------
(***************************************************************************)
(* The order ladder of the Quidax adapter, for every set of ids, sides and *)
(* reference prices and every choice of faults: its states are well typed, *)
(* the tracked list stands in for the venue's own one, and the locked sync *)
(* never stacks one ladder on another.                                     *)
(***************************************************************************)
EXTENDS QuidaxLadder, TLAPS

(* The ghosts are always meant one by one.                                 *)
USE DEF ghosts

-----------------------------------------------------------------------------
(* The tracked list.                                                       *)

LEMMA NoViewIsView == NoView \in View
  BY DEF NoView, View

LEMMA ViewFields ==
  ASSUME NEW view \in View
  PROVE  view.ids \subseteq Ids /\ view.struck \subseteq Ids /\ view.ending \subseteq Ids
  BY DEF View

LEMMA MakeView ==
  ASSUME NEW ids \in SUBSET Ids, NEW struck \in SUBSET Ids, NEW ending \in SUBSET Ids
  PROVE  [ids |-> ids, struck |-> struck, ending |-> ending] \in View
  BY DEF View

LEMMA WithoutIsView ==
  ASSUME NEW view \in View, NEW gone
  PROVE  Without(view, gone) \in View /\ Without(view, gone).ids = view.ids \ gone
  BY DEF View, Without

LEMMA RefreshedIsView ==
  ASSUME NEW view \in View, NEW seen
  PROVE  Refreshed(view, seen) \in View /\ Refreshed(view, seen).ids = view.ids
  BY DEF View, Refreshed

LEMMA StruckIsView ==
  ASSUME NEW view \in View, NEW missing \in SUBSET Ids
  PROVE  LET v == [view EXCEPT !.struck = @ \cup missing]
         IN  v \in View /\ v.ids = view.ids
  BY DEF View

LEMMA TrackingIsView ==
  ASSUME NEW view \in View, NEW i \in Ids
  PROVE  Tracking(view, i) \in View /\ Tracking(view, i).ids = view.ids \cup {i}
  BY DEF View, Tracking

LEMMA ReconciledIsView ==
  ASSUME NEW view \in View, NEW rows, NEW finished
  PROVE  /\ Reconciled(view, rows, finished) \in View
         /\ Reconciled(view, rows, finished).ids = view.ids \ finished
  BY WithoutIsView, RefreshedIsView DEF Reconciled

(* The store and the orders whose write failed cover the list in memory.   *)
Covered == mem.ids \subseteq stored.ids \cup unsaved

(* What is persisted is the list or what was persisted before; and what    *)
(* was not persisted is known.                                             *)
LEMMA PersistStep ==
  ASSUME stored \in View, mem' \in View, Persist(mem')
  PROVE  /\ stored' \in View /\ unsaved' \subseteq Ids /\ Covered'
         /\ "store" \notin Faults => unsaved' = {}
  BY ViewFields DEF Persist, Covered

LEMMA SavesStep ==
  ASSUME TypeOK, NEW view, mem' \in View, Saves(view)
  PROVE  /\ stored' \in View /\ unsaved' \subseteq Ids
         /\ view.ids \subseteq stored.ids \cup unsaved => Covered'
         /\ "store" \notin Faults /\ unsaved = {} => unsaved' = {}
  <1>1. stored \in View /\ unsaved \subseteq Ids  BY DEF TypeOK
  <1>2. CASE mem' = view  BY <1>1, <1>2 DEF Saves, Covered
  <1>3. CASE mem' # view  BY <1>1, <1>3, PersistStep DEF Saves
  <1> QED  BY <1>2, <1>3

(* A load that fails or comes late forgets what the other list held.       *)
LEMMA LoadsStep ==
  ASSUME TypeOK, NEW read \in View, NEW view, Loads(read, view)
  PROVE  /\ view \in View /\ view \in {mem, read}
         /\ forgotten' \subseteq Ids /\ forgotten \subseteq forgotten'
         /\ Open \cap (mem.ids \cup read.ids) \subseteq view.ids \cup forgotten'
         /\ mem.ids = {} /\ ("unloaded" \notin Faults \/ read.ids = {})
              => forgotten' = forgotten
  BY DEF TypeOK, Loads, Open

LEMMA EnsureLoadedStep ==
  ASSUME TypeOK, NEW view, EnsureLoaded(view)
  PROVE  /\ view \in View /\ view \in {mem, stored} /\ (loaded => view = mem)
         /\ forgotten' \subseteq Ids /\ forgotten \subseteq forgotten'
         /\ Open \cap (IF loaded THEN mem ELSE stored).ids
              \subseteq view.ids \cup forgotten'
         /\ loaded \/ (mem.ids = {} /\ ("unloaded" \notin Faults \/ stored.ids = {}))
              => forgotten' = forgotten
  <1>1. mem \in View /\ stored \in View /\ forgotten \subseteq Ids  BY DEF TypeOK
  <1>2. CASE loaded  BY <1>1, <1>2 DEF EnsureLoaded
  <1>3. CASE ~loaded
    <2>1. Loads(stored, view)  BY <1>3 DEF EnsureLoaded
    <2> QED  BY <1>1, <1>3, <2>1, LoadsStep
  <1> QED  BY <1>2, <1>3

-----------------------------------------------------------------------------
(* Jobs.                                                                   *)

LEMMA JobFields ==
  ASSUME NEW j \in Job
  PROVE  /\ j.pc \in Steps /\ j.goal \in Goals /\ j.ref \in Refs \cup {NoRef}
         /\ j.rows \subseteq Ids /\ j.late \in View
         /\ j.todo \in [Sides -> 0..Endpoints] /\ j.acked \subseteq Ids
         /\ j.placed \in BOOLEAN
  BY DEF Job

(* What a job is there for: only a sync places, and it knows at what price. *)
Purpose(a, j) ==
  /\ j.pc = "place" => j.goal = "check"
  /\ j.pc \in {"cancel", "settle"} => j.goal = "cancel"
  /\ IF a \in Syncs THEN j.goal # "view" \/ j.pc = "anchor" => j.ref \in Refs
     ELSE j.pc # "anchor" /\ j.goal \in {"view", "cancel"}

Purposes == \A a \in Actors : Purpose(a, job[a])

(* A job that leaves the wait for the stored list or for the venue has     *)
(* nothing of it in hand.                                                  *)
Empty(j) == j.late = NoView /\ j.acked = {}

LEMMA OthersAreNotSyncs ==
  \A a \in Actors : a \in Syncs <=> a \notin Others
  BY LadderAssumption DEF Actors

LEMMA IdleJob == Idle \in Job /\ Idle.pc = "idle" /\ Idle.goal = "view" /\ Empty(Idle)
  BY NoViewIsView DEF Idle, Job, Steps, Goals, Endpoints, Empty

LEMMA IdlePurpose == ASSUME NEW a PROVE Purpose(a, Idle)
  BY IdleJob DEF Purpose

Anchoring(r) == [Idle EXCEPT !.pc = "anchor", !.ref = r]

LEMMA AnchorJob ==
  ASSUME NEW r \in Refs
  PROVE  /\ Anchoring(r) \in Job /\ Anchoring(r).pc = "anchor" /\ Anchoring(r).ref = r
         /\ Empty(Anchoring(r))
         /\ \A a \in Syncs : Purpose(a, Anchoring(r))
  <1>1. Idle \in Job  BY IdleJob
  <1>2. Anchoring(r) \in Job  BY <1>1 DEF Anchoring, Job, Steps
  <1>3. Anchoring(r).pc = "anchor" /\ Anchoring(r).ref = r /\ Empty(Anchoring(r))
    BY <1>1, IdleJob DEF Anchoring, Job, Empty
  <1> QED  BY <1>2, <1>3 DEF Purpose

LEMMA ReadingJob ==
  ASSUME NEW goal \in Goals, NEW ref \in Refs \cup {NoRef}
  PROVE  /\ Reading(goal, ref) \in Job
         /\ Reading(goal, ref).pc = "list" /\ Reading(goal, ref).goal = goal
         /\ Empty(Reading(goal, ref))
         /\ \A a \in Actors :
              (IF a \in Syncs THEN goal = "view" \/ ref \in Refs
               ELSE goal \in {"view", "cancel"}) => Purpose(a, Reading(goal, ref))
  <1>1. Idle \in Job  BY IdleJob
  <1>2. Reading(goal, ref) \in Job  BY <1>1 DEF Reading, Job, Steps
  <1>3. /\ Reading(goal, ref).pc = "list" /\ Reading(goal, ref).goal = goal
        /\ Reading(goal, ref).ref = ref /\ Empty(Reading(goal, ref))
    BY <1>1, IdleJob DEF Reading, Job, Empty
  <1> QED  BY <1>2, <1>3 DEF Purpose

LEMMA PlacingJob ==
  ASSUME NEW ref \in Refs
  PROVE  /\ Placing(ref) \in Job
         /\ Placing(ref).pc = "place" /\ Placing(ref).goal = "check"
         /\ Empty(Placing(ref))
         /\ \A a \in Syncs : Purpose(a, Placing(ref))
  <1>1. Idle \in Job  BY IdleJob
  <1>2. [s \in Sides |-> Endpoints] \in [Sides -> 0..Endpoints]  BY DEF Endpoints
  <1> HIDE DEF Endpoints
  <1>3. Placing(ref) \in Job  BY <1>1, <1>2 DEF Placing, Job, Steps, Goals
  <1>4. /\ Placing(ref).pc = "place" /\ Placing(ref).goal = "check"
        /\ Placing(ref).ref = ref /\ Empty(Placing(ref))
    BY <1>1, IdleJob DEF Placing, Job, Empty
  <1> QED  BY <1>3, <1>4 DEF Purpose

LEMMA BecomesJob ==
  ASSUME job \in [Actors -> Job], NEW a \in Actors, NEW j \in Job, Becomes(a, j)
  PROVE  /\ job' \in [Actors -> Job] /\ job'[a] = j
         /\ \A b \in Actors \ {a} : job'[b] = job[b]
  BY DEF Becomes

-----------------------------------------------------------------------------
(* What the longer actions do, in the terms the invariants are stated in.  *)

(* How a job goes on after a read: it places only when the read showed     *)
(* nothing, and only if it came to place.                                  *)
AfterReading(a, j, rows) ==
  /\ j \in Job /\ Purpose(a, j) /\ Becomes(a, j)
  /\ j.pc \in {"idle", "list", "cancel", "place"}
  /\ j.late \in {NoView, job[a].late} /\ j.acked \in {{}, job[a].acked}
  /\ j.pc = "place" => rows = {} /\ a \in Syncs

LEMMA AfterReadStep ==
  ASSUME TypeOK, NEW a \in Actors, Purpose(a, job[a]),
         NEW rows \in SUBSET Ids, AfterRead(a, rows)
  PROVE  \E j : AfterReading(a, j, rows)
  <1>1. job[a] \in Job  BY DEF TypeOK
  <1>2. job[a].goal \in Goals /\ job[a].ref \in Refs \cup {NoRef}
    BY <1>1, JobFields
  <1>3. /\ a \in Syncs /\ job[a].goal # "view" => job[a].ref \in Refs
        /\ a \notin Syncs => job[a].goal \in {"view", "cancel"}
    BY DEF Purpose
  <1>idle. Becomes(a, Idle) => AfterReading(a, Idle, rows)
    BY IdleJob, IdlePurpose DEF AfterReading, Empty
  <1>place. ASSUME rows = {}, job[a].goal \in {"check", "requote"},
                   Becomes(a, Placing(job[a].ref))
            PROVE  AfterReading(a, Placing(job[a].ref), rows)
    BY <1>place, <1>3, PlacingJob DEF AfterReading, Empty
  <1>read. ASSUME NEW goal \in Goals, Becomes(a, Reading(goal, job[a].ref)),
                  a \in Syncs, job[a].goal # "view"
           PROVE  AfterReading(a, Reading(goal, job[a].ref), rows)
    BY <1>read, <1>2, <1>3, ReadingJob DEF AfterReading, Empty
  <1>4. CASE job[a].goal = "view"
    <2>1. Becomes(a, Idle)  BY <1>4 DEF AfterRead
    <2> QED  BY <2>1, <1>idle
  <1>5. CASE job[a].goal = "cancel"
    <2>1. Becomes(a, IF rows # {} THEN [job[a] EXCEPT !.pc = "cancel", !.rows = rows]
                     ELSE NothingToCancel(a))
      BY <1>5 DEF AfterRead
    <2>2. CASE rows # {}
      <3> DEFINE j == [job[a] EXCEPT !.pc = "cancel", !.rows = rows]
      <3>1. j \in Job  BY <1>1 DEF Job, Steps
      <3>2. /\ j.pc = "cancel" /\ j.late = job[a].late /\ j.acked = job[a].acked
            /\ j.goal = job[a].goal /\ j.ref = job[a].ref
        BY <1>1 DEF Job
      <3>3. Becomes(a, j)  BY <2>1, <2>2
      <3> HIDE DEF j
      <3>4. Purpose(a, j)  BY <3>2, <1>3, <1>5 DEF Purpose
      <3> QED  BY <3>1, <3>2, <3>3, <3>4 DEF AfterReading
    <2>3. CASE rows = {}
      <3>1. \/ Becomes(a, Idle)
            \/ a \in Syncs /\ Becomes(a, Reading("check", job[a].ref))
        BY <2>1, <2>3, OthersAreNotSyncs DEF NothingToCancel
      <3> QED  BY <3>1, <1>5, <1>idle, <1>read DEF Goals
    <2> QED  BY <2>2, <2>3
  <1>6. CASE job[a].goal = "check"
    <2>1. (rows = {} /\ Becomes(a, Placing(job[a].ref))) \/ Becomes(a, Idle)
      BY <1>6 DEF AfterRead
    <2> QED  BY <2>1, <1>6, <1>idle, <1>place
  <1>7. CASE job[a].goal = "requote"
    <2>1. \/ rows = {} /\ Becomes(a, Placing(job[a].ref))
          \/ Becomes(a, Idle)
          \/ Becomes(a, Reading("cancel", job[a].ref))
      BY <1>7 DEF AfterRead
    <2> QED  BY <2>1, <1>3, <1>7, <1>idle, <1>place, <1>read DEF Goals
  <1> QED  BY <1>2, <1>4, <1>5, <1>6, <1>7 DEF Goals

LEMMA OpenIds == Open \subseteq Ids /\ (Ids \ Open) \cap Open = {}
  BY DEF Open

(* A listing names open orders only, and all of them when it does not lag. *)
LEMMA ListingRows ==
  ASSUME NEW rows \in Listings
  PROVE  rows \subseteq Open /\ ("lag" \notin Faults => rows = Open)
  BY DEF Listings

LEMMA ListOrdersStep ==
  ASSUME TypeOK, NEW a \in Actors, ListOrders(a)
  PROVE  \E rows \in SUBSET Open :
           /\ "lag" \notin Faults => rows = Open
           /\ stored' \in View /\ mem' \in View
           /\ unsaved' \subseteq Ids /\ forgotten' \subseteq Ids
           /\ forgotten \subseteq forgotten'
           /\ loaded \/ (mem.ids = {} /\ ("unloaded" \notin Faults \/ stored.ids = {}))
                => forgotten' = forgotten
           /\ "store" \notin Faults /\ unsaved = {} => unsaved' = {}
           /\ (IF loaded THEN Covered ELSE mem.ids = {}) => Covered'
           /\ \/ /\ Becomes(a, [job[a] EXCEPT !.pc = "lookup", !.rows = rows])
                 /\ Open \cap (IF loaded THEN mem ELSE stored).ids
                      \subseteq mem'.ids \cup forgotten'
              \/ /\ ~loaded /\ "slow_load" \in Faults /\ UNCHANGED <<mem, stored>>
                 /\ Becomes(a, [job[a] EXCEPT !.pc = "load", !.rows = rows,
                                              !.late = stored])
  <1>1. PICK rows \in Listings, finished \in {{}, Ids \ Open} :
          \/ /\ \E view \in {mem, stored} :
                  /\ EnsureLoaded(view)
                  /\ mem' = Reconciled(view, rows, finished)
                  /\ Saves(view)
             /\ Becomes(a, [job[a] EXCEPT !.pc = "lookup", !.rows = rows])
          \/ /\ ~loaded /\ "slow_load" \in Faults
             /\ Becomes(a, [job[a] EXCEPT !.pc = "load", !.rows = rows,
                                          !.late = stored])
             /\ UNCHANGED <<mem, stored, unsaved, forgotten>>
    BY DEF ListOrders
  <1>2. rows \in SUBSET Open /\ ("lag" \notin Faults => rows = Open)
    BY ListingRows
  <1>3. /\ stored \in View /\ mem \in View
        /\ unsaved \subseteq Ids /\ forgotten \subseteq Ids
    BY DEF TypeOK
  <1>4. ASSUME NEW view \in {mem, stored}, EnsureLoaded(view),
               mem' = Reconciled(view, rows, finished), Saves(view)
        PROVE  /\ stored' \in View /\ mem' \in View
               /\ unsaved' \subseteq Ids /\ forgotten' \subseteq Ids
               /\ forgotten \subseteq forgotten'
               /\ loaded \/ (mem.ids = {} /\ ("unloaded" \notin Faults \/ stored.ids = {}))
                    => forgotten' = forgotten
               /\ "store" \notin Faults /\ unsaved = {} => unsaved' = {}
               /\ (IF loaded THEN Covered ELSE mem.ids = {}) => Covered'
               /\ Open \cap (IF loaded THEN mem ELSE stored).ids
                    \subseteq mem'.ids \cup forgotten'
    <2>1. /\ view \in View /\ (loaded => view = mem)
          /\ forgotten' \subseteq Ids /\ forgotten \subseteq forgotten'
          /\ Open \cap (IF loaded THEN mem ELSE stored).ids
               \subseteq view.ids \cup forgotten'
          /\ loaded \/ (mem.ids = {} /\ ("unloaded" \notin Faults \/ stored.ids = {}))
               => forgotten' = forgotten
      BY <1>4, EnsureLoadedStep
    <2>2. mem' \in View /\ mem'.ids = view.ids \ finished
      BY <2>1, <1>4, ReconciledIsView
    <2>3. /\ stored' \in View /\ unsaved' \subseteq Ids
          /\ view.ids \subseteq stored.ids \cup unsaved => Covered'
          /\ "store" \notin Faults /\ unsaved = {} => unsaved' = {}
      BY <2>2, <1>4, SavesStep
    <2>4. Open \cap view.ids \subseteq mem'.ids  BY <2>2, OpenIds
    <2>5. (IF loaded THEN Covered ELSE mem.ids = {})
             => view.ids \subseteq stored.ids \cup unsaved
      BY <1>4, <2>1 DEF Covered
    <2> QED  BY <2>1, <2>2, <2>3, <2>4, <2>5
  <1>5. CASE /\ \E view \in {mem, stored} :
                  /\ EnsureLoaded(view)
                  /\ mem' = Reconciled(view, rows, finished)
                  /\ Saves(view)
             /\ Becomes(a, [job[a] EXCEPT !.pc = "lookup", !.rows = rows])
    BY <1>2, <1>4, <1>5
  <1>6. CASE /\ ~loaded /\ "slow_load" \in Faults
             /\ Becomes(a, [job[a] EXCEPT !.pc = "load", !.rows = rows,
                                          !.late = stored])
             /\ UNCHANGED <<mem, stored, unsaved, forgotten>>
    <2>1. (IF loaded THEN Covered ELSE mem.ids = {}) => Covered'  BY <1>6 DEF Covered
    <2> QED  BY <1>2, <1>3, <1>6, <2>1
  <1> QED  BY <1>1, <1>5, <1>6

LEMMA LoadStep ==
  ASSUME TypeOK, NEW a \in Actors, Load(a)
  PROVE  /\ mem' \in View /\ stored' \in View
         /\ unsaved' \subseteq Ids /\ forgotten' \subseteq Ids
         /\ forgotten \subseteq forgotten' /\ Covered'
         /\ Open \cap (mem.ids \cup job[a].late.ids) \subseteq mem'.ids \cup forgotten'
         /\ mem.ids = {} /\ ("unloaded" \notin Faults \/ job[a].late.ids = {})
              => forgotten' = forgotten
         /\ "store" \notin Faults /\ mem.ids = {} /\ job[a].late.ids \subseteq stored.ids
              => unsaved' = {}
         /\ Becomes(a, [job[a] EXCEPT !.pc = "lookup", !.late = NoView])
  <1>1. job[a].late \in View /\ stored \in View  BY JobFields DEF TypeOK
  <1>2. PICK view \in {mem, job[a].late} :
          /\ Loads(job[a].late, view)
          /\ mem' = Refreshed(view, job[a].rows)
          /\ IF mem' = view THEN stored' = stored /\ unsaved' = view.ids \ stored.ids
                            ELSE Persist(mem')
    BY DEF Load
  <1>3. /\ view \in View /\ forgotten' \subseteq Ids /\ forgotten \subseteq forgotten'
        /\ Open \cap (mem.ids \cup job[a].late.ids) \subseteq view.ids \cup forgotten'
        /\ mem.ids = {} /\ ("unloaded" \notin Faults \/ job[a].late.ids = {})
             => forgotten' = forgotten
    BY <1>1, <1>2, LoadsStep
  <1>4. mem' \in View /\ mem'.ids = view.ids  BY <1>2, <1>3, RefreshedIsView
  <1>5. CASE mem' = view
    <2>1. stored' = stored /\ unsaved' = view.ids \ stored.ids  BY <1>2, <1>5
    <2>2. view.ids \subseteq Ids  BY <1>3, ViewFields
    <2>3. Covered'  BY <1>5, <2>1 DEF Covered
    <2> QED  BY <1>1, <1>2, <1>3, <1>4, <2>1, <2>2, <2>3 DEF Load
  <1>6. CASE mem' # view
    <2>1. Persist(mem')  BY <1>2, <1>6
    <2> QED  BY <1>1, <1>3, <1>4, <2>1, PersistStep DEF Load
  <1> QED  BY <1>5, <1>6

(* A write of what is left of the list.                                    *)
Written == /\ stored' \in View /\ unsaved' \subseteq Ids
           /\ Covered => Covered'
           /\ "store" \notin Faults /\ unsaved = {} => unsaved' = {}

LEMMA SavesWrites ==
  ASSUME TypeOK, mem' \in View, Saves(mem)
  PROVE  Written
  BY SavesStep DEF Written, Covered

(* What leaves the list while the order is open is denied by the venue.    *)
LEMMA LookUpStep ==
  ASSUME TypeOK, NEW a \in Actors, LookUp(a)
  PROVE  \E dropped \in SUBSET Ids :
           /\ mem' \in View /\ mem'.ids = mem.ids \ dropped /\ Written
           /\ doubt' = doubt \cup (dropped \cap Open)
           /\ AfterRead(a, job[a].rows \cup mem'.ids)
  <1> DEFINE asked == mem.ids \ job[a].rows
             Missing(answer) == {i \in asked : answer[i] = "missing"}
             Dropped(answer) == {i \in asked : answer[i] = "terminal"} \cup
                                Forgotten(mem, Missing(answer))
             Found(answer)   == {i \in asked : answer[i] = "found"}
             Left(answer)    == Refreshed(Without(
                                  [mem EXCEPT !.struck = @ \cup Missing(answer)],
                                  Dropped(answer)), Found(answer))
  <1>1. PICK answer \in [asked -> {"found", "terminal", "missing", "unknown"}] :
          /\ mem' = Left(answer)
          /\ Saves(mem)
          /\ doubt' = doubt \cup (Dropped(answer) \cap Open)
          /\ AfterRead(a, job[a].rows \cup Left(answer).ids)
    BY DEF LookUp
  <1>2. mem \in View /\ stored \in View  BY DEF TypeOK
  <1>3. asked \subseteq Ids  BY <1>2, ViewFields
  <1>4. Missing(answer) \in SUBSET Ids /\ Dropped(answer) \in SUBSET Ids
    BY <1>3 DEF Forgotten
  <1>5. Left(answer) \in View /\ Left(answer).ids = mem.ids \ Dropped(answer)
    <2> DEFINE v == [mem EXCEPT !.struck = @ \cup Missing(answer)]
               w == Without(v, Dropped(answer))
    <2>1. v \in View /\ v.ids = mem.ids  BY <1>2, <1>4, StruckIsView
    <2>2. w \in View /\ w.ids = v.ids \ Dropped(answer)
      <3> HIDE DEF v
      <3> QED  BY <2>1, WithoutIsView
    <2>3. Refreshed(w, Found(answer)) \in View /\ Refreshed(w, Found(answer)).ids = w.ids
      <3> HIDE DEF w
      <3> QED  BY <2>2, RefreshedIsView
    <2> QED  BY <2>1, <2>2, <2>3
  <1> HIDE DEF Left, Dropped
  <1>6. Written  BY <1>1, <1>5, SavesWrites
  <1> QED  BY <1>1, <1>4, <1>5, <1>6

LEMMA CancelAllStep ==
  ASSUME TypeOK, NEW a \in Actors, CancelAll(a)
  PROVE  \E accepted \in SUBSET Ids, lost \in SUBSET Ids :
           /\ mem' \in View /\ mem'.ids = (mem.ids \cup accepted) \ lost
           /\ Written
           /\ doubt' = doubt \cup (lost \cap Open)
           /\ state' \in [Ids -> States]
           /\ \A i \in Ids : state'[i] # state[i] =>
                i \in Open /\ state'[i] \in {"gone", "cancelling"}
           /\ Becomes(a, NothingToCancel(a)) \/
              Becomes(a, [job[a] EXCEPT !.pc = "settle", !.rows = accepted])
  <1> DEFINE rows == job[a].rows
  <1>1. PICK lost \in SUBSET (rows \cap mem.struck),
             accepted \in SUBSET (rows \cap Open), swift \in SUBSET (rows \cap Open) :
           /\ state' = [i \in Ids |-> IF i \in swift THEN "gone"
                                      ELSE IF i \in accepted THEN "cancelling"
                                      ELSE state[i]]
           /\ mem' = [ids |-> (mem.ids \cup accepted) \ lost,
                      struck |-> mem.struck \ lost,
                      ending |-> (mem.ending \cup accepted) \ lost]
           /\ doubt' = doubt \cup (lost \cap Open)
           /\ Saves(mem)
           /\ Becomes(a, IF rows = lost THEN NothingToCancel(a)
                         ELSE [job[a] EXCEPT !.pc = "settle", !.rows = accepted])
    BY DEF CancelAll
  <1>2. mem \in View /\ stored \in View /\ state \in [Ids -> States] /\ rows \subseteq Ids
    BY JobFields DEF TypeOK
  <1>3. accepted \in SUBSET Ids /\ lost \in SUBSET Ids  BY <1>2
  <1>4. mem' \in View /\ mem'.ids = (mem.ids \cup accepted) \ lost
    <2>1. /\ (mem.ids \cup accepted) \ lost \in SUBSET Ids
          /\ mem.struck \ lost \in SUBSET Ids
          /\ (mem.ending \cup accepted) \ lost \in SUBSET Ids
      BY <1>2, <1>3, ViewFields
    <2> QED  BY <1>1, <2>1, MakeView
  <1>5. Written  BY <1>1, <1>4, SavesWrites
  <1>6. state' \in [Ids -> States]  BY <1>1, <1>2 DEF States
  <1>7. \A i \in Ids : state'[i] # state[i] =>
          i \in Open /\ state'[i] \in {"gone", "cancelling"}
    BY <1>1
  <1> QED  BY <1>1, <1>3, <1>4, <1>5, <1>6, <1>7

LEMMA SettleStep ==
  ASSUME TypeOK, NEW a \in Actors, Settle(a)
  PROVE  \E settled \in SUBSET Ids :
           /\ mem' \in View /\ mem'.ids = mem.ids \ settled /\ Written
           /\ doubt' = doubt \cup (settled \cap Open)
           /\ Becomes(a, AfterCancel(a))
  <1> DEFINE rows == job[a].rows
  <1>1. PICK settled \in SUBSET rows :
           /\ mem' = Refreshed(Without(mem, settled), (rows \ settled) \cap Open)
           /\ doubt' = doubt \cup (settled \cap Open)
           /\ Saves(mem)
           /\ Becomes(a, AfterCancel(a))
    BY DEF Settle
  <1>2. mem \in View /\ stored \in View /\ rows \subseteq Ids
    BY JobFields DEF TypeOK
  <1>3. mem' \in View /\ mem'.ids = mem.ids \ settled
    BY <1>1, <1>2, WithoutIsView, RefreshedIsView
  <1>4. Written  BY <1>1, <1>3, SavesWrites
  <1> QED  BY <1>1, <1>2, <1>3, <1>4

-----------------------------------------------------------------------------
(* Every state is well typed, and every job fit for its actor.             *)

LEMMA JobsFit ==
  ASSUME TypeOK, Purposes, NEW a \in Actors, NEW j \in Job, Purpose(a, j), Becomes(a, j)
  PROVE  job' \in [Actors -> Job] /\ Purposes'
  BY BecomesJob DEF TypeOK, Purposes

LEMMA JobFits ==
  ASSUME TypeOK, Purposes, NEW a \in Actors
  PROVE  job[a] \in Job /\ Purpose(a, job[a])
  BY DEF TypeOK, Purposes

(* A job that keeps its goal and its price keeps its purpose.              *)
LEMMA SamePurpose ==
  ASSUME NEW a \in Actors, NEW j, NEW k, Purpose(a, j), k.goal = j.goal, k.ref = j.ref,
         k.pc \in {j.pc, "load", "lookup"} \/ (j.pc = "cancel" /\ k.pc = "settle")
  PROVE  Purpose(a, k)
  BY DEF Purpose

PostedJob(j, side, i) ==
  [j EXCEPT !.todo[side] = 0, !.acked = @ \cup {i}, !.placed = TRUE]

LEMMA PostedJobFits ==
  ASSUME NEW j \in Job, NEW side \in Sides, NEW i \in Ids
  PROVE  LET k == PostedJob(j, side, i)
         IN  /\ k \in Job /\ k.pc = j.pc /\ k.goal = j.goal /\ k.ref = j.ref
             /\ k.late = j.late /\ k.acked = j.acked \cup {i}
             /\ k.todo = [j.todo EXCEPT ![side] = 0]
  <1> DEFINE todo == [j.todo EXCEPT ![side] = 0]
             acked == j.acked \cup {i}
  <1>1. todo \in [Sides -> 0..Endpoints] /\ acked \in SUBSET Ids
    BY JobFields DEF Endpoints
  <1>2. PostedJob(j, side, i)
          = [j EXCEPT !.todo = todo, !.acked = acked, !.placed = TRUE]
    BY DEF Job, PostedJob
  <1> HIDE DEF todo, acked
  <1>3. [j EXCEPT !.todo = todo, !.acked = acked, !.placed = TRUE] \in Job
    BY <1>1 DEF Job
  <1> QED  BY <1>1, <1>2, <1>3 DEF Job, todo, acked

LEMMA TurnedDownJob ==
  ASSUME NEW j \in Job, NEW side \in Sides, j.todo[side] > 0
  PROVE  LET k == [j EXCEPT !.todo[side] = @ - 1]
         IN  /\ k \in Job /\ k.pc = j.pc /\ k.goal = j.goal /\ k.ref = j.ref
             /\ k.late = j.late /\ k.acked = j.acked
             /\ k.todo = [j.todo EXCEPT ![side] = @ - 1]
  <1> DEFINE todo == [j.todo EXCEPT ![side] = @ - 1]
  <1>1. todo \in [Sides -> 0..Endpoints]  BY JobFields DEF Endpoints
  <1>2. [j EXCEPT !.todo[side] = @ - 1] = [j EXCEPT !.todo = todo]  BY DEF Job
  <1> HIDE DEF todo
  <1>3. [j EXCEPT !.todo = todo] \in Job  BY <1>1 DEF Job
  <1> QED  BY <1>1, <1>2, <1>3 DEF Job, todo

LEMMA RestStep ==
  ASSUME TypeOK, NEW i \in Unused, NEW side \in Sides, NEW ref \in Refs,
         Rest(i, side, ref)
  PROVE  /\ i \in Ids \ Open /\ Open' = Open \cup {i}
         /\ state' \in [Ids -> States] /\ state'[i] = "wait"
         /\ target' \in [Ids -> Targets \cup {NoTarget}] /\ target'[i] = <<side, ref>>
         /\ \A k \in Ids \ {i} : state'[k] = state[k] /\ target'[k] = target[k]
  BY DEF TypeOK, Unused, Rest, Open, States, Targets

LEMMA PlacerPrice ==
  ASSUME TypeOK, Purposes, NEW a \in Actors, job[a].pc = "place"
  PROVE  a \in Syncs /\ job[a].ref \in Refs
  BY DEF Purposes, Purpose

LEMMA PostPlacedStep ==
  ASSUME TypeOK, Purposes, NEW a \in Actors, NEW side \in Sides, PostPlaced(a, side)
  PROVE  \E i \in Unused, j \in Job :
           /\ Rest(i, side, job[a].ref) /\ Becomes(a, j) /\ Purpose(a, j)
           /\ j.pc = "place" /\ j.late = job[a].late /\ j.acked = job[a].acked \cup {i}
           /\ j.todo = [job[a].todo EXCEPT ![side] = 0]
  <1>1. job[a] \in Job /\ Purpose(a, job[a]) /\ job[a].pc = "place"
    BY JobFits DEF PostPlaced, Posting
  <1>2. PICK i \in Unused :
          /\ Rest(i, side, job[a].ref)
          /\ Becomes(a, PostedJob(job[a], side, i))
    BY DEF PostPlaced, PostedJob
  <1> DEFINE j == PostedJob(job[a], side, i)
  <1>3. /\ j \in Job /\ j.pc = "place" /\ j.goal = job[a].goal /\ j.ref = job[a].ref
        /\ j.late = job[a].late /\ j.acked = job[a].acked \cup {i}
        /\ j.todo = [job[a].todo EXCEPT ![side] = 0]
    BY <1>1, PostedJobFits DEF Unused
  <1> HIDE DEF j
  <1>4. Purpose(a, j)  BY <1>1, <1>3, SamePurpose
  <1> QED  BY <1>2, <1>3, <1>4 DEF j

LEMMA TurnedDownStep ==
  ASSUME TypeOK, Purposes, NEW a \in Actors, NEW side \in Sides, Posting(a, side),
         Becomes(a, [job[a] EXCEPT !.todo[side] = @ - 1])
  PROVE  \E j \in Job :
           /\ Becomes(a, j) /\ Purpose(a, j)
           /\ j.pc = "place" /\ j.late = job[a].late /\ j.acked = job[a].acked
           /\ j.todo = [job[a].todo EXCEPT ![side] = @ - 1]
  <1>1. job[a] \in Job /\ Purpose(a, job[a]) /\ job[a].pc = "place" /\ job[a].todo[side] > 0
    BY JobFits DEF Posting
  <1> DEFINE j == [job[a] EXCEPT !.todo[side] = @ - 1]
  <1>2. /\ j \in Job /\ j.pc = "place" /\ j.goal = job[a].goal /\ j.ref = job[a].ref
        /\ j.late = job[a].late /\ j.acked = job[a].acked
        /\ j.todo = [job[a].todo EXCEPT ![side] = @ - 1]
    BY <1>1, TurnedDownJob
  <1> HIDE DEF j
  <1>3. Purpose(a, j)  BY <1>1, <1>2, SamePurpose
  <1> QED  BY <1>2, <1>3 DEF j

LEMMA TrackStep ==
  ASSUME TypeOK, Purposes, NEW a \in Actors, NEW i \in Ids, Track(a, i)
  PROVE  /\ mem' \in View /\ mem'.ids = mem.ids \cup {i} /\ Written
         /\ \E j \in Job :
              /\ Becomes(a, j) /\ Purpose(a, j)
              /\ j.pc = "place" /\ j.late = job[a].late /\ j.acked = job[a].acked \ {i}
              /\ j.todo = job[a].todo
  <1>1. job[a] \in Job /\ Purpose(a, job[a]) /\ job[a].pc = "place"
    BY JobFits DEF Track
  <1>2. mem \in View /\ stored \in View  BY DEF TypeOK
  <1>3. mem' \in View /\ mem'.ids = mem.ids \cup {i}
    BY <1>2, TrackingIsView DEF Track
  <1>4. Written  BY <1>2, <1>3, PersistStep DEF Track, Written
  <1> DEFINE j == [job[a] EXCEPT !.acked = @ \ {i}]
  <1>5. /\ j \in Job /\ j.pc = "place" /\ j.goal = job[a].goal /\ j.ref = job[a].ref
        /\ j.late = job[a].late /\ j.acked = job[a].acked \ {i} /\ j.todo = job[a].todo
    BY <1>1 DEF Job
  <1>6. Becomes(a, j)  BY DEF Track
  <1> HIDE DEF j
  <1>7. Purpose(a, j)  BY <1>1, <1>5, SamePurpose
  <1> QED  BY <1>3, <1>4, <1>5, <1>6, <1>7

LEMMA NothingToCancelJob ==
  ASSUME TypeOK, Purposes, NEW a \in Actors, job[a].goal = "cancel"
  PROVE  LET j == NothingToCancel(a)
         IN  j \in Job /\ Purpose(a, j) /\ j.pc \in {"idle", "list"} /\ Empty(j)
  BY JobFits, JobFields, IdleJob, IdlePurpose, ReadingJob, OthersAreNotSyncs
     DEF NothingToCancel, Goals, Purpose

-----------------------------------------------------------------------------
Typed == TypeOK /\ Purposes

BookType   == /\ state \in [Ids -> States]
              /\ target \in [Ids -> Targets \cup {NoTarget}]
ListType   == mem \in View /\ loaded \in BOOLEAN /\ stored \in View
GhostType  == doubt \subseteq Ids /\ unsaved \subseteq Ids /\ forgotten \subseteq Ids
SwitchType == /\ paused \in BOOLEAN /\ enabled \in BOOLEAN
              /\ saved \in [paused : BOOLEAN, enabled : BOOLEAN]
              /\ cooling \in BOOLEAN
JobType    == job \in [Actors -> Job] /\ Purposes

LEMMA TypeParts ==
  Typed <=> BookType /\ ListType /\ SwitchType /\ JobType /\ GhostType
  BY DEF Typed, TypeOK, BookType, ListType, SwitchType, JobType, GhostType

LEMMA TypePartsNext ==
  Typed' <=> BookType' /\ ListType' /\ SwitchType' /\ JobType' /\ GhostType'
  BY DEF Typed, TypeOK, BookType, ListType, SwitchType, JobType, GhostType

LEMMA InitTyped == Init => Typed
  <1> SUFFICES ASSUME Init PROVE Typed  OBVIOUS
  <1>1. BookType /\ SwitchType /\ GhostType
    BY DEF Init, BookType, SwitchType, States, GhostType
  <1>2. ListType  BY NoViewIsView DEF Init, ListType
  <1>3. JobType  BY IdleJob, IdlePurpose DEF Init, JobType, Purposes
  <1> QED  BY <1>1, <1>2, <1>3, TypeParts

LEMMA JobTyped ==
  ASSUME Typed, NEW a \in Actors, NEW j \in Job, Purpose(a, j), Becomes(a, j)
  PROVE  JobType'
  <1>1. job' \in [Actors -> Job] /\ Purposes'  BY JobsFit DEF Typed
  <1> QED  BY <1>1 DEF JobType

LEMMA SettledJob ==
  ASSUME TypeOK, Purposes, NEW a \in Actors, job[a].goal = "cancel", Becomes(a, AfterCancel(a))
  PROVE  \E j \in Job : /\ Becomes(a, j) /\ Purpose(a, j)
                        /\ j.pc = "list" /\ Empty(j)
  <1>1. CASE a \in Others
    <2>1. Becomes(a, Reading("view", NoRef))  BY <1>1 DEF AfterCancel
    <2> QED  BY <1>1, <2>1, ReadingJob, OthersAreNotSyncs DEF Goals
  <1>2. CASE a \notin Others
    <2>1. Becomes(a, Reading("check", job[a].ref))  BY <1>2 DEF AfterCancel
    <2>2. a \in Syncs /\ job[a].ref \in Refs
      BY <1>2, JobFits, OthersAreNotSyncs DEF Purpose
    <2> QED  BY <2>1, <2>2, ReadingJob DEF Goals
  <1> QED  BY <1>1, <1>2

LEMMA SyncStepTyped ==
  ASSUME Typed, NEW a \in Actors, SyncStep(a)
  PROVE  Typed'
  <1> USE DEF Typed
  <1>1. BookType /\ ListType /\ SwitchType /\ JobType /\ GhostType
    BY TypeParts
  <1>2. job[a] \in Job /\ Purpose(a, job[a])  BY JobFits
  <1>book. UNCHANGED book => BookType'  BY <1>1 DEF BookType, book
  <1>list. UNCHANGED tracking => ListType'  BY <1>1 DEF ListType, tracking
  <1>switch. UNCHANGED switches /\ cooling' \in BOOLEAN => SwitchType'
    BY <1>1 DEF SwitchType, switches
  <1>cool. cooling \in BOOLEAN  BY <1>1 DEF SwitchType
  <1>read. ASSUME NEW rows \in SUBSET Ids, AfterRead(a, rows) PROVE JobType'
    <2>1. PICK j : AfterReading(a, j, rows)  BY <1>2, <1>read, AfterReadStep
    <2> QED  BY <2>1, JobTyped DEF AfterReading
  <1>3. CASE Begin(a)
    <2>1. \/ Becomes(a, Idle)
          \/ job[a].pc = "anchor" /\ Becomes(a, Reading("requote", job[a].ref))
      BY <1>3 DEF Begin
    <2>2. Becomes(a, Idle) => JobType'  BY IdleJob, IdlePurpose, JobTyped
    <2>3. job[a].pc = "anchor" => a \in Syncs /\ job[a].ref \in Refs
      BY <1>2 DEF Purpose
    <2>4. job[a].pc = "anchor" /\ Becomes(a, Reading("requote", job[a].ref)) => JobType'
      BY <2>3, ReadingJob, JobTyped DEF Goals
    <2> QED
      BY <1>1, <2>1, <2>2, <2>4, <1>3, <1>book, <1>list, <1>switch, <1>cool, TypePartsNext
         DEF Begin, GhostType
  <1>4. CASE ListOrders(a)
    <2>1. PICK rows \in SUBSET Open :
            /\ stored' \in View /\ mem' \in View
            /\ unsaved' \subseteq Ids /\ forgotten' \subseteq Ids
            /\ \/ Becomes(a, [job[a] EXCEPT !.pc = "lookup", !.rows = rows])
               \/ Becomes(a, [job[a] EXCEPT !.pc = "load", !.rows = rows,
                                            !.late = stored])
      BY <1>4, ListOrdersStep
    <2>2. rows \in SUBSET Ids  BY OpenIds
    <2>3. ListType'  BY <1>4, <2>1 DEF ListType, ListOrders
    <2>4. ASSUME Becomes(a, [job[a] EXCEPT !.pc = "lookup", !.rows = rows])
          PROVE  JobType'
      <3> DEFINE j == [job[a] EXCEPT !.pc = "lookup", !.rows = rows]
      <3>1. /\ j \in Job /\ j.pc = "lookup" /\ j.goal = job[a].goal
            /\ j.ref = job[a].ref
        BY <1>2, <2>2 DEF Job, Steps
      <3>2. Becomes(a, j)  BY <2>4
      <3> HIDE DEF j
      <3>3. Purpose(a, j)  BY <1>2, <3>1, SamePurpose
      <3> QED  BY <3>1, <3>2, <3>3, JobTyped
    <2>5. ASSUME Becomes(a, [job[a] EXCEPT !.pc = "load", !.rows = rows, !.late = stored])
          PROVE  JobType'
      <3> DEFINE j == [job[a] EXCEPT !.pc = "load", !.rows = rows, !.late = stored]
      <3>1. /\ j \in Job /\ j.pc = "load" /\ j.goal = job[a].goal
            /\ j.ref = job[a].ref
        BY <1>1, <1>2, <2>2 DEF Job, Steps, ListType
      <3>2. Becomes(a, j)  BY <2>5
      <3> HIDE DEF j
      <3>3. Purpose(a, j)  BY <1>2, <3>1, SamePurpose
      <3> QED  BY <3>1, <3>2, <3>3, JobTyped
    <2>6. JobType'  BY <2>1, <2>4, <2>5
    <2> QED
      BY <1>1, <1>4, <2>1, <2>3, <2>6, <1>book, <1>switch, <1>cool, TypePartsNext
         DEF ListOrders, GhostType
  <1>5. CASE Load(a)
    <2>1. /\ mem' \in View /\ stored' \in View
          /\ unsaved' \subseteq Ids /\ forgotten' \subseteq Ids
          /\ Becomes(a, [job[a] EXCEPT !.pc = "lookup", !.late = NoView])
      BY <1>5, LoadStep
    <2>2. ListType'  BY <1>1, <1>5, <2>1 DEF Load, ListType
    <2> DEFINE j == [job[a] EXCEPT !.pc = "lookup", !.late = NoView]
    <2>3. j \in Job /\ j.pc = "lookup" /\ j.goal = job[a].goal /\ j.ref = job[a].ref
      BY <1>2, NoViewIsView DEF Job, Steps
    <2>4. Becomes(a, j)  BY <2>1
    <2> HIDE DEF j
    <2>5. Purpose(a, j)  BY <1>2, <2>3, SamePurpose
    <2>6. JobType'  BY <2>3, <2>4, <2>5, JobTyped
    <2>7. GhostType'  BY <1>1, <1>5, <2>1 DEF Load, GhostType
    <2> QED
      BY <1>1, <1>5, <2>2, <2>6, <2>7, <1>book, <1>switch, <1>cool, TypePartsNext DEF Load
  <1>6. CASE LookUp(a)
    <2>1. PICK dropped \in SUBSET Ids :
            /\ mem' \in View /\ Written
            /\ doubt' = doubt \cup (dropped \cap Open)
            /\ AfterRead(a, job[a].rows \cup mem'.ids)
      BY <1>6, LookUpStep
    <2>2. ListType'  BY <1>1, <1>6, <2>1 DEF LookUp, ListType, Written
    <2>3. job[a].rows \cup mem'.ids \in SUBSET Ids
      BY <1>2, <2>1, JobFields, ViewFields
    <2>4. JobType'  BY <2>1, <2>3, <1>read
    <2> QED
      BY <1>1, <1>6, <2>1, <2>2, <2>4, <1>book, <1>switch, <1>cool, TypePartsNext
         DEF LookUp, GhostType, Written
  <1>7. CASE CancelAll(a)
    <2>1. PICK accepted \in SUBSET Ids, lost \in SUBSET Ids :
            /\ mem' \in View /\ Written
            /\ doubt' = doubt \cup (lost \cap Open)
            /\ state' \in [Ids -> States]
            /\ Becomes(a, NothingToCancel(a)) \/
               Becomes(a, [job[a] EXCEPT !.pc = "settle", !.rows = accepted])
      BY <1>7, CancelAllStep
    <2>2. ListType'  BY <1>1, <1>7, <2>1 DEF CancelAll, ListType, Written
    <2>3. BookType'  BY <1>1, <1>7, <2>1 DEF CancelAll, BookType
    <2>4. job[a].pc = "cancel" /\ job[a].goal = "cancel"
      BY <1>2, <1>7 DEF CancelAll, Purpose
    <2>5. Becomes(a, NothingToCancel(a)) => JobType'
      BY <2>4, NothingToCancelJob, JobTyped
    <2>6. ASSUME Becomes(a, [job[a] EXCEPT !.pc = "settle", !.rows = accepted])
          PROVE  JobType'
      <3> DEFINE j == [job[a] EXCEPT !.pc = "settle", !.rows = accepted]
      <3>1. /\ j \in Job /\ j.pc = "settle" /\ j.goal = job[a].goal
            /\ j.ref = job[a].ref
        BY <1>2, <2>1 DEF Job, Steps
      <3>2. Becomes(a, j)  BY <2>6
      <3> HIDE DEF j
      <3>3. Purpose(a, j)  BY <1>2, <2>4, <3>1, SamePurpose
      <3> QED  BY <3>1, <3>2, <3>3, JobTyped
    <2> QED
      BY <1>1, <1>7, <2>1, <2>2, <2>3, <2>5, <2>6, <1>switch, <1>cool, TypePartsNext
         DEF CancelAll, GhostType, Written
  <1>8. CASE Settle(a)
    <2>1. PICK settled \in SUBSET Ids :
           /\ mem' \in View /\ Written
           /\ doubt' = doubt \cup (settled \cap Open)
           /\ Becomes(a, AfterCancel(a))
      BY <1>8, SettleStep
    <2>2. ListType'  BY <1>1, <1>8, <2>1 DEF Settle, ListType, Written
    <2>3. job[a].goal = "cancel"  BY <1>2, <1>8 DEF Settle, Purpose
    <2>4. JobType'
      BY <2>1, <2>3, SettledJob, JobTyped
    <2> QED
      BY <1>1, <1>8, <2>1, <2>2, <2>4, <1>book, <1>switch, <1>cool, TypePartsNext
         DEF Settle, GhostType, Written
  <1>9. ASSUME NEW side \in Sides, PostPlaced(a, side) PROVE Typed'
    <2>1. PICK i \in Unused, j \in Job :
            Rest(i, side, job[a].ref) /\ Becomes(a, j) /\ Purpose(a, j)
      BY <1>9, PostPlacedStep
    <2>2. job[a].ref \in Refs  BY <1>9, PlacerPrice DEF PostPlaced, Posting
    <2>3. BookType'  BY <2>1, <2>2, RestStep DEF BookType
    <2>4. JobType'  BY <2>1, JobTyped
    <2> QED
      BY <1>1, <1>9, <2>3, <2>4, <1>list, <1>switch, <1>cool, TypePartsNext
         DEF PostPlaced, GhostType
  <1>10. ASSUME NEW i \in Ids, Track(a, i) PROVE Typed'
    <2>1. /\ mem' \in View /\ Written
          /\ \E j \in Job : Becomes(a, j) /\ Purpose(a, j)
      BY <1>10, TrackStep
    <2>2. ListType'  BY <1>1, <1>10, <2>1 DEF Track, ListType, Written
    <2>3. JobType'  BY <2>1, JobTyped
    <2> QED
      BY <1>1, <1>10, <2>1, <2>2, <2>3, <1>book, <1>switch, <1>cool, TypePartsNext
         DEF Track, GhostType, Written
  <1>11. CASE Finish(a)
    <2>1. Becomes(a, Reading("view", NoRef)) \/ Becomes(a, Idle)  BY <1>11 DEF Finish
    <2>2. Becomes(a, Idle) => JobType'  BY IdleJob, IdlePurpose, JobTyped
    <2>3. Becomes(a, Reading("view", NoRef)) => JobType'
      BY ReadingJob, JobTyped DEF Goals
    <2>4. cooling' \in BOOLEAN  BY <1>11 DEF Finish
    <2> QED
      BY <1>1, <1>11, <2>1, <2>2, <2>3, <2>4, <1>book, <1>list, <1>switch, TypePartsNext
         DEF Finish, GhostType
  <1> QED
    BY <1>3, <1>4, <1>5, <1>6, <1>7, <1>8, <1>9, <1>10, <1>11 DEF SyncStep

LEMMA SyncFaultTyped ==
  ASSUME Typed, NEW a \in Actors, SyncFault(a)
  PROVE  Typed'
  <1> USE DEF Typed
  <1>1. BookType /\ ListType /\ SwitchType /\ JobType /\ GhostType
    BY TypeParts
  <1>book. UNCHANGED book => BookType'  BY <1>1 DEF BookType, book
  <1>list. UNCHANGED tracking => ListType'  BY <1>1 DEF ListType, tracking
  <1>switch. UNCHANGED <<switches, cooling>> => SwitchType'
    BY <1>1 DEF SwitchType, switches
  <1>2. CASE ListFails(a)
    <2>1. JobType'  BY <1>2, IdleJob, IdlePurpose, JobTyped DEF ListFails
    <2> QED
      BY <1>1, <1>2, <2>1, <1>book, <1>list, <1>switch, TypePartsNext
         DEF ListFails, GhostType
  <1>turned. ASSUME NEW side \in Sides, Posting(a, side),
                    Becomes(a, [job[a] EXCEPT !.todo[side] = @ - 1])
             PROVE  JobType'
    <2>1. \E j \in Job : Becomes(a, j) /\ Purpose(a, j)  BY <1>turned, TurnedDownStep
    <2> QED  BY <2>1, JobTyped
  <1>3. ASSUME NEW side \in Sides, PostRejected(a, side) PROVE Typed'
    <2>1. JobType'  BY <1>3, <1>turned DEF PostRejected
    <2> QED
      BY <1>1, <1>3, <2>1, <1>book, <1>list, <1>switch, TypePartsNext
         DEF PostRejected, GhostType
  <1>4. ASSUME NEW side \in Sides, PostLost(a, side) PROVE Typed'
    <2>1. JobType'  BY <1>4, <1>turned DEF PostLost
    <2>2. PICK i \in Unused : Rest(i, side, job[a].ref) /\ doubt' = doubt \cup {i}
      BY <1>4 DEF PostLost
    <2>3. job[a].ref \in Refs  BY <1>4, PlacerPrice DEF PostLost, Posting
    <2>4. BookType'  BY <2>2, <2>3, RestStep DEF BookType
    <2>5. GhostType'  BY <1>1, <1>4, <2>2 DEF Unused, PostLost, GhostType
    <2> QED
      BY <1>1, <1>4, <2>1, <2>4, <2>5, <1>list, <1>switch, TypePartsNext DEF PostLost
  <1> QED  BY <1>2, <1>3, <1>4 DEF SyncFault

(* What comes from outside the ladder's own jobs.                          *)
Command ==
  \/ \E r \in Refs : StartSync(r) \/ StartManual(r) \/ ResumeVenue(r)
  \/ \E a \in Others : PauseVenue(a) \/ PauseAll(a) \/ ReadOrders(a)
  \/ \E a \in Others, i \in Ids : Webhook(a, i)
  \/ \E i \in Ids : End(i)
  \/ ResumeTrading \/ CoolDown \/ Restart

LEMMA NextCases ==
  Next <=> (\E a \in Actors : SyncStep(a) \/ SyncFault(a)) \/ Command
  BY DEF Next, Command

LEMMA StarterIsSync ==
  /\ IsIdle("sync") => "sync" \in Syncs
  /\ IsIdle("manual") => "manual" \in Syncs
  BY LadderAssumption DEF IsIdle, Actors

LEMMA OtherIsActor == ASSUME NEW a \in Others PROVE a \in Actors /\ a \notin Syncs
  BY LadderAssumption DEF Actors

(* Whatever job a command starts, the actor was idle and the job is fit.   *)
Continued ==
  \/ job' = job
  \/ \E a \in Actors, j \in Job :
       /\ job[a].pc = "idle" /\ Becomes(a, j) /\ Purpose(a, j)
       /\ j.pc \in {"anchor", "list"} /\ Empty(j)

LEMMA CommandJobs ==
  ASSUME Typed, Command
  PROVE  Restart \/ Continued
  <1> DEFINE Started(a, j) == /\ job[a].pc = "idle" /\ Becomes(a, j) /\ Purpose(a, j)
                              /\ j.pc \in {"anchor", "list"} /\ Empty(j)
             Goal == job' = job \/ \E a \in Actors, j \in Job : Started(a, j)
  <1> SUFFICES Restart \/ Goal  BY DEF Continued
  <1>anchor. ASSUME NEW a \in {"sync", "manual"}, NEW r \in Refs, IsIdle(a),
                    Becomes(a, [Idle EXCEPT !.pc = "anchor", !.ref = r])
             PROVE  Goal
    <2>1. a \in Syncs /\ a \in Actors /\ job[a].pc = "idle"
      BY <1>anchor, StarterIsSync DEF IsIdle
    <2>2. Becomes(a, Anchoring(r))  BY <1>anchor DEF Anchoring
    <2>3. Anchoring(r) \in Job /\ Started(a, Anchoring(r))  BY <2>1, <2>2, AnchorJob
    <2> HIDE DEF Started
    <2> QED  BY <2>1, <2>3
  <1>other. ASSUME NEW a \in Others, NEW goal \in {"view", "cancel"}, IsIdle(a),
                   Becomes(a, Reading(goal, NoRef))
            PROVE  Goal
    <2>1. a \in Actors /\ a \notin Syncs /\ job[a].pc = "idle"
      BY <1>other, OtherIsActor DEF IsIdle
    <2>2. Reading(goal, NoRef) \in Job /\ Started(a, Reading(goal, NoRef))
      BY <1>other, <2>1, ReadingJob DEF Goals
    <2> HIDE DEF Started
    <2> QED  BY <2>1, <2>2
  <1>1. ASSUME NEW r \in Refs, StartSync(r) \/ StartManual(r) \/ ResumeVenue(r) PROVE Goal
    <2>1. CASE StartSync(r)  BY <2>1, <1>anchor DEF StartSync
    <2>2. CASE StartManual(r)  BY <2>2, <1>anchor DEF StartManual
    <2>3. CASE ResumeVenue(r)
      <3>1. /\ IsIdle("manual")
            /\ \/ job' = job
               \/ Becomes("manual", [Idle EXCEPT !.pc = "anchor", !.ref = r])
        BY <2>3 DEF ResumeVenue
      <3> QED  BY <3>1, <1>anchor
    <2> QED  BY <1>1, <2>1, <2>2, <2>3
  <1>2. ASSUME NEW a \in Others, PauseVenue(a) \/ PauseAll(a) \/ ReadOrders(a) PROVE Goal
    <2>1. CASE PauseVenue(a)  BY <2>1, <1>other DEF PauseVenue
    <2>2. CASE PauseAll(a)  BY <2>2, <1>other DEF PauseAll
    <2>3. CASE ReadOrders(a)  BY <2>3, <1>other DEF ReadOrders
    <2> QED  BY <1>2, <2>1, <2>2, <2>3
  <1>3. ASSUME NEW a \in Others, NEW i \in Ids, Webhook(a, i) PROVE Goal
    BY <1>3, <1>other DEF Webhook
  <1>4. ASSUME NEW i \in Ids, End(i) PROVE Goal  BY <1>4 DEF End
  <1>5. ASSUME ResumeTrading \/ CoolDown PROVE Goal  BY <1>5 DEF ResumeTrading, CoolDown
  <1> HIDE DEF Goal
  <1> QED  BY <1>1, <1>2, <1>3, <1>4, <1>5 DEF Command

(* What a command does to the book, the list and the ghosts.               *)
Heard(i) == /\ UNCHANGED <<tracking, job, unsaved>> /\ i \notin Open'
            /\ doubt' = doubt \ {i} /\ forgotten' = forgotten \ {i}

Notified(a, i, view) ==
  /\ loaded' = TRUE /\ UNCHANGED <<state, doubt>>
  /\ EnsureLoaded(view) /\ mem'.ids = view.ids \ {i} /\ i \notin Open /\ Saves(view)

Rebooted ==
  /\ loaded' = FALSE /\ UNCHANGED <<state, stored>> /\ mem' = NoView
  /\ "restart" \in Faults
  /\ doubt' = doubt \cup (Open \cap UNION {job[a].acked : a \in Actors})
  /\ forgotten' = (forgotten \cup (Open \cap (unsaved \cup
                     UNION {job[a].late.ids : a \in Actors}))) \ stored.ids
  /\ unsaved' = {}
  /\ job' = [a \in Actors |-> Idle]

LEMMA CommandEffect ==
  ASSUME Typed, Command
  PROVE  /\ target' = target /\ BookType' /\ ListType' /\ GhostType'
         /\ \A i \in Ids : state'[i] # state[i] => i \in Open /\ state'[i] = "gone"
         /\ \/ UNCHANGED <<tracking, ghosts>> /\ Continued
            \/ \E i \in Ids : Heard(i)
            \/ /\ \E a \in Others, i \in Ids, view \in View : Notified(a, i, view)
               /\ Continued
            \/ Rebooted
  <1> USE DEF Typed
  <1>1. BookType /\ ListType /\ SwitchType /\ JobType /\ GhostType
    BY TypeParts
  <1> DEFINE Same == UNCHANGED <<state, target, tracking, ghosts>>
  <1>2. ASSUME NEW i \in Ids, End(i)
        PROVE  /\ target' = target /\ BookType' /\ GhostType' /\ Heard(i)
               /\ \A k \in Ids : state'[k] # state[k] => k \in Open /\ state'[k] = "gone"
    <2>1. /\ i \in Open /\ state' = [state EXCEPT ![i] = "gone"]
          /\ doubt' = doubt \ {i} /\ forgotten' = forgotten \ {i}
          /\ UNCHANGED <<target, tracking, job, unsaved>>
      BY <1>2 DEF End
    <2>2. state'[i] = "gone" /\ \A k \in Ids \ {i} : state'[k] = state[k]
      BY <1>1, <2>1 DEF BookType
    <2>3. i \notin Open'  BY <2>2 DEF Open
    <2>4. BookType' /\ GhostType'  BY <1>1, <2>1 DEF BookType, States, GhostType
    <2> QED  BY <1>1, <2>1, <2>2, <2>3, <2>4 DEF Heard
  <1>3. ASSUME NEW a \in Others, NEW i \in Ids, Webhook(a, i)
        PROVE  /\ UNCHANGED <<state, target>> /\ ListType' /\ GhostType'
               /\ \E view \in View : Notified(a, i, view)
    <2>1. PICK view \in {mem, stored} :
            EnsureLoaded(view) /\ mem' = Without(view, {i}) /\ Saves(view)
      BY <1>3 DEF Webhook
    <2>2. state[i] = "gone" /\ loaded' = TRUE /\ UNCHANGED <<state, target, doubt>>
      BY <1>3 DEF Webhook, book
    <2>3. view \in View /\ forgotten' \subseteq Ids  BY <2>1, EnsureLoadedStep
    <2>4. mem' \in View /\ mem'.ids = view.ids \ {i}  BY <2>1, <2>3, WithoutIsView
    <2>5. stored' \in View /\ unsaved' \subseteq Ids  BY <2>1, <2>4, SavesStep
    <2>6. i \notin Open  BY <2>2 DEF Open
    <2>7. ListType' /\ GhostType'
      BY <1>1, <2>2, <2>3, <2>4, <2>5 DEF ListType, GhostType
    <2>8. Notified(a, i, view)  BY <2>1, <2>2, <2>4, <2>6 DEF Notified
    <2> QED  BY <2>2, <2>3, <2>7, <2>8
  <1>4. ASSUME Restart
        PROVE  UNCHANGED <<state, target>> /\ ListType' /\ GhostType' /\ Rebooted
    <2>1. UNCHANGED <<state, target>> /\ Rebooted  BY <1>4 DEF Restart, Rebooted, book
    <2>2. ListType'  BY <1>1, <2>1, NoViewIsView DEF ListType, Rebooted
    <2>3. GhostType'  BY <1>1, <2>1, OpenIds DEF GhostType, Rebooted
    <2> QED  BY <2>1, <2>2, <2>3
  <1>5. ASSUME NEW r \in Refs, StartSync(r) \/ StartManual(r) \/ ResumeVenue(r) PROVE Same
    BY <1>5 DEF StartSync, StartManual, ResumeVenue, book
  <1>6. ASSUME NEW a \in Others, PauseVenue(a) \/ PauseAll(a) \/ ReadOrders(a) PROVE Same
    BY <1>6 DEF PauseVenue, PauseAll, ReadOrders, book
  <1>7. ASSUME ResumeTrading \/ CoolDown PROVE Same
    BY <1>7 DEF ResumeTrading, CoolDown, book
  <1>8. Same => /\ BookType' /\ ListType' /\ GhostType'
                /\ UNCHANGED <<state, target, tracking, ghosts>>
    BY <1>1 DEF BookType, ListType, tracking, GhostType
  <1>9. UNCHANGED tracking => ListType'  BY <1>1 DEF ListType, tracking
  <1>10. UNCHANGED <<state, target>> => BookType'  BY <1>1 DEF BookType
  <1>11. CASE Same /\ Continued  BY <1>8, <1>11
  <1>12. CASE \E i \in Ids : End(i)
    <2>1. PICK i \in Ids : End(i)  BY <1>12
    <2>2. ListType'  BY <2>1, <1>2, <1>9 DEF Heard
    <2> QED  BY <2>1, <2>2, <1>2
  <1>13. CASE \E a \in Others, i \in Ids : Webhook(a, i)
    <2>1. PICK a \in Others, i \in Ids : Webhook(a, i)  BY <1>13
    <2>2. /\ UNCHANGED <<state, target>> /\ ListType' /\ GhostType'
          /\ \E view \in View : Notified(a, i, view)
      BY <2>1, <1>3
    <2>3. CASE Continued  BY <2>2, <2>3, <1>10
    <2>4. CASE Restart  BY <2>4, <1>4, <1>10
    <2> QED  BY <2>3, <2>4, CommandJobs
  <1>14. CASE Restart  BY <1>4, <1>10, <1>14
  <1> HIDE DEF Same
  <1> QED  BY <1>5, <1>6, <1>7, <1>11, <1>12, <1>13, <1>14, CommandJobs DEF Command

LEMMA CommandTyped ==
  ASSUME Typed, Command
  PROVE  Typed'
  <1>1. BookType /\ ListType /\ SwitchType /\ JobType /\ GhostType
    BY TypeParts
  <1>2. BookType' /\ ListType' /\ GhostType'  BY CommandEffect
  <1>3. JobType'
    <2>1. CASE job' = job  BY <1>1, <2>1 DEF JobType, Purposes
    <2>2. CASE Restart
      BY <2>2, IdleJob, IdlePurpose DEF JobType, Purposes, Restart
    <2>3. CASE \E a \in Actors, j \in Job : Becomes(a, j) /\ Purpose(a, j)
      BY <2>3, JobTyped
    <2> QED  BY <2>1, <2>2, <2>3, CommandJobs DEF Continued
  <1>4. SwitchType'
    <2> USE <1>1 DEF SwitchType
    <2>1. ASSUME NEW r \in Refs, StartSync(r) \/ StartManual(r) \/ ResumeVenue(r)
          PROVE  SwitchType'
      BY <2>1 DEF StartSync, StartManual, ResumeVenue, switches
    <2>2. ASSUME NEW a \in Others, PauseVenue(a) \/ PauseAll(a) \/ ReadOrders(a)
          PROVE  SwitchType'
      BY <2>2 DEF PauseVenue, PauseAll, ReadOrders, switches
    <2>3. ASSUME NEW a \in Others, NEW i \in Ids, Webhook(a, i) PROVE SwitchType'
      BY <2>3 DEF Webhook, switches
    <2>4. ASSUME NEW i \in Ids, End(i) PROVE SwitchType'  BY <2>4 DEF End, switches
    <2>5. ASSUME ResumeTrading \/ CoolDown \/ Restart PROVE SwitchType'
      BY <2>5 DEF ResumeTrading, CoolDown, Restart, switches
    <2> QED  BY <2>1, <2>2, <2>3, <2>4, <2>5 DEF Command
  <1> QED  BY <1>2, <1>3, <1>4, TypePartsNext

LEMMA NextTyped == Typed /\ [Next]_vars => Typed'
  <1>1. Typed /\ Next => Typed'
    BY SyncStepTyped, SyncFaultTyped, CommandTyped, NextCases
  <1>2. Typed /\ UNCHANGED vars => Typed'
    BY DEF Typed, TypeOK, Purposes, vars
  <1> QED  BY <1>1, <1>2

LEMMA AlwaysTyped == Spec => []Typed
  BY InitTyped, NextTyped, PTL DEF Spec

(* The adapter's memory, what it persisted, the switches and every job stay *)
(* within their types, whichever coroutines run and whatever goes wrong.    *)
THEOREM TypeCorrect == Spec => []TypeOK
  <1>1. Typed => TypeOK  BY DEF Typed
  <1> QED  BY <1>1, AlwaysTyped, PTL

-----------------------------------------------------------------------------
(* The inductive invariant behind KnowsItsOrders.  Until the stored list   *)
(* is read no job has come further than its own listing, so the orders are *)
(* those stored; from then on an open order is in memory, in the list a    *)
(* slow read will put back, or in a response whose tracking is still due.  *)
(* What memory holds is stored too, or its write is known to have failed:  *)
(* that is what a restart loses.                                           *)

Early  == {"idle", "anchor", "list"}
Unread == ~loaded => \A a \in Actors : job[a].pc \in Early

InHand(j) == /\ j.late # NoView => j.pc = "load"
             /\ j.acked # {} => j.pc = "place"
Carried   == \A a \in Actors : InHand(job[a])

Listed  == (IF loaded THEN mem ELSE stored).ids
Held(j) == j.acked \cup j.late.ids
Excused == doubt \cup forgotten
Known   == \A i \in Open : i \in Listed \cup Excused
                           \/ \E a \in Actors : i \in Held(job[a])

Saved == IF loaded THEN Covered ELSE mem.ids = {}

Informed == Unread /\ Carried /\ Known /\ Saved

LEMMA InformedKnows == Informed => KnowsItsOrders
  <1> SUFFICES ASSUME Informed, loaded, \A a \in Actors : job[a].pc # "load",
                      NEW i \in Open
               PROVE  i \in mem.ids \cup doubt \cup forgotten
                            \cup UNION {job[a].acked : a \in Actors}
    BY DEF KnowsItsOrders
  <1>1. \A a \in Actors : job[a].late = NoView
    BY DEF Informed, Carried, InHand
  <1>2. \A a \in Actors : Held(job[a]) = job[a].acked
    BY <1>1 DEF Held, NoView
  <1> QED  BY <1>2 DEF Informed, Known, Listed, Excused

LEMMA InformedInit == Init => Informed
  BY IdleJob DEF Init, Informed, Unread, Early, Carried, InHand, Known, Open, Empty,
     Saved, NoView

LEMMA EmptyHand == ASSUME NEW j, Empty(j) PROVE InHand(j) /\ Held(j) = {}
  BY DEF Empty, InHand, Held, NoView

(* One actor's step keeps the invariant when every order it lets rest is    *)
(* in its hand or excused, and when nothing it takes off the list or out    *)
(* of its hand is lost.                                                     *)
LEMMA InformedStep ==
  ASSUME Typed, Informed, NEW a \in Actors, NEW j \in Job, Becomes(a, j), InHand(j),
         loaded => loaded', ~loaded' => j.pc \in Early, Saved',
         \A i \in Open' \ Open : i \in Excused' \cup Held(j),
         \A i \in Open \cap Open' :
           i \in Listed \cup Excused \cup Held(job[a])
             => i \in Listed' \cup Excused' \cup Held(j)
  PROVE  Informed'
  <1>1. job'[a] = j /\ \A b \in Actors \ {a} : job'[b] = job[b]
    BY BecomesJob DEF Typed, TypeOK
  <1>2. Unread'  BY <1>1 DEF Informed, Unread
  <1>3. Carried'  BY <1>1 DEF Informed, Carried
  <1>4. Known'
    <2> SUFFICES ASSUME NEW i \in Open'
                 PROVE  i \in (Listed \cup Excused)' \/ \E b \in Actors : i \in Held(job'[b])
      BY DEF Known, Held
    <2>1. CASE i \notin Open  BY <1>1, <2>1
    <2>2. CASE i \in Open
      <3>1. \/ i \in Listed \cup Excused \cup Held(job[a])
            \/ \E b \in Actors \ {a} : i \in Held(job[b])
        BY <2>2 DEF Informed, Known
      <3> QED  BY <1>1, <2>2, <3>1
    <2> QED  BY <2>1, <2>2
  <1> QED  BY <1>2, <1>3, <1>4 DEF Informed

(* A job past its listing works on a list that was read.                   *)
LEMMA LateJobLoaded ==
  ASSUME Informed, NEW a \in Actors, job[a].pc \notin Early
  PROVE  loaded
  BY DEF Informed, Unread

LEMMA InHandFields ==
  ASSUME Typed, Informed, NEW a \in Actors
  PROVE  /\ job[a] \in Job /\ Purpose(a, job[a]) /\ InHand(job[a])
         /\ job[a].pc \notin {"load", "place"} => Empty(job[a]) /\ Held(job[a]) = {}
         /\ job[a].pc = "load" => job[a].acked = {} /\ Held(job[a]) = job[a].late.ids
         /\ job[a].pc = "place" => job[a].late = NoView /\ Held(job[a]) = job[a].acked
  <1>1. job[a] \in Job /\ Purpose(a, job[a])  BY JobFits DEF Typed
  <1>2. InHand(job[a])  BY DEF Informed, Carried
  <1> QED  BY <1>1, <1>2 DEF InHand, Empty, Held, NoView

LEMMA SyncStepInformed ==
  ASSUME Typed, Informed, NEW a \in Actors, SyncStep(a)
  PROVE  Informed'
  <1> USE DEF Typed
  <1>1. /\ job[a] \in Job /\ Purpose(a, job[a]) /\ InHand(job[a])
        /\ job[a].pc \notin {"load", "place"} => Empty(job[a]) /\ Held(job[a]) = {}
        /\ job[a].pc = "load" => job[a].acked = {} /\ Held(job[a]) = job[a].late.ids
        /\ job[a].pc = "place" => job[a].late = NoView /\ Held(job[a]) = job[a].acked
    BY InHandFields
  <1>book. UNCHANGED book => Open' = Open  BY DEF book, Open
  <1>list. UNCHANGED <<tracking, unsaved>> =>
             Listed' = Listed /\ loaded' = loaded /\ Saved'
    BY DEF tracking, Listed, Informed, Saved, Covered
  <1>excused. UNCHANGED <<doubt, forgotten>> => Excused' = Excused  BY DEF Excused
  <1>late. job[a].pc \notin Early => loaded  BY LateJobLoaded
  <1>3. CASE Begin(a)
    <2>1. /\ job[a].pc = "anchor" /\ UNCHANGED <<book, tracking, ghosts>>
          /\ Becomes(a, Idle) \/ Becomes(a, Reading("requote", job[a].ref))
      BY <1>3 DEF Begin
    <2>2. \E j \in Job : Becomes(a, j) /\ Empty(j) /\ j.pc \in Early
      BY <1>1, <2>1, IdleJob, ReadingJob, JobFields DEF Early, Goals
    <2> QED  BY <1>1, <2>1, <2>2, <1>book, <1>list, <1>excused, EmptyHand, InformedStep
  <1>4. CASE ListOrders(a)
    <2>1. job[a].pc = "list" /\ loaded' = TRUE /\ UNCHANGED <<book, doubt>>
      BY <1>4 DEF ListOrders
    <2>2. Empty(job[a]) /\ Held(job[a]) = {} /\ stored \in View
      BY <1>1, <2>1 DEF TypeOK
    <2>3. PICK rows \in SUBSET Open :
           /\ forgotten \subseteq forgotten'
           /\ (IF loaded THEN Covered ELSE mem.ids = {}) => Covered'
           /\ \/ /\ Becomes(a, [job[a] EXCEPT !.pc = "lookup", !.rows = rows])
                 /\ Open \cap (IF loaded THEN mem ELSE stored).ids
                      \subseteq mem'.ids \cup forgotten'
              \/ /\ ~loaded /\ UNCHANGED <<mem, stored>>
                 /\ Becomes(a, [job[a] EXCEPT !.pc = "load", !.rows = rows,
                                              !.late = stored])
      BY <1>4, ListOrdersStep
    <2>saved. Saved'  BY <2>1, <2>3 DEF Saved, Informed
    <2>excused. Excused \subseteq Excused' /\ forgotten' \subseteq Excused'
      BY <2>1, <2>3 DEF Excused
    <2>4. rows \in SUBSET Ids  BY OpenIds
    <2>5. CASE /\ Becomes(a, [job[a] EXCEPT !.pc = "lookup", !.rows = rows])
               /\ Open \cap (IF loaded THEN mem ELSE stored).ids
                    \subseteq mem'.ids \cup forgotten'
      <3> DEFINE j == [job[a] EXCEPT !.pc = "lookup", !.rows = rows]
      <3>1. j \in Job /\ Empty(j)  BY <1>1, <2>2, <2>4 DEF Job, Steps, Empty
      <3>2. Becomes(a, j)  BY <2>5
      <3> HIDE DEF j
      <3>3. Open \cap Listed \subseteq Listed' \cup forgotten'  BY <2>1, <2>5 DEF Listed
      <3> QED
        BY <2>1, <2>2, <2>saved, <2>excused, <3>1, <3>2, <3>3, <1>book, EmptyHand,
           InformedStep
    <2>6. CASE /\ ~loaded /\ UNCHANGED <<mem, stored>>
               /\ Becomes(a, [job[a] EXCEPT !.pc = "load", !.rows = rows,
                                            !.late = stored])
      <3> DEFINE j == [job[a] EXCEPT !.pc = "load", !.rows = rows, !.late = stored]
      <3>1. /\ j \in Job /\ j.pc = "load" /\ j.late = stored /\ j.acked = {}
        BY <1>1, <2>2, <2>4 DEF Job, Steps, Empty
      <3>2. Becomes(a, j)  BY <2>6
      <3> HIDE DEF j
      <3>3. InHand(j) /\ Held(j) = stored.ids  BY <3>1 DEF InHand, Held
      <3>4. Listed = stored.ids  BY <2>6 DEF Listed
      <3> QED
        BY <2>1, <2>2, <2>saved, <2>excused, <3>1, <3>2, <3>3, <3>4, <1>book, InformedStep
    <2> QED  BY <2>3, <2>5, <2>6
  <1>5. CASE Load(a)
    <2>1. job[a].pc = "load" /\ UNCHANGED <<book, loaded, doubt>>
      BY <1>5 DEF Load
    <2>2. loaded /\ job[a].acked = {} /\ Held(job[a]) = job[a].late.ids
      BY <1>1, <1>late, <2>1 DEF Early
    <2>3. /\ Open \cap (mem.ids \cup job[a].late.ids) \subseteq mem'.ids \cup forgotten'
          /\ forgotten \subseteq forgotten' /\ Covered'
          /\ Becomes(a, [job[a] EXCEPT !.pc = "lookup", !.late = NoView])
      BY <1>5, LoadStep
    <2> DEFINE j == [job[a] EXCEPT !.pc = "lookup", !.late = NoView]
    <2>4. j \in Job /\ Empty(j)  BY <1>1, <2>2, NoViewIsView DEF Job, Steps, Empty
    <2>5. Becomes(a, j)  BY <2>3
    <2> HIDE DEF j
    <2>6. Listed = mem.ids /\ Listed' = mem'.ids /\ Saved'
      BY <2>1, <2>2, <2>3 DEF Listed, Saved
    <2>7. Excused \subseteq Excused' /\ forgotten' \subseteq Excused'
      BY <2>1, <2>3 DEF Excused
    <2> QED
      BY <2>1, <2>2, <2>3, <2>4, <2>5, <2>6, <2>7, <1>book, EmptyHand, InformedStep
  <1>6. CASE LookUp(a)
    <2>1. job[a].pc = "lookup" /\ UNCHANGED <<book, loaded, forgotten>>
      BY <1>6 DEF LookUp
    <2>2. loaded /\ Empty(job[a]) /\ Held(job[a]) = {}
      BY <1>1, <1>late, <2>1 DEF Early
    <2>3. PICK dropped \in SUBSET Ids :
           /\ mem' \in View /\ mem'.ids = mem.ids \ dropped /\ Written
           /\ doubt' = doubt \cup (dropped \cap Open)
           /\ AfterRead(a, job[a].rows \cup mem'.ids)
      BY <1>6, LookUpStep
    <2>4. job[a].rows \cup mem'.ids \in SUBSET Ids
      BY <1>1, <2>3, JobFields, ViewFields
    <2>5. PICK j : AfterReading(a, j, job[a].rows \cup mem'.ids)
      BY <1>1, <2>3, <2>4, AfterReadStep
    <2>6. j \in Job /\ Becomes(a, j) /\ Empty(j)  BY <2>2, <2>5 DEF AfterReading, Empty
    <2>7. Listed = mem.ids /\ Listed' = mem'.ids /\ Saved'
      BY <2>1, <2>2, <2>3 DEF Listed, Saved, Informed, Written
    <2>8. Excused' = Excused \cup (dropped \cap Open)  BY <2>1, <2>3 DEF Excused
    <2> QED
      BY <2>1, <2>2, <2>3, <2>6, <2>7, <2>8, <1>book, EmptyHand, InformedStep
  <1>7. CASE CancelAll(a)
    <2>1. job[a].pc = "cancel" /\ UNCHANGED <<loaded, forgotten>>
      BY <1>7 DEF CancelAll
    <2>2. /\ loaded /\ Empty(job[a]) /\ Held(job[a]) = {} /\ job[a].goal = "cancel"
      BY <1>1, <1>late, <2>1 DEF Early, Purpose
    <2>3. PICK accepted \in SUBSET Ids, lost \in SUBSET Ids :
           /\ mem'.ids = (mem.ids \cup accepted) \ lost /\ Written
           /\ doubt' = doubt \cup (lost \cap Open)
           /\ \A i \in Ids : state'[i] # state[i] => i \in Open
           /\ Becomes(a, NothingToCancel(a)) \/
              Becomes(a, [job[a] EXCEPT !.pc = "settle", !.rows = accepted])
      BY <1>7, CancelAllStep
    <2>4. \E j \in Job : Becomes(a, j) /\ Empty(j)
      <3>1. CASE Becomes(a, NothingToCancel(a))
        BY <2>2, <3>1, NothingToCancelJob
      <3>2. CASE Becomes(a, [job[a] EXCEPT !.pc = "settle", !.rows = accepted])
        <4> DEFINE j == [job[a] EXCEPT !.pc = "settle", !.rows = accepted]
        <4>1. j \in Job /\ Empty(j)  BY <1>1, <2>2, <2>3 DEF Job, Steps, Empty
        <4> QED  BY <3>2, <4>1
      <3> QED  BY <2>3, <3>1, <3>2
    <2>5. Open' \subseteq Open  BY <2>3 DEF Open
    <2>6. Listed = mem.ids /\ Listed' = mem'.ids /\ Saved'
      BY <2>1, <2>2, <2>3 DEF Listed, Saved, Informed, Written
    <2>7. Excused' = Excused \cup (lost \cap Open)  BY <2>1, <2>3 DEF Excused
    <2> QED  BY <2>1, <2>2, <2>3, <2>4, <2>5, <2>6, <2>7, EmptyHand, InformedStep
  <1>8. CASE Settle(a)
    <2>1. job[a].pc = "settle" /\ UNCHANGED <<book, loaded, forgotten>>
      BY <1>8 DEF Settle
    <2>2. loaded /\ Held(job[a]) = {} /\ job[a].goal = "cancel"
      BY <1>1, <1>late, <2>1 DEF Early, Purpose
    <2>3. PICK settled \in SUBSET Ids :
           /\ mem'.ids = mem.ids \ settled /\ Written
           /\ doubt' = doubt \cup (settled \cap Open)
           /\ Becomes(a, AfterCancel(a))
      BY <1>8, SettleStep
    <2>4. \E j \in Job : Becomes(a, j) /\ Empty(j)  BY <2>2, <2>3, SettledJob
    <2>5. Listed = mem.ids /\ Listed' = mem'.ids /\ Saved'
      BY <2>1, <2>2, <2>3 DEF Listed, Saved, Informed, Written
    <2>6. Excused' = Excused \cup (settled \cap Open)  BY <2>1, <2>3 DEF Excused
    <2> QED  BY <2>1, <2>2, <2>3, <2>4, <2>5, <2>6, <1>book, EmptyHand, InformedStep
  <1>9. ASSUME NEW side \in Sides, PostPlaced(a, side) PROVE Informed'
    <2>1. job[a].pc = "place" /\ UNCHANGED <<tracking, ghosts>>
      BY <1>9 DEF PostPlaced, Posting
    <2>2. job[a].late = NoView /\ Held(job[a]) = job[a].acked /\ loaded
      BY <1>1, <1>late, <2>1 DEF Early
    <2>3. PICK i \in Unused, j \in Job :
           /\ Rest(i, side, job[a].ref) /\ Becomes(a, j) /\ Purpose(a, j)
           /\ j.pc = "place" /\ j.late = job[a].late /\ j.acked = job[a].acked \cup {i}
           /\ j.todo = [job[a].todo EXCEPT ![side] = 0]
      BY <1>9, PostPlacedStep
    <2>4. job[a].ref \in Refs  BY <2>1, PlacerPrice
    <2>5. Open' = Open \cup {i}  BY <2>3, <2>4, RestStep
    <2>6. InHand(j) /\ Held(j) = Held(job[a]) \cup {i}
      BY <2>2, <2>3 DEF InHand, Held
    <2> QED  BY <2>1, <2>2, <2>3, <2>5, <2>6, <1>list, <1>excused, InformedStep
  <1>10. ASSUME NEW i \in Ids, Track(a, i) PROVE Informed'
    <2>1. job[a].pc = "place" /\ UNCHANGED <<book, loaded, doubt, forgotten>>
      BY <1>10 DEF Track
    <2>2. job[a].late = NoView /\ Held(job[a]) = job[a].acked /\ loaded
      BY <1>1, <1>late, <2>1 DEF Early
    <2>3. PICK j \in Job : /\ mem'.ids = mem.ids \cup {i} /\ Written /\ Becomes(a, j)
                           /\ j.pc = "place" /\ j.late = job[a].late
                           /\ j.acked = job[a].acked \ {i}
      BY <1>10, TrackStep
    <2>4. InHand(j) /\ Held(j) = Held(job[a]) \ {i}
      BY <2>2, <2>3 DEF InHand, Held, NoView
    <2>5. Listed = mem.ids /\ Listed' = mem'.ids /\ Saved'
      BY <2>1, <2>2, <2>3 DEF Listed, Saved, Informed, Written
    <2> QED  BY <2>1, <2>2, <2>3, <2>4, <2>5, <1>book, <1>excused, InformedStep
  <1>11. CASE Finish(a)
    <2>1. /\ job[a].pc = "place" /\ job[a].acked = {} /\ UNCHANGED <<book, tracking, ghosts>>
          /\ Becomes(a, Reading("view", NoRef)) \/ Becomes(a, Idle)
      BY <1>11 DEF Finish
    <2>2. Held(job[a]) = {}  BY <1>1, <2>1
    <2>3. \E j \in Job : Becomes(a, j) /\ Empty(j) /\ j.pc \in Early
      BY <2>1, IdleJob, ReadingJob DEF Early, Goals
    <2> QED  BY <2>1, <2>2, <2>3, <1>book, <1>list, <1>excused, EmptyHand, InformedStep
  <1> QED
    BY <1>3, <1>4, <1>5, <1>6, <1>7, <1>8, <1>9, <1>10, <1>11 DEF SyncStep

LEMMA SyncFaultInformed ==
  ASSUME Typed, Informed, NEW a \in Actors, SyncFault(a)
  PROVE  Informed'
  <1> USE DEF Typed
  <1>1. /\ job[a] \in Job /\ Purpose(a, job[a]) /\ InHand(job[a])
        /\ job[a].pc = "list" => Held(job[a]) = {}
        /\ job[a].pc = "place" => job[a].late = NoView /\ Held(job[a]) = job[a].acked
    BY InHandFields
  <1>book. UNCHANGED book => Open' = Open  BY DEF book, Open
  <1>list. UNCHANGED <<tracking, unsaved>> =>
             Listed' = Listed /\ loaded' = loaded /\ Saved'
    BY DEF tracking, Listed, Informed, Saved, Covered
  <1>excused. UNCHANGED <<doubt, forgotten>> => Excused' = Excused  BY DEF Excused
  <1>late. job[a].pc = "place" => loaded  BY LateJobLoaded DEF Early
  <1>turned. ASSUME NEW side \in Sides, Posting(a, side),
                    Becomes(a, [job[a] EXCEPT !.todo[side] = @ - 1])
             PROVE  \E j \in Job : Becomes(a, j) /\ InHand(j) /\ Held(j) = Held(job[a])
    <2>1. PICK j \in Job :
           /\ Becomes(a, j) /\ Purpose(a, j)
           /\ j.pc = "place" /\ j.late = job[a].late /\ j.acked = job[a].acked
           /\ j.todo = [job[a].todo EXCEPT ![side] = @ - 1]
      BY <1>turned, TurnedDownStep
    <2>2. job[a].pc = "place"  BY <1>turned DEF Posting
    <2>3. InHand(j) /\ Held(j) = Held(job[a])  BY <1>1, <2>1, <2>2 DEF InHand, Held
    <2> QED  BY <2>1, <2>3
  <1>2. CASE ListFails(a)
    <2>1. /\ job[a].pc = "list" /\ Becomes(a, Idle) /\ UNCHANGED <<book, tracking, ghosts>>
      BY <1>2 DEF ListFails
    <2>2. Empty(Idle) /\ Idle \in Job /\ Idle.pc \in Early  BY IdleJob DEF Early
    <2> QED  BY <1>1, <2>1, <2>2, <1>book, <1>list, <1>excused, EmptyHand, InformedStep
  <1>3. ASSUME NEW side \in Sides, PostRejected(a, side) PROVE Informed'
    <2>1. Posting(a, side) /\ UNCHANGED <<book, tracking, ghosts>>  BY <1>3 DEF PostRejected
    <2>2. \E j \in Job : Becomes(a, j) /\ InHand(j) /\ Held(j) = Held(job[a])
      BY <1>3, <1>turned DEF PostRejected
    <2>3. loaded  BY <1>late, <2>1 DEF Posting
    <2> QED  BY <2>1, <2>2, <2>3, <1>book, <1>list, <1>excused, InformedStep
  <1>4. ASSUME NEW side \in Sides, PostLost(a, side) PROVE Informed'
    <2>1. Posting(a, side) /\ UNCHANGED <<tracking, unsaved, forgotten>>
      BY <1>4 DEF PostLost
    <2>2. \E j \in Job : Becomes(a, j) /\ InHand(j) /\ Held(j) = Held(job[a])
      BY <1>4, <1>turned DEF PostLost
    <2>3. loaded /\ job[a].ref \in Refs  BY <1>late, <2>1, PlacerPrice DEF Posting
    <2>4. PICK i \in Unused : Rest(i, side, job[a].ref) /\ doubt' = doubt \cup {i}
      BY <1>4 DEF PostLost
    <2>5. Open' = Open \cup {i} /\ Excused' = Excused \cup {i}
      BY <2>1, <2>3, <2>4, RestStep DEF Excused
    <2> QED  BY <2>1, <2>2, <2>3, <2>4, <2>5, <1>list, InformedStep
  <1> QED  BY <1>2, <1>3, <1>4 DEF SyncFault

LEMMA ContinuedInformed ==
  ASSUME Typed, Informed, Continued, Open' \subseteq Open, Excused \subseteq Excused',
         loaded => loaded', Open \cap Listed \subseteq Listed' \cup Excused', Saved'
  PROVE  Informed'
  <1>1. CASE job' = job
    BY <1>1 DEF Informed, Unread, Carried, Known
  <1>2. CASE \E a \in Actors, j \in Job :
               /\ job[a].pc = "idle" /\ Becomes(a, j) /\ Purpose(a, j)
               /\ j.pc \in {"anchor", "list"} /\ Empty(j)
    <2>1. PICK a \in Actors, j \in Job :
            /\ job[a].pc = "idle" /\ Becomes(a, j) /\ j.pc \in Early /\ Empty(j)
      BY <1>2 DEF Early
    <2>2. Held(job[a]) = {}  BY <2>1, InHandFields
    <2> QED  BY <2>1, <2>2, EmptyHand, InformedStep
  <1> QED  BY <1>1, <1>2 DEF Continued

(* A restart keeps what is stored; the rest of what was known is excused.  *)
LEMMA RebootInformed ==
  ASSUME Typed, Informed, Rebooted
  PROVE  Informed'
  <1>1. Open' = Open /\ Listed' = stored.ids  BY DEF Rebooted, Open, Listed
  <1>2. Saved' /\ Unread' /\ Carried'
    BY IdleJob, EmptyHand DEF Rebooted, Saved, Unread, Carried, Early, NoView
  <1>3. Known'
    <2> SUFFICES ASSUME NEW i \in Open PROVE i \in stored.ids \cup Excused'
      BY <1>1 DEF Known
    <2>1. CASE i \in Excused  BY <2>1 DEF Excused, Rebooted
    <2>2. CASE i \in Listed  BY <2>2 DEF Listed, Informed, Saved, Covered, Excused, Rebooted
    <2>3. ASSUME NEW a \in Actors, i \in Held(job[a]) PROVE i \in stored.ids \cup Excused'
      BY <2>3 DEF Held, Excused, Rebooted
    <2> QED  BY <2>1, <2>2, <2>3 DEF Informed, Known
  <1> QED  BY <1>2, <1>3 DEF Informed

LEMMA CommandInformed ==
  ASSUME Typed, Informed, Command
  PROVE  Informed'
  <1>1. \A i \in Ids : state'[i] # state[i] => i \in Open /\ state'[i] = "gone"
    BY CommandEffect
  <1>2. Open' \subseteq Open  BY <1>1 DEF Open
  <1>3. CASE UNCHANGED <<tracking, ghosts>> /\ Continued
    <2>1. Listed' = Listed /\ loaded' = loaded /\ Saved' /\ Excused' = Excused
      BY <1>3 DEF tracking, Listed, Informed, Saved, Covered, Excused
    <2> QED  BY <1>2, <1>3, <2>1, ContinuedInformed
  <1>4. ASSUME NEW i \in Ids, Heard(i) PROVE Informed'
    <2>1. Listed' = Listed /\ loaded' = loaded /\ Saved' /\ job' = job
      BY <1>4 DEF Heard, tracking, Listed, Informed, Saved, Covered
    <2>2. \A k \in Open' : k \in Excused => k \in Excused'  BY <1>4 DEF Heard, Excused
    <2> QED  BY <1>2, <2>1, <2>2 DEF Informed, Unread, Carried, Known
  <1>5. ASSUME NEW a \in Others, NEW i \in Ids, NEW view \in View, Notified(a, i, view),
               Continued
        PROVE  Informed'
    <2>1. /\ (loaded => view = mem) /\ view \in {mem, stored}
          /\ forgotten \subseteq forgotten'
          /\ Open \cap Listed \subseteq view.ids \cup forgotten'
      BY <1>5, EnsureLoadedStep DEF Notified, Listed, Typed
    <2>2. mem' \in View  BY CommandEffect DEF ListType
    <2>3. view.ids \subseteq stored.ids \cup unsaved => Covered'
      BY <1>5, <2>2, SavesStep DEF Notified, Typed
    <2>4. loaded' /\ Saved'
      BY <1>5, <2>1, <2>3 DEF Notified, Informed, Saved, Covered
    <2>5. Excused \subseteq Excused' /\ Open \cap Listed \subseteq Listed' \cup Excused'
      BY <1>5, <2>1, <2>4 DEF Notified, Excused, Listed
    <2> QED  BY <1>2, <1>5, <2>4, <2>5, ContinuedInformed
  <1> QED  BY <1>3, <1>4, <1>5, CommandEffect, RebootInformed

LEMMA NextInformed == Typed /\ Informed /\ [Next]_vars => Informed'
  <1>1. Typed /\ Informed /\ Next => Informed'
    BY SyncStepInformed, SyncFaultInformed, CommandInformed, NextCases
  <1>2. Informed /\ UNCHANGED vars => Informed'
    BY DEF Informed, Unread, Carried, Known, Listed, Open, Saved, Covered, Excused, vars
  <1> QED  BY <1>1, <1>2

LEMMA AlwaysInformed == Spec => []Informed
  BY AlwaysTyped, InformedInit, NextInformed, PTL DEF Spec

(* Whatever the venue denies, delays or refuses, whatever the store fails   *)
(* to read or to write and however jobs and restarts interleave, the        *)
(* adapter knows its open orders, but for those named in doubt and those    *)
(* the store lost: by a load that failed or came late, or by a restart      *)
(* after a write that failed. No premise on the faults.                     *)
THEOREM KnowsOrders == Spec => []KnowsItsOrders
  BY AlwaysInformed, InformedKnows, PTL

-----------------------------------------------------------------------------
(* The inductive invariant behind NoStacking.  What the sync read last     *)
(* covers the book: either the venue's listing is complete, or the tracked *)
(* list is, because the store lost none of it.                             *)

(* Every ladder sync takes the lock, so one of them runs at a time.        *)
LockedSync == Syncs \subseteq {"sync"}

(* A listing that lags is made up for by the tracked list, provided that   *)
(* the list is never replaced while somebody tracks and that a restart     *)
(* finds it: then no write and no read of it may fail.                     *)
ListingIsCovered ==
  "lag" \in Faults =>
    /\ "slow_load" \in Faults => Others = {}
    /\ "restart" \in Faults => "store" \notin Faults /\ "unloaded" \notin Faults

Named == \A i \in Ids : state[i] # "none" => target[i] \in Targets

Seen == "lag" \notin Faults =>
          \A a \in Syncs : job[a].pc \in {"load", "lookup"} => Open \subseteq job[a].rows

NoSlowLoad == "slow_load" \notin Faults => \A a \in Actors : job[a].pc # "load"
NothingOld == "restart" \notin Faults =>
                /\ ~loaded => stored.ids = {}
                /\ \A a \in Actors : job[a].late.ids = {}

(* Where the listing lags, the store loses nothing: memory is written as   *)
(* it changes, and empty while the stored list is being read.              *)
Kept == "lag" \in Faults =>
          /\ forgotten = {}
          /\ "restart" \in Faults => unsaved = {}
          /\ \A a \in Actors : job[a].pc = "load" =>
                mem.ids = {} /\ job[a].late.ids \subseteq stored.ids

(* A target whose order already rests is not posted again.                 *)
Spent(j, resting, t) == j.pc = "place" => \A i \in resting : j.todo[t[i][1]] = 0
Clear == \A a \in Actors : Spent(job[a], Open \ doubt, target)

Unstacked == Named /\ Seen /\ NoSlowLoad /\ NothingOld /\ Kept /\ Clear /\ NoStacking

LEMMA UnstackedInit == Init => Unstacked
  BY IdleJob DEF Init, Unstacked, Named, Seen, NoSlowLoad, NothingOld, Kept, Clear, Spent,
     NoStacking, Open, Empty, NoView, Actors

LEMMA NamedSide ==
  ASSUME Named, NEW i \in Open
  PROVE  target[i] \in Targets /\ target[i][1] \in Sides
  BY DEF Named, Open, Targets

(* A step that lets no order rest.                                         *)
LEMMA NamedKept ==
  ASSUME Named, target' = target, \A i \in Ids : state'[i] # state[i] => i \in Open
  PROVE  Named'
  BY DEF Named, Open

LEMMA StackingKept ==
  ASSUME NoStacking, target' = target, Open' \ doubt' \subseteq Open \ doubt
  PROVE  NoStacking'
  BY DEF NoStacking

LEMMA SpentKept ==
  ASSUME NEW j, NEW k, NEW t, NEW some, NEW all, Spent(j, all, t), some \subseteq all,
         k.pc = "place" => j.pc = "place" /\ k.todo = j.todo
  PROVE  Spent(k, some, t)
  BY DEF Spent

(* With a slow read of the store and a listing that lags there is nobody    *)
(* but the locked sync.                                                     *)
LEMMA SoleActor ==
  ASSUME LockedSync, ListingIsCovered, "lag" \in Faults, "slow_load" \in Faults,
         NEW a \in Actors, NEW b \in Actors
  PROVE  a = b
  BY DEF LockedSync, ListingIsCovered, Actors

(* A step of one actor that does not leave it waiting for the store.        *)
LEMMA KeptStep ==
  ASSUME LockedSync, ListingIsCovered, Typed, Unstacked, NEW a \in Actors,
         NEW j \in Job, Becomes(a, j), j.pc # "load",
         "lag" \in Faults => forgotten' = {},
         "lag" \in Faults /\ "restart" \in Faults => unsaved' = {}
  PROVE  Kept'
  <1> SUFFICES ASSUME "lag" \in Faults, NEW b \in Actors, job'[b].pc = "load"
               PROVE  FALSE
    BY DEF Kept
  <1>1. job'[a] = j /\ \A c \in Actors \ {a} : job'[c] = job[c]
    BY BecomesJob DEF Typed, TypeOK
  <1>2. job[b].pc = "load"  BY <1>1
  <1>3. "slow_load" \in Faults  BY <1>2 DEF Unstacked, NoSlowLoad
  <1> QED  BY <1>1, <1>3, SoleActor

(* What a write of the list leaves of Kept.                                *)
LEMMA WrittenKept ==
  ASSUME ListingIsCovered, Unstacked, "lag" \in Faults
  PROVE  /\ forgotten' = forgotten => forgotten' = {}
         /\ Written /\ "restart" \in Faults => unsaved' = {}
         /\ unsaved' = unsaved /\ "restart" \in Faults => unsaved' = {}
  BY DEF ListingIsCovered, Unstacked, Kept, Written

LEMMA UnstackedStep ==
  ASSUME Kept', Typed, Unstacked, NEW a \in Actors, NEW j \in Job, Becomes(a, j),
         target' = target, Open' \subseteq Open, Open' \ doubt' \subseteq Open \ doubt,
         \A i \in Ids : state'[i] # state[i] => i \in Open,
         ~loaded' => ~loaded /\ stored' = stored,
         j.pc = "place" => \/ Open' \subseteq doubt'
                           \/ job[a].pc = "place" /\ j.todo = job[a].todo,
         "lag" \notin Faults /\ j.pc \in {"load", "lookup"} /\ a \in Syncs =>
           Open' \subseteq j.rows,
         "slow_load" \notin Faults => j.pc # "load",
         "restart" \notin Faults => j.late.ids = {}
  PROVE  Unstacked'
  <1>1. job'[a] = j /\ \A b \in Actors \ {a} : job'[b] = job[b]
    BY BecomesJob DEF Typed, TypeOK
  <1>2. Named' /\ NoStacking'  BY NamedKept, StackingKept DEF Unstacked
  <1>3. Seen'  BY <1>1 DEF Unstacked, Seen, Actors
  <1>4. NoSlowLoad' /\ NothingOld'  BY <1>1 DEF Unstacked, NoSlowLoad, NothingOld
  <1>5. Clear'
    <2>1. \A b \in Actors \ {a} : Spent(job'[b], Open' \ doubt', target')
      BY <1>1, SpentKept DEF Unstacked, Clear
    <2>2. Spent(j, Open' \ doubt', target')
      <3>1. CASE Open' \subseteq doubt'  BY <3>1 DEF Spent
      <3>2. CASE j.pc = "place" => job[a].pc = "place" /\ j.todo = job[a].todo
        BY <3>2, SpentKept DEF Unstacked, Clear
      <3> QED  BY <3>1, <3>2
    <2> QED  BY <1>1, <2>1, <2>2 DEF Clear
  <1> QED  BY <1>2, <1>3, <1>4, <1>5 DEF Unstacked

(* A locked sync that goes on to place has seen the whole book: what still *)
(* rests was denied by the venue.                                          *)
LEMMA PlacesOverNothing ==
  ASSUME LockedSync, ListingIsCovered, Typed', Informed', Unstacked, Kept', NoSlowLoad',
         NEW a \in Syncs, job[a].pc = "lookup", job[a].rows = {}, loaded', mem'.ids = {},
         Open' = Open, Empty(job'[a])
  PROVE  Open' \subseteq doubt'
  <1>1. CASE "lag" \notin Faults
    BY <1>1 DEF Unstacked, Seen
  <1>2. CASE "lag" \in Faults
    <2> SUFFICES ASSUME NEW i \in Open', NEW b \in Actors, i \in Held(job'[b])
                 PROVE  FALSE
      BY <1>2 DEF Informed, Known, Listed, Excused, Kept
    <2>1. b # a /\ b \notin Syncs  BY EmptyHand, LadderAssumption DEF LockedSync
    <2>2. job'[b].acked = {}
      BY <2>1 DEF Informed, Carried, InHand, Typed, Purposes, Purpose
    <2>3. job'[b].late.ids = {}
      BY <1>2, <2>1 DEF ListingIsCovered, Actors, NoSlowLoad, Informed, Carried, InHand,
         NoView
    <2> QED  BY <2>2, <2>3 DEF Held
  <1> QED  BY <1>1, <1>2

(* An order comes to rest: in doubt, or alone on its side.                 *)
LEMMA PostStep ==
  ASSUME LockedSync, ListingIsCovered, Typed, Unstacked,
         NEW a \in Actors, NEW side \in Sides, Posting(a, side),
         NEW i \in Unused, Rest(i, side, job[a].ref),
         NEW j \in Job, Becomes(a, j), Purpose(a, j), j.pc = "place", j.late = job[a].late,
         UNCHANGED <<tracking, unsaved, forgotten>>,
         \/ doubt' = doubt /\ j.todo = [job[a].todo EXCEPT ![side] = 0]
         \/ doubt' = doubt \cup {i} /\ j.todo = [job[a].todo EXCEPT ![side] = @ - 1]
  PROVE  Unstacked'
  <1>1. /\ job'[a] = j /\ \A b \in Actors \ {a} : job'[b] = job[b]
        /\ job[a].todo \in [Sides -> 0..Endpoints] /\ job[a].todo[side] > 0
        /\ job[a].pc = "place" /\ a \in Syncs /\ job[a].ref \in Refs
    BY BecomesJob, JobFields, PlacerPrice DEF Typed, TypeOK, Posting
  <1>2. /\ i \in Ids \ Open /\ Open' = Open \cup {i}
        /\ target'[i] = <<side, job[a].ref>>
        /\ \A k \in Ids \ {i} : state'[k] = state[k] /\ target'[k] = target[k]
    BY <1>1, RestStep DEF Typed
  <1>3. Named'
    <2>1. <<side, job[a].ref>> \in Targets  BY <1>1 DEF Targets
    <2> QED  BY <1>2, <2>1 DEF Unstacked, Named
  <1>4. Seen'  BY <1>1 DEF Seen, LockedSync
  <1>5. NoSlowLoad' /\ NothingOld'
    BY <1>1 DEF Unstacked, NoSlowLoad, NothingOld, tracking
  <1>kept. Kept'  BY WrittenKept, KeptStep
  <1>6. \A k \in Open \ doubt : /\ k # i /\ target'[k] = target[k] /\ target[k][1] \in Sides
                               /\ job[a].todo[target[k][1]] = 0 /\ target[k][1] # side
    BY <1>1, <1>2, NamedSide, OpenIds DEF Unstacked, Clear, Spent
  <1>7. \A k \in Open' \ doubt' : k \in Open \ doubt \/ (k = i /\ doubt' = doubt)
    BY <1>2
  <1>8. NoStacking'
    <2> SUFFICES ASSUME NEW k \in Open' \ doubt', NEW l \in Open' \ doubt',
                        target'[k][1] = target'[l][1]
                 PROVE  k = l
      BY DEF NoStacking
    <2>1. CASE k \in Open \ doubt /\ l \in Open \ doubt
      BY <1>6, <2>1 DEF Unstacked, NoStacking
    <2>2. CASE k = i \/ l = i  BY <1>2, <1>6, <1>7, <2>2
    <2> QED  BY <1>7, <2>1, <2>2
  <1>9. Clear'
    <2>1. Spent(j, Open' \ doubt', target')
      <3> SUFFICES ASSUME NEW k \in Open' \ doubt' PROVE j.todo[target'[k][1]] = 0
        BY DEF Spent
      <3>1. CASE k = i /\ doubt' = doubt
        BY <1>1, <1>2, <3>1
      <3>2. CASE k \in Open \ doubt  BY <1>1, <1>6, <3>2
      <3> QED  BY <1>7, <3>1, <3>2
    <2>2. ASSUME NEW b \in Actors \ {a} PROVE Spent(job'[b], Open' \ doubt', target')
      <3>1. b \notin Syncs  BY <1>1 DEF LockedSync
      <3>2. job'[b].pc # "place"  BY <1>1, <3>1 DEF Typed, Purposes, Purpose
      <3> QED  BY <3>2 DEF Spent
    <2> QED  BY <1>1, <2>1, <2>2 DEF Clear
  <1> QED  BY <1>3, <1>4, <1>5, <1>kept, <1>8, <1>9 DEF Unstacked

(* A job that only reads on, gives up or starts to list again.             *)
LEMMA UnstackedRead ==
  ASSUME LockedSync, ListingIsCovered, Typed, Unstacked, NEW a \in Actors, NEW j \in Job, Becomes(a, j), Empty(j),
         j.pc \notin {"place", "load", "lookup"},
         target' = target, Open' \subseteq Open, Open' \ doubt' \subseteq Open \ doubt,
         \A i \in Ids : state'[i] # state[i] => i \in Open,
         ~loaded' => ~loaded /\ stored' = stored,
         "lag" \in Faults => forgotten' = {},
         "lag" \in Faults /\ "restart" \in Faults => unsaved' = {}
  PROVE  Unstacked'
  <1>1. j.late.ids = {}  BY DEF Empty, NoView
  <1>2. Kept'  BY KeptStep
  <1> QED  BY <1>1, <1>2, UnstackedStep

LEMMA SyncStepUnstacked ==
  ASSUME LockedSync, ListingIsCovered, Typed, Typed', Informed, Informed', Unstacked,
         NEW a \in Actors, SyncStep(a)
  PROVE  Unstacked'
  <1> USE DEF Typed
  <1>1. /\ job[a] \in Job /\ Purpose(a, job[a]) /\ InHand(job[a])
        /\ job[a].pc \notin {"load", "place"} => Empty(job[a])
    BY InHandFields
  <1>book. UNCHANGED book =>
             /\ target' = target /\ Open' = Open
             /\ \A i \in Ids : state'[i] # state[i] => i \in Open
    BY DEF book, Open
  <1>late. job[a].pc \notin Early => loaded  BY LateJobLoaded
  <1>kept. UNCHANGED <<unsaved, forgotten>> =>
             /\ "lag" \in Faults => forgotten' = {}
             /\ "lag" \in Faults /\ "restart" \in Faults => unsaved' = {}
    BY WrittenKept
  <1>written. forgotten' = forgotten /\ Written =>
             /\ "lag" \in Faults => forgotten' = {}
             /\ "lag" \in Faults /\ "restart" \in Faults => unsaved' = {}
    BY WrittenKept
  <1>goals. Goals = {"requote", "cancel", "check", "view"}  BY DEF Goals
  <1>3. CASE Begin(a)
    <2>1. /\ job[a].pc = "anchor" /\ UNCHANGED <<book, tracking, ghosts>>
          /\ Becomes(a, Idle) \/ Becomes(a, Reading("requote", job[a].ref))
      BY <1>3 DEF Begin
    <2>2. \E j \in Job : Becomes(a, j) /\ Empty(j) /\ j.pc \in {"idle", "list"}
      BY <1>1, <2>1, <1>goals, IdleJob, ReadingJob, JobFields
    <2> QED  BY <2>1, <2>2, <1>book, <1>kept, UnstackedRead DEF tracking
  <1>4. CASE ListOrders(a)
    <2>1. job[a].pc = "list" /\ loaded' = TRUE /\ UNCHANGED <<book, doubt>>
      BY <1>4 DEF ListOrders
    <2>2. Empty(job[a]) /\ stored \in View
      BY <1>1, <2>1 DEF TypeOK
    <2>3. PICK rows \in SUBSET Open :
           /\ "lag" \notin Faults => rows = Open
           /\ loaded \/ (mem.ids = {} /\ ("unloaded" \notin Faults \/ stored.ids = {}))
                => forgotten' = forgotten
           /\ "store" \notin Faults /\ unsaved = {} => unsaved' = {}
           /\ \/ Becomes(a, [job[a] EXCEPT !.pc = "lookup", !.rows = rows])
              \/ /\ ~loaded /\ "slow_load" \in Faults /\ UNCHANGED <<mem, stored>>
                 /\ Becomes(a, [job[a] EXCEPT !.pc = "load", !.rows = rows,
                                              !.late = stored])
      BY <1>4, ListOrdersStep
    <2>4. rows \in SUBSET Ids  BY OpenIds
    <2>empty. ~loaded => mem.ids = {}  BY DEF Informed, Saved
    <2>old. ~loaded /\ "restart" \notin Faults => stored.ids = {}
      BY DEF Unstacked, NothingOld
    <2>kept. /\ "lag" \in Faults => forgotten' = {}
             /\ "lag" \in Faults /\ "restart" \in Faults => unsaved' = {}
      BY <2>3, <2>empty, <2>old DEF ListingIsCovered, Unstacked, Kept
    <2>5. CASE Becomes(a, [job[a] EXCEPT !.pc = "lookup", !.rows = rows])
      <3> DEFINE j == [job[a] EXCEPT !.pc = "lookup", !.rows = rows]
      <3>1. /\ j \in Job /\ j.late = NoView /\ j.pc = "lookup" /\ j.rows = rows
        BY <1>1, <2>2, <2>4 DEF Job, Steps, Empty
      <3>2. Becomes(a, j)  BY <2>5
      <3> HIDE DEF j
      <3>3. j.late.ids = {}  BY <3>1 DEF NoView
      <3>4. Kept'  BY <2>kept, <3>1, <3>2, KeptStep
      <3> QED  BY <2>1, <2>3, <3>1, <3>2, <3>3, <3>4, <1>book, UnstackedStep
    <2>6. CASE /\ ~loaded /\ "slow_load" \in Faults /\ UNCHANGED <<mem, stored>>
               /\ Becomes(a, [job[a] EXCEPT !.pc = "load", !.rows = rows,
                                            !.late = stored])
      <3> DEFINE j == [job[a] EXCEPT !.pc = "load", !.rows = rows, !.late = stored]
      <3>1. /\ j \in Job /\ j.pc = "load" /\ j.late = stored /\ j.rows = rows
        BY <1>1, <2>2, <2>4 DEF Job, Steps, Empty
      <3>2. Becomes(a, j)  BY <2>6
      <3> HIDE DEF j
      <3>3. "restart" \notin Faults => j.late.ids = {}
        BY <2>6, <3>1 DEF Unstacked, NothingOld
      <3>4. Kept'
        <4> SUFFICES ASSUME "lag" \in Faults, NEW b \in Actors
                     PROVE  mem'.ids = {} /\ job'[b].late.ids \subseteq stored'.ids
          BY <2>kept DEF Kept
        <4>1. b = a  BY <2>6, SoleActor
        <4>2. job'[a] = j  BY <3>1, <3>2, BecomesJob DEF TypeOK
        <4> QED  BY <4>1, <4>2, <3>1, <2>6, <2>empty
      <3> QED  BY <2>1, <2>3, <2>6, <3>1, <3>2, <3>3, <3>4, <1>book, UnstackedStep
    <2> QED  BY <2>3, <2>5, <2>6
  <1>5. CASE Load(a)
    <2>1. job[a].pc = "load" /\ UNCHANGED <<book, loaded, doubt>>
      BY <1>5 DEF Load
    <2>2. loaded  BY <1>late, <2>1 DEF Early
    <2>3. /\ Becomes(a, [job[a] EXCEPT !.pc = "lookup", !.late = NoView])
          /\ mem.ids = {} /\ ("unloaded" \notin Faults \/ job[a].late.ids = {})
               => forgotten' = forgotten
          /\ "store" \notin Faults /\ mem.ids = {} /\ job[a].late.ids \subseteq stored.ids
               => unsaved' = {}
      BY <1>5, LoadStep
    <2>kept. /\ "lag" \in Faults => forgotten' = {}
             /\ "lag" \in Faults /\ "restart" \in Faults => unsaved' = {}
      BY <2>1, <2>3 DEF ListingIsCovered, Unstacked, Kept, NothingOld
    <2> DEFINE j == [job[a] EXCEPT !.pc = "lookup", !.late = NoView]
    <2>4. /\ j \in Job /\ j.pc = "lookup" /\ j.late = NoView /\ j.rows = job[a].rows
      BY <1>1, NoViewIsView DEF Job, Steps
    <2>5. Becomes(a, j)  BY <2>3
    <2> HIDE DEF j
    <2>6. j.late.ids = {}  BY <2>4 DEF NoView
    <2>7. "lag" \notin Faults /\ a \in Syncs => Open \subseteq j.rows
      BY <2>1, <2>4 DEF Unstacked, Seen
    <2>8. Kept'  BY <2>kept, <2>4, <2>5, KeptStep
    <2> QED
      BY <2>1, <2>2, <2>4, <2>5, <2>6, <2>7, <2>8, <1>book, UnstackedStep
  <1>6. CASE LookUp(a)
    <2>1. job[a].pc = "lookup" /\ UNCHANGED <<book, loaded, forgotten>>
      BY <1>6 DEF LookUp
    <2>2. loaded /\ Empty(job[a])  BY <1>1, <1>late, <2>1 DEF Early
    <2>3. PICK dropped \in SUBSET Ids :
           /\ mem' \in View /\ mem'.ids = mem.ids \ dropped /\ Written
           /\ doubt' = doubt \cup (dropped \cap Open)
           /\ AfterRead(a, job[a].rows \cup mem'.ids)
      BY <1>6, LookUpStep
    <2>4. job[a].rows \cup mem'.ids \in SUBSET Ids
      BY <1>1, <2>3, JobFields, ViewFields
    <2>5. PICK j : AfterReading(a, j, job[a].rows \cup mem'.ids)
      BY <1>1, <2>3, <2>4, AfterReadStep
    <2>6. /\ j \in Job /\ Becomes(a, j) /\ Empty(j) /\ job'[a] = j
          /\ \A b \in Actors \ {a} : job'[b] = job[b]
          /\ j.pc \in {"idle", "list", "cancel", "place"}
          /\ j.pc = "place" => job[a].rows = {} /\ mem'.ids = {} /\ a \in Syncs
      BY <2>2, <2>5, BecomesJob DEF AfterReading, Empty, TypeOK
    <2>7. j.late.ids = {}  BY <2>6 DEF Empty, NoView
    <2>8. (NoSlowLoad /\ NothingOld)'
      BY <2>1, <2>2, <2>6, <2>7 DEF Unstacked, NoSlowLoad, NothingOld
    <2>kept. Kept'  BY <2>1, <2>3, <2>6, <1>written, KeptStep
    <2>9. j.pc = "place" => Open' \subseteq doubt'
      BY <2>1, <2>2, <2>6, <2>8, <2>kept, <1>book, PlacesOverNothing
    <2> QED
      BY <2>1, <2>2, <2>3, <2>6, <2>7, <2>9, <2>kept, <1>book, UnstackedStep
  <1>7. CASE CancelAll(a)
    <2>1. job[a].pc = "cancel" /\ UNCHANGED <<target, loaded, forgotten>>
      BY <1>7 DEF CancelAll
    <2>2. /\ loaded /\ Empty(job[a]) /\ job[a].goal = "cancel"
      BY <1>1, <1>late, <2>1 DEF Early, Purpose
    <2>3. PICK accepted \in SUBSET Ids, lost \in SUBSET Ids :
           /\ doubt' = doubt \cup (lost \cap Open) /\ Written
           /\ \A i \in Ids : state'[i] # state[i] => i \in Open
           /\ Becomes(a, NothingToCancel(a)) \/
              Becomes(a, [job[a] EXCEPT !.pc = "settle", !.rows = accepted])
      BY <1>7, CancelAllStep
    <2>4. \E j \in Job : Becomes(a, j) /\ Empty(j) /\ j.pc \in {"idle", "list", "settle"}
      <3>1. CASE Becomes(a, NothingToCancel(a))
        BY <2>2, <3>1, NothingToCancelJob
      <3>2. CASE Becomes(a, [job[a] EXCEPT !.pc = "settle", !.rows = accepted])
        <4> DEFINE j == [job[a] EXCEPT !.pc = "settle", !.rows = accepted]
        <4>1. j \in Job /\ Empty(j) /\ j.pc = "settle"
          BY <1>1, <2>2, <2>3 DEF Job, Steps, Empty
        <4> QED  BY <3>2, <4>1
      <3> QED  BY <2>3, <3>1, <3>2
    <2>5. Open' \subseteq Open  BY <2>3 DEF Open
    <2> QED  BY <2>1, <2>2, <2>3, <2>4, <2>5, <1>written, UnstackedRead
  <1>8. CASE Settle(a)
    <2>1. job[a].pc = "settle" /\ UNCHANGED <<book, loaded, forgotten>>
      BY <1>8 DEF Settle
    <2>2. loaded /\ job[a].goal = "cancel"
      BY <1>1, <1>late, <2>1 DEF Early, Purpose
    <2>3. PICK settled \in SUBSET Ids :
           /\ doubt' = doubt \cup (settled \cap Open) /\ Written
           /\ Becomes(a, AfterCancel(a))
      BY <1>8, SettleStep
    <2>4. \E j \in Job : Becomes(a, j) /\ j.pc = "list" /\ Empty(j)
      BY <2>2, <2>3, SettledJob
    <2> QED  BY <2>1, <2>2, <2>3, <2>4, <1>book, <1>written, UnstackedRead
  <1>9. ASSUME NEW side \in Sides, PostPlaced(a, side) PROVE Unstacked'
    <2>1. Posting(a, side) /\ UNCHANGED <<tracking, ghosts>>  BY <1>9 DEF PostPlaced
    <2>2. PICK i \in Unused, j \in Job :
           /\ Rest(i, side, job[a].ref) /\ Becomes(a, j) /\ Purpose(a, j)
           /\ j.pc = "place" /\ j.late = job[a].late /\ j.acked = job[a].acked \cup {i}
           /\ j.todo = [job[a].todo EXCEPT ![side] = 0]
      BY <1>9, PostPlacedStep
    <2> QED  BY <2>1, <2>2, PostStep
  <1>10. ASSUME NEW i \in Ids, Track(a, i) PROVE Unstacked'
    <2>1. job[a].pc = "place" /\ UNCHANGED <<book, loaded, doubt, forgotten>>
      BY <1>10 DEF Track
    <2>2. loaded /\ job[a].late = NoView
      BY <1>1, <1>late, <2>1 DEF Early, InHand
    <2>3. PICK j \in Job : /\ Written /\ Becomes(a, j)
                           /\ j.pc = "place" /\ j.late = job[a].late
                           /\ j.todo = job[a].todo
      BY <1>10, TrackStep
    <2>4. j.late.ids = {}  BY <2>2, <2>3 DEF NoView
    <2>5. Kept'  BY <2>1, <2>3, <1>written, KeptStep
    <2> QED  BY <2>1, <2>2, <2>3, <2>4, <2>5, <1>book, UnstackedStep
  <1>11. CASE Finish(a)
    <2>1. /\ job[a].pc = "place" /\ UNCHANGED <<book, tracking, ghosts>>
          /\ Becomes(a, Reading("view", NoRef)) \/ Becomes(a, Idle)
      BY <1>11 DEF Finish
    <2>2. \E j \in Job : Becomes(a, j) /\ Empty(j) /\ j.pc \in {"idle", "list"}
      BY <2>1, <1>goals, IdleJob, ReadingJob
    <2> QED  BY <2>1, <2>2, <1>book, <1>kept, UnstackedRead DEF tracking
  <1> QED
    BY <1>3, <1>4, <1>5, <1>6, <1>7, <1>8, <1>9, <1>10, <1>11 DEF SyncStep

LEMMA SyncFaultUnstacked ==
  ASSUME LockedSync, ListingIsCovered, Typed, Informed, Unstacked, NEW a \in Actors, SyncFault(a)
  PROVE  Unstacked'
  <1> USE DEF Typed
  <1>book. UNCHANGED book =>
             /\ target' = target /\ Open' = Open
             /\ \A i \in Ids : state'[i] # state[i] => i \in Open
    BY DEF book, Open
  <1>turned. ASSUME NEW side \in Sides, Posting(a, side),
                    Becomes(a, [job[a] EXCEPT !.todo[side] = @ - 1])
             PROVE  \E j \in Job :
                      /\ Becomes(a, j) /\ Purpose(a, j)
                      /\ j.pc = "place" /\ j.late = job[a].late /\ j.acked = job[a].acked
                      /\ j.todo = [job[a].todo EXCEPT ![side] = @ - 1]
    BY <1>turned, TurnedDownStep
  <1>2. CASE ListFails(a)
    <2>1. Becomes(a, Idle) /\ UNCHANGED <<book, tracking, ghosts>>
      BY <1>2 DEF ListFails
    <2> QED  BY <2>1, <1>book, IdleJob, WrittenKept, UnstackedRead DEF tracking
  <1>3. ASSUME NEW side \in Sides, PostRejected(a, side) PROVE Unstacked'
    <2>1. Posting(a, side) /\ UNCHANGED <<book, tracking, ghosts>>  BY <1>3 DEF PostRejected
    <2>2. PICK j \in Job :
            /\ Becomes(a, j) /\ Purpose(a, j)
            /\ j.pc = "place" /\ j.late = job[a].late /\ j.acked = job[a].acked
            /\ j.todo = [job[a].todo EXCEPT ![side] = @ - 1]
      BY <1>3, <1>turned DEF PostRejected
    <2>3. /\ job'[a] = j /\ \A b \in Actors \ {a} : job'[b] = job[b]
          /\ job[a].todo \in [Sides -> 0..Endpoints] /\ job[a].todo[side] > 0
          /\ job[a].pc = "place" /\ job[a].late = NoView
      BY <2>1, <2>2, BecomesJob, JobFields, InHandFields DEF TypeOK, Posting
    <2>4. Named' /\ NoStacking'
      BY <2>1, <1>book, NamedKept, StackingKept DEF Unstacked
    <2>kept. Kept'  BY <2>1, <2>2, WrittenKept, KeptStep
    <2>5. Seen' /\ NoSlowLoad' /\ NothingOld'
      BY <2>1, <2>2, <2>3, <1>book
         DEF Unstacked, Seen, NoSlowLoad, NothingOld, tracking, NoView, Actors
    <2>6. Spent(j, Open \ doubt, target)
      <3> SUFFICES ASSUME NEW k \in Open \ doubt PROVE j.todo[target[k][1]] = 0
        BY DEF Spent
      <3>1. target[k][1] \in Sides /\ job[a].todo[target[k][1]] = 0
        BY <2>3, NamedSide DEF Unstacked, Clear, Spent
      <3> QED  BY <2>2, <2>3, <3>1
    <2>7. Clear'  BY <2>1, <2>3, <2>6, <1>book DEF Unstacked, Clear
    <2> QED  BY <2>4, <2>5, <2>7, <2>kept DEF Unstacked
  <1>4. ASSUME NEW side \in Sides, PostLost(a, side) PROVE Unstacked'
    <2>1. Posting(a, side) /\ UNCHANGED <<tracking, unsaved, forgotten>>
      BY <1>4 DEF PostLost
    <2>2. PICK j \in Job :
            /\ Becomes(a, j) /\ Purpose(a, j)
            /\ j.pc = "place" /\ j.late = job[a].late /\ j.acked = job[a].acked
            /\ j.todo = [job[a].todo EXCEPT ![side] = @ - 1]
      BY <1>4, <1>turned DEF PostLost
    <2>3. PICK i \in Unused : Rest(i, side, job[a].ref) /\ doubt' = doubt \cup {i}
      BY <1>4 DEF PostLost
    <2> QED  BY <2>1, <2>2, <2>3, PostStep
  <1> QED  BY <1>2, <1>3, <1>4 DEF SyncFault

LEMMA ContinuedUnstacked ==
  ASSUME LockedSync, ListingIsCovered, Typed, Unstacked, Continued,
         target' = target, Open' \subseteq Open,
         Open' \ doubt' \subseteq Open \ doubt,
         \A i \in Ids : state'[i] # state[i] => i \in Open,
         ~loaded' => ~loaded /\ stored' = stored,
         "lag" \in Faults => forgotten' = {},
         "lag" \in Faults /\ "restart" \in Faults => unsaved' = {},
         UNCHANGED <<mem, stored>> \/ Others # {}
  PROVE  Unstacked'
  <1>1. CASE job' = job
    <2>1. Named' /\ NoStacking'  BY NamedKept, StackingKept DEF Unstacked
    <2>2. Seen' /\ NoSlowLoad' /\ NothingOld'
      BY <1>1 DEF Unstacked, Seen, NoSlowLoad, NothingOld
    <2>3. Clear'  BY <1>1, SpentKept DEF Unstacked, Clear
    <2>4. Kept'
      <3>1. CASE UNCHANGED <<mem, stored>>  BY <1>1, <3>1 DEF Unstacked, Kept
      <3>2. CASE Others # {}
        BY <1>1, <3>2 DEF Unstacked, Kept, NoSlowLoad, ListingIsCovered
      <3> QED  BY <3>1, <3>2
    <2> QED  BY <2>1, <2>2, <2>3, <2>4 DEF Unstacked
  <1>2. ASSUME NEW a \in Actors, NEW j \in Job, Becomes(a, j), Empty(j),
               j.pc \in {"anchor", "list"}
        PROVE  Unstacked'
    BY <1>2, UnstackedRead
  <1> QED  BY <1>1, <1>2 DEF Continued

(* Where the listing lags, everything a restart finds is stored.            *)
LEMMA RebootKept ==
  ASSUME Typed, Informed, Unstacked, Rebooted
  PROVE  Kept'
  <1> SUFFICES ASSUME "lag" \in Faults PROVE forgotten' = {}
    BY IdleJob DEF Kept, Rebooted
  <1>1. forgotten = {} /\ unsaved = {}  BY DEF Rebooted, Unstacked, Kept
  <1>2. \A a \in Actors : job[a].late.ids \subseteq stored.ids
    BY DEF Informed, Carried, InHand, Unstacked, Kept, NoView
  <1> QED  BY <1>1, <1>2 DEF Rebooted

LEMMA CommandUnstacked ==
  ASSUME LockedSync, ListingIsCovered, Typed, Informed, Unstacked, Command
  PROVE  Unstacked'
  <1>1. /\ target' = target
        /\ \A i \in Ids : state'[i] # state[i] => i \in Open /\ state'[i] = "gone"
    BY CommandEffect
  <1>2. Open' \subseteq Open  BY <1>1 DEF Open
  <1>kept. UNCHANGED unsaved /\ forgotten' \subseteq forgotten =>
             /\ "lag" \in Faults => forgotten' = {}
             /\ "lag" \in Faults /\ "restart" \in Faults => unsaved' = {}
    BY DEF Unstacked, Kept
  <1>3. CASE UNCHANGED <<tracking, ghosts>> /\ Continued
    BY <1>1, <1>2, <1>3, <1>kept, ContinuedUnstacked DEF tracking
  <1>4. ASSUME NEW i \in Ids, Heard(i) PROVE Unstacked'
    <2>1. /\ UNCHANGED <<tracking, job, unsaved>> /\ i \notin Open'
          /\ doubt' = doubt \ {i} /\ forgotten' \subseteq forgotten
      BY <1>4 DEF Heard
    <2>2. Open' \ doubt' \subseteq Open \ doubt  BY <1>2, <2>1
    <2> QED  BY <1>1, <1>2, <2>1, <2>2, <1>kept, ContinuedUnstacked DEF tracking, Continued
  <1>5. ASSUME NEW a \in Others, NEW i \in Ids, NEW view \in View, Notified(a, i, view),
               Continued
        PROVE  Unstacked'
    <2>1. loaded \/ (mem.ids = {} /\ ("unloaded" \notin Faults \/ stored.ids = {}))
            => forgotten' = forgotten
      BY <1>5, EnsureLoadedStep DEF Notified, Typed
    <2>2. ~loaded => mem.ids = {} /\ ("restart" \notin Faults => stored.ids = {})
      BY DEF Informed, Saved, Unstacked, NothingOld
    <2>3. mem' \in View  BY CommandEffect DEF ListType
    <2>4. "store" \notin Faults /\ unsaved = {} => unsaved' = {}
      BY <1>5, <2>3, SavesStep DEF Notified, Typed
    <2>5. /\ "lag" \in Faults => forgotten' = {}
          /\ "lag" \in Faults /\ "restart" \in Faults => unsaved' = {}
      BY <2>1, <2>2, <2>4 DEF ListingIsCovered, Unstacked, Kept
    <2>6. loaded' = TRUE /\ UNCHANGED <<state, doubt>>  BY <1>5 DEF Notified
    <2> QED  BY <1>1, <1>2, <1>5, <2>5, <2>6, ContinuedUnstacked
  <1>6. CASE Rebooted
    <2>1. Open' \ doubt' \subseteq Open \ doubt  BY <1>2, <1>6 DEF Rebooted
    <2>2. Named' /\ NoStacking'
      BY <1>1, <2>1, NamedKept, StackingKept DEF Unstacked
    <2>3. Seen' /\ NoSlowLoad' /\ NothingOld' /\ Clear'
      BY <1>6, IdleJob DEF Rebooted, Seen, NoSlowLoad, NothingOld, Clear, Spent, Actors
    <2> QED  BY <1>6, <2>2, <2>3, RebootKept DEF Unstacked
  <1> QED  BY <1>3, <1>4, <1>5, <1>6, CommandEffect

LEMMA NextUnstacked ==
  ASSUME LockedSync, ListingIsCovered
  PROVE  Typed /\ Typed' /\ Informed /\ Informed' /\ Unstacked /\ [Next]_vars => Unstacked'
  <1>1. ASSUME Typed, Typed', Informed, Informed', Unstacked, Next  PROVE Unstacked'
    <2>1. ASSUME NEW a \in Actors, SyncStep(a)  PROVE Unstacked'
      BY <1>1, <2>1, SyncStepUnstacked
    <2>2. ASSUME NEW a \in Actors, SyncFault(a)  PROVE Unstacked'
      BY <1>1, <2>2, SyncFaultUnstacked
    <2>3. ASSUME Command  PROVE Unstacked'
      BY <1>1, <2>3, CommandUnstacked
    <2>4. Command \/ \E a \in Actors : SyncStep(a) \/ SyncFault(a)  BY <1>1, NextCases
    <2> QED  BY <2>1, <2>2, <2>3, <2>4
  <1>2. ASSUME Unstacked, UNCHANGED vars  PROVE Unstacked'
    <2> USE <1>2 DEF Unstacked, vars
    <2>1. Open' = Open /\ UNCHANGED <<target, doubt>>  BY DEF Open, ghosts
    <2>2. Named'  BY DEF Named
    <2>3. Seen'  BY <2>1 DEF Seen
    <2>4. NoSlowLoad' /\ NothingOld'  BY DEF NoSlowLoad, NothingOld
    <2>5. Kept'  BY DEF Kept, ghosts
    <2>6. Clear'  BY <2>1 DEF Clear
    <2>7. NoStacking'  BY <2>1 DEF NoStacking
    <2> QED  BY <2>2, <2>3, <2>4, <2>5, <2>6, <2>7
  <1> QED  BY <1>1, <1>2

(* While every ladder sync takes the lock no side of the book ever holds    *)
(* two orders of the ladder, but for those the venue denied or whose answer *)
(* was lost: through look-ups that miss, pauses, refused and slow           *)
(* cancellations and restarts, and through failing reads and writes of the  *)
(* store as long as the venue's listing is complete.  A listing that lags   *)
(* is covered by the tracked orders when restarts meet a store that works   *)
(* and no slow first read of it overlaps another coroutine; without this    *)
(* premise the second ladder is placed.                                     *)
THEOREM NeverStacks == ASSUME LockedSync, ListingIsCovered PROVE Spec => []NoStacking
  <1>1. Unstacked => NoStacking  BY DEF Unstacked
  <1> QED
    BY <1>1, AlwaysTyped, AlwaysInformed, UnstackedInit, NextUnstacked, PTL DEF Spec

=============================================================================
