-------------------------- MODULE LegOrders_proofs --------------------------
(***************************************************************************)
(* Theorems about LegOrders, for any legs of the three kinds of venue, any *)
(* number of rounds and every combination of faults; that a leg keeps its  *)
(* contract is proved where Strails names the trades it takes.             *)
(***************************************************************************)
EXTENDS LegOrders, FiniteSetTheorems, TLAPS

-----------------------------------------------------------------------------
(* What a coroutine, an order and a report are.                            *)

Statuses == {"nothing", "filled", "failed", "pending", "raised"}
Report   == [status : Statuses, ref : 0..MaxOrders]
States   == {"unused", "live", "done", "void"}

LEMMA Constants ==
  /\ MaxOrders \in Nat /\ Tries \in Nat /\ Tries >= 1 /\ NoLeg \notin Legs
  /\ NoId \in 0..MaxOrders /\ NoId \notin Ids /\ Ids \subseteq 0..MaxOrders
  /\ Endpoints = 2 /\ 2 \in 0..Endpoints
  BY OrdersAssumption DEF NoId, Ids, Endpoints

LEMMA Fresh == ASSUME NEW pc \in Pcs PROVE At(pc) \in Call /\ At(pc).pc = pc
  <1> DEFINE r == FALSE
  <1>1. r \in BOOLEAN  OBVIOUS
  <1>2. Tries \in 0..Tries /\ Endpoints \in 0..Endpoints /\ NoId \in 0..MaxOrders
    BY Constants
  <1>3. At(pc) = [pc |-> pc, tries |-> Tries, hosts |-> Endpoints, refused |-> r, ref |-> NoId]
    BY DEF At
  <1> HIDE DEF r
  <1>4. [pc |-> pc, tries |-> Tries, hosts |-> Endpoints, refused |-> r, ref |-> NoId] \in Call
    BY <1>1, <1>2, Zenon DEF Call
  <1>5. At(pc).pc = pc  BY <1>3
  <1> QED  BY <1>3, <1>4, <1>5

(* The ways a coroutine's record changes.                                  *)
LEMMA GotoForm ==
  ASSUME NEW c \in Call, NEW pc \in Pcs
  PROVE  /\ [c EXCEPT !.pc = pc] \in Call /\ [c EXCEPT !.pc = pc].pc = pc
         /\ [c EXCEPT !.pc = pc].tries = c.tries /\ [c EXCEPT !.pc = pc].hosts = c.hosts
  BY Zenon DEF Call

LEMMA RefForm ==
  ASSUME NEW c \in Call, NEW pc \in Pcs, NEW i \in 0..MaxOrders
  PROVE  /\ [c EXCEPT !.pc = pc, !.ref = i] \in Call
         /\ [c EXCEPT !.pc = pc, !.ref = i].pc = pc /\ [c EXCEPT !.pc = pc, !.ref = i].ref = i
  BY Zenon DEF Call

LEMMA HostForm ==
  ASSUME NEW c \in Call, NEW h \in 0..Endpoints, NEW r \in BOOLEAN
  PROVE  /\ [c EXCEPT !.hosts = h, !.refused = r] \in Call
         /\ [c EXCEPT !.hosts = h, !.refused = r].pc = c.pc
         /\ [c EXCEPT !.hosts = h, !.refused = r].tries = c.tries
         /\ [c EXCEPT !.hosts = h, !.refused = r].hosts = h
  BY Zenon DEF Call

-----------------------------------------------------------------------------
(* The inductive invariant.                                                *)

Before == {"ready", "post", "approve", "estimate"}

Bound(l) == IF l \in QuidaxLegs THEN Tries * Endpoints ELSE 1

(* An order belongs to a leg once it is used.                              *)
Used ==
  /\ \A i \in Ids : order[i].leg = NoLeg <=> order[i].state = "unused"
  /\ \A i \in unheard : order[i].state # "unused"

(* Nothing heard of before, and what the rounds so far can have created.   *)
CountedWith(l, c, own, heard) ==
  /\ c.pc \in Before => heard = {}
  /\ c.pc = "ready" => c.tries = Tries /\ c.hosts = 2
  /\ c.pc = "ready" \/ (l \notin QuidaxLegs /\ c.pc \in Before) => own = {}
  /\ l \in QuidaxLegs /\ c.pc = "post" =>
       /\ c.tries >= 1
       /\ Cardinality(own) <= (Tries - c.tries) * 2 + (2 - c.hosts)
  /\ Cardinality(own) <= Bound(l)

Counted(l) == CountedWith(l, call[l], OrdersOf(l), Heard(l))

(* The order a call follows, and a report names, is the leg's only one.    *)
NamedWith(c, r, heard) ==
  /\ c.pc # "reconcile"
  /\ c.pc \in {"fill", "poll", "receipt"} => c.ref \in Ids /\ heard = {c.ref}
  /\ c.pc # "over" => r.status = "nothing" /\ r.ref = NoId
  /\ r.ref # NoId => r.ref \in Ids /\ heard = {r.ref}
  /\ \A i, k \in heard : i = k

Named(l) == NamedWith(call[l], said[l], Heard(l))

OrdersInv ==
  /\ TypeOK /\ Used
  /\ \A l \in Legs : Counted(l)
  /\ "nameless" \notin Faults => \A l \in Legs : Named(l)

-----------------------------------------------------------------------------
(* What a step does to the orders of every leg.                            *)

LEMMA FiniteOrders == \A l : IsFiniteSet(OrdersOf(l))
  <1>1. IsFiniteSet(Ids)  BY Constants, FS_Interval DEF Ids
  <1> QED  BY <1>1, FS_Subset DEF OrdersOf

LEMMA FiniteOrdersNext == \A l : IsFiniteSet(OrdersOf(l)')
  <1>1. IsFiniteSet(Ids)  BY Constants, FS_Interval DEF Ids
  <1> QED  BY <1>1, FS_Subset DEF OrdersOf

LEMMA CountType ==
  /\ \A l : Cardinality(OrdersOf(l)) \in Nat
  /\ \A l : OrdersOf(l) = {} => Cardinality(OrdersOf(l)) = 0
  BY FiniteOrders, FS_CardinalityType, FS_EmptySet

LEMMA Created ==
  ASSUME TypeOK, Used, NEW l \in Legs, NEW i \in Ids, NEW state \in States \ {"unused"},
         Create(l, i, state)
  PROVE  /\ order' \in [Ids -> Order] /\ i \notin unheard
         /\ order'[i].state = state /\ order'[i].leg = l
         /\ OrdersOf(l)' = OrdersOf(l) \cup {i} /\ i \notin OrdersOf(l)
         /\ Cardinality(OrdersOf(l)') = Cardinality(OrdersOf(l)) + 1
         /\ \A k \in Legs : k # l => OrdersOf(k)' = OrdersOf(k) /\ i \notin OrdersOf(k)
         /\ \A k \in Ids : k # i => order'[k] = order[k]
         /\ \A U \in {unheard, (unheard \cup {i})} :
              unheard' = U => Used'
  <1> DEFINE o == [leg |-> l, state |-> state]
  <1>1. order[i].state = "unused" /\ order' = [order EXCEPT ![i] = o]  BY DEF Create
  <1>2. o \in Order /\ o.state = state /\ o.leg = l  BY DEF Order, States
  <1> HIDE DEF o
  <1>3. order \in [Ids -> Order]  BY DEF TypeOK
  <1>4. order' \in [Ids -> Order] /\ order'[i] = o /\ \A k \in Ids : k # i => order'[k] = order[k]
    BY <1>1, <1>2, <1>3
  <1>5. order[i].leg = NoLeg /\ i \notin unheard  BY <1>1 DEF Used
  <1>6. \A k \in Legs : i \notin OrdersOf(k)  BY <1>5, Constants DEF OrdersOf
  <1>7. OrdersOf(l)' = OrdersOf(l) \cup {i}  BY <1>2, <1>4 DEF OrdersOf
  <1>8. \A k \in Legs : k # l => OrdersOf(k)' = OrdersOf(k)
    <2>1. SUFFICES ASSUME NEW k \in Legs, k # l, NEW j \in Ids
                   PROVE  order'[j].leg = k <=> order[j].leg = k
      BY DEF OrdersOf
    <2>2. CASE j = i  BY <1>2, <1>4, <1>5, <2>1, <2>2, Constants
    <2>3. CASE j # i  BY <1>4, <2>3
    <2> QED  BY <2>2, <2>3
  <1>9. Cardinality(OrdersOf(l)') = Cardinality(OrdersOf(l)) + 1
    BY <1>6, <1>7, FiniteOrders, FS_AddElement
  <1>10. ASSUME unheard' = unheard \/ unheard' = (unheard \cup {i}) PROVE Used'
    <2>1. \A k \in Ids : order'[k].leg = NoLeg <=> order'[k].state = "unused"
      BY <1>2, <1>4, Constants DEF Used
    <2>2. \A k \in unheard' : order'[k].state # "unused"
      <3>1. TAKE k \in unheard'
      <3>2. CASE k = i  BY <1>2, <1>4, <3>2
      <3>3. CASE k # i
        <4>1. k \in unheard /\ k \in Ids  BY <1>10, <3>3 DEF TypeOK
        <4> QED  BY <1>4, <3>3, <4>1 DEF Used
      <3> QED  BY <3>2, <3>3
    <2> QED  BY <2>1, <2>2 DEF Used
  <1> QED  BY <1>2, <1>4, <1>5, <1>6, <1>7, <1>8, <1>9, <1>10

LEMMA LegStep ==
  ASSUME OrdersInv, NEW l \in Legs, NEW c \in Call, NEW r \in Report,
         call' = [call EXCEPT ![l] = c], said' = [said EXCEPT ![l] = r],
         listed' = listed, approval' \in {"none", "sent", "mined"}, cached' \in BOOLEAN,
         order' \in [Ids -> Order], unheard' \subseteq Ids, Used',
         \A k \in Legs : k # l => OrdersOf(k)' = OrdersOf(k) /\ Heard(k)' = Heard(k),
         CountedWith(l, c, OrdersOf(l)', Heard(l)'),
         "nameless" \notin Faults => NamedWith(c, r, Heard(l)')
  PROVE  OrdersInv'
  <1>1. TypeOK  BY DEF OrdersInv
  <1>2. /\ call' \in [Legs -> Call] /\ call'[l] = c /\ \A k \in Legs : k # l => call'[k] = call[k]
        /\ said' \in [Legs -> Report] /\ said'[l] = r /\ \A k \in Legs : k # l => said'[k] = said[k]
    BY <1>1 DEF TypeOK, Report, Statuses
  <1>3. TypeOK'  BY <1>1, <1>2 DEF TypeOK, Report, Statuses
  <1>4. \A k \in Legs : Counted(k)'
    <2>1. SUFFICES ASSUME NEW k \in Legs PROVE Counted(k)'  OBVIOUS
    <2>2. CASE k = l  BY <1>2, <2>2 DEF Counted
    <2>3. CASE k # l
      <3>1. Counted(k)  BY DEF OrdersInv
      <3> QED  BY <1>2, <2>3, <3>1 DEF Counted
    <2> QED  BY <2>2, <2>3
  <1>5. "nameless" \notin Faults => \A k \in Legs : Named(k)'
    <2>1. SUFFICES ASSUME "nameless" \notin Faults, NEW k \in Legs PROVE Named(k)'  OBVIOUS
    <2>2. CASE k = l  BY <1>2, <2>1, <2>2 DEF Named
    <2>3. CASE k # l
      <3>1. Named(k)  BY <2>1 DEF OrdersInv
      <3>2. call'[k] = call[k] /\ said'[k] = said[k] /\ Heard(k)' = Heard(k)  BY <1>2, <2>3
      <3> QED  BY <3>1, <3>2 DEF Named, NamedWith
    <2> QED  BY <2>2, <2>3
  <1> QED  BY <1>3, <1>4, <1>5 DEF OrdersInv

(* A step that creates no order.                                           *)
LEMMA QuietStep ==
  ASSUME OrdersInv, NEW l \in Legs, NEW c \in Call, NEW r \in Report,
         call' = [call EXCEPT ![l] = c], said' = [said EXCEPT ![l] = r],
         UNCHANGED <<order, listed, unheard>>,
         approval' \in {"none", "sent", "mined"}, cached' \in BOOLEAN,
         CountedWith(l, c, OrdersOf(l), Heard(l)),
         "nameless" \notin Faults => NamedWith(c, r, Heard(l))
  PROVE  OrdersInv'
  <1>1. \A k : OrdersOf(k)' = OrdersOf(k) /\ Heard(k)' = Heard(k)  BY DEF OrdersOf, Heard
  <1>2. order' \in [Ids -> Order] /\ unheard' \subseteq Ids /\ Used'
    BY DEF OrdersInv, TypeOK, Used
  <1>3. CountedWith(l, c, OrdersOf(l)', Heard(l)')  BY <1>1
  <1>4. "nameless" \notin Faults => NamedWith(c, r, Heard(l)')  BY <1>1
  <1> QED  BY <1>1, <1>2, <1>3, <1>4, LegStep

(* A step that creates an order, heard of or not.                          *)
LEMMA CreatingStep ==
  ASSUME OrdersInv, NEW l \in Legs, NEW i \in Ids, NEW state \in States \ {"unused"},
         Create(l, i, state), NEW heard \in BOOLEAN,
         unheard' = IF heard THEN unheard ELSE (unheard \cup {i}),
         NEW c \in Call, NEW r \in Report,
         call' = [call EXCEPT ![l] = c], said' = [said EXCEPT ![l] = r],
         UNCHANGED <<listed, approval, cached>>,
         Heard(l) = {},
         CountedWith(l, c, OrdersOf(l)', IF heard THEN {i} ELSE {}),
         "nameless" \notin Faults => NamedWith(c, r, IF heard THEN {i} ELSE {})
  PROVE  OrdersInv'
  <1>1. TypeOK /\ Used  BY DEF OrdersInv
  <1>2. /\ order' \in [Ids -> Order] /\ i \notin unheard
        /\ OrdersOf(l)' = OrdersOf(l) \cup {i} /\ i \notin OrdersOf(l)
        /\ \A k \in Legs : k # l => OrdersOf(k)' = OrdersOf(k) /\ i \notin OrdersOf(k)
        /\ \A k \in Ids : k # i => order'[k] = order[k]
        /\ \A U \in {unheard, (unheard \cup {i})} : unheard' = U => Used'
    BY <1>1, Created
  <1>3. Used' /\ unheard' \subseteq Ids
    <2>1. unheard' \in {unheard, (unheard \cup {i})}  OBVIOUS
    <2> QED  BY <1>1, <1>2, <2>1 DEF TypeOK
  <1>4. Heard(l)' = IF heard THEN {i} ELSE {}  BY <1>2 DEF Heard
  <1>5. \A k \in Legs : k # l => OrdersOf(k)' = OrdersOf(k) /\ Heard(k)' = Heard(k)
    BY <1>2 DEF Heard
  <1>6. approval' \in {"none", "sent", "mined"} /\ cached' \in BOOLEAN /\ listed' = listed
    BY <1>1 DEF TypeOK
  <1>7. CountedWith(l, c, OrdersOf(l)', Heard(l)')  BY <1>4
  <1>8. "nameless" \notin Faults => NamedWith(c, r, Heard(l)')  BY <1>4
  <1> QED  BY <1>2, <1>3, <1>5, <1>6, <1>7, <1>8, LegStep

(* The end of a call.                                                      *)
LEMMA SayStep ==
  ASSUME OrdersInv, NEW l \in Legs, NEW status \in Statuses, NEW i \in 0..MaxOrders,
         Say(l, status, i), UNCHANGED <<order, listed, unheard, approval, cached>>,
         "nameless" \notin Faults /\ i # NoId => i \in Ids /\ Heard(l) = {i}
  PROVE  OrdersInv'
  <1> DEFINE c == At("over")
             r == [status |-> status, ref |-> i]
  <1>1. c \in Call /\ c.pc = "over"  BY Fresh DEF Pcs
  <1>2. r \in Report /\ r.ref = i  BY DEF Report
  <1>3. call' = [call EXCEPT ![l] = c] /\ said' = [said EXCEPT ![l] = r]  BY DEF Say
  <1> HIDE DEF c, r
  <1>4. CountedWith(l, c, OrdersOf(l), Heard(l))
    <2>1. Counted(l)  BY DEF OrdersInv
    <2> QED  BY <1>1, <2>1 DEF Counted, CountedWith, Before
  <1>5. "nameless" \notin Faults => NamedWith(c, r, Heard(l))
    <2>1. "nameless" \notin Faults => Named(l)  BY DEF OrdersInv
    <2> QED  BY <1>1, <1>2, <2>1 DEF Named, NamedWith
  <1>6. approval' \in {"none", "sent", "mined"} /\ cached' \in BOOLEAN
    BY DEF OrdersInv, TypeOK
  <1> QED  BY <1>1, <1>2, <1>3, <1>4, <1>5, <1>6, QuietStep

LEMMA SayAlertingStep ==
  ASSUME OrdersInv, NEW l \in Legs, NEW status \in Statuses, NEW i \in 0..MaxOrders,
         SayAlerting(l, status, i), UNCHANGED <<order, listed, unheard, approval, cached>>,
         "nameless" \notin Faults /\ i # NoId => i \in Ids /\ Heard(l) = {i}
  PROVE  OrdersInv'
  <1>1. CASE Say(l, status, i)  BY <1>1, SayStep
  <1>2. CASE Say(l, "raised", NoId)
    <2>1. "raised" \in Statuses /\ NoId \in 0..MaxOrders  BY Constants DEF Statuses
    <2> QED  BY <1>2, <2>1, SayStep
  <1> QED  BY <1>1, <1>2 DEF SayAlerting

LEMMA Parts ==
  ASSUME OrdersInv, NEW l \in Legs
  PROVE  /\ call[l] \in Call /\ said[l] \in Report /\ said = [said EXCEPT ![l] = said[l]]
         /\ call[l].pc \in Pcs /\ call[l].tries \in 0..Tries /\ call[l].hosts \in 0..Endpoints
         /\ call[l].refused \in BOOLEAN /\ call[l].ref \in 0..MaxOrders
         /\ Counted(l) /\ ("nameless" \notin Faults => Named(l))
         /\ Cardinality(OrdersOf(l)) \in Nat
  <1>1. /\ call[l] \in Call /\ said[l] \in Report /\ said = [said EXCEPT ![l] = said[l]]
    BY DEF OrdersInv, TypeOK, Report, Statuses
  <1>2. /\ call[l].pc \in Pcs /\ call[l].tries \in 0..Tries /\ call[l].hosts \in 0..Endpoints
        /\ call[l].ref \in 0..MaxOrders
    BY <1>1 DEF Call
  <1>3. call[l].refused \in BOOLEAN  BY <1>1, Zenon DEF Call
  <1>4. Counted(l) /\ ("nameless" \notin Faults => Named(l))  BY DEF OrdersInv
  <1> QED  BY <1>1, <1>2, <1>3, <1>4, CountType

(* Where a call goes on without an order of its own.                       *)
LEMMA GotoStep ==
  ASSUME OrdersInv, NEW l \in Legs, NEW pc \in {"post", "approve", "estimate"},
         call[l].pc \in Before, Goto(l, pc),
         l \in QuidaxLegs => call[l].pc = "ready",
         UNCHANGED <<order, listed, unheard, said>>,
         approval' \in {"none", "sent", "mined"}, cached' \in BOOLEAN
  PROVE  OrdersInv'
  <1> DEFINE c == [call[l] EXCEPT !.pc = pc]
  <1>1. pc \in Pcs  BY DEF Pcs
  <1>2. /\ c \in Call /\ c.pc = pc /\ c.tries = call[l].tries /\ c.hosts = call[l].hosts
    BY <1>1, Parts, GotoForm
  <1>3. call' = [call EXCEPT ![l] = c]  BY DEF Goto
  <1>4. said' = [said EXCEPT ![l] = said[l]] /\ said[l] \in Report  BY Parts
  <1> HIDE DEF c
  <1>5. Heard(l) = {} /\ OrdersOf(l) = {} /\ Cardinality(OrdersOf(l)) = 0
    BY Parts, CountType DEF Counted, CountedWith, Before
  <1>6. l \in QuidaxLegs => c.tries = Tries /\ c.hosts = 2
    BY <1>2, Parts DEF Counted, CountedWith
  <1>7. CountedWith(l, c, OrdersOf(l), Heard(l))
    BY <1>2, <1>5, <1>6, Constants DEF CountedWith, Bound, Before
  <1>8. "nameless" \notin Faults => NamedWith(c, said[l], Heard(l))
    BY <1>2, <1>5, Parts DEF Named, NamedWith, Before
  <1> QED  BY <1>2, <1>3, <1>4, <1>7, <1>8, QuietStep

-----------------------------------------------------------------------------
(* The steps of the calls.                                                 *)

LEMMA StepStart == ASSUME OrdersInv, NEW l \in Legs, Start(l) PROVE OrdersInv'
  <1>1. /\ call[l].pc = "ready" /\ (Goto(l, "approve") \/ Goto(l, "post"))
        /\ UNCHANGED <<order, listed, unheard, said, approval, cached>>
    BY DEF Start, world, allowance
  <1>2. approval' \in {"none", "sent", "mined"} /\ cached' \in BOOLEAN
    BY <1>1 DEF OrdersInv, TypeOK
  <1> QED  BY <1>1, <1>2, GotoStep DEF Before

LEMMA StepApprove == ASSUME OrdersInv, NEW l \in Legs, Approve(l) PROVE OrdersInv'
  <1>1. /\ l \in ChainLegs /\ call[l].pc = "approve" /\ Goto(l, "estimate")
        /\ UNCHANGED <<order, listed, unheard, said>>
    BY DEF Approve, world
  <1>2. approval' \in {"none", "sent", "mined"}
    BY DEF Approve, OrdersInv, TypeOK
  <1>3. cached' \in BOOLEAN
    <2>1. TRUE \in BOOLEAN /\ FALSE \in BOOLEAN  OBVIOUS
    <2>2. cached' = TRUE \/ cached' = FALSE  BY DEF Approve
    <2> QED  BY <2>1, <2>2
  <1>4. l \notin QuidaxLegs  BY <1>1, OrdersAssumption
  <1> QED  BY <1>1, <1>2, <1>3, <1>4, GotoStep DEF Before

LEMMA StepNotAccepted == ASSUME OrdersInv, NEW l \in Legs, NotAccepted(l) PROVE OrdersInv'
  <1>1. /\ l \in QuidaxLegs /\ call[l].pc = "post" /\ call[l].hosts > 0
        /\ UNCHANGED <<order, listed, unheard, said, approval, cached>>
    BY DEF NotAccepted, Posting, world, allowance
  <1>2. PICK refused \in BOOLEAN : NextHost(l, refused)  BY DEF NotAccepted
  <1> DEFINE h == call[l].hosts - 1
             c == [call[l] EXCEPT !.hosts = h, !.refused = refused]
  <1>3. h \in 0..Endpoints /\ call[l] \in Call
    <2>1. call[l].hosts \in 0..2 /\ call[l] \in Call  BY Parts, Constants
    <2> QED  BY <1>1, <2>1, Constants
  <1>4. c \in Call /\ c.pc = "post" /\ c.tries = call[l].tries /\ c.hosts = h
    <2>1. PICK k \in Call : k = call[l]  BY <1>3
    <2>2. PICK u \in 0..Endpoints : u = h  BY <1>3
    <2> DEFINE d == [k EXCEPT !.hosts = u, !.refused = refused]
    <2>3. d \in Call /\ d.pc = k.pc /\ d.tries = k.tries /\ d.hosts = u
      BY HostForm, Zenon
    <2>4. c = d  BY <2>1, <2>2
    <2> HIDE DEF c, d, h
    <2> QED  BY <1>1, <2>1, <2>2, <2>3, <2>4
  <1>5. call' = [call EXCEPT ![l] = c]  BY <1>2 DEF NextHost
  <1>6. said' = [said EXCEPT ![l] = said[l]] /\ said[l] \in Report  BY <1>1, Parts
  <1> HIDE DEF c
  <1>7. CountedWith(l, c, OrdersOf(l), Heard(l))
    BY <1>1, <1>4, Parts, Constants DEF Counted, CountedWith, Before
  <1>8. "nameless" \notin Faults => NamedWith(c, said[l], Heard(l))
    BY <1>1, <1>4, Parts DEF Named, NamedWith
  <1>9. approval' \in {"none", "sent", "mined"} /\ cached' \in BOOLEAN
    BY <1>1 DEF OrdersInv, TypeOK
  <1> QED  BY <1>1, <1>4, <1>5, <1>6, <1>7, <1>8, <1>9, QuietStep

LEMMA StepEndRound == ASSUME OrdersInv, NEW l \in Legs, EndRound(l) PROVE OrdersInv'
  <1>1. /\ l \in QuidaxLegs /\ call[l].pc = "post" /\ call[l].hosts = 0
        /\ UNCHANGED <<order, listed, unheard, approval, cached>>
    BY DEF EndRound, world, allowance
  <1>2. "failed" \in Statuses /\ NoId \in 0..MaxOrders  BY Constants DEF Statuses
  <1>3. CASE Say(l, "failed", NoId)  BY <1>1, <1>2, <1>3, SayStep
  <1>4. CASE SayAlerting(l, "failed", NoId)  BY <1>1, <1>2, <1>4, SayAlertingStep
  <1>5. CASE /\ call[l].tries # 1 /\ said' = said
             /\ call' = [call EXCEPT ![l].tries = @ - 1, ![l].hosts = Endpoints]
    <2> DEFINE t == call[l].tries - 1
               c == [call[l] EXCEPT !.tries = t, !.hosts = Endpoints]
    <2>1. call[l].tries >= 1 /\ call[l].tries \in Int
      BY <1>1, Parts, Constants DEF Counted, CountedWith
    <2>2. t \in 0..Tries /\ t >= 1 /\ Endpoints \in 0..Endpoints  BY <1>5, <2>1, Parts, Constants
    <2>3. c \in Call /\ c.pc = "post" /\ c.tries = t /\ c.hosts = Endpoints
      <3>1. call[l] \in Call  BY Parts
      <3>2. PICK k \in Call : k = call[l]  BY <3>1
      <3>3. PICK u \in 0..Tries : u = t  BY <2>2
      <3>4. PICK h \in 0..Endpoints : h = Endpoints  BY Constants
      <3> DEFINE d == [k EXCEPT !.tries = u, !.hosts = h]
      <3>5. d \in Call /\ d.pc = k.pc /\ d.tries = u /\ d.hosts = h
        BY Zenon DEF Call
      <3>6. c = d  BY <3>2, <3>3, <3>4
      <3> HIDE DEF c, d, t
      <3> QED  BY <1>1, <3>2, <3>3, <3>4, <3>5, <3>6
    <2>4. call' = [call EXCEPT ![l] = c]  BY <1>5
    <2>5. said' = [said EXCEPT ![l] = said[l]] /\ said[l] \in Report  BY <1>5, Parts
    <2> HIDE DEF c
    <2>6. CountedWith(l, c, OrdersOf(l), Heard(l))
      BY <1>1, <2>1, <2>2, <2>3, Parts, Constants DEF Counted, CountedWith, Before
    <2>7. "nameless" \notin Faults => NamedWith(c, said[l], Heard(l))
      BY <1>1, <2>3, Parts DEF Named, NamedWith
    <2>8. approval' \in {"none", "sent", "mined"} /\ cached' \in BOOLEAN
      BY <1>1 DEF OrdersInv, TypeOK
    <2> QED  BY <1>1, <2>3, <2>4, <2>5, <2>6, <2>7, <2>8, QuietStep
  <1> QED  BY <1>3, <1>4, <1>5 DEF EndRound

LEMMA StepSays ==
  ASSUME OrdersInv, NEW l \in Legs,
         Fill(l) \/ TradeEnds(l) \/ GiveUp(l) \/ Receipt(l)
  PROVE  OrdersInv'
  <1> USE DEF world, allowance
  <1>1. Statuses = {"nothing", "filled", "failed", "pending", "raised"} /\ NoId \in 0..MaxOrders
    BY Constants DEF Statuses
  <1>2. call[l].ref \in 0..MaxOrders  BY Parts
  <1>3. call[l].pc \in {"poll", "receipt"} /\ "nameless" \notin Faults =>
          call[l].ref \in Ids /\ Heard(l) = {call[l].ref}
    BY Parts DEF Named, NamedWith
  <1>4. CASE Fill(l)  BY <1>1, <1>4, SayAlertingStep DEF Fill
  <1>5. CASE TradeEnds(l)
    <2>1. PICK status \in RowReports(call[l].ref) : Say(l, status, call[l].ref)
      BY <1>5 DEF TradeEnds
    <2>2. status \in Statuses  BY <1>1, <2>1 DEF RowReports
    <2> QED  BY <1>2, <1>3, <1>5, <2>1, <2>2, SayStep DEF TradeEnds
  <1>6. CASE GiveUp(l)  BY <1>1, <1>2, <1>3, <1>6, SayAlertingStep DEF GiveUp
  <1>7. CASE Receipt(l)
    <2>1. \E status \in {"filled", "failed", "pending"} : Say(l, status, call[l].ref)
      BY <1>7 DEF Receipt
    <2> QED  BY <1>1, <1>2, <1>3, <1>7, <2>1, SayStep DEF Receipt
  <1> QED  BY <1>4, <1>5, <1>6, <1>7

LEMMA StepReconcile == ASSUME OrdersInv, NEW l \in Legs, Reconcile(l) PROVE OrdersInv'
  <1>1. /\ call[l].pc = "reconcile" /\ l \in StrailsLegs
        /\ UNCHANGED <<order, listed, unheard, approval, cached>>
    BY DEF Reconcile, world, allowance
  <1>2. CASE SayAlerting(l, "pending", NoId)
    <2>1. "pending" \in Statuses /\ NoId \in 0..MaxOrders  BY Constants DEF Statuses
    <2> QED  BY <1>1, <1>2, <2>1, SayAlertingStep
  <1>3. ASSUME NEW i \in Newest, GotoWith(l, "poll", i), said' = said PROVE OrdersInv'
    <2> DEFINE c == [call[l] EXCEPT !.pc = "poll", !.ref = i]
    <2>1. i \in Ids /\ i \in 0..MaxOrders /\ "poll" \in Pcs
      BY Constants DEF Newest, OrdersInv, TypeOK, Pcs
    <2>2. c \in Call /\ c.pc = "poll"
      <3>1. call[l] \in Call  BY Parts
      <3> QED  BY <2>1, <3>1, RefForm, Zenon
    <2>3. call' = [call EXCEPT ![l] = c]  BY <1>3 DEF GotoWith
    <2>4. said' = [said EXCEPT ![l] = said[l]] /\ said[l] \in Report  BY <1>3, Parts
    <2> HIDE DEF c
    <2>5. CountedWith(l, c, OrdersOf(l), Heard(l))
      BY <2>2, Parts DEF Counted, CountedWith, Before
    <2>6. "nameless" \in Faults  BY <1>1, Parts DEF Named, NamedWith
    <2>7. approval' \in {"none", "sent", "mined"} /\ cached' \in BOOLEAN
      BY <1>1 DEF OrdersInv, TypeOK
    <2> QED  BY <1>1, <2>2, <2>3, <2>4, <2>5, <2>6, <2>7, QuietStep
  <1> QED  BY <1>2, <1>3 DEF Reconcile

-----------------------------------------------------------------------------
(* The steps that create orders.                                           *)

(* Where an order is created, no order was heard of, and the count has room *)
(* for another.                                                            *)
LEMMA Room ==
  ASSUME OrdersInv, NEW l \in Legs, NEW i \in Ids, NEW state \in States \ {"unused"},
         Create(l, i, state), call[l].pc \in {"post", "estimate"},
         l \in QuidaxLegs => call[l].pc = "post" /\ call[l].hosts > 0
  PROVE  /\ Heard(l) = {} /\ Cardinality(OrdersOf(l)') <= Bound(l)
         /\ l \in QuidaxLegs =>
              /\ call[l].tries >= 1
              /\ Cardinality(OrdersOf(l)') <= (Tries - call[l].tries) * 2 + (2 - call[l].hosts) + 1
         /\ order'[i].state = state
  <1>1. Cardinality(OrdersOf(l)') = Cardinality(OrdersOf(l)) + 1 /\ order'[i].state = state
    BY Created DEF OrdersInv
  <1>2. Heard(l) = {}  BY Parts DEF Counted, CountedWith, Before
  <1>3. l \in QuidaxLegs =>
          /\ call[l].tries >= 1
          /\ Cardinality(OrdersOf(l)) <= (Tries - call[l].tries) * 2 + (2 - call[l].hosts)
    BY Parts DEF Counted, CountedWith
  <1>4. l \notin QuidaxLegs => Cardinality(OrdersOf(l)) = 0
    BY Parts, CountType DEF Counted, CountedWith, Before
  <1>5. /\ Cardinality(OrdersOf(l)) \in Int /\ call[l].tries \in Int /\ call[l].hosts \in Int
        /\ Tries \in Int /\ call[l].tries <= Tries
    BY Parts, Constants
  <1>6. l \in QuidaxLegs =>
          Cardinality(OrdersOf(l)') <= (Tries - call[l].tries) * 2 + (2 - call[l].hosts) + 1
    BY <1>1, <1>3, <1>5
  <1>7. l \in QuidaxLegs => Cardinality(OrdersOf(l)') <= Tries * 2
    BY <1>1, <1>3, <1>5, <1>6
  <1>8. Cardinality(OrdersOf(l)') <= Bound(l)
    BY <1>1, <1>4, <1>7, Constants DEF Bound
  <1> QED  BY <1>1, <1>2, <1>3, <1>6, <1>8

LEMMA StepAccepted == ASSUME OrdersInv, NEW l \in Legs, Accepted(l) PROVE OrdersInv'
  <1>1. PICK i \in Ids : Create(l, i, "live") /\ GotoWith(l, "fill", i)  BY DEF Accepted
  <1>2. /\ l \in QuidaxLegs /\ call[l].pc = "post" /\ call[l].hosts > 0
        /\ UNCHANGED <<said, listed, approval, cached, unheard>>
    BY DEF Accepted, Posting, allowance
  <1> DEFINE c == [call[l] EXCEPT !.pc = "fill", !.ref = i]
  <1>3. c \in Call /\ c.pc = "fill" /\ c.ref = i
    <2>1. call[l] \in Call /\ i \in 0..MaxOrders /\ "fill" \in Pcs  BY Parts, Constants DEF Pcs
    <2>2. PICK k \in Call : k = call[l]  BY <2>1
    <2>3. PICK j \in 0..MaxOrders : j = i  BY <2>1
    <2> DEFINE d == [k EXCEPT !.pc = "fill", !.ref = j]
    <2>4. d \in Call /\ d.pc = "fill" /\ d.ref = j  BY <2>1, Zenon DEF Call
    <2>5. c = d  BY <2>2, <2>3
    <2> HIDE DEF c, d
    <2> QED  BY <2>3, <2>4, <2>5
  <1>4. call' = [call EXCEPT ![l] = c]  BY <1>1 DEF GotoWith
  <1>5. said' = [said EXCEPT ![l] = said[l]] /\ said[l] \in Report  BY <1>2, Parts
  <1> HIDE DEF c
  <1>6. "live" \in States \ {"unused"}  BY DEF States
  <1>7. Heard(l) = {} /\ Cardinality(OrdersOf(l)') <= Bound(l)
    BY <1>1, <1>2, <1>6, Room
  <1>8. CountedWith(l, c, OrdersOf(l)', {i})
    BY <1>3, <1>7 DEF CountedWith, Before
  <1>9. "nameless" \notin Faults => NamedWith(c, said[l], {i})
    BY <1>2, <1>3, <1>7, Parts DEF Named, NamedWith
  <1> DEFINE heard == TRUE
  <1>10. heard \in BOOLEAN  OBVIOUS
  <1>11. /\ unheard' = (IF heard THEN unheard ELSE (unheard \cup {i}))
         /\ CountedWith(l, c, OrdersOf(l)', IF heard THEN {i} ELSE {})
         /\ "nameless" \notin Faults => NamedWith(c, said[l], IF heard THEN {i} ELSE {})
    BY <1>2, <1>8, <1>9
  <1> HIDE DEF heard
  <1> QED  BY <1>1, <1>2, <1>3, <1>4, <1>5, <1>6, <1>7, <1>10, <1>11, CreatingStep

(* An order nobody heard of, and the call that goes on or ends.            *)
LEMMA UnheardStep ==
  ASSUME OrdersInv, NEW l \in Legs, NEW i \in Ids, NEW state \in States \ {"unused"},
         Create(l, i, state), unheard' = unheard \cup {i},
         NEW c \in Call, NEW r \in Report,
         call' = [call EXCEPT ![l] = c], said' = [said EXCEPT ![l] = r],
         UNCHANGED <<listed, approval, cached>>,
         Heard(l) = {}, CountedWith(l, c, OrdersOf(l)', {}),
         "nameless" \notin Faults => NamedWith(c, r, {})
  PROVE  OrdersInv'
  <1> DEFINE heard == FALSE
  <1>1. heard \in BOOLEAN  OBVIOUS
  <1>2. /\ unheard' = (IF heard THEN unheard ELSE (unheard \cup {i}))
        /\ CountedWith(l, c, OrdersOf(l)', IF heard THEN {i} ELSE {})
        /\ "nameless" \notin Faults => NamedWith(c, r, IF heard THEN {i} ELSE {})
    OBVIOUS
  <1> HIDE DEF heard
  <1> QED  BY <1>1, <1>2, CreatingStep

LEMMA StepAcceptedUnheard == ASSUME OrdersInv, NEW l \in Legs, AcceptedUnheard(l) PROVE OrdersInv'
  <1>1. PICK i \in Ids : Create(l, i, "live") /\ unheard' = unheard \cup {i}
    BY DEF AcceptedUnheard, CreateUnheard
  <1>2. /\ l \in QuidaxLegs /\ call[l].pc = "post" /\ call[l].hosts > 0
        /\ NextHost(l, FALSE) /\ UNCHANGED <<said, listed, approval, cached>>
    BY DEF AcceptedUnheard, Posting, allowance
  <1>3. PICK k \in Call : k = call[l]  BY Parts
  <1>4. k.hosts \in 1..2 /\ k.tries \in 0..Tries /\ k.pc = "post"  BY <1>2, <1>3, Parts, Constants
  <1>5. PICK h \in 0..Endpoints : h = k.hosts - 1  BY <1>4, Constants
  <1>6. PICK r \in BOOLEAN : r = FALSE  OBVIOUS
  <1> DEFINE c == [k EXCEPT !.hosts = h, !.refused = r]
  <1>7. c \in Call /\ c.pc = k.pc /\ c.tries = k.tries /\ c.hosts = h
    BY HostForm, ZenonT(40)
  <1>8. call' = [call EXCEPT ![l] = c]  BY <1>2, <1>3, <1>5, <1>6 DEF NextHost
  <1> HIDE DEF c
  <1>9. said' = [said EXCEPT ![l] = said[l]] /\ said[l] \in Report  BY <1>2, Parts
  <1>10. "live" \in States \ {"unused"}  BY DEF States
  <1>11. /\ Heard(l) = {} /\ Cardinality(OrdersOf(l)') <= Bound(l) /\ k.tries >= 1
         /\ Cardinality(OrdersOf(l)') <= (Tries - k.tries) * 2 + (2 - k.hosts) + 1
    BY <1>1, <1>2, <1>3, <1>10, Room
  <1>12. Cardinality(OrdersOf(l)') \in Int
    BY FiniteOrdersNext, FS_CardinalityType
  <1>13. CountedWith(l, c, OrdersOf(l)', {})
    <2>1. (2 - k.hosts) + 1 = 2 - h  BY <1>4, <1>5
    <2>2. Cardinality(OrdersOf(l)') <= (Tries - c.tries) * 2 + (2 - c.hosts)
      BY <1>4, <1>7, <1>11, <1>12, <2>1, Constants
    <2> QED  BY <1>2, <1>4, <1>7, <1>11, <2>2 DEF CountedWith, Before
  <1>14. "nameless" \notin Faults => NamedWith(c, said[l], {})
    BY <1>3, <1>4, <1>7, Parts DEF Named, NamedWith
  <1> QED  BY <1>1, <1>2, <1>7, <1>8, <1>9, <1>10, <1>11, <1>13, <1>14, UnheardStep

(* A call that ends although an order exists.                              *)
LEMMA LostStep ==
  ASSUME OrdersInv, NEW l \in Legs, CreateUnheard(l), call[l].pc \in {"post", "estimate"},
         l \in QuidaxLegs => call[l].pc = "post" /\ call[l].hosts > 0,
         Say(l, "failed", NoId), UNCHANGED <<listed, approval, cached>>
  PROVE  OrdersInv'
  <1> DEFINE c == At("over")
             r == [status |-> "failed", ref |-> NoId]
  <1>1. c \in Call /\ c.pc = "over"  BY Fresh DEF Pcs
  <1>2. r \in Report /\ r.ref = NoId  BY Constants DEF Report, Statuses
  <1>3. call' = [call EXCEPT ![l] = c] /\ said' = [said EXCEPT ![l] = r]  BY DEF Say
  <1> HIDE DEF c, r
  <1>0. PICK i \in Ids : Create(l, i, "live") /\ unheard' = unheard \cup {i}
    BY DEF CreateUnheard
  <1>4. "live" \in States \ {"unused"}  BY DEF States
  <1>5. Heard(l) = {} /\ Cardinality(OrdersOf(l)') <= Bound(l)  BY <1>0, <1>4, Room
  <1>6. CountedWith(l, c, OrdersOf(l)', {})  BY <1>1, <1>5 DEF CountedWith, Before
  <1>7. NamedWith(c, r, {})  BY <1>1, <1>2 DEF NamedWith
  <1> QED  BY <1>0, <1>1, <1>2, <1>3, <1>4, <1>5, <1>6, <1>7, UnheardStep

(* A call that follows the order it created.                               *)
LEMMA FollowStep ==
  ASSUME OrdersInv, NEW l \in Legs \ QuidaxLegs, NEW i \in Ids, Create(l, i, "live"),
         call[l].pc \in {"post", "estimate"},
         \/ \E pc \in {"poll", "receipt"} : GotoWith(l, pc, i)
         \/ "nameless" \in Faults /\ Goto(l, "reconcile"),
         UNCHANGED <<said, listed, approval, cached, unheard>>
  PROVE  OrdersInv'
  <1>1. PICK c \in Call : /\ call' = [call EXCEPT ![l] = c]
                         /\ \/ c.pc \in {"poll", "receipt"} /\ c.ref = i
                            \/ "nameless" \in Faults /\ c.pc = "reconcile"
    <2>1. call[l] \in Call /\ i \in 0..MaxOrders  BY Parts, Constants
    <2>2. ASSUME NEW pc \in {"poll", "receipt"}, GotoWith(l, pc, i)
          PROVE  \E c \in Call : call' = [call EXCEPT ![l] = c] /\ c.pc = pc /\ c.ref = i
      <3> DEFINE c == [call[l] EXCEPT !.pc = pc, !.ref = i]
      <3>1. pc \in Pcs  BY DEF Pcs
      <3>2. c \in Call /\ c.pc = pc /\ c.ref = i
        <4>1. PICK k \in Call : k = call[l]  BY <2>1
        <4>2. PICK j \in 0..MaxOrders : j = i  BY <2>1
        <4> DEFINE d == [k EXCEPT !.pc = pc, !.ref = j]
        <4>3. d \in Call /\ d.pc = pc /\ d.ref = j  BY <3>1, Zenon DEF Call
        <4>4. c = d  BY <4>1, <4>2
        <4> HIDE DEF c, d
        <4> QED  BY <4>2, <4>3, <4>4
      <3>3. call' = [call EXCEPT ![l] = c]  BY <2>2 DEF GotoWith
      <3> HIDE DEF c
      <3> QED  BY <3>2, <3>3
    <2>3. ASSUME Goto(l, "reconcile")
          PROVE  \E c \in Call : call' = [call EXCEPT ![l] = c] /\ c.pc = "reconcile"
      <3> DEFINE c == [call[l] EXCEPT !.pc = "reconcile"]
      <3>1. "reconcile" \in Pcs  BY DEF Pcs
      <3>2. c \in Call /\ c.pc = "reconcile"  BY <2>1, <3>1, GotoForm, Zenon
      <3>3. call' = [call EXCEPT ![l] = c]  BY <2>3 DEF Goto
      <3> HIDE DEF c
      <3> QED  BY <3>2, <3>3
    <2> QED  BY <2>2, <2>3
  <1>2. said' = [said EXCEPT ![l] = said[l]] /\ said[l] \in Report  BY Parts
  <1>3. "live" \in States \ {"unused"}  BY DEF States
  <1>4. Heard(l) = {} /\ Cardinality(OrdersOf(l)') <= Bound(l)  BY <1>3, Room
  <1>5. CountedWith(l, c, OrdersOf(l)', {i})  BY <1>1, <1>4 DEF CountedWith, Before
  <1>6. "nameless" \notin Faults => NamedWith(c, said[l], {i})
    <2>1. SUFFICES ASSUME "nameless" \notin Faults PROVE NamedWith(c, said[l], {i})
      OBVIOUS
    <2>2. said[l].status = "nothing" /\ said[l].ref = NoId  BY <2>1, Parts DEF Named, NamedWith
    <2> QED  BY <1>1, <2>1, <2>2 DEF NamedWith
  <1> DEFINE heard == TRUE
  <1>7. heard \in BOOLEAN  OBVIOUS
  <1>8. /\ unheard' = (IF heard THEN unheard ELSE (unheard \cup {i}))
        /\ CountedWith(l, c, OrdersOf(l)', IF heard THEN {i} ELSE {})
        /\ "nameless" \notin Faults => NamedWith(c, said[l], IF heard THEN {i} ELSE {})
    BY <1>5, <1>6
  <1> HIDE DEF heard
  <1> QED  BY <1>1, <1>2, <1>3, <1>4, <1>7, <1>8, CreatingStep

LEMMA StepOrders ==
  ASSUME OrdersInv, NEW l \in Legs,
         OrderTaken(l) \/ OrderNotTaken(l) \/ Declined(l) \/ Broadcast(l)
  PROVE  OrdersInv'
  <1> USE DEF allowance, Ordering
  <1>1. (l \in StrailsLegs \/ l \in ChainLegs) => l \in Legs \ QuidaxLegs  BY OrdersAssumption
  <1>2. "failed" \in Statuses /\ "raised" \in Statuses /\ NoId \in 0..MaxOrders
    BY Constants DEF Statuses
  <1>3. CASE OrderTaken(l)
    <2>1. PICK i \in Ids : /\ Create(l, i, "live")
                          /\ \/ GotoWith(l, "poll", i)
                             \/ "nameless" \in Faults /\ Goto(l, "reconcile")
      BY <1>3 DEF OrderTaken
    <2> QED  BY <1>1, <1>3, <2>1, FollowStep DEF OrderTaken
  <1>4. CASE OrderNotTaken(l)
    <2>1. CASE UNCHANGED <<order, unheard>>  BY <1>2, <1>4, <2>1, SayStep DEF OrderNotTaken
    <2>2. CASE CreateUnheard(l)  BY <1>1, <1>4, <2>2, LostStep DEF OrderNotTaken
    <2> QED  BY <1>4, <2>1, <2>2 DEF OrderNotTaken
  <1>5. CASE Broadcast(l)
    <2>1. CASE Say(l, "raised", NoId) /\ UNCHANGED <<order, unheard>>
      BY <1>2, <1>5, <2>1, SayStep DEF Broadcast
    <2>2. CASE Say(l, "failed", NoId) /\ UNCHANGED <<order, unheard>>
      BY <1>2, <1>5, <2>2, SayStep DEF Broadcast
    <2>3. CASE Say(l, "failed", NoId) /\ CreateUnheard(l)
      BY <1>1, <1>5, <2>3, LostStep DEF Broadcast
    <2>4. CASE /\ \E i \in Ids : Create(l, i, "live") /\ GotoWith(l, "receipt", i)
               /\ UNCHANGED <<said, unheard>>
      BY <1>1, <1>5, <2>4, FollowStep DEF Broadcast
    <2> QED  BY <1>5, <2>1, <2>2, <2>3, <2>4 DEF Broadcast
  <1>6. CASE Declined(l)
    <2>1. CASE UNCHANGED <<order, unheard>>  BY <1>2, <1>6, <2>1, SayStep DEF Declined
    <2>2. CASE CreateUnheard(l)  BY <1>6, <2>2, LostStep DEF Declined, Posting
    <2> QED  BY <1>6, <2>1, <2>2 DEF Declined
  <1> QED  BY <1>3, <1>4, <1>5, <1>6

-----------------------------------------------------------------------------
(* The recovery and the venues.                                            *)

LEMMA StepLook == ASSUME OrdersInv, NEW l \in Legs, Look(l) PROVE OrdersInv'
  <1>1. PICK status \in Statuses : said' = [said EXCEPT ![l].status = status]
    <2>1. CASE CheckTrade(l)
      <3>1. PICK status \in RowReports(said[l].ref) : said' = [said EXCEPT ![l].status = status]
        BY <2>1 DEF CheckTrade
      <3>2. status \in Statuses  BY <3>1 DEF RowReports, Statuses
      <3> QED  BY <3>1, <3>2
    <2>2. CASE CheckTransaction(l)
      <3> DEFINE status == IF order[said[l].ref].state = "done" THEN "filled" ELSE "failed"
      <3>1. said' = [said EXCEPT ![l].status = status]  BY <2>2 DEF CheckTransaction
      <3>2. status \in Statuses  BY DEF Statuses
      <3> HIDE DEF status
      <3> QED  BY <3>1, <3>2
    <2> QED  BY <2>1, <2>2 DEF Look
  <1>2. /\ Pending(l) /\ Quiet /\ UNCHANGED <<call, order, listed, unheard, approval, cached>>
    BY DEF Look, CheckTrade, CheckTransaction, world, allowance
  <1> DEFINE r == [said[l] EXCEPT !.status = status]
  <1>3. said[l] \in Report  BY Parts
  <1>4. r \in Report /\ r.ref = said[l].ref  BY <1>3 DEF Report
  <1>5. said' = [said EXCEPT ![l] = r] /\ call' = [call EXCEPT ![l] = call[l]] /\ call[l] \in Call
    <2>1. call = [call EXCEPT ![l] = call[l]]  BY DEF OrdersInv, TypeOK
    <2> QED  BY <1>1, <1>2, <2>1, Parts
  <1> HIDE DEF r
  <1>6. CountedWith(l, call[l], OrdersOf(l), Heard(l))  BY Parts DEF Counted
  <1>7. "nameless" \notin Faults => NamedWith(call[l], r, Heard(l))
    <2>1. SUFFICES ASSUME "nameless" \notin Faults PROVE NamedWith(call[l], r, Heard(l))
      OBVIOUS
    <2>2. Named(l) /\ said[l].status = "pending"  BY <1>2, <2>1, Parts DEF Pending
    <2>3. call[l].pc = "over"  BY <2>2 DEF Named, NamedWith
    <2> QED  BY <1>4, <2>2, <2>3 DEF Named, NamedWith
  <1>8. approval' \in {"none", "sent", "mined"} /\ cached' \in BOOLEAN
    BY <1>2 DEF OrdersInv, TypeOK
  <1> QED  BY <1>2, <1>4, <1>5, <1>6, <1>7, <1>8, QuietStep

(* Nobody is called when a venue settles or lists an order.                *)
LEMMA StepSettle == ASSUME OrdersInv, NEW i \in Ids, Settle(i) PROVE OrdersInv'
  <1>1. PICK how \in {"done", "void"} : order' = [order EXCEPT ![i].state = how]  BY DEF Settle
  <1>2. order[i].state = "live" /\ UNCHANGED <<call, said, listed, approval, cached, unheard>>
    BY DEF Settle, allowance
  <1> DEFINE o == [order[i] EXCEPT !.state = how]
  <1>3. order[i] \in Order  BY DEF OrdersInv, TypeOK
  <1>4. o \in Order /\ o.leg = order[i].leg /\ o.state = how  BY <1>3 DEF Order
  <1>5. order' = [order EXCEPT ![i] = o]  BY <1>1
  <1> HIDE DEF o
  <1>6. /\ order' \in [Ids -> Order] /\ order'[i] = o
        /\ \A k \in Ids : k # i => order'[k] = order[k]
    BY <1>4, <1>5 DEF OrdersInv, TypeOK
  <1>7. \A k \in Ids : order'[k].leg = order[k].leg  BY <1>4, <1>6
  <1>8. \A l : OrdersOf(l)' = OrdersOf(l) /\ Heard(l)' = Heard(l)
    BY <1>2, <1>7 DEF OrdersOf, Heard
  <1>9. TypeOK'  BY <1>2, <1>6 DEF OrdersInv, TypeOK
  <1>10. Used'
    <2>1. \A k \in Ids : order'[k].state = "unused" <=> order[k].state = "unused"
      BY <1>2, <1>4, <1>6
    <2>2. unheard \subseteq Ids  BY DEF OrdersInv, TypeOK
    <2> QED  BY <1>2, <1>7, <2>1, <2>2 DEF OrdersInv, Used
  <1>11. \A l \in Legs : Counted(l)'  BY <1>2, <1>8 DEF OrdersInv, Counted
  <1>12. "nameless" \notin Faults => \A l \in Legs : Named(l)'
    <2>1. SUFFICES ASSUME "nameless" \notin Faults, NEW l \in Legs PROVE Named(l)'  OBVIOUS
    <2>2. Named(l)  BY <2>1 DEF OrdersInv
    <2> QED  BY <1>2, <1>8, <2>2 DEF Named, NamedWith
  <1> QED  BY <1>9, <1>10, <1>11, <1>12 DEF OrdersInv

LEMMA StepVenue ==
  ASSUME OrdersInv, MineApproval \/ (\E i \in Ids : List(i)) \/ UNCHANGED vars
  PROVE  OrdersInv'
  <1>1. /\ UNCHANGED <<call, order, said, unheard>> /\ listed' \subseteq Ids
        /\ approval' \in {"none", "sent", "mined"} /\ cached' = cached
    BY DEF MineApproval, List, vars, world, allowance, OrdersInv, TypeOK
  <1>2. \A l : OrdersOf(l)' = OrdersOf(l) /\ Heard(l)' = Heard(l)
    BY <1>1 DEF OrdersOf, Heard
  <1>3. TypeOK'  BY <1>1 DEF OrdersInv, TypeOK
  <1>4. Used'  BY <1>1 DEF OrdersInv, Used
  <1>5. \A l \in Legs : Counted(l)'  BY <1>1, <1>2 DEF OrdersInv, Counted
  <1>6. "nameless" \notin Faults => \A l \in Legs : Named(l)'
    BY <1>1, <1>2 DEF OrdersInv, Named
  <1> QED  BY <1>3, <1>4, <1>5, <1>6 DEF OrdersInv

LEMMA InitOrders == Init => OrdersInv
  <1> SUFFICES ASSUME Init PROVE OrdersInv  OBVIOUS
  <1>1. At("ready") \in Call /\ At("ready").pc = "ready"  BY Fresh DEF Pcs
  <1>2. call \in [Legs -> Call] /\ \A l \in Legs : call[l] = At("ready")  BY <1>1 DEF Init
  <1>3. /\ order \in [Ids -> Order] /\ \A i \in Ids : order[i].leg = NoLeg /\ order[i].state = "unused"
    BY DEF Init, Order
  <1>4. said \in [Legs -> Report] /\ \A l \in Legs : said[l].status = "nothing" /\ said[l].ref = NoId
    BY Constants DEF Init, Report, Statuses
  <1>5. TypeOK
    <2>1. cached \in BOOLEAN  BY DEF Init
    <2> QED  BY <1>2, <1>3, <1>4, <2>1 DEF Init, TypeOK, Report, Statuses
  <1>6. Used  BY <1>3 DEF Init, Used
  <1>7. \A l \in Legs : OrdersOf(l) = {} /\ Heard(l) = {}
    BY <1>3, Constants DEF OrdersOf, Heard
  <1>8. At("ready").tries = Tries /\ At("ready").hosts = 2  BY Constants DEF At
  <1>9. \A l \in Legs : Counted(l)
    <2>1. TAKE l \in Legs
    <2>2. OrdersOf(l) = {} /\ Heard(l) = {} /\ Cardinality(OrdersOf(l)) = 0
      BY <1>7, CountType
    <2> QED  BY <1>1, <1>2, <1>8, <2>2, Constants DEF Counted, CountedWith, Bound
  <1>10. \A l \in Legs : Named(l)  BY <1>1, <1>2, <1>4, <1>7 DEF Named, NamedWith
  <1> QED  BY <1>5, <1>6, <1>9, <1>10 DEF OrdersInv

LEMMA Inductive == OrdersInv /\ [Next]_vars => OrdersInv'
  <1> SUFFICES ASSUME OrdersInv, [Next]_vars PROVE OrdersInv'  OBVIOUS
  <1>1. ASSUME NEW l \in Legs, Step(l) PROVE OrdersInv'
    BY <1>1, StepStart, StepAccepted, StepNotAccepted, StepEndRound, StepSays, StepReconcile,
       StepApprove, StepOrders DEF Step
  <1>2. ASSUME NEW l \in Legs, AcceptedUnheard(l) \/ Look(l) PROVE OrdersInv'
    BY <1>2, StepAcceptedUnheard, StepLook
  <1>3. ASSUME NEW i \in Ids, Settle(i) PROVE OrdersInv'  BY <1>3, StepSettle
  <1>4. CASE MineApproval \/ (\E i \in Ids : List(i)) \/ UNCHANGED vars  BY <1>4, StepVenue
  <1> QED  BY <1>1, <1>2, <1>3, <1>4 DEF Next

LEMMA OrdersInvariant == Spec => []OrdersInv
  BY InitOrders, Inductive, PTL DEF Spec

-----------------------------------------------------------------------------
(* Coroutines, orders and reports keep their types whatever fails.         *)
THEOREM TypeCorrect == Spec => []TypeOK
  <1>1. OrdersInv => TypeOK  BY DEF OrdersInv
  <1> QED  BY <1>1, OrdersInvariant, PTL

(* No leg has more orders than its venue's rounds and endpoints allow, and *)
(* on Strails and the chains never more than one.                          *)
THEOREM FewOrders == Spec => []OrdersBounded
  <1>1. OrdersInv => OrdersBounded
    <2>1. SUFFICES ASSUME OrdersInv PROVE OrdersBounded  OBVIOUS
    <2>2. ASSUME NEW l \in Legs PROVE Cardinality(OrdersOf(l)) <= Bound(l)
      BY <2>1, Parts DEF Counted, CountedWith
    <2> QED  BY <2>2 DEF OrdersBounded, Bound
  <1> QED  BY <1>1, OrdersInvariant, PTL

-----------------------------------------------------------------------------
(* The steps that create an order, and the others.                         *)

Creates(l) ==
  \E i \in Ids, state \in States \ {"unused"} :
    /\ Create(l, i, state)
    /\ call[l].pc \in {"post", "estimate"}

LEMMA WhoCreates ==
  ASSUME OrdersInv, [Next]_vars
  PROVE  \/ \E l \in Legs : Creates(l)
         \/ /\ \A i \in Ids : order'[i].leg = order[i].leg
  <1>1. CASE UNCHANGED order  BY <1>1
  <1>2. "live" \in States \ {"unused"}  BY DEF States
  <1>3. ASSUME NEW i \in Ids, Settle(i) PROVE \A k \in Ids : order'[k].leg = order[k].leg
    BY <1>3 DEF Settle, OrdersInv, TypeOK, Order
  <1>4. ASSUME NEW l \in Legs, Accepted(l) \/ AcceptedUnheard(l) PROVE Creates(l)
    BY <1>2, <1>4 DEF Accepted, AcceptedUnheard, CreateUnheard, Posting, Creates
  <1>5. ASSUME NEW l \in Legs, OrderTaken(l) PROVE Creates(l)
    BY <1>2, <1>5 DEF OrderTaken, Ordering, Creates
  <1>6. ASSUME NEW l \in Legs, OrderNotTaken(l) \/ Declined(l)
        PROVE  Creates(l) \/ UNCHANGED order
    BY <1>2, <1>6 DEF OrderNotTaken, Declined, CreateUnheard, Ordering, Posting, Creates
  <1>7. ASSUME NEW l \in Legs, Broadcast(l) PROVE Creates(l) \/ UNCHANGED order
    BY <1>2, <1>7 DEF Broadcast, CreateUnheard, Creates
  <1>8. ASSUME NEW l \in Legs,
               \/ Start(l) \/ NotAccepted(l) \/ EndRound(l) \/ Fill(l) \/ Reconcile(l)
               \/ TradeEnds(l) \/ GiveUp(l) \/ Approve(l) \/ Receipt(l)
               \/ Look(l)
        PROVE  UNCHANGED order
    BY <1>8 DEF world, Start, NotAccepted, EndRound, Fill, Reconcile, TradeEnds,
                GiveUp, Approve, Receipt, Look, CheckTrade, CheckTransaction
  <1>9. CASE MineApproval \/ (\E i \in Ids : List(i)) \/ UNCHANGED vars
    BY <1>1, <1>9 DEF MineApproval, List, vars, world
  <1> QED  BY <1>1, <1>3, <1>4, <1>5, <1>6, <1>7, <1>8, <1>9 DEF Next, Step

(* Once a venue was heard to accept a leg's order, none is posted again.   *)
THEOREM NoSecondOrder == Spec => NothingAfterAcceptance
  <1>1. ASSUME OrdersInv, [Next]_vars, NEW l \in Legs, Heard(l) # {}
        PROVE  OrdersOf(l)' = OrdersOf(l)
    <2>1. CASE \A i \in Ids : order'[i].leg = order[i].leg  BY <2>1 DEF OrdersOf
    <2>2. ASSUME NEW k \in Legs, Creates(k) PROVE OrdersOf(l)' = OrdersOf(l)
      <3>1. PICK i \in Ids, state \in States \ {"unused"} :
              Create(k, i, state) /\ call[k].pc \in {"post", "estimate"}
        BY <2>2 DEF Creates
      <3>2. k # l
        BY <1>1, <3>1, Parts DEF Counted, CountedWith, Before
      <3> QED  BY <1>1, <3>1, <3>2, Created DEF OrdersInv
    <2> QED  BY <1>1, <2>1, <2>2, WhoCreates
  <1>2. OrdersInv /\ [Next]_vars =>
          [\A l \in Legs : Heard(l) # {} => OrdersOf(l)' = OrdersOf(l)]_vars
    BY <1>1
  <1> QED  BY <1>2, OrdersInvariant, PTL DEF Spec, NothingAfterAcceptance


-----------------------------------------------------------------------------
(* What became of a leg's orders, as the contract sees it.                 *)

FateOf(heard, orders) ==
  LET states == {orders[i].state : i \in heard}
  IN  IF "done" \in states THEN "done"
      ELSE IF "live" \in states THEN "live"
      ELSE IF "void" \in states THEN "void" ELSE "none"

LEMMA FateForm ==
  /\ \A l : Fate(l) = FateOf(Heard(l), order) /\ Fate(l)' = FateOf(Heard(l)', order')
  /\ \A orders : FateOf({}, orders) = "none"
  /\ \A orders, i : orders[i].state \in {"live", "done", "void"} =>
       FateOf({i}, orders) = orders[i].state
  BY DEF Fate, FateOf

LEMMA SameFate ==
  ASSUME NEW l, Heard(l)' = Heard(l), \A i \in Heard(l) : order'[i] = order[i]
  PROVE  Fate(l)' = Fate(l)
  BY DEF Fate

(* The fate of the only order that was heard of.                           *)
LEMMA OnlyFate ==
  ASSUME OrdersInv, NEW l \in Legs, NEW i \in Ids, Heard(l) = {i}
  PROVE  Fate(l) = order[i].state /\ order[i].state \in {"live", "done", "void"}
  <1>1. order[i].leg = l /\ order[i] \in Order  BY DEF Heard, OrdersOf, OrdersInv, TypeOK
  <1>2. order[i].state \in {"live", "done", "void"}
    BY <1>1, Constants DEF OrdersInv, Used, Order
  <1> QED  BY <1>2, FateForm

LEMMA CreatedFate ==
  ASSUME OrdersInv, NEW l \in Legs, NEW i \in Ids, NEW state \in States \ {"unused"},
         Create(l, i, state), Heard(l) = {}, NEW heard \in BOOLEAN,
         unheard' = IF heard THEN unheard ELSE (unheard \cup {i})
  PROVE  /\ Fate(l) = "none" /\ Fate(l)' = IF heard THEN state ELSE "none"
         /\ \A k \in Legs : k # l => Fate(k)' = Fate(k)
  <1>1. /\ i \notin unheard /\ i \notin OrdersOf(l) /\ order'[i].state = state
        /\ OrdersOf(l)' = OrdersOf(l) \cup {i}
        /\ \A k \in Legs : k # l => OrdersOf(k)' = OrdersOf(k) /\ i \notin OrdersOf(k)
        /\ \A k \in Ids : k # i => order'[k] = order[k]
    BY Created DEF OrdersInv
  <1>2. Heard(l)' = IF heard THEN {i} ELSE {}  BY <1>1 DEF Heard
  <1>3. state \in {"live", "done", "void"}  BY DEF States
  <1>4. Fate(l) = "none" /\ Fate(l)' = IF heard THEN state ELSE "none"
    BY <1>1, <1>2, <1>3, FateForm
  <1>5. ASSUME NEW k \in Legs, k # l PROVE Fate(k)' = Fate(k)
    <2>1. Heard(k)' = Heard(k) /\ i \notin Heard(k) /\ Heard(k) \subseteq Ids
      BY <1>1, <1>5 DEF Heard, OrdersOf
    <2> QED  BY <1>1, <2>1, SameFate
  <1> QED  BY <1>4, <1>5

-----------------------------------------------------------------------------
(* The steps of the contract.                                              *)

fates == [l \in Legs |-> Fate(l)]
reports == [l \in Legs |-> said[l].status]

Fulfilled(l) == Fate(l) = "done" \/ (l \in QuidaxLegs /\ Fate(l) # "none")

LEMMA PlaceStep ==
  ASSUME NEW l \in Legs, NEW how \in {"live", "done"}, Fate(l) = "none", Fate(l)' = how,
         \A k \in Legs : k # l => Fate(k)' = Fate(k),
         said' = said, said[l].status = "nothing"
  PROVE  Contract!Next
  <1>1. fates[l] = "none" /\ reports[l] = "nothing"  BY DEF fates, reports
  <1>2. fates' = [fates EXCEPT ![l] = how] /\ reports' = reports  BY DEF fates, reports
  <1>3. Contract!Place(l, how)  BY <1>1, <1>2 DEF Contract!Place, fates, reports
  <1>4. how \in Contract!Fates  BY DEF Contract!Fates
  <1> QED  BY <1>3, <1>4 DEF Contract!Next

LEMMA SettleStep ==
  ASSUME NEW l \in Legs, NEW how \in {"void", "done"}, Fate(l) = "live", Fate(l)' = how,
         \A k \in Legs : k # l => Fate(k)' = Fate(k), said' = said
  PROVE  Contract!Next
  <1>1. fates[l] = "live"  BY DEF fates
  <1>2. fates' = [fates EXCEPT ![l] = how] /\ reports' = reports  BY DEF fates, reports
  <1>3. Contract!Settle(l, how)  BY <1>1, <1>2 DEF Contract!Settle, fates, reports
  <1>4. how \in Contract!Fates  BY DEF Contract!Fates
  <1> QED  BY <1>3, <1>4 DEF Contract!Next

LEMMA ReportStep ==
  ASSUME OrdersInv, NEW l \in Legs, NEW r \in Report, said' = [said EXCEPT ![l] = r],
         \A k \in Legs : Fate(k)' = Fate(k),
         r.status = "filled" => Fulfilled(l),
         r.status = "failed" => Fate(l) \in {"none", "void"},
         \/ said[l].status = "nothing" /\ r.status # "nothing"
         \/ said[l].status = "pending" /\ r.status \in {"filled", "failed"}
  PROVE  Contract!Next
  <1> DEFINE report == r.status
  <1>1. fates[l] = Fate(l) /\ reports[l] = said[l].status  BY DEF fates, reports
  <1>2. said \in [Legs -> Report]  BY DEF OrdersInv, TypeOK, Report, Statuses
  <1>3. fates' = fates /\ reports' = [reports EXCEPT ![l] = report]
    BY <1>2 DEF fates, reports
  <1>4. Contract!Honest(l, report)  BY <1>1 DEF Contract!Honest, Fulfilled, fates
  <1>5. report \in Contract!Reports  BY DEF Report, Statuses, Contract!Reports
  <1> HIDE DEF report
  <1>6. CASE said[l].status = "nothing" /\ report # "nothing"
    <2>1. Contract!Report(l, report)
      BY <1>1, <1>3, <1>4, <1>6 DEF Contract!Report, fates, reports
    <2> QED  BY <1>5, <2>1 DEF Contract!Next
  <1>7. CASE said[l].status = "pending" /\ report \in {"filled", "failed"}
    <2>1. Contract!Resolve(l, report)
      BY <1>1, <1>3, <1>4, <1>7 DEF Contract!Resolve, fates, reports
    <2> QED  BY <1>5, <2>1 DEF Contract!Next
  <1> QED  BY <1>6, <1>7 DEF report

LEMMA ContractStutter ==
  ASSUME \A l \in Legs : Fate(l)' = Fate(l), said' = said
  PROVE  UNCHANGED <<fates, reports>>
  BY DEF fates, reports

-----------------------------------------------------------------------------
(* Each step keeps the contract where Strails names its trades.            *)

ContractStep == Contract!Next \/ UNCHANGED <<fates, reports>>

(* A call ends: nothing was reported before it.                            *)
LEMMA SayKeeps ==
  ASSUME OrdersInv, "nameless" \notin Faults, NEW l \in Legs, call[l].pc # "over",
         NEW status \in Statuses \ {"nothing"}, NEW i \in 0..MaxOrders, Say(l, status, i),
         \A k \in Legs : Fate(k)' = Fate(k),
         status = "filled" => Fulfilled(l),
         status = "failed" => Fate(l) \in {"none", "void"}
  PROVE  ContractStep
  <1> DEFINE r == [status |-> status, ref |-> i]
  <1>1. r \in Report /\ r.status = status  BY DEF Report
  <1>2. said' = [said EXCEPT ![l] = r]  BY DEF Say
  <1>3. said[l].status = "nothing"  BY Parts DEF Named, NamedWith
  <1> HIDE DEF r
  <1> QED  BY <1>1, <1>2, <1>3, ReportStep DEF ContractStep

LEMMA SayAlertingKeeps ==
  ASSUME OrdersInv, "nameless" \notin Faults, NEW l \in Legs, call[l].pc # "over",
         NEW status \in Statuses \ {"nothing"}, NEW i \in 0..MaxOrders,
         SayAlerting(l, status, i), \A k \in Legs : Fate(k)' = Fate(k),
         status = "filled" => Fulfilled(l),
         status = "failed" => Fate(l) \in {"none", "void"}
  PROVE  ContractStep
  <1>1. CASE Say(l, status, i)  BY <1>1, SayKeeps
  <1>2. CASE Say(l, "raised", NoId)
    <2> DEFINE raised == "raised"
    <2>1. /\ raised \in Statuses \ {"nothing"} /\ NoId \in 0..MaxOrders
          /\ Say(l, raised, NoId) /\ raised # "filled" /\ raised # "failed"
      BY <1>2, Constants DEF Statuses
    <2> HIDE DEF raised
    <2> QED  BY <2>1, SayKeeps
  <1> QED  BY <1>1, <1>2 DEF SayAlerting

LEMMA QuietFates ==
  ASSUME UNCHANGED <<order, unheard>>
  PROVE  \A k : Fate(k)' = Fate(k)
  BY DEF Fate, Heard, OrdersOf

LEMMA NoFate ==
  ASSUME OrdersInv, NEW l \in Legs, call[l].pc \in Before
  PROVE  Heard(l) = {} /\ Fate(l) = "none"
  <1>1. Heard(l) = {}  BY Parts DEF Counted, CountedWith
  <1> QED  BY <1>1, FateForm

LEMMA FollowedFate ==
  ASSUME OrdersInv, "nameless" \notin Faults, NEW l \in Legs,
         call[l].pc \in {"fill", "poll", "receipt"}
  PROVE  /\ call[l].ref \in Ids /\ Fate(l) = order[call[l].ref].state
         /\ Fate(l) # "none"
  <1>1. call[l].ref \in Ids /\ Heard(l) = {call[l].ref}
    BY Parts DEF Named, NamedWith
  <1> QED  BY <1>1, OnlyFate

(* The steps that end a call without an order of its own, or go on.        *)
LEMMA CallKeeps ==
  ASSUME OrdersInv, "nameless" \notin Faults, NEW l \in Legs,
         \/ Start(l) \/ NotAccepted(l) \/ EndRound(l) \/ Fill(l) \/ Reconcile(l)
         \/ TradeEnds(l) \/ GiveUp(l) \/ Approve(l) \/ Receipt(l)
  PROVE  ContractStep
  <1> USE DEF world
  <1>1. \A k \in Legs : Fate(k)' = Fate(k)
    <2>1. UNCHANGED <<order, unheard>>
      BY DEF Start, NotAccepted, EndRound, Fill, Reconcile, TradeEnds, GiveUp, Approve,
             Receipt
    <2> QED  BY <2>1, QuietFates
  <1>2. said' = said => ContractStep  BY <1>1, ContractStutter DEF ContractStep
  <1>3. Statuses = {"nothing", "filled", "failed", "pending", "raised"} /\ NoId \in 0..MaxOrders
    BY Constants DEF Statuses
  <1>4. call[l].ref \in 0..MaxOrders  BY Parts
  <1>5. CASE Start(l) \/ NotAccepted(l) \/ Approve(l)
    BY <1>2, <1>5 DEF Start, NotAccepted, Approve
  <1>6. CASE EndRound(l)
    <2>1. call[l].pc = "post"  BY <1>6 DEF EndRound
    <2>2. Fate(l) = "none"  BY <2>1, NoFate DEF Before
    <2>3. Say(l, "failed", NoId) \/ SayAlerting(l, "failed", NoId) \/ said' = said
      BY <1>6 DEF EndRound
    <2> QED  BY <1>1, <1>2, <1>3, <2>1, <2>2, <2>3, SayKeeps, SayAlertingKeeps
  <1>7. CASE Fill(l)
    <2>1. call[l].pc = "fill" /\ l \in QuidaxLegs /\ SayAlerting(l, "filled", NoId)
      BY <1>7 DEF Fill
    <2>2. Fulfilled(l)  BY <2>1, FollowedFate DEF Fulfilled
    <2> QED  BY <1>1, <1>3, <2>1, <2>2, SayAlertingKeeps
  <1>8. CASE Reconcile(l)
    <2>1. call[l].pc = "reconcile"  BY <1>8 DEF Reconcile
    <2> QED  BY <2>1, Parts DEF Named, NamedWith
  <1>9. CASE TradeEnds(l)
    <2>1. call[l].pc = "poll" /\ order[call[l].ref].state \in {"done", "void"}
      BY <1>9 DEF TradeEnds, Terminal
    <2>2. PICK status \in RowReports(call[l].ref) : Say(l, status, call[l].ref)
      BY <1>9 DEF TradeEnds
    <2>3. /\ status \in Statuses \ {"nothing"}
          /\ status = "filled" => Fulfilled(l)
          /\ status = "failed" => Fate(l) = "void"
      BY <1>3, <2>1, <2>2, FollowedFate DEF RowReports, Fulfilled
    <2> QED  BY <1>1, <1>4, <2>1, <2>2, <2>3, SayKeeps
  <1>10. CASE GiveUp(l)
    <2>1. call[l].pc = "poll" /\ SayAlerting(l, "pending", call[l].ref)  BY <1>10 DEF GiveUp
    <2> QED  BY <1>1, <1>3, <1>4, <2>1, SayAlertingKeeps
  <1>11. CASE Receipt(l)
    <2>1. call[l].pc = "receipt"  BY <1>11 DEF Receipt
    <2>2. Fate(l) = order[call[l].ref].state  BY <2>1, FollowedFate
    <2>3. PICK status \in {"filled", "failed", "pending"} :
            /\ Say(l, status, call[l].ref)
            /\ status = "filled" => Fulfilled(l)
            /\ status = "failed" => Fate(l) = "void"
      BY <1>11, <2>2 DEF Receipt, Fulfilled
    <2> QED  BY <1>1, <1>3, <1>4, <2>1, <2>3, SayKeeps
  <1> QED  BY <1>5, <1>6, <1>7, <1>8, <1>9, <1>10, <1>11

(* A leg places its order, heard of or not.                                *)
LEMMA HeardKeeps ==
  ASSUME OrdersInv, "nameless" \notin Faults, NEW l \in Legs, NEW i \in Ids,
         Create(l, i, "live"), call[l].pc \in Before, UNCHANGED <<said, unheard>>
  PROVE  ContractStep
  <1> DEFINE state == "live"
  <1>1. state \in States \ {"unused"}  BY DEF States
  <1>2. Heard(l) = {} /\ said[l].status = "nothing"
    BY NoFate, Parts DEF Named, NamedWith, Before
  <1> DEFINE heard == TRUE
  <1>3. heard \in BOOLEAN /\ unheard' = IF heard THEN unheard ELSE (unheard \cup {i})
    OBVIOUS
  <1>4. /\ Fate(l) = "none" /\ Fate(l)' = IF heard THEN state ELSE "none"
        /\ \A k \in Legs : k # l => Fate(k)' = Fate(k)
    <2> HIDE DEF heard
    <2> QED  BY <1>1, <1>2, <1>3, CreatedFate
  <1> QED  BY <1>2, <1>4, PlaceStep DEF ContractStep

LEMMA UnheardFates ==
  ASSUME OrdersInv, NEW l \in Legs, CreateUnheard(l), call[l].pc \in Before
  PROVE  Fate(l) = "none" /\ \A k \in Legs : Fate(k)' = Fate(k)
  <1>0. PICK i \in Ids : Create(l, i, "live") /\ unheard' = unheard \cup {i}
    BY DEF CreateUnheard
  <1> DEFINE state == "live"
  <1>1. state \in States \ {"unused"}  BY DEF States
  <1>2. Heard(l) = {}  BY NoFate
  <1> DEFINE heard == FALSE
  <1>3. heard \in BOOLEAN /\ unheard' = IF heard THEN unheard ELSE (unheard \cup {i})
    BY <1>0
  <1>4. /\ Fate(l) = "none" /\ Fate(l)' = IF heard THEN state ELSE "none"
        /\ \A k \in Legs : k # l => Fate(k)' = Fate(k)
    <2> HIDE DEF heard
    <2> QED  BY <1>0, <1>1, <1>2, <1>3, CreatedFate
  <1> QED  BY <1>4

LEMMA OrderKeeps ==
  ASSUME OrdersInv, "nameless" \notin Faults, NEW l \in Legs,
         \/ Accepted(l) \/ AcceptedUnheard(l) \/ Declined(l) \/ OrderTaken(l)
         \/ OrderNotTaken(l) \/ Broadcast(l)
  PROVE  ContractStep
  <1> USE DEF allowance
  <1>1. /\ "failed" \in Statuses \ {"nothing"} /\ "raised" \in Statuses \ {"nothing"}
        /\ NoId \in 0..MaxOrders
    BY Constants DEF Statuses
  <1>2. call[l].pc \in {"post", "estimate"} /\ call[l].pc \in Before /\ call[l].pc # "over"
    BY DEF Accepted, AcceptedUnheard, Declined, Posting, OrderTaken, Ordering, OrderNotTaken,
           Broadcast, Before
  <1>3. Fate(l) = "none"  BY <1>2, NoFate
  <1>4. CASE Accepted(l)  BY <1>1, <1>2, <1>4, HeardKeeps DEF Accepted
  <1>5. CASE AcceptedUnheard(l)
    <2>1. \A k \in Legs : Fate(k)' = Fate(k)
      BY <1>1, <1>2, <1>5, UnheardFates DEF AcceptedUnheard
    <2> QED  BY <1>5, <2>1, ContractStutter DEF AcceptedUnheard, ContractStep
  <1>6. CASE OrderTaken(l)  BY <1>1, <1>2, <1>6, HeardKeeps DEF OrderTaken
  <1>7. ASSUME Say(l, "failed", NoId) \/ Say(l, "raised", NoId),
               UNCHANGED <<order, unheard>> \/ CreateUnheard(l)
        PROVE  ContractStep
    <2>1. \A k \in Legs : Fate(k)' = Fate(k)
      BY <1>1, <1>2, <1>7, QuietFates, UnheardFates
    <2> DEFINE failed == "failed"
               raised == "raised"
    <2>2. /\ failed \in Statuses \ {"nothing"} /\ raised \in Statuses \ {"nothing"}
          /\ failed # "filled" /\ raised # "filled" /\ raised # "failed"
          /\ Say(l, failed, NoId) \/ Say(l, raised, NoId)
      BY <1>1, <1>7
    <2> HIDE DEF failed, raised
    <2> QED  BY <1>1, <1>2, <1>3, <2>1, <2>2, SayKeeps
  <1>8. CASE OrderNotTaken(l) \/ Declined(l)  BY <1>7, <1>8 DEF OrderNotTaken, Declined
  <1>9. CASE Broadcast(l)
    <2>1. CASE \E i \in Ids : Create(l, i, "live") /\ UNCHANGED <<said, unheard>>
      BY <1>1, <1>2, <2>1, HeardKeeps
    <2> QED  BY <1>7, <1>9, <2>1 DEF Broadcast
  <1> QED  BY <1>4, <1>5, <1>6, <1>8, <1>9

(* The recovery replaces a pending report by the truth.                    *)
LEMMA LookKeeps ==
  ASSUME OrdersInv, "nameless" \notin Faults, NEW l \in Legs, Look(l)
  PROVE  ContractStep
  <1>1. Pending(l) /\ UNCHANGED <<order, unheard>>
    BY DEF Look, CheckTrade, CheckTransaction, world
  <1>2. \A k \in Legs : Fate(k)' = Fate(k)  BY <1>1, QuietFates
  <1>3. said[l] \in Report /\ said[l].ref \in Ids /\ Heard(l) = {said[l].ref}
    BY <1>1, Parts DEF Pending, Named, NamedWith
  <1>4. Fate(l) = order[said[l].ref].state  BY <1>3, OnlyFate
  <1>5. PICK status \in {"filled", "failed", "pending"} :
          /\ said' = [said EXCEPT ![l].status = status]
          /\ status = "filled" => Fate(l) = "done"
          /\ status = "failed" => Fate(l) = "void"
    <2>1. CASE CheckTrade(l)
      <3>1. order[said[l].ref].state \in {"done", "void"}  BY <2>1 DEF CheckTrade, Terminal
      <3>2. PICK status \in RowReports(said[l].ref) : said' = [said EXCEPT ![l].status = status]
        BY <2>1 DEF CheckTrade
      <3> QED  BY <1>4, <3>1, <3>2 DEF RowReports
    <2>2. CASE CheckTransaction(l)
      <3>1. CASE order[said[l].ref].state = "done"  BY <1>4, <2>2, <3>1 DEF CheckTransaction
      <3>2. CASE order[said[l].ref].state = "void"  BY <1>4, <2>2, <3>2 DEF CheckTransaction
      <3> QED  BY <2>2, <3>1, <3>2 DEF CheckTransaction
    <2> QED  BY <2>1, <2>2 DEF Look
  <1> DEFINE r == [said[l] EXCEPT !.status = status]
  <1>6. r \in Report /\ r.status = status  BY <1>3 DEF Report, Statuses
  <1>7. said' = [said EXCEPT ![l] = r]  BY <1>5
  <1>8. said[l].status = "pending"  BY <1>1 DEF Pending
  <1> HIDE DEF r
  <1>9. CASE status = "pending"
    <2>1. \A k \in Legs : (said'[k]).status = said[k].status
      BY <1>6, <1>7, <1>8, <1>9 DEF OrdersInv, TypeOK
    <2> QED  BY <1>2, <2>1 DEF ContractStep, fates, reports
  <1>10. CASE status # "pending"
    BY <1>2, <1>5, <1>6, <1>7, <1>8, <1>10, ReportStep DEF ContractStep, Fulfilled
  <1> QED  BY <1>9, <1>10

(* A venue settles an order, the only one of its leg that was heard of.    *)
LEMMA SettleKeeps ==
  ASSUME OrdersInv, "nameless" \notin Faults, NEW i \in Ids, Settle(i)
  PROVE  ContractStep
  <1>1. PICK how \in {"void", "done"} : order' = [order EXCEPT ![i].state = how]  BY DEF Settle
  <1>2. order[i].state = "live" /\ UNCHANGED <<said, unheard>>  BY DEF Settle
  <1>3. /\ \A k \in Ids : order'[k].leg = order[k].leg /\ (k # i => order'[k] = order[k])
        /\ order'[i].state = how
    BY <1>1 DEF OrdersInv, TypeOK, Order
  <1>4. \A l : Heard(l)' = Heard(l)  BY <1>2, <1>3 DEF Heard, OrdersOf
  <1>5. \A l : i \notin Heard(l) => Fate(l)' = Fate(l)
    BY <1>3, <1>4, SameFate DEF Heard, OrdersOf
  <1>6. CASE \A l \in Legs : i \notin Heard(l)
    BY <1>2, <1>5, <1>6, ContractStutter DEF ContractStep
  <1>7. ASSUME NEW l \in Legs, i \in Heard(l) PROVE ContractStep
    <2>1. Heard(l) = {i}  BY <1>7, Parts DEF Named, NamedWith
    <2>2. Fate(l) = "live" /\ Fate(l)' = how
      <3>1. Fate(l) = "live"  BY <1>2, <2>1, OnlyFate
      <3> QED  BY <1>3, <1>4, <2>1, <3>1, FateForm
    <2>3. \A k \in Legs : k # l => i \notin Heard(k)  BY <1>7 DEF Heard, OrdersOf
    <2> QED  BY <1>2, <1>5, <2>2, <2>3, SettleStep DEF ContractStep
  <1> QED  BY <1>6, <1>7

(* Whatever the venue and whatever is lost, a leg keeps its contract as    *)
(* long as Strails names the trade it takes: one order, true reports, and  *)
(* a pending leg resolved only by the truth.                               *)
THEOREM ContractKept ==
  ASSUME "nameless" \notin Faults
  PROVE  Spec => KeepsContract
  <1>1. Init => Contract!Init
    <2>1. SUFFICES ASSUME Init PROVE Contract!Init  OBVIOUS
    <2>2. \A l \in Legs : Heard(l) = {} /\ said[l].status = "nothing"
      BY <2>1, Constants DEF Init, Heard, OrdersOf
    <2> QED  BY <2>2, FateForm DEF Contract!Init
  <1>2. OrdersInv /\ [Next]_vars =>
          [Contract!Next]_<<[l \in Legs |-> Fate(l)], [l \in Legs |-> said[l].status]>>
    <2>1. SUFFICES ASSUME OrdersInv, [Next]_vars PROVE ContractStep
      BY DEF ContractStep, fates, reports
    <2>2. ASSUME NEW l \in Legs, Step(l) PROVE ContractStep
      BY <2>1, <2>2, CallKeeps, OrderKeeps DEF Step
    <2>3. ASSUME NEW l \in Legs, AcceptedUnheard(l) \/ Look(l) PROVE ContractStep
      BY <2>1, <2>3, OrderKeeps, LookKeeps
    <2>4. ASSUME NEW i \in Ids, Settle(i) PROVE ContractStep  BY <2>1, <2>4, SettleKeeps
    <2>5. CASE MineApproval \/ (\E i \in Ids : List(i)) \/ UNCHANGED vars
      <3>1. UNCHANGED <<order, unheard, said>>  BY <2>5 DEF MineApproval, List, vars, world
      <3> QED  BY <3>1, QuietFates, ContractStutter DEF ContractStep
    <2> QED  BY <2>1, <2>2, <2>3, <2>4, <2>5 DEF Next
  <1> QED  BY <1>1, <1>2, OrdersInvariant, PTL DEF Spec, KeepsContract, Contract!Spec

=============================================================================
