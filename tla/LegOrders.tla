----------------------------- MODULE LegOrders -----------------------------
(* How each venue places one leg: the retries of a Quidax market order, the  *)
(* trade id and the polls of a Strails order, the approvals, broadcast and   *)
(* receipt of a swap; and how a pending leg is looked up again.  All legs    *)
(* have one side and one amount, as a sell and its retries have.             *)
EXTENDS Integers, FiniteSets

CONSTANTS
  QuidaxLegs, StrailsLegs, ChainLegs,  \* legs, by the venue that trades them
  MaxOrders,  \* orders and transactions the venues may create
  Tries,      \* rounds of the Quidax retry loop
  Faults

Legs == QuidaxLegs \cup StrailsLegs \cup ChainLegs

(*  lost        an order is taken and the response does not arrive           *)
(*  down        an endpoint cannot be reached, or a list cannot be read      *)
(*  nameless    Strails takes an order and names no trade id                 *)
(*  unreadable  the row of a completed Strails trade lacks its fill          *)
(*  store       the write of an alert raises                                 *)
AllFaults == {"lost", "down", "nameless", "unreadable", "store"}

NoLeg == "none"

ASSUME OrdersAssumption ==
  /\ NoLeg \notin Legs
  /\ QuidaxLegs \cap StrailsLegs = {} /\ ChainLegs \cap (QuidaxLegs \cup StrailsLegs) = {}
  /\ MaxOrders \in Nat /\ Tries \in Nat \ {0}
  /\ Faults \subseteq AllFaults

VARIABLES
  call,      \* the adapter's coroutine for each leg
  order,     \* orders and swaps in the order they were created
  said,      \* what each leg was reported as, and under which reference
  listed,    \* Strails trades that GET fx/trades shows
  approval,  \* the router's allowance: "none", "sent" or "mined"
  cached,    \* _approvals_done
  unheard    \* ghost: orders whose acceptance no response told of

vars == <<call, order, said, listed, approval, cached, unheard>>

-----------------------------------------------------------------------------
Ids == 1..MaxOrders

NoId == 0

(* order_collection_endpoints of the Quidax client.                           *)
Endpoints == 2

Pcs == {"ready", "post", "fill", "reconcile", "poll", "approve", "estimate", "receipt",
        "over"}

Call == [pc : Pcs, tries : 0..Tries, hosts : 0..Endpoints, refused : BOOLEAN,
         ref : 0..MaxOrders]

At(pc) == [pc |-> pc, tries |-> Tries, hosts |-> Endpoints, refused |-> FALSE,
           ref |-> NoId]

Order == [leg : Legs \cup {NoLeg}, state : {"unused", "live", "done", "void"}]

TypeOK ==
  /\ call \in [Legs -> Call]
  /\ order \in [Ids -> Order]
  /\ said \in [Legs -> [status : {"nothing", "filled", "failed", "pending", "raised"},
                        ref : 0..MaxOrders]]
  /\ listed \subseteq Ids
  /\ approval \in {"none", "sent", "mined"}
  /\ cached \in BOOLEAN
  /\ unheard \subseteq Ids

Init ==
  /\ call = [l \in Legs |-> At("ready")]
  /\ order = [i \in Ids |-> [leg |-> NoLeg, state |-> "unused"]]
  /\ said = [l \in Legs |-> [status |-> "nothing", ref |-> NoId]]
  /\ listed = {}
  /\ approval = "none"
  /\ cached = FALSE
  /\ unheard = {}

OrdersOf(l) == {i \in Ids : order[i].leg = l}

Heard(l) == OrdersOf(l) \ unheard

(* The engine works on one leg at a time.                                     *)
Quiet == \A l \in Legs : call[l].pc \in {"ready", "over"}

Create(l, i, state) ==
  /\ order[i].state = "unused" /\ \A k \in Ids : order[k].state = "unused" => i <= k
  /\ order' = [order EXCEPT ![i] = [leg |-> l, state |-> state]]

(* The order is in, and the caller never learns of it.                        *)
CreateUnheard(l) ==
  /\ "lost" \in Faults
  /\ \E i \in Ids : Create(l, i, "live") /\ unheard' = unheard \cup {i}

Goto(l, pc) == call' = [call EXCEPT ![l].pc = pc]

GotoWith(l, pc, i) == call' = [call EXCEPT ![l].pc = pc, ![l].ref = i]

Say(l, status, i) ==
  /\ said' = [said EXCEPT ![l] = [status |-> status, ref |-> i]]
  /\ call' = [call EXCEPT ![l] = At("over")]

(* A report that follows an alert: where the alert's write raises, so does the *)
(* call.                                                                       *)
SayAlerting(l, status, i) ==
  \/ Say(l, status, i)
  \/ "store" \in Faults /\ Say(l, "raised", NoId)

world == <<order, listed, unheard>>
allowance == <<approval, cached>>

Start(l) ==
  /\ call[l].pc = "ready" /\ Quiet
  /\ Goto(l, IF l \in ChainLegs THEN "approve" ELSE "post")
  /\ UNCHANGED <<world, allowance, said>>

-----------------------------------------------------------------------------
(* Quidax: place_market_order.                                                *)

Posting(l) == l \in QuidaxLegs /\ call[l].pc = "post" /\ call[l].hosts > 0

(* The response of this endpoint, none or a refusal, stands for the round.    *)
NextHost(l, refused) ==
  call' = [call EXCEPT ![l].hosts = @ - 1, ![l].refused = refused]

(* The venue has the order; it fills, or ends without a fill, on its own.     *)
Accepted(l) ==
  /\ Posting(l)
  /\ \E i \in Ids : /\ Create(l, i, "live")
                    /\ GotoWith(l, "fill", i)
  /\ UNCHANGED <<said, listed, allowance, unheard>>

AcceptedUnheard(l) ==
  /\ Posting(l) /\ CreateUnheard(l)
  /\ NextHost(l, FALSE)
  /\ UNCHANGED <<said, listed, allowance>>

(* A timeout or a 5xx counts as no response, a 4xx as a refusal.              *)
NotAccepted(l) ==
  /\ Posting(l)
  /\ \E refused \in BOOLEAN : ("down" \in Faults \/ refused) /\ NextHost(l, refused)
  /\ UNCHANGED <<world, allowance, said>>

(* A 2xx that does not say success ends the call; so does one whose body      *)
(* cannot be read, although the order may be in.                              *)
Declined(l) ==
  /\ Posting(l)
  /\ Say(l, "failed", NoId)
  /\ UNCHANGED <<order, unheard>> \/ CreateUnheard(l)
  /\ UNCHANGED <<listed, allowance>>

EndRoundUncounted(l) ==
  /\ l \in QuidaxLegs /\ call[l].pc = "post" /\ call[l].hosts = 0
  /\ IF call[l].refused THEN Say(l, "failed", NoId)
     ELSE /\ call' = [call EXCEPT ![l].tries = @ - 1, ![l].hosts = Endpoints]
          /\ UNCHANGED said
  /\ UNCHANGED <<world, allowance>>

(* Both endpoints were tried: a refusal is final, silence is tried again.     *)
EndRound(l) ==
  /\ l \in QuidaxLegs /\ call[l].pc = "post" /\ call[l].hosts = 0
  /\ IF call[l].refused THEN Say(l, "failed", NoId)
     ELSE IF call[l].tries = 1 THEN SayAlerting(l, "failed", NoId)
     ELSE /\ call' = [call EXCEPT ![l].tries = @ - 1, ![l].hosts = Endpoints]
          /\ UNCHANGED said
  /\ UNCHANGED <<world, allowance>>

FillResubmits(l) ==
  /\ l \in QuidaxLegs /\ call[l].pc = "fill"
  /\ \/ Say(l, "filled", NoId)
     \/ /\ call[l].tries > 1
        /\ call' = [call EXCEPT ![l].pc = "post", ![l].hosts = Endpoints,
                                ![l].tries = @ - 1]
        /\ UNCHANGED said
  /\ UNCHANGED <<world, allowance>>

(* The fill comes with the response or with a poll; without it the order is   *)
(* reported filled all the same, after an alert, whatever became of it: the   *)
(* polls look for a fill and never at the order's state.  No reference is     *)
(* kept, so nothing looks again.                                              *)
Fill(l) ==
  /\ l \in QuidaxLegs /\ call[l].pc = "fill"
  /\ SayAlerting(l, "filled", NoId)
  /\ UNCHANGED <<world, allowance>>

-----------------------------------------------------------------------------
(* Strails: _execute_market_order.                                            *)

Ordering(l) == l \in StrailsLegs /\ call[l].pc = "post"

OrderTaken(l) ==
  /\ Ordering(l)
  /\ \E i \in Ids :
       /\ Create(l, i, "live")
       /\ \/ GotoWith(l, "poll", i)
          \/ "nameless" \in Faults /\ Goto(l, "reconcile")
  /\ UNCHANGED <<said, listed, allowance, unheard>>

OrderNotTakenRetried(l) ==
  /\ Ordering(l) /\ CreateUnheard(l)
  /\ UNCHANGED <<call, said, listed, allowance>>

(* No price, no connection or no success: nothing was traded as far as the    *)
(* adapter knows.                                                             *)
OrderNotTaken(l) ==
  /\ Ordering(l)
  /\ Say(l, "failed", NoId)
  /\ UNCHANGED <<order, unheard>> \/ CreateUnheard(l)
  /\ UNCHANGED <<listed, allowance>>

(* _reconcile_trade_id: the newest listed trade of this side and amount.      *)
Newest == {i \in listed : \A k \in listed : k <= i}

Reconcile(l) ==
  /\ l \in StrailsLegs /\ call[l].pc = "reconcile"
  /\ \/ \E i \in Newest : GotoWith(l, "poll", i) /\ UNCHANGED said
     \/ (Newest = {} \/ "down" \in Faults) /\ SayAlerting(l, "pending", NoId)
  /\ UNCHANGED <<world, allowance>>

(* _result_from_trade_row: a completed trade whose fill cannot be read stays  *)
(* pending.                                                                   *)
RowReports(i) ==
  IF order[i].state = "done"
  THEN {"filled"} \cup (IF "unreadable" \in Faults THEN {"pending"} ELSE {})
  ELSE {"failed"}

Terminal(i) == i \in listed /\ order[i].state \in {"done", "void"}

TradeEnds(l) ==
  /\ l \in StrailsLegs /\ call[l].pc = "poll" /\ Terminal(call[l].ref)
  /\ \E status \in RowReports(call[l].ref) : Say(l, status, call[l].ref)
  /\ UNCHANGED <<world, allowance>>

GiveUpFailed(l) ==
  /\ l \in StrailsLegs /\ call[l].pc = "poll"
  /\ Say(l, "failed", call[l].ref)
  /\ UNCHANGED <<world, allowance>>

(* The budget of the polls is spent.                                          *)
GiveUp(l) ==
  /\ l \in StrailsLegs /\ call[l].pc = "poll"
  /\ SayAlerting(l, "pending", call[l].ref)
  /\ UNCHANGED <<world, allowance>>

-----------------------------------------------------------------------------
(* Chains: swap.                                                              *)

(* The approvals, as one: skipped when cached or in place, else sent and      *)
(* waited for. A failure is logged, and the swap goes on.                     *)
Approve(l) ==
  /\ l \in ChainLegs /\ call[l].pc = "approve"
  /\ \/ (cached \/ approval = "mined") /\ cached' = TRUE /\ UNCHANGED approval
     \/ ~cached /\ approval # "mined" /\ cached' = TRUE /\ approval' = "mined"
     \/ ~cached /\ approval # "mined" /\ cached' = FALSE /\ approval' \in {approval, "sent"}
  /\ Goto(l, "estimate")
  /\ UNCHANGED <<world, said>>

(* The gas estimate runs the swap and raises where it would revert; then the  *)
(* broadcast.                                                                 *)
Broadcast(l) ==
  /\ l \in ChainLegs /\ call[l].pc = "estimate"
  /\ \/ Say(l, "raised", NoId) /\ UNCHANGED <<order, unheard>>
     \/ /\ approval = "mined"
        /\ \/ Say(l, "failed", NoId) /\ UNCHANGED <<order, unheard>>
           \/ Say(l, "failed", NoId) /\ CreateUnheard(l)
           \/ /\ \E i \in Ids : Create(l, i, "live") /\ GotoWith(l, "receipt", i)
              /\ UNCHANGED <<said, unheard>>
  /\ UNCHANGED <<listed, allowance>>

(* The receipt, or the end of the wait.                                       *)
Receipt(l) ==
  /\ l \in ChainLegs /\ call[l].pc = "receipt"
  /\ \/ order[call[l].ref].state = "done" /\ Say(l, "filled", call[l].ref)
     \/ order[call[l].ref].state = "void" /\ Say(l, "failed", call[l].ref)
     \/ order[call[l].ref].state = "live" /\ Say(l, "pending", call[l].ref)
  /\ UNCHANGED <<world, allowance>>

-----------------------------------------------------------------------------
(* The recovery looks a pending leg up: check_trade and check_transaction.    *)

Pending(l) == said[l].status = "pending" /\ said[l].ref # NoId

CheckTrade(l) ==
  /\ l \in StrailsLegs /\ Pending(l) /\ Quiet /\ Terminal(said[l].ref)
  /\ \E status \in RowReports(said[l].ref) :
       said' = [said EXCEPT ![l].status = status]
  /\ UNCHANGED <<call, world, allowance>>

CheckTransactionLanded(l) ==
  /\ l \in ChainLegs /\ Pending(l) /\ Quiet
  /\ order[said[l].ref].state = "done"
  /\ said' = [said EXCEPT ![l].status = "filled"]
  /\ UNCHANGED <<call, world, allowance>>

CheckTransaction(l) ==
  /\ l \in ChainLegs /\ Pending(l) /\ Quiet
  /\ order[said[l].ref].state \in {"done", "void"}
  /\ said' = [said EXCEPT ![l].status =
                IF order[said[l].ref].state = "done" THEN "filled" ELSE "failed"]
  /\ UNCHANGED <<call, world, allowance>>

-----------------------------------------------------------------------------
(* The venues. A Strails trade may be missing from the list until it settles, *)
(* and longer.                                                                *)

Settle(i) ==
  /\ order[i].state = "live"
  /\ \E how \in {"done", "void"} : order' = [order EXCEPT ![i].state = how]
  /\ UNCHANGED <<call, said, listed, allowance, unheard>>

List(i) ==
  /\ order[i].leg \in StrailsLegs /\ i \notin listed
  /\ listed' = listed \cup {i}
  /\ UNCHANGED <<call, order, said, allowance, unheard>>

MineApproval ==
  /\ approval = "sent" /\ approval' = "mined"
  /\ UNCHANGED <<call, world, said, cached>>

Step(l) ==
  \/ Start(l) \/ Accepted(l) \/ NotAccepted(l) \/ Declined(l) \/ EndRound(l) \/ Fill(l)
  \/ OrderTaken(l) \/ OrderNotTaken(l) \/ Reconcile(l) \/ TradeEnds(l) \/ GiveUp(l)
  \/ Approve(l) \/ Broadcast(l) \/ Receipt(l)

Look(l) == CheckTrade(l) \/ CheckTransaction(l)

Next ==
  \/ \E l \in Legs : Step(l) \/ AcceptedUnheard(l) \/ Look(l)
  \/ \E i \in Ids : Settle(i) \/ List(i)
  \/ MineApproval

Spec == Init /\ [][Next]_vars

(* Every request times out, every loop is bounded, the venues settle and list *)
(* what they took, the recovery asks again.                                   *)
FairSpec ==
  /\ Spec
  /\ \A l \in Legs : WF_vars(Step(l)) /\ WF_vars(Look(l))
  /\ \A i \in Ids : WF_vars(Settle(i)) /\ WF_vars(List(i))

-----------------------------------------------------------------------------
(* Properties.                                                                *)

Fate(l) ==
  LET states == {order[i].state : i \in Heard(l)}
  IN  IF "done" \in states THEN "done"
      ELSE IF "live" \in states THEN "live"
      ELSE IF "void" \in states THEN "void" ELSE "none"

(* Leaving aside the orders no response told of, a leg of any venue keeps the *)
(* contract: one order, reports that are true of it, and a pending one that   *)
(* is only ever replaced by the truth.  Of Quidax "filled" says no more than  *)
(* that the order was accepted.                                               *)
Contract == INSTANCE LegContract WITH
  OnAcceptance <- QuidaxLegs,
  fate <- [l \in Legs |-> Fate(l)], said <- [l \in Legs |-> said[l].status]

KeepsContract == Contract!Spec

(* Once the venue was heard to accept the order, none is posted again; this   *)
(* holds although a lost response leads to a second one.                      *)
NothingAfterAcceptance ==
  [][\A l \in Legs : Heard(l) # {} => OrdersOf(l)' = OrdersOf(l)]_vars

(* Only Quidax is asked twice: a leg elsewhere has one order even when its    *)
(* response is lost, and Quidax no more than its rounds and endpoints allow.  *)
OrdersBounded ==
  \A l \in Legs : Cardinality(OrdersOf(l)) <=
                    IF l \in QuidaxLegs THEN Tries * Endpoints ELSE 1

(* The reference a report carries is that of the leg's own order.             *)
ReferenceIsOwn == \A l \in Legs : said[l].ref # NoId => said[l].ref \in OrdersOf(l)

(* A pending leg with a reference is resolved.                                *)
PendingResolves == \A l \in Legs : Pending(l) ~> ~Pending(l)

=============================================================================
