---------------------------- MODULE LegContract ----------------------------
(* What a leg of a trade promises its caller: one order at most, a report    *)
(* that is true of it, and a pending report that may only be replaced by the *)
(* truth.  A venue that reports on acceptance promises less: its "filled"    *)
(* says that it has the order, and the order may end either way after it.    *)

CONSTANTS
  Legs,
  OnAcceptance  \* legs of the venues that report an order filled once it is accepted

VARIABLES
  fate,  \* what became of the order of each leg
  said   \* what the leg was reported as

Fates == {"none", "live", "done", "void"}

Reports == {"nothing", "filled", "failed", "pending", "raised"}

Init ==
  /\ fate = [l \in Legs |-> "none"]
  /\ said = [l \in Legs |-> "nothing"]

Place(l, how) ==
  /\ fate[l] = "none" /\ said[l] = "nothing" /\ how # "none"
  /\ fate' = [fate EXCEPT ![l] = how]
  /\ UNCHANGED said

Settle(l, how) ==
  /\ fate[l] = "live" /\ how \in {"done", "void"}
  /\ fate' = [fate EXCEPT ![l] = how]
  /\ UNCHANGED said

Honest(l, report) ==
  /\ report = "filled" =>
       fate[l] = "done" \/ (l \in OnAcceptance /\ fate[l] # "none")
  /\ report = "failed" => fate[l] \in {"none", "void"}

Report(l, report) ==
  /\ said[l] = "nothing" /\ report # "nothing" /\ Honest(l, report)
  /\ said' = [said EXCEPT ![l] = report]
  /\ UNCHANGED fate

Resolve(l, report) ==
  /\ said[l] = "pending" /\ report \in {"filled", "failed"} /\ Honest(l, report)
  /\ said' = [said EXCEPT ![l] = report]
  /\ UNCHANGED fate

Next ==
  \E l \in Legs :
    \/ \E how \in Fates : Place(l, how) \/ Settle(l, how)
    \/ \E report \in Reports : Report(l, report) \/ Resolve(l, report)

Spec == Init /\ [][Next]_<<fate, said>>

=============================================================================
