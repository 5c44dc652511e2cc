--------------------------- MODULE MCLegOrders ---------------------------
(* Small instances of LegOrders for TLC. *)
EXTENDS LegOrders, TLC
=============================================================================
