--------------------------- MODULE MCLpLifecycle ---------------------------
(* Small instances of LpLifecycle for TLC. *)
EXTENDS LpLifecycle, TLC

Sym == Permutations(Ids)

=============================================================================
