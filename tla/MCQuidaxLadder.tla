--------------------------- MODULE MCQuidaxLadder ---------------------------
(* Small instances of QuidaxLadder for TLC. *)
EXTENDS QuidaxLadder, TLC

Sym == Permutations(Ids) \cup Permutations(Sides) \cup
       Permutations(Refs) \cup Permutations(Others)

=============================================================================
