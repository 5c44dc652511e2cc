--------------------------- MODULE MCArbExecution ---------------------------
(* Small instances of ArbExecution for TLC. *)
EXTENDS ArbExecution, TLC

OpenRoutes == {"QUIDAX_TO_UNI_BSC", "UNI_BASE_TO_STRAILS",
               "UNI_BSC_TO_UNI_BASE_DELTA_BALANCE"}

WithStrailsBuys == OpenRoutes \cup {"STRAILS_TO_UNI_BASE"}

Sym == Permutations(Opps) \cup Permutations(Hash)

=============================================================================
