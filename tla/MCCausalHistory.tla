--------------------------- MODULE MCCausalHistory ---------------------------
(* Small instances of CausalHistory.                                       *)
EXTENDS CausalHistory, TLC

Symmetry == Permutations(Digest \ {Genesis}) \union Permutations(Replica)
=============================================================================
