---------------------------- MODULE MCCatalogUnits ----------------------------
(* Small instances of CatalogUnits.                                        *)
EXTENDS CatalogUnits, TLC

CONSTANTS low, high

AllLow == [u \in Unit |-> low]
Symmetry == Permutations(Digest \ {Genesis}) \union Permutations(Replica)
===============================================================================
