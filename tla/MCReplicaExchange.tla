-------------------------- MODULE MCReplicaExchange --------------------------
(* Small instances of ReplicaExchange.                                     *)
EXTENDS ReplicaExchange
=============================================================================
