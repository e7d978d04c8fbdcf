------------------------ MODULE MCLogicalReplication ------------------------
(* Instances of LogicalReplication for TLC. *)
EXTENDS LogicalReplication
=============================================================================
