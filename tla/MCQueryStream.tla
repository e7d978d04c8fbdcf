---------------------------- MODULE MCQueryStream ----------------------------
(* Instances of QueryStream for TLC. *)
EXTENDS QueryStream

AllKinds == Kind
SomeTotals == 0..4
SomeSizes == 1..3
=============================================================================
