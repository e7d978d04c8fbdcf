--------------------------- MODULE MCParserBuffer ---------------------------
(* Instances of ParserBuffer for TLC. *)
EXTENDS ParserBuffer

SomeStreams == UNION {[1..n -> 2..4] : n \in 1..3} \cup {[i \in 1..10 |-> 3]}
=============================================================================
