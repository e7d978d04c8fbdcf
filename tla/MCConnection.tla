---------------------------- MODULE MCConnection ----------------------------
(* Instances of Connection for TLC. *)
EXTENDS Connection

AllRuntimes == {"node", "cf"}
AllAnswers == {"S", "N", "E", "S and more"}
=============================================================================
