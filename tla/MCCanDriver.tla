----------------------------- MODULE MCCanDriver -----------------------------
(* CanDriver with two ids the node wants, of which one has no payload, and a *)
(* longer one it does not want.                                              *)
EXTENDS CanDriver
MCLength == [i \in {"paddle", "stop", "other"} |-> CASE i = "paddle" -> 1 [] i = "stop" -> 0 [] OTHER -> 2]
=============================================================================
