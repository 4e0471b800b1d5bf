---------------------------- MODULE MCChildLinks ----------------------------
(* Instances of ChildLinks for TLC. *)
EXTENDS ChildLinks

CONSTANTS c1, c2, d1, d2
=============================================================================
