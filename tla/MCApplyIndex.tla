---------------------------- MODULE MCApplyIndex ----------------------------
(* Model-checking instance of ApplyIndex: two pages, entries of one or   *)
(* two bytes, a segment budget of two bytes.                             *)
EXTENDS ApplyIndex

CONSTANTS a1, a2

MCAddrs == {a1, a2}
=============================================================================
