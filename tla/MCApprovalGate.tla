--------------------------- MODULE MCApprovalGate ---------------------------
(* ApprovalGate with two tasks of one slot each, and enough requests to share *)
(* a slot and to come back to it after a restart.                           *)
EXTENDS ApprovalGate, TLC

CONSTANTS s1, s2, t1, t2

MCSlots == {s1, s2}
MCTaskOf == (s1 :> t1) @@ (s2 :> t2)
=============================================================================
