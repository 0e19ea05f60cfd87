----------------------------- MODULE MCCodingCli -----------------------------
(* CodingCli with one prompt for the policy and one for a human, and one     *)
(* SQLite error of the ledger.  MCApprovalGate has the crashes.              *)
EXTENDS CodingCli, TLC

CONSTANTS ask, auto, task

MCTaskOf == (ask :> task) @@ (auto :> task)
=============================================================================
