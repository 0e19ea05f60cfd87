------------------------------ MODULE MCTaskApi ------------------------------
(* TaskApi with three tasks and one chat session, next to the hidden one.      *)
(* The writes for the second task may fail, which has one task ahead of it and *)
(* one behind.                                                                 *)
EXTENDS TaskApi

CONSTANT chat
=============================================================================
