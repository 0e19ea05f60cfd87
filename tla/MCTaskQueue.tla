---------------------------- MODULE MCTaskQueue ----------------------------
(* TaskQueue on small instances: more callers than slots, so that callers  *)
(* park, are woken and are overtaken.                                      *)
EXTENDS TaskQueue

=============================================================================
