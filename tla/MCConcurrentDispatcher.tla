----------------------- MODULE MCConcurrentDispatcher -----------------------
(* Two batches that compete for the slots.  The first has a conflict chain  *)
(* that is only transitively connected and a file-free task; the second     *)
(* runs a canary first and shares a file with the first.                    *)
EXTENDS ConcurrentDispatcher

CONSTANTS t1, t2, t3, t4, t5, t6, b1, b2, f, g

MCTasks == {t1, t2, t3, t4, t5, t6}
MCBatches == {b1, b2}
MCFiles == {f, g}

MCBatchTasks == [b \in MCBatches |-> IF b = b1 THEN <<t1, t2, t3, t4>> ELSE <<t5, t6>>]
MCCanaryFirst == [b \in MCBatches |-> b = b2]

MCFilesOf ==
    [t \in MCTasks |->
        CASE t = t1 -> {f}
          [] t = t2 -> {g}
          [] t = t3 -> {f, g}
          [] t = t6 -> {g}
          [] OTHER  -> {}]

=============================================================================
