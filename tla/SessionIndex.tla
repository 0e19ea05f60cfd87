---------------------------- MODULE SessionIndex ----------------------------
(***************************************************************************)
(* The SQLite index derived from a session's log: SessionManager's dual    *)
(* write (recordUserTurn and the mutators like it), the asynchronous       *)
(* rebuild after a failed cursor update, and the recovery scan that an     *)
(* operator runs with `vinyan session recover` while no process serves.    *)
(* The log is SessionLog, which this module extends.                       *)
(*                                                                         *)
(* A mutator is one synchronous call: append, then the rows, then the      *)
(* cursor.  Any SQLite statement may fail; the queued rebuild is a         *)
(* microtask and runs between two mutators.                                *)
(***************************************************************************)
EXTENDS SessionLog

VARIABLES
    indexed,    \* the lines whose rows are in the index
    offset,     \* session_store.last_line_offset
    step,       \* the next SQLite write of the mutator: "rows", "cursor" or "none"
    queued      \* an index rebuild is scheduled

indexVars == <<indexed, offset, step, queued>>
vars == <<logVars, indexVars>>

IndexTypeOK ==
    /\ TypeOK
    /\ indexed \subseteq 1..MaxLines
    /\ offset \in 0..(LineBytes * (MaxLines + 1))
    /\ step \in {"rows", "cursor", "none"}
    /\ queued \in BOOLEAN
    /\ step # "none" => pc = "idle" /\ written \in acked

\* The session has just been created and indexed.
IndexInit ==
    /\ Init
    /\ indexed = {1}
    /\ offset = LineBytes
    /\ step = "none"
    /\ queued = FALSE

-----------------------------------------------------------------------------

\* Slip: the cursor is written first.
LogAppend_CursorFirst ==
    \/ step = "none" /\ WriteLine /\ UNCHANGED indexVars
    \/ (Rename \/ WriteManifest) /\ UNCHANGED indexVars
    \/ Return /\ step' = "rows" /\ offset' = end /\ UNCHANGED <<indexed, queued>>

\* The append of a mutator, which returns to the mutator's own writes.
LogAppend ==
    \/ step = "none" /\ WriteLine /\ UNCHANGED indexVars
    \/ (Rename \/ WriteManifest) /\ UNCHANGED indexVars
    \/ Return /\ step' = "rows" /\ UNCHANGED <<indexed, offset, queued>>

\* The rows of the line.  If it throws, the mutator throws.
WriteRows ==
    /\ step = "rows"
    /\ \/ indexed' = indexed \union {written} /\ step' = "cursor"
       \/ UNCHANGED indexed /\ step' = "none"
    /\ UNCHANGED <<offset, queued, logVars>>

\* applyJsonlCursor: if it throws, a rebuild is scheduled.
WriteCursor ==
    /\ step = "cursor"
    /\ step' = "none"
    /\ \/ offset' = end /\ UNCHANGED queued
       \/ UNCHANGED offset /\ queued' = TRUE
    /\ UNCHANGED <<indexed, logVars>>

\* Slip: the newline of the last line is not counted.
EndOffset_NoNewline == IF active = <<>> THEN 0 ELSE NewlineEnd(active) - 1

\* scanAll's endOffset: where the last item ends, in the file it is in.  An item
\* that does not parse ends before its newline.
EndOffset ==
    LET At(file) ==
            NewlineEnd(file) - (IF Parses(Last(file)) THEN 0 ELSE 1)
    IN  IF tail # Nothing THEN FileSize
        ELSE IF active # <<>> THEN At(active)
        ELSE IF manifest = 0 THEN 0 ELSE At(sealed[manifest])

\* rebuildSessionIndex, in one transaction.  Without the session.created line the
\* session's row stays as it is.
Rebuild ==
    /\ indexed' = Readable
    /\ offset' = IF 1 \in Readable THEN EndOffset ELSE offset

\* The microtask: a second failure is only logged.
RunQueued ==
    /\ queued /\ pc = "idle" /\ step = "none"
    /\ queued' = FALSE
    /\ Rebuild \/ UNCHANGED <<indexed, offset>>
    /\ UNCHANGED <<step, logVars>>

\* The process dies, in the log's writes or between the index's.
IndexCrash ==
    /\ Crash \/ (step = "none" /\ Tear)
    /\ step' = "none"
    /\ queued' = FALSE
    /\ UNCHANGED <<indexed, offset>>

IndexRestart == Restart /\ UNCHANGED indexVars

\* recoverStartup's test of one session.
Drifted == present /\ offset # FileSize

\* recoverStartup.
Recover ==
    /\ pc = "down"
    /\ Drifted
    /\ Rebuild
    /\ UNCHANGED <<step, queued, logVars>>

IndexNext ==
    LogAppend \/ WriteRows \/ WriteCursor \/ RunQueued \/ IndexCrash \/ IndexRestart \/ Recover

IndexSpec == IndexInit /\ [][IndexNext]_vars

-----------------------------------------------------------------------------

\* The index never has a row whose line is not in the log: "the two stores would
\* silently diverge".
IndexNotAhead == pc \in {"idle", "down"} => indexed \subseteq Readable

\* Until the first rotation, a session that recovery takes for in sync has its
\* last line indexed, whichever SQLite writes failed and wherever a process died:
\* only earlier lines can be missing.
InSyncCoversLastLine ==
    manifest = 0 /\ present /\ step = "none" /\ pc \in {"idle", "down"} /\ ~Drifted
        => \A j \in DOMAIN active :
              Parses(active[j]) /\ (\A k \in DOMAIN active : j < k => ~Parses(active[k]))
                  => active[j].id \in indexed

\* What the index says can be believed: no row without its line, and no session
\* called in sync whose last line is missing.
IndexIsHonest == IndexNotAhead /\ InSyncCoversLastLine

\* A recovery that ran leaves the index complete and a second run nothing to do.
RecoveryCompletes ==
    [][pc = "down" /\ <<indexed, offset>>' # <<indexed, offset>>
         => indexed' = Readable' /\ ~Drifted']_vars

(* Statements of the source that the code does not keep.                   *)

\* recovery.ts: a line that was appended but not indexed is drift, which the
\* comparison of the offset with the file's size shows.
LossIsDrift ==
    pc = "down" /\ indexed # Readable => Drifted

\* recovery.test.ts: after a recovery "a re-scan reports in-sync".
RecoveryIsIdempotent ==
    [][pc = "down" /\ <<indexed, offset>>' # <<indexed, offset>> => ~Drifted']_vars

=============================================================================
