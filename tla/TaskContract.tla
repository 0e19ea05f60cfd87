---------------------------- MODULE TaskContract ----------------------------
(***************************************************************************)
(* What a caller of executeTask may rely on, without the phases: a task is *)
(* open, its tools act and its workspace changes at most once, in that     *)
(* order and only for a vetted proposal, which is the last one; and it     *)
(* ends with one result, announced at most once on the bus                 *)
(* (task:complete).  A crash may lose an open task at any point.           *)
(*                                                                         *)
(* CoreLoop is shown to implement it (property Contract there).            *)
(***************************************************************************)

VARIABLES
    outcome,    \* "open", "lost" in a crash, "threw", or the result's status
    vetted,     \* who has passed the current proposal: "no" one, the "oracle" or a "peer"
    effects,    \* the mutating tools of the proposal have run
    workspace,  \* "clean", "applied", or "partial": some of the files written
    announced   \* task:complete has been emitted

vars == <<outcome, vetted, effects, workspace, announced>>

\* Statuses that promise that the proposal was not committed.
CleanStatuses == {"uncertain", "input-required", "escalated"}

Init ==
    /\ outcome = "open"
    /\ vetted = "no"
    /\ effects = FALSE
    /\ workspace = "clean"
    /\ announced = FALSE

\* Nothing has been done yet in the name of the proposal.
Untouched == ~effects /\ workspace = "clean"

\* A new proposal, or a new verdict on the current one.
Vet ==
    /\ outcome = "open"
    /\ Untouched
    /\ vetted' \in {"no", "oracle"}
    /\ UNCHANGED <<outcome, effects, workspace, announced>>

\* The tools of the proposal passed by the oracles act, whether or not the
\* rest of it is committed in the end.
Act ==
    /\ outcome = "open"
    /\ vetted = "oracle"
    /\ Untouched
    /\ effects' = TRUE
    /\ outcome' \in {"open", "threw"}
    /\ UNCHANGED <<vetted, workspace, announced>>

\* The proposal passed by the oracles reaches the workspace.
Change ==
    /\ outcome = "open"
    /\ vetted = "oracle"
    /\ workspace = "clean"
    /\ workspace' \in {"applied", "partial"}
    /\ UNCHANGED <<outcome, vetted, effects, announced>>

\* A peer instance answers in this one's place.
Delegate ==
    /\ outcome = "open"
    /\ Untouched
    /\ outcome' \in {"completed", "failed"} \union CleanStatuses
    /\ vetted' = "peer"
    /\ announced' = TRUE
    /\ UNCHANGED <<effects, workspace>>

\* Completed: announced, vetted, and with the whole change in place, or none to make.
Complete ==
    /\ outcome = "open"
    /\ vetted = "oracle"
    /\ workspace # "partial"
    /\ outcome' = "completed"
    /\ announced' = TRUE
    /\ UNCHANGED <<vetted, effects, workspace>>

\* The other ends, possibly on a last verdict.  Only a failure may follow a
\* change, when part of it was refused; what the tools did may be followed by
\* "uncertain" as well, when the change was withheld.
End ==
    /\ outcome = "open"
    /\ \/ outcome' = "failed" /\ workspace # "applied"
       \/ outcome' = "uncertain" /\ workspace = "clean"
       \/ outcome' \in CleanStatuses /\ Untouched
    /\ IF Untouched THEN vetted' \in {"no", "oracle", vetted} ELSE UNCHANGED vetted
    /\ announced' \in BOOLEAN
    /\ UNCHANGED <<effects, workspace>>

\* An exception leaves executeTask, possibly with the change in place.
Throw ==
    /\ outcome = "open"
    /\ outcome' = "threw"
    /\ UNCHANGED <<vetted, effects, workspace, announced>>

\* The process dies with the task.
Lose ==
    /\ outcome = "open"
    /\ outcome' = "lost"
    /\ UNCHANGED <<vetted, effects, workspace, announced>>

Next == Vet \/ Act \/ Change \/ Delegate \/ Complete \/ End \/ Throw \/ Lose

Spec == Init /\ [][Next]_vars

=============================================================================
