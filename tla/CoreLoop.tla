------------------------------ MODULE CoreLoop ------------------------------
(***************************************************************************)
(* One task in the orchestrator's core loop: executeTaskCore of            *)
(* src/src/orchestrator/core-loop.ts from the routing call on, with its    *)
(* phases, the risk router that chooses the level, the wall clock, the     *)
(* task:complete event with its listener, and the checkpoint row that      *)
(* survives a crash.  The goal loop (which would run executeTaskCore again *)
(* and again) is off, and the bus and the checkpoint store are configured. *)
(*                                                                         *)
(* Each action is one phase: the code between two awaits that another      *)
(* actor may use.  The agent, the tools, the oracles, the critic, the      *)
(* human and the predictor are external: each of their answers is a        *)
(* choice.  Time is counted in units of 250 ms and passes (Tick) whenever  *)
(* the task is open.                                                       *)
(***************************************************************************)
EXTENDS Integers, Sequences

CONSTANTS
    TaskKinds,      \* the tasks considered, see KindAssumption
    MaxRetries,     \* input.budget.maxRetries
    Duration,       \* input.budget.maxDurationMs, in units of 250 ms
    TokenCap,       \* budget.maxTokens * BUDGET_CAP_MULTIPLIER
    AttemptTokens   \* the most tokens one attempt uses

MaxLevel == 3   \* MAX_ROUTING_LEVEL
Levels == 0..MaxLevel

ConversationalLevel == 1    \* MAX_CONVERSATIONAL_LEVEL
HardDegradeLevel == 1       \* BudgetEnforcer, enforcement 'degrade'
Safety == 1                 \* WALL_CLOCK_SAFETY_MS
EscalationMin == 2          \* ESCALATION_MIN_REMAINING_MS

\* risk: the level of the risk score by the thresholds alone.  calibrated: the
\* self-model's signal allows epistemic de-escalation.  floor: 2 in production,
\* 1 when the blast radius is over one file.  mins: the MIN_ROUTING_LEVEL
\* constraints of the caller, in order.
KindAssumption ==
    TaskKinds \subseteq
        [risk : Levels, calibrated : BOOLEAN, floor : 0..2, reasoning : BOOLEAN,
         needsTools : BOOLEAN, domain : {"conversational", "inquire", "other"},
         mins : {<<>>} \union {<<l>> : l \in Levels}]

ASSUME CoreAssumption ==
    /\ KindAssumption
    /\ MaxRetries \in Nat /\ Duration \in Nat /\ TokenCap \in Nat /\ AttemptTokens \in Nat

VARIABLES
    task,       \* the task, a member of TaskKinds
    pc,         \* the phase that runs next
    level,      \* routing.level
    cap,        \* min(baseMaxLevel, softDegradeCap)
    retry,      \* the counter of the inner loop
    remaining,  \* wall-clock budget left, not below 0
    tokens,     \* totalTokensConsumed
    mutates,    \* the candidate has file mutations
    tools,      \* mutatingToolCalls: "none", "proposed", "ran", or "wrote": they
                \* ran, and added files to the candidate
    gate,       \* the last verdict on the candidate: of the oracle gate or a peer
    verdict,    \* verification of phase verify, which HMS may have "blocked"
    commit,     \* shouldCommit
    workspace,  \* what commitArtifacts did: "clean", "applied", "partial", "rejected"
    checkpoint, \* the task's row in task_checkpoints
    swallowed,  \* the writes of that row that failed and were caught: a "save", the "end"
    result,     \* what the caller of executeTask got
    completes   \* how often task:complete was emitted

loopVars == <<level, retry>>
budgetVars == <<remaining, tokens>>
workVars == <<mutates, tools, gate, verdict, commit, workspace>>
endVars == <<checkpoint, swallowed, result, completes>>
vars == <<task, pc, level, cap, retry, remaining, tokens, mutates, tools, gate, verdict,
          commit, workspace, checkpoint, swallowed, result, completes>>

Phases == {"prepare", "attempt", "understand", "predict", "plan", "generate", "dispatch",
           "ground", "verify", "re-verify", "learn", "review", "tools", "commit", "report",
           "escalate"}
Statuses == {"completed", "failed", "uncertain", "input-required", "escalated"}

TypeOK ==
    /\ task \in TaskKinds
    /\ pc \in Phases \union {"returned", "down", "restarted"}
    /\ level \in Levels
    /\ cap \in Levels
    /\ retry \in 0..MaxRetries
    /\ remaining \in 0..Duration
    /\ tokens \in 0..(TokenCap + AttemptTokens)
    /\ mutates \in BOOLEAN
    /\ tools \in {"none", "proposed", "ran", "wrote"}
    /\ gate \in {"none", "passed", "rejected", "peer"}
    /\ verdict \in {"none", "passed", "rejected", "blocked"}
    /\ commit \in BOOLEAN
    /\ workspace \in {"clean", "applied", "partial", "rejected"}
    /\ checkpoint \in {"none", "dispatched", "completed", "failed", "abandoned"}
    /\ swallowed \subseteq {"save", "end"}
    /\ result \in Statuses \union {"none", "threw"}
    /\ completes \in 0..1

Init ==
    /\ task \in TaskKinds
    /\ pc = "prepare"
    /\ level = 0
    /\ cap = MaxLevel
    /\ retry = 0
    /\ remaining = Duration
    /\ tokens = 0
    /\ mutates = FALSE
    /\ tools = "none"
    /\ gate = "none"
    /\ verdict = "none"
    /\ commit = FALSE
    /\ workspace = "clean"
    /\ checkpoint = "none"
    /\ swallowed = {}
    /\ result = "none"
    /\ completes = 0

-----------------------------------------------------------------------------
(* The risk router.                                                        *)

AtLeast(a, b) == IF a < b THEN b ELSE a
AtMost(a, b) == IF a > b THEN b ELSE a

\* routeByRisk: epistemic de-escalation by one level, then the floors.
RouteByRisk(risk, calibrated, floor) ==
    AtLeast(IF calibrated /\ risk > 0 THEN risk - 1 ELSE risk, floor)

\* assessInitialLevel, for the constraints mins: the first one counts, and 0 is
\* a fast path on which only the production floor applies.
AssessLevel(mins) ==
    LET base == RouteByRisk(task.risk, task.calibrated, task.floor)
        llm  == IF task.reasoning THEN AtLeast(base, 1) ELSE base
    IN  IF mins = <<>> THEN llm
        ELSE IF mins[1] = 0 THEN (IF task.floor = 2 THEN 2 ELSE 0)
        ELSE IF llm < mins[1]
          THEN RouteByRisk(AtLeast(task.risk, mins[1]), task.calibrated, task.floor)
          ELSE llm

\* The caller pinned the task to L0: escalation is not allowed.
Pinned == task.mins = <<0>>

-----------------------------------------------------------------------------
(* How a task ends.                                                        *)

\* complete() or fail() on the checkpoint, which touch nothing when no attempt
\* has been saved.
Recorded(status) ==
    IF checkpoint = "none" THEN "none"
    ELSE IF status \in {"completed", "input-required"} THEN "completed" ELSE "failed"

\* The task:complete listener writes the end into the row; a write that fails is
\* caught ("non-fatal").
RecordEnd(status) ==
    \/ checkpoint' = Recorded(status) /\ UNCHANGED swallowed
    \/ swallowed' = swallowed \union {"end"} /\ UNCHANGED checkpoint

\* The result is announced on the bus and returned.
Finish(status) ==
    /\ pc' = "returned"
    /\ result' = status
    /\ completes' = completes + 1
    /\ RecordEnd(status)

\* The result is returned, and nothing is announced.
FinishSilently(status) ==
    /\ pc' = "returned"
    /\ result' = status
    /\ UNCHANGED <<completes, checkpoint, swallowed>>

\* An exception leaves executeTask.
Escape ==
    /\ pc' = "returned"
    /\ result' = "threw"
    /\ UNCHANGED <<completes, checkpoint, swallowed>>

Goto(phase) ==
    /\ pc' = phase
    /\ UNCHANGED endVars

\* continue: the next turn of the inner loop.
NextAttempt ==
    /\ Goto("attempt")
    /\ retry' = retry + 1
    /\ UNCHANGED level

-----------------------------------------------------------------------------
(* The phases, in the order of the loop.                                   *)

\* The domain caps, then the capability floor of tool-needed tasks.
DomainLevel(l) ==
    LET capped == IF task.domain = "other" THEN l ELSE AtMost(l, ConversationalLevel)
    IN  IF task.needsTools THEN AtLeast(capped, 2) ELSE capped

\* prepareExecution: the router, evolution rules and exploration (each may only
\* raise the level), the domain caps, and the economy: a global budget that
\* blocks, degrades hard, degrades softly to the level soft, or none of these.
Prepare ==
    /\ pc = "prepare"
    /\ \E raised \in AssessLevel(task.mins)..MaxLevel, soft \in Levels :
         LET start == DomainLevel(raised)
             soft2 == IF task.needsTools THEN AtLeast(soft, 2) ELSE soft
             base  == IF task.domain = "conversational" THEN ConversationalLevel ELSE MaxLevel
         IN  \/ FinishSilently("failed") /\ UNCHANGED <<level, cap>>
             \/ /\ level' = start
                /\ cap' = base
                /\ Goto("attempt")
             \/ /\ start > HardDegradeLevel
                /\ level' = HardDegradeLevel
                /\ cap' = base
                /\ Goto("attempt")
             \/ /\ start > soft2
                /\ level' = soft2
                /\ cap' = AtMost(base, soft2)
                /\ Goto("attempt")
    /\ UNCHANGED <<task, retry, budgetVars, workVars>>

\* The head of the inner loop, with the refuse-to-start check.
BeginAttempt ==
    /\ pc = "attempt"
    /\ IF retry >= MaxRetries THEN Goto("escalate")
       ELSE IF remaining <= Safety THEN Finish("failed")
       ELSE Goto("understand")
    /\ UNCHANGED <<task, loopVars, cap, budgetVars, workVars>>

\* Brainstorm, perceive, the grounding boundary, comprehension and spec: each
\* may end the task, to fail it closed or to ask the user.
Understand ==
    /\ pc = "understand"
    /\ \/ Goto("predict")
       \/ \E s \in {"failed", "input-required"} : Finish(s)
    /\ UNCHANGED <<task, loopVars, cap, budgetVars, workVars>>

\* Predict and select a worker: a forecast or a cold start raises the level.
\* With no capable worker the task goes to a peer, whose result is verified
\* when it has mutations, or is given up.
Predict ==
    /\ pc = "predict"
    /\ \/ /\ level' \in level..MaxLevel
          /\ Goto("plan")
          /\ UNCHANGED gate
       \/ /\ \E s \in Statuses : Finish(s)
          /\ gate' = "peer"
          /\ UNCHANGED level
       \/ Finish("uncertain") /\ UNCHANGED <<level, gate>>
    /\ UNCHANGED <<task, cap, retry, budgetVars, mutates, tools, verdict, commit, workspace>>

\* Plan: the human may reject the plan, which announces nothing.
Plan ==
    /\ pc = "plan"
    /\ \/ Goto("generate")
       \/ FinishSilently("failed")
       \/ \E s \in {"failed", "input-required"} : Finish(s)
    /\ UNCHANGED <<task, loopVars, cap, budgetVars, workVars>>

\* Slip: no checkpoint is saved before dispatch.
Saved_Never == UNCHANGED <<checkpoint, swallowed>>

\* checkpoint.save: INSERT OR REPLACE with status 'dispatched'.  When it fails the
\* dispatch goes on without crash protection.
Saved ==
    \/ checkpoint' = "dispatched" /\ UNCHANGED swallowed
    \/ swallowed' = swallowed \union {"save"} /\ UNCHANGED checkpoint

\* Generate begins: an agent in quarantine ends the task before anything is
\* saved, otherwise the checkpoint of this attempt is.
Generate ==
    /\ pc = "generate"
    /\ \/ Finish("failed")
       \/ pc' = "dispatch" /\ Saved /\ UNCHANGED <<result, completes>>
    /\ UNCHANGED <<task, loopVars, cap, budgetVars, workVars>>

\* The human rejects the dispatch, or the worker fails for good.
DispatchRefused == Finish("failed") /\ UNCHANGED <<retry, tokens, mutates, tools, gate, verdict>>

\* The quality gates retry before the tokens are counted.
QualityRetry ==
    /\ Goto("attempt")
    /\ retry' = retry + 1
    /\ UNCHANGED <<tokens, mutates, tools, gate, verdict>>

\* A candidate within the token budget, with or without mutating tools to run.
Candidate ==
    /\ Goto("ground")
    /\ mutates' \in BOOLEAN
    /\ tools' \in {"none", "proposed"}
    /\ gate' = "none"
    /\ verdict' = "none"

\* The tokens of the attempt are counted; beyond the budget the task fails.
Charge ==
    /\ \E used \in 0..AttemptTokens : tokens' = tokens + used
    /\ UNCHANGED retry
    /\ \/ tokens' > TokenCap /\ Finish("failed") /\ UNCHANGED <<mutates, tools, gate, verdict>>
       \/ tokens' <= TokenCap /\ Candidate

\* The rest of generate: approval, dispatch, quality gates, budget.
Dispatch ==
    /\ pc = "dispatch"
    /\ DispatchRefused \/ QualityRetry \/ Charge
    /\ UNCHANGED <<task, level, cap, remaining, commit, workspace>>

\* After generation: the grounding boundary, and the agent's question to the
\* user, taken only when the candidate changes nothing.
Ground ==
    /\ pc = "ground"
    /\ \/ Goto("verify")
       \/ \E s \in {"failed", "input-required"} : Finish(s)
    /\ UNCHANGED <<task, loopVars, cap, budgetVars, workVars>>

\* Slip: a high composite overrides the oracle's rejection.
Downgraded_Never(decision, passed) == decision

\* A3: 'allow' is never kept for a rejected candidate.
Downgraded(decision, passed) ==
    IF decision = "allow" /\ ~passed THEN "re-verify" ELSE decision

\* An oracle contradiction: escalate one level, whatever the caps, or fail at L3
\* without an announcement.
Contradict ==
    /\ gate' = "rejected"
    /\ verdict' = "rejected"
    /\ UNCHANGED commit
    /\ IF level < MaxLevel
         THEN /\ Goto("attempt")
              /\ level' = level + 1
              /\ retry' = 0
         ELSE FinishSilently("failed") /\ UNCHANGED loopVars

\* The oracle gate, the HMS block, and the decision by pipeline confidence.
Decide(passed, block, decision) ==
    LET ok      == passed /\ ~block
        kept    == Downgraded(decision, ok)
        commits == IF level = 0 THEN ok ELSE (~mutates /\ ok) \/ kept = "allow"
    IN  /\ gate' = IF passed THEN "passed" ELSE "rejected"
        /\ verdict' = IF block THEN "blocked" ELSE IF passed THEN "passed" ELSE "rejected"
        /\ UNCHANGED loopVars
        /\ commit' = commits
        /\ IF level = 0 /\ ~ok /\ Pinned THEN FinishSilently("escalated")
           ELSE IF level > 0 /\ ~commits /\ kept = "re-verify" THEN Goto("re-verify")
           ELSE Goto("learn")

Verify ==
    /\ pc = "verify"
    /\ \/ Contradict
       \/ \E passed, block \in BOOLEAN,
             decision \in {"allow", "re-verify", "escalate", "refuse"} :
            Decide(passed, block, decision)
    /\ UNCHANGED <<task, cap, budgetVars, mutates, tools, workspace>>

\* The second run of the gate, on the same candidate: only its verdict counts.
ReVerify ==
    /\ pc = "re-verify"
    /\ commit' \in BOOLEAN
    /\ gate' = IF commit' THEN "passed" ELSE "rejected"
    /\ Goto("learn")
    /\ UNCHANGED <<task, loopVars, cap, budgetVars, mutates, tools, verdict, workspace>>

\* The grounding boundary after verify may end the task; a candidate that may not
\* be committed costs a retry.
Learn ==
    /\ pc = "learn"
    /\ \/ \E s \in {"failed", "input-required"} : Finish(s) /\ UNCHANGED loopVars
       \/ ~commit /\ NextAttempt
       \/ commit /\ Goto("review") /\ UNCHANGED loopVars
    /\ UNCHANGED <<task, cap, budgetVars, workVars>>

\* The critic and the generated tests (L2 and up, for mutations).
Review ==
    /\ pc = "review"
    /\ \/ Goto("tools") /\ UNCHANGED loopVars
       \/ level >= 2 /\ mutates /\ NextAttempt
    /\ UNCHANGED <<task, cap, budgetVars, workVars>>

\* The proposed mutating tools run when phase verify passed the candidate (a
\* re-verified one goes without).  They act at once, may add files to the
\* candidate, and may throw half-way.
RunTools ==
    /\ pc = "tools"
    /\ IF tools = "proposed" /\ verdict = "passed"
         THEN \/ /\ Goto("commit") \/ Escape
                 /\ tools' = "ran"
                 /\ UNCHANGED mutates
              \/ /\ Goto("commit")
                 /\ tools' = "wrote"
                 /\ mutates' = TRUE
         ELSE Goto("commit") /\ UNCHANGED <<tools, mutates>>
    /\ UNCHANGED <<task, loopVars, cap, budgetVars, gate, verdict, commit, workspace>>

\* The work of a worker in probation is withheld.  Otherwise commitArtifacts:
\* preflight rejects everything, or files are written, not necessarily all.
Commit ==
    /\ pc = "commit"
    /\ \/ Finish("uncertain") /\ UNCHANGED workspace
       \/ /\ Goto("report")
          /\ workspace' \in IF mutates THEN {"applied", "partial", "rejected"} ELSE {"clean"}
    /\ UNCHANGED <<task, loopVars, cap, budgetVars, mutates, tools, gate, verdict, commit>>

\* Slip: rejected files do not fail the task.
Reported_Always == "completed"

Reported == IF workspace \in {"partial", "rejected"} THEN "failed" ELSE "completed"

\* The shadow job of L2 and up is inserted first, outside any try.
Report ==
    /\ pc = "report"
    /\ \/ Finish(Reported)
       \/ level >= 2 /\ Escape
    /\ UNCHANGED <<task, loopVars, cap, budgetVars, workVars>>

\* Slip: only the global maximum stops the escalation.
AtCap_GlobalOnly == level + 1 > MaxLevel

\* Slip: compares the present level with the cap, not the next one.
AtCap_OffByOne == level > cap

AtCap == level + 1 > cap

\* Slip: the clock restarts with the routing level.
Reroute_NewClock ==
    /\ Goto("attempt")
    /\ level' = AssessLevel(Append(task.mins, level + 1))
    /\ retry' = 0
    /\ remaining' = Duration
    /\ UNCHANGED tokens

\* Ask the router again with MIN_ROUTING_LEVEL appended to the constraints.
Reroute ==
    /\ Goto("attempt")
    /\ level' = AssessLevel(Append(task.mins, level + 1))
    /\ retry' = 0
    /\ UNCHANGED budgetVars

\* Retries exhausted: give up at the cap, refuse to escalate without time, or
\* escalate.
Escalate ==
    /\ pc = "escalate"
    /\ \/ AtCap /\ Finish("escalated") /\ UNCHANGED <<loopVars, budgetVars>>
       \/ /\ ~AtCap /\ remaining < EscalationMin
          /\ Finish("failed")
          /\ UNCHANGED <<loopVars, budgetVars>>
       \/ ~AtCap /\ remaining >= EscalationMin /\ Reroute
    /\ UNCHANGED <<task, cap, workVars>>

\* The phases that record a trace which must be durable.
Tracing == {"prepare", "understand", "predict", "ground", "verify", "learn", "escalate"}

\* Something a phase awaits or calls rejects, and no handler on the way makes it
\* a result, except for a trace that cannot be persisted: A9, fail closed.
Throw ==
    /\ pc \in Phases \ {"attempt", "report"}
    /\ Escape \/ (pc \in Tracing /\ Finish("failed"))
    /\ UNCHANGED <<task, loopVars, cap, budgetVars, workVars>>

-----------------------------------------------------------------------------
(* The environment.                                                        *)

Tick ==
    /\ pc \in Phases
    /\ remaining > 0
    /\ remaining' = remaining - 1
    /\ UNCHANGED <<task, pc, loopVars, cap, tokens, workVars, endVars>>

\* The process dies, and the loop's memory with it; the checkpoint row and the
\* workspace stay.  What was done and returned is kept for the properties.
Crash ==
    /\ pc \in Phases \union {"returned"}
    /\ pc' = "down"
    /\ level' = 0
    /\ cap' = MaxLevel
    /\ retry' = 0
    /\ remaining' = Duration
    /\ UNCHANGED <<task, tokens, workVars, endVars>>

\* Startup recovery: every row still 'dispatched' is abandoned.
Restart ==
    /\ pc = "down"
    /\ pc' = "restarted"
    /\ checkpoint' = IF checkpoint = "dispatched" THEN "abandoned" ELSE checkpoint
    /\ UNCHANGED <<task, loopVars, cap, budgetVars, workVars, swallowed, result, completes>>

Step ==
    \/ Prepare \/ BeginAttempt \/ Understand \/ Predict \/ Plan \/ Generate \/ Dispatch
    \/ Ground \/ Verify \/ ReVerify \/ Learn \/ Review \/ RunTools \/ Commit \/ Report
    \/ Escalate \/ Throw

Next == Step \/ Tick \/ Crash \/ Restart

Spec == Init /\ [][Next]_vars

(* The event loop goes on with the task while the process lives: each phase *)
(* returns (the worker is bounded by its clamped latency budget, approval   *)
(* by its own timeout).  Time passes.                                       *)
Fairness == WF_vars(Step) /\ WF_vars(Tick)

FairSpec == Spec /\ Fairness

-----------------------------------------------------------------------------

\* Nothing is committed, no mutating tool runs and no completed result is returned
\* unless the last oracle gate run on the generated candidate passed (a peer's
\* result is vetted on its own): not a high composite, a retry, a contradiction,
\* an HMS block or a re-verification may stand in for it.
CommitVerified ==
    /\ workspace # "clean" => mutates /\ gate = "passed"
    /\ tools \in {"ran", "wrote"} => gate = "passed" /\ verdict = "passed"
    /\ result = "completed" => gate \in {"passed", "peer"}

\* The checkpoint row tells a restart the truth, but for the very write that
\* failed and was caught: what is completed here stays completed there, whatever
\* the earlier attempts wrote and whenever the process dies; an announced end is
\* taken for an interrupted task only when the write of the end failed, and a
\* completed task is unknown only when no save succeeded; and a task that dies
\* with an attempt paid for is found and abandoned, unless it could not be saved.
CompletedSurvivesCrash ==
    /\ result = "completed" /\ gate = "passed" =>
          \/ checkpoint = "completed"
          \/ checkpoint = "none" /\ "save" \in swallowed
          \/ checkpoint \in {"dispatched", "abandoned"} /\ "end" \in swallowed
    /\ completes = 1 /\ checkpoint \in {"dispatched", "abandoned"} => "end" \in swallowed
    /\ pc = "restarted" /\ tokens > 0 /\ result = "none" =>
          \/ checkpoint = "abandoned"
          \/ checkpoint = "none" /\ "save" \in swallowed

\* The routing loop's own escalation ends at or below the domain cap and the
\* soft-degrade cap, although the router that picks the level knows neither.
EscalationWithinCap ==
    [][pc = "escalate" /\ pc' = "attempt" => level' <= cap]_vars

\* Every task ends, also when re-routing makes no progress or the oracles
\* contradict each other over and over: the wall clock sees to it.
TaskEnds == pc \in Phases ~> pc \in {"returned", "down", "restarted"}

\* The task as its caller sees it.
Outcome ==
    IF result # "none" THEN result ELSE IF pc \in Phases THEN "open" ELSE "lost"

Contract == INSTANCE TaskContract WITH
    outcome   <- Outcome,
    vetted    <- IF gate = "passed" THEN "oracle" ELSE IF gate = "peer" THEN "peer" ELSE "no",
    workspace <- IF workspace = "rejected" THEN "clean" ELSE workspace,
    effects   <- tools \in {"ran", "wrote"},
    announced <- completes = 1

\* The core loop implements the contract its callers rely on.
MeetsContract == Contract!Spec

(* Statements of the source that the code does not keep.                   *)

\* phase-verify.ts: the HMS gate BLOCKs verification "entirely (not just
\* attenuate)", so a blocked candidate is never the completed one.
HmsBlockHolds == result = "completed" /\ gate = "passed" => verdict # "blocked"

\* core-loop.ts commits "verified mutations": every file that is committed was in
\* the candidate that the gate saw.
CommitsWhatWasVerified == workspace \in {"applied", "partial"} => tools # "wrote"

\* core-loop.ts: callers can tell from 'uncertain' "that nothing landed on disk".
WithheldLeavesNothing == result = "uncertain" => tools \notin {"ran", "wrote"}

\* core-loop.ts: after a soft degrade "the routing loop must not escalate back
\* above this level on retry", so a contradiction that retries from within the
\* cap stays within it.
SoftCapHolds ==
    [][pc = "verify" /\ pc' = "attempt" /\ task.domain = "other" /\ level <= cap
         => level' <= cap]_vars

\* core-loop.ts: exhausted retries "escalate routing level" (of a task that the
\* caller has not pinned to L0).
EscalationRaisesLevel ==
    [][pc = "escalate" /\ pc' = "attempt" /\ ~Pinned => level' > level]_vars

\* task-checkpoint-store.ts: what a restart abandons are "crash survivors",
\* tasks that never completed or failed.
OnlySurvivorsAbandoned == checkpoint = "abandoned" => result \notin Statuses

=============================================================================
