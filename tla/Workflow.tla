------------------------------- MODULE Workflow -------------------------------
(***************************************************************************)
(* One run of executeWorkflow (src/src/orchestrator/workflow/): the        *)
(* approval of the plan, the rounds of a collaboration block, the waves of *)
(* steps with their retries, fallbacks and watchdogs, the question asked   *)
(* before a damaged result is shipped, and what is returned.               *)
(*                                                                         *)
(* The planner's choice of a plan is the environment's: Init takes any of  *)
(* Plans through normalizeWorkflowPlan.  What a sub-task, a tool or a user *)
(* answers is the environment's too.  A call of executeTask that a watchdog*)
(* gave up on is still running: live counts such calls per sub-task id.    *)
(***************************************************************************)
EXTENDS Naturals, Sequences, FiniteSets

CONSTANTS
    Steps,      \* step ids
    Words,      \* those made of word characters only
    Plans,      \* plans as the planner emits them
    MaxRetries, \* MAX_STEP_RETRY_BUDGET
    MaxRounds   \* MAX_COLLABORATION_ROUNDS

Strategies == {"full-pipeline", "direct-tool", "knowledge-query", "llm-reasoning",
               "delegate-sub-agent", "human-input", "external-coding-cli"}

\* A retry budget the planner left out
Unset == 99

PlanType ==
    [order: Seq(Steps), deps: [Steps -> SUBSET Steps], strategy: [Steps -> Strategies],
     fallback: [Steps -> Strategies \union {"none"}], retries: [Steps -> Nat],
     primaries: SUBSET Steps, rounds: 0 .. MaxRounds,
     asks: SUBSET Steps, destructive: SUBSET Steps,
     setting: {"never", "always", "auto"}, long: BOOLEAN, sub: BOOLEAN]

\* The ids of a collaboration plan are made by buildCollaborationPlan: "p-<persona>"
ASSUME PlansAssumption ==
    /\ Words \subseteq Steps /\ MaxRetries \in Nat /\ MaxRounds \in Nat
    /\ \A p \in Plans :
        /\ p \in PlanType /\ Len(p.order) > 0
        /\ p.primaries \subseteq {p.order[i] : i \in DOMAIN p.order} \ Words
        /\ p.primaries # {} => p.rounds > 0
        /\ \A s \in p.primaries : p.strategy[s] = "delegate-sub-agent" /\ p.deps[s] = {}

VARIABLES
    plan,
    phase,   \* where executeWorkflow is
    gate,    \* how the approval was settled
    wave,    \* the steps of the current Promise.all
    stage,   \* where executeStep is
    res,     \* WorkflowStepResult.status; "blank" is a completed step without output
    fell,    \* the result is the fallback's (fallbackUsed, if the step is a delegate)
    spoke,   \* the persona itself gave the result
    seen,    \* the earlier results spliced into the step's prompt
    tries,   \* attempts after the first
    live,    \* executeTask calls of the step's sub-task id still running
    todo,    \* the step's TODO item as last announced
    record,  \* the delegate's record in the stage manifest
    error,   \* the record has an errorKind
    round,   \* of the collaboration block
    waiting, \* primaries whose call of this round has not settled
    last,    \* a primary's last successful round
    choice,  \* the user's answer to the partial-failure question
    status,  \* WorkflowResult.status
    answer   \* how synthesizedOutput was made

gateVars == <<phase, gate>>
stepVars == <<stage, res, fell, spoke, seen, tries, live>>
boardVars == <<todo, record, error>>
roundVars == <<round, waiting, last>>
endVars == <<choice, status, answer>>
vars == <<plan, phase, gate, wave, stepVars, boardVars, roundVars, endVars>>

-----------------------------------------------------------------------------
(* The plan *)

StepsOf(p) == {p.order[i] : i \in DOMAIN p.order}
DelegatesOf(p) == {s \in StepsOf(p) : p.strategy[s] = "delegate-sub-agent"}
Delegates == DelegatesOf(plan)
PlanSteps == StepsOf(plan)

\* clampRetryBudget
Clamped(p, s) ==
    IF p.retries[s] = Unset THEN (IF s \in DelegatesOf(p) THEN 1 ELSE 0)
    ELSE IF p.retries[s] > MaxRetries THEN MaxRetries ELSE p.retries[s]

AllowedFallback == {"llm-reasoning", "knowledge-query", "full-pipeline"}

\* A delegate's fallback is one of the allowed ones, or none, or the automatic
\* one when it is the plan's only delegate.
NormalFallback(p, s) ==
    IF s \notin DelegatesOf(p) \/ p.fallback[s] \in AllowedFallback THEN p.fallback[s]
    ELSE IF DelegatesOf(p) = {s} THEN "llm-reasoning" ELSE "none"

normalizeWorkflowPlan(p) ==
    [p EXCEPT !.retries = [s \in Steps |-> Clamped(p, s)],
              !.fallback = [s \in Steps |-> NormalFallback(p, s)]]

-----------------------------------------------------------------------------
(* Approval *)

HumanSteps == {s \in PlanSteps : plan.strategy[s] = "human-input"} \union plan.asks

ApprovalMode ==
    IF plan.sub \/ plan.setting = "never" THEN "none"
    ELSE IF HumanSteps # {} THEN "human-required"
    ELSE IF plan.setting = "always" \/ plan.long THEN "agent-discretion" ELSE "none"

Risky(s) ==
    \/ plan.strategy[s] = "full-pipeline"
    \/ plan.strategy[s] = "direct-tool" /\ s \in plan.destructive

AutoApproved == \A s \in PlanSteps : ~Risky(s)

Return(st, how) ==
    /\ phase' = "returned"
    /\ status' = st
    /\ answer' = how

Started ==
    IF plan.primaries = {} THEN "running" ELSE "collab"

\* Rounds start with every primary's call under way
FirstRound ==
    IF plan.primaries = {} THEN UNCHANGED roundVars
    ELSE round' = 1 /\ waiting' = plan.primaries /\ UNCHANGED last

OpenGate ==
    /\ phase = "planned"
    /\ IF ApprovalMode = "none"
       THEN phase' = Started /\ FirstRound
       ELSE phase' = "awaiting" /\ UNCHANGED roundVars
    /\ UNCHANGED <<plan, gate, wave, stepVars, boardVars, endVars>>

Approve ==
    /\ phase = "awaiting"
    /\ gate' = "approved"
    /\ phase' = Started
    /\ FirstRound
    /\ UNCHANGED <<plan, wave, stepVars, boardVars, endVars>>

Reject ==
    /\ phase = "awaiting"
    /\ gate' = "rejected"
    /\ Return("failed", "refusal")
    /\ UNCHANGED <<plan, wave, stepVars, boardVars, roundVars, choice>>

\* Slip: a timeout approves whatever the mode
GateTimeout_AnyMode ==
    /\ phase = "awaiting"
    /\ IF AutoApproved
       THEN /\ gate' = "auto"
            /\ phase' = Started
            /\ FirstRound
            /\ UNCHANGED <<status, answer>>
       ELSE gate' = "timeout" /\ Return("failed", "refusal") /\ UNCHANGED roundVars
    /\ UNCHANGED <<plan, wave, stepVars, boardVars, choice>>

\* Nobody answered: only a plan left to the agent's discretion may go on
GateTimeout ==
    /\ phase = "awaiting"
    /\ IF ApprovalMode = "agent-discretion" /\ AutoApproved
       THEN /\ gate' = "auto"
            /\ phase' = Started
            /\ FirstRound
            /\ UNCHANGED <<status, answer>>
       ELSE gate' = "timeout" /\ Return("failed", "refusal") /\ UNCHANGED roundVars
    /\ UNCHANGED <<plan, wave, stepVars, boardVars, choice>>

-----------------------------------------------------------------------------
(* The collaboration block *)

CollabAnswer(s) ==
    /\ phase = "collab" /\ s \in waiting
    /\ waiting' = waiting \ {s}
    /\ \E r \in {"completed", "blank", "failed"} :
        last' = IF r = "failed" THEN last ELSE [last EXCEPT ![s] = r]
    /\ UNCHANGED <<plan, gateVars, wave, stepVars, boardVars, round, endVars>>

\* Promise.allSettled: the next round, or the results of the last successful
\* ones.  Neither the TODO items nor the records of the primaries are updated.
RoundEnds ==
    /\ phase = "collab" /\ waiting = {}
    /\ IF round < plan.rounds
       THEN /\ round' = round + 1
            /\ waiting' = plan.primaries
            /\ UNCHANGED <<phase, res, spoke>>
       ELSE /\ phase' = "running"
            /\ res' = [s \in Steps |-> IF s \notin plan.primaries THEN res[s]
                                       ELSE IF last[s] = "none" THEN "failed" ELSE last[s]]
            /\ spoke' = [s \in Steps |-> s \in plan.primaries /\ last[s] # "none"]
            /\ UNCHANGED <<round, waiting>>
    /\ UNCHANGED <<plan, gate, wave, stage, fell, seen, tries, live, boardVars, last, endVars>>

-----------------------------------------------------------------------------
(* Waves of steps *)

Completed(s) == res[s] \in {"completed", "blank"}
Finished == {s \in PlanSteps : res[s] # "none"}
Remaining == PlanSteps \ (Finished \union plan.primaries)
Doomed == {s \in Remaining : \E d \in plan.deps[s] : d \in Finished /\ ~Completed(d)}

\* Slip: a step is ready once nothing it waits for remains
Ready_NotWaiting == {s \in Remaining \ Doomed : plan.deps[s] \intersect Remaining = {}}

Ready == {s \in Remaining \ Doomed : \A d \in plan.deps[s] : Completed(d)}

\* interpolateInputs: a reference is $<word>.result
Interpolated(s) == {d \in plan.deps[s] \intersect Words : res[d] # "none"}

\* What the stages of a step start with
Calls(strategy) == IF strategy = "delegate-sub-agent" THEN 1 ELSE 0

\* Slip: skipped steps are not announced
NextWave_NoSkipRecord ==
    /\ phase = "running" /\ wave = {} /\ Doomed \union Ready # {}
    /\ wave' = Ready
    /\ res' = [s \in Steps |-> IF s \in Doomed THEN "skipped" ELSE res[s]]
    /\ stage' = [s \in Steps |-> IF s \in Ready THEN "first" ELSE stage[s]]
    /\ seen' = [s \in Steps |-> IF s \in Ready THEN Interpolated(s) ELSE seen[s]]
    /\ live' = [s \in Steps |-> IF s \in Ready THEN live[s] + Calls(plan.strategy[s]) ELSE live[s]]
    /\ todo' = [s \in Steps |-> IF s \in Ready THEN "running" ELSE todo[s]]
    /\ record' = [s \in Steps |-> IF s \in Delegates \intersect Ready THEN "running" ELSE record[s]]
    /\ UNCHANGED <<plan, gateVars, fell, spoke, tries, error, roundVars, endVars>>

NextWave ==
    /\ phase = "running" /\ wave = {} /\ Doomed \union Ready # {}
    /\ wave' = Ready
    /\ res' = [s \in Steps |-> IF s \in Doomed THEN "skipped" ELSE res[s]]
    /\ stage' = [s \in Steps |-> IF s \in Ready THEN "first" ELSE stage[s]]
    /\ seen' = [s \in Steps |-> IF s \in Ready THEN Interpolated(s) ELSE seen[s]]
    /\ live' = [s \in Steps |-> IF s \in Ready THEN live[s] + Calls(plan.strategy[s]) ELSE live[s]]
    /\ todo' = [s \in Steps |-> IF s \in Doomed THEN "skipped"
                                ELSE IF s \in Ready THEN "running" ELSE todo[s]]
    /\ record' = [s \in Steps |-> IF s \notin Delegates THEN record[s]
                                  ELSE IF s \in Doomed THEN "skipped"
                                  ELSE IF s \in Ready THEN "running" ELSE record[s]]
    /\ error' = [s \in Steps |-> error[s] \/ s \in Doomed \intersect Delegates]
    /\ UNCHANGED <<plan, gateVars, fell, spoke, tries, roundVars, endVars>>

Strategy(s) == IF stage[s] = "fallback" THEN plan.fallback[s] ELSE plan.strategy[s]
Busy(s) == s \in wave /\ stage[s] \in {"first", "fallback"}
Delegating(s) == Busy(s) /\ Strategy(s) = "delegate-sub-agent"

\* isRetryableDelegateFailure, shouldSuppressFallback: only a delegate's
\* failure is classified at all
Retryable(s, kind) == s \in Delegates /\ kind = "transient"
Suppressed(s, kind) == s \in Delegates /\ kind = "infra"

\* Slip: the result of a fallback keeps the persona
Succeed_NoMark(s, r) ==
    /\ res' = [res EXCEPT ![s] = r]
    /\ stage' = [stage EXCEPT ![s] = "done"]
    /\ fell' = fell
    /\ spoke' = [spoke EXCEPT ![s] = Strategy(s) = "delegate-sub-agent"]
    /\ UNCHANGED tries

\* executeStep after an attempt has succeeded ...
Succeed(s, r) ==
    /\ res' = [res EXCEPT ![s] = r]
    /\ stage' = [stage EXCEPT ![s] = "done"]
    /\ fell' = [fell EXCEPT ![s] = stage[s] = "fallback"]
    /\ spoke' = [spoke EXCEPT ![s] = Strategy(s) = "delegate-sub-agent"]
    /\ UNCHANGED tries

\* ... or failed, left calls of its sub-task being still under way: another
\* attempt under the same sub-task id unless it would not fit in the time that is
\* left, the fallback, or a failed step.  The record's "failed" stands for
\* "timeout" too.
CanRetry(s, kind) ==
    stage[s] = "first" /\ Retryable(s, kind) /\ tries[s] < plan.retries[s]

\* Slip: retries are not counted
Again_Uncounted(s, left) ==
    /\ live' = [live EXCEPT ![s] = left + 1]
    /\ record' = [record EXCEPT ![s] = "running"]
    /\ UNCHANGED <<tries, stage, res, fell, spoke>>

Again(s, left) ==
    /\ tries' = [tries EXCEPT ![s] = @ + 1]
    /\ live' = [live EXCEPT ![s] = left + 1]
    /\ record' = [record EXCEPT ![s] = "running"]
    /\ UNCHANGED <<stage, res, fell, spoke>>

Fail(s, kind, left) ==
    \/ CanRetry(s, kind) /\ Again(s, left)
    \/ /\ stage[s] = "first" /\ plan.fallback[s] # "none" /\ ~Suppressed(s, kind)
       /\ stage' = [stage EXCEPT ![s] = "fallback"]
       /\ live' = [live EXCEPT ![s] = left + Calls(plan.fallback[s])]
       /\ record' = IF s \in Delegates THEN [record EXCEPT ![s] = "failed"] ELSE record
       /\ UNCHANGED <<res, fell, spoke, tries>>
    \/ /\ stage[s] = "fallback" \/ plan.fallback[s] = "none" \/ Suppressed(s, kind)
       /\ stage' = [stage EXCEPT ![s] = "done"]
       /\ res' = [res EXCEPT ![s] = "failed"]
       /\ fell' = [fell EXCEPT ![s] = stage[s] = "fallback"]
       /\ live' = [live EXCEPT ![s] = left]
       /\ record' = IF s \in Delegates THEN [record EXCEPT ![s] = "failed"] ELSE record
       /\ UNCHANGED <<spoke, tries>>

\* The sub-task settles first: with an answer, without one, or with a failure
\* whose text is classified by its words.
DelegateEnds(s) ==
    /\ Delegating(s)
    /\ \/ /\ Succeed(s, "completed")
          /\ live' = [live EXCEPT ![s] = @ - 1]
          /\ record' = IF s \in Delegates THEN [record EXCEPT ![s] = "done"] ELSE record
          /\ UNCHANGED error
       \/ \E kind \in {"transient", "permanent", "infra"} :
            /\ Fail(s, kind, live[s] - 1)
            /\ error' = [error EXCEPT ![s] = @ \/ s \in Delegates]
    /\ UNCHANGED <<plan, gateVars, wave, seen, todo, roundVars, endVars>>

\* Slip: the watchdog is not armed for a retry
WatchdogFires_Once(s) ==
    /\ Delegating(s) /\ tries[s] = 0
    /\ Fail(s, "transient", live[s])
    /\ error' = [error EXCEPT ![s] = @ \/ s \in Delegates]
    /\ UNCHANGED <<plan, gateVars, wave, seen, todo, roundVars, endVars>>

\* The sub-task has been silent for too long, or has run into the ceiling: the
\* watchdog wins the race.  The call goes on, executeTask is not told.
WatchdogFires(s) ==
    /\ Delegating(s)
    /\ Fail(s, "transient", live[s])
    /\ error' = [error EXCEPT ![s] = @ \/ s \in Delegates]
    /\ UNCHANGED <<plan, gateVars, wave, seen, todo, roundVars, endVars>>

\* A call that was given up on ends, unheard
ZombieEnds(s) ==
    /\ live[s] > (IF Delegating(s) THEN 1 ELSE 0)
    /\ live' = [live EXCEPT ![s] = @ - 1]
    /\ UNCHANGED <<plan, gateVars, wave, stage, res, fell, spoke, seen, tries,
                   boardVars, roundVars, endVars>>

\* What an attempt of another strategy can come to
Results(strategy) ==
    CASE strategy = "knowledge-query" -> {"completed"}
      [] strategy \in {"human-input", "external-coding-cli"} -> {"completed", "failed"}
      [] OTHER -> {"completed", "blank", "failed"}

OtherEnds(s) ==
    /\ Busy(s) /\ Strategy(s) # "delegate-sub-agent"
    /\ \E r \in Results(Strategy(s)) :
        IF r = "failed" THEN Fail(s, "permanent", live[s])
        ELSE Succeed(s, r) /\ UNCHANGED <<live, record>>
    /\ UNCHANGED <<plan, gateVars, wave, seen, todo, error, roundVars, endVars>>

\* The results of the wave are written down and announced
CollectWave ==
    /\ wave # {} /\ \A s \in wave : stage[s] = "done"
    /\ todo' = [s \in Steps |-> IF s \notin wave THEN todo[s]
                                ELSE IF Completed(s) THEN "done" ELSE res[s]]
    /\ wave' = {}
    /\ UNCHANGED <<plan, gateVars, stepVars, record, error, roundVars, endVars>>

-----------------------------------------------------------------------------
(* The result *)

\* buildResult: where the text of the answer comes from
LastStep == plan.order[Len(plan.order)]
Heard == {s \in Delegates : Completed(s)}
\* Slip: delegates are not looked at on their own
NothingToTell_Setup == \A s \in PlanSteps : ~Completed(s)

NothingToTell ==
    \/ \A s \in PlanSteps : ~Completed(s)
    \/ Delegates \intersect Finished # {} /\ Heard = {}

AnswerOf ==
    IF NothingToTell THEN "report"
    ELSE IF /\ Cardinality(Finished) > 1 /\ res[LastStep] = "completed"
            /\ plan.strategy[LastStep] = "llm-reasoning" /\ plan.deps[LastStep] # {}
            /\ \A s \in PlanSteps : LastStep \notin plan.deps[s] THEN "verbatim"
    ELSE IF Cardinality(Finished) = 1 THEN "single"
    ELSE IF Heard # {} THEN "aggregate" ELSE "synthesis"

\* Steps wait for each other, or for one that is not in the plan
Deadlock ==
    /\ phase = "running" /\ wave = {} /\ Remaining # {} /\ Doomed \union Ready = {}
    /\ todo' = [s \in Steps |-> IF s \in Remaining THEN "failed" ELSE todo[s]]
    /\ Return("failed", AnswerOf)
    /\ UNCHANGED <<plan, gate, wave, stepVars, record, error, roundVars, choice>>

SomeFailed == \E s \in PlanSteps : res[s] = "failed"

\* Slip: partial only if nothing completed
FinalStatus_Lenient == IF \A s \in PlanSteps : res[s] = "failed" THEN "partial" ELSE "completed"

FinalStatus == IF SomeFailed THEN "partial" ELSE "completed"

\* Slip: asked only if every delegate failed
Damaged_All ==
    /\ ~plan.sub
    /\ \A s \in Delegates : res[s] = "failed"
    /\ \E s \in PlanSteps : res[s] = "skipped"

\* A delegate failed and its failure made another step be skipped
Damaged ==
    /\ ~plan.sub
    /\ \E s \in Delegates : res[s] = "failed"
    /\ \E s \in PlanSteps : res[s] = "skipped"

Finish ==
    /\ phase = "running" /\ wave = {} /\ Remaining = {}
    /\ IF Damaged THEN phase' = "deciding" /\ UNCHANGED <<status, answer>>
       ELSE Return(FinalStatus, AnswerOf)
    /\ UNCHANGED <<plan, gate, wave, stepVars, boardVars, roundVars, choice>>

Decide ==
    /\ phase = "deciding"
    /\ \E c \in {"continue", "abort", "timeout"} :
        /\ choice' = c
        /\ IF c = "continue" THEN Return("partial", AnswerOf) ELSE Return("failed", "refusal")
    /\ UNCHANGED <<plan, gate, wave, stepVars, boardVars, roundVars>>

\* The outcome core-loop.ts records for the task of this workflow, by the strategy
\* each step's result came from
StrategyUsed(s) == IF fell[s] THEN plan.fallback[s] ELSE plan.strategy[s]
RanAsDelegate(s) == StrategyUsed(s) = "delegate-sub-agent"
TraceOutcome ==
    IF status = "completed" THEN "success"
    ELSE IF status = "failed" THEN "failure"
    ELSE LET asDelegate == {s \in Finished : RanAsDelegate(s)}
         IN  IF asDelegate # {} /\ \A s \in asDelegate : ~Completed(s) THEN "failure" ELSE "success"

-----------------------------------------------------------------------------
InitWorkflow ==
    /\ plan \in {normalizeWorkflowPlan(p) : p \in Plans}
    /\ phase = "planned" /\ gate = "none" /\ wave = {}
    /\ stage = [s \in Steps |-> "idle"]
    /\ res = [s \in Steps |-> "none"]
    /\ fell = [s \in Steps |-> FALSE]
    /\ spoke = [s \in Steps |-> FALSE]
    /\ seen = [s \in Steps |-> {}]
    /\ tries = [s \in Steps |-> 0]
    /\ live = [s \in Steps |-> 0]
    /\ todo = [s \in Steps |-> "pending"]
    /\ record = [s \in Steps |-> IF s \in Delegates THEN "planned" ELSE "none"]
    /\ error = [s \in Steps |-> FALSE]
    /\ round = 0 /\ waiting = {} /\ last = [s \in Steps |-> "none"]
    /\ choice = "none" /\ status = "none" /\ answer = "none"

NextWorkflow ==
    \/ OpenGate \/ Approve \/ Reject \/ GateTimeout
    \/ RoundEnds \/ NextWave \/ CollectWave \/ Deadlock \/ Finish \/ Decide
    \/ \E s \in Steps : \/ CollabAnswer(s) \/ DelegateEnds(s) \/ WatchdogFires(s)
                        \/ OtherEnds(s) \/ ZombieEnds(s)

SpecWorkflow == InitWorkflow /\ [][NextWorkflow]_vars

\* The attempt of a step that ends within a time limit of its own: a tool, a model
\* and a question to the user have one, a look-up is local.  A full-pipeline step
\* awaits executeTask as it is, and a coding CLI need not end (CodingCli).
Limited(s) == Strategy(s) \in {"direct-tool", "llm-reasoning", "knowledge-query", "human-input"}

\* The code schedules its own continuations, and its timers fire.  A sub-task may
\* hang, a user may stay away.
FairWorkflow ==
    /\ SpecWorkflow
    /\ WF_vars(OpenGate \/ GateTimeout \/ RoundEnds \/ NextWave \/ CollectWave
               \/ Deadlock \/ Finish \/ Decide)
    /\ \A s \in Steps : WF_vars(WatchdogFires(s) \/ (Limited(s) /\ OtherEnds(s)))

-----------------------------------------------------------------------------
(* Properties *)

\* Every variable holds a value of its kind, and a step makes no more attempts
\* than its clamped budget allows.
TypeOK ==
    /\ plan \in {normalizeWorkflowPlan(p) : p \in Plans}
    /\ phase \in {"planned", "awaiting", "collab", "running", "deciding", "returned"}
    /\ gate \in {"none", "approved", "rejected", "timeout", "auto"}
    /\ wave \subseteq PlanSteps
    /\ stage \in [Steps -> {"idle", "first", "fallback", "done"}]
    /\ res \in [Steps -> {"none", "completed", "blank", "failed", "skipped"}]
    /\ fell \in [Steps -> BOOLEAN] /\ spoke \in [Steps -> BOOLEAN]
    /\ seen \in [Steps -> SUBSET Steps]
    /\ \A s \in Steps : tries[s] \in 0 .. plan.retries[s]
    /\ \A s \in Steps : live[s] \in 0 .. tries[s] + 1
    /\ todo \in [Steps -> {"pending", "running", "done", "skipped", "failed"}]
    /\ record \in [Steps -> {"none", "planned", "running", "done", "failed", "skipped"}]
    /\ error \in [Steps -> BOOLEAN]
    /\ round \in 0 .. MaxRounds /\ waiting \subseteq plan.primaries
    /\ last \in [Steps -> {"none", "completed", "blank"}]
    /\ choice \in {"none", "continue", "abort", "timeout"}
    /\ status \in {"none", "completed", "partial", "failed"}
    /\ answer \in {"none", "refusal", "report", "verbatim", "single", "aggregate", "synthesis"}

\* Work of any kind, of any step, happens only in a plan that needed no approval,
\* that the user approved, or that was left to the agent, had no risky step and
\* needed no human (executeWorkflow's gate).
GateHolds ==
    (round > 0 \/ \E s \in Steps : stage[s] # "idle" \/ live[s] > 0) =>
        \/ ApprovalMode = "none"
        \/ gate = "approved"
        \/ /\ gate = "auto" /\ HumanSteps = {}
           /\ \A s \in PlanSteps : /\ plan.strategy[s] # "full-pipeline"
                                   /\ plan.strategy[s] = "direct-tool" => s \notin plan.destructive

\* A step that has run had all its dependencies completed, whether they ran in
\* an earlier wave or as primaries of the collaboration block.
DepsComplete ==
    \A s \in PlanSteps : stage[s] # "idle" => \A d \in plan.deps[s] : Completed(d)

\* A workflow reported as completed ran every step of its plan to completion.
CompletedIsWhole == status = "completed" => \A s \in PlanSteps : Completed(s)

\* A result labelled with a persona's name was given by that persona's sub-task,
\* never by the fallback that stood in for it.
HonestVoice ==
    \A s \in Delegates : Completed(s) /\ ~fell[s] => spoke[s]

\* No answer is made out of nothing: if the text claims to come from the steps,
\* a step completed, and of the delegates that were used at least one did.
HonestAnswer ==
    answer \in {"verbatim", "single", "aggregate", "synthesis"} =>
        /\ \E s \in PlanSteps : Completed(s)
        /\ Delegates \intersect Finished # {} => \E s \in Delegates : Completed(s)

\* A partial result that lost a step because a delegate failed is shipped by the
\* user's word only, never by default or after a timeout.
AskBeforePartial ==
    status = "partial" /\ ~plan.sub /\ (\E s \in Delegates : res[s] = "failed")
                       /\ (\E s \in PlanSteps : res[s] = "skipped") => choice = "continue"

\* When the workflow returns after its waves, every step outside the
\* collaboration block has a TODO item with the step's result, no delegate's
\* record is left planned or running, and a record is done only if the persona
\* answered.
BoardAgrees ==
    phase = "returned" /\ status \in {"completed", "partial"} =>
        \A s \in PlanSteps \ plan.primaries :
            /\ todo[s] = (IF Completed(s) THEN "done" ELSE res[s])
            /\ s \in Delegates => record[s] \in {"done", "failed", "skipped"}
            /\ record[s] = "done" => Completed(s) /\ ~fell[s]

\* Nothing is skipped unnoticed: by a step that runs too early, a status that says
\* more than was done, a user who was not asked, or a board that is not up to date.
WorkIsWhole == DepsComplete /\ CompletedIsWhole /\ AskBeforePartial /\ BoardAgrees

\* Nothing is made up: neither who said it nor what was said.
HonestResult == HonestVoice /\ HonestAnswer

\* What executeWorkflow awaits without a time limit: a primary's sub-task in a round
\* of a collaboration, a full-pipeline step's, or a coding CLI.
WaitsUnwatched ==
    \/ phase = "collab" /\ waiting # {}
    \/ \E s \in Steps : Busy(s) /\ Strategy(s) \in {"full-pipeline", "external-coding-cli"}

\* A workflow returns, whatever its delegates, tools and user do; the one thing that
\* can keep it for ever is a call that no watchdog guards and that never ends.
WorkflowReturns == <>(phase = "returned") \/ <>[]WaitsUnwatched

-----------------------------------------------------------------------------
(* Statements of the code's comments that the code does not keep *)

\* core-loop.ts:2655: "`partial` means a usable answer was produced even though
\* one or more sub-steps failed".
PartialIsUsable == status = "partial" => answer # "report"

\* core-loop.ts:2606: of a partial workflow's trace, "some delegates succeeded ->
\* 'success'".
SuccessIsTraced == phase = "returned" /\ TraceOutcome = "success" => \E s \in PlanSteps : Completed(s)

\* approval-gate.ts:304, the rationale of an automatic approval: "every step is
\* read-only / no-side-effect".
Writes == {"full-pipeline", "external-coding-cli"}
AutoApprovalIsReadOnly ==
    gate = "auto" => \A s \in PlanSteps : {plan.strategy[s], plan.fallback[s]} \intersect Writes = {}

\* workflow-executor.ts:1775, after a timeout: "sub-task's work cancelled; sub-agent's
\* run cancelled".
CancelledWorkStops == \A s \in Steps : live[s] <= 1
ReturnedWorkStops == phase = "returned" => \A s \in Steps : live[s] = 0

\* A record that says done has no errorKind: a retry's success does not clear it.
DoneHasNoError == \A s \in Steps : record[s] = "done" => ~error[s]

\* collaboration-block.ts:76: the integrator dispatches "with the primaries'
\* outputs available as `inputs` substitution targets".
IntegratorReadsPrimaries ==
    \A s \in PlanSteps \ plan.primaries : stage[s] # "idle" => plan.deps[s] \intersect plan.primaries \subseteq seen[s]

\* collaboration-block.ts:303, Phase C: "the synthesizer (integrator) sees only
\* completed primaries' outputs", so it runs when one of them failed.
IntegratorHearsSurvivors ==
    status = "partial" /\ (\E s \in plan.primaries : Completed(s)) => \A s \in PlanSteps : res[s] # "skipped"

\* workflow-executor.ts:858 marks a primary's plan step done: its TODO item too.
CollabBoardClosed ==
    phase = "returned" /\ status = "completed" => \A s \in plan.primaries : todo[s] = "done"

\* workflow-executor.ts:1841, of a delegate without an answer: "Mark it as failed",
\* in a block as elsewhere.
EmptyAnswerFails == \A s \in Delegates : res[s] = "blank" => fell[s]

\* workflow-executor.ts:1642, of a sub-task that hangs: it "could hang the entire
\* workflow" but for the watchdog.  The sub-tasks of a round have none, nor have those
\* of full-pipeline steps.
CollaborationReturns == (plan.primaries # {}) => <>(phase = "returned")
PipelineReturns == (plan.primaries = {}) => <>(phase = "returned")
=============================================================================
