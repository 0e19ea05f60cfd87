---------------------------- MODULE Workflow_proofs ----------------------------
(***************************************************************************)
(* Proofs for Workflow: for any plans, retry caps and rounds, nothing runs *)
(* behind the approval's back, no step is skipped unnoticed, and nothing   *)
(* is said in the name of a persona that did not say it.                   *)
(***************************************************************************)
EXTENDS Workflow, TLAPS

-----------------------------------------------------------------------------
(* The inductive invariant *)

\* The steps that run in waves: a collaboration block runs its primaries itself.
InWaves(s) == s \in PlanSteps \ plan.primaries

\* Where a step is, and what it may have come to there.
StageAndResult(s) ==
    /\ s \in wave => stage[s] # "idle"
    /\ stage[s] # "idle" => InWaves(s)
    /\ stage[s] \in {"first", "fallback"} => s \in wave /\ res[s] = "none"
    /\ stage[s] = "done" => res[s] \in {"completed", "blank", "failed"}
    /\ stage[s] = "idle" /\ s \notin plan.primaries => res[s] \in {"none", "skipped"}
    /\ s \in plan.primaries => res[s] # "skipped"
    /\ s \notin PlanSteps => res[s] = "none"

\* A step that is not a delegate is not retried, so it has one call at most: its
\* fallback's.  The call that a watchdog watches is one of those under way.
CallsAreCounted(s) ==
    /\ stage[s] = "idle" => tries[s] = 0 /\ live[s] = 0
    /\ s \notin Delegates => tries[s] = 0 /\ (stage[s] = "first" => live[s] = 0)
    /\ Delegating(s) => live[s] > 0
    /\ tries[s] <= plan.retries[s]
    /\ live[s] <= tries[s] + 1

\* What is announced of a step follows its result.  A delegate's record is done
\* only before a fallback takes over.
BoardFollows(s) ==
    /\ InWaves(s) /\ s \notin wave /\ res[s] # "none" =>
          todo[s] = (IF Completed(s) THEN "done" ELSE res[s])
    /\ s \notin Delegates => record[s] = "none"
    /\ s \in Delegates =>
          /\ stage[s] = "first" => record[s] = "running"
          /\ stage[s] = "fallback" => record[s] = "failed"
          /\ stage[s] = "done" => record[s] \in {"done", "failed"}
          /\ res[s] = "skipped" => record[s] = "skipped"
          /\ record[s] = "done" => stage[s] = "done" /\ Completed(s) /\ ~fell[s]

SpeaksForItself(s) == s \in Delegates /\ Completed(s) /\ ~fell[s] => spoke[s]

StepInv(s) ==
    StageAndResult(s) /\ CallsAreCounted(s) /\ BoardFollows(s) /\ SpeaksForItself(s)

\* What is true of all steps, by where the workflow is.
Untouched == round = 0 /\ \A s \in Steps : stage[s] = "idle" /\ live[s] = 0

PhaseInv ==
    /\ phase \in {"planned", "awaiting"} => Untouched
    /\ phase \in {"planned", "awaiting", "collab"} =>
          \A s \in Steps : stage[s] = "idle" /\ res[s] = "none"
    /\ phase \in {"running", "deciding"} => \A s \in plan.primaries : res[s] # "none"
    /\ phase = "deciding" \/ status \in {"completed", "partial"} =>
          \A s \in PlanSteps : res[s] # "none"
    /\ phase # "returned" => status = "none" /\ answer = "none"
    /\ wave # {} => phase = "running"

\* The approval let the plan through.
Passed ==
    \/ ApprovalMode = "none"
    \/ gate = "approved"
    \/ gate = "auto" /\ HumanSteps = {} /\ AutoApproved

GateInv ==
    /\ phase \in {"collab", "running", "deciding"} => Passed
    /\ Untouched \/ Passed

\* The first step of any chain of skipped ones had a dependency that failed.
SkipsHaveACause == (\E s \in PlanSteps : res[s] = "skipped") => SomeFailed

TypesInv == TypeOK /\ tries \in [Steps -> Nat] /\ live \in [Steps -> Nat]

IInv ==
    /\ TypesInv
    /\ \A s \in Steps : StepInv(s)
    /\ PhaseInv
    /\ GateInv
    /\ SkipsHaveACause
    /\ DepsComplete
    /\ CompletedIsWhole
    /\ HonestAnswer
    /\ AskBeforePartial
-----------------------------------------------------------------------------
(* The plan, and what a step leaves alone *)

\* What normalizeWorkflowPlan makes of a plan is a plan.  A delegate never falls
\* back to another delegate.
LEMMA PlanFacts ==
  ASSUME plan \in {normalizeWorkflowPlan(p) : p \in Plans}
  PROVE  /\ PlanSteps \subseteq Steps /\ plan.primaries \subseteq Delegates
         /\ Delegates = {s \in PlanSteps : plan.strategy[s] = "delegate-sub-agent"}
         /\ plan.deps \in [Steps -> SUBSET Steps]
         /\ plan.strategy \in [Steps -> Strategies]
         /\ plan.fallback \in [Steps -> Strategies \union {"none"}]
         /\ plan.retries \in [Steps -> Nat]
         /\ plan.rounds \in 0 .. MaxRounds
         /\ plan.primaries # {} => plan.rounds > 0
         /\ \A s \in Delegates : plan.fallback[s] # "delegate-sub-agent"
<1>1. PICK p \in Plans : plan = normalizeWorkflowPlan(p)
  OBVIOUS
<1>2. /\ p \in PlanType /\ MaxRetries \in Nat /\ MaxRounds \in Nat
      /\ p.primaries \subseteq {p.order[i] : i \in DOMAIN p.order}
      /\ p.primaries # {} => p.rounds > 0
      /\ \A s \in p.primaries : p.strategy[s] = "delegate-sub-agent"
  BY PlansAssumption
<1>3. /\ plan.order = p.order /\ plan.deps = p.deps /\ plan.strategy = p.strategy
      /\ plan.primaries = p.primaries /\ plan.rounds = p.rounds
      /\ plan.retries = [s \in Steps |-> Clamped(p, s)]
      /\ plan.fallback = [s \in Steps |-> NormalFallback(p, s)]
  BY <1>1, <1>2 DEF normalizeWorkflowPlan, PlanType
<1>4. /\ p.order \in Seq(Steps) /\ p.deps \in [Steps -> SUBSET Steps]
      /\ p.strategy \in [Steps -> Strategies]
      /\ p.fallback \in [Steps -> Strategies \union {"none"}]
      /\ p.retries \in [Steps -> Nat] /\ p.rounds \in 0 .. MaxRounds
  BY <1>2 DEF PlanType
<1>5. PlanSteps = StepsOf(p) /\ Delegates = DelegatesOf(p) /\ StepsOf(p) \subseteq Steps
  BY <1>3, <1>4 DEF PlanSteps, Delegates, DelegatesOf, StepsOf
<1>6. plan.retries \in [Steps -> Nat]
  BY <1>2, <1>3, <1>4 DEF Clamped
<1>7. \A s \in Steps : NormalFallback(p, s) \in Strategies \union {"none"}
  BY <1>4 DEF NormalFallback, AllowedFallback, Strategies
<1>8. \A s \in DelegatesOf(p) : NormalFallback(p, s) # "delegate-sub-agent"
  BY DEF NormalFallback, AllowedFallback
<1>9. DelegatesOf(p) \subseteq Steps
  BY <1>5 DEF DelegatesOf
<1> QED
  BY <1>2, <1>3, <1>4, <1>5, <1>6, <1>7, <1>8, <1>9 DEF DelegatesOf, StepsOf

LEMMA PlanStays ==
  ASSUME UNCHANGED plan
  PROVE  /\ PlanSteps' = PlanSteps /\ Delegates' = Delegates
         /\ HumanSteps' = HumanSteps /\ ApprovalMode' = ApprovalMode
         /\ AutoApproved' <=> AutoApproved
BY DEF PlanSteps, Delegates, HumanSteps, ApprovalMode, AutoApproved, Risky

\* What is known of a step depends on the plan, the wave and the step's own state.
LEMMA StepStays ==
  ASSUME NEW s \in Steps, StepInv(s), UNCHANGED plan, s \in wave' <=> s \in wave,
         stage'[s] = stage[s], res'[s] = res[s], fell'[s] = fell[s], spoke'[s] = spoke[s],
         tries'[s] = tries[s], live'[s] = live[s], todo'[s] = todo[s], record'[s] = record[s]
  PROVE  StepInv(s)'
<1>1. PlanSteps' = PlanSteps /\ Delegates' = Delegates
  BY PlanStays
<1>2. StageAndResult(s)'
  BY <1>1 DEF StepInv, StageAndResult, InWaves
<1>3. CallsAreCounted(s)'
  BY <1>1 DEF StepInv, CallsAreCounted, Delegating, Busy, Strategy
<1>4. BoardFollows(s)' /\ SpeaksForItself(s)'
  BY <1>1 DEF StepInv, BoardFollows, SpeaksForItself, InWaves, Completed
<1> QED BY <1>2, <1>3, <1>4 DEF StepInv

\* A result that is there does not change.
ResultsStay == \A s \in Steps : res[s] # "none" => res'[s] = res[s]

LEMMA DepsStay ==
  ASSUME TypesInv, DepsComplete, UNCHANGED plan, ResultsStay,
         \A s \in PlanSteps : stage'[s] # "idle" =>
             stage[s] # "idle" \/ \A d \in plan.deps[s] : Completed(d)
  PROVE  DepsComplete'
<1>1. PlanSteps' = PlanSteps /\ PlanSteps \subseteq Steps /\ plan.deps \in [Steps -> SUBSET Steps]
  BY PlanStays, PlanFacts DEF TypesInv, TypeOK
<1>2. \A d \in Steps : Completed(d) => Completed(d)'
  BY DEF ResultsStay, Completed
<1> QED BY <1>1, <1>2 DEF DepsComplete

\* While steps run nothing has been said yet: what is left to show of a step of
\* the workflow is about the steps of the plan.
LEMMA WhileRunning ==
  ASSUME IInv, TypesInv', phase = "running", UNCHANGED <<plan, gateVars, round, endVars>>,
         ResultsStay, SkipsHaveACause',
         \A s \in Steps : StepInv(s)',
         \A s \in PlanSteps : stage'[s] # "idle" =>
             stage[s] # "idle" \/ \A d \in plan.deps[s] : Completed(d)
  PROVE  IInv'
<1>1. /\ PlanSteps' = PlanSteps /\ Delegates' = Delegates
      /\ ApprovalMode' = ApprovalMode /\ HumanSteps' = HumanSteps
      /\ AutoApproved' <=> AutoApproved
  BY PlanStays
<1>2. phase' = "running" /\ status' = "none" /\ answer' = "none"
  BY DEF IInv, PhaseInv, gateVars, endVars
<1>3. plan.primaries \subseteq Steps
  BY PlanFacts DEF IInv, TypesInv, TypeOK
<1>4. PhaseInv'
  BY <1>2, <1>3 DEF IInv, PhaseInv, ResultsStay
<1>5. GateInv'
  BY <1>1, <1>2 DEF IInv, GateInv, Passed, gateVars
<1>6. DepsComplete'
  BY DepsStay DEF IInv
<1>7. CompletedIsWhole' /\ HonestAnswer' /\ AskBeforePartial'
  BY <1>2 DEF CompletedIsWhole, HonestAnswer, AskBeforePartial
<1> QED BY <1>4, <1>5, <1>6, <1>7 DEF IInv

\* One step of a wave moves, and the others stand still.
LEMMA OneStepMoves ==
  ASSUME IInv, TypesInv', NEW s \in Steps, s \in wave, res[s] = "none",
         UNCHANGED <<plan, gateVars, wave, round, todo, endVars>>,
         \A t \in Steps \ {s} : /\ stage'[t] = stage[t] /\ res'[t] = res[t]
                                /\ fell'[t] = fell[t] /\ spoke'[t] = spoke[t]
                                /\ tries'[t] = tries[t] /\ live'[t] = live[t]
                                /\ record'[t] = record[t],
         StepInv(s)', res'[s] # "skipped"
  PROVE  IInv'
<1>1. phase = "running" /\ stage[s] # "idle"
  BY DEF IInv, PhaseInv, StepInv, StageAndResult
<1>2. \A t \in Steps : StepInv(t)'
  <2>1. SUFFICES ASSUME NEW t \in Steps \ {s} PROVE StepInv(t)'
    OBVIOUS
  <2> QED BY StepStays DEF IInv
<1>3. ResultsStay
  BY DEF ResultsStay
<1>4. SkipsHaveACause'
  <2>1. PlanSteps' = PlanSteps /\ PlanSteps \subseteq Steps
    BY PlanStays, PlanFacts DEF IInv, TypesInv, TypeOK
  <2> QED BY <1>3, <2>1 DEF IInv, SkipsHaveACause, SomeFailed, ResultsStay
<1>5. \A t \in PlanSteps : stage'[t] # "idle" => stage[t] # "idle"
  <2>1. PlanSteps \subseteq Steps
    BY PlanFacts DEF IInv, TypesInv, TypeOK
  <2> QED BY <1>1, <2>1
<1> QED BY <1>1, <1>2, <1>3, <1>4, <1>5, WhileRunning
-----------------------------------------------------------------------------
(* The steps of a wave *)

LEMMA Moving ==
  ASSUME IInv, NEW s \in Steps, Busy(s)
  PROVE  /\ TypesInv /\ StepInv(s)
         /\ phase = "running" /\ s \in wave /\ res[s] = "none" /\ InWaves(s)
         /\ stage[s] = "fallback" /\ s \in Delegates => Strategy(s) # "delegate-sub-agent"
         /\ stage[s] = "first" => (s \in Delegates <=> Strategy(s) = "delegate-sub-agent")
<1>1. TypesInv /\ StepInv(s) /\ PhaseInv
  BY DEF IInv
<1>2. s \in wave /\ stage[s] \in {"first", "fallback"}
  BY DEF Busy
<1>3. phase = "running" /\ res[s] = "none" /\ InWaves(s)
  BY <1>1, <1>2 DEF PhaseInv, StepInv, StageAndResult
<1>4. s \in PlanSteps
  BY <1>3 DEF InWaves
<1> QED BY <1>1, <1>2, <1>3, <1>4, PlanFacts DEF TypesInv, TypeOK, Strategy

\* An attempt succeeds: with the sub-task's answer, or otherwise.
LEMMA SucceedStep ==
  ASSUME IInv, NEW s \in Steps, Busy(s), NEW r \in {"completed", "blank"}, Succeed(s, r),
         NEW left \in Nat, left <= live[s], live' = [live EXCEPT ![s] = left],
         \/ /\ Strategy(s) = "delegate-sub-agent"
            /\ record' = IF s \in Delegates THEN [record EXCEPT ![s] = "done"] ELSE record
         \/ Strategy(s) # "delegate-sub-agent" /\ record' = record,
         UNCHANGED <<plan, gateVars, wave, seen, todo, error, roundVars, endVars>>
  PROVE  IInv'
<1>1. /\ TypesInv /\ StepInv(s) /\ s \in wave /\ res[s] = "none" /\ InWaves(s)
      /\ stage[s] \in {"first", "fallback"}
      /\ stage[s] = "fallback" /\ s \in Delegates => Strategy(s) # "delegate-sub-agent"
      /\ stage[s] = "first" => (s \in Delegates <=> Strategy(s) = "delegate-sub-agent")
  BY Moving DEF Busy
<1>2. PlanSteps' = PlanSteps /\ Delegates' = Delegates
  BY PlanStays
<1>3. /\ stage \in [Steps -> {"idle", "first", "fallback", "done"}]
      /\ res \in [Steps -> {"none", "completed", "blank", "failed", "skipped"}]
      /\ fell \in [Steps -> BOOLEAN] /\ spoke \in [Steps -> BOOLEAN]
      /\ live \in [Steps -> Nat]
      /\ record \in [Steps -> {"none", "planned", "running", "done", "failed", "skipped"}]
  BY <1>1 DEF TypesInv, TypeOK
<1>4. /\ res'[s] = r /\ stage'[s] = "done" /\ live'[s] = left /\ tries' = tries
      /\ fell'[s] = (stage[s] = "fallback")
      /\ spoke'[s] = (Strategy(s) = "delegate-sub-agent")
      /\ record'[s] = IF s \in Delegates /\ Strategy(s) = "delegate-sub-agent"
                      THEN "done" ELSE record[s]
  BY <1>3 DEF Succeed
<1>5. \A t \in Steps \ {s} : /\ stage'[t] = stage[t] /\ res'[t] = res[t]
                             /\ fell'[t] = fell[t] /\ spoke'[t] = spoke[t]
                             /\ tries'[t] = tries[t] /\ live'[t] = live[t]
                             /\ record'[t] = record[t]
  BY <1>3 DEF Succeed
<1>6. live'[s] <= tries'[s] + 1 /\ tries'[s] <= plan'.retries[s]
  <2>1. live[s] <= tries[s] + 1 /\ tries[s] <= plan.retries[s]
    BY <1>1 DEF StepInv, CallsAreCounted
  <2>2. live[s] \in Nat /\ tries[s] \in Nat
    BY <1>1 DEF TypesInv
  <2> QED BY <1>4, <2>1, <2>2
<1>7. StepInv(s)'
  <2>1. StageAndResult(s)'
    BY <1>1, <1>2, <1>4 DEF StepInv, StageAndResult, InWaves
  <2>2. CallsAreCounted(s)'
    BY <1>1, <1>2, <1>4, <1>6 DEF StepInv, CallsAreCounted, Delegating, Busy
  <2>3. BoardFollows(s)'
    BY <1>1, <1>2, <1>4 DEF StepInv, BoardFollows, InWaves, Completed
  <2>4. SpeaksForItself(s)'
    BY <1>1, <1>2, <1>4 DEF SpeaksForItself
  <2> QED BY <2>1, <2>2, <2>3, <2>4 DEF StepInv
<1>8. TypesInv'
  <2>1. /\ stage' \in [Steps -> {"idle", "first", "fallback", "done"}]
        /\ res' \in [Steps -> {"none", "completed", "blank", "failed", "skipped"}]
        /\ fell' \in [Steps -> BOOLEAN] /\ spoke' \in [Steps -> BOOLEAN]
        /\ live' \in [Steps -> Nat]
        /\ record' \in [Steps -> {"none", "planned", "running", "done", "failed", "skipped"}]
    BY <1>3 DEF Succeed
  <2>2. \A t \in Steps : tries'[t] \in 0 .. plan'.retries[t] /\ live'[t] \in 0 .. tries'[t] + 1
    BY <1>1, <1>4, <1>5, <1>6, <2>1 DEF TypesInv, TypeOK
  <2> QED BY <1>1, <1>2, <1>4, <2>1, <2>2 DEF TypesInv, TypeOK, gateVars, roundVars, endVars
<1> QED BY <1>1, <1>4, <1>5, <1>7, <1>8, OneStepMoves DEF roundVars

\* An attempt fails: another one, the fallback, or a failed step.
LEMMA FailStep ==
  ASSUME IInv, NEW s \in Steps, Busy(s), NEW kind, NEW left \in Nat, left <= live[s],
         Fail(s, kind, left), error' \in [Steps -> BOOLEAN],
         UNCHANGED <<plan, gateVars, wave, seen, todo, roundVars, endVars>>
  PROVE  IInv'
<1>1. /\ TypesInv /\ StepInv(s) /\ s \in wave /\ res[s] = "none" /\ InWaves(s)
      /\ stage[s] \in {"first", "fallback"}
  BY Moving DEF Busy
<1>2. PlanSteps' = PlanSteps /\ Delegates' = Delegates
  BY PlanStays
<1>3. /\ stage \in [Steps -> {"idle", "first", "fallback", "done"}]
      /\ res \in [Steps -> {"none", "completed", "blank", "failed", "skipped"}]
      /\ fell \in [Steps -> BOOLEAN] /\ spoke \in [Steps -> BOOLEAN]
      /\ tries \in [Steps -> Nat] /\ live \in [Steps -> Nat]
      /\ record \in [Steps -> {"none", "planned", "running", "done", "failed", "skipped"}]
  BY <1>1 DEF TypesInv, TypeOK
<1>4. /\ live[s] <= tries[s] + 1 /\ tries[s] <= plan.retries[s] /\ plan.retries[s] \in Nat
      /\ s \notin Delegates => tries[s] = 0 /\ (stage[s] = "first" => live[s] = 0)
  BY <1>1, PlanFacts DEF StepInv, CallsAreCounted, TypesInv, TypeOK
<1>5. /\ plan.fallback[s] = "delegate-sub-agent" => s \notin Delegates
      /\ Calls(plan.fallback[s]) = IF plan.fallback[s] = "delegate-sub-agent" THEN 1 ELSE 0
  BY <1>1, PlanFacts DEF Calls, TypesInv, TypeOK
<1>6. CASE CanRetry(s, kind) /\ Again(s, left)
  <2>1. s \in Delegates /\ stage[s] = "first" /\ tries[s] < plan.retries[s]
    BY <1>6 DEF CanRetry, Retryable
  <2>2. UNCHANGED <<stage, res, fell, spoke>>
    BY <1>6 DEF Again
  <2>3. /\ tries'[s] = tries[s] + 1 /\ live'[s] = left + 1 /\ record'[s] = "running"
        /\ \A t \in Steps \ {s} : tries'[t] = tries[t] /\ live'[t] = live[t] /\ record'[t] = record[t]
        /\ tries' \in [Steps -> Nat] /\ live' \in [Steps -> Nat]
        /\ record' \in [Steps -> {"none", "planned", "running", "done", "failed", "skipped"}]
    BY <1>3, <1>6 DEF Again
  <2>4. tries'[s] <= plan.retries[s] /\ live'[s] <= tries'[s] + 1 /\ live'[s] > 0
    <3>1. tries[s] \in Nat /\ live[s] \in Nat
      BY <1>3
    <3> QED BY <1>4, <2>1, <2>3, <3>1
  <2>5. StepInv(s)'
    <3>1. StageAndResult(s)'
      BY <1>1, <1>2, <2>2 DEF StepInv, StageAndResult, InWaves
    <3>2. CallsAreCounted(s)'
      BY <1>2, <2>1, <2>2, <2>4 DEF CallsAreCounted
    <3>3. BoardFollows(s)'
      BY <1>1, <1>2, <2>1, <2>2, <2>3 DEF BoardFollows
    <3>4. SpeaksForItself(s)'
      BY <1>1, <2>2 DEF SpeaksForItself, Completed
    <3> QED BY <3>1, <3>2, <3>3, <3>4 DEF StepInv
  <2>6. TypesInv'
    <3>1. \A t \in Steps : tries'[t] \in 0 .. plan'.retries[t] /\ live'[t] \in 0 .. tries'[t] + 1
      BY <1>1, <2>3, <2>4 DEF TypesInv, TypeOK
    <3> QED BY <1>1, <1>2, <2>2, <2>3, <3>1 DEF TypesInv, TypeOK, gateVars, roundVars, endVars
  <2> QED BY <1>1, <2>2, <2>3, <2>5, <2>6, OneStepMoves DEF roundVars
<1>7. CASE /\ stage[s] = "first" /\ plan.fallback[s] # "none"
           /\ stage' = [stage EXCEPT ![s] = "fallback"]
           /\ live' = [live EXCEPT ![s] = left + Calls(plan.fallback[s])]
           /\ record' = IF s \in Delegates THEN [record EXCEPT ![s] = "failed"] ELSE record
           /\ UNCHANGED <<res, fell, spoke, tries>>
  <2>1. /\ stage'[s] = "fallback" /\ live'[s] = left + Calls(plan.fallback[s])
        /\ record'[s] = IF s \in Delegates THEN "failed" ELSE record[s]
        /\ \A t \in Steps \ {s} : stage'[t] = stage[t] /\ live'[t] = live[t] /\ record'[t] = record[t]
        /\ stage' \in [Steps -> {"idle", "first", "fallback", "done"}]
        /\ live' \in [Steps -> Nat]
        /\ record' \in [Steps -> {"none", "planned", "running", "done", "failed", "skipped"}]
    BY <1>3, <1>5, <1>7
  <2>2. live'[s] <= tries'[s] + 1
    <3>1. tries[s] \in Nat /\ live[s] \in Nat
      BY <1>3
    <3> QED BY <1>4, <1>5, <1>7, <2>1, <3>1
  <2>3. StepInv(s)'
    <3>1. StageAndResult(s)'
      BY <1>1, <1>2, <1>7, <2>1 DEF StepInv, StageAndResult, InWaves
    <3>2. CallsAreCounted(s)'
      BY <1>2, <1>4, <1>5, <1>7, <2>1, <2>2 DEF CallsAreCounted, Delegating, Strategy
    <3>3. BoardFollows(s)'
      BY <1>1, <1>2, <1>7, <2>1 DEF StepInv, BoardFollows
    <3>4. SpeaksForItself(s)'
      BY <1>1, <1>7 DEF SpeaksForItself, Completed
    <3> QED BY <3>1, <3>2, <3>3, <3>4 DEF StepInv
  <2>4. TypesInv'
    <3>1. \A t \in Steps : tries'[t] \in 0 .. plan'.retries[t] /\ live'[t] \in 0 .. tries'[t] + 1
      BY <1>1, <1>7, <2>1, <2>2 DEF TypesInv, TypeOK
    <3> QED BY <1>1, <1>2, <1>7, <2>1, <3>1 DEF TypesInv, TypeOK, gateVars, roundVars, endVars
  <2> QED BY <1>1, <1>7, <2>1, <2>3, <2>4, OneStepMoves DEF roundVars
<1>8. CASE /\ stage' = [stage EXCEPT ![s] = "done"]
           /\ res' = [res EXCEPT ![s] = "failed"]
           /\ fell' = [fell EXCEPT ![s] = stage[s] = "fallback"]
           /\ live' = [live EXCEPT ![s] = left]
           /\ record' = IF s \in Delegates THEN [record EXCEPT ![s] = "failed"] ELSE record
           /\ UNCHANGED <<spoke, tries>>
  <2>1. /\ stage'[s] = "done" /\ res'[s] = "failed" /\ live'[s] = left
        /\ record'[s] = IF s \in Delegates THEN "failed" ELSE record[s]
        /\ \A t \in Steps \ {s} : /\ stage'[t] = stage[t] /\ res'[t] = res[t]
                                  /\ fell'[t] = fell[t] /\ live'[t] = live[t]
                                  /\ record'[t] = record[t]
        /\ stage' \in [Steps -> {"idle", "first", "fallback", "done"}]
        /\ res' \in [Steps -> {"none", "completed", "blank", "failed", "skipped"}]
        /\ fell' \in [Steps -> BOOLEAN] /\ live' \in [Steps -> Nat]
        /\ record' \in [Steps -> {"none", "planned", "running", "done", "failed", "skipped"}]
    BY <1>3, <1>8
  <2>2. live'[s] <= tries'[s] + 1
    <3>1. tries[s] \in Nat /\ live[s] \in Nat
      BY <1>3
    <3> QED BY <1>4, <1>8, <2>1, <3>1
  <2>3. StepInv(s)'
    <3>1. StageAndResult(s)'
      BY <1>1, <1>2, <2>1 DEF StepInv, StageAndResult, InWaves
    <3>2. CallsAreCounted(s)'
      BY <1>2, <1>4, <1>8, <2>1, <2>2 DEF CallsAreCounted, Delegating, Busy
    <3>3. BoardFollows(s)'
      BY <1>1, <1>2, <2>1 DEF StepInv, BoardFollows
    <3>4. SpeaksForItself(s)'
      BY <2>1 DEF SpeaksForItself, Completed
    <3> QED BY <3>1, <3>2, <3>3, <3>4 DEF StepInv
  <2>4. TypesInv'
    <3>1. \A t \in Steps : tries'[t] \in 0 .. plan'.retries[t] /\ live'[t] \in 0 .. tries'[t] + 1
      BY <1>1, <1>8, <2>1, <2>2 DEF TypesInv, TypeOK
    <3> QED BY <1>1, <1>2, <1>8, <2>1, <3>1 DEF TypesInv, TypeOK, gateVars, roundVars, endVars
  <2> QED BY <1>1, <1>8, <2>1, <2>3, <2>4, OneStepMoves DEF roundVars
<1> QED BY <1>6, <1>7, <1>8 DEF Fail
LEMMA DelegateEndsStep ==
  ASSUME IInv, NEW s \in Steps, DelegateEnds(s)
  PROVE  IInv'
<1>1. Busy(s) /\ Strategy(s) = "delegate-sub-agent" /\ TypesInv
  BY DEF DelegateEnds, Delegating, IInv
<1>2. live[s] - 1 \in Nat /\ live[s] - 1 <= live[s]
  <2>1. live[s] > 0 /\ live[s] \in Nat
    BY DEF DelegateEnds, IInv, StepInv, CallsAreCounted, TypesInv
  <2> QED BY <2>1
<1>3. CASE /\ Succeed(s, "completed")
           /\ live' = [live EXCEPT ![s] = @ - 1]
           /\ record' = IF s \in Delegates THEN [record EXCEPT ![s] = "done"] ELSE record
           /\ UNCHANGED error
  BY <1>1, <1>2, <1>3, SucceedStep DEF DelegateEnds
<1>4. CASE \E kind \in {"transient", "permanent", "infra"} :
             /\ Fail(s, kind, live[s] - 1)
             /\ error' = [error EXCEPT ![s] = @ \/ s \in Delegates]
  <2>1. error' \in [Steps -> BOOLEAN]
    BY <1>1, <1>4 DEF TypesInv, TypeOK
  <2> QED BY <1>1, <1>2, <1>4, <2>1, FailStep DEF DelegateEnds
<1> QED BY <1>3, <1>4 DEF DelegateEnds

LEMMA WatchdogFiresStep ==
  ASSUME IInv, NEW s \in Steps, WatchdogFires(s)
  PROVE  IInv'
<1>1. live[s] \in Nat /\ live[s] <= live[s]
  BY DEF IInv, TypesInv
<1>2. error' \in [Steps -> BOOLEAN]
  BY DEF WatchdogFires, IInv, TypesInv, TypeOK
<1> QED BY <1>1, <1>2, FailStep DEF WatchdogFires, Delegating

LEMMA OtherEndsStep ==
  ASSUME IInv, NEW s \in Steps, OtherEnds(s)
  PROVE  IInv'
<1>1. live \in [Steps -> Nat] /\ error \in [Steps -> BOOLEAN]
  BY DEF IInv, TypesInv, TypeOK
<1>2. live[s] \in Nat /\ live[s] <= live[s] /\ live = [live EXCEPT ![s] = live[s]]
  BY <1>1
<1>3. PICK r \in Results(Strategy(s)) :
        IF r = "failed" THEN Fail(s, "permanent", live[s])
        ELSE Succeed(s, r) /\ UNCHANGED <<live, record>>
  BY DEF OtherEnds
<1>4. r \in {"completed", "blank", "failed"}
  BY DEF Results
<1>5. CASE r = "failed"
  BY <1>1, <1>2, <1>3, <1>5, FailStep DEF OtherEnds
<1>6. CASE r # "failed"
  <2>1. live' = [live EXCEPT ![s] = live[s]]
    BY <1>2, <1>3, <1>6
  <2> QED BY <1>2, <1>3, <1>4, <1>6, <2>1, SucceedStep DEF OtherEnds
<1> QED BY <1>5, <1>6

\* The end of a call that was given up on disturbs the count of calls only.
LEMMA ZombieEndsStep ==
  ASSUME IInv, NEW s \in Steps, ZombieEnds(s)
  PROVE  IInv'
<1>1. TypesInv /\ PhaseInv /\ GateInv /\ DepsComplete /\ live \in [Steps -> Nat]
  BY DEF IInv, TypesInv
<1>2. /\ UNCHANGED <<plan, phase, gate, wave, stage, res, fell, spoke, seen, tries, todo,
                     record, error, round, waiting, last, choice, status, answer>>
      /\ live'[s] = live[s] - 1 /\ \A t \in Steps \ {s} : live'[t] = live[t]
      /\ live[s] > 0 /\ (Delegating(s) => live[s] > 1) /\ live[s] \in Nat
      /\ live' = [live EXCEPT ![s] = @ - 1]
  BY <1>1 DEF ZombieEnds, gateVars, boardVars, roundVars, endVars
<1>3. /\ PlanSteps' = PlanSteps /\ Delegates' = Delegates
      /\ ApprovalMode' = ApprovalMode /\ HumanSteps' = HumanSteps
      /\ AutoApproved' <=> AutoApproved
  BY <1>2, PlanStays
<1>4. live' \in [Steps -> Nat]
  BY <1>1, <1>2
<1>5. TypesInv'
  <2>1. \A t \in Steps : live'[t] \in 0 .. tries[t] + 1
    BY <1>1, <1>2, <1>4 DEF TypesInv, TypeOK
  <2> QED BY <1>1, <1>2, <1>3, <1>4, <2>1 DEF TypesInv, TypeOK
<1>6. \A t \in Steps : StepInv(t)'
  <2>1. \A t \in Steps \ {s} : StepInv(t)'
    BY <1>2, StepStays DEF IInv
  <2>2. StepInv(s)
    BY DEF IInv
  <2>3. StageAndResult(s)' /\ BoardFollows(s)' /\ SpeaksForItself(s)'
    BY <1>2, <1>3, <2>2
    DEF StepInv, StageAndResult, BoardFollows, SpeaksForItself, InWaves, Completed
  <2>4. CallsAreCounted(s)'
    <3>1. stage[s] # "idle" /\ (s \notin Delegates => stage[s] # "first")
      BY <1>2, <2>2 DEF StepInv, CallsAreCounted
    <3>2. Delegating(s)' <=> Delegating(s)
      BY <1>2 DEF Delegating, Busy, Strategy
    <3>3. tries[s] \in Nat
      BY <1>1 DEF TypesInv
    <3> QED BY <1>2, <1>3, <2>2, <3>1, <3>2, <3>3 DEF StepInv, CallsAreCounted
  <2> QED BY <2>1, <2>3, <2>4 DEF StepInv
<1>7. ~Untouched /\ phase \notin {"planned", "awaiting"}
  BY <1>1, <1>2 DEF Untouched, PhaseInv
<1>8. PhaseInv'
  BY <1>1, <1>2, <1>3, <1>7 DEF PhaseInv
<1>9. GateInv'
  BY <1>1, <1>2, <1>3, <1>7 DEF GateInv, Passed
<1>10. SkipsHaveACause' /\ CompletedIsWhole' /\ HonestAnswer' /\ AskBeforePartial'
  BY <1>2, <1>3 DEF IInv, SkipsHaveACause, SomeFailed, CompletedIsWhole, HonestAnswer,
                    AskBeforePartial, Completed, Finished
<1>11. DepsComplete'
  BY <1>1, <1>2, <1>3 DEF DepsComplete, Completed
<1> QED BY <1>5, <1>6, <1>8, <1>9, <1>10, <1>11 DEF IInv

-----------------------------------------------------------------------------
(* The waves *)

\* The steps that have not been started are those without a result.
LEMMA RemainingAreIdle ==
  ASSUME IInv, wave = {}, NEW s \in Remaining
  PROVE  s \in Steps /\ InWaves(s) /\ stage[s] = "idle" /\ res[s] = "none"
<1>1. s \in Steps /\ InWaves(s) /\ res[s] = "none"
  BY PlanFacts DEF Remaining, Finished, InWaves, IInv, TypesInv, TypeOK
<1>2. stage[s] \in {"idle", "first", "fallback", "done"}
  BY <1>1 DEF IInv, TypesInv, TypeOK
<1> QED BY <1>1, <1>2 DEF IInv, StepInv, StageAndResult

LEMMA NextWaveStep ==
  ASSUME IInv, NextWave
  PROVE  IInv'
<1>1. /\ TypesInv /\ phase = "running" /\ wave = {} /\ PlanSteps \subseteq Steps
      /\ PlanSteps' = PlanSteps /\ Delegates' = Delegates
      /\ plan.deps \in [Steps -> SUBSET Steps]
  BY PlanFacts, PlanStays DEF NextWave, IInv, TypesInv, TypeOK
<1>2. Ready \subseteq Remaining /\ Doomed \subseteq Remaining /\ Ready \intersect Doomed = {}
  BY DEF Ready, Doomed
<1>3. \A s \in Remaining : s \in Steps /\ InWaves(s) /\ stage[s] = "idle" /\ res[s] = "none"
  BY <1>1, RemainingAreIdle
<1>4. /\ wave' = Ready
      /\ UNCHANGED <<plan, gateVars, fell, spoke, tries, roundVars, endVars>>
      /\ \A s \in Steps :
           /\ stage'[s] = IF s \in Ready THEN "first" ELSE stage[s]
           /\ res'[s] = IF s \in Doomed THEN "skipped" ELSE res[s]
           /\ live'[s] = IF s \in Ready THEN live[s] + Calls(plan.strategy[s]) ELSE live[s]
           /\ todo'[s] = IF s \in Doomed THEN "skipped"
                         ELSE IF s \in Ready THEN "running" ELSE todo[s]
           /\ record'[s] = IF s \notin Delegates THEN record[s]
                           ELSE IF s \in Doomed THEN "skipped"
                           ELSE IF s \in Ready THEN "running" ELSE record[s]
  BY DEF NextWave
<1>5. \A s \in Steps : StepInv(s)'
  <2>1. SUFFICES ASSUME NEW s \in Steps PROVE StepInv(s)'
    OBVIOUS
  <2>2. StepInv(s) /\ tries[s] \in Nat /\ live[s] \in Nat /\ plan.retries[s] \in Nat
    BY <1>1, PlanFacts DEF IInv, TypesInv, TypeOK
  <2>3. CASE s \notin Ready \union Doomed
    BY <1>1, <1>4, <2>2, <2>3, StepStays
  <2>4. CASE s \in Doomed
    <3>1. /\ InWaves(s) /\ stage[s] = "idle" /\ s \notin Ready /\ s \notin wave'
          /\ stage'[s] = "idle" /\ res'[s] = "skipped" /\ live'[s] = live[s] /\ tries' = tries
          /\ todo'[s] = "skipped"
          /\ record'[s] = IF s \in Delegates THEN "skipped" ELSE record[s]
      BY <1>2, <1>3, <1>4, <2>4
    <3>2. StageAndResult(s)'
      BY <1>1, <1>4, <3>1 DEF StageAndResult, InWaves
    <3>3. CallsAreCounted(s)'
      BY <1>1, <1>4, <2>2, <3>1 DEF StepInv, CallsAreCounted, Delegating, Busy
    <3>4. BoardFollows(s)' /\ SpeaksForItself(s)'
      BY <1>1, <1>4, <2>2, <3>1 DEF StepInv, BoardFollows, SpeaksForItself, Completed
    <3> QED BY <3>2, <3>3, <3>4 DEF StepInv
  <2>5. CASE s \in Ready
    <3>1. /\ InWaves(s) /\ s \in PlanSteps /\ stage[s] = "idle" /\ res[s] = "none"
          /\ s \in wave' /\ stage'[s] = "first" /\ res'[s] = "none"
          /\ live'[s] = live[s] + Calls(plan.strategy[s]) /\ tries' = tries
          /\ record'[s] = IF s \in Delegates THEN "running" ELSE record[s]
      BY <1>2, <1>3, <1>4, <2>5 DEF InWaves
    <3>2. /\ Calls(plan.strategy[s]) = IF s \in Delegates THEN 1 ELSE 0
          /\ s \in Delegates <=> plan.strategy[s] = "delegate-sub-agent"
          /\ live[s] = 0 /\ tries[s] = 0
      BY <1>1, <2>2, <3>1, PlanFacts DEF Calls, TypesInv, TypeOK, StepInv, CallsAreCounted
    <3>3. StageAndResult(s)'
      BY <1>1, <1>4, <3>1 DEF StageAndResult, InWaves
    <3>4. CallsAreCounted(s)'
      BY <1>1, <1>4, <2>2, <3>1, <3>2 DEF CallsAreCounted, Delegating, Busy, Strategy
    <3>5. BoardFollows(s)' /\ SpeaksForItself(s)'
      BY <1>1, <1>4, <2>2, <3>1 DEF StepInv, BoardFollows, SpeaksForItself, Completed
    <3> QED BY <3>3, <3>4, <3>5 DEF StepInv
  <2> QED BY <2>3, <2>4, <2>5
<1>6. TypesInv'
  <2>1. /\ stage' \in [Steps -> {"idle", "first", "fallback", "done"}]
        /\ res' \in [Steps -> {"none", "completed", "blank", "failed", "skipped"}]
        /\ todo' \in [Steps -> {"pending", "running", "done", "skipped", "failed"}]
        /\ record' \in [Steps -> {"none", "planned", "running", "done", "failed", "skipped"}]
    BY <1>1 DEF NextWave, TypesInv, TypeOK
  <2>2. live' \in [Steps -> Nat]
    BY <1>1 DEF NextWave, TypesInv, Calls
  <2>3. seen' \in [Steps -> SUBSET Steps]
    <3>1. \A s \in Ready : Interpolated(s) \subseteq Steps
      BY <1>1, <1>2, <1>3 DEF Interpolated
    <3> QED BY <1>1, <3>1 DEF NextWave, TypesInv, TypeOK
  <2>4. error' \in [Steps -> BOOLEAN]
    BY <1>1 DEF NextWave, TypesInv, TypeOK
  <2>5. wave' \subseteq PlanSteps
    BY <1>2, <1>4 DEF Remaining
  <2>6. tries' = tries /\ \A s \in Steps : tries'[s] \in 0 .. plan'.retries[s]
    BY <1>1, <1>4 DEF TypesInv, TypeOK
  <2>7. \A s \in Steps : live'[s] \in 0 .. tries'[s] + 1
    <3>1. \A s \in Steps : live'[s] <= tries'[s] + 1
      BY <1>5 DEF StepInv, CallsAreCounted
    <3> QED BY <1>1, <2>2, <2>6, <3>1 DEF TypesInv
  <2> QED BY <1>1, <1>4, <2>1, <2>2, <2>3, <2>4, <2>5, <2>6, <2>7
          DEF TypesInv, TypeOK, gateVars, roundVars, endVars
<1>7. ResultsStay
  BY <1>2, <1>3, <1>4 DEF ResultsStay
<1>8. SkipsHaveACause'
  <2>1. \A s \in Steps : res[s] = "failed" => res'[s] = "failed"
    BY <1>7 DEF ResultsStay
  <2>2. ASSUME NEW s \in Doomed PROVE SomeFailed
    <3>1. PICK d \in plan.deps[s] : d \in Finished /\ ~Completed(d)
      BY DEF Doomed
    <3>2. d \in PlanSteps /\ res[d] \in {"failed", "skipped"}
      BY <1>1, <3>1 DEF Finished, Completed, TypesInv, TypeOK
    <3> QED BY <3>2 DEF IInv, SkipsHaveACause, SomeFailed
  <2>3. SomeFailed => SomeFailed'
    BY <1>1, <2>1 DEF SomeFailed
  <2> QED BY <1>1, <1>4, <2>2, <2>3 DEF IInv, SkipsHaveACause
<1>9. \A s \in PlanSteps : stage'[s] # "idle" =>
          stage[s] # "idle" \/ \A d \in plan.deps[s] : Completed(d)
  BY <1>1, <1>4 DEF Ready
<1> QED BY <1>1, <1>4, <1>5, <1>6, <1>7, <1>8, <1>9, WhileRunning DEF roundVars

LEMMA CollectWaveStep ==
  ASSUME IInv, CollectWave
  PROVE  IInv'
<1>1. /\ TypesInv /\ phase = "running" /\ PlanSteps \subseteq Steps
      /\ PlanSteps' = PlanSteps /\ Delegates' = Delegates
  BY PlanFacts, PlanStays DEF CollectWave, IInv, PhaseInv, TypesInv, TypeOK
<1>2. /\ wave' = {} /\ \A s \in wave : stage[s] = "done"
      /\ UNCHANGED <<plan, gateVars, stage, res, fell, spoke, seen, tries, live,
                     record, error, roundVars, endVars>>
      /\ \A s \in Steps : todo'[s] = IF s \notin wave THEN todo[s]
                                     ELSE IF Completed(s) THEN "done" ELSE res[s]
  BY DEF CollectWave, stepVars
<1>3. \A s \in Steps : StepInv(s)'
  <2>1. SUFFICES ASSUME NEW s \in Steps PROVE StepInv(s)'
    OBVIOUS
  <2>2. StepInv(s)
    BY DEF IInv
  <2>3. StageAndResult(s)'
    BY <1>1, <1>2, <2>2 DEF StepInv, StageAndResult, InWaves
  <2>4. CallsAreCounted(s)'
    BY <1>1, <1>2, <2>2 DEF StepInv, CallsAreCounted, Delegating, Busy
  <2>5. BoardFollows(s)' /\ SpeaksForItself(s)'
    BY <1>1, <1>2, <2>2 DEF StepInv, BoardFollows, SpeaksForItself, Completed, InWaves
  <2> QED BY <2>3, <2>4, <2>5 DEF StepInv
<1>4. TypesInv'
  <2>1. \A s \in wave : Completed(s) \/ res[s] = "failed"
    <3>1. \A s \in wave : s \in Steps /\ StepInv(s)
      BY <1>1 DEF IInv, TypesInv, TypeOK
    <3> QED BY <1>2, <3>1 DEF StepInv, StageAndResult, Completed
  <2>2. todo' \in [Steps -> {"pending", "running", "done", "skipped", "failed"}]
    BY <1>1, <2>1 DEF CollectWave, TypesInv, TypeOK
  <2> QED BY <1>1, <1>2, <2>2 DEF TypesInv, TypeOK, gateVars, roundVars, endVars
<1>5. ResultsStay /\ SkipsHaveACause'
  BY <1>1, <1>2 DEF ResultsStay, IInv, SkipsHaveACause, SomeFailed
<1> QED BY <1>1, <1>2, <1>3, <1>4, <1>5, WhileRunning DEF roundVars
-----------------------------------------------------------------------------
(* The approval *)

\* Steps that leave all steps of the plan where they are.
LEMMA NobodyMoves ==
  ASSUME IInv, UNCHANGED <<plan, wave, stepVars, record>>,
         \A s \in Steps : res[s] # "none" => todo'[s] = todo[s]
  PROVE  /\ \A s \in Steps : StepInv(s)'
         /\ SkipsHaveACause' /\ DepsComplete'
         /\ PlanSteps' = PlanSteps /\ Delegates' = Delegates
         /\ ApprovalMode' = ApprovalMode /\ HumanSteps' = HumanSteps
         /\ AutoApproved' <=> AutoApproved
<1>1. /\ PlanSteps' = PlanSteps /\ Delegates' = Delegates
      /\ ApprovalMode' = ApprovalMode /\ HumanSteps' = HumanSteps
      /\ AutoApproved' <=> AutoApproved
  BY PlanStays
<1>2. UNCHANGED <<stage, res, fell, spoke, seen, tries, live>>
  BY DEF stepVars
<1>3. \A s \in Steps : StepInv(s)'
  <2>1. SUFFICES ASSUME NEW s \in Steps PROVE StepInv(s)'
    OBVIOUS
  <2>2. StepInv(s)
    BY DEF IInv
  <2>3. StageAndResult(s)' /\ CallsAreCounted(s)'
    BY <1>1, <1>2, <2>2
    DEF StepInv, StageAndResult, CallsAreCounted, InWaves, Delegating, Busy, Strategy
  <2>4. BoardFollows(s)' /\ SpeaksForItself(s)'
    BY <1>1, <1>2, <2>2 DEF StepInv, BoardFollows, SpeaksForItself, InWaves, Completed
  <2> QED BY <2>3, <2>4 DEF StepInv
<1>4. SkipsHaveACause' /\ DepsComplete'
  BY <1>1, <1>2 DEF IInv, SkipsHaveACause, SomeFailed, DepsComplete, Completed
<1> QED BY <1>1, <1>3, <1>4

\* The plan is let through: its first round, or its first wave, may begin.
LEMMA StartStep ==
  ASSUME IInv, phase \in {"planned", "awaiting"}, phase' = Started, FirstRound, Passed',
         gate' \in {"none", "approved", "rejected", "timeout", "auto"},
         UNCHANGED <<plan, wave, stepVars, boardVars, endVars>>
  PROVE  IInv'
<1>1. /\ TypesInv /\ PhaseInv /\ PlanSteps \subseteq Steps
      /\ plan.rounds \in 0 .. MaxRounds /\ MaxRounds \in Nat
      /\ plan.primaries # {} => plan.rounds > 0
  BY PlanFacts, PlansAssumption DEF IInv, TypesInv, TypeOK
<1>2. UNCHANGED <<plan, wave, stage, res, fell, spoke, seen, tries, live, todo, record, error,
                  choice, status, answer, last>>
  BY DEF stepVars, boardVars, endVars, FirstRound, roundVars
<1>3. /\ \A s \in Steps : StepInv(s)'
      /\ SkipsHaveACause' /\ DepsComplete'
      /\ PlanSteps' = PlanSteps /\ Delegates' = Delegates
  BY <1>2, NobodyMoves
<1>4. /\ phase' = IF plan.primaries = {} THEN "running" ELSE "collab"
      /\ round' \in 0 .. MaxRounds /\ waiting' \subseteq plan.primaries
  BY <1>1 DEF Started, FirstRound, roundVars, TypesInv, TypeOK
<1>5. TypesInv'
  BY <1>1, <1>2, <1>3, <1>4 DEF TypesInv, TypeOK
<1>6. status = "none" /\ answer = "none" /\ wave = {}
  BY <1>1 DEF PhaseInv
<1>7. PhaseInv'
  BY <1>1, <1>2, <1>3, <1>4, <1>6 DEF PhaseInv
<1>8. GateInv'
  BY DEF GateInv
<1>9. CompletedIsWhole' /\ HonestAnswer' /\ AskBeforePartial'
  BY <1>2, <1>6 DEF CompletedIsWhole, HonestAnswer, AskBeforePartial
<1> QED BY <1>3, <1>5, <1>7, <1>8, <1>9 DEF IInv

\* The plan is refused: nothing of it has run, and nothing will.
LEMMA RefuseStep ==
  ASSUME IInv, phase = "awaiting", gate' \in {"rejected", "timeout"}, Return("failed", "refusal"),
         UNCHANGED <<plan, wave, stepVars, boardVars, roundVars, choice>>
  PROVE  IInv'
<1>1. TypesInv /\ PhaseInv /\ Untouched
  BY DEF IInv, PhaseInv
<1>2. /\ UNCHANGED <<plan, wave, stage, res, fell, spoke, seen, tries, live, todo, record, error,
                     choice, round, waiting, last>>
      /\ phase' = "returned" /\ status' = "failed" /\ answer' = "refusal"
  BY DEF stepVars, boardVars, roundVars, Return
<1>3. /\ \A s \in Steps : StepInv(s)'
      /\ SkipsHaveACause' /\ DepsComplete'
      /\ PlanSteps' = PlanSteps /\ Delegates' = Delegates
  BY <1>2, NobodyMoves
<1>4. TypesInv'
  BY <1>1, <1>2, <1>3 DEF TypesInv, TypeOK
<1>5. PhaseInv' /\ GateInv'
  BY <1>1, <1>2 DEF PhaseInv, GateInv, Untouched
<1>6. CompletedIsWhole' /\ HonestAnswer' /\ AskBeforePartial'
  BY <1>2 DEF CompletedIsWhole, HonestAnswer, AskBeforePartial
<1> QED BY <1>3, <1>4, <1>5, <1>6 DEF IInv

LEMMA OpenGateStep ==
  ASSUME IInv, OpenGate
  PROVE  IInv'
<1>1. CASE ApprovalMode = "none"
  <2>1. Passed'
    BY <1>1, PlanStays DEF OpenGate, Passed
  <2>2. gate' \in {"none", "approved", "rejected", "timeout", "auto"}
    BY DEF OpenGate, IInv, TypesInv, TypeOK
  <2> QED BY <1>1, <2>1, <2>2, StartStep DEF OpenGate
<1>2. CASE ApprovalMode # "none"
  <2>1. /\ phase = "planned" /\ phase' = "awaiting"
        /\ UNCHANGED <<plan, wave, stage, res, fell, spoke, seen, tries, live, todo, record,
                       error, gate, round, waiting, last, choice, status, answer>>
    BY <1>2 DEF OpenGate, stepVars, boardVars, roundVars, endVars
  <2>2. TypesInv /\ PhaseInv /\ Untouched
    BY <2>1 DEF IInv, PhaseInv
  <2>3. /\ \A s \in Steps : StepInv(s)'
        /\ SkipsHaveACause' /\ DepsComplete'
        /\ PlanSteps' = PlanSteps /\ Delegates' = Delegates
    BY <2>1, NobodyMoves DEF stepVars
  <2>4. TypesInv'
    BY <2>1, <2>2, <2>3 DEF TypesInv, TypeOK
  <2>5. PhaseInv' /\ GateInv'
    BY <2>1, <2>2, <2>3 DEF PhaseInv, GateInv, Untouched
  <2>6. CompletedIsWhole' /\ HonestAnswer' /\ AskBeforePartial'
    BY <2>1, <2>2 DEF PhaseInv, CompletedIsWhole, HonestAnswer, AskBeforePartial
  <2> QED BY <2>3, <2>4, <2>5, <2>6 DEF IInv
<1> QED BY <1>1, <1>2

LEMMA GateTimeoutStep ==
  ASSUME IInv, GateTimeout
  PROVE  IInv'
<1>1. CASE ApprovalMode = "agent-discretion" /\ AutoApproved
  <2>1. HumanSteps = {}
    BY <1>1 DEF ApprovalMode
  <2>2. Passed'
    BY <1>1, <2>1, PlanStays DEF GateTimeout, Passed
  <2> QED BY <1>1, <2>2, StartStep DEF GateTimeout, endVars
<1>2. CASE ~(ApprovalMode = "agent-discretion" /\ AutoApproved)
  BY <1>2, RefuseStep DEF GateTimeout
<1> QED BY <1>1, <1>2

-----------------------------------------------------------------------------
(* The rounds of a collaboration *)

LEMMA CollabAnswerStep ==
  ASSUME IInv, NEW s \in Steps, CollabAnswer(s)
  PROVE  IInv'
<1>1. TypesInv /\ PhaseInv /\ GateInv
  BY DEF IInv
<1>2. /\ phase = "collab" /\ waiting' \subseteq waiting
      /\ UNCHANGED <<plan, phase, gate, wave, stage, res, fell, spoke, seen, tries, live, todo,
                     record, error, round, choice, status, answer>>
  BY DEF CollabAnswer, gateVars, stepVars, boardVars, endVars
<1>3. /\ \A t \in Steps : StepInv(t)'
      /\ SkipsHaveACause' /\ DepsComplete'
      /\ PlanSteps' = PlanSteps /\ Delegates' = Delegates
      /\ ApprovalMode' = ApprovalMode /\ HumanSteps' = HumanSteps
      /\ AutoApproved' <=> AutoApproved
  BY <1>2, NobodyMoves DEF stepVars
<1>4. last' \in [Steps -> {"none", "completed", "blank"}]
  BY <1>1 DEF CollabAnswer, TypesInv, TypeOK
<1>5. TypesInv'
  BY <1>1, <1>2, <1>3, <1>4 DEF TypesInv, TypeOK
<1>6. PhaseInv' /\ GateInv'
  BY <1>1, <1>2, <1>3 DEF PhaseInv, GateInv, Untouched, Passed
<1>7. CompletedIsWhole' /\ HonestAnswer' /\ AskBeforePartial'
  BY <1>1, <1>2 DEF PhaseInv, CompletedIsWhole, HonestAnswer, AskBeforePartial
<1> QED BY <1>3, <1>5, <1>6, <1>7 DEF IInv

LEMMA RoundEndsStep ==
  ASSUME IInv, RoundEnds
  PROVE  IInv'
<1>1. /\ TypesInv /\ PhaseInv /\ GateInv /\ PlanSteps \subseteq Steps
      /\ plan.primaries \subseteq Delegates /\ Delegates \subseteq PlanSteps
      /\ plan.rounds \in 0 .. MaxRounds
  BY PlanFacts DEF IInv, TypesInv, TypeOK
<1>2. /\ phase = "collab" /\ status = "none" /\ answer = "none" /\ wave = {} /\ Passed
      /\ \A s \in Steps : stage[s] = "idle" /\ res[s] = "none"
      /\ UNCHANGED <<plan, gate, wave, stage, fell, seen, tries, live, todo, record, error,
                     last, choice, status, answer>>
  BY <1>1 DEF RoundEnds, PhaseInv, GateInv, boardVars, endVars
<1>3. /\ PlanSteps' = PlanSteps /\ Delegates' = Delegates
      /\ ApprovalMode' = ApprovalMode /\ HumanSteps' = HumanSteps
      /\ AutoApproved' <=> AutoApproved
  BY <1>2, PlanStays
<1>4. Passed' /\ GateInv'
  BY <1>2, <1>3 DEF Passed, GateInv
<1>5. CASE round < plan.rounds
  <2>1. /\ round' = round + 1 /\ waiting' = plan.primaries /\ UNCHANGED <<phase, res, spoke>>
    BY <1>5 DEF RoundEnds
  <2>2. round' \in 0 .. MaxRounds
    <3>1. round \in Nat /\ plan.rounds \in Nat /\ MaxRounds \in Nat /\ plan.rounds <= MaxRounds
      BY <1>1, PlansAssumption DEF TypesInv, TypeOK
    <3> QED BY <1>5, <2>1, <3>1
  <2>3. (\A s \in Steps : StepInv(s)') /\ SkipsHaveACause' /\ DepsComplete'
    BY <1>2, <2>1, NobodyMoves DEF stepVars
  <2>4. TypesInv'
    BY <1>1, <1>2, <1>3, <2>1, <2>2 DEF TypesInv, TypeOK
  <2>5. PhaseInv'
    BY <1>1, <1>2, <2>1 DEF PhaseInv
  <2>6. CompletedIsWhole' /\ HonestAnswer' /\ AskBeforePartial'
    BY <1>2, <2>1 DEF CompletedIsWhole, HonestAnswer, AskBeforePartial
  <2> QED BY <1>4, <2>3, <2>4, <2>5, <2>6 DEF IInv
<1>6. CASE ~(round < plan.rounds)
  <2>1. /\ phase' = "running"
        /\ res' = [s \in Steps |-> IF s \notin plan.primaries THEN res[s]
                                   ELSE IF last[s] = "none" THEN "failed" ELSE last[s]]
        /\ spoke' = [s \in Steps |-> s \in plan.primaries /\ last[s] # "none"]
        /\ UNCHANGED <<round, waiting>>
    BY <1>6 DEF RoundEnds
  <2>2. last \in [Steps -> {"none", "completed", "blank"}]
    BY <1>1 DEF TypesInv, TypeOK
  <2>3. /\ res' \in [Steps -> {"none", "completed", "blank", "failed", "skipped"}]
        /\ spoke' \in [Steps -> BOOLEAN]
    BY <1>1, <2>1, <2>2 DEF TypesInv, TypeOK
  <2>4. TypesInv'
    BY <1>1, <1>2, <1>3, <2>1, <2>3 DEF TypesInv, TypeOK
  <2>5. \A s \in Steps : StepInv(s)'
    <3>1. SUFFICES ASSUME NEW s \in Steps PROVE StepInv(s)'
      OBVIOUS
    <3>2. StepInv(s)
      BY DEF IInv
    <3>3. /\ s \in plan.primaries => res'[s] \in {"completed", "blank", "failed"}
          /\ s \notin plan.primaries => res'[s] = "none"
          /\ Completed(s)' => spoke'[s]
      BY <1>2, <2>1, <2>2 DEF Completed
    <3>4. StageAndResult(s)'
      BY <1>1, <1>2, <1>3, <3>2, <3>3 DEF StepInv, StageAndResult, InWaves
    <3>5. CallsAreCounted(s)'
      BY <1>2, <1>3, <3>2 DEF StepInv, CallsAreCounted, Delegating, Busy
    <3>6. BoardFollows(s)' /\ SpeaksForItself(s)'
      BY <1>1, <1>2, <1>3, <3>2, <3>3 DEF StepInv, BoardFollows, SpeaksForItself, InWaves
    <3> QED BY <3>4, <3>5, <3>6 DEF StepInv
  <2>6. PhaseInv'
    <3>1. \A s \in plan.primaries : res'[s] # "none"
      BY <1>1, <2>1, <2>2
    <3> QED BY <1>2, <2>1, <3>1 DEF PhaseInv
  <2>7. SkipsHaveACause'
    BY <1>1, <1>2, <1>3, <2>1, <2>2 DEF SkipsHaveACause
  <2>8. DepsComplete'
    BY <1>1, <1>2, <1>3 DEF DepsComplete
  <2>9. CompletedIsWhole' /\ HonestAnswer' /\ AskBeforePartial'
    BY <1>2 DEF CompletedIsWhole, HonestAnswer, AskBeforePartial
  <2> QED BY <1>4, <2>4, <2>5, <2>6, <2>7, <2>8, <2>9 DEF IInv
<1> QED BY <1>5, <1>6
-----------------------------------------------------------------------------
(* The result *)

\* If buildResult speaks for the steps, a step completed, and a delegate did if
\* any was used.
LEMMA AnswerIsMadeOfSteps ==
  ASSUME TypesInv
  PROVE  /\ AnswerOf \in {"report", "verbatim", "single", "aggregate", "synthesis"}
         /\ AnswerOf # "report" =>
              /\ \E s \in PlanSteps : Completed(s)
              /\ Delegates \intersect Finished # {} => \E s \in Delegates : Completed(s)
BY DEF AnswerOf, NothingToTell, Heard

\* The workflow returns what its steps have come to.
LEMMA ReturnStep ==
  ASSUME IInv, phase \in {"running", "deciding"}, wave = {},
         NEW st \in {"completed", "partial", "failed"}, NEW how \in {AnswerOf, "refusal"},
         Return(st, how), choice' \in {"none", "continue", "abort", "timeout"},
         todo' \in [Steps -> {"pending", "running", "done", "skipped", "failed"}],
         \A s \in Steps : res[s] # "none" => todo'[s] = todo[s],
         UNCHANGED <<plan, gate, wave, stepVars, record, error, roundVars>>,
         st # "failed" => \A s \in PlanSteps : res[s] # "none",
         st = "completed" => ~SomeFailed,
         st = "partial" => ~Damaged \/ choice' = "continue"
  PROVE  IInv'
<1>1. /\ TypesInv /\ PlanSteps \subseteq Steps /\ Passed /\ Delegates \subseteq PlanSteps
      /\ AnswerOf \in {"report", "verbatim", "single", "aggregate", "synthesis"}
  BY PlanFacts, AnswerIsMadeOfSteps DEF IInv, TypesInv, TypeOK, GateInv
<1>2. /\ phase' = "returned" /\ status' = st /\ answer' = how
      /\ UNCHANGED <<plan, gate, wave, stage, res, fell, spoke, seen, tries, live, record, error,
                     round, waiting, last>>
  BY DEF Return, stepVars, roundVars
<1>3. /\ \A s \in Steps : StepInv(s)'
      /\ SkipsHaveACause' /\ DepsComplete'
      /\ PlanSteps' = PlanSteps /\ Delegates' = Delegates
      /\ ApprovalMode' = ApprovalMode /\ HumanSteps' = HumanSteps
      /\ AutoApproved' <=> AutoApproved
  BY NobodyMoves
<1>4. TypesInv'
  BY <1>1, <1>2, <1>3 DEF TypesInv, TypeOK
<1>5. PhaseInv' /\ GateInv'
  BY <1>1, <1>2, <1>3 DEF PhaseInv, GateInv, Passed
<1>6. CompletedIsWhole'
  <2>1. ASSUME st = "completed", NEW s \in PlanSteps PROVE Completed(s)
    <3>1. res[s] \in {"completed", "blank", "failed", "skipped"}
      BY <1>1, <2>1 DEF TypesInv, TypeOK
    <3>2. res[s] # "failed" /\ res[s] # "skipped"
      BY <2>1 DEF IInv, SkipsHaveACause, SomeFailed
    <3> QED BY <3>1, <3>2 DEF Completed
  <2> QED BY <1>2, <1>3, <2>1 DEF CompletedIsWhole, Completed
<1>7. HonestAnswer'
  BY <1>1, <1>2, <1>3, AnswerIsMadeOfSteps DEF HonestAnswer, Completed, Finished
<1>8. AskBeforePartial'
  BY <1>2, <1>3 DEF AskBeforePartial, Damaged
<1> QED BY <1>3, <1>4, <1>5, <1>6, <1>7, <1>8 DEF IInv

LEMMA EndSteps ==
  ASSUME IInv, Deadlock \/ Finish \/ Decide
  PROVE  IInv'
<1>1. TypesInv /\ PhaseInv /\ PlanSteps \subseteq Steps
  BY PlanFacts DEF IInv, TypesInv, TypeOK
<1>2. /\ choice \in {"none", "continue", "abort", "timeout"}
      /\ todo \in [Steps -> {"pending", "running", "done", "skipped", "failed"}]
  BY <1>1 DEF TypesInv, TypeOK
<1>3. CASE Deadlock
  <2>1. todo' \in [Steps -> {"pending", "running", "done", "skipped", "failed"}]
    BY <1>2, <1>3 DEF Deadlock
  <2>2. \A s \in Steps : res[s] # "none" => todo'[s] = todo[s]
    BY <1>3 DEF Deadlock, Remaining, Finished
  <2> QED BY <1>2, <1>3, <2>1, <2>2, ReturnStep DEF Deadlock
<1>4. CASE Finish
  <2>1. \A s \in PlanSteps : res[s] # "none"
    BY <1>1, <1>4 DEF Finish, Remaining, Finished, PhaseInv
  <2>2. CASE Damaged
    <3>1. /\ phase = "running" /\ phase' = "deciding"
          /\ UNCHANGED <<plan, gate, wave, stage, res, fell, spoke, seen, tries, live, todo,
                         record, error, round, waiting, last, choice, status, answer>>
      BY <1>4, <2>2 DEF Finish, stepVars, boardVars, roundVars
    <3>2. /\ \A s \in Steps : StepInv(s)'
          /\ SkipsHaveACause' /\ DepsComplete'
          /\ PlanSteps' = PlanSteps /\ Delegates' = Delegates
          /\ ApprovalMode' = ApprovalMode /\ HumanSteps' = HumanSteps
          /\ AutoApproved' <=> AutoApproved
      BY <3>1, NobodyMoves DEF stepVars
    <3>3. TypesInv'
      BY <1>1, <3>1, <3>2 DEF TypesInv, TypeOK
    <3>4. PhaseInv' /\ GateInv'
      BY <1>1, <1>4, <2>1, <3>1, <3>2 DEF Finish, IInv, PhaseInv, GateInv, Passed
    <3>5. CompletedIsWhole' /\ HonestAnswer' /\ AskBeforePartial'
      BY <1>1, <3>1 DEF PhaseInv, CompletedIsWhole, HonestAnswer, AskBeforePartial
    <3> QED BY <3>2, <3>3, <3>4, <3>5 DEF IInv
  <2>3. CASE ~Damaged
    <3>1. FinalStatus \in {"completed", "partial", "failed"} /\ (FinalStatus = "completed" => ~SomeFailed)
      BY DEF FinalStatus
    <3>2. Return(FinalStatus, AnswerOf) /\ UNCHANGED <<choice, todo>>
      BY <1>4, <2>3 DEF Finish, boardVars
    <3> QED BY <1>2, <1>4, <2>1, <2>3, <3>1, <3>2, ReturnStep DEF Finish, boardVars
  <2> QED BY <2>2, <2>3
<1>5. CASE Decide
  <2>1. phase = "deciding" /\ wave = {} /\ \A s \in PlanSteps : res[s] # "none"
    BY <1>1, <1>5 DEF Decide, PhaseInv
  <2>2. PICK c \in {"continue", "abort", "timeout"} :
          /\ choice' = c
          /\ IF c = "continue" THEN Return("partial", AnswerOf) ELSE Return("failed", "refusal")
    BY <1>5 DEF Decide
  <2>3. UNCHANGED <<plan, gate, wave, stepVars, boardVars, roundVars>>
    BY <1>5 DEF Decide
  <2>4. CASE c = "continue"
    BY <1>2, <2>1, <2>2, <2>3, <2>4, ReturnStep DEF boardVars
  <2>5. CASE c # "continue"
    BY <1>2, <2>1, <2>2, <2>3, <2>5, ReturnStep DEF boardVars
  <2> QED BY <2>4, <2>5
<1> QED BY <1>3, <1>4, <1>5

-----------------------------------------------------------------------------
(* The theorems *)

LEMMA InitIInv == InitWorkflow => IInv
<1>1. SUFFICES ASSUME InitWorkflow PROVE IInv
  OBVIOUS
<1>2. plan \in {normalizeWorkflowPlan(p) : p \in Plans} /\ MaxRounds \in Nat
  BY <1>1, PlansAssumption DEF InitWorkflow
<1>3. /\ PlanSteps \subseteq Steps /\ plan.primaries \subseteq Delegates
      /\ Delegates \subseteq PlanSteps /\ plan.retries \in [Steps -> Nat]
  BY <1>2, PlanFacts
<1>4. TypesInv
  BY <1>1, <1>2, <1>3 DEF InitWorkflow, TypesInv, TypeOK
<1>5. \A s \in Steps : StepInv(s)
  <2>1. SUFFICES ASSUME NEW s \in Steps PROVE StepInv(s)
    OBVIOUS
  <2>2. StageAndResult(s) /\ SpeaksForItself(s)
    BY <1>1 DEF InitWorkflow, StageAndResult, SpeaksForItself, Completed
  <2>3. CallsAreCounted(s)
    BY <1>1, <1>3 DEF InitWorkflow, CallsAreCounted, Delegating, Busy
  <2>4. BoardFollows(s)
    BY <1>1 DEF InitWorkflow, BoardFollows
  <2> QED BY <2>2, <2>3, <2>4 DEF StepInv
<1>6. PhaseInv /\ GateInv
  BY <1>1 DEF InitWorkflow, PhaseInv, GateInv, Untouched
<1>7. SkipsHaveACause /\ DepsComplete
  BY <1>1, <1>3 DEF InitWorkflow, SkipsHaveACause, DepsComplete
<1>8. CompletedIsWhole /\ HonestAnswer /\ AskBeforePartial
  BY <1>1 DEF InitWorkflow, CompletedIsWhole, HonestAnswer, AskBeforePartial
<1> QED BY <1>4, <1>5, <1>6, <1>7, <1>8 DEF IInv

LEMMA StepIInv == IInv /\ [NextWorkflow]_vars => IInv'
<1>1. SUFFICES ASSUME IInv, [NextWorkflow]_vars PROVE IInv'
  OBVIOUS
<1>2. CASE OpenGate
  BY <1>1, <1>2, OpenGateStep
<1>3. CASE Approve
  <2>1. Passed'
    BY <1>3 DEF Approve, Passed
  <2> QED BY <1>1, <1>3, <2>1, StartStep DEF Approve
<1>4. CASE Reject
  BY <1>1, <1>4, RefuseStep DEF Reject
<1>5. CASE GateTimeout
  BY <1>1, <1>5, GateTimeoutStep
<1>6. CASE RoundEnds
  BY <1>1, <1>6, RoundEndsStep
<1>7. CASE NextWave
  BY <1>1, <1>7, NextWaveStep
<1>8. CASE CollectWave
  BY <1>1, <1>8, CollectWaveStep
<1>9. CASE Deadlock \/ Finish \/ Decide
  BY <1>1, <1>9, EndSteps
<1>10. CASE \E s \in Steps : \/ CollabAnswer(s) \/ DelegateEnds(s) \/ WatchdogFires(s)
                             \/ OtherEnds(s) \/ ZombieEnds(s)
  BY <1>1, <1>10, CollabAnswerStep, DelegateEndsStep, WatchdogFiresStep, OtherEndsStep,
     ZombieEndsStep
<1>11. CASE UNCHANGED vars
  <2>1. UNCHANGED <<plan, phase, gate, wave, stage, res, fell, spoke, seen, tries, live, todo,
                    record, error, round, waiting, last, choice, status, answer>>
    BY <1>11 DEF vars, stepVars, boardVars, roundVars, endVars
  <2>2. /\ \A s \in Steps : StepInv(s)'
        /\ SkipsHaveACause' /\ DepsComplete'
        /\ PlanSteps' = PlanSteps /\ Delegates' = Delegates
        /\ ApprovalMode' = ApprovalMode /\ HumanSteps' = HumanSteps
        /\ AutoApproved' <=> AutoApproved
    BY <1>1, <2>1, NobodyMoves DEF stepVars
  <2>3. TypesInv'
    BY <1>1, <2>1, <2>2 DEF IInv, TypesInv, TypeOK
  <2>4. PhaseInv' /\ GateInv'
    BY <1>1, <2>1, <2>2 DEF IInv, PhaseInv, GateInv, Untouched, Passed
  <2>5. CompletedIsWhole' /\ HonestAnswer' /\ AskBeforePartial'
    BY <1>1, <2>1, <2>2 DEF IInv, CompletedIsWhole, HonestAnswer, AskBeforePartial, Completed, Finished
  <2> QED BY <2>2, <2>3, <2>4, <2>5 DEF IInv
<1> QED BY <1>1, <1>2, <1>3, <1>4, <1>5, <1>6, <1>7, <1>8, <1>9, <1>10, <1>11 DEF NextWorkflow

\* The invariant holds in every state of every workflow.
THEOREM WorkflowInvariant == SpecWorkflow => []IInv
BY InitIInv, StepIInv, PTL DEF SpecWorkflow

\* Every variable holds a value of its kind, and no step is attempted, or has
\* calls under way, beyond its clamped budget: for any plans and caps.
THEOREM TypeCorrect == SpecWorkflow => []TypeOK
<1>1. IInv => TypeOK
  BY DEF IInv, TypesInv
<1> QED BY <1>1, WorkflowInvariant, PTL

\* executeWorkflow's gate: no step, round or sub-task call of any plan happens
\* behind the approval's back, and a timeout lets only harmless plans through.
THEOREM GateIsHeld == SpecWorkflow => []GateHolds
<1>1. IInv => GateHolds
  <2>1. SUFFICES ASSUME IInv PROVE GateHolds
    OBVIOUS
  <2>2. Untouched => ~(round > 0 \/ \E s \in Steps : stage[s] # "idle" \/ live[s] > 0)
    BY DEF Untouched
  <2>3. Passed => \/ ApprovalMode = "none"
                  \/ gate = "approved"
                  \/ /\ gate = "auto" /\ HumanSteps = {}
                     /\ \A s \in PlanSteps :
                          /\ plan.strategy[s] # "full-pipeline"
                          /\ plan.strategy[s] = "direct-tool" => s \notin plan.destructive
    BY DEF Passed, AutoApproved, Risky
  <2> QED BY <2>1, <2>2, <2>3 DEF IInv, GateInv, GateHolds
<1> QED BY <1>1, WorkflowInvariant, PTL

\* Nothing is skipped unnoticed, in any plan: a step sees what it depends on, a
\* completed workflow ran whole, damage is not shipped unasked, and the board
\* says what happened.
THEOREM NothingIsSkippedUnnoticed == SpecWorkflow => []WorkIsWhole
<1>1. IInv => WorkIsWhole
  <2>1. SUFFICES ASSUME IInv PROVE WorkIsWhole
    OBVIOUS
  <2>2. ASSUME phase = "returned", status \in {"completed", "partial"},
               NEW s \in PlanSteps \ plan.primaries
        PROVE  /\ todo[s] = (IF Completed(s) THEN "done" ELSE res[s])
               /\ s \in Delegates => record[s] \in {"done", "failed", "skipped"}
               /\ record[s] = "done" => Completed(s) /\ ~fell[s]
    <3>1. s \in Steps /\ StepInv(s) /\ res[s] # "none" /\ wave = {}
      BY <2>1, <2>2, PlanFacts DEF IInv, TypesInv, TypeOK, PhaseInv
    <3>2. stage[s] \in {"idle", "done"} /\ (stage[s] = "idle" => res[s] = "skipped")
      <4>1. stage[s] \in {"idle", "first", "fallback", "done"}
            /\ res[s] \in {"none", "completed", "blank", "failed", "skipped"}
        BY <2>1, <3>1 DEF IInv, TypesInv, TypeOK
      <4> QED BY <2>2, <3>1, <4>1 DEF StepInv, StageAndResult
    <3> QED BY <2>2, <3>1, <3>2 DEF StepInv, BoardFollows, InWaves
  <2>3. BoardAgrees
    BY <2>2 DEF BoardAgrees
  <2> QED BY <2>1, <2>3 DEF IInv, WorkIsWhole
<1> QED BY <1>1, WorkflowInvariant, PTL

\* Nothing is made up, in any plan: a result in a persona's name is the persona's,
\* and an answer made of the steps' results has some.
THEOREM NothingIsMadeUp == SpecWorkflow => []HonestResult
<1>1. IInv => HonestResult
  <2>1. SUFFICES ASSUME IInv PROVE HonestResult
    OBVIOUS
  <2>2. Delegates \subseteq Steps
    BY <2>1, PlanFacts DEF IInv, TypesInv, TypeOK
  <2>3. HonestVoice
    BY <2>1, <2>2 DEF IInv, StepInv, SpeaksForItself, HonestVoice
  <2> QED BY <2>1, <2>3 DEF IInv, HonestResult
<1> QED BY <1>1, WorkflowInvariant, PTL
=============================================================================
