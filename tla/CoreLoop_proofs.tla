-------------------------- MODULE CoreLoop_proofs --------------------------
(* Proofs about CoreLoop: its type, the verification guarantee, the         *)
(* checkpoint, the escalation cap and the implementation of TaskContract.  *)
EXTENDS CoreLoop, TLAPS

\* Between the checkpoint of an attempt and the end of that attempt.
AfterDispatch == {"ground", "verify", "re-verify", "learn", "review", "tools", "commit", "report"}

\* Between the head of the inner loop and the end of the attempt.
InAttempt == AfterDispatch \union {"understand", "predict", "plan", "generate", "dispatch"}

\* The bounds of the counters while the task is open.
BoundsInv ==
    /\ pc \in Phases => tokens <= TokenCap
    /\ pc \in InAttempt => retry < MaxRetries

\* An open task has no result and has not been announced; a returned one has.
\* From the first attempt that was dispatched on there is a row, unless no save
\* succeeded, and nothing ends that row before the task has a result.
EndInv ==
    /\ pc \in Phases => result = "none" /\ completes = 0
    /\ pc \in Phases => checkpoint \in {"none", "dispatched"}
    /\ pc = "returned" => result # "none"
    /\ pc \in AfterDispatch \union {"dispatch"} => checkpoint = "dispatched" \/ "save" \in swallowed
    /\ result = "none" =>
          /\ checkpoint \in {"none", "dispatched"} \/ (checkpoint = "abandoned" /\ pc = "restarted")
          /\ tokens > 0 => checkpoint # "none" \/ "save" \in swallowed

\* From the decision on, commit means that the gate passed this candidate, and
\* only a committed candidate goes on to the tools and the workspace, with no way
\* back into the loop.
VettedInv ==
    /\ pc \in {"review", "tools", "commit", "report"} => commit
    /\ pc \in {"learn", "review", "tools", "commit", "report"} /\ commit => gate = "passed"
    /\ tools \in {"ran", "wrote"} => pc \notin Phases \ {"commit", "report"}
    /\ workspace # "clean" => pc \notin Phases \ {"report"}

\* The router leaves the cap alone, so what keeps an escalation within it is
\* that the level is there already, or that nothing caps the task, or that the
\* risk of a conversational task is too low to be routed above L0.
CapInv ==
    pc \in Phases \ {"prepare"} =>
        \/ cap = MaxLevel
        \/ cap <= level
        \/ cap = 1 /\ level = 0 /\ AssessLevel(task.mins) = 0

IInv == TypeOK /\ BoundsInv /\ EndInv /\ VettedInv /\ CapInv
          /\ CommitVerified /\ CompletedSurvivesCrash

-----------------------------------------------------------------------------
(* The risk router.                                                        *)

\* The fields of a task, as KindAssumption types them.
LEMMA KindTyped ==
    ASSUME TypeOK
    PROVE  /\ task.risk \in Levels /\ task.floor \in 0..2
           /\ task.calibrated \in BOOLEAN /\ task.reasoning \in BOOLEAN /\ task.needsTools \in BOOLEAN
           /\ task.domain \in {"conversational", "inquire", "other"}
           /\ task.mins = <<>> \/ \E l \in Levels : task.mins = <<l>>
    BY CoreAssumption DEF TypeOK, KindAssumption

\* Which constraint of the list counts, when one is appended on escalation.
LEMMA AppendedMin ==
    ASSUME TypeOK, NEW n \in Nat
    PROVE  /\ Append(task.mins, n) # <<>>
           /\ task.mins = <<>> => Append(task.mins, n)[1] = n
           /\ task.mins # <<>> => Append(task.mins, n)[1] = task.mins[1] /\ task.mins[1] \in Levels
    <1>1. CASE task.mins = <<>>
        BY <1>1
    <1>2. CASE \E l \in Levels : task.mins = <<l>>
        BY <1>2
    <1> QED BY <1>1, <1>2, KindTyped

\* routeByRisk stays within the levels.
LEMMA RouteTyped ==
    ASSUME NEW r \in Levels, NEW c \in BOOLEAN, NEW f \in 0..2
    PROVE  RouteByRisk(r, c, f) \in Levels
    BY DEF RouteByRisk, AtLeast, Levels, MaxLevel

\* assessInitialLevel gives a level, for the task's own constraints and on an
\* escalation to a level there is.
LEMMA AssessTyped ==
    ASSUME TypeOK
    PROVE  /\ AssessLevel(task.mins) \in Levels
           /\ level + 1 \in Levels => AssessLevel(Append(task.mins, level + 1)) \in Levels
    <1> DEFINE llm == IF task.reasoning THEN AtLeast(RouteByRisk(task.risk, task.calibrated, task.floor), 1)
                                        ELSE RouteByRisk(task.risk, task.calibrated, task.floor)
    <1>1. llm \in Levels
        BY KindTyped, RouteTyped DEF AtLeast, Levels, MaxLevel
    <1>2. ASSUME NEW m \in Levels
          PROVE  RouteByRisk(AtLeast(task.risk, m), task.calibrated, task.floor) \in Levels
        BY KindTyped, RouteTyped DEF AtLeast
    <1>3. AssessLevel(task.mins) \in Levels
        <2>1. CASE task.mins = <<>>
            BY <2>1, <1>1 DEF AssessLevel
        <2>2. CASE \E l \in Levels : task.mins = <<l>>
            <3>1. task.mins # <<>> /\ task.mins[1] \in Levels
                BY <2>2
            <3> QED BY <3>1, <1>1, <1>2 DEF AssessLevel, Levels, MaxLevel
        <2> QED BY <2>1, <2>2, KindTyped
    <1>4. ASSUME level + 1 \in Levels
          PROVE  AssessLevel(Append(task.mins, level + 1)) \in Levels
        <2>1. level + 1 \in Nat
            BY DEF TypeOK, Levels
        <2>2. Append(task.mins, level + 1) # <<>> /\ Append(task.mins, level + 1)[1] \in Levels
            BY <2>1, <1>4, AppendedMin
        <2> QED BY <2>2, <1>1, <1>2 DEF AssessLevel, Levels, MaxLevel
    <1> QED BY <1>3, <1>4

-----------------------------------------------------------------------------
(* Each step keeps each part of the invariant.                             *)

\* A failed write of the row is a save or the end.
LEMMA SwallowedStep ==
    ASSUME TypeOK, Next
    PROVE  swallowed' \subseteq {"save", "end"}
    <1>1. swallowed' \in {swallowed, swallowed \union {"save"}, swallowed \union {"end"}}
        BY DEF Next, Step, Prepare, BeginAttempt, Understand, Predict, Plan, Generate, Dispatch,
               DispatchRefused, QualityRetry, Charge, Candidate, Ground, Verify, Contradict, Decide,
               ReVerify, Learn, NextAttempt, Review, RunTools, Commit, Report, Escalate, Reroute,
               Throw, Tick, Crash, Restart, Goto, Finish, FinishSilently, Escape, RecordEnd, Saved,
               endVars
    <1> QED BY <1>1 DEF TypeOK

\* Each step keeps every variable in its type.
LEMMA TypeStep ==
    ASSUME TypeOK, BoundsInv, EndInv, Next
    PROVE  TypeOK'
    <1> USE DEF TypeOK, BoundsInv, EndInv, Levels, MaxLevel,
               loopVars, budgetVars, workVars, endVars, Phases, AfterDispatch, InAttempt,
               Goto, Finish, FinishSilently, Escape, RecordEnd, Recorded, Statuses
    <1>0. swallowed' \subseteq {"save", "end"}
        BY SwallowedStep
    <1>1. CASE Prepare
        BY <1>0, <1>1, AssessTyped
            DEF Prepare, DomainLevel, AtLeast, AtMost, ConversationalLevel,
                HardDegradeLevel
    <1>2. CASE BeginAttempt
        BY <1>0, <1>2, CoreAssumption DEF BeginAttempt, Safety
    <1>3. CASE Understand
        BY <1>0, <1>3 DEF Understand
    <1>4. CASE Predict
        BY <1>0, <1>4 DEF Predict
    <1>5. CASE Plan
        BY <1>0, <1>5 DEF Plan
    <1>6. CASE Generate
        <2>1. pc' \in Phases \union {"returned"} /\ result' \in Statuses \union {"none", "threw"}
            BY <1>6 DEF Generate, Saved
        <2>2. tokens' \in 0..(TokenCap + AttemptTokens) /\ retry' \in 0..MaxRetries
            BY <1>6, CoreAssumption DEF Generate, Saved
        <2>3. mutates' \in BOOLEAN /\ tools' \in {"none", "proposed", "ran", "wrote"}
              /\ gate' \in {"none", "passed", "rejected", "peer"}
              /\ verdict' \in {"none", "passed", "rejected", "blocked"}
            BY <1>6 DEF Generate, Saved
        <2>4. checkpoint' \in {"none", "dispatched", "completed", "failed", "abandoned"} /\ completes' \in 0..1
            BY <1>6 DEF Generate, Saved
        <2> QED BY <1>0, <1>6, <2>1, <2>2, <2>3, <2>4 DEF Generate
    <1>20. CASE Dispatch
        BY <1>0, <1>20, CoreAssumption DEF Dispatch, DispatchRefused, QualityRetry, Charge, Candidate
    <1>7. CASE Ground
        BY <1>0, <1>7 DEF Ground
    <1>8. CASE Verify
        <2>1. CASE Contradict
            <3>1. CASE level < MaxLevel
                BY <1>0, <1>8, <2>1, <3>1, CoreAssumption DEF Verify, Contradict
            <3>2. CASE ~(level < MaxLevel)
                BY <1>0, <1>8, <2>1, <3>2 DEF Verify, Contradict
            <3> QED BY <3>1, <3>2
        <2>2. ASSUME NEW passed \in BOOLEAN, NEW block \in BOOLEAN,
                     NEW decision \in {"allow", "re-verify", "escalate", "refuse"},
                     Decide(passed, block, decision)
              PROVE  TypeOK'
            <3>1. commit' \in BOOLEAN
                BY <2>2, Zenon DEF Decide, Downgraded
            <3>2. /\ gate' \in {"none", "passed", "rejected", "peer"}
                  /\ verdict' \in {"none", "passed", "rejected", "blocked"}
                BY <2>2 DEF Decide
            <3>3. /\ pc' \in Phases \union {"returned"} /\ result' \in Statuses \union {"none", "threw"}
                  /\ checkpoint' = checkpoint /\ completes' = completes
                BY <2>2 DEF Decide, Downgraded
            <3> QED BY <1>0, <1>8, <2>2, <3>1, <3>2, <3>3 DEF Verify, Decide
        <2> QED BY <1>8, <2>1, <2>2 DEF Verify
    <1>9. CASE ReVerify
        BY <1>0, <1>9 DEF ReVerify
    <1>10. CASE Learn
        BY <1>0, <1>10, CoreAssumption DEF Learn, NextAttempt
    <1>11. CASE Review
        BY <1>0, <1>11, CoreAssumption DEF Review, NextAttempt
    <1>12. CASE RunTools
        <2>1. mutates' \in BOOLEAN /\ tools' \in {"none", "proposed", "ran", "wrote"}
            BY <1>12, Zenon DEF RunTools
        <2>2. /\ pc' \in Phases \union {"returned"} /\ result' \in Statuses \union {"none", "threw"}
              /\ checkpoint' = checkpoint /\ completes' = completes
            BY <1>12 DEF RunTools
        <2> QED BY <1>0, <1>12, <2>1, <2>2 DEF RunTools
    <1>13. CASE Commit
        BY <1>0, <1>13 DEF Commit
    <1>14. CASE Report
        BY <1>0, <1>14 DEF Report, Reported
    <1>15. CASE Escalate
        BY <1>0, <1>15, AssessTyped, CoreAssumption
            DEF Escalate, AtCap, Reroute, EscalationMin
    <1>16. CASE Throw
        BY <1>0, <1>16 DEF Throw, Tracing
    <1>17. CASE Tick
        BY <1>0, <1>17, CoreAssumption DEF Tick
    <1>18. CASE Crash
        BY <1>0, <1>18, CoreAssumption DEF Crash
    <1>19. CASE Restart
        BY <1>0, <1>19 DEF Restart
    <1> QED BY <1>1, <1>2, <1>3, <1>4, <1>5, <1>6, <1>7, <1>8, <1>9, <1>10,
              <1>11, <1>12, <1>13, <1>14, <1>15, <1>16, <1>17, <1>18, <1>19, <1>20 DEF Next, Step

\* Each step keeps the counters of an open task within their bounds.
LEMMA BoundsStep ==
    ASSUME TypeOK, BoundsInv, Next
    PROVE  BoundsInv'
    <1> USE DEF TypeOK, BoundsInv,
               loopVars, budgetVars, workVars, endVars, Phases, AfterDispatch, InAttempt,
               Goto, Finish, FinishSilently, Escape, RecordEnd, Recorded, Statuses
    <1>1. CASE Prepare
        BY <1>1
            DEF Prepare, DomainLevel, AtLeast, AtMost, ConversationalLevel,
                HardDegradeLevel
    <1>2. CASE BeginAttempt
        BY <1>2, CoreAssumption DEF BeginAttempt, Safety
    <1>3. CASE Understand
        BY <1>3 DEF Understand
    <1>4. CASE Predict
        BY <1>4 DEF Predict
    <1>5. CASE Plan
        BY <1>5 DEF Plan
    <1>6. CASE Generate
        BY <1>6, CoreAssumption DEF Generate, Saved
    <1>20. CASE Dispatch
        BY <1>20, CoreAssumption DEF Dispatch, DispatchRefused, QualityRetry, Charge, Candidate
    <1>7. CASE Ground
        BY <1>7 DEF Ground
    <1>8. CASE Verify
        BY <1>8 DEF Verify, Contradict, Decide, Downgraded, Pinned
    <1>9. CASE ReVerify
        BY <1>9 DEF ReVerify
    <1>10. CASE Learn
        BY <1>10, CoreAssumption DEF Learn, NextAttempt
    <1>11. CASE Review
        BY <1>11, CoreAssumption DEF Review, NextAttempt
    <1>12. CASE RunTools
        BY <1>12 DEF RunTools
    <1>13. CASE Commit
        BY <1>13 DEF Commit
    <1>14. CASE Report
        BY <1>14 DEF Report, Reported
    <1>15. CASE Escalate
        BY <1>15 DEF Escalate, AtCap, Reroute, EscalationMin
    <1>16. CASE Throw
        BY <1>16 DEF Throw, Tracing
    <1>17. CASE Tick
        BY <1>17, CoreAssumption DEF Tick
    <1>18. CASE Crash
        BY <1>18 DEF Crash
    <1>19. CASE Restart
        BY <1>19 DEF Restart
    <1> QED BY <1>1, <1>2, <1>3, <1>4, <1>5, <1>6, <1>7, <1>8, <1>9, <1>10,
              <1>11, <1>12, <1>13, <1>14, <1>15, <1>16, <1>17, <1>18, <1>19, <1>20 DEF Next, Step

\* Each step keeps an open task unannounced and a returned one answered.
LEMMA EndStep ==
    ASSUME TypeOK, EndInv, Next
    PROVE  EndInv'
    <1> USE DEF TypeOK, EndInv,
               loopVars, budgetVars, workVars, endVars, Phases, AfterDispatch, InAttempt,
               Goto, Finish, FinishSilently, Escape, RecordEnd, Recorded, Statuses
    <1>1. CASE Prepare
        BY <1>1
            DEF Prepare, DomainLevel, AtLeast, AtMost, ConversationalLevel,
                HardDegradeLevel
    <1>2. CASE BeginAttempt
        BY <1>2 DEF BeginAttempt, Safety
    <1>3. CASE Understand
        BY <1>3 DEF Understand
    <1>4. CASE Predict
        BY <1>4 DEF Predict
    <1>5. CASE Plan
        BY <1>5 DEF Plan
    <1>6. CASE Generate
        BY <1>6 DEF Generate, Saved
    <1>20. CASE Dispatch
        BY <1>20, CoreAssumption DEF Dispatch, DispatchRefused, QualityRetry, Charge, Candidate
    <1>7. CASE Ground
        BY <1>7 DEF Ground
    <1>8. CASE Verify
        BY <1>8 DEF Verify, Contradict, Decide, Downgraded, Pinned
    <1>9. CASE ReVerify
        BY <1>9 DEF ReVerify
    <1>10. CASE Learn
        BY <1>10 DEF Learn, NextAttempt
    <1>11. CASE Review
        BY <1>11 DEF Review, NextAttempt
    <1>12. CASE RunTools
        BY <1>12 DEF RunTools
    <1>13. CASE Commit
        BY <1>13 DEF Commit
    <1>14. CASE Report
        BY <1>14 DEF Report, Reported
    <1>15. CASE Escalate
        BY <1>15 DEF Escalate, AtCap, Reroute, EscalationMin
    <1>16. CASE Throw
        BY <1>16 DEF Throw, Tracing
    <1>17. CASE Tick
        BY <1>17 DEF Tick
    <1>18. CASE Crash
        BY <1>18 DEF Crash
    <1>19. CASE Restart
        BY <1>19 DEF Restart
    <1> QED BY <1>1, <1>2, <1>3, <1>4, <1>5, <1>6, <1>7, <1>8, <1>9, <1>10,
              <1>11, <1>12, <1>13, <1>14, <1>15, <1>16, <1>17, <1>18, <1>19, <1>20 DEF Next, Step

\* Each step keeps commit, and what follows from it, tied to a passed gate.
LEMMA VettedStep ==
    ASSUME TypeOK, EndInv, VettedInv, CommitVerified, Next
    PROVE  (VettedInv /\ CommitVerified)'
    <1> USE DEF TypeOK, EndInv, VettedInv, CommitVerified,
               loopVars, budgetVars, workVars, endVars, Phases, AfterDispatch, InAttempt,
               Goto, Finish, FinishSilently, Escape, RecordEnd, Recorded, Statuses
    <1>1. CASE Prepare
        BY <1>1
            DEF Prepare, DomainLevel, AtLeast, AtMost, ConversationalLevel,
                HardDegradeLevel
    <1>2. CASE BeginAttempt
        BY <1>2 DEF BeginAttempt, Safety
    <1>3. CASE Understand
        BY <1>3 DEF Understand
    <1>4. CASE Predict
        BY <1>4 DEF Predict
    <1>5. CASE Plan
        BY <1>5 DEF Plan
    <1>6. CASE Generate
        BY <1>6 DEF Generate, Saved
    <1>20. CASE Dispatch
        BY <1>20, CoreAssumption DEF Dispatch, DispatchRefused, QualityRetry, Charge, Candidate
    <1>7. CASE Ground
        BY <1>7 DEF Ground
    <1>8. CASE Verify
        BY <1>8 DEF Verify, Contradict, Decide, Downgraded, Pinned
    <1>9. CASE ReVerify
        BY <1>9 DEF ReVerify
    <1>10. CASE Learn
        BY <1>10 DEF Learn, NextAttempt
    <1>11. CASE Review
        BY <1>11 DEF Review, NextAttempt
    <1>12. CASE RunTools
        BY <1>12 DEF RunTools
    <1>13. CASE Commit
        BY <1>13 DEF Commit
    <1>14. CASE Report
        BY <1>14 DEF Report, Reported
    <1>15. CASE Escalate
        BY <1>15 DEF Escalate, AtCap, Reroute, EscalationMin
    <1>16. CASE Throw
        BY <1>16 DEF Throw, Tracing
    <1>17. CASE Tick
        BY <1>17 DEF Tick
    <1>18. CASE Crash
        BY <1>18 DEF Crash
    <1>19. CASE Restart
        BY <1>19 DEF Restart
    <1> QED BY <1>1, <1>2, <1>3, <1>4, <1>5, <1>6, <1>7, <1>8, <1>9, <1>10,
              <1>11, <1>12, <1>13, <1>14, <1>15, <1>16, <1>17, <1>18, <1>19, <1>20 DEF Next, Step

\* Each step keeps a completed task completed in the checkpoint table.
LEMMA SurvivesStep ==
    ASSUME TypeOK, EndInv, VettedInv, CompletedSurvivesCrash, Next
    PROVE  CompletedSurvivesCrash'
    <1> USE DEF TypeOK, EndInv, VettedInv, CompletedSurvivesCrash,
               loopVars, budgetVars, workVars, endVars, Phases, AfterDispatch, InAttempt,
               Goto, Finish, FinishSilently, Escape, RecordEnd, Recorded, Statuses
    <1>1. CASE Prepare
        BY <1>1
            DEF Prepare, DomainLevel, AtLeast, AtMost, ConversationalLevel,
                HardDegradeLevel
    <1>2. CASE BeginAttempt
        BY <1>2 DEF BeginAttempt, Safety
    <1>3. CASE Understand
        BY <1>3 DEF Understand
    <1>4. CASE Predict
        BY <1>4 DEF Predict
    <1>5. CASE Plan
        BY <1>5 DEF Plan
    <1>6. CASE Generate
        BY <1>6 DEF Generate, Saved
    <1>20. CASE Dispatch
        BY <1>20, CoreAssumption DEF Dispatch, DispatchRefused, QualityRetry, Charge, Candidate
    <1>7. CASE Ground
        BY <1>7 DEF Ground
    <1>8. CASE Verify
        BY <1>8 DEF Verify, Contradict, Decide, Downgraded, Pinned
    <1>9. CASE ReVerify
        BY <1>9 DEF ReVerify
    <1>10. CASE Learn
        BY <1>10 DEF Learn, NextAttempt
    <1>11. CASE Review
        BY <1>11 DEF Review, NextAttempt
    <1>12. CASE RunTools
        BY <1>12 DEF RunTools
    <1>13. CASE Commit
        BY <1>13 DEF Commit
    <1>14. CASE Report
        BY <1>14 DEF Report, Reported
    <1>15. CASE Escalate
        BY <1>15 DEF Escalate, AtCap, Reroute, EscalationMin
    <1>16. CASE Throw
        BY <1>16 DEF Throw, Tracing
    <1>17. CASE Tick
        BY <1>17 DEF Tick
    <1>18. CASE Crash
        BY <1>18 DEF Crash
    <1>19. CASE Restart
        BY <1>19 DEF Restart
    <1> QED BY <1>1, <1>2, <1>3, <1>4, <1>5, <1>6, <1>7, <1>8, <1>9, <1>10,
              <1>11, <1>12, <1>13, <1>14, <1>15, <1>16, <1>17, <1>18, <1>19, <1>20 DEF Next, Step

-----------------------------------------------------------------------------
(* The escalation cap.                                                     *)

\* The level of a task depends on the task alone.
LEMMA AssessStable ==
    ASSUME UNCHANGED task
    PROVE  AssessLevel(task.mins)' = AssessLevel(task.mins)
    BY DEF AssessLevel

\* A task routed to L0 is routed no higher than L1 when L1 is asked for.
LEMMA RouteFromZero ==
    ASSUME TypeOK, AssessLevel(task.mins) = 0
    PROVE  AssessLevel(Append(task.mins, 1)) \in 0..1
    <1> DEFINE route(r) == RouteByRisk(r, task.calibrated, task.floor)
               llm == IF task.reasoning THEN AtLeast(route(task.risk), 1) ELSE route(task.risk)
    <1>1. Append(task.mins, 1) # <<>>
        BY AppendedMin
    <1>2. CASE task.mins = <<>>
        <2>1. llm = 0
            BY <1>2 DEF AssessLevel
        <2>2. task.floor = 0 /\ task.risk \in 0..1
            BY <2>1, KindTyped DEF RouteByRisk, AtLeast, Levels, MaxLevel
        <2>3. route(AtLeast(task.risk, 1)) \in 0..1
            BY <2>2, KindTyped DEF RouteByRisk, AtLeast, Levels, MaxLevel
        <2>4. Append(task.mins, 1)[1] = 1
            BY <1>2, AppendedMin
        <2> QED BY <2>1, <2>3, <2>4, <1>1 DEF AssessLevel
    <1>3. CASE task.mins # <<>>
        <2>1. Append(task.mins, 1)[1] = task.mins[1]
            BY <1>3, AppendedMin
        <2> QED BY <2>1, <1>1, <1>3 DEF AssessLevel
    <1> QED BY <1>2, <1>3

\* Where the next routing level would be under the cap, re-routing stays under
\* it too, and keeps what CapInv says of the level.
LEMMA RerouteWithinCap ==
    ASSUME TypeOK, CapInv, pc = "escalate", ~AtCap,
           NEW next, next = AssessLevel(Append(task.mins, level + 1))
    PROVE  /\ next \in Levels /\ next <= cap
           /\ cap = MaxLevel \/ cap <= next \/ (cap = 1 /\ next = 0 /\ AssessLevel(task.mins) = 0)
    <1>1. level + 1 \in Levels /\ level \in Levels /\ cap \in Levels
        BY DEF AtCap, TypeOK, Levels, MaxLevel
    <1>2. next \in Levels
        BY <1>1, AssessTyped
    <1>3. CASE cap = MaxLevel
        BY <1>2, <1>3 DEF Levels, MaxLevel
    <1>4. CASE cap <= level
        BY <1>1, <1>4 DEF AtCap, Levels
    <1>5. CASE cap = 1 /\ level = 0 /\ AssessLevel(task.mins) = 0
        BY <1>2, <1>5, RouteFromZero DEF Levels
    <1> QED BY <1>3, <1>4, <1>5 DEF CapInv, Phases

\* Each step keeps what makes the next escalation stay within the cap.
LEMMA CapStep ==
    ASSUME TypeOK, CapInv, Next
    PROVE  CapInv'
    <1> USE DEF TypeOK, CapInv, Levels, MaxLevel,
               loopVars, budgetVars, workVars, endVars, Phases, AfterDispatch, InAttempt,
               Goto, Finish, FinishSilently, Escape, RecordEnd, Recorded, Statuses
    <1>1. CASE Prepare
        <2> DEFINE base == IF task.domain = "conversational" THEN ConversationalLevel ELSE MaxLevel
        <2>1. PICK raised \in AssessLevel(task.mins)..MaxLevel, soft \in Levels :
                 \/ pc' = "returned"
                 \/ level' = DomainLevel(raised) /\ cap' = base
                 \/ level' = HardDegradeLevel /\ cap' = base
                 \/ \E l \in Levels : level' = l /\ cap' = AtMost(base, l)
            BY <1>1 DEF Prepare, AtLeast, Levels, MaxLevel
        <2>2. AssessLevel(task.mins) \in Levels /\ raised \in Levels
            BY AssessTyped DEF Levels, MaxLevel
        <2>3. task.domain \in {"conversational", "inquire", "other"} /\ task.needsTools \in BOOLEAN
            BY KindTyped
        <2>4. UNCHANGED task
            BY <1>1 DEF Prepare
        <2> QED BY <2>1, <2>2, <2>3, <2>4, AssessStable
            DEF DomainLevel, AtLeast, AtMost, ConversationalLevel, HardDegradeLevel
    <1>2. CASE BeginAttempt
        BY <1>2, AssessStable DEF BeginAttempt, Safety
    <1>3. CASE Understand
        BY <1>3, AssessStable DEF Understand
    <1>4. CASE Predict
        BY <1>4, AssessStable DEF Predict
    <1>5. CASE Plan
        BY <1>5, AssessStable DEF Plan
    <1>6. CASE Generate
        BY <1>6, AssessStable DEF Generate, Saved
    <1>20. CASE Dispatch
        BY <1>20, AssessStable DEF Dispatch, DispatchRefused, QualityRetry, Charge, Candidate
    <1>7. CASE Ground
        BY <1>7, AssessStable DEF Ground
    <1>8. CASE Verify
        BY <1>8, AssessStable DEF Verify, Contradict, Decide, Downgraded, Pinned
    <1>9. CASE ReVerify
        BY <1>9, AssessStable DEF ReVerify
    <1>10. CASE Learn
        BY <1>10, AssessStable DEF Learn, NextAttempt
    <1>11. CASE Review
        BY <1>11, AssessStable DEF Review, NextAttempt
    <1>12. CASE RunTools
        BY <1>12, AssessStable DEF RunTools
    <1>13. CASE Commit
        BY <1>13, AssessStable DEF Commit
    <1>14. CASE Report
        BY <1>14, AssessStable DEF Report, Reported
    <1>15. CASE Escalate
        <2>1. CASE ~AtCap /\ Reroute
            <3>1. level' = AssessLevel(Append(task.mins, level + 1)) /\ UNCHANGED <<task, cap>> /\ pc = "escalate"
                BY <1>15, <2>1 DEF Reroute, Escalate
            <3> QED BY <2>1, <3>1, RerouteWithinCap, AssessStable
        <2>2. CASE pc' = "returned"
            BY <2>2
        <2> QED BY <1>15, <2>1, <2>2 DEF Escalate
    <1>16. CASE Throw
        BY <1>16, AssessStable DEF Throw, Tracing
    <1>17. CASE Tick
        BY <1>17, AssessStable DEF Tick
    <1>18. CASE Crash
        BY <1>18, AssessStable DEF Crash
    <1>19. CASE Restart
        BY <1>19, AssessStable DEF Restart
    <1> QED BY <1>1, <1>2, <1>3, <1>4, <1>5, <1>6, <1>7, <1>8, <1>9, <1>10,
              <1>11, <1>12, <1>13, <1>14, <1>15, <1>16, <1>17, <1>18, <1>19, <1>20 DEF Next, Step

-----------------------------------------------------------------------------
(* The invariant.                                                          *)

LEMMA InitIInv == Init => IInv
    <1> SUFFICES ASSUME Init PROVE IInv
        OBVIOUS
    <1>1. TypeOK
        <2>1. retry \in 0..MaxRetries /\ remaining \in 0..Duration /\ tokens \in 0..(TokenCap + AttemptTokens)
            BY CoreAssumption DEF Init
        <2>2. level \in Levels /\ cap \in Levels /\ completes \in 0..1
            BY DEF Init, Levels, MaxLevel
        <2> QED BY <2>1, <2>2 DEF Init, TypeOK, Phases
    <1>2. CapInv
        BY DEF Init, CapInv
    <1>3. BoundsInv
        <2>1. tokens <= TokenCap /\ pc \notin InAttempt
            BY CoreAssumption DEF Init, InAttempt, AfterDispatch
        <2> QED BY <2>1 DEF BoundsInv
    <1>5. EndInv /\ VettedInv
        BY DEF Init, EndInv, VettedInv, InAttempt, AfterDispatch, Phases
    <1>4. CommitVerified /\ CompletedSurvivesCrash
        BY DEF Init, CommitVerified, CompletedSurvivesCrash
    <1> QED BY <1>1, <1>2, <1>3, <1>4, <1>5 DEF IInv

LEMMA StutterIInv == IInv /\ UNCHANGED vars => IInv'
    <1> SUFFICES ASSUME IInv, UNCHANGED vars PROVE IInv'
        OBVIOUS
    <1> USE DEF vars
    <1>1. TypeOK'
        BY DEF IInv, TypeOK
    <1>2. CapInv'
        BY AssessStable DEF IInv, CapInv
    <1>3. BoundsInv' /\ EndInv' /\ VettedInv'
        BY DEF IInv, BoundsInv, EndInv, VettedInv
    <1>4. CommitVerified' /\ CompletedSurvivesCrash'
        BY DEF IInv, CommitVerified, CompletedSurvivesCrash
    <1> QED BY <1>1, <1>2, <1>3, <1>4 DEF IInv

\* The inductive invariant holds in every reachable state.
THEOREM CoreInvariant == Spec => []IInv
    <1>1. IInv /\ [Next]_vars => IInv'
        BY StutterIInv, TypeStep, BoundsStep, EndStep, VettedStep, SurvivesStep, CapStep
            DEF IInv
    <1> QED BY <1>1, InitIInv, PTL DEF Spec

\* Every variable keeps its type: among them, the level never leaves L0..L3 and
\* task:complete is emitted at most once.
THEOREM TypeCorrect == Spec => []TypeOK
    <1>1. IInv => TypeOK
        BY DEF IInv
    <1> QED BY <1>1, CoreInvariant, PTL

\* A file is written, or "completed" returned, only for a candidate that the last
\* run of the oracle gate passed, or for a peer's vetted result.
THEOREM CommitIsVerified == Spec => []CommitVerified
    <1>1. IInv => CommitVerified
        BY DEF IInv
    <1> QED BY <1>1, CoreInvariant, PTL

\* The checkpoint row tells a restart the truth, but for the write of it that failed
\* and was caught: a completed task stays completed there, and a task that died with
\* an attempt paid for is found.
THEOREM CompletedIsKept == Spec => []CompletedSurvivesCrash
    <1>1. IInv => CompletedSurvivesCrash
        BY DEF IInv
    <1> QED BY <1>1, CoreInvariant, PTL

\* Re-routing after exhausted retries never passes the domain cap or the
\* soft-degrade cap.
THEOREM EscalationIsCapped == Spec => EscalationWithinCap
    <1>1. IInv /\ [Next]_vars => [pc = "escalate" /\ pc' = "attempt" => level' <= cap]_vars
        <2> SUFFICES ASSUME IInv, Next, pc = "escalate", pc' = "attempt" PROVE level' <= cap
            BY DEF vars
        <2>1. ~AtCap /\ level' = AssessLevel(Append(task.mins, level + 1))
            BY DEF Next, Step, Prepare, BeginAttempt, Understand, Predict, Plan, Generate, Dispatch,
                   Ground, Verify, ReVerify, Learn, Review, RunTools, Commit, Report, Escalate, Throw,
                   Tick, Crash, Restart, Finish, Escape, Reroute
        <2> QED BY <2>1, RerouteWithinCap DEF IInv
    <1> QED BY <1>1, CoreInvariant, PTL DEF Spec, EscalationWithinCap

-----------------------------------------------------------------------------
(* The core loop implements TaskContract.                                  *)

LEMMA ContractInit == Init => Contract!Init
    BY DEF Init, Contract!Init, Outcome, Phases

\* Each step of the core loop is a step of the contract or none.
LEMMA ContractStep ==
    ASSUME IInv, IInv', Next
    PROVE  (Contract!Next \/ UNCHANGED Contract!vars)
    <1> USE
        DEF IInv, TypeOK, EndInv, VettedInv, CommitVerified, Outcome, Contract!Next,
            Contract!vars, Contract!CleanStatuses, Contract!Untouched,
               loopVars, budgetVars, workVars, endVars, Phases, AfterDispatch, InAttempt,
               Goto, Finish, FinishSilently, Escape, RecordEnd, Recorded, Statuses
    <1>1. CASE Prepare
        BY <1>1
            DEF Prepare, DomainLevel, AtLeast, AtMost, ConversationalLevel,
                HardDegradeLevel, Contract!End
    <1>2. CASE BeginAttempt
        BY <1>2 DEF BeginAttempt, Safety, Contract!End
    <1>3. CASE Understand
        BY <1>3 DEF Understand, Contract!End
    <1>4. CASE Predict
        BY <1>4 DEF Predict, Contract!End, Contract!Delegate
    <1>5. CASE Plan
        BY <1>5 DEF Plan, Contract!End
    <1>6. CASE Generate
        BY <1>6
            DEF Generate, Saved, Contract!End
    <1>20. CASE Dispatch
        BY <1>20, CoreAssumption DEF Dispatch, DispatchRefused, QualityRetry, Charge, Candidate, Contract!End, Contract!Vet
    <1>7. CASE Ground
        BY <1>7 DEF Ground, Contract!End
    <1>8. CASE Verify
        BY <1>8
            DEF Verify, Contradict, Decide, Downgraded, Pinned, Contract!Vet,
                Contract!End
    <1>9. CASE ReVerify
        BY <1>9 DEF ReVerify, Contract!Vet
    <1>10. CASE Learn
        BY <1>10 DEF Learn, NextAttempt, Contract!End
    <1>11. CASE Review
        BY <1>11 DEF Review, NextAttempt
    <1>12. CASE RunTools
        BY <1>12 DEF RunTools, Contract!Act, Contract!Throw
    <1>13. CASE Commit
        BY <1>13 DEF Commit, Contract!Change, Contract!End
    <1>14. CASE Report
        BY <1>14 DEF Report, Reported, Contract!Complete, Contract!End, Contract!Throw
    <1>15. CASE Escalate
        BY <1>15 DEF Escalate, AtCap, Reroute, EscalationMin, Contract!End
    <1>16. CASE Throw
        BY <1>16 DEF Throw, Tracing, Contract!Throw, Contract!End
    <1>17. CASE Tick
        BY <1>17 DEF Tick
    <1>18. CASE Crash
        BY <1>18 DEF Crash, Contract!Lose
    <1>19. CASE Restart
        BY <1>19 DEF Restart
    <1> QED BY <1>1, <1>2, <1>3, <1>4, <1>5, <1>6, <1>7, <1>8, <1>9, <1>10,
              <1>11, <1>12, <1>13, <1>14, <1>15, <1>16, <1>17, <1>18, <1>19, <1>20 DEF Next, Step

\* The core loop implements the contract its callers rely on.
THEOREM ImplementsContract == Spec => MeetsContract
    <1>1. IInv /\ IInv' /\ [Next]_vars => [Contract!Next]_(Contract!vars)
        <2>1. UNCHANGED vars => UNCHANGED Contract!vars
            BY DEF vars, Contract!vars, Outcome
        <2> QED BY <2>1, ContractStep
    <1> QED BY <1>1, ContractInit, CoreInvariant, PTL
        DEF Spec, MeetsContract, Contract!Spec

============================================================================
