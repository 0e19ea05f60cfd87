----------------------------- MODULE AgentLoop -----------------------------
(* One agent session: `runAgentLoop` in the orchestrator                     *)
(* (src/src/orchestrator/agent/agent-loop.ts), the worker subprocess it      *)
(* spawns (agent-worker-entry.ts), the two pipes between them and the        *)
(* session object that guards them (agent-session.ts), the budget            *)
(* (agent-budget.ts), delegation (delegation-router.ts) and the contract     *)
(* that authorizes tool calls (src/src/core/agent-contract.ts).              *)
(*                                                                           *)
(* A tool call is its kind: what the orchestrator will make of it.           *)
(*   tool       authorized, and run by the tool executor                     *)
(*   denied     authorized, and refused by a permission rule or a hook       *)
(*   violation  not covered by the contract's capabilities                   *)
(*   delegate   delegate_task, a child task run to its end                   *)
(*   consult    consult_peer, one question to another model                  *)
(* Left out: the streamed text deltas, transcripts and hints, the events,    *)
(* the silence watchdog (which only emits) and the goal check after `done`   *)
(* (which only emits).                                                       *)
EXTENDS Integers, FiniteSets, Sequences, SequencesExt, FiniteSetsExt

CONSTANTS
    MaxTurns,       \* contract.maxTurns
    MaxToolCalls,   \* contract.maxToolCalls, for the session
    MaxPerTurn,     \* contract.maxToolCallsPerTurn
    Tolerance,      \* contract.violationTolerance; 0 with onViolation = "kill"
    Base,           \* tokens of the base pool
    Pool,           \* tokens of the delegation pool
    MinDelegation,  \* MIN_VIABLE_DELEGATION_BUDGET
    Requested,      \* tokens a delegation asks for
    MaxConsults,    \* MAX_CONSULTATIONS_PER_SESSION
    Headroom,       \* base tokens a consultation needs (500)
    MaxCompress,    \* MAX_COMPRESSION_ATTEMPTS
    Batches,        \* the sequences of calls the model may ask for
    Costs           \* the tokens a turn or a consultation may cost

Kinds == {"tool", "denied", "violation", "delegate", "consult"}

ASSUME AgentAssumption ==
    /\ {MaxTurns, MaxToolCalls, MaxPerTurn, Base} \subseteq Nat \ {0}
    /\ {Tolerance, Pool, MinDelegation, Requested, MaxConsults, Headroom, MaxCompress} \subseteq Nat
    /\ Costs \subseteq Nat /\ Costs # {} /\ IsFiniteSet(Costs)
    /\ Batches \subseteq Seq(Kinds) /\ <<>> \notin Batches

VARIABLES
    phase,       \* where runAgentLoop is
    why,         \* how it returned
    session,     \* AgentSession.state
    turn,        \* the worker turn being handled
    results,     \* the calls of this turn answered so far, by index
    budget,      \* AgentBudgetTracker
    violations,  \* contractViolations
    expired,     \* maxDurationMs is over
    overlay,     \* the session's overlay directory exists
    stdin,       \* the orchestrator holds the worker's stdin open
    down, up,    \* what is in the worker's stdin and stdout
    worker       \* the subprocess

vars == <<phase, why, session, turn, results, budget, violations, expired, overlay,
          stdin, down, up, worker>>
pipes == <<stdin, down, up>>
orchestrator ==
    <<phase, why, session, turn, results, budget, violations, overlay>>

NoTurn == [type |-> "none", id |-> 0, calls |-> <<>>]

Turn(type, id, calls) == [type |-> type, id |-> id, calls |-> calls]

Running == {"running", "delegating", "consulting"}
Over == {"returned", "dead"}
-----------------------------------------------------------------------------
(* The budget.                                                               *)

InitBudget == [turns |-> 0, spent |-> 0, tools |-> 0, delegated |-> 0, reserved |-> 0, consults |-> 0]

\* Slip: the tokens are looked at when a turn is asked for, never between turns.
CanContinue_NoTokens(b) == b.turns < MaxTurns /\ ~expired

CanContinue(b) == b.turns < MaxTurns /\ b.spent < Base /\ ~expired

RecordTurn(b, cost) == [b EXCEPT !.turns = @ + 1, !.spent = @ + cost]

\* Slip: only the number of consultations is looked at.
CanConsult_CountOnly(b) == b.consults < MaxConsults

CanConsult(b) == b.consults < MaxConsults /\ Base - b.spent >= Headroom

Remaining(b) == Pool - b.delegated

\* half of what is left is not rounded the same way twice: the router rounds to
\* the nearest, and deriveChildBudget caps by the floor
Allocated(b) == Min({Requested, (Remaining(b) + 1) \div 2})
Derived(b) == Min({Allocated(b), Remaining(b) \div 2})

CanDelegate(b) == Remaining(b) > 0 /\ Remaining(b) >= MinDelegation

\* returnUnusedDelegation: the result of a child has no `tokensUsed`, so that
\* what is given back is the whole reservation
Refund(b) == [b EXCEPT !.delegated = Max({0, @ - b.reserved}), !.reserved = 0]
-----------------------------------------------------------------------------
(* The session.                                                              *)

\* send: the state is checked, and a write to a dead worker may throw
Sent(message) ==
    /\ session \in {"INIT", "WAITING_FOR_ORCHESTRATOR"}
    /\ session' = "WAITING_FOR_WORKER"
    /\ down' = Append(down, message)
    /\ UNCHANGED <<stdin, up>>

\* EPIPE closes the session, and the error leaves runAgentLoop
PipeClosed ==
    /\ worker.at = "exited"
    /\ session' = "CLOSED"
    /\ phase' = "returned" /\ why' = "thrown"
    /\ overlay' = FALSE
    /\ UNCHANGED pipes

\* the finally block of runAgentLoop, whatever leaves it
Return(reason) ==
    /\ phase' = "returned" /\ why' = reason
    /\ overlay' = FALSE

Ahead(b) == IF CanContinue(b) THEN "receive" ELSE "close"
-----------------------------------------------------------------------------
(* The orchestrator's loop.                                                  *)

InitAgent ==
    /\ phase = "setup" /\ why = "none"
    /\ session = "INIT"
    /\ turn = NoTurn /\ results = <<>>
    /\ budget = InitBudget /\ violations = 0
    /\ expired = FALSE
    /\ overlay = TRUE
    /\ stdin = FALSE /\ down = <<>> /\ up = <<>>
    /\ worker = [at |-> "unborn", llm |-> 0, turns |-> 0, compressed |-> 0, calls |-> <<>>, then |-> "none"]

\* the proxy socket is missing: nothing is spawned
NoProxy ==
    /\ phase = "setup"
    /\ Return("thrown")
    /\ UNCHANGED <<session, turn, results, budget, violations, expired, stdin, down, up, worker>>

Spawn ==
    /\ phase = "setup"
    /\ phase' = "init"
    /\ worker' = [worker EXCEPT !.at = "boot"]
    /\ stdin' = TRUE
    /\ UNCHANGED <<why, session, turn, results, budget, violations, expired, overlay, down, up>>

SendInit ==
    /\ phase = "init"
    /\ \/ /\ Sent(Turn("init", 0, <<>>))
          /\ phase' = Ahead(budget)
          /\ UNCHANGED <<why, overlay>>
       \/ PipeClosed
    /\ UNCHANGED <<turn, results, budget, violations, expired, worker>>

\* the worker's next line, when it is a turn
ReceiveTurn ==
    /\ phase = "receive" /\ session = "WAITING_FOR_WORKER"
    /\ up # <<>>
    /\ turn' = Head(up) /\ up' = Tail(up)
    /\ session' = "WAITING_FOR_ORCHESTRATOR"
    /\ phase' = "turn"
    /\ UNCHANGED <<why, results, budget, violations, expired, overlay, stdin, down, worker>>

\* Slip: the deadline is looked at only where a worker is there to answer.
ReceiveNull_OfTheLiving ==
    /\ phase = "receive" /\ session = "WAITING_FOR_WORKER"
    /\ \/ expired /\ worker.at # "exited" /\ UNCHANGED up
       \/ up # <<>> /\ up' = Tail(up)
    /\ Return("no response")
    /\ UNCHANGED <<session, turn, results, budget, violations, expired, stdin, down, worker>>

\* The deadline, or a line that is no turn, is null, and the loop returns
\* without closing the session.  The end of the worker's stdout is read as an
\* empty line, which is skipped: a crash is not noticed before the deadline.
ReceiveNull ==
    /\ phase = "receive" /\ session = "WAITING_FOR_WORKER"
    /\ \/ expired /\ UNCHANGED up
       \/ up # <<>> /\ up' = Tail(up)
    /\ Return("no response")
    /\ UNCHANGED <<session, turn, results, budget, violations, expired, stdin, down, worker>>

\* Slip: the limit of the session is not applied within a turn.
Allowed_PerTurnOnly(calls) == Min({Len(calls), MaxPerTurn})

\* how many calls of a turn are handled: the rest are dropped
Allowed(calls) == Min({Len(calls), MaxPerTurn, Max({0, MaxToolCalls - budget.tools})})

\* Slip: a call beyond the limit is left out without an answer.
ToolCalls_DropSilently ==
    /\ phase = "turn" /\ turn.type = "tool_calls"
    /\ \E cost \in Costs :
          budget' = [RecordTurn(budget, cost) EXCEPT !.tools = @ + Allowed(turn.calls)]
    /\ results' = <<>>
    /\ turn' = [turn EXCEPT !.calls = SubSeq(@, 1, Allowed(@))]
    /\ phase' = "calls"
    /\ UNCHANGED <<why, session, violations, expired, overlay, stdin, down, up, worker>>

\* a turn with tools: it is counted, and the calls beyond the limits are
\* answered before the others are tried
ToolCalls ==
    /\ phase = "turn" /\ turn.type = "tool_calls"
    /\ \E cost \in Costs :
          budget' = [RecordTurn(budget, cost) EXCEPT !.tools = @ + Allowed(turn.calls)]
    /\ results' = [i \in 1..Len(turn.calls) - Allowed(turn.calls) |-> Allowed(turn.calls) + i]
    /\ turn' = [turn EXCEPT !.calls = SubSeq(@, 1, Allowed(@))]
    /\ phase' = "calls"
    /\ UNCHANGED <<why, session, violations, expired, overlay, stdin, down, up, worker>>

\* the first allowed call that has no answer yet
At == 1 + Cardinality({i \in 1..Len(turn.calls) : Contains(results, i)})

Calling(kind) ==
    /\ phase = "calls"
    /\ At <= Len(turn.calls)
    /\ turn.calls[At] = kind

\* the call At is answered
Answered == results' = Append(results, At)

\* Slip: every unauthorized call is answered, and the policy is applied once
\* the turn is through.
Violation_AfterTheTurn ==
    /\ Calling("violation")
    /\ violations' = violations + 1
    /\ Answered
    /\ IF violations' > Tolerance /\ At = Len(turn.calls) THEN Return("contract")
       ELSE UNCHANGED <<phase, why, overlay>>
    /\ UNCHANGED <<session, turn, budget, expired, stdin, down, up, worker>>

\* an unauthorized call: beyond the tolerance the turn ends here, and so does
\* the loop, which leaves the session as it is
Violation ==
    /\ Calling("violation")
    /\ violations' = violations + 1
    /\ Answered
    /\ IF violations' > Tolerance THEN Return("contract")
       ELSE UNCHANGED <<phase, why, overlay>>
    /\ UNCHANGED <<session, turn, budget, expired, stdin, down, up, worker>>

Denied ==
    /\ Calling("denied")
    /\ Answered
    /\ UNCHANGED <<phase, why, session, turn, budget, violations, expired, overlay,
                   stdin, down, up, worker>>

RunTool ==
    /\ Calling("tool")
    /\ phase' = "running"
    /\ UNCHANGED <<why, session, turn, results, budget, violations, expired, overlay,
                   stdin, down, up, worker>>

\* the executor returns a result, or lets an error of the tool through
ToolReturns ==
    /\ phase = "running"
    /\ \/ /\ Answered
          /\ phase' = "calls"
          /\ UNCHANGED <<why, overlay>>
       \/ Return("thrown") /\ UNCHANGED results
    /\ UNCHANGED <<session, turn, budget, violations, expired, stdin, down, up, worker>>

\* a refused delegation is answered at once; an allowed one reserves its tokens
Delegate ==
    /\ Calling("delegate")
    /\ IF CanDelegate(budget)
       THEN /\ budget' = [budget EXCEPT !.delegated = @ + Derived(budget), !.reserved = Allocated(budget)]
            /\ phase' = "delegating"
            /\ UNCHANGED results
       ELSE Answered /\ UNCHANGED <<budget, phase>>
    /\ UNCHANGED <<why, session, turn, violations, expired, overlay, stdin, down, up, worker>>

\* the child has ended, well or not
ChildReturns ==
    /\ phase = "delegating"
    /\ budget' = Refund(budget)
    /\ Answered
    /\ phase' = "calls"
    /\ UNCHANGED <<why, session, turn, violations, expired, overlay, stdin, down, up, worker>>

Consult ==
    /\ Calling("consult")
    /\ IF CanConsult(budget)
       THEN phase' = "consulting" /\ UNCHANGED results
       ELSE Answered /\ UNCHANGED phase
    /\ UNCHANGED <<why, session, turn, budget, violations, expired, overlay,
                   stdin, down, up, worker>>

\* an opinion is charged to the base pool; no other model, or an error, is free
PeerReturns ==
    /\ phase = "consulting"
    /\ \/ \E cost \in Costs :
             budget' = [budget EXCEPT !.consults = @ + 1, !.spent = @ + cost]
       \/ UNCHANGED budget
    /\ Answered
    /\ phase' = "calls"
    /\ UNCHANGED <<why, session, turn, violations, expired, overlay, stdin, down, up, worker>>

\* every call is answered: the answers go to the worker
Reply ==
    /\ phase = "calls" /\ At > Len(turn.calls)
    /\ \/ /\ Sent(Turn("tool_results", turn.id, results))
          /\ phase' = Ahead(budget)
          /\ UNCHANGED <<why, overlay>>
       \/ PipeClosed
    /\ turn' = NoTurn /\ results' = <<>>
    /\ UNCHANGED <<budget, violations, expired, worker>>

\* done or uncertain: the turn is counted and the session drained
LastTurn ==
    /\ phase = "turn" /\ turn.type \in {"done", "uncertain"}
    /\ \E cost \in Costs : budget' = RecordTurn(budget, cost)
    /\ why' = turn.type
    /\ phase' = "shut"
    /\ stdin' = FALSE
    /\ UNCHANGED <<session, turn, results, violations, expired, overlay, down, up, worker>>

\* close('budget_exceeded'): the worker is told, and what it still writes is
\* not read
Close ==
    /\ phase = "close"
    /\ why' = "budget"
    /\ down' = Append(down, Turn("terminate", 0, <<>>))
    /\ phase' = "shut"
    /\ stdin' = FALSE
    /\ UNCHANGED <<session, turn, results, budget, violations, expired, overlay, up, worker>>

\* shutdownProcess: the worker ends within two seconds, or is killed
Shutdown ==
    /\ phase = "shut"
    /\ worker' = [worker EXCEPT !.at = "exited"]
    /\ session' = "CLOSED"
    /\ Return(why)
    /\ UNCHANGED <<turn, results, budget, violations, expired, stdin, down, up>>

\* the contract's time limit
Deadline ==
    /\ ~expired /\ expired' = TRUE
    /\ UNCHANGED <<orchestrator, pipes, worker>>

\* the orchestrator's process dies: the system closes its end of the pipes
OrchestratorDies ==
    /\ phase # "dead"
    /\ phase' = "dead"
    /\ stdin' = FALSE
    /\ UNCHANGED <<why, session, turn, results, budget, violations, expired, overlay,
                   down, up, worker>>
-----------------------------------------------------------------------------
(* The worker: runAgentWorkerLoop.                                           *)

Alive == worker.at \in {"boot", "think", "await"}

Writes(message) == up' = Append(up, message)

\* it has written its last turn, or none, and its main function returns
Exit == worker' = [worker EXCEPT !.at = "exited"]

Boot ==
    /\ worker.at = "boot"
    /\ \/ /\ down # <<>>
          /\ down' = Tail(down)
          /\ IF Head(down).type = "init" THEN worker' = [worker EXCEPT !.at = "think"] ELSE Exit
       \/ /\ down = <<>> /\ ~stdin
          /\ Exit /\ UNCHANGED down
    /\ UNCHANGED <<orchestrator, expired, stdin, up>>

\* the model cannot answer, or the turns are used up
GiveUp ==
    /\ worker.at = "think"
    /\ Writes(Turn("uncertain", worker.turns, <<>>))
    /\ Exit
    /\ UNCHANGED <<orchestrator, expired, stdin, down>>

\* the history is compressed and the turn of the loop is spent
Compress ==
    /\ worker.at = "think" /\ worker.llm < MaxTurns
    /\ worker.compressed < MaxCompress
    /\ \E n \in {0, 1} :
          worker' = [worker EXCEPT !.llm = @ + 1, !.compressed = @ + 1, !.turns = @ + n]
    /\ UNCHANGED <<orchestrator, expired, stdin, down, up>>

\* the model asks for tools, perhaps with attempt_completion in the same answer
AskForTools ==
    /\ worker.at = "think" /\ worker.llm < MaxTurns
    /\ \E calls \in Batches, then \in {"none", "done", "uncertain"} :
          /\ Writes(Turn("tool_calls", worker.turns + 1, calls))
          /\ worker' = [worker EXCEPT !.at = "await", !.turns = @ + 1, !.calls = calls, !.then = then]
    /\ UNCHANGED <<orchestrator, expired, stdin, down>>

\* the model completes, or stops without a word
Complete ==
    /\ worker.at = "think" /\ worker.llm < MaxTurns
    /\ \E type \in {"done", "uncertain"} : Writes(Turn(type, worker.turns + 1, <<>>))
    /\ worker' = [worker EXCEPT !.at = "exited", !.turns = @ + 1]
    /\ UNCHANGED <<orchestrator, expired, stdin, down>>

\* the answers of its calls, a terminate, or the end of stdin
ReadResults ==
    /\ worker.at = "await"
    /\ \/ /\ down # <<>> /\ down' = Tail(down)
          /\ \/ Head(down).type = "terminate" /\ Exit /\ UNCHANGED up
             \/ /\ Head(down).type = "tool_results"
                /\ IF worker.then = "none"
                   THEN /\ worker' = [worker EXCEPT !.at = "think", !.llm = @ + 1, !.calls = <<>>]
                        /\ UNCHANGED up
                   ELSE Exit /\ Writes(Turn(worker.then, worker.turns, <<>>))
       \/ down = <<>> /\ ~stdin /\ Exit /\ UNCHANGED <<down, up>>
    /\ UNCHANGED <<orchestrator, expired, stdin>>

\* the timer that looks for the parent, from the init turn on
Watchdog ==
    /\ phase = "dead" /\ worker.at \in {"think", "await"}
    /\ Exit
    /\ UNCHANGED <<orchestrator, expired, pipes>>

\* the subprocess dies
WorkerDies ==
    /\ Alive
    /\ Exit
    /\ UNCHANGED <<orchestrator, expired, pipes>>
-----------------------------------------------------------------------------
Loop ==
    \/ NoProxy \/ Spawn \/ SendInit
    \/ ReceiveTurn \/ ReceiveNull
    \/ ToolCalls \/ Violation \/ Denied \/ RunTool \/ Delegate \/ Consult \/ Reply
    \/ LastTurn \/ Close \/ Shutdown

\* what runAgentLoop awaits besides the worker
Awaited == ToolReturns \/ ChildReturns \/ PeerReturns

Worker == Boot \/ GiveUp \/ Compress \/ AskForTools \/ Complete \/ ReadResults

NextAgent ==
    \/ Loop \/ Awaited \/ Worker
    \/ Deadline \/ OrchestratorDies \/ Watchdog \/ WorkerDies

SpecAgent == InitAgent /\ [][NextAgent]_vars

\* Nothing is asked of the worker but that it reads its stdin and that its
\* timer fires: its model may never answer.
FairAgent ==
    /\ SpecAgent
    /\ WF_vars(Loop) /\ WF_vars(Awaited) /\ WF_vars(Deadline)
    /\ WF_vars(Boot) /\ WF_vars(ReadResults) /\ WF_vars(Watchdog)
-----------------------------------------------------------------------------
(* Properties.                                                               *)

\* The parts have the types the source gives them.
TypeOKAgent ==
    /\ phase \in {"setup", "init", "receive", "turn", "calls", "close", "shut"} \union Running \union Over
    /\ why \in {"none", "thrown", "no response", "contract", "done", "uncertain", "budget"}
    /\ session \in {"INIT", "WAITING_FOR_WORKER", "WAITING_FOR_ORCHESTRATOR", "CLOSED"}
    /\ budget.turns \in 0..MaxTurns /\ budget.tools \in 0..MaxToolCalls
    /\ budget.delegated \in 0..Pool /\ budget.consults \in 0..MaxConsults
    /\ violations \in 0..Tolerance + 1
    /\ expired \in BOOLEAN /\ overlay \in BOOLEAN /\ stdin \in BOOLEAN
    /\ worker.at \in {"unborn", "boot", "think", "await", "exited"}
    /\ worker.llm \in 0..MaxTurns /\ Len(up) <= 1 /\ Len(down) <= 2

\* The two ends stay in step: the results a worker reads are those of the turn
\* it waits for, with one answer for each call it made, whichever were dropped,
\* refused, failed or ran.
ResultsAnswerTheTurn ==
    worker.at = "await" /\ down # <<>> /\ Head(down).type = "tool_results" =>
        /\ Head(down).id = worker.turns
        /\ ToSet(Head(down).calls) = DOMAIN worker.calls
        /\ IsInjective(Head(down).calls)

\* Once a session has gone beyond the tolerance of its contract no tool, child
\* or peer is started for it, not even for the calls of the same turn.
KillStopsTools ==
    [][violations > Tolerance => phase' \notin Running /\ budget' = budget]_vars

\* Every call of a turn is accounted for: answered once in its turn, and not run
\* after the kill.
CallsAreAccounted == []ResultsAnswerTheTurn /\ KillStopsTools

\* The base pool is overdrawn by one charge at most: the turn that crosses it,
\* or the consultation that the headroom let in.
OverdraftIsBounded ==
    budget.spent <= Base - 1 + Max({Max(Costs), Max(Costs) - Headroom + 1})

\* The loop returns, even if the worker hangs, crashes or never answers: the
\* deadline ends every wait for it.
LoopReturns == <>(phase \in Over)

\* A worker whose orchestrator has died ends by itself, wherever it was.
OrphanEnds == (phase = "dead" /\ worker.at # "unborn") ~> (worker.at = "exited")

\* Neither process waits for the other for ever: the two above.
NobodyWaitsForever == LoopReturns /\ OrphanEnds

-----------------------------------------------------------------------------
(* What the code says of itself and does not do.                             *)

\* "Kill session if contract violation policy triggered" (agent-loop.ts:1707):
\* a session that is reported as killed is closed.
KilledSessionIsClosed == why = "contract" => session = "CLOSED"

\* "Subprocess crash or timeout" (agent-loop.ts:1355): the loop learns of a
\* crash without waiting for the deadline.
CrashIsNoticed ==
    [][phase = "receive" /\ worker.at = "exited" /\ up = <<>> => ~(expired' /\ ~expired)]_vars

\* A worker that has written `done` in time is not reported as out of budget.
LastTurnIsRead == why = "budget" => ~\E i \in DOMAIN up : up[i].type = "done"
=============================================================================
