# Vinyan in TLA+

Vinyan is an orchestrator for coding agents: a task is routed by risk, an agent proposes changes,
oracles verify the proposal, and what passed is committed. This directory holds a model of the part
of it whose correctness rests on order, failure and competition rather than on the quality of an
answer. Paths below are relative to the repository's `src/` unless they start with `tests/` or `docs/`.

    tlc -workers 2 -config MCTaskQueue.cfg MCTaskQueue      # a run
    tlapm ConcurrentDispatcher_proofs.tla                   # the proofs of a module

`PROJECT.json` lists the components, the runs, for each property a mutation of the model that breaks it,
the source lines that each definition stands for, the findings, the hazards and the theorems.

## 1. The system

All of Vinyan runs in one JavaScript process (Bun): between two `await`s code runs alone, and state is
shared by everything that is awaiting. SQLite and JSONL files survive the process.

| part | state | operations | used by | what is hard | what makes it correct |
|---|---|---|---|---|---|
| Task queue `orchestrator/task-queue.ts` | `active`, `waiting`, `inFlight` | `enqueue`, `drain` | dispatcher, `vinyan serve` | a wake-up and the resumption it causes are two steps | never more tasks than slots; a parked call is woken; drain waits for all |
| Concurrent dispatcher `orchestrator/concurrent-dispatcher.ts`, file lock `orchestrator/agent/file-lock.ts` | results of a batch, lock table | `dispatch`; `tryAcquire`, `release` | API batches, DAG | several batches, one queue and one lock table; a task that throws; a canary | conflicting tasks run in order; locks are given back; every batch ends, with all its results |
| Core loop `orchestrator/core-loop.ts`, `orchestrator/phases/*` | routing level, retries, budget, the candidate and its verdicts | `executeTask`: perceive, predict, plan, generate, verify, learn, commit, escalate | everything | paths through retry, contradiction, re-verification, degradation; the clock; crash | only what was verified is committed; a task ends, with one result; the caps hold |
| Risk router `gate/risk-router.ts`, `orchestrator/risk-router-adapter.ts` | none | `assessInitialLevel`, `routeByRisk` | core loop | constraints, floors and de-escalation in one list | an escalation raises the level |
| Task checkpoints `db/task-checkpoint-store.ts` | `task_checkpoints` rows | `save`, `complete`, `fail`, `abandon`, `findDispatched` | core loop, startup | the process dies between any two writes | what completed is not abandoned; what is abandoned had not ended |
| Artifact commit `orchestrator/worker/artifact-commit.ts` | the workspace | `commitArtifacts` | core loop | some files written, others refused | a partial commit is a failure |
| Session log `db/session-jsonl/` | `events.jsonl`, sealed segments, manifest, cached cursor | `appendSync`, rotation, `loadCursor`, `scan` | session manager | torn writes; two-step rotation; restart | a line whose append returned is read back, in order |
| Session index `api/session-manager.ts`, `db/session-jsonl/rebuild-index.ts`, `recovery.ts` | `session_store` rows and offset | mutators, rebuild, recovery | API, CLI | three writes to two stores | the index is never ahead, and what it lacks is noticed |
| Approval gate `orchestrator/approval-gate.ts`, `db/approval-ledger-store.ts` | the map of open slots, rows of the ledger | request, resolve, timeout, retry, shutdown | core loop, workflow, coding CLI, API | two stores that fail apart; a process that dies between them | who waits has a row, a decision reaches the row it was made for, every request settles |
| Agent loop `orchestrator/agent/`, `core/agent-contract.ts` | session, budget, violations; the worker's state; two pipes | turn, tool call, delegate, consult, deadline | core loop | two processes, either of which may die or hang; several limits at once | each call of a turn is answered exactly once; the overdraft is bounded; both processes end |
| Workflow `orchestrator/workflow/` | steps, their results, board, rounds | approve, run waves, retry, fall back, ask, answer | core loop | delegates that fail, hang or answer late; a damaged result | a step sees what it depends on; nothing is said in another's name; nothing damaged is shipped unasked |
| External coding CLI `orchestrator/external-coding-cli/` | state machine, process, prompts, outcome | start, prompt, verify, cancel | workflow | output, exit, timers, verification and cancellation in any order | no claim is taken on trust; a final state stays; a headless run returns |
| Task API `api/server.ts`, `api/session-manager.ts`, `cli/serve.ts` | tasks in flight, chain per session, rows, turns | post (six ways), cancel, retry, stop, sweep | users | a cancel, a late result and a restart meet on one task; one of its end's writes fails | messages of a stream take turns; map, rows and turns agree; the chain moves |
| Scheduled jobs `gateway/scheduling/`, `db/gateway-schedule-store.ts`, `api/server.ts`, `cli/schedule.ts` | rows, ticks under way | tick, fire; create, change, pause, resume, delete | gateway, users | ticks that overlap; a row read long before it is written | the runner revives nothing; a due minute passes |
| DAG executor, worker pool `orchestrator/dag-executor.ts`, `orchestrator/worker/worker-pool.ts` | node states, semaphore | execute a plan | core loop | dependencies, failures, slots | a node runs after its dependencies, slots come back |
| Write queue `core/write-queue.ts` | pending writes | enqueue, flush, retry | stores | retry of a write that was done | no write is lost or reordered |
| Goal loop `orchestrator/goal-satisfaction/outer-loop.ts` | iterations, budget | re-run until satisfied | core loop | replanning under one budget | it ends |
| Ecosystem `orchestrator/ecosystem/` | commitments, departments, volunteers | accept, resolve, reconcile | core loop | reconciliation after a crash | each commitment is resolved once |
| Rooms `orchestrator/room/` | blackboard | rounds | core loop | concurrent participants | a participant sees the round before |
| Agents, providers, tools, oracles, economy, memory, skills, evolution, world graph, A2A, MCP, messaging, TUI, CLI | many | many | | answers of language models, heuristics, numbers, I/O | not a matter of order: external choices in the models |

How the modelled parts meet: `dispatch` calls `executeTask` through the task queue and takes file locks
around it; `executeTask` emits `task:complete` on the bus, and a listener writes the checkpoint row;
startup abandons the rows still `dispatched`. Within an attempt a worker session may run
(`runAgentLoop`), and before the routing a whole workflow may, whose delegates are tasks in turn. Workflows,
commits and the prompts of an external CLI ask the approval gate. The HTTP server and the schedule
runner are the two that start tasks on somebody's behalf. The session manager appends to the log, then writes the
index.

## 2. The modules

| module | stands for | composes |
|---|---|---|
| `TaskQueue` | `TaskQueueImpl` | |
| `ConcurrentDispatcher` | `dispatch`, `computeConflictPlan`, `pickCanary`, `AdvisoryFileLock` | extends `TaskQueue` |
| `ConcurrentDispatcher_proofs` | the theorems of the queue, then those of the dispatcher | extends `ConcurrentDispatcher` |
| `TaskContract` | what a caller of `executeTask` may rely on (abstract) | |
| `CoreLoop` | `executeTaskCore` with its phases, the router, the checkpoint row | implements `TaskContract` |
| `CoreLoop_proofs` | its theorems | extends `CoreLoop` |
| `SessionLog` | appender, segments, reader | |
| `SessionIndex` | the dual write, rebuild, recovery | extends `SessionLog` |
| `SessionIndex_proofs` | the theorems of the log, then those of the index | extends `SessionIndex` |
| `ApprovalGate` | the gate and its ledger | |
| `CodingCli` | one session of an external coding CLI | extends `ApprovalGate` |
| `CodingCli_proofs` | the theorems of the gate, then those of the session | extends `CodingCli` |
| `Workflow` | one run of `executeWorkflow` | |
| `Workflow_proofs` | its theorems | extends `Workflow` |
| `AgentLoop` | `runAgentLoop`, its worker subprocess and the pipes | |
| `AgentLoop_proofs` | its theorems | extends `AgentLoop` |
| `TaskApi` | the server's tasks and the session manager's rows and turns | |
| `TaskApi_proofs` | its theorems | extends `TaskApi` |
| `Schedules` | the schedule runner, its table, the console's handlers | |
| `Schedules_proofs` | its theorems | extends `Schedules` |
| `MC...` | instances for TLC | extend the above |

Definitions named `X_Something` before an `X` are slips: the form `X` would have with a plausible bug.
Nothing in the model uses them; `PROJECT.json` pairs each with the property it breaks.

### TaskQueue

An action is the code between two awaits. `Enqueue` runs `enqueue` to its first await: it takes a slot
or parks. `Finally` is the callback that gives the slot back and calls the oldest resolver; the caller so
woken is in `woken` until its microtask, `Resume`, runs. That step takes the slot without another look
at the counter, as the code does. `Drain` and `DrainLoop` are the loop of `drain`.

### ConcurrentDispatcher

The queue's actions are used as they are, `Enqueue`, `Resume` and `Finally`, with the tasks for callers; nobody drains this queue. What a
module and the one it extends both have is told apart by name: `DispatchInit`, `DispatchNext`, `DispatchSpec`. `Dispatch` and
`Launch` are the synchronous part of `dispatch`: `launching` is the set of chain heads still to be enqueued,
taken in the order of `LaunchedBefore`, and while it is not empty no other action is
enabled, since nothing else can run in JavaScript. `TaskSettles` is the end of `executeTask` with the
`finally` that releases the locks, `GiveSlotBack` the queue's, `ChainContinues` the continuation in
`runSerialChain`. Conflict groups are computed from the constants by their definition (the least set
closed under sharing a file); the union-find is not modelled step by step. A chain is its group with the order of
submission: `Heads` are the first of each group, `Successor` says what follows a task. These are relations and not
filtered sequences, whose recursive definition a proof could not use. The lock is advisory: `Acquired`
gives all the files or none, and the task starts either way.

### CoreLoop

One task. `pc` is the phase; each phase is one action with all its ends: return a result and announce it
(`Finish`), return without announcing (`FinishSilently`), throw (`Escape`), go on, retry. The longest phase is two
actions: `Generate` up to the checkpoint, and `Dispatch`, with an operator for each of its ends (`DispatchRefused`,
`QualityRetry`, `Charge`). A write of the checkpoint row may fail, which the code catches: `Saved` then goes on without a new
row, `RecordEnd` leaves the row as it is, and `swallowed` remembers which of the two it was. The router is
`RouteByRisk` and `AssessLevel`, functions of the task's kind: the level of its risk score, whether
the self-model lets it de-escalate, the production or blast-radius floor, the caller's
`MIN_ROUTING_LEVEL` constraints, its domain. The score itself is an input. The answers of the agent,
the oracles, the critic, the human, the budget enforcer and the predictor are choices. `gate` is the last
verdict of the oracle gate on the candidate; `verdict` is `verification.passed` of phase verify, with the
HMS block told apart, because the code goes on using it after a re-verification. `tools` follows the
mutating tool calls, which act between verification and commit. `Tick` is the wall clock, `Crash` and
`Restart` the process, which loses the loop's memory; only `checkpoint` and `workspace` matter after them. `Throw` is what any phase
may do to the task by rejecting, and a trace that cannot be made durable, which fails the task closed.

Left out: the strategies before the routing call (intent, workflow, direct tool, conversational
shortcut), the goal loop, and what the phases write to learning stores.

### SessionLog and SessionIndex

A file is a sequence of chunks, each ended by a newline; the active file may have an unterminated tail.
A chunk has the identity of its line (0 if it does not parse), its `seq`, its parent and the byte `to` up to which it reaches; a line is
two bytes and a newline, so that it can tear at the start, inside and before the newline. `WriteLine` is `appendSync` up to the size check; `Rename`
and `WriteManifest` are the two file operations of a rotation; `Tear` is a death inside the write;
`Loaded` is `loadCursor`. `ReadFiles` are the files that `JsonlReader.scan` goes through, `Readable` the lines it yields and
`Spoiled` the places it reports: sets of places in files, since a flattened and filtered sequence is recursive. Deaths are
sorted by `Faults`: none of the special ones, `"torn"` writes, or between `"rotate"`'s two operations,
so that each statement can be checked where it holds and refuted where it does not.

`SessionIndex` extends it by the mutator's own writes, any of which may fail, the rebuild queued after a failed
cursor update, and `Recover`, which `vinyan session recover` runs while nothing is served. The rows are a
set of lines. The model stops at an operating system that keeps what was written: the fsync policy is
about what it may lose.

### ApprovalGate and CodingCli

A slot is a (task, approval key) pair. Every function of the gate is synchronous, hence one action:
`RequestApproval` is `Attach` (the slot is open in this process), `RefuseOrphaned` (its row was left pending by
a dead process) or `OpenSlot`; `Resolve` and `Timeout` share `Close`; `Clear` and `Die` are the two halves of a
clean shutdown, `Die` alone a crash. `faults` are SQLite errors, which the ledger swallows. `row` and `born` are
the ledger, which survives; `pending` and `answer` die with the process.

`CodingCli` adds one session: `Legal` is the `TRANSITIONS` table; `Output`, `ReportResult` and `StopHook` are what the parser makes
of the CLI's output; `PromptWritten` and `PromptFails` end the writing of the initial prompt, which blocks while nobody reads; `Prompt` is a permission prompt, which opens a slot of the gate under a key of its own (so the
gate's requests, slots and prompts are one set); `WallTimer`, `IdleTimer`, `Exit` and `Cancel` are the process's ends;
`Collect` and `Verified` the controller's headless run. The CLI is the environment.

### Workflow

One plan, taken from `Plans` through `normalizeWorkflowPlan`. `OpenGate` to `GateTimeout` are the approval of the
plan; `RoundEnds` and `CollabAnswer` the rounds of a collaboration block; `NextWave` starts the steps whose
dependencies are settled, `DelegateEnds`, `OtherEnds` and `WatchdogFires` end them, with retries and fallback,
`CollectWave` is the `Promise.all`; `Finish` and `Decide` make the status and the answer. `live` counts the
calls of a sub-task that a watchdog gave up on and nobody stopped: `ZombieEnds` is their late end. The planner, the
delegates and the user are the environment; what an answer says is left out, except whether it is empty.

### AgentLoop

Both processes, each with a program counter of its own (`phase`, `worker.at`), and the two pipes as sequences of turns.
`ToolCalls` admits a turn's calls, `At` dispatches the current one to `Violation`, `Denied`, `RunTool`, `Delegate` or
`Consult`, `Reply` sends the results; `Close` and `Shutdown` are the ends of the session. The budget is
`AgentBudgetTracker`'s counters. The worker thinks, compresses when its context is full (`Compress`), asks for tools or
completes; its model may answer anything or nothing. Either may die at any point.

### TaskApi

A handler up to its `await executeTask` is one action, what follows the await another. `Post` makes a task in one of six
ways: synchronous, asynchronous, chat message, streamed chat message, retry, and `PostJob`, a schedule's task run by hand,
which is in `inFlightTasks` and has neither row nor turn. `StartChained` is the `.then` on `sessionTaskChain`; `Ends` what each
handler does with a result (`Settle`) or a throw (`Rejected`); `Cancel` and `StopBegins` the two that meet it.
The writes for the tasks of `Faulty` may throw: `Reach` says how far the row and the turn get, and `Settle` what the caller does then. A
stream's own `.catch` takes it for a failed task, writes the row again and answers again, as far as that gets (`torn` remembers
the streams that had answered by then); `AskThrows` is the throw of `recordUserTurn` inside the chain. A post whose own
first write fails is refused and leaves no task, so that it is no step. Ids are distinct: that a client names one id for tasks of two
sessions, which the table's key allows, is not modelled.

`Crash` and `CrashInSettle` end the process between two actions or between the two writes of one. `Start` lists the pending rows
(`toSweep`), `Sweep` visits one, marks it failed all the same if that throws, and leaves it as it is if the mark throws too
(`gaveUp`); `Listen` follows when the list is through, whatever is left pending.

### Schedules

A tick reads the due rows once (`TickBegins`), then fires them one after another: `FireEnds` is the end of the task with
all writes that follow in one synchronous block, `Delivered` the end of the reply. The next tick starts beside it. A
handler that loads the cron parser awaits between its read and its write and so has two actions (`ResumeBegins`,
`ResumeEnds`; `PatchBegins`, `PatchEnds`). `POST .../run` and a change of the goal alone leave the modelled columns as they are.
A death between two statements of one synchronous block is not modelled here; nor is a CLI's `UPDATE` lost inside the
runner's read-and-replace, which in effect is no step. A store write that throws ends the tick without its other rows, which
`schedule-runner.ts:85` swallows; that too is left out.

## 3. The runs

Runs that must pass:

| run | instance | what it shows |
|---|---|---|
| `queue` | 5 callers, 2 slots | `NoLostWakeup`: while a call is parked all slots are taken or promised. `NobodyIsPassedOver`: parked calls form one line (`ParkedInOrder`), and a drain that waited leaves nothing (`DrainLeavesNothing`). Under fairness `ParkedCallSettles` |
| `dispatch` | 2 batches, 6 tasks, 2 files, 2 slots | `BatchIsSound`: conflicting tasks of a batch run in order (`ConflictsRunInOrder`), no other starts before the canary has passed (`CanaryGuardsBatch`), a lock is held by who executes (`LocksHeldByExecuting`), a task that did not throw, behind none that did, has its result (`ResultUnlessThrown`). Under fairness `EveryBatchEnds` |
| `core` | 7 kinds of task, 2 retries, 3 ticks, 1 token | `CommitVerified`. `CompletedSurvivesCrash`: the checkpoint row tells a restart the truth, but for the very write of it that failed and was caught. The refinement `MeetsContract`, and under fairness `TaskEnds` |
| `log` | 7 lines, segments of 3, torn writes | `LinesSurvive`: a line whose append returned is read back, but for the one written behind a torn write (`TearsAreContained`); within a file `seq` and parents have no gap (`ChainedInSegment`); what a reader sees is only ever extended (`AppendOnly`) |
| `index` | 6 lines, segments of 3 | `IndexIsHonest`: the index is never ahead of the log (`IndexNotAhead`), and an index that reports itself in sync has the last line (`InSyncCoversLastLine`). `RecoveryCompletes`: a recovery leaves nothing out |
| `approval` | 3 requests, 2 slots, 2 tasks, a shutdown or crash, a failing statement | `SlotsMatchRows`: who waits is held by an open slot, a slot has at most one open row, an open row is a live one's or an orphan. `DecisionReachesItsRow`: no decision is written to a row another process opened, and a granted request has its row unless SQLite failed. Under fairness `RequestSettles` |
| `coding_cli` | one session, one prompt for a human and one automatic, a failing statement | `NothingOnTrust`: a headless run reports success only after the verifier passed (`CompletionIsVerified`), and `allow` is written only on a human's or the policy's word (`AllowNeedsHuman`). `EndIsFinal`: a final state stays, a cancelled session allows nothing and leaves no prompt open. Under fairness `HeadlessRunReturns`: a headless run returns, unless the CLI closed its stdin before it had the prompt and outlives the SIGTERM it got for that |
| `workflow` | 12 plans of up to three steps | `GateHolds`: nothing runs before the approval it needs. `WorkIsWhole`: steps run after their dependencies, `completed` means that every step did, a damaged result is shipped only on the user's word, board and results agree. `HonestResult`: a fallback's answer is not given in the persona's name, and the answer is made of what the status says. Under fairness `WorkflowReturns`: a workflow returns, or it waits for ever on a call that has no time limit, a sub-task of a collaboration round or of a full-pipeline step, or a coding CLI |
| `agentloop` | 3 turns, 4 calls, 2 per turn, one tolerated violation | `OverdraftIsBounded`: the base pool is overdrawn by one turn or consultation at most. `CallsAreAccounted`: the results sent answer exactly the turn's calls (`ResultsAnswerTheTurn`), and after the violation that ends the session no tool runs (`KillStopsTools`). Under fairness `NobodyWaitsForever`: the loop returns, and a worker whose orchestrator died ends |
| `taskapi` | 3 tasks, one chat session and the hidden one, failing writes for the second task | `StreamsTakeTurns`: streamed messages of a session run one by one, in order. `BooksAgree`: `inFlightTasks` is what runs, on a pending row unless it is a job; a server that listens has no pending row of a dead process but one its sweep failed on twice; nobody is answered twice, but by a stream whose first answer was written by a call that then threw. Under fairness `ChainMoves`: a chained message starts, whatever became of the one before, if that ended |
| `schedules` | a schedule, 2 ticks at once, 3 minutes, 3 requests, a crash | `RunnerRevivesNothing`: a schedule that was paused, cut off or deleted while its task ran comes back only by a resume, or by a change of its cron that had read it so. Under fairness `DueTimePasses`: no schedule stays due while the runner is on |

Each `TypeOK` (`DispatchTypeOK`, `IndexTypeOK`, ...) is the module's type invariant; the log's is part of the index's.

One run shows where the code does not do what the repository says of it; the finding in `PROJECT.json` quotes the lines:

| run | statement | what happens |
|---|---|---|
| `taskapi_turns` | `MessagesTakeTurns`: the chain "serializes message handling within one session so a 2nd send can't race the 1st" | a message sent without `stream` neither waits for the chain nor joins it |

Other statements of the repository that the model does not keep are defined at the end of their
modules and have no run of their own. Each is refuted by a copy of the cfg named here with
the statement as its only property (`INVARIANT`, or `PROPERTY` where marked *P*):

| cfg to copy | statement | what happens |
|---|---|---|
| `MCTaskQueue.cfg` | `ConcurrencyLimit`: `maxConcurrent` is the maximum (`task-queue.ts:4`) | a call made between a wake-up and its resumption takes the same slot |
| `MCConcurrentDispatcher.cfg` | `NoWriteConflict`: locks "prevent write conflicts" (`concurrent-dispatcher.ts:5`) | `tryAcquire` may fail and the task starts all the same: two batches, one file |
| | `ResultForEveryTask`: `results.get(t.id)!` (`concurrent-dispatcher.ts:320`) | a task that throws leaves itself and the rest of its chain without a result |
| `MCCoreLoop.cfg` | `HmsBlockHolds`: a high HMS risk blocks "entirely" (`phase-verify.ts:461`) | re-verification runs the oracle gate alone, and its pass commits the blocked candidate |
| | `CommitsWhatWasVerified`: "Commit verified mutations" (`core-loop.ts:3809`) | files that tools add after verification are committed too |
| | `WithheldLeavesNothing`: `uncertain` means nothing landed (`core-loop.ts:3788`) | tools have acted before the probation check |
| | `SoftCapHolds` *P*: no escalation above the soft-degrade level (`core-loop.ts:1553`) | a contradiction escalates without looking at the cap |
| | `EscalationRaisesLevel` *P*: exhausted retries "escalate routing level" (`core-loop.ts:3994`) | the router takes the first constraint of the list, or de-escalates the raised risk: same level or lower |
| | `OnlySurvivorsAbandoned`: abandoned rows are crash survivors (`task-checkpoint-store.ts:116`) | ends that announce nothing, and ends whose write fails, leave the row `dispatched` |
| `MCSessionLog.cfg` | `TornCostsNothing`: after a torn write the next line starts afresh (`appender.ts:236`) | append mode puts it behind the torn bytes: it cannot be read |
| | `ChainedAcrossSegments`: `seq` is gapless and parents chain across segments (`tests/db/session-jsonl/segments.test.ts:13`) | after a rotation and a restart `seq` begins at 0 again, without a parent |
| with `Faults <- LateManifest` | `RotationKeepsLines`: recovery heals a rename without manifest (`segments.ts:24`) | nothing looks for the file, and the next rotation renames over it |
| `MCSessionIndex.cfg` | `LossIsDrift`: a missing index write is drift (`recovery.ts:5`) | the next append sets the offset to the end of the file |
| with `Faults <- TornWrites` | `RecoveryIsIdempotent` *P*: recovery is idempotent (`recovery.ts:15`) | behind an unreadable last line the offset is one short, for ever |
| `MCApprovalGate.cfg` | `CleanExitStrandsNothing` *P*: "we never strand pending rows across a clean shutdown" (`approval-gate.ts:420`) | a request made after `clear()` opens a row that nobody closes |
| | `OrphansAwaitHuman` *P*: orphaned rows wait for a human (`approval-ledger-store.ts:12`) | the next clean shutdown rejects them |
| `MCCodingCli.cfg` | `DeadlineIsHard` *P*: a "Hard wall-clock deadline" ends the process (`external-coding-cli-pty-adapter.ts:40`) | the SIGTERM after a failed write of the prompt (`external-coding-cli-runner.ts:68`) sets the lifecycle to `killed`, at which the deadline's timer does nothing: a CLI that outlives it is waited for without end |
| | `CompletedStateIsVerified`: verification runs "BEFORE marking the session as `completed`" (`external-coding-cli-controller.ts:11`) | a hook's output moves the session to `completed` |
| | `CancelledProcessEnds` *P*: "SIGTERM to SIGKILL" (`docs/design/external-coding-cli.md:42`) | the timer that would send SIGKILL looks for a lifecycle that `kill()` has just changed |
| | `KilledIsNotSynthesized` *P*: a killed process gets no synthesized claim (`external-coding-cli-controller.ts:470`) | a process that SIGKILL ended has no exit code, which is not non-zero: what it did so far is made a claim |
| | `CompletedEventHasState`: the event comes with the state | a stalled session emits the event and stays stalled |
| | `AnsweredOnce`: a prompt is answered once | a decision is written twice |
| | `DecisionIsDelivered` *P*: a decision made in time reaches the process | two minutes of silence stall the process for good, the human has five, and the answer is then not written |
| `MCWorkflow.cfg` | `PartialIsUsable`: "`partial` means a usable answer" (`core-loop.ts:2655`) | with one step that failed, the answer is a report of the failure |
| | `SuccessIsTraced`: "some delegates succeeded" (`core-loop.ts:2606`) | so it does when no delegate ran and every step failed |
| | `AutoApprovalIsReadOnly`: "every step is read-only" (`orchestrator/workflow/approval-gate.ts:304`) | what a fallback or a sub-pipeline may write is not looked at |
| | `CancelledWorkStops`, `ReturnedWorkStops`: "sub-task's work cancelled" (`workflow-executor.ts:1775`) | the call goes on, beside the retry and after the return |
| | `DoneHasNoError`: a delegate that is done has no error | a retry's success does not clear the first attempt's |
| | `IntegratorReadsPrimaries`: the primaries' outputs are `inputs` (`collaboration-block.ts:76`) | their ids are no words, which substitution requires |
| | `IntegratorHearsSurvivors`: the integrator sees the completed primaries (`collaboration-block.ts:303`) | it is skipped when one failed |
| | `CollabBoardClosed`, `EmptyAnswerFails` (`workflow-executor.ts:858`, `:1841`) | items of primaries stay open; an empty answer in a block counts |
| | `CollaborationReturns` *P*, `PipelineReturns` *P*: but for the watchdog a sub-task "could hang the entire workflow" (`workflow-executor.ts:1642`) | a round's sub-tasks have none (`collaboration-block.ts:194`), nor have those of full-pipeline steps (`workflow-executor.ts:1307`) |
| `MCAgentLoop.cfg` | `KilledSessionIsClosed`: "Kill session if contract violation policy triggered" (`agent-loop.ts:1707`) | the loop returns, the session stays open and the worker waits on |
| | `CrashIsNoticed` *P*: "Subprocess crash or timeout" (`agent-loop.ts:1355`) | the end of stdout reads as an empty line, which `receive` skips until the deadline |
| | `LastTurnIsRead`: a worker that has written `done` is not out of budget | the deadline is looked at before the pipe |
| `MCTaskApi.cfg` | `CancelPersists` *P*: "cancel persists `cancelled`" (`tests/api/tasks-operations.test.ts:7`) | a late result overwrites it |
| | `RetryWaits`: "Task is still running" (`api/server.ts:2034`) | only `inFlightTasks` is asked, which a synchronous post is not in, nor a task that was cancelled |
| | `EndedIsExplained`: what has ended is explained in the chat | a message whose task threw, or was cancelled, stays without a turn |
| | `EndedIsSettled`: what has ended is not pending | a throw touches the row of a stream alone: the others stay pending until the next start |
| | `HalfStateUnseen`: the sweep comes first "so clients never see the half-state" (`cli/serve.ts:343`) | a row that could be neither swept nor marked failed stays pending, and the server listens |
| | `AnsweredOnce`: a task answers once | the stream's `.catch` also takes what its own bookkeeping throws, and answers again |
| `MCSchedules.cfg` | `MinuteFiredOnce`: "so we never re-fire the same minute we just fired" (`schedule-runner.ts:156`) | a tick comes every 30 s, a task may take 60, and the row is brought up to date at its end: the next tick fires it again |
| | `NextOnlyWhenActive`: "null when paused/expired" (`gateway/scheduling/types.ts:64`) | the CLI's delete leaves it, and the end of a firing sets it whatever the status |
| | `CircuitStops` *P*: "stops firing until an operator re-activates it" (`schedule-runner.ts:24`) | a change of the cron, read before the circuit opened, saves the old status |
| | `DeletedStaysGone` *P*: "Hard remove" (`gateway-schedule-store.ts:177`) | the same change inserts the row again |
| | `EditSurvives`: a new cron sets the next minute (`api/server.ts:3538`) | a firing, or a resume, that was under way sets it by the old one |
| | `ActiveIsArmed`: an active schedule with a match waits for it | a resume that read a cron without a match ends after a change of it, and blanks the next minute |
| with `Market = TRUE` | `DueTimePasses` *P*: the market's hook is preferred to a local timer (`schedule-runner.ts:9`) | nobody calls `MarketScheduler.tick`: no schedule is fired |

### Bounds, and why they are enough

- *Queue*: with two slots and five callers there are callers that run, are woken, are parked first and
  parked second, and one that barges, all at once. The queue never looks further than its first waiter.
- *Dispatcher*: the first batch has a conflict group that is only transitively connected (f, g, f+g), so
  that a chain of three competes with a file-free task; the second runs a canary first and conflicts with the first batch.
- *Core loop*: two retries distinguish "a retry is left" from "none is"; a level takes all of its four
  values; three ticks (of 250 ms) put the clock before, between and after its two thresholds (the safety
  margin, one tick, and the minimum for an escalation, two); with a cap of one, two attempts pass the token
  cap. The kinds are: plain, risky and de-escalated, with a minimum of L2, pinned to L0, production with a pin,
  inquiring, and conversational with tools and reasoning.
- *Log and index*: segments of three lines, seven lines, so that there are two sealed files and an active
  one, with deaths between all of them. Every mechanism looks at one file and its predecessor.
  The proofs remove the bound.
- *Approval*: two requests share a slot and the third has another task's, so that requests attach, are superseded and
  meet an orphan; one process end and one SQLite error can each fall at any point, or both.
- *Coding CLI*: one prompt needs a human and one does not; sessions meet only in the gate, under different keys. One SQLite
  error may strike the gate's ledger at any point, since it separates a human's word from its record; crashes are in the other run.
- *Workflow*: each plan is there for a case, named in `MCWorkflow`: the comparison of delegates, a question made for
  two, a single delegate with its automatic fallback, a collaboration of two rounds, a step that waits for nothing in the plan,
  mutating steps, nested tasks. A budget of five retries is clamped to the code's cap of 3.
- *Agent loop*: with three turns, two calls per turn and four in all each limit is the first to be met in some behaviour;
  pools of four tokens and costs of one or two overdraw by one.
- *Task API*: three tasks are two messages and one that meets them (a retry, a job, a second kind of post). The
  second, the one that waits for one and is waited for, has writes that may fail; that all three fail was checked apart, for the
  invariants. Results have one status, since the others only choose the row's word.
- *Schedules*: one schedule already separates the row from the copies that two ticks and a handler hold; the run with two
  schedules, one request and the same crash passes as well. Minutes 1 to 3 let a circuit of `Limit = 2` open, be resumed and be met by
  a late firing; the code's limit of 5 and its minutes are of the same shape. The place of a tick is a bound of the
  model: the code's timer never waits for one.
- In every model the counters are bounded by those constants and guards alone: no state constraint is used.
  Bounds that the code does not have are `MaxLines` (log), `MaxCrashes` and `MaxFaults`
  (approval), the task ids (API) and `MaxTicks`, `MaxTime`, `MaxRequests`, `MaxCrashes` (schedules).
- `CHECK_DEADLOCK FALSE` is given where the system ends by design: all calls settled, all batches
  returned, the task over.

### Fairness, and why the code justifies it

- `TaskQueue`: weak fairness of `Resume` and `DrainLoop` (the event loop runs queued microtasks) and of
  each `Finally` (tasks settle). Nothing obliges anybody to call `enqueue`.
- `ConcurrentDispatcher`: the same for each continuation, and for `TaskSettles`: that `executeTask` ends is
  `TaskEnds`, as long as the process lives and each phase returns.
- `CoreLoop`: weak fairness of `Step`, the phases as a whole, and of `Tick`. A worker call is bounded by
  its clamped latency budget and the approval by its own timeout, so a phase returns; that it chooses a
  particular way out is not assumed. Two phases are known not to return always: one that awaits a workflow that hangs
  (`CollaborationReturns`, `PipelineReturns`), and one that awaits a CLI that outlives its deadline. No fairness of `Crash` or `Restart`.
- `ApprovalGate`: the timers fire; no human has to answer. `CodingCli` adds the wall-clock timer, the exit after SIGKILL, the end of a write whose reader is gone, and
  the controller's and the bridge's own continuations; the CLI has to do nothing.
- `Workflow`: its continuations, and per step that the watchdog fires or that an attempt with a time limit of its own
  (`Limited`: a tool, a model, a question to the user, a look-up) ends. A sub-task may hang, whoever awaits it, and so may a coding CLI
  (`DeadlineIsHard`); a user may stay away.
- `AgentLoop`: the loop's steps, what it awaits with a time limit of its own (tools, children, peers), the deadline, and of the worker that it
  boots, reads its stdin and has its watchdog; its model may never answer.
- `TaskApi`: promise reactions run, a start goes on to listen, and `executeTask` ends. Behind one that hangs, as above, a
  session's chain stands still: `ChainMoves` does not claim otherwise.
- `Schedules`: the timer fires, `executeTask` and the delivery end, and so do the awaits of handlers. Nothing is
  asked of operators, and what is claimed is claimed while the runner is on.
- The logs have no liveness properties, and no fairness.

## 4. The proofs

TLAPS checks the theorems for all values of the constants that meet the modules' assumptions. Each module's
inductive invariant, `IInv` (`QueueInv` for the queue, `LogInv` and `SyncInv` and `IndexInv` for the log and its index, `CliInv` for the coding CLI), was first checked by TLC on the module's run. It is the
conjunction of the type invariant, the properties themselves, and what they rest on; the parts below say what that is
and why the property alone is not inductive. A proof has one lemma per action, or per part of the invariant that the
actions disturb, and the theorems follow from the invariant.

**TaskQueue** (any set of callers, any positive limit), in `ConcurrentDispatcher_proofs`. `QueueInvariant` is the inductive invariant:
`TypeOK`, `inFlight` finite, `OnePlace`, `ActiveIsInFlight` and `NoLostWakeup`. The counter depends on
`OnePlace`: a call that is resumed must not be in flight already, or the cardinality would not move with
the counter. `NoLostWakeup` depends on the counter's exactness in turn: the one step that lowers
`active`, `Finally`, also adds to `woken` when somebody is parked. `QueueTypeCorrect`, `CounterExact` and
`WakeupsKept` follow from it, and so does the step property `NobodyPassedOver`: woken and parked calls are one line that
a step leaves alone, shortens at its head or extends at its end; and a drain that returns when nothing is in flight and
nobody is woken finds nobody parked, since by `NoLostWakeup` an idle queue with a positive limit has no line.
The lemmas about sequences (`ToSetAppend`, `InjectiveAppend`, `TailOfInjective`, `WakingKeepsLine`) are stated apart.

**ConcurrentDispatcher** (any batches without a task in common, any files, canary options and limit). The dispatcher's
queue steps are steps of `TaskQueue`, so that `QueueInv`, the queue's own invariant, is kept by the queue's lemmas. On top of it:

- `QueueRunsTasks`: what a task has done follows its place in the queue;
- `BatchOwns`, `AloneRuns`, `WorkIsOwned`: a task that was touched belongs to a batch that got so far, and nothing of a batch is
  touched before its canary completed;
- `ChainsInOrder`: who is in the queue, or about to be, has its whole group before it behind it, with results;
- `ResultsWritten`, and the lock property itself.

`BatchesAreSound` follows. `ImplementsQueue` is the refinement: a step of the dispatcher is one step of the queue or leaves the queue
alone, so that every behaviour of the dispatcher is one of `TaskQueue`; `TasksTakeTurns` carries `NobodyPassedOver` and `WakeupsKept` over. Two facts about the tables are proved from their definitions: two conflicting tasks share a group, and
`Successor` is the next of the group, for which a nonempty set of tasks has a first one (`FS_StrictSubsetOrderingWellFounded`).

**CoreLoop** (any set of task kinds, retries, time and tokens that meet `CoreAssumption`).
`CoreInvariant` proves `IInv`, which has these parts:

- `TypeOK`, with `BoundsInv`: an open task is within its token budget and an attempt within its retries;
  without these the counters could not be typed one step later;
- `EndInv`: an open task has no result and is not announced; its row is `dispatched` from dispatch to the end of the
  attempt, unless a save failed; and a task without a result has no row that says it ended. That is what makes
  `task:complete` unique and lets `CompletedSurvivesCrash` through failing writes and a crash;
- `VettedInv`: from the decision on, `commit` means that the gate passed this candidate; only committed
  candidates reach tools and workspace; and once tools have acted there is no way back into the loop;
- `CapInv`: why the escalation stays within a cap that the router does not know: the level is at or
  above the cap already, or nothing caps the task, or it is a conversational task of a risk that routes to L0;
- `CommitVerified` and `CompletedSurvivesCrash`, the properties themselves.

There is one lemma per part, each with one step per action. From the invariant follow `TypeCorrect`,
`CommitIsVerified`, `CompletedIsKept`, `EscalationIsCapped` (a step property) and `ImplementsContract`:
the initial states of `CoreLoop` are initial states of `TaskContract`, and each of its steps is one of the
contract's or leaves the contract's variables alone.

`EscalationIsCapped` and `CounterExact` state invariants that no run lists any more, since other
properties of the runs are worth more: they are parts of `IInv` and of `QueueInvariant`.

**SessionLog** (any number of lines, any size of a segment), in `SessionIndex_proofs`. `LogInvariant` is the inductive invariant, and holds under every
fault:

- `SizesFit`: each chunk ends further on than the one before, the tail behind them all, and the file is no longer than the lines that
  were tried; so byte offsets can be typed;
- `CursorFits`: a cached cursor is at the end of the file, ahead of all its lines, and its parent is the last. It is not
  `ChainsFit` (each file is a chain) that a new line needs but this, and `loadCursor` must establish it from the file alone;
- `NumbersFit` (each number was given to some line), `RotationFits` (a rotation moves a file that has a line, one at a time);
- `NothingLost`: for each line missing from the files there is a spoiled chunk of its own. This is the one part with a condition, that no process
  dies between the rename and the manifest: the next rotation would rename over the file (`RotationKeepsLines` above).

`FilesAreChains` follows for every fault. `HistorySurvives` is the property `LinesSurvive`, under that condition: its step property
(`AppendOnly`) says that what a reader has seen stays in its place, action by action. That a torn tail can swallow one acknowledged line
and never two is a fact about cardinalities: the step that loses a line makes the chunk that accounts for it.

**SessionIndex**. `IndexKeepsLog` shows that it is a `SessionLog` to its files, so that the log's theorems hold of it; `TypesKept` needs no
condition. The comparison of an offset with a file's size means something because of `InSyncFits`: in the first file the recorded offset is never behind
the end, and at the end only if the last readable line is indexed; and the offset that a mutator is about to write is the end of the file only where its
own line is the last. A line written behind a torn tail is expected to end earlier than it does, which is why torn writes do no harm
here. `InSyncIsIndexed` follows, unless a process dies between the rename and the manifest: then a new first file grows towards an offset of
the old one.

`IndexBelieved` and `RecoveryIsComplete` assume that a process dies between file operations only (`Faults = {}`, as the run does; what
goes wrong otherwise is `RecoveryIsIdempotent` in section 3). Their invariant, `IndexInvariant`, adds `LogClean` (every byte belongs to a line)
and that rows are of lines in the log. No SQLite statement is assumed to succeed.

**ApprovalGate** (any requests, slots and tasks, any number of crashes and of SQLite errors), in `CodingCli_proofs`.
`DeadHoldNothing` and `RowsAreAsked` tie promises and rows to the process that made them, `OneRow` is "one open row per
slot" without counting, from which the cardinality follows. `RowsHaveAge` is the part that the property does not show:
a waiting slot was opened when the ledger had no open row of it, hence its open row is as old as this process, and no
decision can reach the row of another. `PromisesSlotsAndRowsAgree` and the step property `DecisionsReachTheirRows` follow.

**CodingCli** (any prompts and policy, any number of SQLite errors and of crashes of the gate). The gate's lemmas carry its invariant through the
session's prompts. `PromptsAreAsked` and `RowsFollowAnswers` say that a prompt is a slot and that its row follows the
human's word as long as SQLite has not failed; without the second, an approval could find a row that is closed already.
`VerdictEndsRun` is behind `CompletionIsVerified`: the verifier speaks once, as the run returns.
`CancelledIsQuiet` says that a cancelled session's process cannot be written to, which is what makes
the step property `EndsAreFinal` hold of prompts that are still open. `NothingIsTakenOnTrust` and `CliTypeCorrect` follow as well.

**Workflow** (any plans with at least one step, any retry cap, any number of rounds). Per step: `StageAndResult` (where a step is
decides what may have come of it), `CallsAreCounted` (a delegate has at most one call more than it was retried, and a watchdog watches one that is
under way), `BoardFollows` (what is announced follows the result) and `SpeaksForItself`. For the whole: `PhaseInv`, `GateInv`, and
`SkipsHaveACause`: a skipped step means that some step failed, for the first of a chain of skipped ones had a failed dependency;
without it `completed` could be said of a plan with holes. `GateIsHeld`, `NothingIsSkippedUnnoticed` and `NothingIsMadeUp` follow.

**AgentLoop** (any limits, budgets and batches, any finite set of costs; finite because a model's context bounds what a call can cost).
`PipesAreInStep` lists what may be in the two pipes by where the two processes are, `TurnIsTheWorkers` that a turn in the
orchestrator's hands is the worker's last, `AnswersInOrder` that what has been answered is the calls beyond the limits and a prefix of the
others. Together they show that the results sent are a permutation of the turn's calls. `BudgetAllows` remembers,
while a turn or a consultation is under way, that the pool was not empty when it began, so that one charge is all the pool can be overdrawn by.
`OverdraftBounded` and the step property `EveryCallIsAccounted` follow.

**TaskApi** (any tasks and chat sessions, any of which may have writes that fail, any number of crashes and restarts). A stream waits for one other only, the tail it found.
That all earlier ones are over when it starts needs `TailIsLast` (the tail is the newest), `ChainIsWhole` (no live
stream lies between a chained one and the one it waits for) and `TurnsAreOver` (what has started, or has ended since, had no live one before it), and these
need `MadeInOrder`. `MemoryIsFresh` takes them through a restart: a new process holds no chain. `NotAnsweredYet`
says that what may still be answered, by an end or by a sweep, has not been; `SweepIsWhole` that a start's list holds the pending rows and no other,
but for those it failed on. One lemma, `EndStep`, covers every end of a call however far its writes got. `StreamsRunInTurn` and `TheBooksAgree` follow.

**Schedules** (any finite set of schedules, any crons, limit, number of ticks at once, minutes and requests). `TypeOK` contains that no streak passes the
limit, and that is not inductive: a firing adds one to the streak of a row read long before. `StreaksAreBelow` says
that a row in service is below the limit, of the table and of every copy that a tick or a handler holds, and that a tick holds only
rows that were in service. `RevivesNothing` is a step property, proved action by action: a firing writes onto the row that is
there (`AfterFiringIsARow`), so the status it leaves is the row's or `failed-circuit`.

Only model-checked: the liveness properties, which are out of the prover's reach: `ParkedCallSettles`, `EveryBatchEnds`, `TaskEnds`,
`RequestSettles`, `HeadlessRunReturns`, `WorkflowReturns`, `NobodyWaitsForever`, `ChainMoves`, `DueTimePasses`. Their fairness is over actions whose
ENABLED the provers cannot expand. Every other property of the runs is stated by a theorem.

`IndexNotAhead` and `RecoveryCompletes` do not hold where writes are torn (a row is written for a line that a torn
tail swallowed; the offset of a recovery is one short), and are neither claimed nor proved there.

## 5. What is not modelled, and what comes next

Not modelled because it is not a question of order: prompts, providers, parsing, oracles, scoring,
statistics, configuration and user interfaces. They appear as choices. Of the modelled parts, the
following is left out: the checkpoint clean-up after 24 hours; the rollback option of `commitArtifacts`, which the
core loop does not use; the cost ledger behind `canProceed`; hard deletion and export of sessions, and
the mutators that write SQLite without a line (`unarchiveTask`, `emptyTrash`, `suspendAll`).

Of the newer modules: the text of turns and answers; the stream of an agent's deltas; transcript compaction; the
overlay's files; duplicate detection, titles, trash and event streams of the API; the interpreter of
schedules in natural language; messaging adapters; the coding CLI's other provider and its persistence.

The warm worker pool (`worker/worker-pool.ts`) was read and set aside: the agent loop, which does the work, bypasses it, and
its session limit is used by nobody.

Hazards that were met and that no module covers:

- a batch of one task, and a canary, run outside the queue and are not counted against its slots;
- `commitArtifacts` is called without rollback: a write error leaves the files written before it;
- attempts that a quality gate retries are not charged to the token budget;
- a hard degrade sets the level but no cap, and the first escalation undoes it;
- a deliberation emits `task:escalate` though the level stays;
- the listeners of a task are detached on success and exhaustion only;
- `writeSync` may write fewer bytes than asked;
- `unarchiveTask` changes SQLite without a line in the log, so that a rebuild archives the task again;
- a child's result carries no token count, so that the delegation pool never shrinks;
- the goal loop emits `task:complete` once per iteration, so that a stream may close early;
- a crash between the user's turn and the task's row leaves a question without a task; the duplicate check remembers
  a message whose task failed;
- in the warm pool, releasing a worker resets its error count, answers are not matched to task ids, and a shutdown races a respawn.

The next modules, in order:

1. `GoalLoop` around `TaskContract`, instead of around `CoreLoop`: the outer loop under one budget. It ends.
2. `DagExecutor`: the semaphore, nodes by dependency, failures. Abstract specification: a partial order of node
   executions. To prove: a node runs after its dependencies.
3. `WriteQueue`: backoff and flush; to prove: order of writes.
4. `CommitmentLedger` and the ecosystem's reconciliation after a restart; `RoomDispatcher`.
5. `ArtifactCommit` in detail: preflight, writes, rollback, as a refinement of the outcomes that `Commit`
   chooses from.

And proofs: of the queue, a refinement of an abstract first-come line; of the core loop, that `TaskContract` suffices for what the
dispatcher assumes of a task.
