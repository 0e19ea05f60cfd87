------------------------ MODULE ConcurrentDispatcher ------------------------
(***************************************************************************)
(* The batch dispatcher of src/src/orchestrator/concurrent-dispatcher.ts   *)
(* with its advisory file lock (agent/file-lock.ts), on top of TaskQueue.  *)
(* Several dispatch() calls share the one instance factory.ts builds, and  *)
(* so one queue and one lock table.                                        *)
(*                                                                         *)
(* `launching` holds the heads of the chains that the synchronous loop of  *)
(* dispatch() has not given to the queue yet: JavaScript runs nothing else *)
(* until that loop is done, so every other action waits for it.  Orders are*)
(* relations between tasks and not sequences, which proofs cannot filter.  *)
(***************************************************************************)
EXTENDS TaskQueue

CONSTANTS
    Batches,        \* calls of dispatch()
    BatchTasks,     \* per batch, its tasks in submission order
    CanaryFirst,    \* per batch, options.canaryFirst
    Files,
    FilesOf,        \* per task, targetFiles
    NoTask

\* All the tasks of all the batches: each is the fn of at most one enqueue(fn).
Tasks == Callers

ASSUME BatchAssumption ==
    /\ NoTask \notin Tasks
    /\ BatchTasks \in [Batches -> Seq(Tasks)]
    /\ \A b \in Batches : IsInjective(BatchTasks[b])
    /\ \A b, c \in Batches :
         b # c => ToSet(BatchTasks[b]) \intersect ToSet(BatchTasks[c]) = {}
    /\ FilesOf \in [Tasks -> SUBSET Files]
    /\ CanaryFirst \in [Batches -> BOOLEAN]

VARIABLES
    launching,  \* chain heads still to be enqueued by the running dispatch()
    outcome,    \* per task, what executeTask did
    result,     \* per task, its entry in the `results` map
    locks,      \* AdvisoryFileLock.locks: holder of each file
    resumed,    \* tasks whose chain has continued after their enqueue()
    batchPc     \* per batch, where its dispatch() call is

\* drain() is not called on the dispatcher's queue.
dispatchVars == <<launching, outcome, result, locks, resumed, batchPc>>
allVars == <<vars, dispatchVars>>

Outcomes == {"completed", "failed", "threw"}   \* "failed": any other status

DispatchTypeOK ==
    /\ TypeOK
    /\ launching \subseteq Tasks
    /\ outcome \in [Tasks -> {"none", "executing"} \union Outcomes]
    /\ result \in [Tasks -> {"none", "completed", "failed", "aborted"}]
    /\ locks \in [Files -> Tasks \union {NoTask}]
    /\ resumed \subseteq Tasks
    /\ batchPc \in [Batches -> {"new", "alone", "running", "returned", "threw"}]

DispatchInit ==
    /\ Init
    /\ launching = {}
    /\ outcome = [t \in Tasks |-> "none"]
    /\ result = [t \in Tasks |-> "none"]
    /\ locks = [f \in Files |-> NoTask]
    /\ resumed = {}
    /\ batchPc = [b \in Batches |-> "new"]

-----------------------------------------------------------------------------
(* computeConflictPlan and pickCanary, as tables: they depend on the       *)
(* constants alone.                                                        *)

Members(b) == ToSet(BatchTasks[b])
FileFree(t) == FilesOf[t] = {}
Conflict(t, u) == FilesOf[t] \intersect FilesOf[u] # {}

\* Submission order
Before(b, t, u) ==
    \E i, j \in DOMAIN BatchTasks[b] : i < j /\ BatchTasks[b][i] = t /\ BatchTasks[b][j] = u

First(b, S) == CHOOSE t \in S : \A u \in S \ {t} : Before(b, t, u)

Closed(b, S) == \A u \in S, v \in Members(b) : Conflict(u, v) => v \in S

\* The conflict group of t (union-find): the tasks in every set that contains
\* t and is closed under Conflict.  A file-free task is alone in its group.
Group ==
    [b \in Batches |-> [t \in Tasks |->
        {u \in Members(b) : \A S \in SUBSET Members(b) : t \in S /\ Closed(b, S) => u \in S}]]

\* pickCanary: the first file-free task, else the first singleton group.
Canary(b) ==
    LET free   == {t \in Members(b) : FileFree(t)}
        single == {t \in Members(b) : Group[b][t] = {t}}
    IN  IF free # {} THEN First(b, free) ELSE IF single # {} THEN First(b, single) ELSE NoTask

\* The task a batch runs by itself, outside the queue: its only one, or the canary.
Alone ==
    [b \in Batches |-> IF Len(BatchTasks[b]) = 1 THEN BatchTasks[b][1]
                       ELSE IF CanaryFirst[b] THEN Canary(b) ELSE NoTask]

\* Slip: every task is launched at once.
Heads_All == [b \in Batches |-> Members(b)]

\* The tasks to launch: the first of each group, in submission order.  A
\* file-free task is the first of its own.
Heads ==
    [b \in Batches |-> {t \in Members(b) : \A u \in Group[b][t] : ~Before(b, u, t)}]

\* The groups are launched in the order of their first tasks, then the
\* file-free tasks.
LaunchedBefore(t, u) ==
    IF FileFree(t) = FileFree(u) THEN \E b \in Batches : Before(b, t, u) ELSE FileFree(u)

\* What follows t in its chain, a group in submission order: at most one task.
Successor ==
    [t \in Tasks |->
        UNION {{u \in Group[b][t] :
                  /\ t \in Members(b) /\ Before(b, t, u)
                  /\ \A v \in Group[b][t] \ {u} : Before(b, t, v) => Before(b, u, v)} : b \in Batches}]

-----------------------------------------------------------------------------
(* AdvisoryFileLock.                                                       *)

\* tryAcquire: all the files or none; the dispatcher ignores the result.
Acquired(t) ==
    IF \A f \in FilesOf[t] : locks[f] \in {NoTask, t}
      THEN [f \in Files |-> IF f \in FilesOf[t] THEN t ELSE locks[f]]
      ELSE locks

\* release(taskId)
Released(t) == [f \in Files |-> IF locks[f] = t THEN NoTask ELSE locks[f]]

\* The synchronous start of the function given to the queue, or of executeSingle.
Start(t) ==
    /\ outcome' = [outcome EXCEPT ![t] = "executing"]
    /\ locks' = Acquired(t)

\* taskQueue.enqueue(...): fn() starts in the same run when a slot is free.
CallQueue(t) ==
    /\ Enqueue(t) /\ UNCHANGED drainVars
    /\ IF t \in inFlight' THEN Start(t) ELSE UNCHANGED <<outcome, locks>>

-----------------------------------------------------------------------------
(* dispatch().                                                             *)

\* Up to the first await: run one task by itself, or begin to launch the chains.
Dispatch(b) ==
    /\ launching = {}
    /\ batchPc[b] = "new"
    /\ IF Alone[b] # NoTask
         THEN /\ batchPc' = [batchPc EXCEPT ![b] = "alone"]
              /\ Start(Alone[b])
              /\ UNCHANGED launching
         ELSE /\ batchPc' = [batchPc EXCEPT ![b] = "running"]
              /\ launching' = Heads[b]
              /\ UNCHANGED <<outcome, locks>>
    /\ UNCHANGED <<vars, result, resumed>>

\* One turn of the launch loop.
Launch ==
    /\ \E t \in launching :
         /\ \A u \in launching \ {t} : LaunchedBefore(t, u)
         /\ CallQueue(t)
         /\ launching' = launching \ {t}
    /\ UNCHANGED <<result, resumed, batchPc>>

\* A woken enqueue() takes its slot and starts its task.
ResumeTask ==
    /\ launching = {}
    /\ Resume /\ UNCHANGED drainVars
    /\ Start(Head(woken))
    /\ UNCHANGED <<launching, result, resumed, batchPc>>

\* Slip: the lock is released on success only (no try/finally).
TaskSettles_NoFinally(t) ==
    /\ launching = {}
    /\ outcome[t] = "executing"
    /\ \E o \in Outcomes :
         /\ outcome' = [outcome EXCEPT ![t] = o]
         /\ result' = IF t \in inFlight /\ o # "threw" THEN [result EXCEPT ![t] = o] ELSE result
         /\ locks' = IF o = "threw" THEN locks ELSE Released(t)
    /\ UNCHANGED <<vars, launching, resumed, batchPc>>

\* executeTask resolves or throws: a queued task records its result, and the
\* finally-block releases the lock.
TaskSettles(t) ==
    /\ launching = {}
    /\ outcome[t] = "executing"
    /\ \E o \in Outcomes :
         /\ outcome' = [outcome EXCEPT ![t] = o]
         /\ result' = IF t \in inFlight /\ o # "threw" THEN [result EXCEPT ![t] = o] ELSE result
    /\ locks' = Released(t)
    /\ UNCHANGED <<vars, launching, resumed, batchPc>>

\* The queue's finally-callback, a later microtask.
GiveSlotBack(t) ==
    /\ launching = {}
    /\ outcome[t] \in Outcomes
    /\ Finally(t) /\ UNCHANGED drainVars
    /\ UNCHANGED <<launching, outcome, result, locks, resumed, batchPc>>

\* The await in runSerialChain or runFileFreeTask returns: the chain goes on
\* with its next task, or it rejects and its other tasks never run.
ChainContinues(t) ==
    /\ launching = {}
    /\ t \in settled \ resumed
    /\ resumed' = resumed \union {t}
    /\ IF outcome[t] = "threw" \/ Successor[t] = {}
         THEN UNCHANGED <<vars, outcome, locks>>
         ELSE \E u \in Successor[t] : CallQueue(u)
    /\ UNCHANGED <<launching, result, batchPc>>

\* Slip: a canary that did not throw lets the batch through.
CanaryPassed_AnyStatus(b) == outcome[Alone[b]] # "threw"

CanaryPassed(b) == outcome[Alone[b]] = "completed"

\* The await of executeSingle returns: a lone task is the whole answer, a
\* canary lets the rest of its batch through or aborts it.
AloneReturns(b) ==
    LET t == Alone[b] IN
    /\ launching = {}
    /\ batchPc[b] = "alone"
    /\ outcome[t] \in Outcomes
    /\ resumed' = resumed \union {t}
    /\ \/ /\ outcome[t] = "threw"
          /\ batchPc' = [batchPc EXCEPT ![b] = "threw"]
          /\ UNCHANGED <<result, launching>>
       \/ /\ CanaryPassed(b)
          /\ batchPc' = [batchPc EXCEPT ![b] = "running"]
          /\ result' = [result EXCEPT ![t] = outcome[t]]
          /\ launching' = Heads[b] \ {t}
       \/ /\ outcome[t] # "threw" /\ ~CanaryPassed(b)
          /\ batchPc' = [batchPc EXCEPT ![b] = "returned"]
          /\ result' = [u \in Tasks |-> IF u = t THEN outcome[t]
                                        ELSE IF u \in Members(b) THEN "aborted" ELSE result[u]]
          /\ UNCHANGED launching
    /\ UNCHANGED <<vars, outcome, locks>>

\* An earlier task of its chain threw: the chain has ended without t.
Dropped(b, t) == \E u \in Group[b][t] \intersect resumed : outcome[u] = "threw"

\* Slip: Promise.race(pending).
BatchReturns_Race(b) ==
    /\ launching = {}
    /\ batchPc[b] = "running"
    /\ \E t \in Members(b) : t \in resumed \/ Dropped(b, t)
    /\ batchPc' = [batchPc EXCEPT ![b] = "returned"]
    /\ UNCHANGED <<vars, launching, outcome, result, locks, resumed>>

\* Promise.allSettled(pending) resolves and dispatch() returns the results.
BatchReturns(b) ==
    /\ launching = {}
    /\ batchPc[b] = "running"
    /\ \A t \in Members(b) : t \in resumed \/ Dropped(b, t)
    /\ batchPc' = [batchPc EXCEPT ![b] = "returned"]
    /\ UNCHANGED <<vars, launching, outcome, result, locks, resumed>>

DispatchNext ==
    \/ \E b \in Batches : Dispatch(b) \/ AloneReturns(b) \/ BatchReturns(b)
    \/ Launch
    \/ ResumeTask
    \/ \E t \in Tasks : TaskSettles(t) \/ GiveSlotBack(t) \/ ChainContinues(t)

DispatchSpec == DispatchInit /\ [][DispatchNext]_allVars

(* Once called, dispatch() is driven by the event loop alone, and every    *)
(* executeTask() settles: its wall-clock budget ends the routing loop.     *)
DispatchFairness ==
    /\ WF_allVars(Launch)
    /\ WF_allVars(ResumeTask)
    /\ \A t \in Tasks :
         WF_allVars(TaskSettles(t)) /\ WF_allVars(GiveSlotBack(t)) /\ WF_allVars(ChainContinues(t))
    /\ \A b \in Batches : WF_allVars(AloneReturns(b)) /\ WF_allVars(BatchReturns(b))

DispatchFairSpec == DispatchSpec /\ DispatchFairness

-----------------------------------------------------------------------------

\* Of two tasks of one batch that share a file, the later one starts only when
\* the earlier one has left its result.  Both run through a queue that knows
\* nothing of files, so this rests on the chains alone; in particular the two
\* are never executing together.
ConflictsRunInOrder ==
    \A b \in Batches : \A t, u \in Members(b) :
        Before(b, t, u) /\ Conflict(t, u) /\ outcome[u] # "none" => result[t] # "none"

\* The lock table names only tasks that are executing and only files they
\* declared: no throw, abort or failed tryAcquire leaves a lock behind.
LocksHeldByExecuting ==
    \A f \in Files : locks[f] # NoTask =>
        outcome[locks[f]] = "executing" /\ f \in FilesOf[locks[f]]

\* When dispatch() has returned, a task is without a result only if it, or a
\* task before it in its conflict chain, threw.
ResultUnlessThrown ==
    \A b \in Batches : batchPc[b] = "returned" =>
        \A t \in Members(b) : result[t] = "none" =>
            \E u \in Group[b][t] : outcome[u] = "threw" /\ (u = t \/ Before(b, u, t))

\* canaryFirst: no other task of the batch starts unless the canary completed.
CanaryGuardsBatch ==
    \A b \in Batches : CanaryFirst[b] /\ Alone[b] # NoTask =>
        \A t \in Members(b) \ {Alone[b]} :
            outcome[t] # "none" => outcome[Alone[b]] = "completed"

\* The four together: what a batch does, in which order and with which traces,
\* is the same whatever other batches do to the queue and the locks meanwhile.
BatchIsSound ==
    ConflictsRunInOrder /\ CanaryGuardsBatch /\ LocksHeldByExecuting /\ ResultUnlessThrown

\* Every dispatch() call ends, whatever throws and however the batches compete
\* for the slots: no chain is left waiting for a wake-up.
EveryBatchEnds ==
    \A b \in Batches : batchPc[b] # "new" ~> batchPc[b] \in {"returned", "threw"}

\* What the file header says of the locks: they "prevent write conflicts", for
\* tasks of different batches too.
NoWriteConflict ==
    \A t, u \in Tasks :
        t # u /\ outcome[t] = "executing" /\ outcome[u] = "executing" => ~Conflict(t, u)

\* What the assertion results.get(t.id)! says: dispatch() returns a result for
\* every task.
ResultForEveryTask ==
    \A b \in Batches : batchPc[b] = "returned" => \A t \in Members(b) : result[t] # "none"

=============================================================================
