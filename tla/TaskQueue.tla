----------------------------- MODULE TaskQueue -----------------------------
(***************************************************************************)
(* The bounded-concurrency queue of src/src/orchestrator/task-queue.ts,    *)
(* used by the batch dispatcher (factory.ts, limit 5) and by `vinyan       *)
(* serve` (limit 4).                                                       *)
(*                                                                         *)
(* JavaScript runs one microtask at a time, so each action is the code     *)
(* between two awaits.  The point that is easy to miss is that resolving a *)
(* waiter's promise (`next()`) only queues the rest of its `enqueue` call: *)
(* the counter is incremented by a later microtask, Resume, and any other  *)
(* caller may run first.                                                   *)
(***************************************************************************)
EXTENDS Naturals, Sequences, FiniteSets, SequencesExt

CONSTANTS
    Callers,        \* calls of enqueue(fn), each made once
    MaxConcurrent   \* config.maxConcurrent

ASSUME MaxConcurrentAssumption == MaxConcurrent \in Nat \ {0}

VARIABLES
    active,     \* the counter `active`
    waiting,    \* the array `waiting`: resolvers of the parked callers
    woken,      \* parked callers whose resolver has been called, oldest first
    inFlight,   \* the set `inFlight`: calls whose fn() is running
    settled,    \* calls whose finally-callback has run
    drainPc,    \* where the (one) call of drain() is
    drainSet    \* the promises its current allSettled waits for

queueVars == <<active, waiting, woken, inFlight, settled>>
drainVars == <<drainPc, drainSet>>
vars == <<active, waiting, woken, inFlight, settled, drainPc, drainSet>>

\* Calls that have not been made yet.
Uncalled == Callers \ (ToSet(waiting) \union ToSet(woken) \union inFlight \union settled)

TypeOK ==
    /\ active \in Nat
    /\ waiting \in Seq(Callers)
    /\ woken \in Seq(Callers)
    /\ inFlight \subseteq Callers
    /\ settled \subseteq Callers
    /\ drainPc \in {"idle", "waiting", "returned"}
    /\ drainSet \subseteq Callers

Init ==
    /\ active = 0
    /\ waiting = <<>>
    /\ woken = <<>>
    /\ inFlight = {}
    /\ settled = {}
    /\ drainPc = "idle"
    /\ drainSet = {}

\* enqueue(fn), up to its first await: with a free slot fn() starts in the
\* same synchronous run, otherwise the caller parks.
Enqueue(c) ==
    /\ c \in Uncalled
    /\ IF active >= MaxConcurrent
         THEN /\ waiting' = Append(waiting, c)
              /\ UNCHANGED <<active, inFlight>>
         ELSE /\ active' = active + 1
              /\ inFlight' = inFlight \union {c}
              /\ UNCHANGED waiting
    /\ UNCHANGED <<woken, settled>>

\* Slip: the resumed caller assumes that the slot was handed over to it.
Resume_NoIncrement ==
    /\ woken # <<>>
    /\ inFlight' = inFlight \union {Head(woken)}
    /\ woken' = Tail(woken)
    /\ UNCHANGED <<active, waiting, settled>>

\* The microtask that continues a parked enqueue: it takes its slot without
\* looking at the counter again.  Microtasks run in the order they were queued.
Resume ==
    /\ woken # <<>>
    /\ active' = active + 1
    /\ inFlight' = inFlight \union {Head(woken)}
    /\ woken' = Tail(woken)
    /\ UNCHANGED <<waiting, settled>>

\* The slot goes back.
GiveBack(c) ==
    /\ c \in inFlight
    /\ active' = active - 1
    /\ inFlight' = inFlight \ {c}
    /\ settled' = settled \union {c}

\* Slips: the callback wakes nobody; the newest waiter (pop for shift); or the
\* oldest without removing it from the array.
Finally_NoWake(c) == GiveBack(c) /\ UNCHANGED <<woken, waiting>>

Finally_WakeNewest(c) ==
    /\ GiveBack(c)
    /\ IF waiting # <<>>
         THEN /\ woken' = Append(woken, waiting[Len(waiting)])
              /\ waiting' = SubSeq(waiting, 1, Len(waiting) - 1)
         ELSE UNCHANGED <<woken, waiting>>

Finally_NoShift(c) ==
    /\ GiveBack(c)
    /\ woken' = IF waiting # <<>> THEN Append(woken, waiting[1]) ELSE woken
    /\ UNCHANGED waiting

\* fn() of c settled (resolved or rejected): the finally-callback gives the
\* slot back and resolves the oldest waiter's promise.
Finally(c) ==
    /\ GiveBack(c)
    /\ IF waiting # <<>>
         THEN /\ woken' = Append(woken, Head(waiting))
              /\ waiting' = Tail(waiting)
         ELSE UNCHANGED <<woken, waiting>>

\* drain(): returns at once when nothing is in flight, else awaits a snapshot.
Drain ==
    /\ drainPc = "idle"
    /\ drainPc' = IF inFlight = {} THEN "returned" ELSE "waiting"
    /\ drainSet' = inFlight

\* Slip: drain() does not loop.
DrainLoop_Once ==
    /\ drainPc = "waiting"
    /\ drainSet \subseteq settled
    /\ woken = <<>>
    /\ drainPc' = "returned"
    /\ UNCHANGED drainSet

\* allSettled of the snapshot resolved; the loop looks at inFlight again.  A
\* resolver called by the last finally-callback queued its microtask before
\* that callback's own promise settled, so woken is empty by then.
DrainLoop ==
    /\ drainPc = "waiting"
    /\ drainSet \subseteq settled
    /\ woken = <<>>
    /\ drainPc' = IF inFlight = {} THEN "returned" ELSE "waiting"
    /\ drainSet' = inFlight

Next ==
    \/ \E c \in Callers : Enqueue(c) /\ UNCHANGED drainVars
    \/ Resume /\ UNCHANGED drainVars
    \/ \E c \in Callers : Finally(c) /\ UNCHANGED drainVars
    \/ Drain /\ UNCHANGED queueVars
    \/ DrainLoop /\ UNCHANGED queueVars

Spec == Init /\ [][Next]_vars

(* The event loop runs every queued microtask, and the tasks given to the  *)
(* queue (executeTask under its wall-clock budget) settle.                 *)
Fairness ==
    /\ WF_vars(Resume /\ UNCHANGED drainVars)
    /\ \A c \in Callers : WF_vars(Finally(c) /\ UNCHANGED drainVars)
    /\ WF_vars(DrainLoop /\ UNCHANGED queueVars)

FairSpec == Spec /\ Fairness

-----------------------------------------------------------------------------

\* What the module header promises: "limits concurrent task execution".  The
\* code does not keep it: a call made between a wake-up and its resumption takes
\* the same slot.
ConcurrencyLimit == Cardinality(inFlight) <= MaxConcurrent

\* The counter never drifts from the calls that hold a slot, whatever the
\* order of finally-callbacks, resumes and new calls.
ActiveIsInFlight == active = Cardinality(inFlight)

\* No lost wake-up: while a caller is parked, the slots taken or about to be
\* taken by woken callers are at least MaxConcurrent, so some finally-callback
\* is still to come that will wake it.
NoLostWakeup == waiting # <<>> => active + Len(woken) >= MaxConcurrent

\* A call is in exactly one place, and parked at most once.
OnePlace ==
    /\ IsInjective(waiting)
    /\ IsInjective(woken)
    /\ ToSet(waiting) \intersect ToSet(woken) = {}
    /\ (ToSet(waiting) \union ToSet(woken)) \intersect (inFlight \union settled) = {}
    /\ inFlight \intersect settled = {}

\* drain() that had to wait returns only when nothing is running, parked or
\* about to run: it is what shutdown code would rely on.
DrainLeavesNothing ==
    [][drainPc = "waiting" /\ drainPc' = "returned"
         => inFlight = {} /\ waiting = <<>> /\ woken = <<>>]_vars

\* The parked callers form one first-in first-out line, from the array to the
\* pending microtasks: a later caller may barge past them all, but no parked
\* caller is overtaken by another parked one.
Line == woken \o waiting

ParkedInOrder ==
    [][\/ Line' = Line
       \/ Line # <<>> /\ Line' = Tail(Line)
       \/ \E c \in Callers : Line' = Append(Line, c)]_vars

\* Nobody is passed over, by a younger parked call or by a drain that returns
\* too early.
NobodyIsPassedOver == ParkedInOrder /\ DrainLeavesNothing

\* A parked call is never forgotten: it is woken, runs and settles.
ParkedCallSettles ==
    \A c \in Callers : (c \in ToSet(waiting)) ~> (c \in settled)

=============================================================================
