--------------------- MODULE ConcurrentDispatcher_proofs ---------------------
(***************************************************************************)
(* Proofs for TaskQueue and for ConcurrentDispatcher, which extends it.    *)
(*                                                                         *)
(* The queue, for any callers and any limit: its counter is exact, no      *)
(* wake-up is lost, and nobody is passed over.  The dispatcher, for any    *)
(* batches and files as well: conflicting tasks of a batch run in order, a *)
(* canary guards its batch, locks are held by executing tasks only, and a  *)
(* task is without a result only if its chain threw; and it uses the queue *)
(* as the queue allows.                                                    *)
(***************************************************************************)
EXTENDS ConcurrentDispatcher, FiniteSetTheorems, SequenceTheorems, WellFoundedInduction, TLAPS

-----------------------------------------------------------------------------
(* The task queue                                                          *)

\* The inductive invariant.  OnePlace is needed for the counter: a resumed or
\* finished call moves exactly one element in or out of inFlight.
QueueInv ==
    /\ TypeOK
    /\ IsFiniteSet(inFlight)
    /\ OnePlace
    /\ ActiveIsInFlight
    /\ NoLostWakeup

-----------------------------------------------------------------------------

\* Appending an element adds it to the elements of a sequence.
LEMMA ToSetAppend ==
  ASSUME NEW S, NEW s \in Seq(S), NEW x \in S
  PROVE  ToSet(Append(s, x)) = ToSet(s) \union {x}
<1>1. DOMAIN Append(s, x) = DOMAIN s \union {Len(s) + 1}
  BY AppendProperties
<1>2. \A i \in DOMAIN s : Append(s, x)[i] = s[i]
  BY AppendProperties
<1>3. Append(s, x)[Len(s) + 1] = x
  BY AppendProperties
<1> QED
  BY <1>1, <1>2, <1>3 DEF ToSet

\* Without repetitions, appending a new element keeps a sequence injective.
LEMMA InjectiveAppend ==
  ASSUME NEW S, NEW s \in Seq(S), NEW x \in S, IsInjective(s), x \notin ToSet(s)
  PROVE  IsInjective(Append(s, x))
  BY AppendProperties DEF IsInjective, ToSet

\* The tail of a sequence without repetitions has lost exactly its head.
LEMMA TailOfInjective ==
  ASSUME NEW S, NEW s \in Seq(S), s # <<>>, IsInjective(s)
  PROVE  /\ Head(s) \in S
         /\ Head(s) \in ToSet(s)
         /\ Tail(s) \in Seq(S)
         /\ Len(Tail(s)) = Len(s) - 1
         /\ IsInjective(Tail(s))
         /\ ToSet(Tail(s)) = ToSet(s) \ {Head(s)}
<1>1. /\ Head(s) = s[1]
      /\ Len(s) \in Nat \ {0}
      /\ Len(Tail(s)) = Len(s) - 1
      /\ \A i \in 1 .. Len(s) - 1 : Tail(s)[i] = s[i + 1]
      /\ Tail(s) \in Seq(S)
      /\ Head(s) \in S
  BY HeadTailProperties, EmptySeq
<1>2. IsInjective(Tail(s))
  BY <1>1 DEF IsInjective
<1>3. \A i \in 2 .. Len(s) : i - 1 \in 1 .. Len(s) - 1 /\ Tail(s)[i - 1] = s[i] /\ s[i] # s[1]
  BY <1>1 DEF IsInjective
<1>4. ToSet(Tail(s)) = ToSet(s) \ {Head(s)}
  <2>1. \A y \in ToSet(Tail(s)) : y \in ToSet(s) \ {Head(s)}
    BY <1>1, <1>3 DEF ToSet, IsInjective
  <2>2. \A y \in ToSet(s) \ {Head(s)} : y \in ToSet(Tail(s))
    <3> SUFFICES ASSUME NEW i \in DOMAIN s, s[i] # Head(s)
                 PROVE  s[i] \in ToSet(Tail(s))
      BY DEF ToSet
    <3>1. i \in 2 .. Len(s)
      BY <1>1, LenProperties
    <3>2. i - 1 \in DOMAIN Tail(s) /\ Tail(s)[i - 1] = s[i]
      BY <1>1, <1>3, <3>1, LenProperties
    <3> QED BY <3>2 DEF ToSet
  <2> QED BY <2>1, <2>2
<1> QED BY <1>1, <1>2, <1>4 DEF ToSet

-----------------------------------------------------------------------------

LEMMA InitQueueInv == Init => QueueInv
<1> SUFFICES ASSUME Init PROVE QueueInv
  OBVIOUS
<1>1. TypeOK
  BY DEF Init, TypeOK
<1>2. ToSet(waiting) = {} /\ ToSet(woken) = {} /\ IsInjective(waiting) /\ IsInjective(woken)
  BY DEF Init, ToSet, IsInjective
<1> QED
  BY <1>1, <1>2, FS_EmptySet DEF Init, QueueInv, OnePlace, ActiveIsInFlight, NoLostWakeup

LEMMA EnqueueStep ==
  ASSUME QueueInv, NEW c \in Callers, Enqueue(c), UNCHANGED drainVars
  PROVE  QueueInv'
<1> USE MaxConcurrentAssumption DEF QueueInv, TypeOK, OnePlace, ActiveIsInFlight, NoLostWakeup
<1>1. c \notin inFlight \union settled \union ToSet(waiting) \union ToSet(woken)
  BY DEF Enqueue, Uncalled
<1>2. CASE active >= MaxConcurrent
  <2>1. /\ waiting' = Append(waiting, c)
        /\ UNCHANGED <<active, inFlight, woken, settled, drainPc, drainSet>>
    BY <1>2 DEF Enqueue, drainVars
  <2>2. /\ waiting' \in Seq(Callers)
        /\ ToSet(waiting') = ToSet(waiting) \union {c}
        /\ IsInjective(waiting')
    BY <2>1, <1>1, ToSetAppend, InjectiveAppend, AppendProperties
  <2>3. Len(woken) \in Nat
    BY LenProperties
  <2>4. OnePlace'
    BY <1>1, <2>1, <2>2
  <2> QED BY <1>2, <2>1, <2>2, <2>3, <2>4
<1>3. CASE ~(active >= MaxConcurrent)
  <2>1. /\ active' = active + 1
        /\ inFlight' = inFlight \union {c}
        /\ UNCHANGED <<waiting, woken, settled, drainPc, drainSet>>
    BY <1>3 DEF Enqueue, drainVars
  <2>2. IsFiniteSet(inFlight') /\ Cardinality(inFlight') = Cardinality(inFlight) + 1
    BY <1>1, <2>1, FS_AddElement
  <2>3. Len(woken) \in Nat
    BY LenProperties
  <2>4. OnePlace'
    BY <1>1, <2>1
  <2> QED BY <2>1, <2>2, <2>3, <2>4
<1> QED BY <1>2, <1>3

LEMMA QueueResumeStep ==
  ASSUME QueueInv, Resume, UNCHANGED drainVars
  PROVE  QueueInv'
<1> USE MaxConcurrentAssumption DEF QueueInv, TypeOK, OnePlace, ActiveIsInFlight, NoLostWakeup
<1> DEFINE c == Head(woken)
<1>1. /\ woken # <<>>
      /\ active' = active + 1
      /\ inFlight' = inFlight \union {c}
      /\ woken' = Tail(woken)
      /\ UNCHANGED <<waiting, settled, drainPc, drainSet>>
  BY DEF Resume, drainVars
<1>2. /\ c \in Callers
      /\ c \in ToSet(woken)
      /\ woken' \in Seq(Callers)
      /\ Len(woken') = Len(woken) - 1
      /\ IsInjective(woken')
      /\ ToSet(woken') = ToSet(woken) \ {c}
  BY <1>1, TailOfInjective
<1>3. c \notin inFlight
  BY <1>2
<1>4. IsFiniteSet(inFlight') /\ Cardinality(inFlight') = Cardinality(inFlight) + 1
  BY <1>1, <1>3, FS_AddElement
<1>5. Len(woken) \in Nat
  BY LenProperties
<1>6. OnePlace'
  BY <1>1, <1>2
<1> QED BY <1>1, <1>2, <1>4, <1>5, <1>6

LEMMA FinallyStep ==
  ASSUME QueueInv, NEW c \in Callers, Finally(c), UNCHANGED drainVars
  PROVE  QueueInv'
<1> USE MaxConcurrentAssumption DEF QueueInv, TypeOK, OnePlace, ActiveIsInFlight, NoLostWakeup
<1>1. /\ c \in inFlight
      /\ active' = active - 1
      /\ inFlight' = inFlight \ {c}
      /\ settled' = settled \union {c}
      /\ UNCHANGED <<drainPc, drainSet>>
  BY DEF Finally, GiveBack, drainVars
<1>2. IsFiniteSet(inFlight') /\ Cardinality(inFlight') = Cardinality(inFlight) - 1
  BY <1>1, FS_RemoveElement
<1>3. active' \in Nat
  BY <1>1, <1>2, FS_CardinalityType
<1>4. Len(woken) \in Nat
  BY LenProperties
<1>5. CASE waiting = <<>>
  <2>1. UNCHANGED <<woken, waiting>>
    BY <1>5 DEF Finally
  <2>2. OnePlace'
    BY <1>1, <2>1
  <2> QED BY <1>1, <1>2, <1>3, <1>5, <2>1, <2>2
<1>6. CASE waiting # <<>>
  <2> DEFINE w == Head(waiting)
  <2>1. woken' = Append(woken, w) /\ waiting' = Tail(waiting)
    BY <1>6 DEF Finally
  <2>2. /\ w \in Callers
        /\ w \in ToSet(waiting)
        /\ waiting' \in Seq(Callers)
        /\ IsInjective(waiting')
        /\ ToSet(waiting') = ToSet(waiting) \ {w}
    BY <1>6, <2>1, TailOfInjective
  <2>3. /\ woken' \in Seq(Callers)
        /\ Len(woken') = Len(woken) + 1
        /\ ToSet(woken') = ToSet(woken) \union {w}
        /\ IsInjective(woken')
    BY <2>1, <2>2, ToSetAppend, InjectiveAppend, AppendProperties
  <2>4. OnePlace'
    BY <1>1, <2>2, <2>3
  <2>5. NoLostWakeup'
    BY <1>1, <1>4, <1>6, <2>3
  <2> QED BY <1>1, <1>2, <1>3, <2>2, <2>3, <2>4, <2>5
<1> QED BY <1>5, <1>6

LEMMA DrainStep ==
  ASSUME QueueInv, Drain \/ DrainLoop, UNCHANGED queueVars
  PROVE  QueueInv'
  BY DEF QueueInv, TypeOK, OnePlace, ActiveIsInFlight, NoLostWakeup, Uncalled, Drain, DrainLoop, queueVars

LEMMA QueueStutterStep ==
  ASSUME QueueInv, UNCHANGED vars
  PROVE  QueueInv'
  BY DEF QueueInv, TypeOK, OnePlace, ActiveIsInFlight, NoLostWakeup, vars

\* Every reachable state of the queue satisfies the inductive invariant.
THEOREM QueueInvariant == Spec => []QueueInv
<1>1. QueueInv /\ [Next]_vars => QueueInv'
  BY EnqueueStep, QueueResumeStep, FinallyStep, DrainStep, QueueStutterStep DEF Next
<1> QED
  BY <1>1, InitQueueInv, PTL DEF Spec

\* The queue's variables keep their types; in particular the counter never
\* becomes negative.
THEOREM QueueTypeCorrect == Spec => []TypeOK
<1>1. QueueInv => TypeOK
  BY DEF QueueInv
<1> QED BY <1>1, QueueInvariant, PTL

\* The counter `active` equals the number of calls running, for any number of
\* callers and any limit.
THEOREM CounterExact == Spec => []ActiveIsInFlight
<1>1. QueueInv => ActiveIsInFlight
  BY DEF QueueInv
<1> QED BY <1>1, QueueInvariant, PTL

\* While a caller is parked, enough slots are held or promised that a
\* finally-callback will come to wake it.
THEOREM WakeupsKept == Spec => []NoLostWakeup
<1>1. QueueInv => NoLostWakeup
  BY DEF QueueInv
<1> QED BY <1>1, QueueInvariant, PTL

-----------------------------------------------------------------------------

\* The line of parked calls, from the pending microtasks to the array, is the
\* same before and after the oldest one is woken.
LEMMA WakingKeepsLine ==
  ASSUME NEW S, NEW p \in Seq(S), NEW q \in Seq(S), q # <<>>
  PROVE  Append(p, Head(q)) \o Tail(q) = p \o q
  OBVIOUS

\* Resuming takes the first of the line.
LEMMA TailOfLine ==
  ASSUME NEW S, NEW p \in Seq(S), NEW q \in Seq(S), p # <<>>
  PROVE  p \o q # <<>> /\ Tail(p) \o q = Tail(p \o q)
  OBVIOUS

\* Parking adds to its end.
LEMMA EndOfLine ==
  ASSUME NEW S, NEW p \in Seq(S), NEW q \in Seq(S), NEW x \in S
  PROVE  p \o Append(q, x) = Append(p \o q, x)
  OBVIOUS

\* A step leaves the line as it is, takes its head, or adds to its end.
LEMMA StepKeepsLine ==
  ASSUME TypeOK, [Next]_vars
  PROVE  \/ Line' = Line
         \/ Line # <<>> /\ Line' = Tail(Line)
         \/ \E c \in Callers : Line' = Append(Line, c)
<1>1. waiting \in Seq(Callers) /\ woken \in Seq(Callers)
  BY DEF TypeOK
<1>2. ASSUME NEW c \in Callers, Enqueue(c)
      PROVE  Line' = Line \/ Line' = Append(Line, c)
  <2>1. woken' = woken /\ (waiting' = waiting \/ waiting' = Append(waiting, c))
    BY <1>2 DEF Enqueue
  <2>2. woken \o Append(waiting, c) = Append(woken \o waiting, c)
    BY <1>1, EndOfLine
  <2> QED BY <2>1, <2>2 DEF Line
<1>3. ASSUME Resume
      PROVE  Line # <<>> /\ Line' = Tail(Line)
  BY <1>1, <1>3, TailOfLine DEF Resume, Line
<1>4. ASSUME NEW c \in Callers, Finally(c)
      PROVE  Line' = Line
  BY <1>1, <1>4, WakingKeepsLine DEF Finally, Line
<1>5. ASSUME UNCHANGED queueVars \/ UNCHANGED vars
      PROVE  Line' = Line
  BY <1>5 DEF queueVars, vars, Line
<1> QED BY <1>2, <1>3, <1>4, <1>5 DEF Next

\* A drain that had to wait looks again when no microtask is pending: then, with
\* nothing in flight, nobody is parked either, since no wake-up is lost.
LEMMA StepDrainsAll ==
  ASSUME QueueInv, [Next]_vars, drainPc = "waiting", drainPc' = "returned"
  PROVE  inFlight = {} /\ waiting = <<>> /\ woken = <<>>
<1>1. DrainLoop
  BY DEF Next, Drain, drainVars, vars
<1>2. inFlight = {} /\ woken = <<>>
  BY <1>1 DEF DrainLoop
<1>3. active = 0 /\ Len(woken) = 0
  BY <1>2, FS_EmptySet, EmptySeq DEF QueueInv, ActiveIsInFlight
<1>4. waiting = <<>>
  BY <1>3, MaxConcurrentAssumption DEF QueueInv, NoLostWakeup
<1> QED BY <1>2, <1>4

\* For any callers and any limit: a parked call is overtaken by no younger parked
\* one, and a drain that waited leaves nothing running, parked or about to run.
THEOREM NobodyPassedOver == Spec => NobodyIsPassedOver
<1>1. QueueInv /\ [Next]_vars =>
        [\/ Line' = Line
         \/ Line # <<>> /\ Line' = Tail(Line)
         \/ \E c \in Callers : Line' = Append(Line, c)]_vars
  BY StepKeepsLine DEF QueueInv
<1>2. QueueInv /\ [Next]_vars =>
        [drainPc = "waiting" /\ drainPc' = "returned"
           => inFlight = {} /\ waiting = <<>> /\ woken = <<>>]_vars
  BY StepDrainsAll
<1> QED
  BY <1>1, <1>2, QueueInvariant, PTL DEF Spec, NobodyIsPassedOver, ParkedInOrder, DrainLeavesNothing

-----------------------------------------------------------------------------
(* The inductive invariant of the dispatcher *)

USE DEF Tasks

Parked == ToSet(waiting) \union ToSet(woken)

\* Tasks given to the queue.
Queued == Parked \union inFlight \union settled

\* A batch has begun to do something with the task.
Touched(t) == t \in Queued \/ t \in launching \/ outcome[t] # "none" \/ t \in resumed

\* A task starts in the queue when it gets its slot, and has ended before the
\* queue settles it.
QueueRunsTasks ==
    /\ \A t \in Parked \union launching : outcome[t] = "none"
    /\ \A t \in inFlight : outcome[t] # "none"
    /\ \A t \in settled : outcome[t] \in Outcomes
    /\ launching \intersect Queued = {}

\* Every task that was used belongs to a batch that got so far.
BatchOwns ==
    \A b \in Batches : \A t \in Members(b) :
        /\ Touched(t) => batchPc[b] # "new"
        /\ Touched(t) /\ t # Alone[b] =>
              /\ batchPc[b] \in {"running", "returned"}
              /\ Alone[b] # NoTask => outcome[Alone[b]] = "completed"

\* The lone task or the canary of a batch runs outside the queue, and its
\* result is written when it has ended.
AloneRuns ==
  /\ \A b \in Batches : batchPc[b] = "alone" => Alone[b] # NoTask
  /\ \A b \in Batches : Alone[b] # NoTask =>
        /\ Alone[b] \notin Queued \union launching
        /\ batchPc[b] = "alone" => outcome[Alone[b]] # "none" /\ Alone[b] \notin resumed
        /\ batchPc[b] \in {"running", "returned", "threw"} =>
              /\ outcome[Alone[b]] \in Outcomes
              /\ outcome[Alone[b]] # "threw" => result[Alone[b]] # "none"
        /\ batchPc[b] = "running" => outcome[Alone[b]] = "completed"

\* Only a task given to the queue, or run alone, executes.
WorkIsOwned ==
    \A t \in Tasks :
        /\ outcome[t] # "none" => t \in inFlight \union settled \/ \E b \in Batches : t = Alone[b]
        /\ t \in resumed =>
              \/ t \in settled
              \/ \E b \in Batches : t = Alone[b] /\ batchPc[b] \in {"running", "returned", "threw"}

\* A queued task that ended without throwing has written its result.
ResultsWritten ==
    \A t \in inFlight \union settled : outcome[t] \in {"completed", "failed"} => result[t] # "none"

\* A chain goes on when the task before has returned.
ChainsInOrder ==
    \A b \in Batches : \A u \in Members(b) : u \in Queued \union launching =>
        \A t \in Group[b][u] : Before(b, t, u) => t \in resumed /\ outcome[t] # "threw"

IInv ==
    /\ QueueInv
    /\ DispatchTypeOK
    /\ QueueRunsTasks
    /\ BatchOwns
    /\ AloneRuns
    /\ WorkIsOwned
    /\ ResultsWritten
    /\ ChainsInOrder
    /\ LocksHeldByExecuting
    /\ ResultUnlessThrown

-----------------------------------------------------------------------------
(* The tables *)

LEMMA Types ==
  /\ NoTask \notin Tasks
  /\ \A b \in Batches : Members(b) \subseteq Tasks
  /\ \A t \in Tasks : FilesOf[t] \subseteq Files
  /\ \A b, c \in Batches : \A t \in Members(b) : t \in Members(c) => b = c
<1>1. \A b \in Batches : Members(b) \subseteq Tasks
  BY BatchAssumption DEF Members, ToSet
<1> QED BY <1>1, BatchAssumption DEF Members

\* Submission order is a strict order of the members of a batch.
LEMMA Order ==
  ASSUME NEW b \in Batches, NEW t \in Members(b), NEW u \in Members(b)
  PROVE  /\ ~Before(b, t, t)
         /\ Before(b, t, u) => ~Before(b, u, t)
         /\ t # u => Before(b, t, u) \/ Before(b, u, t)
<1>1. /\ BatchTasks[b] \in Seq(Tasks)
      /\ \A i, j \in DOMAIN BatchTasks[b] : BatchTasks[b][i] = BatchTasks[b][j] => i = j
  BY BatchAssumption DEF IsInjective
<1>2. DOMAIN BatchTasks[b] \subseteq Nat
  BY <1>1
<1>3. PICK i \in DOMAIN BatchTasks[b], j \in DOMAIN BatchTasks[b] :
        BatchTasks[b][i] = t /\ BatchTasks[b][j] = u
  BY DEF Members, ToSet
<1>4. \A x \in DOMAIN BatchTasks[b] : /\ BatchTasks[b][x] = t => x = i
                                      /\ BatchTasks[b][x] = u => x = j
  BY <1>1, <1>3
<1>5. Before(b, t, u) <=> i < j
  BY <1>3, <1>4 DEF Before
<1>6. Before(b, u, t) <=> j < i
  BY <1>3, <1>4 DEF Before
<1>7. ~Before(b, t, t)
  BY <1>2, <1>3, <1>4 DEF Before
<1> QED BY <1>2, <1>3, <1>5, <1>6, <1>7

\* A group holds its tasks, with all that conflict with one of them, and any of
\* its tasks has the same group.
LEMMA Groups ==
  ASSUME NEW b \in Batches, NEW t \in Members(b)
  PROVE  /\ t \in Group[b][t]
         /\ Group[b][t] \subseteq Members(b)
         /\ \A u \in Members(b) : Conflict(t, u) => u \in Group[b][t]
         /\ \A u \in Group[b][t] : t \in Group[b][u]
         /\ \A u \in Group[b][t] : Group[b][u] \subseteq Group[b][t]
<1>1. \A x \in Members(b) : Group[b][x] = {u \in Members(b) :
           \A S \in SUBSET Members(b) : x \in S /\ Closed(b, S) => u \in S}
  BY Types DEF Group
<1>2. \A u \in Members(b) : Conflict(t, u) => u \in Group[b][t]
  BY <1>1 DEF Closed
<1>3. ASSUME NEW u \in Group[b][t] PROVE t \in Group[b][u]
  <2>1. u \in Members(b)
    BY <1>1, <1>3
  <2> SUFFICES ASSUME NEW S \in SUBSET Members(b), u \in S, Closed(b, S), t \notin S
               PROVE  FALSE
    BY <1>1, <2>1
  <2> DEFINE Rest == Members(b) \ S
  <2>2. Closed(b, Rest)
    <3> SUFFICES ASSUME NEW x \in Rest, NEW y \in Members(b), Conflict(x, y), y \in S
                 PROVE  FALSE
      BY DEF Closed
    <3>1. Conflict(y, x)
      BY DEF Conflict
    <3> QED BY <3>1 DEF Closed
  <2>3. u \in Rest
    BY <1>1, <1>3, <2>2
  <2> QED BY <2>3
<1>4. ASSUME NEW u \in Group[b][t] PROVE Group[b][u] \subseteq Group[b][t]
  <2>1. u \in Members(b)
    BY <1>1, <1>4
  <2> SUFFICES ASSUME NEW v \in Group[b][u], NEW S \in SUBSET Members(b), t \in S, Closed(b, S)
               PROVE  v \in S
    BY <1>1, <2>1
  <2>2. u \in S
    BY <1>1, <1>4
  <2> QED BY <1>1, <2>1, <2>2
<1> QED BY <1>1, <1>2, <1>3, <1>4

\* A non-empty set of natural numbers has a least one.
LEMMA LeastNatural ==
  ASSUME NEW S \in SUBSET Nat, S # {}
  PROVE  \E m \in S : \A n \in S : m <= n
<1> DEFINE Below == {0 .. n : n \in S}
<1>1. Below \subseteq FiniteSubsetsOf(Nat) /\ Below # {}
  <2>1. \A n \in S : n \in Int /\ 0 .. n \in SUBSET Nat
    OBVIOUS
  <2>2. \A n \in S : IsFiniteSet(0 .. n)
    BY <2>1, FS_Interval
  <2> QED BY <2>1, <2>2 DEF FiniteSubsetsOf
<1> HIDE DEF Below
<1>2. PICK x \in Below : \A y \in Below : <<y, x>> \notin StrictSubsetOrdering(Nat)
  BY <1>1, FS_StrictSubsetOrderingWellFounded, WFMin
<1> USE DEF Below
<1>3. PICK m \in S : x = 0 .. m
  OBVIOUS
<1>4. ASSUME NEW n \in S, n < m PROVE FALSE
  <2>1. 0 .. n \subseteq 0 .. m /\ 0 .. n # 0 .. m /\ 0 .. n \in SUBSET Nat /\ 0 .. m \in SUBSET Nat
    BY <1>4
  <2>2. <<0 .. n, 0 .. m>> \in StrictSubsetOrdering(Nat)
    BY <2>1 DEF StrictSubsetOrdering
  <2> QED BY <1>2, <1>3, <2>2
<1> QED BY <1>4

\* A non-empty set of tasks of a batch has a first one.
LEMMA FirstIsOne ==
  ASSUME NEW b \in Batches, NEW S \in SUBSET Members(b), S # {}
  PROVE  First(b, S) \in S
<1>1. /\ BatchTasks[b] \in Seq(Tasks)
      /\ \A i, j \in DOMAIN BatchTasks[b] : BatchTasks[b][i] = BatchTasks[b][j] => i = j
  BY BatchAssumption DEF IsInjective
<1> DEFINE Places == {i \in DOMAIN BatchTasks[b] : BatchTasks[b][i] \in S}
<1>2. Places \in SUBSET Nat /\ Places # {}
  BY <1>1 DEF Members, ToSet
<1>3. PICK i \in Places : \A j \in Places : i <= j
  BY <1>2, LeastNatural
<1>4. ASSUME NEW u \in S \ {BatchTasks[b][i]} PROVE Before(b, BatchTasks[b][i], u)
  <2>1. PICK j \in DOMAIN BatchTasks[b] : BatchTasks[b][j] = u
    BY DEF Members, ToSet
  <2>2. j \in Places /\ j # i
    BY <1>4, <2>1
  <2>3. i \in DOMAIN BatchTasks[b] /\ i < j
    BY <1>2, <1>3, <2>2
  <2> QED BY <2>1, <2>3 DEF Before
<1>5. BatchTasks[b][i] \in S
  BY <1>3
<1>6. \E t \in S : \A u \in S \ {t} : Before(b, t, u)
  BY <1>4, <1>5
<1> QED BY <1>6 DEF First

\* The lone task and the canary are in a group of their own.
LEMMA AloneIsFree ==
  ASSUME NEW b \in Batches, Alone[b] # NoTask
  PROVE  Alone[b] \in Members(b) /\ Group[b][Alone[b]] = {Alone[b]}
<1>1. CASE Len(BatchTasks[b]) = 1
  <2>1. BatchTasks[b] \in Seq(Tasks) /\ DOMAIN BatchTasks[b] = {1}
    BY <1>1, BatchAssumption
  <2>2. Alone[b] = BatchTasks[b][1] /\ Members(b) = {BatchTasks[b][1]}
    BY <1>1, <2>1 DEF Alone, Members, ToSet
  <2> QED BY <2>2, Groups
<1>2. CASE Len(BatchTasks[b]) # 1
  <2> DEFINE free == {t \in Members(b) : FileFree(t)}
             single == {t \in Members(b) : Group[b][t] = {t}}
  <2>1. Alone[b] = IF free # {} THEN First(b, free)
                   ELSE IF single # {} THEN First(b, single) ELSE NoTask
    BY <1>2 DEF Alone, Canary
  <2>2. ASSUME NEW t \in free PROVE t \in single
    <3>1. Closed(b, {t})
      BY DEF Closed, Conflict, FileFree
    <3>2. Group[b][t] \subseteq {t}
      BY <3>1, Types DEF Group
    <3> QED BY <3>2, Groups
  <2>3. Alone[b] \in single
    BY <2>1, <2>2, FirstIsOne
  <2> QED BY <2>3
<1> QED BY <1>1, <1>2

\* Only what conflicts is ordered, so the chains are the order.
LEMMA Chains ==
  ASSUME NEW b \in Batches, NEW t \in Members(b)
  PROVE  /\ \A u \in Successor[t] :
              /\ u \in Group[b][t] /\ u # t /\ Before(b, t, u)
              /\ \A v \in Group[b][u] : Before(b, v, u) => v = t \/ Before(b, v, t)
         /\ t \in Heads[b] <=> \A u \in Group[b][t] : ~Before(b, u, t)
<1>1. t \in Heads[b] <=> \A u \in Group[b][t] : ~Before(b, u, t)
  BY DEF Heads
<1>2. ASSUME NEW u \in Successor[t]
      PROVE  /\ u \in Group[b][t] /\ Before(b, t, u)
             /\ \A v \in Group[b][t] \ {u} : Before(b, t, v) => Before(b, u, v)
  <2>1. t \in Tasks
    BY Types
  <2>2. PICK c \in Batches : /\ t \in Members(c) /\ u \in Group[c][t] /\ Before(c, t, u)
                             /\ \A v \in Group[c][t] \ {u} : Before(c, t, v) => Before(c, u, v)
    BY <1>2, <2>1 DEF Successor
  <2>3. c = b
    BY <2>2, Types
  <2> QED BY <2>2, <2>3
<1>3. ASSUME NEW u \in Successor[t], NEW v \in Group[b][u], Before(b, v, u)
      PROVE  u # t /\ (v = t \/ Before(b, v, t))
  <2>1. u \in Group[b][t] /\ Before(b, t, u) /\ u \in Members(b)
    BY <1>2, Groups
  <2>2. v \in Group[b][t] /\ v \in Members(b)
    BY <2>1, Groups
  <2>3. v # u /\ u # t
    BY <1>3, <2>1, <2>2, Order
  <2>4. ~Before(b, t, v) \/ v = t
    BY <1>2, <1>3, <2>1, <2>2, <2>3, Order
  <2> QED BY <2>2, <2>3, <2>4, Order
<1>4. \A u \in Successor[t] : u # t
  BY <1>2, Groups, Order
<1> QED BY <1>1, <1>2, <1>3, <1>4

-----------------------------------------------------------------------------
(* The queue's steps, seen from the dispatcher *)

\* What the queue's invariant says of the places of a task.
LEMMA Places ==
  ASSUME QueueInv
  PROVE  /\ TypeOK
         /\ Parked \subseteq Tasks /\ inFlight \subseteq Tasks /\ settled \subseteq Tasks
         /\ Parked \intersect (inFlight \union settled) = {}
         /\ inFlight \intersect settled = {}
<1>1. TypeOK
  BY DEF QueueInv, TypeOK
<1>2. ToSet(waiting) \subseteq Tasks /\ ToSet(woken) \subseteq Tasks
  BY <1>1 DEF TypeOK, ToSet
<1> QED BY <1>1, <1>2 DEF QueueInv, OnePlace, ToSet, TypeOK, Parked

\* A call of the queue starts its task at once or parks it.
LEMMA EnqueueMoves ==
  ASSUME QueueInv, NEW t \in Tasks, Enqueue(t), UNCHANGED drainVars
  PROVE  /\ QueueInv'
         /\ t \notin Queued
         /\ settled' = settled
         /\ \/ inFlight' = inFlight \union {t} /\ Parked' = Parked
            \/ inFlight' = inFlight /\ Parked' = Parked \union {t}
<1>1. QueueInv'
  BY EnqueueStep
<1>2. t \notin Queued
  BY DEF Enqueue, Uncalled, Queued, Parked
<1>3. waiting \in Seq(Tasks)
  BY Places DEF TypeOK
<1>4. ToSet(Append(waiting, t)) = ToSet(waiting) \union {t}
  BY <1>3, ToSetAppend
<1> QED BY <1>1, <1>2, <1>4 DEF Enqueue, Parked

\* The microtask of a woken caller starts its task.
LEMMA ResumeMoves ==
  ASSUME QueueInv, Resume, UNCHANGED drainVars
  PROVE  /\ QueueInv'
         /\ Head(woken) \in Parked
         /\ settled' = settled
         /\ inFlight' = inFlight \union {Head(woken)}
         /\ Parked' = Parked \ {Head(woken)}
<1>1. QueueInv'
  BY QueueResumeStep
<1>2. woken \in Seq(Tasks) /\ woken # <<>> /\ IsInjective(woken)
  BY Places DEF TypeOK, Resume, QueueInv, OnePlace
<1>3. Head(woken) \in ToSet(woken) /\ ToSet(Tail(woken)) = ToSet(woken) \ {Head(woken)}
  BY <1>2, TailOfInjective
<1>4. ToSet(waiting) \intersect ToSet(woken) = {}
  BY DEF QueueInv, OnePlace
<1> QED BY <1>1, <1>3, <1>4 DEF Resume, Parked

\* The finally-callback settles a task; a caller it wakes stays parked.
LEMMA FinallyMoves ==
  ASSUME QueueInv, NEW t \in Tasks, Finally(t), UNCHANGED drainVars
  PROVE  /\ QueueInv'
         /\ t \in inFlight
         /\ inFlight' = inFlight \ {t}
         /\ settled' = settled \union {t}
         /\ Parked' = Parked
<1>1. QueueInv'
  BY FinallyStep
<1>2. waiting \in Seq(Tasks) /\ woken \in Seq(Tasks) /\ IsInjective(waiting)
  BY Places DEF TypeOK, QueueInv, OnePlace
<1>3. Parked' = Parked
  <2>1. CASE waiting = <<>>
    BY <2>1 DEF Finally, Parked
  <2>2. CASE waiting # <<>>
    <3>1. /\ Head(waiting) \in Tasks /\ Head(waiting) \in ToSet(waiting)
          /\ ToSet(Tail(waiting)) = ToSet(waiting) \ {Head(waiting)}
      BY <1>2, <2>2, TailOfInjective
    <3>2. ToSet(Append(woken, Head(waiting))) = ToSet(woken) \union {Head(waiting)}
      BY <1>2, <3>1, ToSetAppend
    <3> QED BY <2>2, <3>1, <3>2 DEF Finally, Parked
  <2> QED BY <2>1, <2>2
<1> QED BY <1>1, <1>3 DEF Finally, GiveBack

-----------------------------------------------------------------------------
(* Every step keeps the invariant *)

\* Where a step does not touch the queue.
LEMMA QueueStays ==
  ASSUME QueueInv, UNCHANGED vars
  PROVE  QueueInv' /\ Parked' = Parked /\ Queued' = Queued
<1>1. QueueInv'
  BY QueueStutterStep
<1> QED BY <1>1 DEF vars, Parked, Queued

\* Starting a task that has not run: the locks it takes are its own.
LEMMA StartKeeps ==
  ASSUME DispatchTypeOK, LocksHeldByExecuting, NEW t \in Tasks, outcome[t] = "none", Start(t)
  PROVE  /\ outcome' \in [Tasks -> {"none", "executing"} \union Outcomes]
         /\ \A x \in Tasks : outcome'[x] = IF x = t THEN "executing" ELSE outcome[x]
         /\ locks' \in [Files -> Tasks \union {NoTask}]
         /\ LocksHeldByExecuting'
<1>1. /\ outcome' \in [Tasks -> {"none", "executing"} \union Outcomes]
      /\ \A x \in Tasks : outcome'[x] = IF x = t THEN "executing" ELSE outcome[x]
  BY DEF DispatchTypeOK, Start
<1>2. /\ locks' \in [Files -> Tasks \union {NoTask}]
      /\ \A f \in Files : locks'[f] = locks[f] \/ (locks'[f] = t /\ f \in FilesOf[t])
  BY DEF DispatchTypeOK, Start, Acquired
<1>3. ASSUME NEW f \in Files, locks'[f] # NoTask
      PROVE  outcome'[locks'[f]] = "executing" /\ f \in FilesOf[locks'[f]]
  BY <1>1, <1>2, <1>3 DEF DispatchTypeOK, LocksHeldByExecuting
<1> QED BY <1>1, <1>2, <1>3 DEF LocksHeldByExecuting

\* A call of the queue for a task that has not run.
LEMMA CallQueueMoves ==
  ASSUME QueueInv, DispatchTypeOK, LocksHeldByExecuting, NEW t \in Tasks, outcome[t] = "none", CallQueue(t)
  PROVE  /\ QueueInv'
         /\ t \notin Queued
         /\ settled' = settled
         /\ \/ /\ inFlight' = inFlight \union {t}
               /\ Parked' = Parked
               /\ \A x \in Tasks : outcome'[x] = IF x = t THEN "executing" ELSE outcome[x]
            \/ /\ inFlight' = inFlight
               /\ Parked' = Parked \union {t}
               /\ \A x \in Tasks : outcome'[x] = outcome[x]
         /\ outcome' \in [Tasks -> {"none", "executing"} \union Outcomes]
         /\ locks' \in [Files -> Tasks \union {NoTask}]
         /\ LocksHeldByExecuting'
<1>1. Enqueue(t) /\ UNCHANGED drainVars
  BY DEF CallQueue
<1>2. CASE t \in inFlight'
  <2>1. Start(t)
    BY <1>2 DEF CallQueue
  <2>2. inFlight' = inFlight \union {t} /\ Parked' = Parked
    BY <1>1, <1>2, EnqueueMoves DEF Queued
  <2> QED BY <1>1, <2>1, <2>2, EnqueueMoves, StartKeeps
<1>3. CASE t \notin inFlight'
  <2>1. outcome' = outcome /\ locks' = locks
    BY <1>3 DEF CallQueue
  <2>2. inFlight' = inFlight /\ Parked' = Parked \union {t}
    BY <1>1, <1>3, EnqueueMoves
  <2>3. LocksHeldByExecuting'
    BY <2>1 DEF LocksHeldByExecuting
  <2> QED BY <1>1, <2>1, <2>2, <2>3, EnqueueMoves DEF DispatchTypeOK
<1> QED BY <1>2, <1>3

\* The queue's own types follow from its invariant, before a step and after it.
LEMMA QueueTypes == (QueueInv => TypeOK) /\ (QueueInv' => TypeOK')
  BY DEF QueueInv, TypeOK

LEMMA InitIInv == DispatchInit => IInv
<1> SUFFICES ASSUME DispatchInit PROVE IInv
  OBVIOUS
<1>1. QueueInv
  BY InitQueueInv DEF DispatchInit
<1>2. Parked = {} /\ inFlight = {} /\ settled = {} /\ Queued = {}
  BY DEF DispatchInit, Init, Parked, Queued, ToSet
<1>3. DispatchTypeOK
  BY <1>1, QueueTypes DEF DispatchInit, DispatchTypeOK
<1>4. QueueRunsTasks /\ WorkIsOwned /\ ResultsWritten /\ ChainsInOrder /\ LocksHeldByExecuting
  BY <1>2 DEF DispatchInit, QueueRunsTasks, WorkIsOwned, ResultsWritten, ChainsInOrder, LocksHeldByExecuting
<1>5. BatchOwns /\ AloneRuns /\ ResultUnlessThrown
  BY <1>2, Types, AloneIsFree DEF DispatchInit, BatchOwns, AloneRuns, ResultUnlessThrown, Touched
<1> QED BY <1>1, <1>3, <1>4, <1>5 DEF IInv

\* dispatch() up to its first await.
LEMMA DispatchStep ==
  ASSUME IInv, NEW b \in Batches, Dispatch(b)
  PROVE  IInv'
<1> DEFINE a == Alone[b]
<1>1. /\ batchPc[b] = "new" /\ launching = {}
      /\ UNCHANGED <<active, waiting, woken, inFlight, settled, result, resumed>>
      /\ UNCHANGED vars
  BY DEF Dispatch, vars
<1>2. QueueInv' /\ Parked' = Parked /\ Queued' = Queued
  BY <1>1, QueueStays DEF IInv
<1>3. \A t \in Members(b) : ~Touched(t)
  BY <1>1 DEF IInv, BatchOwns
<1>4. \A c \in Batches : \A t \in Members(b) : t \in Members(c) => c = b
  BY Types
<1>5. \A c \in Batches : Alone[c] # NoTask => Alone[c] \in Members(c) /\ Alone[c] \in Tasks
  BY AloneIsFree, Types
<1>6. CASE a # NoTask
  <2>1. /\ batchPc' = [batchPc EXCEPT ![b] = "alone"] /\ Start(a) /\ launching' = launching
        /\ a \in Members(b) /\ a \in Tasks
    BY <1>5, <1>6 DEF Dispatch
  <2>2. a \notin Queued /\ a \notin launching /\ outcome[a] = "none" /\ a \notin resumed
    BY <1>3, <2>1 DEF Touched
  <2>3. /\ outcome' \in [Tasks -> {"none", "executing"} \union Outcomes]
        /\ \A x \in Tasks : outcome'[x] = IF x = a THEN "executing" ELSE outcome[x]
        /\ locks' \in [Files -> Tasks \union {NoTask}]
        /\ LocksHeldByExecuting'
    BY <2>1, <2>2, StartKeeps DEF IInv
  <2>4. \A c \in Batches : batchPc'[c] = IF c = b THEN "alone" ELSE batchPc[c]
    BY <2>1 DEF IInv, DispatchTypeOK
  <2>5. DispatchTypeOK'
    <3>1. TypeOK'
      BY <1>2, QueueTypes
    <3>2. batchPc' \in [Batches -> {"new", "alone", "running", "returned", "threw"}]
      BY <2>1 DEF IInv, DispatchTypeOK
    <3> QED BY <1>1, <2>1, <2>3, <3>1, <3>2 DEF IInv, DispatchTypeOK
  <2>6. QueueRunsTasks'
    BY <1>1, <1>2, <2>1, <2>2, <2>3, Places DEF IInv, QueueRunsTasks, Queued
  <2>7. \A x \in Tasks : x # a => (Touched(x)' <=> Touched(x))
    BY <1>1, <1>2, <2>1, <2>3 DEF Touched
  <2>8. BatchOwns'
    <3> SUFFICES ASSUME NEW c \in Batches, NEW t \in Members(c), Touched(t)'
                 PROVE  /\ batchPc'[c] # "new"
                        /\ t # Alone[c] => /\ batchPc'[c] \in {"running", "returned"}
                                           /\ Alone[c] # NoTask => outcome'[Alone[c]] = "completed"
      BY DEF BatchOwns
    <3>1. t \in Tasks
      BY Types
    <3>2. CASE c = b
      BY <1>3, <2>4, <2>7, <3>1, <3>2
    <3>3. CASE c # b
      <4>1. t # a /\ (Alone[c] # NoTask => Alone[c] # a)
        BY <1>4, <1>5, <2>1, <3>3
      <4> QED BY <1>5, <2>3, <2>4, <2>7, <3>1, <3>3, <4>1 DEF IInv, BatchOwns
    <3> QED BY <3>2, <3>3
  <2>9. AloneRuns'
    <3>1. ASSUME NEW c \in Batches, c # b, Alone[c] # NoTask PROVE Alone[c] # a
      BY <1>4, <1>5, <2>1, <3>1
    <3> QED BY <1>1, <1>2, <1>5, <1>6, <2>1, <2>2, <2>3, <2>4, <3>1 DEF IInv, AloneRuns
  <2>10. WorkIsOwned'
    BY <1>1, <2>3, <2>4 DEF IInv, WorkIsOwned
  <2>11. ResultsWritten' /\ ChainsInOrder'
    <3>1. ResultsWritten'
      BY <1>1, <2>3, Places DEF IInv, ResultsWritten
    <3>2. ChainsInOrder'
      BY <1>1, <1>2, <2>1, <2>3, Types, Groups DEF IInv, ChainsInOrder
    <3> QED BY <3>1, <3>2
  <2>12. ResultUnlessThrown'
    BY <1>1, <2>2, <2>3, <2>4, Types, Groups DEF IInv, ResultUnlessThrown
  <2> QED BY <1>2, <2>3, <2>5, <2>6, <2>8, <2>9, <2>10, <2>11, <2>12 DEF IInv
<1>7. CASE a = NoTask
  <2>1. /\ batchPc' = [batchPc EXCEPT ![b] = "running"] /\ launching' = Heads[b]
        /\ outcome' = outcome /\ locks' = locks
    BY <1>7 DEF Dispatch
  <2>2. \A c \in Batches : batchPc'[c] = IF c = b THEN "running" ELSE batchPc[c]
    BY <2>1 DEF IInv, DispatchTypeOK
  <2>3. /\ Heads[b] \subseteq Members(b) /\ Members(b) \subseteq Tasks
        /\ \A t \in Heads[b] : t \notin Queued /\ outcome[t] = "none"
    BY <1>3, Types DEF Heads, Touched
  <2>4. DispatchTypeOK'
    <3>1. TypeOK'
      BY <1>2, QueueTypes
    <3>2. batchPc' \in [Batches -> {"new", "alone", "running", "returned", "threw"}]
      BY <2>1 DEF IInv, DispatchTypeOK
    <3>3. launching' \subseteq Tasks
      BY <2>1, <2>3
    <3> QED BY <1>1, <2>1, <3>1, <3>2, <3>3 DEF IInv, DispatchTypeOK
  <2>5. QueueRunsTasks'
    BY <1>1, <1>2, <2>1, <2>3 DEF IInv, QueueRunsTasks
  <2>6. BatchOwns'
    <3> SUFFICES ASSUME NEW c \in Batches, NEW t \in Members(c), Touched(t)'
                 PROVE  /\ batchPc'[c] # "new"
                        /\ t # Alone[c] => /\ batchPc'[c] \in {"running", "returned"}
                                           /\ Alone[c] # NoTask => outcome'[Alone[c]] = "completed"
      BY DEF BatchOwns
    <3>1. CASE c = b
      BY <1>7, <2>2, <3>1
    <3>2. CASE c # b
      <4>1. Touched(t)
        BY <1>1, <1>2, <1>4, <2>1, <2>3, <3>2 DEF Touched
      <4> QED BY <2>1, <2>2, <3>2, <4>1 DEF IInv, BatchOwns
    <3> QED BY <3>1, <3>2
  <2>7. AloneRuns'
    <3>1. ASSUME NEW c \in Batches, Alone[c] # NoTask PROVE c # b /\ Alone[c] \notin Heads[b]
      BY <1>4, <1>5, <1>7, <2>3, <3>1
    <3> QED BY <1>1, <1>2, <1>7, <2>1, <2>2, <3>1 DEF IInv, AloneRuns
  <2>8. WorkIsOwned'
    BY <1>1, <2>1, <2>2 DEF IInv, WorkIsOwned
  <2>9. ResultsWritten' /\ LocksHeldByExecuting'
    BY <1>1, <2>1 DEF IInv, ResultsWritten, LocksHeldByExecuting
  <2>10. ChainsInOrder'
    <3> SUFFICES ASSUME NEW c \in Batches, NEW u \in Members(c), u \in Queued \union Heads[b],
                        NEW t \in Group[c][u], Before(c, t, u)
                 PROVE  t \in resumed /\ outcome[t] # "threw"
      BY <1>1, <1>2, <2>1 DEF ChainsInOrder
    <3>1. CASE u \in Queued
      BY <3>1 DEF IInv, ChainsInOrder
    <3>2. CASE u \in Heads[b]
      BY <1>4, <2>3, <3>2, Chains
    <3> QED BY <3>1, <3>2
  <2>11. ResultUnlessThrown'
    BY <1>1, <2>1, <2>2 DEF IInv, ResultUnlessThrown
  <2> QED BY <1>2, <2>4, <2>5, <2>6, <2>7, <2>8, <2>9, <2>10, <2>11 DEF IInv
<1> QED BY <1>6, <1>7

\* One turn of the launch loop.
LEMMA LaunchStep ==
  ASSUME IInv, Launch
  PROVE  IInv'
<1>1. PICK t \in launching : CallQueue(t) /\ launching' = launching \ {t}
  BY DEF Launch
<1>2. /\ t \in Tasks /\ outcome[t] = "none"
      /\ UNCHANGED <<result, resumed, batchPc>>
  BY <1>1 DEF Launch, IInv, DispatchTypeOK, QueueRunsTasks
<1>3. /\ QueueInv'
      /\ t \notin Queued
      /\ settled' = settled
      /\ \/ /\ inFlight' = inFlight \union {t}
            /\ Parked' = Parked
            /\ \A x \in Tasks : outcome'[x] = IF x = t THEN "executing" ELSE outcome[x]
         \/ /\ inFlight' = inFlight
            /\ Parked' = Parked \union {t}
            /\ \A x \in Tasks : outcome'[x] = outcome[x]
      /\ outcome' \in [Tasks -> {"none", "executing"} \union Outcomes]
      /\ locks' \in [Files -> Tasks \union {NoTask}]
      /\ LocksHeldByExecuting'
  BY <1>1, <1>2, CallQueueMoves DEF IInv
<1>4. /\ Queued' = Queued \union {t}
      /\ \A x \in Tasks : x # t => outcome'[x] = outcome[x]
      /\ outcome'[t] \in {"none", "executing"}
  BY <1>2, <1>3 DEF Queued
<1>5. \A b \in Batches : Alone[b] # NoTask => Alone[b] # t /\ Alone[b] \in Tasks
  BY AloneIsFree, Types DEF IInv, AloneRuns
<1>6. DispatchTypeOK'
  BY <1>1, <1>2, <1>3, QueueTypes DEF IInv, DispatchTypeOK
<1>7. QueueRunsTasks'
  <2>1. /\ Parked \subseteq Tasks /\ inFlight \subseteq Tasks /\ settled \subseteq Tasks
        /\ launching \subseteq Tasks
        /\ t \notin Parked /\ t \notin inFlight /\ t \notin settled
    BY <1>3, Places DEF IInv, DispatchTypeOK, Queued
  <2>2. \A x \in Parked' \union launching' : outcome'[x] = "none"
    BY <1>1, <1>2, <1>3, <1>4, <2>1 DEF IInv, QueueRunsTasks
  <2>3. \A x \in inFlight' : outcome'[x] # "none"
    BY <1>3, <2>1 DEF IInv, QueueRunsTasks
  <2>4. \A x \in settled' : outcome'[x] \in Outcomes
    BY <1>3, <1>4, <2>1 DEF IInv, QueueRunsTasks
  <2>5. launching' \intersect Queued' = {}
    BY <1>1, <1>4 DEF IInv, QueueRunsTasks
  <2> QED BY <2>2, <2>3, <2>4, <2>5 DEF QueueRunsTasks
<1>8. BatchOwns'
  <2>1. ASSUME NEW b \in Batches, NEW x \in Members(b), Touched(x)' PROVE Touched(x)
    <3>1. x \in Tasks
      BY Types
    <3>2. CASE x = t
      BY <3>2 DEF Touched
    <3>3. CASE x # t
      BY <1>1, <1>2, <1>4, <2>1, <3>1, <3>3 DEF Touched
    <3> QED BY <3>2, <3>3
  <2> QED BY <1>2, <1>4, <1>5, <2>1 DEF IInv, BatchOwns
<1>9. AloneRuns'
  BY <1>1, <1>2, <1>4, <1>5 DEF IInv, AloneRuns
<1>10. WorkIsOwned'
  BY <1>2, <1>3, <1>4 DEF IInv, WorkIsOwned
<1>11. ResultsWritten'
  BY <1>2, <1>3, <1>4, Places DEF IInv, ResultsWritten
<1>12. ChainsInOrder'
  BY <1>1, <1>2, <1>4, Types, Groups DEF IInv, ChainsInOrder
<1>13. ResultUnlessThrown'
  BY <1>2, <1>4, Types, Groups DEF IInv, ResultUnlessThrown
<1> QED BY <1>3, <1>6, <1>7, <1>8, <1>9, <1>10, <1>11, <1>12, <1>13 DEF IInv

\* The microtask of a woken task.
LEMMA ResumeTaskStep ==
  ASSUME IInv, ResumeTask
  PROVE  IInv'
<1> DEFINE t == Head(woken)
<1>1. /\ Resume /\ UNCHANGED drainVars
      /\ Start(t)
      /\ UNCHANGED <<launching, result, resumed, batchPc>>
  BY DEF ResumeTask
<1>2. /\ QueueInv' /\ t \in Parked /\ settled' = settled
      /\ inFlight' = inFlight \union {t} /\ Parked' = Parked \ {t}
  BY <1>1, ResumeMoves DEF IInv
<1>3. t \in Tasks /\ outcome[t] = "none" /\ t \in Queued
  BY <1>2, Places DEF IInv, QueueRunsTasks, Queued
<1>4. /\ outcome' \in [Tasks -> {"none", "executing"} \union Outcomes]
      /\ \A x \in Tasks : outcome'[x] = IF x = t THEN "executing" ELSE outcome[x]
      /\ locks' \in [Files -> Tasks \union {NoTask}]
      /\ LocksHeldByExecuting'
  BY <1>1, <1>3, StartKeeps DEF IInv
<1>5. Queued' = Queued
  BY <1>2 DEF Queued
<1>6. \A b \in Batches : Alone[b] # NoTask => Alone[b] # t /\ Alone[b] \in Tasks
  BY <1>3, AloneIsFree, Types DEF IInv, AloneRuns
<1>7. DispatchTypeOK'
  BY <1>1, <1>2, <1>4, QueueTypes DEF IInv, DispatchTypeOK
<1>8. QueueRunsTasks'
  BY <1>1, <1>2, <1>3, <1>4, <1>5, Places DEF IInv, QueueRunsTasks, DispatchTypeOK
<1>9. BatchOwns'
  <2>1. ASSUME NEW b \in Batches, NEW x \in Members(b), Touched(x)' PROVE Touched(x)
    <3>1. x \in Tasks
      BY Types
    <3>2. CASE x = t
      BY <1>3, <3>2 DEF Touched
    <3>3. CASE x # t
      BY <1>1, <1>4, <1>5, <2>1, <3>1, <3>3 DEF Touched
    <3> QED BY <3>2, <3>3
  <2> QED BY <1>1, <1>4, <1>6, <2>1 DEF IInv, BatchOwns
<1>10. AloneRuns'
  BY <1>1, <1>4, <1>5, <1>6 DEF IInv, AloneRuns
<1>11. WorkIsOwned'
  BY <1>1, <1>2, <1>4 DEF IInv, WorkIsOwned
<1>12. ResultsWritten'
  BY <1>1, <1>2, <1>4, Places DEF IInv, ResultsWritten
<1>13. ChainsInOrder'
  BY <1>1, <1>4, <1>5, Types, Groups DEF IInv, ChainsInOrder
<1>14. ResultUnlessThrown'
  BY <1>1, <1>3, <1>4, Types, Groups DEF IInv, ResultUnlessThrown
<1> QED BY <1>2, <1>4, <1>7, <1>8, <1>9, <1>10, <1>11, <1>12, <1>13, <1>14 DEF IInv

\* executeTask resolves or throws.
LEMMA TaskSettlesStep ==
  ASSUME IInv, NEW t \in Tasks, TaskSettles(t)
  PROVE  IInv'
<1>1. PICK o \in Outcomes :
        /\ outcome' = [outcome EXCEPT ![t] = o]
        /\ result' = IF t \in inFlight /\ o # "threw" THEN [result EXCEPT ![t] = o] ELSE result
  BY DEF TaskSettles
<1>2. /\ outcome[t] = "executing" /\ locks' = Released(t)
      /\ UNCHANGED vars
      /\ UNCHANGED <<active, waiting, woken, inFlight, settled, launching, resumed, batchPc>>
  BY DEF TaskSettles, vars
<1>3. QueueInv' /\ Parked' = Parked /\ Queued' = Queued
  BY <1>2, QueueStays DEF IInv
<1>4. /\ \A x \in Tasks : outcome'[x] = IF x = t THEN o ELSE outcome[x]
      /\ \A x \in Tasks : x # t => result'[x] = result[x]
      /\ \A x \in Tasks : result'[x] = "none" => result[x] = "none"
      /\ t \in inFlight /\ o # "threw" => result'[t] # "none"
      /\ t \notin inFlight => result' = result
  BY <1>1 DEF IInv, DispatchTypeOK, Outcomes
<1>5. /\ t \notin Parked /\ t \notin launching /\ t \notin settled /\ t \notin resumed
  <2>1. t \notin Parked /\ t \notin launching /\ t \notin settled
    BY <1>2 DEF IInv, QueueRunsTasks, Outcomes
  <2>2. t \notin resumed
    BY <1>2, <2>1, AloneIsFree, Types DEF IInv, WorkIsOwned, AloneRuns, Outcomes
  <2> QED BY <2>1, <2>2
<1>6. DispatchTypeOK'
  <2>1. locks' \in [Files -> Tasks \union {NoTask}]
    BY <1>2 DEF IInv, DispatchTypeOK, Released
  <2>2. /\ outcome' \in [Tasks -> {"none", "executing"} \union Outcomes]
        /\ result' \in [Tasks -> {"none", "completed", "failed", "aborted"}]
    BY <1>1 DEF IInv, DispatchTypeOK, Outcomes
  <2> QED BY <1>2, <1>3, <2>1, <2>2, QueueTypes DEF IInv, DispatchTypeOK
<1>7. QueueRunsTasks'
  BY <1>2, <1>3, <1>4, <1>5, Places DEF IInv, QueueRunsTasks, DispatchTypeOK, Outcomes
<1>8. BatchOwns'
  <2>1. \A x \in Tasks : Touched(x)' <=> Touched(x)
    BY <1>2, <1>3, <1>4 DEF Touched, Outcomes
  <2> QED BY <1>2, <1>4, <2>1, AloneIsFree, Types DEF IInv, BatchOwns
<1>9. AloneRuns'
  <2>1. ASSUME NEW b \in Batches, Alone[b] = t, t # NoTask
        PROVE  batchPc[b] \notin {"running", "returned", "threw"}
    BY <1>2, <2>1 DEF IInv, AloneRuns, Outcomes
  <2> QED BY <1>2, <1>3, <1>4, <2>1, AloneIsFree, Types DEF IInv, AloneRuns, Outcomes
<1>10. WorkIsOwned'
  BY <1>2, <1>4 DEF IInv, WorkIsOwned
<1>11. ResultsWritten'
  BY <1>2, <1>4, <1>5, Places DEF IInv, ResultsWritten, Outcomes
<1>12. ChainsInOrder'
  BY <1>2, <1>3, <1>4, <1>5, Types, Groups DEF IInv, ChainsInOrder
<1>13. LocksHeldByExecuting'
  BY <1>2, <1>4 DEF IInv, LocksHeldByExecuting, Released, DispatchTypeOK
<1>14. ResultUnlessThrown'
  BY <1>2, <1>4, Types, Groups DEF IInv, ResultUnlessThrown
<1> QED BY <1>3, <1>6, <1>7, <1>8, <1>9, <1>10, <1>11, <1>12, <1>13, <1>14 DEF IInv

\* The queue's finally-callback.
LEMMA GiveSlotBackStep ==
  ASSUME IInv, NEW t \in Tasks, GiveSlotBack(t)
  PROVE  IInv'
<1>1. /\ outcome[t] \in Outcomes /\ Finally(t) /\ UNCHANGED drainVars
      /\ UNCHANGED <<launching, outcome, result, locks, resumed, batchPc>>
  BY DEF GiveSlotBack
<1>2. /\ QueueInv' /\ t \in inFlight
      /\ inFlight' = inFlight \ {t} /\ settled' = settled \union {t} /\ Parked' = Parked
  BY <1>1, FinallyMoves DEF IInv
<1>3. Queued' = Queued
  BY <1>2 DEF Queued
<1>4. DispatchTypeOK'
  BY <1>1, <1>2, QueueTypes DEF IInv, DispatchTypeOK
<1>5. QueueRunsTasks' /\ WorkIsOwned' /\ ResultsWritten'
  BY <1>1, <1>2, <1>3 DEF IInv, QueueRunsTasks, WorkIsOwned, ResultsWritten
<1>6. BatchOwns'
  BY <1>1, <1>3 DEF IInv, BatchOwns, Touched
<1>7. AloneRuns' /\ ChainsInOrder'
  BY <1>1, <1>3 DEF IInv, AloneRuns, ChainsInOrder
<1>8. LocksHeldByExecuting' /\ ResultUnlessThrown'
  BY <1>1 DEF IInv, LocksHeldByExecuting, ResultUnlessThrown
<1> QED BY <1>2, <1>4, <1>5, <1>6, <1>7, <1>8 DEF IInv

\* The chain of a settled task goes on or ends.
LEMMA ChainContinuesStep ==
  ASSUME IInv, NEW t \in Tasks, ChainContinues(t)
  PROVE  IInv'
<1>1. /\ t \in settled /\ t \notin resumed /\ resumed' = resumed \union {t}
      /\ UNCHANGED <<launching, result, batchPc>>
  BY DEF ChainContinues
<1>2. t \in Queued /\ outcome[t] \in Outcomes
  BY <1>1 DEF IInv, QueueRunsTasks, Queued
<1>3. \A b \in Batches : Alone[b] # NoTask =>
        Alone[b] # t /\ Alone[b] \in Members(b) /\ Alone[b] \in Tasks
  BY <1>2, AloneIsFree, Types DEF IInv, AloneRuns
<1>4. CASE UNCHANGED <<vars, outcome, locks>>
  <2>1. UNCHANGED vars /\ UNCHANGED <<active, waiting, woken, inFlight, settled, outcome, locks>>
    BY <1>4 DEF vars
  <2>2. QueueInv' /\ Parked' = Parked /\ Queued' = Queued
    BY <2>1, QueueStays DEF IInv
  <2>3. DispatchTypeOK'
    BY <1>1, <2>1, <2>2, QueueTypes DEF IInv, DispatchTypeOK
  <2>4. QueueRunsTasks' /\ WorkIsOwned' /\ ResultsWritten'
    BY <1>1, <2>1, <2>2 DEF IInv, QueueRunsTasks, WorkIsOwned, ResultsWritten
  <2>5. BatchOwns'
    <3>1. \A x \in Tasks : Touched(x)' => Touched(x)
      BY <1>1, <1>2, <2>1, <2>2 DEF Touched
    <3> QED BY <1>1, <2>1, <3>1, Types DEF IInv, BatchOwns
  <2>6. AloneRuns'
    BY <1>1, <1>3, <2>1, <2>2 DEF IInv, AloneRuns
  <2>7. ChainsInOrder'
    BY <1>1, <2>1, <2>2 DEF IInv, ChainsInOrder
  <2>8. LocksHeldByExecuting' /\ ResultUnlessThrown'
    BY <1>1, <2>1 DEF IInv, LocksHeldByExecuting, ResultUnlessThrown
  <2> QED BY <2>2, <2>3, <2>4, <2>5, <2>6, <2>7, <2>8 DEF IInv
<1>5. CASE outcome[t] # "threw" /\ Successor[t] # {}
  <2>1. PICK u \in Successor[t] : CallQueue(u)
    BY <1>5 DEF ChainContinues
  <2>2. PICK b \in Batches : t \in Members(b)
    BY <2>1 DEF Successor
  <2>3. /\ u \in Group[b][t] /\ u # t /\ Before(b, t, u)
        /\ \A v \in Group[b][u] : Before(b, v, u) => v = t \/ Before(b, v, t)
        /\ u \in Members(b) /\ u \in Tasks
        /\ t \in Group[b][u] /\ Group[b][u] \subseteq Group[b][t]
    BY <2>1, <2>2, Chains, Groups, Types
  <2>4. u \notin Queued
    BY <2>1 DEF CallQueue, Enqueue, Uncalled, ToSet, Queued, Parked
  <2>5. \A c \in Batches : Alone[c] # NoTask => Alone[c] # u
    BY <1>3, <2>2, <2>3, AloneIsFree, Types
  <2>6. outcome[u] = "none"
    <3>1. u # NoTask
      BY <2>3, Types
    <3> QED BY <2>3, <2>4, <2>5, <3>1 DEF IInv, WorkIsOwned, Queued
  <2>7. /\ QueueInv'
        /\ settled' = settled
        /\ \/ /\ inFlight' = inFlight \union {u}
              /\ Parked' = Parked
              /\ \A x \in Tasks : outcome'[x] = IF x = u THEN "executing" ELSE outcome[x]
           \/ /\ inFlight' = inFlight
              /\ Parked' = Parked \union {u}
              /\ \A x \in Tasks : outcome'[x] = outcome[x]
        /\ outcome' \in [Tasks -> {"none", "executing"} \union Outcomes]
        /\ locks' \in [Files -> Tasks \union {NoTask}]
        /\ LocksHeldByExecuting'
    BY <2>1, <2>3, <2>6, CallQueueMoves DEF IInv
  <2>8. /\ Queued' = Queued \union {u}
        /\ \A x \in Tasks : x # u => outcome'[x] = outcome[x]
        /\ outcome'[u] \in {"none", "executing"}
    BY <2>3, <2>6, <2>7 DEF Queued
  <2>9. u \notin launching
    BY <2>1 DEF ChainContinues
  <2>10. DispatchTypeOK'
    BY <1>1, <2>7, QueueTypes DEF IInv, DispatchTypeOK
  <2>11. QueueRunsTasks'
    <3>1. /\ Parked \subseteq Tasks /\ inFlight \subseteq Tasks /\ settled \subseteq Tasks
          /\ u \notin Parked /\ u \notin inFlight /\ u \notin settled
      BY <2>4, Places DEF IInv, Queued
    <3>2. launching = {} /\ launching' = {}
      BY <1>1 DEF ChainContinues
    <3>3. \A x \in Parked' : outcome'[x] = "none"
      <4> SUFFICES ASSUME NEW x \in Parked' PROVE outcome'[x] = "none"
        OBVIOUS
      <4>1. CASE x = u
        <5>1. inFlight' = inFlight
          BY <2>7, <3>1, <4>1
        <5> QED BY <2>3, <2>6, <2>7, <3>1, <4>1, <5>1
      <4>2. CASE x # u
        <5>1. x \in Parked
          BY <2>7, <4>2
        <5> QED BY <2>8, <3>1, <4>2, <5>1 DEF IInv, QueueRunsTasks
      <4> QED BY <4>1, <4>2
    <3>4. \A x \in inFlight' : outcome'[x] # "none"
      <4> SUFFICES ASSUME NEW x \in inFlight' PROVE outcome'[x] # "none"
        OBVIOUS
      <4>1. CASE x = u
        BY <2>3, <2>7, <3>1, <4>1
      <4>2. CASE x # u
        <5>1. x \in inFlight
          BY <2>7, <4>2
        <5> QED BY <2>8, <3>1, <4>2, <5>1 DEF IInv, QueueRunsTasks
      <4> QED BY <4>1, <4>2
    <3>5. \A x \in settled' : outcome'[x] \in Outcomes
      BY <2>7, <2>8, <3>1 DEF IInv, QueueRunsTasks
    <3> QED BY <3>2, <3>3, <3>4, <3>5 DEF QueueRunsTasks
  <2>12. BatchOwns'
    <3> SUFFICES ASSUME NEW c \in Batches, NEW x \in Members(c), Touched(x)'
                 PROVE  /\ batchPc'[c] # "new"
                        /\ x # Alone[c] => /\ batchPc'[c] \in {"running", "returned"}
                                           /\ Alone[c] # NoTask => outcome'[Alone[c]] = "completed"
      BY DEF BatchOwns
    <3>1. x \in Tasks
      BY Types
    <3>2. PICK y \in Members(c) : Touched(y) /\ (x # Alone[c] => y # Alone[c])
      <4>1. CASE x = u
        <5>1. c = b
          BY <2>3, <4>1, Types
        <5>2. Touched(t) /\ t # Alone[c]
          <6>1. t # NoTask
            BY Types
          <6> QED BY <1>2, <1>3, <6>1 DEF Touched
        <5> QED BY <2>2, <5>1, <5>2
      <4>2. CASE x # u
        <5>1. Touched(x)
          BY <1>1, <1>2, <2>8, <3>1, <4>2 DEF Touched
        <5> QED BY <5>1
      <4> QED BY <4>1, <4>2
    <3> QED BY <1>1, <1>3, <2>5, <2>8, <3>2 DEF IInv, BatchOwns
  <2>13. AloneRuns'
    BY <1>1, <1>3, <2>5, <2>8 DEF IInv, AloneRuns
  <2>14. WorkIsOwned'
    BY <1>1, <2>7, <2>8 DEF IInv, WorkIsOwned
  <2>15. ResultsWritten'
    BY <1>1, <2>7, <2>8, Places DEF IInv, ResultsWritten
  <2>16. ChainsInOrder'
    <3> SUFFICES ASSUME NEW c \in Batches, NEW x \in Members(c), x \in Queued' \union launching,
                        NEW v \in Group[c][x], Before(c, v, x)
                 PROVE  v \in resumed \union {t} /\ outcome'[v] # "threw"
      BY <1>1 DEF ChainsInOrder
    <3>1. v \in Tasks
      BY Groups, Types
    <3>2. CASE x = u
      <4>1. c = b
        BY <2>3, <3>2, Types
      <4>2. v = t \/ Before(b, v, t)
        BY <2>3, <3>2, <4>1
      <4>3. v \in resumed \union {t} /\ outcome[v] # "threw"
        BY <1>2, <1>5, <2>2, <2>3, <3>2, <4>1, <4>2 DEF IInv, ChainsInOrder
      <4> QED BY <2>8, <3>1, <4>3
    <3>3. CASE x # u
      BY <2>8, <3>1, <3>3 DEF IInv, ChainsInOrder
    <3> QED BY <3>2, <3>3
  <2>17. ResultUnlessThrown'
    BY <1>1, <2>6, <2>8, Types, Groups DEF IInv, ResultUnlessThrown
  <2> QED BY <2>7, <2>10, <2>11, <2>12, <2>13, <2>14, <2>15, <2>16, <2>17 DEF IInv
<1> QED BY <1>4, <1>5 DEF ChainContinues

\* executeSingle has returned to dispatch().
LEMMA AloneReturnsStep ==
  ASSUME IInv, NEW b \in Batches, AloneReturns(b)
  PROVE  IInv'
<1> DEFINE a == Alone[b]
<1>1. /\ batchPc[b] = "alone" /\ outcome[a] \in Outcomes /\ launching = {}
      /\ resumed' = resumed \union {a}
      /\ UNCHANGED vars
      /\ UNCHANGED <<active, waiting, woken, inFlight, settled, outcome, locks>>
  BY DEF AloneReturns, vars
<1>2. a # NoTask /\ a \in Members(b) /\ a \in Tasks /\ a \notin Queued
  BY <1>1, AloneIsFree, Types DEF IInv, AloneRuns
<1>3. QueueInv' /\ Parked' = Parked /\ Queued' = Queued
  BY <1>1, QueueStays DEF IInv
<1>4. \A c \in Batches : \A t \in Members(b) : t \in Members(c) => c = b
  BY Types
<1>5. \A c \in Batches : Alone[c] # NoTask => Alone[c] \in Members(c) /\ Alone[c] \in Tasks
  BY AloneIsFree, Types
<1>6. \A c \in Batches : c # b /\ Alone[c] # NoTask => Alone[c] # a
  BY <1>2, <1>4, <1>5
<1>7. \A t \in Members(b) : t # a => ~Touched(t)
  BY <1>1 DEF IInv, BatchOwns
<1>8. Touched(a)
  BY <1>1 DEF Touched, Outcomes
<1>9. LocksHeldByExecuting'
  BY <1>1 DEF IInv, LocksHeldByExecuting
<1>10. PICK p : p = (IF outcome[a] = "threw" THEN "threw"
                     ELSE IF CanaryPassed(b) THEN "running" ELSE "returned")
  OBVIOUS
<1>11. batchPc' = [batchPc EXCEPT ![b] = p]
  BY <1>10 DEF AloneReturns, CanaryPassed
<1>12. \A c \in Batches : batchPc'[c] = IF c = b THEN p ELSE batchPc[c]
  BY <1>11 DEF IInv, DispatchTypeOK
<1>13. WorkIsOwned'
  BY <1>1, <1>2, <1>10, <1>12 DEF IInv, WorkIsOwned
<1>14. CASE outcome[a] = "threw"
  <2>1. p = "threw" /\ UNCHANGED <<result, launching>>
    BY <1>10, <1>14 DEF AloneReturns, CanaryPassed
  <2>2. DispatchTypeOK'
    BY <1>1, <1>2, <1>3, <1>11, <2>1, QueueTypes DEF IInv, DispatchTypeOK
  <2>3. QueueRunsTasks' /\ ResultsWritten'
    BY <1>1, <1>3, <2>1 DEF IInv, QueueRunsTasks, ResultsWritten
  <2>4. BatchOwns'
    <3>1. \A t \in Tasks : Touched(t)' => Touched(t)
      BY <1>1, <1>3, <1>8, <2>1 DEF Touched
    <3> QED BY <1>1, <1>7, <1>12, <2>1, <3>1, Types DEF IInv, BatchOwns
  <2>5. AloneRuns'
    BY <1>1, <1>3, <1>5, <1>6, <1>12, <1>14, <2>1 DEF IInv, AloneRuns, Outcomes
  <2>6. ChainsInOrder'
    BY <1>1, <1>3, <2>1 DEF IInv, ChainsInOrder
  <2>7. ResultUnlessThrown'
    BY <1>1, <1>12, <2>1 DEF IInv, ResultUnlessThrown
  <2> QED BY <1>3, <1>9, <1>13, <2>2, <2>3, <2>4, <2>5, <2>6, <2>7 DEF IInv
<1>15. CASE outcome[a] = "completed"
  <2>1. /\ p = "running" /\ launching' = Heads[b] \ {a}
        /\ result' = [result EXCEPT ![a] = outcome[a]]
    BY <1>10, <1>15 DEF AloneReturns, CanaryPassed
  <2>2. /\ launching' \subseteq Members(b) /\ Members(b) \subseteq Tasks /\ a \notin launching'
        /\ \A t \in launching' : t \notin Queued /\ outcome[t] = "none"
    BY <1>7, <2>1, Types DEF Heads, Touched
  <2>3. /\ \A x \in Tasks : x # a => result'[x] = result[x]
        /\ result'[a] = "completed"
    BY <1>2, <1>15, <2>1 DEF IInv, DispatchTypeOK
  <2>4. DispatchTypeOK'
    <3>1. result' \in [Tasks -> {"none", "completed", "failed", "aborted"}]
      BY <1>15, <2>1 DEF IInv, DispatchTypeOK
    <3>2. batchPc' \in [Batches -> {"new", "alone", "running", "returned", "threw"}]
      BY <1>11, <2>1 DEF IInv, DispatchTypeOK
    <3> QED BY <1>1, <1>2, <1>3, <2>2, <3>1, <3>2, QueueTypes DEF IInv, DispatchTypeOK
  <2>5. QueueRunsTasks'
    BY <1>1, <1>3, <2>2 DEF IInv, QueueRunsTasks
  <2>6. ResultsWritten'
    BY <1>1, <1>2, <2>3, Places DEF IInv, ResultsWritten, Queued
  <2>7. BatchOwns'
    <3> SUFFICES ASSUME NEW c \in Batches, NEW t \in Members(c), Touched(t)'
                 PROVE  /\ batchPc'[c] # "new"
                        /\ t # Alone[c] => /\ batchPc'[c] \in {"running", "returned"}
                                           /\ Alone[c] # NoTask => outcome[Alone[c]] = "completed"
      BY <1>1 DEF BatchOwns
    <3>1. CASE c = b
      BY <1>12, <1>15, <2>1, <3>1
    <3>2. CASE c # b
      <4>1. t # a /\ t \notin launching'
        BY <1>2, <1>4, <2>2, <3>2
      <4>2. Touched(t)
        BY <1>1, <1>3, <4>1 DEF Touched
      <4> QED BY <1>12, <3>2, <4>2 DEF IInv, BatchOwns
    <3> QED BY <3>1, <3>2
  <2>8. AloneRuns'
    <3>1. ASSUME NEW c \in Batches, Alone[c] # NoTask PROVE Alone[c] \notin launching'
      BY <1>4, <1>5, <2>2, <3>1
    <3> QED BY <1>1, <1>2, <1>3, <1>5, <1>6, <1>12, <1>15, <2>1, <2>3, <3>1
            DEF IInv, AloneRuns, Outcomes
  <2>9. ChainsInOrder'
    <3> SUFFICES ASSUME NEW c \in Batches, NEW u \in Members(c), u \in Queued \union launching',
                        NEW t \in Group[c][u], Before(c, t, u)
                 PROVE  t \in resumed /\ outcome[t] # "threw"
      BY <1>1, <1>3 DEF ChainsInOrder
    <3>1. CASE u \in Queued
      BY <3>1 DEF IInv, ChainsInOrder
    <3>2. CASE u \in launching'
      BY <1>4, <2>1, <2>2, <3>2, Chains
    <3> QED BY <3>1, <3>2
  <2>10. ResultUnlessThrown'
    BY <1>1, <1>12, <2>1, <2>3, Types DEF IInv, ResultUnlessThrown
  <2> QED BY <1>3, <1>9, <1>13, <2>4, <2>5, <2>6, <2>7, <2>8, <2>9, <2>10 DEF IInv
<1>16. CASE outcome[a] = "failed"
  <2>1. /\ p = "returned" /\ launching' = launching
        /\ result' = [u \in Tasks |-> IF u = a THEN outcome[a]
                                      ELSE IF u \in Members(b) THEN "aborted" ELSE result[u]]
    BY <1>10, <1>16 DEF AloneReturns, CanaryPassed
  <2>2. /\ \A x \in Tasks : result'[x] = "none" => result[x] = "none"
        /\ \A x \in Members(b) : result'[x] # "none"
    BY <1>16, <2>1, Types
  <2>3. DispatchTypeOK'
    <3>1. result' \in [Tasks -> {"none", "completed", "failed", "aborted"}]
      BY <1>16, <2>1 DEF IInv, DispatchTypeOK
    <3>2. batchPc' \in [Batches -> {"new", "alone", "running", "returned", "threw"}]
      BY <1>11, <2>1 DEF IInv, DispatchTypeOK
    <3> QED BY <1>1, <1>2, <1>3, <2>1, <3>1, <3>2, QueueTypes DEF IInv, DispatchTypeOK
  <2>4. QueueRunsTasks'
    BY <1>1, <1>3, <2>1 DEF IInv, QueueRunsTasks
  <2>5. ResultsWritten'
    BY <1>1, <2>2, Places DEF IInv, ResultsWritten
  <2>6. BatchOwns'
    <3>1. \A t \in Tasks : Touched(t)' => Touched(t)
      BY <1>1, <1>3, <1>8, <2>1 DEF Touched
    <3> QED BY <1>1, <1>7, <1>12, <2>1, <3>1, Types DEF IInv, BatchOwns
  <2>7. AloneRuns'
    BY <1>1, <1>2, <1>3, <1>5, <1>6, <1>12, <1>16, <2>1, <2>2 DEF IInv, AloneRuns, Outcomes
  <2>8. ChainsInOrder'
    BY <1>1, <1>3, <2>1 DEF IInv, ChainsInOrder
  <2>9. ResultUnlessThrown'
    BY <1>1, <1>12, <2>1, <2>2, Types DEF IInv, ResultUnlessThrown
  <2> QED BY <1>3, <1>9, <1>13, <2>3, <2>4, <2>5, <2>6, <2>7, <2>8, <2>9 DEF IInv
<1> QED BY <1>1, <1>14, <1>15, <1>16 DEF Outcomes

\* dispatch() returns.
LEMMA BatchReturnsStep ==
  ASSUME IInv, NEW b \in Batches, BatchReturns(b)
  PROVE  IInv'
<1>1. /\ batchPc[b] = "running"
      /\ \A t \in Members(b) : t \in resumed \/ Dropped(b, t)
      /\ batchPc' = [batchPc EXCEPT ![b] = "returned"]
      /\ UNCHANGED vars
      /\ UNCHANGED <<active, waiting, woken, inFlight, settled>>
      /\ UNCHANGED <<launching, outcome, result, locks, resumed>>
  BY DEF BatchReturns, vars
<1>2. QueueInv' /\ Parked' = Parked /\ Queued' = Queued
  BY <1>1, QueueStays DEF IInv
<1>3. \A c \in Batches : batchPc'[c] = IF c = b THEN "returned" ELSE batchPc[c]
  BY <1>1 DEF IInv, DispatchTypeOK
<1>4. \A c \in Batches : \A t \in Members(b) :
        t = Alone[c] => /\ c = b /\ t # NoTask /\ outcome[t] = "completed" /\ result[t] # "none"
                        /\ Group[b][t] = {t}
  BY <1>1, AloneIsFree, Types DEF IInv, AloneRuns
<1>5. \A t \in Members(b) : t \in resumed /\ result[t] = "none" => outcome[t] = "threw"
  BY <1>4, Types DEF IInv, WorkIsOwned, QueueRunsTasks, ResultsWritten, Outcomes
<1>6. ASSUME NEW t \in Members(b), result[t] = "none"
      PROVE  \E u \in Group[b][t] : outcome[u] = "threw" /\ (u = t \/ Before(b, u, t))
  <2>1. CASE t \in resumed
    BY <1>5, <1>6, <2>1, Groups
  <2>2. CASE Dropped(b, t)
    <3>1. PICK u \in Group[b][t] : u \in resumed /\ outcome[u] = "threw"
      BY <2>2 DEF Dropped
    <3>2. u \in Members(b) /\ u \in Tasks /\ t \in Group[b][u]
      BY <3>1, Groups, Types
    <3>3. ~Before(b, t, u)
      <4> SUFFICES ASSUME Before(b, t, u) PROVE FALSE
        OBVIOUS
      <4>1. u \in settled
        BY <1>4, <3>1, <3>2 DEF IInv, WorkIsOwned
      <4>2. t \in resumed /\ outcome[t] # "threw"
        BY <3>2, <4>1 DEF IInv, ChainsInOrder, Queued
      <4> QED BY <1>5, <1>6, <4>2
    <3> QED BY <3>1, <3>2, <3>3, Order
  <2> QED BY <1>1, <2>1, <2>2
<1>7. ResultUnlessThrown'
  BY <1>1, <1>3, <1>6 DEF IInv, ResultUnlessThrown
<1>8. DispatchTypeOK'
  BY <1>1, <1>2, QueueTypes DEF IInv, DispatchTypeOK
<1>9. QueueRunsTasks' /\ ResultsWritten' /\ ChainsInOrder' /\ LocksHeldByExecuting'
  BY <1>1, <1>2 DEF IInv, QueueRunsTasks, ResultsWritten, ChainsInOrder, LocksHeldByExecuting
<1>10. BatchOwns'
  BY <1>1, <1>2, <1>3 DEF IInv, BatchOwns, Touched
<1>11. AloneRuns'
  BY <1>1, <1>2, <1>3 DEF IInv, AloneRuns
<1>12. WorkIsOwned'
  BY <1>1, <1>3 DEF IInv, WorkIsOwned
<1> QED BY <1>2, <1>7, <1>8, <1>9, <1>10, <1>11, <1>12 DEF IInv

LEMMA StutterStep ==
  ASSUME IInv, UNCHANGED allVars
  PROVE  IInv'
<1>1. /\ UNCHANGED vars
      /\ UNCHANGED <<active, waiting, woken, inFlight, settled>>
      /\ UNCHANGED <<launching, outcome, result, locks, resumed, batchPc>>
  BY DEF allVars, vars, dispatchVars
<1>2. QueueInv' /\ Parked' = Parked /\ Queued' = Queued
  BY <1>1, QueueStays DEF IInv
<1>3. DispatchTypeOK'
  BY <1>1, <1>2, QueueTypes DEF IInv, DispatchTypeOK
<1>4. QueueRunsTasks' /\ ResultsWritten' /\ ChainsInOrder' /\ LocksHeldByExecuting'
  BY <1>1, <1>2 DEF IInv, QueueRunsTasks, ResultsWritten, ChainsInOrder, LocksHeldByExecuting
<1>5. BatchOwns' /\ AloneRuns' /\ WorkIsOwned' /\ ResultUnlessThrown'
  BY <1>1, <1>2 DEF IInv, BatchOwns, Touched, AloneRuns, WorkIsOwned, ResultUnlessThrown
<1> QED BY <1>2, <1>3, <1>4, <1>5 DEF IInv

-----------------------------------------------------------------------------
(* Theorems *)

\* Every reachable state of the dispatcher satisfies the inductive invariant.
THEOREM DispatcherInvariant == DispatchSpec => []IInv
<1>1. IInv /\ [DispatchNext]_allVars => IInv'
  BY DispatchStep, AloneReturnsStep, BatchReturnsStep, LaunchStep, ResumeTaskStep, TaskSettlesStep,
     GiveSlotBackStep, ChainContinuesStep, StutterStep DEF DispatchNext
<1> QED BY <1>1, InitIInv, PTL DEF DispatchSpec

\* The variables of the dispatcher, its queue included, keep their types.
THEOREM TypeCorrect == DispatchSpec => []DispatchTypeOK
<1>1. IInv => DispatchTypeOK
  BY DEF IInv
<1> QED BY <1>1, DispatcherInvariant, PTL

\* In every state that satisfies the invariant, a task that shares a file with
\* an earlier one of its batch has not started before that one left its result.
LEMMA OrderFollows == IInv => ConflictsRunInOrder
<1> SUFFICES ASSUME IInv, NEW b \in Batches, NEW t \in Members(b), NEW u \in Members(b),
                    Before(b, t, u), Conflict(t, u), outcome[u] # "none"
             PROVE  result[t] # "none"
  BY DEF ConflictsRunInOrder
<1>1. Conflict(u, t)
  BY DEF Conflict
<1>2. t \in Group[b][u] /\ u \in Group[b][t] /\ t # u /\ t \in Tasks /\ u \in Tasks
  BY <1>1, Groups, Order, Types
<1>3. \A c \in Batches : u # Alone[c] /\ t # Alone[c]
  BY <1>2, AloneIsFree, Types
<1>4. u \in Queued
  BY <1>2, <1>3 DEF IInv, WorkIsOwned, Queued
<1>5. t \in resumed /\ outcome[t] # "threw"
  BY <1>2, <1>4 DEF IInv, ChainsInOrder
<1>6. t \in settled
  BY <1>2, <1>3, <1>5 DEF IInv, WorkIsOwned
<1> QED BY <1>5, <1>6 DEF IInv, QueueRunsTasks, ResultsWritten, Outcomes

\* For any batches, files, canary options and limit of the queue: conflicting
\* tasks of a batch run in submission order, a canary lets its batch through
\* only when it completed, locks are held by executing tasks alone, and a
\* returned batch lacks a result only where its chain threw.
THEOREM BatchesAreSound == DispatchSpec => []BatchIsSound
<1>1. IInv => CanaryGuardsBatch
  BY Types DEF IInv, BatchOwns, CanaryGuardsBatch, Touched
<1>2. IInv => BatchIsSound
  BY <1>1, OrderFollows DEF IInv, BatchIsSound
<1> QED BY <1>2, DispatcherInvariant, PTL

-----------------------------------------------------------------------------
(* The dispatcher uses the queue as it is meant to be used *)

\* A step of the dispatcher is one step of the queue, or none.
LEMMA QueueStep ==
  ASSUME IInv, [DispatchNext]_allVars
  PROVE  [Next]_vars
<1>1. ASSUME NEW t \in Tasks, CallQueue(t)
      PROVE  Next
  BY <1>1 DEF CallQueue, Next
<1>2. ASSUME ResumeTask
      PROVE  Next
  BY <1>2 DEF ResumeTask, Next
<1>3. ASSUME NEW t \in Tasks, GiveSlotBack(t)
      PROVE  Next
  BY <1>3 DEF GiveSlotBack, Next
<1>4. \A t \in Tasks : Successor[t] \subseteq Tasks
  BY Types DEF Successor, Group
<1>5. ASSUME NEW t \in Tasks, ChainContinues(t)
      PROVE  Next \/ UNCHANGED vars
  BY <1>1, <1>4, <1>5 DEF ChainContinues
<1>6. ASSUME Launch
      PROVE  Next
  <2>1. launching \subseteq Tasks
    BY DEF IInv, DispatchTypeOK
  <2> QED BY <1>1, <1>6, <2>1 DEF Launch
<1>7. ASSUME NEW b \in Batches, Dispatch(b) \/ AloneReturns(b) \/ BatchReturns(b)
      PROVE  UNCHANGED vars
  BY <1>7 DEF Dispatch, AloneReturns, BatchReturns
<1>8. ASSUME NEW t \in Tasks, TaskSettles(t)
      PROVE  UNCHANGED vars
  BY <1>8 DEF TaskSettles
<1>9. UNCHANGED allVars => UNCHANGED vars
  BY DEF allVars
<1> QED BY <1>2, <1>3, <1>5, <1>6, <1>7, <1>8, <1>9 DEF DispatchNext

\* Whatever batches are dispatched, the dispatcher puts its queue through nothing
\* but what TaskQueue allows: it calls it at most once per task, and settles a
\* task in its callback alone.
THEOREM ImplementsQueue == DispatchSpec => Spec
<1>1. DispatchInit => Init
  BY DEF DispatchInit
<1>2. IInv /\ [DispatchNext]_allVars => [Next]_vars
  BY QueueStep
<1> QED BY <1>1, <1>2, DispatcherInvariant, PTL DEF DispatchSpec, Spec

\* So the dispatcher's tasks have the queue's promises: no parked one is overtaken
\* by a younger parked one, and while one is parked every slot is taken or
\* promised.
THEOREM TasksTakeTurns == DispatchSpec => NobodyIsPassedOver /\ []NoLostWakeup
  BY ImplementsQueue, NobodyPassedOver, WakeupsKept

=============================================================================
