--------------------------- MODULE AgentLoop_proofs ---------------------------
(***************************************************************************)
(* Proofs for AgentLoop: for any limits, budgets, batches and costs, every *)
(* call of a turn is answered once and to the turn that made it, a killed  *)
(* session starts nothing more, and the base pool is overdrawn by one      *)
(* charge at most.                                                         *)
(***************************************************************************)
EXTENDS AgentLoop, FiniteSetTheorems, WellFoundedInduction, SequenceTheorems, TLAPS

-----------------------------------------------------------------------------
(* The inductive invariant *)

UpMessage == [type : {"tool_calls", "done", "uncertain"}, id : Nat, calls : Seq(Kinds)]
DownMessage == [type : {"init", "tool_results", "terminate"}, id : Nat, calls : Seq(Nat)]

Handling == {"calls"} \union Running

\* The records and the messages, in full.
Shapes ==
    /\ budget \in [turns : 0..MaxTurns, spent : Nat, tools : 0..MaxToolCalls,
                   delegated : 0..Pool, reserved : Nat, consults : 0..MaxConsults]
    /\ worker \in [at : {"unborn", "boot", "think", "await", "exited"}, llm : 0..MaxTurns,
                   turns : Nat, compressed : Nat, calls : Seq(Kinds),
                   then : {"none", "done", "uncertain"}]
    /\ turn \in [type : {"none", "tool_calls", "done", "uncertain"}, id : Nat, calls : Seq(Kinds)]
    /\ results \in Seq(Nat)
    /\ up \in Seq(UpMessage)
    /\ down \in Seq(DownMessage)

\* A turn is received only while turns and tokens are left, and a peer is asked
\* only within the headroom.
BudgetAllows ==
    /\ phase \in {"receive", "turn"} => budget.turns < MaxTurns /\ budget.spent < Base
    /\ phase = "consulting" => CanConsult(budget)
    /\ worker.at = "await" => worker.llm < MaxTurns

\* A killed session has returned.
KillIsFinal == violations > Tolerance => phase \in Over

\* What may be in the pipes, by where the two processes are.
PipesAreInStep ==
    /\ Len(up) <= 1 /\ Len(down) <= 2
    /\ Len(down) = 2 => down[2].type = "terminate"
    /\ \A i \in DOMAIN down : down[i].type = "terminate" => phase \in {"shut"} \union Over
    /\ phase = "setup" => worker.at = "unborn"
    /\ worker.at = "unborn" => phase \in {"setup"} \union Over /\ up = <<>> /\ down = <<>>
    /\ phase = "init" => worker.at \in {"boot", "exited"} /\ up = <<>> /\ down = <<>>
    /\ phase \in {"receive", "close"} => Len(down) <= 1
    /\ phase = "receive" /\ up # <<>> => down = <<>>
    /\ phase \in {"turn"} \union Handling =>
          worker.at \in {"await", "exited"} /\ up = <<>> /\ down = <<>>
    /\ worker.at \in {"boot", "think"} => up = <<>>
    /\ worker.at = "boot" /\ down # <<>> => Head(down).type # "tool_results"
    /\ worker.at = "think" /\ down # <<>> => Head(down).type = "terminate"
    /\ worker.at = "await" /\ down # <<>> /\ Head(down).type = "tool_results" => up = <<>>

\* A turn on its way to the orchestrator, or in its hands, is the worker's last.
TurnIsTheWorkers ==
    /\ up # <<>> /\ Head(up).type = "tool_calls" =>
          /\ worker.at \in {"await", "exited"}
          /\ Head(up).id = worker.turns /\ Head(up).calls = worker.calls
    /\ phase = "turn" /\ turn.type = "tool_calls" =>
          turn.id = worker.turns /\ turn.calls = worker.calls
    /\ phase \in Handling =>
          turn.id = worker.turns /\ Len(turn.calls) <= Len(worker.calls)

\* The calls answered so far: those beyond the limits, and the first k of the others.
AnsweredUpTo(k) == ToSet(results) = (1..k) \union (Len(turn.calls) + 1 .. Len(worker.calls))

AnswersInOrder ==
    phase \in Handling =>
        /\ IsInjective(results)
        /\ \E k \in 0..Len(turn.calls) :
              AnsweredUpTo(k) /\ (phase \in Running => k < Len(turn.calls))

IInv ==
    /\ TypeOKAgent
    /\ Shapes
    /\ BudgetAllows
    /\ KillIsFinal
    /\ PipesAreInStep
    /\ TurnIsTheWorkers
    /\ AnswersInOrder
    /\ ResultsAnswerTheTurn
    /\ OverdraftIsBounded

-----------------------------------------------------------------------------
(* Minima and maxima *)

LEMMA MinOfTwo ==
  ASSUME NEW a \in Int, NEW b \in Int
  PROVE  Min({a, b}) \in {a, b} /\ Min({a, b}) <= a /\ Min({a, b}) <= b
<1>1. \E x \in {a, b} : \A y \in {a, b} : x <= y
  OBVIOUS
<1> QED BY <1>1 DEF Min

LEMMA MaxOfTwo ==
  ASSUME NEW a \in Int, NEW b \in Int
  PROVE  Max({a, b}) \in {a, b} /\ Max({a, b}) >= a /\ Max({a, b}) >= b
<1>1. \E x \in {a, b} : \A y \in {a, b} : x >= y
  OBVIOUS
<1> QED BY <1>1 DEF Max

LEMMA MinOfThree ==
  ASSUME NEW a \in Int, NEW b \in Int, NEW c \in Int
  PROVE  Min({a, b, c}) \in {a, b, c} /\ Min({a, b, c}) <= a /\ Min({a, b, c}) <= c
<1>1. CASE a <= b /\ a <= c
  <2>1. \A y \in {a, b, c} : a <= y
    BY <1>1
  <2> QED BY <2>1 DEF Min
<1>2. CASE b <= a /\ b <= c
  <2>1. \A y \in {a, b, c} : b <= y
    BY <1>2
  <2> QED BY <2>1 DEF Min
<1>3. CASE c <= a /\ c <= b
  <2>1. \A y \in {a, b, c} : c <= y
    BY <1>3
  <2> QED BY <2>1 DEF Min
<1> QED BY <1>1, <1>2, <1>3

\* A finite set of charges has a largest one.
LEMMA CostsAreBounded == Max(Costs) \in Nat /\ \A c \in Costs : c <= Max(Costs)
<1> DEFINE From(x) == {y \in Costs : y >= x}
           Froms == {From(x) : x \in Costs}
<1>1. Froms \subseteq FiniteSubsetsOf(Costs) /\ Froms # {}
  <2>1. IsFiniteSet(Costs)
    BY AgentAssumption
  <2>2. \A x \in Costs : From(x) \in SUBSET Costs /\ IsFiniteSet(From(x))
    BY <2>1, FS_Subset
  <2> QED BY <2>2, AgentAssumption DEF FiniteSubsetsOf
<1> HIDE DEF Froms
<1>2. PICK f \in Froms : \A g \in Froms : <<g, f>> \notin StrictSubsetOrdering(Costs)
  BY <1>1, FS_StrictSubsetOrderingWellFounded, WFMin
<1> USE DEF Froms
<1>3. PICK x \in Costs : f = From(x)
  OBVIOUS
<1>4. ASSUME NEW y \in Costs, ~(x >= y) PROVE FALSE
  <2>1. x \in Nat /\ y \in Nat /\ y > x
    BY <1>4, AgentAssumption
  <2>2. \A z \in Costs : z \in Nat
    BY AgentAssumption
  <2>3. \A z \in Costs : z >= y => z >= x
    BY <2>1, <2>2
  <2>4. x >= x /\ ~(x >= y)
    BY <2>1
  <2>5. From(y) \subseteq From(x) /\ x \in From(x) /\ x \notin From(y)
    BY <2>3, <2>4
  <2>6. <<From(y), From(x)>> \in StrictSubsetOrdering(Costs)
    BY <2>5 DEF StrictSubsetOrdering
  <2> QED BY <1>2, <1>3, <2>6
<1>5. Max(Costs) \in Costs /\ \A c \in Costs : Max(Costs) >= c
  BY <1>4 DEF Max
<1>6. \A c \in Costs : c \in Nat
  BY AgentAssumption
<1> QED BY <1>5, <1>6

\* What the limits mean in terms of their parts.
LEMMA AllowedIsWithin ==
  ASSUME Shapes, NEW calls \in Seq(Kinds)
  PROVE  /\ Allowed(calls) \in 0..Len(calls)
         /\ budget.tools + Allowed(calls) \in 0..MaxToolCalls
<1>1. MaxToolCalls \in Nat /\ MaxPerTurn \in Nat /\ budget.tools \in 0..MaxToolCalls /\ Len(calls) \in Nat
  BY AgentAssumption DEF Shapes
<1>2. PICK left : left = MaxToolCalls - budget.tools
  OBVIOUS
<1>3. left \in Nat /\ budget.tools + left = MaxToolCalls
  BY <1>1, <1>2
<1>4. Max({0, left}) = left
  <2>1. 0 \in Int /\ left \in Int
    BY <1>3
  <2>2. Max({0, left}) \in {0, left} /\ Max({0, left}) >= left
    BY <2>1, MaxOfTwo, Zenon
  <2> QED BY <1>3, <2>2
<1>5. Allowed(calls) = Min({Len(calls), MaxPerTurn, left})
  BY <1>2, <1>4 DEF Allowed
<1>6. /\ Allowed(calls) \in {Len(calls), MaxPerTurn, left}
      /\ Allowed(calls) <= Len(calls) /\ Allowed(calls) <= left
  <2>1. Len(calls) \in Int /\ MaxPerTurn \in Int /\ left \in Int
    BY <1>1, <1>3
  <2>2. PICK m : m = Min({Len(calls), MaxPerTurn, left})
    OBVIOUS
  <2>3. m \in {Len(calls), MaxPerTurn, left} /\ m <= Len(calls) /\ m <= left
    BY <2>1, <2>2, MinOfThree, Zenon
  <2> QED BY <1>5, <2>2, <2>3
<1> QED BY <1>1, <1>3, <1>6

\* The overdraft that is allowed, after a turn and after a consultation.
LEMMA OverdraftIsWithin ==
  ASSUME NEW c \in Costs, NEW n \in Nat
  PROVE  /\ n < Base => n + c <= Base - 1 + Max({Max(Costs), Max(Costs) - Headroom + 1})
         /\ Base - n >= Headroom =>
               n + c <= Base - 1 + Max({Max(Costs), Max(Costs) - Headroom + 1})
<1>1. c \in Nat /\ Base \in Nat /\ Headroom \in Nat
  BY AgentAssumption
<1>2. Max(Costs) \in Nat /\ c <= Max(Costs)
  BY CostsAreBounded
<1>3. PICK m : m = Max({Max(Costs), Max(Costs) - Headroom + 1})
  OBVIOUS
<1>4. m \in Int /\ m >= Max(Costs) /\ m >= Max(Costs) - Headroom + 1
  BY <1>1, <1>2, <1>3, MaxOfTwo
<1> QED BY <1>1, <1>2, <1>3, <1>4

-----------------------------------------------------------------------------
(* The answers of a turn *)

\* With the first k calls answered, the next one is k + 1.
LEMMA AtIsNext ==
  ASSUME Shapes, NEW k \in 0..Len(turn.calls), AnsweredUpTo(k)
  PROVE  At = k + 1
<1>1. Len(turn.calls) \in Nat /\ results \in Seq(Nat) /\ Len(results) \in Nat
  BY DEF Shapes
<1>2. \A i \in 1..Len(turn.calls) : Contains(results, i) <=> i \in ToSet(results)
  BY <1>1 DEF Contains, ToSet
<1>3. \A i \in 1..Len(turn.calls) : i \in ToSet(results) <=> i \in 1..k
  BY <1>1 DEF AnsweredUpTo
<1>4. {i \in 1..Len(turn.calls) : Contains(results, i)} = 1..k
  BY <1>1, <1>2, <1>3
<1>5. Cardinality(1..k) = k
  BY FS_Interval
<1>6. At = 1 + Cardinality(1..k)
  BY <1>4, Zenon DEF At
<1> QED BY <1>5, <1>6

\* Answering the next call keeps the answers in order.
LEMMA AnswerKeepsOrder ==
  ASSUME IInv, phase \in Handling, At <= Len(turn.calls), Answered,
         UNCHANGED <<turn, worker>>, phase' \notin Running
  PROVE  results' \in Seq(Nat) /\ AnswersInOrder'
<1>1. Shapes /\ Len(turn.calls) \in Nat /\ results \in Seq(Nat) /\ IsInjective(results)
  BY DEF IInv, Shapes, AnswersInOrder
<1>2. PICK k \in 0..Len(turn.calls) : AnsweredUpTo(k)
  BY DEF IInv, AnswersInOrder
<1>3. At = k + 1 /\ k + 1 \in 0..Len(turn.calls) /\ k + 1 \in Nat
  BY <1>1, <1>2, AtIsNext
<1>4. results' = Append(results, k + 1)
  BY <1>3 DEF Answered
<1>5. k + 1 \notin ToSet(results)
  BY <1>1, <1>2, <1>3 DEF AnsweredUpTo
<1>6. /\ Len(results') = Len(results) + 1 /\ results' \in Seq(Nat)
      /\ DOMAIN results = 1..Len(results) /\ DOMAIN results' = 1..Len(results')
      /\ \A i \in 1..Len(results) : results'[i] = results[i]
      /\ results'[Len(results) + 1] = k + 1
  BY <1>1, <1>3, <1>4, AppendProperties
<1>7. IsInjective(results')
  <2>1. \A i \in 1..Len(results) : results[i] # k + 1
    BY <1>5, <1>6 DEF ToSet
  <2>2. \A i, j \in 1..Len(results) : results[i] = results[j] => i = j
    BY <1>1, <1>6 DEF IsInjective
  <2>3. \A i \in 1..Len(results') : i \in 1..Len(results) \/ i = Len(results) + 1
    BY <1>1, <1>6
  <2> QED BY <1>6, <2>1, <2>2, <2>3 DEF IsInjective
<1>8. ToSet(results') = ToSet(results) \union {k + 1}
  <2>1. 1..Len(results') = 1..Len(results) \union {Len(results) + 1}
    BY <1>1, <1>6
  <2> QED BY <1>6, <2>1 DEF ToSet
<1>9. AnsweredUpTo(k + 1)'
  BY <1>1, <1>2, <1>3, <1>8 DEF AnsweredUpTo
<1> QED BY <1>3, <1>6, <1>7, <1>9 DEF AnswersInOrder

\* When the loop is past the last call, every call of the worker is answered.
LEMMA AllAnswered ==
  ASSUME IInv, phase = "calls", At > Len(turn.calls)
  PROVE  /\ ToSet(results) = DOMAIN worker.calls /\ IsInjective(results)
         /\ turn.id = worker.turns
<1>1. Shapes /\ Len(turn.calls) \in Nat /\ Len(worker.calls) \in Nat
      /\ Len(turn.calls) <= Len(worker.calls) /\ turn.id = worker.turns
      /\ DOMAIN worker.calls = 1..Len(worker.calls)
  BY DEF IInv, Shapes, TurnIsTheWorkers, Handling
<1>2. PICK k \in 0..Len(turn.calls) : AnsweredUpTo(k)
  BY DEF IInv, AnswersInOrder, Handling
<1>3. k = Len(turn.calls)
  BY <1>1, <1>2, AtIsNext
<1> QED BY <1>1, <1>2, <1>3 DEF AnsweredUpTo, IInv, AnswersInOrder, Handling

-----------------------------------------------------------------------------
(* Every step keeps the invariant *)

LEMMA InitIInv == InitAgent => IInv
<1> SUFFICES ASSUME InitAgent PROVE IInv
  OBVIOUS
<1>1. /\ {MaxTurns, Base} \subseteq Nat \ {0} /\ MaxToolCalls \in Nat /\ Pool \in Nat
      /\ MaxConsults \in Nat /\ Tolerance \in Nat
  BY AgentAssumption
<1>2. Shapes
  BY <1>1 DEF InitAgent, Shapes, InitBudget, NoTurn, UpMessage, DownMessage
<1>3. TypeOKAgent
  <2>1. /\ budget.turns \in 0..MaxTurns /\ budget.tools \in 0..MaxToolCalls
        /\ budget.delegated \in 0..Pool /\ budget.consults \in 0..MaxConsults
        /\ worker.llm \in 0..MaxTurns
    BY <1>2 DEF Shapes
  <2>2. violations \in 0..Tolerance + 1 /\ Len(up) <= 1 /\ Len(down) <= 2
    BY <1>1 DEF InitAgent
  <2> QED BY <2>1, <2>2 DEF InitAgent, TypeOKAgent
<1>4. OverdraftIsBounded
  <2>1. PICK c \in Costs : TRUE
    BY AgentAssumption
  <2>2. c \in Nat /\ budget.spent = 0
    BY AgentAssumption DEF InitAgent, InitBudget
  <2>3. 0 + c <= Base - 1 + Max({Max(Costs), Max(Costs) - Headroom + 1})
    BY <1>1, OverdraftIsWithin
  <2>4. PICK m : m = Max({Max(Costs), Max(Costs) - Headroom + 1})
    OBVIOUS
  <2>5. m \in Int
    <3>1. Max(Costs) \in Int /\ Max(Costs) - Headroom + 1 \in Int
      BY CostsAreBounded, AgentAssumption
    <3>2. m \in {Max(Costs), Max(Costs) - Headroom + 1}
      BY <2>4, <3>1, MaxOfTwo, Zenon
    <3> QED BY <3>1, <3>2
  <2> QED BY <1>1, <2>2, <2>3, <2>4, <2>5 DEF OverdraftIsBounded
<1>5. BudgetAllows /\ KillIsFinal /\ PipesAreInStep /\ TurnIsTheWorkers /\ AnswersInOrder
  BY <1>1 DEF InitAgent, BudgetAllows, KillIsFinal, PipesAreInStep, TurnIsTheWorkers, AnswersInOrder,
              Handling, Running, Over
<1>6. ResultsAnswerTheTurn
  BY DEF InitAgent, ResultsAnswerTheTurn
<1> QED BY <1>2, <1>3, <1>4, <1>5, <1>6 DEF IInv

\* A step in the handling of a turn's calls leaves the worker and the pipes alone.
LEMMA HandlingStep ==
  ASSUME IInv, phase \in Handling, phase' \in Handling \union {"returned"},
         UNCHANGED <<session, turn, expired, stdin, down, up, worker>>,
         why' \in {why, "thrown", "contract"}, overlay' \in BOOLEAN,
         budget' \in [turns : 0..MaxTurns, spent : Nat, tools : 0..MaxToolCalls,
                      delegated : 0..Pool, reserved : Nat, consults : 0..MaxConsults],
         OverdraftIsBounded', phase' = "consulting" => CanConsult(budget'),
         violations' \in 0..Tolerance + 1, violations' > Tolerance => phase' = "returned",
         results' \in Seq(Nat), AnswersInOrder'
  PROVE  IInv'
<1>1. Shapes' /\ TypeOKAgent'
  <2>1. Shapes'
    BY DEF IInv, Shapes
  <2>2. /\ budget'.turns \in 0..MaxTurns /\ budget'.tools \in 0..MaxToolCalls
        /\ budget'.delegated \in 0..Pool /\ budget'.consults \in 0..MaxConsults
    OBVIOUS
  <2>3. /\ why' \in {"none", "thrown", "no response", "contract", "done", "uncertain", "budget"}
        /\ phase' \in {"setup", "init", "receive", "turn", "calls", "close", "shut"} \union Running \union Over
    BY DEF IInv, TypeOKAgent, Handling, Over
  <2> QED BY <2>1, <2>2, <2>3 DEF IInv, TypeOKAgent
<1>2. BudgetAllows' /\ KillIsFinal'
  BY DEF IInv, BudgetAllows, KillIsFinal, Handling, Running, Over
<1>3. PipesAreInStep'
  BY DEF IInv, PipesAreInStep, Handling, Running, Over
<1>4. TurnIsTheWorkers' /\ ResultsAnswerTheTurn'
  BY DEF IInv, TurnIsTheWorkers, ResultsAnswerTheTurn, Handling, Running
<1> QED BY <1>1, <1>2, <1>3, <1>4 DEF IInv

\* Such a step that changes no counter.
LEMMA QuietHandlingStep ==
  ASSUME IInv, phase \in Handling, phase' \in Handling \union {"returned"},
         UNCHANGED <<session, turn, expired, stdin, down, up, worker, budget, violations>>,
         why' \in {why, "thrown", "contract"}, overlay' \in BOOLEAN,
         phase' = "consulting" => CanConsult(budget),
         results' \in Seq(Nat), AnswersInOrder'
  PROVE  IInv'
<1>1. /\ budget' \in [turns : 0..MaxTurns, spent : Nat, tools : 0..MaxToolCalls,
                      delegated : 0..Pool, reserved : Nat, consults : 0..MaxConsults]
      /\ OverdraftIsBounded'
      /\ violations' \in 0..Tolerance + 1
  BY DEF IInv, Shapes, TypeOKAgent, OverdraftIsBounded
<1>2. violations' > Tolerance => phase' = "returned"
  BY DEF IInv, KillIsFinal, Handling, Running, Over
<1>3. phase' = "consulting" => CanConsult(budget')
  BY DEF CanConsult
<1> QED BY <1>1, <1>2, <1>3, HandlingStep

\* Starting a tool, a child or a peer leaves the answers as they are.
LEMMA StartKeepsAnswers ==
  ASSUME IInv, phase = "calls", At <= Len(turn.calls), UNCHANGED <<turn, worker, results>>
  PROVE  results' \in Seq(Nat) /\ AnswersInOrder'
<1>1. PICK k \in 0..Len(turn.calls) : AnsweredUpTo(k)
  BY DEF IInv, AnswersInOrder, Handling
<1>2. At = k + 1 /\ Len(turn.calls) \in Nat /\ k \in Nat
  BY <1>1, AtIsNext DEF IInv, Shapes
<1>3. k < Len(turn.calls)
  BY <1>2
<1>4. AnsweredUpTo(k)' /\ k < Len(turn'.calls) /\ k \in 0..Len(turn'.calls) /\ IsInjective(results')
  BY <1>1, <1>3 DEF IInv, AnswersInOrder, AnsweredUpTo, Handling
<1> QED BY <1>4 DEF IInv, Shapes, AnswersInOrder

\* A tool, a child or a peer runs for a call that has no answer yet.
LEMMA RunningIsAtACall ==
  ASSUME IInv, phase \in Running
  PROVE  At <= Len(turn.calls)
<1>1. PICK k \in 0..Len(turn.calls) : AnsweredUpTo(k) /\ k < Len(turn.calls)
  BY DEF IInv, AnswersInOrder, Handling
<1>2. At = k + 1 /\ Len(turn.calls) \in Nat
  BY <1>1, AtIsNext DEF IInv, Shapes
<1> QED BY <1>1, <1>2

LEMMA ViolationStep ==
  ASSUME IInv, Violation
  PROVE  IInv'
<1>1. /\ phase = "calls" /\ At <= Len(turn.calls) /\ Answered /\ violations' = violations + 1
      /\ UNCHANGED <<session, turn, budget, expired, stdin, down, up, worker>>
      /\ \/ violations' > Tolerance /\ phase' = "returned" /\ why' = "contract" /\ overlay' = FALSE
         \/ ~(violations' > Tolerance) /\ UNCHANGED <<phase, why, overlay>>
  BY DEF Violation, Calling, Return
<1>2. /\ budget' \in [turns : 0..MaxTurns, spent : Nat, tools : 0..MaxToolCalls,
                      delegated : 0..Pool, reserved : Nat, consults : 0..MaxConsults]
      /\ OverdraftIsBounded' /\ overlay' \in BOOLEAN
  BY <1>1 DEF IInv, Shapes, TypeOKAgent, OverdraftIsBounded
<1>3. violations' \in 0..Tolerance + 1
  <2>1. Tolerance \in Nat /\ violations \in 0..Tolerance + 1 /\ ~(violations > Tolerance)
    BY <1>1, AgentAssumption DEF IInv, KillIsFinal, TypeOKAgent, Over
  <2> QED BY <1>1, <2>1
<1>4. results' \in Seq(Nat) /\ AnswersInOrder'
  BY <1>1, AnswerKeepsOrder DEF Handling, Running
<1>5. /\ phase \in Handling /\ phase' \in Handling \union {"returned"}
      /\ phase' # "consulting" /\ (violations' > Tolerance => phase' = "returned")
      /\ why' \in {why, "thrown", "contract"}
  BY <1>1 DEF Handling
<1> QED BY <1>1, <1>2, <1>3, <1>4, <1>5, HandlingStep

LEMMA DeniedStep ==
  ASSUME IInv, Denied
  PROVE  IInv'
<1>1. /\ phase = "calls" /\ phase' = "calls" /\ At <= Len(turn.calls) /\ Answered
      /\ UNCHANGED <<why, overlay, session, turn, expired, stdin, down, up, worker, budget, violations>>
  BY DEF Denied, Calling
<1>2. results' \in Seq(Nat) /\ AnswersInOrder'
  BY <1>1, AnswerKeepsOrder DEF Handling, Running
<1>3. phase \in Handling /\ phase' \in Handling /\ overlay' \in BOOLEAN
  BY <1>1 DEF Handling, IInv, TypeOKAgent
<1> QED BY <1>1, <1>2, <1>3, QuietHandlingStep

LEMMA RunToolStep ==
  ASSUME IInv, RunTool
  PROVE  IInv'
<1>1. /\ phase = "calls" /\ phase' = "running" /\ At <= Len(turn.calls)
      /\ UNCHANGED <<results, why, overlay, session, turn, expired, stdin, down, up, worker, budget, violations>>
  BY DEF RunTool, Calling
<1>2. results' \in Seq(Nat) /\ AnswersInOrder'
  BY <1>1, StartKeepsAnswers
<1>3. phase \in Handling /\ phase' \in Handling /\ overlay' \in BOOLEAN
  BY <1>1 DEF Handling, Running, IInv, TypeOKAgent
<1> QED BY <1>1, <1>2, <1>3, QuietHandlingStep

LEMMA ToolReturnsStep ==
  ASSUME IInv, ToolReturns
  PROVE  IInv'
<1>1. /\ phase = "running"
      /\ UNCHANGED <<session, turn, expired, stdin, down, up, worker, budget, violations>>
      /\ \/ Answered /\ phase' = "calls" /\ UNCHANGED <<why, overlay>>
         \/ phase' = "returned" /\ why' = "thrown" /\ overlay' = FALSE /\ results' = results
  BY DEF ToolReturns, Return
<1>2. phase \in Handling /\ At <= Len(turn.calls)
  BY <1>1, RunningIsAtACall DEF Handling, Running
<1>3. results' \in Seq(Nat) /\ AnswersInOrder'
  <2>1. CASE Answered /\ phase' = "calls"
    BY <1>1, <1>2, <2>1, AnswerKeepsOrder DEF Running
  <2>2. CASE phase' = "returned" /\ results' = results
    BY <2>2 DEF IInv, Shapes, AnswersInOrder, Handling, Running
  <2> QED BY <1>1, <2>1, <2>2
<1>4. /\ phase' \in Handling \union {"returned"} /\ overlay' \in BOOLEAN /\ phase' # "consulting"
      /\ why' \in {why, "thrown", "contract"}
  BY <1>1 DEF Handling, IInv, TypeOKAgent
<1> QED BY <1>1, <1>2, <1>3, <1>4, QuietHandlingStep

\* What a delegation reserves fits into what is left of the pool.
LEMMA ReservationFits ==
  ASSUME Shapes, CanDelegate(budget)
  PROVE  /\ Allocated(budget) \in Nat
         /\ budget.delegated + Derived(budget) \in 0..Pool
<1>1. Pool \in Nat /\ Requested \in Nat /\ budget.delegated \in 0..Pool
  BY AgentAssumption DEF Shapes
<1>2. PICK r : r = Remaining(budget)
  OBVIOUS
<1>3. r \in Nat /\ budget.delegated + r = Pool
  BY <1>1, <1>2 DEF Remaining
<1>4. PICK half, up1 : half = r \div 2 /\ up1 = (r + 1) \div 2
  OBVIOUS
<1>5. half \in Nat /\ half <= r /\ up1 \in Nat
  BY <1>3, <1>4
<1>6. PICK a : a = Min({Requested, up1})
  OBVIOUS
<1>7. a \in Nat
  <2>1. Requested \in Int /\ up1 \in Int
    BY <1>1, <1>5
  <2>2. a \in {Requested, up1}
    BY <1>6, <2>1, MinOfTwo, Zenon
  <2> QED BY <1>1, <1>5, <2>2
<1>8. PICK d : d = Min({a, half})
  OBVIOUS
<1>9. d \in Nat /\ d <= half
  <2>1. a \in Int /\ half \in Int
    BY <1>5, <1>7
  <2>2. d \in {a, half} /\ d <= half
    BY <1>8, <2>1, MinOfTwo, Zenon
  <2> QED BY <1>5, <1>7, <2>2
<1>10. Allocated(budget) = a /\ Derived(budget) = d
  BY <1>2, <1>4, <1>6, <1>8 DEF Allocated, Derived
<1> QED BY <1>1, <1>3, <1>5, <1>7, <1>9, <1>10

LEMMA DelegateStep ==
  ASSUME IInv, Delegate
  PROVE  IInv'
<1>1. /\ phase = "calls" /\ At <= Len(turn.calls)
      /\ UNCHANGED <<why, overlay, session, turn, expired, stdin, down, up, worker, violations>>
  BY DEF Delegate, Calling
<1>2. overlay' \in BOOLEAN /\ phase \in Handling
  BY <1>1 DEF Handling, IInv, TypeOKAgent
<1>3. CASE CanDelegate(budget)
  <2>1. /\ budget' = [budget EXCEPT !.delegated = @ + Derived(budget), !.reserved = Allocated(budget)]
        /\ phase' = "delegating" /\ results' = results
    BY <1>3 DEF Delegate
  <2>2. Shapes
    BY DEF IInv
  <2>3. /\ budget' \in [turns : 0..MaxTurns, spent : Nat, tools : 0..MaxToolCalls,
                         delegated : 0..Pool, reserved : Nat, consults : 0..MaxConsults]
        /\ budget'.spent = budget.spent
    BY <1>3, <2>1, <2>2, ReservationFits DEF Shapes
  <2>4. OverdraftIsBounded'
    BY <2>3 DEF IInv, OverdraftIsBounded
  <2>5. violations' \in 0..Tolerance + 1 /\ ~(violations' > Tolerance)
    BY <1>1 DEF IInv, TypeOKAgent, KillIsFinal, Over
  <2>6. results' \in Seq(Nat) /\ AnswersInOrder'
    BY <1>1, <2>1, StartKeepsAnswers
  <2>7. phase' \in Handling /\ phase' # "consulting"
    BY <2>1 DEF Handling, Running
  <2> QED BY <1>1, <1>2, <2>3, <2>4, <2>5, <2>6, <2>7, HandlingStep
<1>4. CASE ~CanDelegate(budget)
  <2>1. Answered /\ budget' = budget /\ phase' = "calls"
    BY <1>1, <1>4 DEF Delegate
  <2>2. results' \in Seq(Nat) /\ AnswersInOrder'
    BY <1>1, <1>2, <2>1, AnswerKeepsOrder DEF Running
  <2>3. phase' \in Handling /\ phase' # "consulting"
    BY <2>1 DEF Handling
  <2> QED BY <1>1, <1>2, <2>1, <2>2, <2>3, QuietHandlingStep
<1> QED BY <1>3, <1>4

LEMMA ChildReturnsStep ==
  ASSUME IInv, ChildReturns
  PROVE  IInv'
<1>1. /\ phase = "delegating" /\ phase' = "calls" /\ Answered
      /\ budget' = [budget EXCEPT !.delegated = Max({0, @ - budget.reserved}), !.reserved = 0]
      /\ UNCHANGED <<why, overlay, session, turn, expired, stdin, down, up, worker, violations>>
  BY DEF ChildReturns, Refund
<1>2. /\ overlay' \in BOOLEAN /\ phase \in Handling /\ phase' \in Handling
      /\ phase' \notin Running /\ phase' # "consulting" /\ At <= Len(turn.calls)
  BY <1>1, RunningIsAtACall DEF Handling, Running, IInv, TypeOKAgent
<1>3. PICK d : d = Max({0, budget.delegated - budget.reserved})
  OBVIOUS
<1>4. d \in 0..Pool
  <2>1. Pool \in Nat /\ budget.delegated \in 0..Pool /\ budget.reserved \in Nat
    BY AgentAssumption DEF IInv, Shapes
  <2>2. PICK x : x = budget.delegated - budget.reserved
    OBVIOUS
  <2>3. 0 \in Int /\ x \in Int
    BY <2>1, <2>2
  <2>4. Max({0, x}) \in {0, x} /\ Max({0, x}) >= 0
    BY <2>3, MaxOfTwo, Zenon
  <2> QED BY <1>3, <2>1, <2>2, <2>4
<1>5. /\ budget' \in [turns : 0..MaxTurns, spent : Nat, tools : 0..MaxToolCalls,
                       delegated : 0..Pool, reserved : Nat, consults : 0..MaxConsults]
      /\ budget'.spent = budget.spent
  <2>1. budget' = [budget EXCEPT !.delegated = d, !.reserved = 0]
    BY <1>1, <1>3
  <2> QED BY <1>4, <2>1 DEF IInv, Shapes
<1>6. OverdraftIsBounded'
  BY <1>5 DEF IInv, OverdraftIsBounded
<1>7. violations' \in 0..Tolerance + 1 /\ ~(violations' > Tolerance)
  BY <1>1 DEF IInv, TypeOKAgent, KillIsFinal, Over
<1>8. results' \in Seq(Nat) /\ AnswersInOrder'
  BY <1>1, <1>2, AnswerKeepsOrder
<1> QED BY <1>1, <1>2, <1>5, <1>6, <1>7, <1>8, HandlingStep

LEMMA ConsultStep ==
  ASSUME IInv, Consult
  PROVE  IInv'
<1>1. /\ phase = "calls" /\ At <= Len(turn.calls)
      /\ UNCHANGED <<why, overlay, session, turn, expired, stdin, down, up, worker, budget, violations>>
  BY DEF Consult, Calling
<1>2. overlay' \in BOOLEAN /\ phase \in Handling
  BY <1>1 DEF Handling, IInv, TypeOKAgent
<1>3. CASE CanConsult(budget)
  <2>1. phase' = "consulting" /\ results' = results
    BY <1>3 DEF Consult
  <2>2. results' \in Seq(Nat) /\ AnswersInOrder'
    BY <1>1, <2>1, StartKeepsAnswers
  <2>3. phase' \in Handling
    BY <2>1 DEF Handling, Running
  <2> QED BY <1>1, <1>2, <1>3, <2>2, <2>3, QuietHandlingStep
<1>4. CASE ~CanConsult(budget)
  <2>1. Answered /\ phase' = "calls"
    BY <1>1, <1>4 DEF Consult
  <2>2. results' \in Seq(Nat) /\ AnswersInOrder'
    BY <1>1, <1>2, <2>1, AnswerKeepsOrder DEF Running
  <2>3. phase' \in Handling /\ phase' # "consulting"
    BY <2>1 DEF Handling
  <2> QED BY <1>1, <1>2, <2>2, <2>3, QuietHandlingStep
<1> QED BY <1>3, <1>4

LEMMA PeerReturnsStep ==
  ASSUME IInv, PeerReturns
  PROVE  IInv'
<1>1. /\ phase = "consulting" /\ phase' = "calls" /\ Answered
      /\ UNCHANGED <<why, overlay, session, turn, expired, stdin, down, up, worker, violations>>
  BY DEF PeerReturns
<1>2. /\ overlay' \in BOOLEAN /\ phase \in Handling /\ phase' \in Handling
      /\ phase' \notin Running /\ phase' # "consulting" /\ At <= Len(turn.calls)
  BY <1>1, RunningIsAtACall DEF Handling, Running, IInv, TypeOKAgent
<1>3. results' \in Seq(Nat) /\ AnswersInOrder'
  BY <1>1, <1>2, AnswerKeepsOrder
<1>4. CASE budget' = budget
  BY <1>1, <1>2, <1>3, <1>4, QuietHandlingStep
<1>5. ASSUME NEW cost \in Costs, budget' = [budget EXCEPT !.consults = @ + 1, !.spent = @ + cost]
      PROVE  IInv'
  <2>1. /\ budget.consults < MaxConsults /\ Base - budget.spent >= Headroom
        /\ cost \in Nat /\ MaxConsults \in Nat
    BY <1>1, AgentAssumption DEF IInv, BudgetAllows, CanConsult
  <2>2. budget.consults + 1 \in 0..MaxConsults /\ budget.spent + cost \in Nat /\ budget.spent \in Nat
    <3>1. budget.consults \in 0..MaxConsults /\ budget.spent \in Nat
      BY DEF IInv, Shapes
    <3> QED BY <2>1, <3>1
  <2>3. /\ budget' \in [turns : 0..MaxTurns, spent : Nat, tools : 0..MaxToolCalls,
                       delegated : 0..Pool, reserved : Nat, consults : 0..MaxConsults]
        /\ budget'.spent = budget.spent + cost
    BY <1>5, <2>2 DEF IInv, Shapes
  <2>4. OverdraftIsBounded'
    BY <2>1, <2>2, <2>3, OverdraftIsWithin DEF OverdraftIsBounded
  <2>5. violations' \in 0..Tolerance + 1 /\ ~(violations' > Tolerance)
    BY <1>1 DEF IInv, TypeOKAgent, KillIsFinal, Over
  <2> QED BY <1>1, <1>2, <1>3, <2>3, <2>4, <2>5, HandlingStep
<1> QED BY <1>4, <1>5 DEF PeerReturns

\* What is left of a pipe that held one message or two.
LEMMA TailOfPipe ==
  ASSUME NEW S, NEW s \in Seq(S), s # <<>>, Len(s) <= 2
  PROVE  /\ Head(s) \in S /\ Head(s) = s[1] /\ Tail(s) \in Seq(S)
         /\ Len(s) = 1 => Tail(s) = <<>>
         /\ Len(s) = 2 => Tail(s) # <<>> /\ Len(Tail(s)) = 1 /\ Tail(s)[1] = s[2]
         /\ Len(s) \in {1, 2}
<1>1. /\ Head(s) = s[1] /\ Head(s) \in S /\ Tail(s) \in Seq(S)
      /\ Len(s) \in Nat \ {0} /\ Len(Tail(s)) = Len(s) - 1
      /\ \A i \in 1 .. Len(s) - 1 : Tail(s)[i] = s[i + 1]
  BY HeadTailProperties, EmptySeq
<1>2. Len(s) \in {1, 2}
  BY <1>1
<1>3. Len(s) = 1 => Tail(s) = <<>>
  <2>1. PICK t : t = Tail(s)
    OBVIOUS
  <2>2. t \in Seq(S) /\ (t # <<>> => Len(t) # 0)
    BY <1>1, <2>1, EmptySeq
  <2>3. Len(s) = 1 => Len(t) = 0
    BY <1>1, <2>1
  <2> QED BY <2>1, <2>2, <2>3
<1>4. Len(s) = 2 => Tail(s) # <<>> /\ Len(Tail(s)) = 1 /\ Tail(s)[1] = s[2]
  <2> SUFFICES ASSUME Len(s) = 2 PROVE Tail(s) # <<>> /\ Len(Tail(s)) = 1 /\ Tail(s)[1] = s[2]
    OBVIOUS
  <2>1. Len(Tail(s)) = 1
    BY <1>1
  <2>2. Tail(s)[1] = s[2]
    <3>1. 1 \in 1 .. Len(s) - 1 /\ 1 + 1 = 2
      OBVIOUS
    <3> QED BY <1>1, <3>1
  <2>3. Tail(s) # <<>>
    BY <2>1, EmptySeq
  <2> QED BY <2>1, <2>2, <2>3
<1> QED BY <1>1, <1>2, <1>3, <1>4

LEMMA NothingIsTyped ==
  /\ NoTurn \in [type : {"none", "tool_calls", "done", "uncertain"}, id : Nat, calls : Seq(Kinds)]
  /\ <<>> \in Seq(Nat)
<1>1. <<>> \in Seq(Kinds) /\ <<>> \in Seq(Nat)
  BY EmptySeq
<1> QED BY <1>1 DEF NoTurn

\* A step that leaves the budget and the worker's calls alone, and starts nothing.
LEMMA QuietLoopStep ==
  ASSUME IInv, UNCHANGED <<budget, violations, expired>>,
         turn' \in {turn, NoTurn}, results' \in {results, <<>>},
         phase' \in {"init", "close", "shut", "returned", "dead"},
         why' \in {"none", "thrown", "no response", "contract", "done", "uncertain", "budget"},
         session' \in {"INIT", "WAITING_FOR_WORKER", "WAITING_FOR_ORCHESTRATOR", "CLOSED"},
         overlay' \in BOOLEAN, stdin' \in BOOLEAN,
         phase \notin Over \/ phase' \in Over,
         violations > Tolerance => phase' \in Over,
         worker' = worker \/ worker' = [worker EXCEPT !.at = "boot"] \/ worker' = [worker EXCEPT !.at = "exited"],
         up' \in Seq(UpMessage), down' \in Seq(DownMessage), PipesAreInStep',
         TurnIsTheWorkers', ResultsAnswerTheTurn'
  PROVE  IInv'
<1>1. Shapes'
  <2>1. /\ turn' \in [type : {"none", "tool_calls", "done", "uncertain"}, id : Nat, calls : Seq(Kinds)]
        /\ results' \in Seq(Nat)
    BY NothingIsTyped DEF IInv, Shapes
  <2> QED BY <2>1 DEF IInv, Shapes
<1>2. TypeOKAgent'
  <2>1. worker'.at \in {"unborn", "boot", "think", "await", "exited"} /\ worker'.llm \in 0..MaxTurns
    BY <1>1 DEF Shapes
  <2>2. Len(up') <= 1 /\ Len(down') <= 2
    BY DEF PipesAreInStep
  <2> QED BY <2>1, <2>2 DEF IInv, TypeOKAgent, Over
<1>3. BudgetAllows' /\ KillIsFinal'
  BY DEF IInv, BudgetAllows, KillIsFinal, Over, Shapes
<1>4. AnswersInOrder' /\ OverdraftIsBounded'
  BY DEF IInv, AnswersInOrder, OverdraftIsBounded, Handling, Running
<1> QED BY <1>1, <1>2, <1>3, <1>4 DEF IInv

LEMMA NoProxyStep ==
  ASSUME IInv, NoProxy
  PROVE  IInv'
<1> USE DEF NoProxy, Return
<1>1. PipesAreInStep' /\ TurnIsTheWorkers' /\ ResultsAnswerTheTurn'
  BY DEF IInv, PipesAreInStep, TurnIsTheWorkers, ResultsAnswerTheTurn, Handling, Running, Over
<1>2. ~(violations > Tolerance) /\ phase \notin Over
  BY DEF IInv, KillIsFinal, Over
<1>3. /\ session \in {"INIT", "WAITING_FOR_WORKER", "WAITING_FOR_ORCHESTRATOR", "CLOSED"}
      /\ stdin \in BOOLEAN /\ up \in Seq(UpMessage) /\ down \in Seq(DownMessage)
  BY DEF IInv, TypeOKAgent, Shapes
<1> QED BY <1>1, <1>2, <1>3, QuietLoopStep

LEMMA SpawnStep ==
  ASSUME IInv, Spawn
  PROVE  IInv'
<1> USE DEF Spawn
<1>1. /\ phase = "setup" /\ worker.at = "unborn" /\ up = <<>> /\ down = <<>>
      /\ worker'.at = "boot"
  BY DEF IInv, PipesAreInStep, Over, Shapes
<1>2. PipesAreInStep' /\ TurnIsTheWorkers' /\ ResultsAnswerTheTurn'
  BY <1>1 DEF PipesAreInStep, TurnIsTheWorkers, ResultsAnswerTheTurn, Handling, Running, Over
<1>3. ~(violations > Tolerance) /\ phase \notin Over
  BY DEF IInv, KillIsFinal, Over
<1>4. /\ session \in {"INIT", "WAITING_FOR_WORKER", "WAITING_FOR_ORCHESTRATOR", "CLOSED"}
      /\ why \in {"none", "thrown", "no response", "contract", "done", "uncertain", "budget"}
      /\ overlay \in BOOLEAN /\ up \in Seq(UpMessage) /\ down \in Seq(DownMessage)
  BY DEF IInv, TypeOKAgent, Shapes
<1> QED BY <1>2, <1>3, <1>4, QuietLoopStep

LEMMA ReceiveNullStep ==
  ASSUME IInv, ReceiveNull
  PROVE  IInv'
<1>1. /\ phase = "receive" /\ phase' = "returned" /\ why' = "no response" /\ overlay' = FALSE
      /\ UNCHANGED <<session, turn, results, budget, violations, expired, stdin, down, worker>>
  BY DEF ReceiveNull, Return
<1>2. /\ up' = up \/ (up # <<>> /\ up' = <<>>)
      /\ up' \in Seq(UpMessage)
  <2>1. up \in Seq(UpMessage) /\ Len(up) <= 1
    BY DEF IInv, Shapes, PipesAreInStep
  <2>2. up # <<>> => Tail(up) = <<>> /\ Tail(up) \in Seq(UpMessage)
    BY <2>1, TailOfPipe
  <2> QED BY <2>1, <2>2 DEF ReceiveNull
<1>3. PipesAreInStep' /\ TurnIsTheWorkers' /\ ResultsAnswerTheTurn'
  BY <1>1, <1>2 DEF IInv, PipesAreInStep, TurnIsTheWorkers, ResultsAnswerTheTurn, Handling, Running, Over
<1>4. ~(violations > Tolerance) /\ phase \notin Over /\ phase' \in Over
  BY <1>1 DEF IInv, KillIsFinal, Over
<1>5. /\ session \in {"INIT", "WAITING_FOR_WORKER", "WAITING_FOR_ORCHESTRATOR", "CLOSED"}
      /\ stdin \in BOOLEAN /\ down \in Seq(DownMessage)
  BY DEF IInv, TypeOKAgent, Shapes
<1> QED BY <1>1, <1>2, <1>3, <1>4, <1>5, QuietLoopStep

LEMMA CloseStep ==
  ASSUME IInv, Close
  PROVE  IInv'
<1>1. /\ phase = "close" /\ phase' = "shut" /\ why' = "budget" /\ stdin' = FALSE
      /\ down' = Append(down, Turn("terminate", 0, <<>>))
      /\ UNCHANGED <<session, turn, results, budget, violations, expired, overlay, up, worker>>
  BY DEF Close
<1>2. /\ down \in Seq(DownMessage) /\ Len(down) <= 1
      /\ \A i \in DOMAIN down : down[i].type # "terminate"
  BY <1>1 DEF IInv, Shapes, PipesAreInStep, Over
<1>3. Turn("terminate", 0, <<>>) \in DownMessage /\ Turn("terminate", 0, <<>>).type = "terminate"
  BY DEF Turn, DownMessage
<1>4. /\ down' \in Seq(DownMessage) /\ Len(down') = Len(down) + 1 /\ Len(down) \in Nat
      /\ \A i \in DOMAIN down : down'[i] = down[i]
      /\ down'[Len(down) + 1].type = "terminate"
      /\ DOMAIN down' = 1..Len(down')
  BY <1>1, <1>2, <1>3
<1>5. (down # <<>> => Head(down') = Head(down)) /\ (down = <<>> => Head(down').type = "terminate")
  BY <1>2, <1>4
<1>6. PipesAreInStep'
  <2>1. Len(down') <= 2 /\ (Len(down') = 2 => down'[2].type = "terminate")
    BY <1>2, <1>4
  <2>2. /\ worker.at \notin {"unborn"}
        /\ worker.at = "think" => Head(down').type = "terminate"
        /\ worker.at = "boot" => Head(down').type # "tool_results"
        /\ worker.at = "await" /\ Head(down').type = "tool_results" => up = <<>>
    BY <1>1, <1>2, <1>5 DEF IInv, PipesAreInStep, Over
  <2> QED BY <1>1, <2>1, <2>2 DEF IInv, PipesAreInStep, Handling, Running, Over
<1>7. TurnIsTheWorkers'
  BY <1>1 DEF IInv, TurnIsTheWorkers, Handling, Running
<1>8. ResultsAnswerTheTurn'
  BY <1>1, <1>5 DEF IInv, ResultsAnswerTheTurn
<1>9. ~(violations > Tolerance) /\ phase \notin Over
  BY <1>1 DEF IInv, KillIsFinal, Over
<1>10. /\ session \in {"INIT", "WAITING_FOR_WORKER", "WAITING_FOR_ORCHESTRATOR", "CLOSED"}
       /\ overlay \in BOOLEAN /\ up \in Seq(UpMessage)
  BY DEF IInv, TypeOKAgent, Shapes
<1> QED BY <1>1, <1>4, <1>6, <1>7, <1>8, <1>9, <1>10, QuietLoopStep

LEMMA ShutdownStep ==
  ASSUME IInv, Shutdown
  PROVE  IInv'
<1>1. /\ phase = "shut" /\ phase' = "returned" /\ why' = why /\ overlay' = FALSE /\ session' = "CLOSED"
      /\ worker' = [worker EXCEPT !.at = "exited"]
      /\ UNCHANGED <<turn, results, budget, violations, expired, stdin, down, up>>
  BY DEF Shutdown, Return
<1>2. worker'.at = "exited" /\ worker'.turns = worker.turns /\ worker'.calls = worker.calls
  BY <1>1 DEF IInv, Shapes
<1>3. PipesAreInStep' /\ TurnIsTheWorkers' /\ ResultsAnswerTheTurn'
  BY <1>1, <1>2 DEF IInv, PipesAreInStep, TurnIsTheWorkers, ResultsAnswerTheTurn, Handling, Running, Over
<1>4. ~(violations > Tolerance) /\ phase \notin Over
  BY <1>1 DEF IInv, KillIsFinal, Over
<1>5. /\ why \in {"none", "thrown", "no response", "contract", "done", "uncertain", "budget"}
      /\ stdin \in BOOLEAN /\ up \in Seq(UpMessage) /\ down \in Seq(DownMessage)
  BY DEF IInv, TypeOKAgent, Shapes
<1> QED BY <1>1, <1>3, <1>4, <1>5, QuietLoopStep

LEMMA OrchestratorDiesStep ==
  ASSUME IInv, OrchestratorDies
  PROVE  IInv'
<1>1. /\ phase' = "dead" /\ stdin' = FALSE
      /\ UNCHANGED <<why, session, turn, results, budget, violations, expired, overlay, down, up, worker>>
  BY DEF OrchestratorDies
<1>2. PipesAreInStep' /\ TurnIsTheWorkers' /\ ResultsAnswerTheTurn'
  BY <1>1 DEF IInv, PipesAreInStep, TurnIsTheWorkers, ResultsAnswerTheTurn, Handling, Running, Over
<1>3. /\ session \in {"INIT", "WAITING_FOR_WORKER", "WAITING_FOR_ORCHESTRATOR", "CLOSED"}
      /\ why \in {"none", "thrown", "no response", "contract", "done", "uncertain", "budget"}
      /\ overlay \in BOOLEAN /\ up \in Seq(UpMessage) /\ down \in Seq(DownMessage)
  BY DEF IInv, TypeOKAgent, Shapes
<1>4. phase' \in Over
  BY <1>1 DEF Over
<1> QED BY <1>1, <1>2, <1>3, <1>4, QuietLoopStep

\* The deadline, and a stuttering step.
LEMMA DeadlineStep ==
  ASSUME IInv, UNCHANGED <<orchestrator, pipes, worker>>, expired' \in BOOLEAN
  PROVE  IInv'
<1>1. UNCHANGED <<phase, why, session, turn, results, budget, violations, overlay, stdin, down, up, worker>>
  BY DEF orchestrator, pipes
<1>2. Shapes'
  BY <1>1 DEF IInv, Shapes
<1>3. TypeOKAgent'
  BY <1>1 DEF IInv, TypeOKAgent
<1>4. BudgetAllows' /\ KillIsFinal' /\ OverdraftIsBounded'
  BY <1>1 DEF IInv, BudgetAllows, CanConsult, KillIsFinal, OverdraftIsBounded
<1>5. PipesAreInStep' /\ TurnIsTheWorkers' /\ ResultsAnswerTheTurn'
  BY <1>1 DEF IInv, PipesAreInStep, TurnIsTheWorkers, ResultsAnswerTheTurn
<1>6. AnswersInOrder'
  BY <1>1 DEF IInv, AnswersInOrder, AnsweredUpTo
<1> QED BY <1>2, <1>3, <1>4, <1>5, <1>6 DEF IInv

\* What is left in the worker's stdin once it has read a line: a terminate, if
\* the orchestrator has closed the session.
LEMMA DownAfterRead ==
  ASSUME IInv, down # <<>>, down' = Tail(down)
  PROVE  /\ Head(down) \in DownMessage /\ down' \in Seq(DownMessage)
         /\ Len(down') <= 1
         /\ Len(down) <= 1 => down' = <<>>
         /\ \A i \in DOMAIN down' : i = 1 /\ down'[i].type = "terminate"
         /\ down' # <<>> => Head(down').type = "terminate" /\ phase \in {"shut"} \union Over
<1>1. /\ down \in Seq(DownMessage) /\ Len(down) <= 2
      /\ Len(down) = 2 => down[2].type = "terminate"
      /\ \A i \in DOMAIN down : down[i].type = "terminate" => phase \in {"shut"} \union Over
  BY DEF IInv, Shapes, PipesAreInStep
<1>2. /\ Head(down) \in DownMessage /\ down' \in Seq(DownMessage)
      /\ Len(down) = 1 => down' = <<>>
      /\ Len(down) = 2 => down' # <<>> /\ Len(down') = 1 /\ down'[1] = down[2]
      /\ Len(down) \in {1, 2}
  BY <1>1, TailOfPipe
<1>3. CASE Len(down) = 1
  BY <1>2, <1>3
<1>4. CASE Len(down) = 2
  <2>1. /\ down'[1].type = "terminate" /\ phase \in {"shut"} \union Over
        /\ Len(down') = 1 /\ DOMAIN down' = 1..1
    <3>1. 2 \in DOMAIN down
      BY <1>1, <1>4
    <3> QED BY <1>1, <1>2, <1>4, <3>1
  <2>2. Head(down') = down'[1]
    BY <1>2, <1>4
  <2> QED BY <1>2, <1>4, <2>1, <2>2
<1> QED BY <1>2, <1>3, <1>4

\* A step of the worker leaves the orchestrator alone.
LEMMA WorkerStep ==
  ASSUME IInv, UNCHANGED <<orchestrator, expired, stdin>>,
         worker' \in [at : {"unborn", "boot", "think", "await", "exited"}, llm : 0..MaxTurns,
                      turns : Nat, compressed : Nat, calls : Seq(Kinds),
                      then : {"none", "done", "uncertain"}],
         worker'.at = "await" => worker'.llm < MaxTurns,
         phase \in Handling => worker'.calls = worker.calls,
         up' \in Seq(UpMessage), down' \in Seq(DownMessage),
         PipesAreInStep', TurnIsTheWorkers', ResultsAnswerTheTurn'
  PROVE  IInv'
<1>1. UNCHANGED <<phase, why, session, turn, results, budget, violations, overlay, expired, stdin>>
  BY DEF orchestrator
<1>2. Shapes'
  BY <1>1 DEF IInv, Shapes
<1>3. TypeOKAgent'
  <2>1. worker'.at \in {"unborn", "boot", "think", "await", "exited"} /\ worker'.llm \in 0..MaxTurns
    OBVIOUS
  <2>2. Len(up') <= 1 /\ Len(down') <= 2
    BY DEF PipesAreInStep
  <2> QED BY <1>1, <2>1, <2>2 DEF IInv, TypeOKAgent
<1>4. BudgetAllows' /\ KillIsFinal' /\ OverdraftIsBounded'
  BY <1>1 DEF IInv, BudgetAllows, CanConsult, KillIsFinal, OverdraftIsBounded
<1>5. AnswersInOrder'
  BY <1>1 DEF IInv, AnswersInOrder, AnsweredUpTo
<1> QED BY <1>2, <1>3, <1>4, <1>5 DEF IInv

\* The pipes once the worker has read a line while no turn is handled.
LEMMA InStepAfterRead ==
  ASSUME UNCHANGED phase, phase \notin {"setup", "init", "turn"} \union Handling,
         Len(down') \in Nat, Len(down') <= 1, \A i \in DOMAIN down' : down' # <<>>,
         down' # <<>> => Head(down').type = "terminate" /\ phase \in {"shut"} \union Over,
         Len(up') <= 1, worker'.at \in {"think", "exited"}, worker'.at = "think" => up' = <<>>,
         phase = "receive" => up' = <<>> \/ down' = <<>>
  PROVE  PipesAreInStep'
<1>1. Len(up') <= 1 /\ Len(down') <= 2 /\ ~(Len(down') = 2)
  OBVIOUS
<1>2. \A i \in DOMAIN down' : phase' \in {"shut"} \union Over
  OBVIOUS
<1>3. /\ worker'.at # "unborn" /\ worker'.at # "boot" /\ worker'.at # "await"
      /\ phase' # "setup" /\ phase' # "init" /\ phase' \notin {"turn"} \union Handling'
  BY DEF Handling, Running
<1>4. phase' \in {"receive", "close"} => Len(down') <= 1
  OBVIOUS
<1>5. phase' = "receive" /\ up' # <<>> => down' = <<>>
  OBVIOUS
<1>6. worker'.at = "think" /\ down' # <<>> => Head(down').type = "terminate"
  OBVIOUS
<1> QED BY <1>1, <1>2, <1>3, <1>4, <1>5, <1>6, Zenon DEF PipesAreInStep

\* The worker ends, having read a line of its stdin or none.
LEMMA ExitStep ==
  ASSUME IInv, UNCHANGED <<orchestrator, expired, stdin, up>>, Exit,
         worker.at # "unborn",
         down' = down \/ (down # <<>> /\ down' = Tail(down))
  PROVE  IInv'
<1>1. UNCHANGED <<phase, turn, up>>
  BY DEF orchestrator
<1>2. /\ worker' \in [at : {"unborn", "boot", "think", "await", "exited"}, llm : 0..MaxTurns,
                       turns : Nat, compressed : Nat, calls : Seq(Kinds),
                       then : {"none", "done", "uncertain"}]
      /\ worker'.at = "exited" /\ worker'.calls = worker.calls /\ worker'.turns = worker.turns
  BY DEF IInv, Shapes, Exit
<1>3. up' \in Seq(UpMessage) /\ down' \in Seq(DownMessage)
  BY <1>1, DownAfterRead DEF IInv, Shapes
<1>4. PipesAreInStep'
  <2>1. CASE down' = down
    BY <1>1, <1>2, <2>1 DEF IInv, PipesAreInStep, Handling, Running, Over
  <2>2. CASE down # <<>> /\ down' = Tail(down)
    <3>1. /\ Len(down') <= 1 /\ (Len(down) <= 1 => down' = <<>>) /\ Len(down') \in Nat
          /\ down' # <<>> => phase \in {"shut"} \union Over
          /\ \A i \in DOMAIN down' : phase \in {"shut"} \union Over
      <4>1. down' # <<>> => phase \in {"shut"} \union Over
        BY <2>2, DownAfterRead
      <4>2. \A i \in DOMAIN down' : down' # <<>>
        BY <1>3
      <4> QED BY <1>3, <2>2, <4>1, <4>2, DownAfterRead
    <3>2. /\ worker'.at \notin {"unborn", "boot", "think", "await"}
          /\ phase \notin {"setup", "init", "turn"} \union Handling
      <4>1. worker'.at \notin {"unborn", "boot", "think", "await"}
        BY <1>2
      <4>2. phase # "setup" /\ phase # "init" /\ phase \notin {"turn"} \union Handling
        BY <2>2, Zenon DEF IInv, PipesAreInStep
      <4> QED BY <4>1, <4>2
    <3>3. Len(up') <= 1 /\ (phase = "receive" => down' = <<>>)
      BY <1>1, <2>2, <3>1 DEF IInv, PipesAreInStep
    <3>4. \A i \in DOMAIN down' : down' # <<>>
      BY <1>3
    <3>5. down' # <<>> => Head(down').type = "terminate" /\ phase \in {"shut"} \union Over
      BY <2>2, DownAfterRead
    <3> QED BY <1>1, <1>2, <3>1, <3>2, <3>3, <3>4, <3>5, InStepAfterRead
  <2> QED BY <2>1, <2>2
<1>5. TurnIsTheWorkers' /\ ResultsAnswerTheTurn'
  BY <1>1, <1>2 DEF IInv, TurnIsTheWorkers, ResultsAnswerTheTurn, Handling, Running
<1> QED BY <1>2, <1>3, <1>4, <1>5, WorkerStep

\* The worker writes a turn when its stdout is empty and nobody handles one.
LEMMA WriteStep ==
  ASSUME IInv, UNCHANGED <<orchestrator, expired, stdin, down>>, worker.at = "think",
         NEW message \in UpMessage, Writes(message),
         worker' \in [at : {"await", "exited"}, llm : 0..MaxTurns,
                      turns : Nat, compressed : Nat, calls : Seq(Kinds),
                      then : {"none", "done", "uncertain"}],
         worker'.at = "await" => worker'.llm < MaxTurns,
         message.type = "tool_calls" =>
            message.id = worker'.turns /\ message.calls = worker'.calls
  PROVE  IInv'
<1>1. UNCHANGED <<phase, turn, down>>
  BY DEF orchestrator
<1>2. /\ up = <<>> /\ (down # <<>> => Head(down).type = "terminate")
      /\ phase \notin {"setup", "init", "turn"} \union Handling
      /\ phase = "receive" => down = <<>>
  <2>1. down # <<>> => 1 \in DOMAIN down /\ Head(down) = down[1]
    BY HeadTailProperties, EmptySeq DEF IInv, Shapes
  <2> QED BY <2>1 DEF IInv, PipesAreInStep, Handling, Running, Over
<1>3. up' = <<message>> /\ up' \in Seq(UpMessage) /\ Len(up') = 1 /\ Head(up') = message
  BY <1>2 DEF Writes
<1>4. down' \in Seq(DownMessage)
  BY <1>1 DEF IInv, Shapes
<1>5. worker'.at \in {"await", "exited"}
  OBVIOUS
<1>6. PipesAreInStep'
  BY <1>1, <1>2, <1>3, <1>5 DEF IInv, PipesAreInStep, Handling, Running, Over
<1>7. TurnIsTheWorkers' /\ ResultsAnswerTheTurn'
  BY <1>1, <1>2, <1>3, <1>5 DEF IInv, TurnIsTheWorkers, ResultsAnswerTheTurn, Handling, Running
<1> QED BY <1>2, <1>3, <1>4, <1>6, <1>7, WorkerStep

LEMMA BootStep ==
  ASSUME IInv, Boot
  PROVE  IInv'
<1>1. worker.at = "boot" /\ UNCHANGED <<orchestrator, expired, stdin, up>> /\ UNCHANGED <<phase, turn>>
  BY DEF Boot, orchestrator
<1>2. CASE Exit
  BY <1>1, <1>2, ExitStep DEF Boot
<1>3. CASE down # <<>> /\ down' = Tail(down) /\ worker' = [worker EXCEPT !.at = "think"]
  <2>1. /\ worker' \in [at : {"unborn", "boot", "think", "await", "exited"}, llm : 0..MaxTurns,
                         turns : Nat, compressed : Nat, calls : Seq(Kinds),
                         then : {"none", "done", "uncertain"}]
        /\ worker'.at = "think" /\ worker'.calls = worker.calls /\ worker'.turns = worker.turns
    BY <1>3 DEF IInv, Shapes
  <2>2. up' \in Seq(UpMessage) /\ down' \in Seq(DownMessage)
    BY <1>1, <1>3, DownAfterRead DEF IInv, Shapes
  <2>3. up = <<>> /\ phase \notin {"setup", "init", "turn"} \union Handling
    BY <1>1, <1>3 DEF IInv, PipesAreInStep, Handling, Running, Over
  <2>4. /\ Len(down') <= 1 /\ Len(down') \in Nat
        /\ down' # <<>> => Head(down').type = "terminate" /\ phase \in {"shut"} \union Over
        /\ \A i \in DOMAIN down' : down' # <<>>
    BY <1>3, <2>2, DownAfterRead
  <2>5. PipesAreInStep'
    BY <1>1, <2>1, <2>3, <2>4 DEF IInv, PipesAreInStep, Handling, Running, Over
  <2>6. TurnIsTheWorkers' /\ ResultsAnswerTheTurn'
    BY <1>1, <2>1, <2>3, <2>4 DEF TurnIsTheWorkers, ResultsAnswerTheTurn, Handling, Running
  <2> QED BY <1>1, <2>1, <2>2, <2>3, <2>5, <2>6, WorkerStep
<1> QED BY <1>2, <1>3 DEF Boot

LEMMA GiveUpStep ==
  ASSUME IInv, GiveUp
  PROVE  IInv'
<1>1. /\ worker.at = "think" /\ Writes(Turn("uncertain", worker.turns, <<>>))
      /\ worker' = [worker EXCEPT !.at = "exited"] /\ UNCHANGED <<orchestrator, expired, stdin, down>>
  BY DEF GiveUp, Exit
<1>2. /\ Turn("uncertain", worker.turns, <<>>) \in UpMessage
      /\ Turn("uncertain", worker.turns, <<>>).type # "tool_calls"
  BY DEF Turn, UpMessage, IInv, Shapes
<1>3. /\ worker' \in [at : {"await", "exited"}, llm : 0..MaxTurns, turns : Nat, compressed : Nat,
                       calls : Seq(Kinds), then : {"none", "done", "uncertain"}]
      /\ worker'.at # "await"
  BY <1>1 DEF IInv, Shapes
<1> QED BY <1>1, <1>2, <1>3, WriteStep

LEMMA CompressStep ==
  ASSUME IInv, Compress
  PROVE  IInv'
<1>1. /\ worker.at = "think" /\ worker.llm < MaxTurns
      /\ UNCHANGED <<orchestrator, expired, stdin, down, up>> /\ UNCHANGED <<phase, turn>>
  BY DEF Compress, orchestrator
<1>2. PICK n \in {0, 1} :
         worker' = [worker EXCEPT !.llm = @ + 1, !.compressed = @ + 1, !.turns = @ + n]
  BY DEF Compress
<1>3. /\ MaxTurns \in Nat /\ worker.llm \in 0..MaxTurns /\ worker.turns \in Nat /\ worker.compressed \in Nat
      /\ worker.llm + 1 \in 0..MaxTurns /\ worker.turns + n \in Nat /\ worker.compressed + 1 \in Nat
  <2>1. MaxTurns \in Nat /\ worker.llm \in 0..MaxTurns /\ worker.turns \in Nat /\ worker.compressed \in Nat
    BY AgentAssumption DEF IInv, Shapes
  <2> QED BY <1>1, <2>1
<1>4. /\ worker' \in [at : {"unborn", "boot", "think", "await", "exited"}, llm : 0..MaxTurns,
                       turns : Nat, compressed : Nat, calls : Seq(Kinds),
                       then : {"none", "done", "uncertain"}]
      /\ worker'.at = "think" /\ worker'.calls = worker.calls
  BY <1>1, <1>2, <1>3 DEF IInv, Shapes
<1>5. up = <<>> /\ phase \notin {"setup", "init", "turn"} \union Handling
  BY <1>1 DEF IInv, PipesAreInStep, Handling, Running, Over
<1>6. PipesAreInStep'
  BY <1>1, <1>4, <1>5 DEF IInv, PipesAreInStep, Handling, Running, Over
<1>7. TurnIsTheWorkers' /\ ResultsAnswerTheTurn'
  BY <1>1, <1>4, <1>5 DEF TurnIsTheWorkers, ResultsAnswerTheTurn, Handling, Running
<1>8. up' \in Seq(UpMessage) /\ down' \in Seq(DownMessage)
  BY <1>1 DEF IInv, Shapes
<1> QED BY <1>1, <1>4, <1>6, <1>7, <1>8, WorkerStep

LEMMA AskForToolsStep ==
  ASSUME IInv, AskForTools
  PROVE  IInv'
<1>1. /\ worker.at = "think" /\ worker.llm < MaxTurns
      /\ UNCHANGED <<orchestrator, expired, stdin, down>>
  BY DEF AskForTools
<1>2. PICK calls \in Batches, then \in {"none", "done", "uncertain"} :
         /\ Writes(Turn("tool_calls", worker.turns + 1, calls))
         /\ worker' = [worker EXCEPT !.at = "await", !.turns = @ + 1, !.calls = calls, !.then = then]
  BY DEF AskForTools
<1>3. calls \in Seq(Kinds) /\ worker.turns + 1 \in Nat
  <2>1. worker.turns \in Nat
    BY DEF IInv, Shapes
  <2>2. calls \in Seq(Kinds)
    BY AgentAssumption
  <2> QED BY <2>1, <2>2
<1>4. /\ Turn("tool_calls", worker.turns + 1, calls) \in UpMessage
      /\ Turn("tool_calls", worker.turns + 1, calls).id = worker.turns + 1
      /\ Turn("tool_calls", worker.turns + 1, calls).calls = calls
  BY <1>3 DEF Turn, UpMessage
<1>5. /\ worker' \in [at : {"await", "exited"}, llm : 0..MaxTurns, turns : Nat, compressed : Nat,
                       calls : Seq(Kinds), then : {"none", "done", "uncertain"}]
      /\ worker'.llm < MaxTurns /\ worker'.turns = worker.turns + 1 /\ worker'.calls = calls
  BY <1>1, <1>2, <1>3 DEF IInv, Shapes
<1> QED BY <1>1, <1>2, <1>4, <1>5, WriteStep

LEMMA CompleteStep ==
  ASSUME IInv, Complete
  PROVE  IInv'
<1>1. /\ worker.at = "think" /\ worker' = [worker EXCEPT !.at = "exited", !.turns = @ + 1]
      /\ UNCHANGED <<orchestrator, expired, stdin, down>>
  BY DEF Complete
<1>2. PICK type \in {"done", "uncertain"} : Writes(Turn(type, worker.turns + 1, <<>>))
  BY DEF Complete
<1>3. worker.turns + 1 \in Nat
  BY DEF IInv, Shapes
<1>4. /\ Turn(type, worker.turns + 1, <<>>) \in UpMessage
      /\ Turn(type, worker.turns + 1, <<>>).type # "tool_calls"
  BY <1>3 DEF Turn, UpMessage
<1>5. /\ worker' \in [at : {"await", "exited"}, llm : 0..MaxTurns, turns : Nat, compressed : Nat,
                       calls : Seq(Kinds), then : {"none", "done", "uncertain"}]
      /\ worker'.at # "await"
  BY <1>1, <1>3 DEF IInv, Shapes
<1> QED BY <1>1, <1>2, <1>4, <1>5, WriteStep

LEMMA ReadResultsStep ==
  ASSUME IInv, ReadResults
  PROVE  IInv'
<1>1. worker.at = "await" /\ UNCHANGED <<orchestrator, expired, stdin>> /\ UNCHANGED <<phase, turn>>
  BY DEF ReadResults, orchestrator
<1>2. CASE Exit /\ UNCHANGED up
  BY <1>1, <1>2, ExitStep DEF ReadResults
<1>3. ASSUME down # <<>>, down' = Tail(down), Head(down).type = "tool_results"
      PROVE  /\ up = <<>> /\ phase \notin {"setup", "init", "turn"} \union Handling
             /\ phase = "receive" => down' = <<>>
             /\ down' \in Seq(DownMessage) /\ Len(down') <= 1 /\ Len(down') \in Nat
             /\ down' # <<>> => Head(down').type = "terminate" /\ phase \in {"shut"} \union Over
             /\ \A i \in DOMAIN down' : down' # <<>>
  <2>1. /\ down' \in Seq(DownMessage) /\ Len(down') <= 1
        /\ Len(down) <= 1 => down' = <<>>
        /\ down' # <<>> => Head(down').type = "terminate" /\ phase \in {"shut"} \union Over
    BY <1>3, DownAfterRead
  <2>2. Len(down') \in Nat /\ \A i \in DOMAIN down' : down' # <<>>
    BY <2>1
  <2>3. /\ up = <<>> /\ phase # "setup" /\ phase # "init" /\ phase \notin {"turn"} \union Handling
        /\ phase = "receive" => Len(down) <= 1
    <3>1. worker.at # "unborn" /\ worker.at # "boot" /\ worker.at # "exited"
      BY <1>1
    <3> QED BY <1>1, <1>3, <3>1, Zenon DEF IInv, PipesAreInStep
  <2> QED BY <2>1, <2>2, <2>3
<1>4. CASE /\ down # <<>> /\ down' = Tail(down) /\ Head(down).type = "tool_results" /\ UNCHANGED up
           /\ worker' = [worker EXCEPT !.at = "think", !.llm = @ + 1, !.calls = <<>>]
  <2>1. worker.llm + 1 \in 0..MaxTurns
    <3>1. worker.llm < MaxTurns /\ worker.llm \in 0..MaxTurns /\ MaxTurns \in Nat
      BY <1>1, AgentAssumption DEF IInv, BudgetAllows, Shapes
    <3> QED BY <3>1
  <2>2. /\ worker' \in [at : {"unborn", "boot", "think", "await", "exited"}, llm : 0..MaxTurns,
                         turns : Nat, compressed : Nat, calls : Seq(Kinds),
                         then : {"none", "done", "uncertain"}]
        /\ worker'.at = "think"
    <3>1. worker \in [at : {"unborn", "boot", "think", "await", "exited"}, llm : 0..MaxTurns,
                       turns : Nat, compressed : Nat, calls : Seq(Kinds),
                       then : {"none", "done", "uncertain"}]
      BY DEF IInv, Shapes
    <3>2. <<>> \in Seq(Kinds) /\ worker.llm + 1 \in 0..MaxTurns
      BY <2>1
    <3> QED BY <1>4, <3>1, <3>2
  <2>3. PipesAreInStep'
    <3>1. up' = <<>> /\ Len(up') <= 1
      BY <1>3, <1>4
    <3> QED BY <1>1, <1>3, <1>4, <2>2, <3>1, InStepAfterRead
  <2>4. TurnIsTheWorkers' /\ ResultsAnswerTheTurn'
    BY <1>1, <1>3, <1>4, <2>2 DEF TurnIsTheWorkers, ResultsAnswerTheTurn, Handling, Running
  <2>5. up' \in Seq(UpMessage)
    BY <1>4 DEF IInv, Shapes
  <2> QED BY <1>1, <1>3, <1>4, <2>2, <2>3, <2>4, <2>5, WorkerStep
<1>5. CASE /\ down # <<>> /\ down' = Tail(down) /\ Head(down).type = "tool_results" /\ Exit
           /\ worker.then # "none" /\ Writes(Turn(worker.then, worker.turns, <<>>))
  <2>1. /\ worker' \in [at : {"unborn", "boot", "think", "await", "exited"}, llm : 0..MaxTurns,
                         turns : Nat, compressed : Nat, calls : Seq(Kinds),
                         then : {"none", "done", "uncertain"}]
        /\ worker'.at = "exited"
    BY <1>5 DEF IInv, Shapes, Exit
  <2>2. /\ Turn(worker.then, worker.turns, <<>>) \in UpMessage
        /\ Turn(worker.then, worker.turns, <<>>).type # "tool_calls"
    BY <1>5 DEF Turn, UpMessage, IInv, Shapes
  <2>3. /\ up' = <<Turn(worker.then, worker.turns, <<>>)>> /\ up' \in Seq(UpMessage)
        /\ Len(up') = 1 /\ Head(up').type # "tool_calls"
    <3>1. PICK m : m = Turn(worker.then, worker.turns, <<>>)
      OBVIOUS
    <3>2. up' = <<m>>
      <4>1. up = <<>>
        BY <1>3, <1>5
      <4>2. up' = Append(up, m)
        BY <1>5, <3>1 DEF Writes
      <4> QED BY <4>1, <4>2
    <3>3. m \in UpMessage /\ m.type # "tool_calls"
      BY <2>2, <3>1
    <3> QED BY <3>1, <3>2, <3>3
  <2>4. PipesAreInStep'
    BY <1>1, <1>3, <1>5, <2>1, <2>3, InStepAfterRead
  <2>5. TurnIsTheWorkers' /\ ResultsAnswerTheTurn'
    BY <1>1, <1>3, <1>5, <2>1, <2>3 DEF TurnIsTheWorkers, ResultsAnswerTheTurn, Handling, Running
  <2> QED BY <1>1, <1>3, <1>5, <2>1, <2>3, <2>4, <2>5, WorkerStep
<1> QED BY <1>2, <1>4, <1>5 DEF ReadResults

\* The watchdog and a crash.
LEMMA WorkerEndsStep ==
  ASSUME IInv, Watchdog \/ WorkerDies
  PROVE  IInv'
<1>1. worker.at # "unborn" /\ Exit /\ UNCHANGED <<orchestrator, expired, stdin, up, down>>
  BY DEF Watchdog, WorkerDies, Alive, pipes
<1> QED BY <1>1, ExitStep

\* The loop counts a turn: a turn is received only while turns and tokens are left.
LEMMA RecordTurnFits ==
  ASSUME IInv, phase = "turn", NEW cost \in Costs, NEW b, b = RecordTurn(budget, cost)
  PROVE  /\ b \in [turns : 0..MaxTurns, spent : Nat, tools : 0..MaxToolCalls,
                    delegated : 0..Pool, reserved : Nat, consults : 0..MaxConsults]
         /\ b.tools = budget.tools
         /\ b.spent <= Base - 1 + Max({Max(Costs), Max(Costs) - Headroom + 1})
<1>1. budget.turns < MaxTurns /\ budget.spent < Base /\ cost \in Nat /\ MaxTurns \in Nat
  BY AgentAssumption DEF IInv, BudgetAllows
<1>2. budget.turns \in 0..MaxTurns /\ budget.spent \in Nat
  BY DEF IInv, Shapes
<1>3. budget.turns + 1 \in 0..MaxTurns /\ budget.spent + cost \in Nat
  BY <1>1, <1>2
<1>4. b = [budget EXCEPT !.turns = @ + 1, !.spent = @ + cost]
  BY DEF RecordTurn
<1>5. b.spent = budget.spent + cost
  BY <1>4 DEF IInv, Shapes
<1>6. b.spent <= Base - 1 + Max({Max(Costs), Max(Costs) - Headroom + 1})
  BY <1>1, <1>2, <1>5, OverdraftIsWithin
<1> QED BY <1>3, <1>4, <1>6 DEF IInv, Shapes

\* A message goes to the worker, and the loop waits for a turn or closes.
LEMMA SentStep ==
  ASSUME IInv, phase \in {"init", "calls"}, NEW message \in DownMessage, Sent(message),
         message.type # "terminate",
         message.type = "tool_results" =>
            /\ phase = "calls" /\ message.id = worker.turns
            /\ ToSet(message.calls) = DOMAIN worker.calls /\ IsInjective(message.calls),
         phase' = Ahead(budget), UNCHANGED <<why, overlay, budget, violations, expired, worker>>,
         turn' \in {turn, NoTurn}, results' \in {results, <<>>}
  PROVE  IInv'
<1>1. session' = "WAITING_FOR_WORKER" /\ down' = Append(down, message) /\ UNCHANGED <<stdin, up>>
  BY DEF Sent
<1>2. /\ up = <<>> /\ down = <<>>
      /\ phase = "init" => worker.at \in {"boot", "exited"}
      /\ phase = "calls" => worker.at \in {"await", "exited"}
  BY DEF IInv, PipesAreInStep, Handling
<1>3. down' = <<message>> /\ down' \in Seq(DownMessage) /\ Len(down') = 1 /\ Head(down') = message
      /\ \A i \in DOMAIN down' : down'[i] = message
  <2>1. down' = <<message>>
    BY <1>1, <1>2
  <2> QED BY <2>1
<1>4. phase' \in {"receive", "close"} /\ (phase' = "receive" => CanContinue(budget))
  BY DEF Ahead
<1>5. Shapes'
  <2>1. /\ turn' \in [type : {"none", "tool_calls", "done", "uncertain"}, id : Nat, calls : Seq(Kinds)]
        /\ results' \in Seq(Nat)
    BY NothingIsTyped DEF IInv, Shapes
  <2> QED BY <1>1, <1>3, <2>1 DEF IInv, Shapes
<1>6. TypeOKAgent'
  <2>1. Len(up') <= 1 /\ Len(down') <= 2
    BY <1>1, <1>2, <1>3
  <2>2. stdin' \in BOOLEAN
    BY <1>1 DEF IInv, TypeOKAgent
  <2> QED BY <1>1, <1>4, <2>1, <2>2 DEF IInv, TypeOKAgent
<1>7. BudgetAllows' /\ KillIsFinal'
  BY <1>4 DEF IInv, BudgetAllows, CanContinue, KillIsFinal, Over
<1>8. PipesAreInStep'
  <2>1. Len(up') <= 1 /\ Len(down') <= 1 /\ ~(Len(down') = 2) /\ Len(down') <= 2 /\ up' = <<>>
    BY <1>1, <1>2, <1>3
  <2>2. \A i \in DOMAIN down' : down'[i].type # "terminate"
    BY <1>3
  <2>3. /\ worker'.at # "unborn" /\ worker'.at # "think"
        /\ worker'.at = "boot" => Head(down').type # "tool_results"
    BY <1>2, <1>3
  <2>4. phase' # "setup" /\ phase' # "init" /\ phase' \notin {"turn"} \union Handling'
    BY <1>4 DEF Handling, Running
  <2> QED BY <2>1, <2>2, <2>3, <2>4, Zenon DEF PipesAreInStep
<1>9. TurnIsTheWorkers' /\ ResultsAnswerTheTurn'
  BY <1>1, <1>2, <1>3, <1>4 DEF TurnIsTheWorkers, ResultsAnswerTheTurn, Handling, Running
<1>10. AnswersInOrder' /\ OverdraftIsBounded'
  BY <1>4 DEF IInv, AnswersInOrder, OverdraftIsBounded, Handling, Running
<1> QED BY <1>5, <1>6, <1>7, <1>8, <1>9, <1>10 DEF IInv

\* The write fails because the worker has ended.
LEMMA PipeClosedStep ==
  ASSUME IInv, phase \in {"init", "calls"}, PipeClosed,
         UNCHANGED <<budget, violations, expired, worker>>,
         turn' \in {turn, NoTurn}, results' \in {results, <<>>}
  PROVE  IInv'
<1>1. /\ worker.at = "exited" /\ session' = "CLOSED" /\ phase' = "returned" /\ why' = "thrown"
      /\ overlay' = FALSE /\ UNCHANGED <<stdin, down, up>>
  BY DEF PipeClosed, pipes
<1>2. up = <<>> /\ down = <<>>
  BY DEF IInv, PipesAreInStep, Handling
<1>3. PipesAreInStep' /\ TurnIsTheWorkers' /\ ResultsAnswerTheTurn'
  BY <1>1, <1>2 DEF PipesAreInStep, TurnIsTheWorkers, ResultsAnswerTheTurn, Handling, Running, Over
<1>4. ~(violations > Tolerance) /\ phase \notin Over
  BY DEF IInv, KillIsFinal, Over
<1>5. stdin' \in BOOLEAN /\ up' \in Seq(UpMessage) /\ down' \in Seq(DownMessage)
  BY <1>1 DEF IInv, TypeOKAgent, Shapes
<1> QED BY <1>1, <1>3, <1>4, <1>5, QuietLoopStep

LEMMA SendInitStep ==
  ASSUME IInv, SendInit
  PROVE  IInv'
<1>1. Turn("init", 0, <<>>) \in DownMessage /\ Turn("init", 0, <<>>).type = "init"
  BY DEF Turn, DownMessage
<1>2. phase = "init" /\ UNCHANGED <<turn, results, budget, violations, expired, worker>>
  BY DEF SendInit
<1>3. CASE Sent(Turn("init", 0, <<>>)) /\ phase' = Ahead(budget) /\ UNCHANGED <<why, overlay>>
  BY <1>1, <1>2, <1>3, SentStep
<1>4. CASE PipeClosed
  BY <1>2, <1>4, PipeClosedStep
<1> QED BY <1>3, <1>4 DEF SendInit

LEMMA ReplyStep ==
  ASSUME IInv, Reply
  PROVE  IInv'
<1>1. /\ phase = "calls" /\ At > Len(turn.calls) /\ turn' = NoTurn /\ results' = <<>>
      /\ UNCHANGED <<budget, violations, expired, worker>>
  BY DEF Reply
<1>2. CASE /\ Sent(Turn("tool_results", turn.id, results)) /\ phase' = Ahead(budget)
           /\ UNCHANGED <<why, overlay>>
  <2>1. PICK m : m = Turn("tool_results", turn.id, results)
    OBVIOUS
  <2>2. m \in DownMessage /\ m.type = "tool_results" /\ m.id = turn.id /\ m.calls = results
    BY <2>1 DEF Turn, DownMessage, IInv, Shapes
  <2>3. m.id = worker.turns /\ ToSet(m.calls) = DOMAIN worker.calls /\ IsInjective(m.calls)
    BY <1>1, <2>2, AllAnswered
  <2>4. Sent(m)
    BY <1>2, <2>1
  <2> QED BY <1>1, <1>2, <2>2, <2>3, <2>4, SentStep
<1>3. CASE PipeClosed
  BY <1>1, <1>3, PipeClosedStep
<1> QED BY <1>2, <1>3 DEF Reply

LEMMA ReceiveTurnStep ==
  ASSUME IInv, ReceiveTurn
  PROVE  IInv'
<1>1. /\ phase = "receive" /\ phase' = "turn" /\ up # <<>> /\ turn' = Head(up) /\ up' = Tail(up)
      /\ session' = "WAITING_FOR_ORCHESTRATOR"
      /\ UNCHANGED <<why, results, budget, violations, expired, overlay, stdin, down, worker>>
  BY DEF ReceiveTurn
<1>2. up' = <<>> /\ Head(up) \in UpMessage
  <2>1. up \in Seq(UpMessage) /\ Len(up) <= 1
    BY DEF IInv, Shapes, PipesAreInStep
  <2> QED BY <1>1, <2>1, TailOfPipe
<1>3. down = <<>> /\ worker.at \in {"await", "exited"}
  <2>1. worker.at \in {"unborn", "boot", "think", "await", "exited"}
    BY DEF IInv, Shapes
  <2> QED BY <1>1, <2>1 DEF IInv, PipesAreInStep, Over
<1>4. Shapes'
  <2>1. PICK m : m = Head(up)
    OBVIOUS
  <2>2. m \in [type : {"none", "tool_calls", "done", "uncertain"}, id : Nat, calls : Seq(Kinds)]
    BY <1>2, <2>1 DEF UpMessage
  <2>3. turn' = m /\ up' = <<>> /\ up' \in Seq(UpMessage)
    BY <1>1, <1>2, <2>1, EmptySeq
  <2> QED BY <1>1, <2>2, <2>3 DEF IInv, Shapes
<1>5. TypeOKAgent'
  <2>1. Len(up') <= 1
    BY <1>2, EmptySeq
  <2>2. phase' \in {"setup", "init", "receive", "turn", "calls", "close", "shut"} \union Running \union Over
    BY <1>1
  <2> QED BY <1>1, <2>1, <2>2 DEF IInv, TypeOKAgent
<1>6. BudgetAllows' /\ KillIsFinal' /\ OverdraftIsBounded' /\ AnswersInOrder'
  BY <1>1 DEF IInv, BudgetAllows, KillIsFinal, OverdraftIsBounded, AnswersInOrder, Handling, Running, Over
<1>7. PipesAreInStep'
  <2>1. phase' = "turn" /\ worker'.at \in {"await", "exited"} /\ up' = <<>> /\ down' = <<>>
    BY <1>1, <1>2, <1>3
  <2>2. \A i \in DOMAIN down' : FALSE
    BY <2>1
  <2>3. Len(up') <= 1 /\ Len(down') <= 2 /\ ~(Len(down') = 2)
    BY <2>1
  <2> QED BY <2>1, <2>2, <2>3 DEF PipesAreInStep, Handling, Running, Over
<1>8. TurnIsTheWorkers'
  BY <1>1, <1>2 DEF IInv, TurnIsTheWorkers, Handling, Running
<1>9. ResultsAnswerTheTurn'
  BY <1>1, <1>3 DEF ResultsAnswerTheTurn
<1> QED BY <1>4, <1>5, <1>6, <1>7, <1>8, <1>9 DEF IInv

LEMMA LastTurnStep ==
  ASSUME IInv, LastTurn
  PROVE  IInv'
<1>1. /\ phase = "turn" /\ phase' = "shut" /\ turn.type \in {"done", "uncertain"} /\ why' = turn.type
      /\ stdin' = FALSE
      /\ UNCHANGED <<session, turn, results, violations, expired, overlay, down, up, worker>>
  BY DEF LastTurn
<1>2. PICK cost \in Costs : budget' = RecordTurn(budget, cost)
  BY DEF LastTurn
<1>3. /\ budget' \in [turns : 0..MaxTurns, spent : Nat, tools : 0..MaxToolCalls,
                       delegated : 0..Pool, reserved : Nat, consults : 0..MaxConsults]
      /\ budget'.spent <= Base - 1 + Max({Max(Costs), Max(Costs) - Headroom + 1})
  BY <1>1, <1>2, RecordTurnFits
<1>4. Shapes'
  BY <1>1, <1>3 DEF IInv, Shapes
<1>5. TypeOKAgent'
  <2>1. /\ budget'.turns \in 0..MaxTurns /\ budget'.tools \in 0..MaxToolCalls
        /\ budget'.delegated \in 0..Pool /\ budget'.consults \in 0..MaxConsults
    BY <1>3
  <2> QED BY <1>1, <2>1 DEF IInv, TypeOKAgent
<1>6. BudgetAllows' /\ KillIsFinal' /\ AnswersInOrder'
  BY <1>1 DEF IInv, BudgetAllows, KillIsFinal, AnswersInOrder, Handling, Running, Over
<1>7. OverdraftIsBounded'
  BY <1>3 DEF OverdraftIsBounded
<1>8. PipesAreInStep' /\ TurnIsTheWorkers' /\ ResultsAnswerTheTurn'
  BY <1>1 DEF IInv, PipesAreInStep, TurnIsTheWorkers, ResultsAnswerTheTurn, Handling, Running, Over
<1> QED BY <1>4, <1>5, <1>6, <1>7, <1>8 DEF IInv

\* A turn with tools: the calls beyond the limits are answered first.
LEMMA ToolCallsStep ==
  ASSUME IInv, ToolCalls
  PROVE  IInv'
<1>1. /\ phase = "turn" /\ phase' = "calls" /\ turn.type = "tool_calls"
      /\ UNCHANGED <<why, session, violations, expired, overlay, stdin, down, up, worker>>
  BY DEF ToolCalls
<1>2. PICK a : a = Allowed(turn.calls)
  OBVIOUS
<1>3. /\ turn \in [type : {"none", "tool_calls", "done", "uncertain"}, id : Nat, calls : Seq(Kinds)]
      /\ turn.id = worker.turns /\ turn.calls = worker.calls
  BY <1>1 DEF IInv, Shapes, TurnIsTheWorkers
<1>4. PICK n : n = Len(turn.calls)
  OBVIOUS
<1>5. n \in Nat /\ a \in 0..n /\ a \in Nat /\ budget.tools + a \in 0..MaxToolCalls
  <2>1. turn.calls \in Seq(Kinds) /\ Shapes
    BY <1>3 DEF IInv
  <2>2. a \in 0..n /\ budget.tools + a \in 0..MaxToolCalls /\ n \in Nat
    BY <1>2, <1>4, <2>1, AllowedIsWithin
  <2> QED BY <2>2
<1>6. PICK cost \in Costs : budget' = [RecordTurn(budget, cost) EXCEPT !.tools = @ + a]
  BY <1>2 DEF ToolCalls
<1>7. results' = [i \in 1..n - a |-> a + i] /\ turn' = [turn EXCEPT !.calls = SubSeq(@, 1, a)]
  BY <1>2, <1>4 DEF ToolCalls
<1>8. /\ budget' \in [turns : 0..MaxTurns, spent : Nat, tools : 0..MaxToolCalls,
                       delegated : 0..Pool, reserved : Nat, consults : 0..MaxConsults]
      /\ budget'.spent <= Base - 1 + Max({Max(Costs), Max(Costs) - Headroom + 1})
  <2>1. PICK b : b = RecordTurn(budget, cost)
    OBVIOUS
  <2>2. /\ b \in [turns : 0..MaxTurns, spent : Nat, tools : 0..MaxToolCalls,
                   delegated : 0..Pool, reserved : Nat, consults : 0..MaxConsults]
        /\ b.tools = budget.tools
        /\ b.spent <= Base - 1 + Max({Max(Costs), Max(Costs) - Headroom + 1})
    BY <1>1, <2>1, RecordTurnFits
  <2>3. budget' = [b EXCEPT !.tools = @ + a] /\ b.tools + a \in 0..MaxToolCalls
    BY <1>5, <1>6, <2>1, <2>2
  <2>4. budget' \in [turns : 0..MaxTurns, spent : Nat, tools : 0..MaxToolCalls,
                     delegated : 0..Pool, reserved : Nat, consults : 0..MaxConsults]
        /\ budget'.spent = b.spent
    BY <2>2, <2>3
  <2> QED BY <2>2, <2>4
<1>9. /\ turn' \in [type : {"none", "tool_calls", "done", "uncertain"}, id : Nat, calls : Seq(Kinds)]
      /\ Len(turn'.calls) = a /\ turn'.id = turn.id
  <2>1. PICK s : s = SubSeq(turn.calls, 1, a)
    OBVIOUS
  <2>2. s \in Seq(Kinds) /\ Len(s) = a
    <3>1. turn.calls \in Seq(Kinds) /\ \A i \in 1..a : i \in 1..Len(turn.calls)
      BY <1>3, <1>4, <1>5
    <3> QED BY <1>4, <1>5, <2>1, <3>1, SubSeqProperties
  <2>3. turn' = [turn EXCEPT !.calls = s]
    BY <1>7, <2>1
  <2> QED BY <1>3, <2>2, <2>3
<1>10. /\ results' \in Seq(Nat) /\ IsInjective(results')
       /\ ToSet(results') = (1..0) \union (a + 1 .. n)
  <2>1. n - a \in Nat /\ \A i \in 1..n - a : a + i \in Nat
    BY <1>5
  <2>2. results' \in Seq(Nat) /\ DOMAIN results' = 1..n - a /\ \A i \in 1..n - a : results'[i] = a + i
    BY <1>7, <2>1
  <2>3. IsInjective(results')
    BY <1>5, <2>1, <2>2 DEF IsInjective
  <2>4. \A x \in ToSet(results') : x \in a + 1 .. n
    BY <1>5, <2>1, <2>2 DEF ToSet
  <2>5. \A x \in a + 1 .. n : x - a \in 1..n - a /\ a + (x - a) = x
    BY <1>5
  <2>6. \A x \in a + 1 .. n : x \in ToSet(results')
    BY <2>2, <2>5 DEF ToSet
  <2>7. 1..0 = {}
    OBVIOUS
  <2> QED BY <2>2, <2>3, <2>4, <2>6, <2>7
<1>11. AnswersInOrder'
  <2>1. Len(worker'.calls) = n
    BY <1>1, <1>3, <1>4
  <2>2. AnsweredUpTo(0)'
    BY <1>9, <1>10, <2>1 DEF AnsweredUpTo
  <2>3. 0 \in 0..Len(turn'.calls) /\ phase' \notin Running
    BY <1>1, <1>5, <1>9 DEF Running
  <2> QED BY <1>10, <2>2, <2>3 DEF AnswersInOrder
<1>12. Shapes'
  BY <1>1, <1>8, <1>9, <1>10 DEF IInv, Shapes
<1>13. TypeOKAgent'
  <2>1. /\ budget'.turns \in 0..MaxTurns /\ budget'.tools \in 0..MaxToolCalls
        /\ budget'.delegated \in 0..Pool /\ budget'.consults \in 0..MaxConsults
    BY <1>8
  <2> QED BY <1>1, <2>1 DEF IInv, TypeOKAgent
<1>14. BudgetAllows' /\ KillIsFinal' /\ OverdraftIsBounded'
  BY <1>1, <1>8 DEF IInv, BudgetAllows, KillIsFinal, OverdraftIsBounded, Over
<1>15. PipesAreInStep' /\ ResultsAnswerTheTurn'
  BY <1>1 DEF IInv, PipesAreInStep, ResultsAnswerTheTurn, Handling, Running, Over
<1>16. TurnIsTheWorkers'
  <2>1. up' = <<>>
    BY <1>1 DEF IInv, PipesAreInStep
  <2>2. turn'.id = worker'.turns /\ Len(turn'.calls) <= Len(worker'.calls)
    BY <1>1, <1>3, <1>4, <1>5, <1>9
  <2> QED BY <1>1, <2>1, <2>2 DEF TurnIsTheWorkers
<1> QED BY <1>8, <1>11, <1>12, <1>13, <1>14, <1>15, <1>16 DEF IInv

LEMMA NextIInv ==
  ASSUME IInv, [NextAgent]_vars
  PROVE  IInv'
<1>1. CASE Loop
  BY <1>1, NoProxyStep, SpawnStep, SendInitStep, ReceiveTurnStep, ReceiveNullStep, ToolCallsStep,
     ViolationStep, DeniedStep, RunToolStep, DelegateStep, ConsultStep, ReplyStep, LastTurnStep,
     CloseStep, ShutdownStep DEF Loop
<1>2. CASE Awaited
  BY <1>2, ToolReturnsStep, ChildReturnsStep, PeerReturnsStep DEF Awaited
<1>3. CASE Worker
  BY <1>3, BootStep, GiveUpStep, CompressStep, AskForToolsStep, CompleteStep, ReadResultsStep
  DEF Worker
<1>4. CASE Deadline
  <2>1. UNCHANGED <<orchestrator, pipes, worker>> /\ expired' \in BOOLEAN
    BY <1>4 DEF Deadline
  <2> QED BY <2>1, DeadlineStep
<1>5. CASE OrchestratorDies
  BY <1>5, OrchestratorDiesStep
<1>6. CASE Watchdog \/ WorkerDies
  BY <1>6, WorkerEndsStep
<1>7. CASE UNCHANGED vars
  <2>1. UNCHANGED <<orchestrator, pipes, worker>> /\ expired' = expired
    BY <1>7 DEF vars, orchestrator, pipes
  <2>2. expired' \in BOOLEAN
    BY <2>1 DEF IInv, TypeOKAgent
  <2> QED BY <2>1, <2>2, DeadlineStep
<1> QED BY <1>1, <1>2, <1>3, <1>4, <1>5, <1>6, <1>7 DEF NextAgent

-----------------------------------------------------------------------------
(* The results *)

\* IInv holds in every state of every session.
THEOREM AgentInvariant == SpecAgent => []IInv
<1>1. InitAgent => IInv
  BY InitIInv
<1>2. IInv /\ [NextAgent]_vars => IInv'
  BY NextIInv
<1> QED BY <1>1, <1>2, PTL DEF SpecAgent

\* The state of a session, of its budget (agent-budget.ts) and of its pipes has
\* its type, whatever the limits of the contract.
THEOREM TypeCorrect == SpecAgent => []TypeOKAgent
<1>1. IInv => TypeOKAgent
  BY DEF IInv
<1> QED BY <1>1, AgentInvariant, PTL

\* The base pool is overdrawn by one charge at most (canContinue and canConsult
\* of agent-budget.ts look at the tokens before a turn or a consultation, and
\* charge for it after).
THEOREM OverdraftBounded == SpecAgent => []OverdraftIsBounded
<1>1. IInv => OverdraftIsBounded
  BY DEF IInv
<1> QED BY <1>1, AgentInvariant, PTL

\* Every call of a turn is answered once, to the turn that made it, and a session
\* killed for its violations (agent-loop.ts, the contract check) starts nothing
\* more and spends nothing more.
THEOREM EveryCallIsAccounted == SpecAgent => CallsAreAccounted
<1>1. IInv => ResultsAnswerTheTurn
  BY DEF IInv
<1>2. ASSUME IInv, [NextAgent]_vars, violations > Tolerance
      PROVE  phase' \notin Running /\ budget' = budget
  <2>1. phase \in Over
    BY <1>2 DEF IInv, KillIsFinal
  <2>2. phase \notin {"setup", "init", "receive", "turn", "calls", "close", "shut"} \union Running
    BY <2>1 DEF Over, Running
  <2>3. ~Loop /\ ~Awaited
    BY <2>2 DEF Loop, Awaited, NoProxy, Spawn, SendInit, ReceiveTurn, ReceiveNull, ToolCalls, Violation,
                Denied, RunTool, Delegate, Consult, Reply, LastTurn, Close, Shutdown, Calling,
                ToolReturns, ChildReturns, PeerReturns, Running
  <2>4. CASE Worker \/ Watchdog \/ WorkerDies
    <3>1. UNCHANGED orchestrator
      BY <2>4 DEF Worker, Boot, GiveUp, Compress, AskForTools, Complete, ReadResults, Watchdog, WorkerDies
    <3> QED BY <2>2, <3>1 DEF orchestrator
  <2>5. CASE Deadline
    BY <2>2, <2>5 DEF Deadline, orchestrator
  <2>6. CASE OrchestratorDies
    BY <2>6 DEF OrchestratorDies, Running
  <2>7. CASE UNCHANGED vars
    BY <2>2, <2>7 DEF vars
  <2> QED BY <1>2, <2>3, <2>4, <2>5, <2>6, <2>7 DEF NextAgent
<1>3. IInv /\ [NextAgent]_vars => [violations > Tolerance => phase' \notin Running /\ budget' = budget]_vars
  BY <1>2
<1> QED BY <1>1, <1>3, AgentInvariant, PTL DEF SpecAgent, CallsAreAccounted, KillStopsTools

=============================================================================
