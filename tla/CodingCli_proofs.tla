--------------------------- MODULE CodingCli_proofs ---------------------------
(***************************************************************************)
(* Proofs for the approval gate and for the coding CLI's sessions, which   *)
(* ask it.                                                                 *)
(*                                                                         *)
(* ApprovalGate: for any requests, slots and tasks and any number of       *)
(* crashes and SQLite errors, promises, slots and ledger rows agree, a row *)
(* left behind by another process is never adopted, and a grant is on      *)
(* record.                                                                 *)
(*                                                                         *)
(* CodingCli: for any prompts, any policy and any SQLite errors, a session *)
(* is completed only on the verifier's word, a prompt is allowed only on a *)
(* human's or the policy's, and an end is an end.                          *)
(***************************************************************************)
EXTENDS CodingCli, FiniteSetTheorems, SequenceTheorems, TLAPS

-----------------------------------------------------------------------------
(* The gate: what its steps preserve *)

\* Two open rows of one slot are the same row: OneOpenRow without the counting.
OneRow ==
    \A r, q \in Requests :
        row[r] = "pending" /\ row[q] = "pending" /\ asked[r] = asked[q] => r = q

\* A request has a slot once it has been made, and no row before.
RowsAreAsked ==
    \A r \in Requests :
        /\ answer[r] = "unasked" => asked[r] = NoSlot /\ row[r] = "none"
        /\ answer[r] # "unasked" => asked[r] \in Slots

\* Promises die with their process.
DeadHoldNothing == process = "down" => \A r \in Requests : answer[r] # "waiting"

\* A row is as old as its process; the open row of a waiting slot was written by
\* this process, and a promise this process lost has seen its end.
RowsHaveAge ==
    \A r \in Requests :
        /\ born[r] <= epoch
        /\ row[r] = "pending" /\ pending[asked[r]] # {} => born[r] = epoch
        /\ answer[r] = "lost" /\ row[r] # "none" /\ born[r] = epoch => process = "down"

\* The inductive invariant.  RowsHaveAge is what NoAdoption rests on: a waiting
\* slot was opened when the ledger had no open row of it.
IInv ==
    /\ TypeOK
    /\ WaitingIsHeld
    /\ OneRow
    /\ RowsAreAsked
    /\ DeadHoldNothing
    /\ RowsHaveAge
    /\ OpenRowIsLiveOrOrphan

\* The assumptions the types rest on.
LEMMA Constants == MaxCrashes \in Nat /\ MaxFaults \in Nat /\ NoSlot \notin Slots
  BY SlotsAssumption, BoundsAssumption

-----------------------------------------------------------------------------

\* A slot's open rows can be counted, since there is one at most.
LEMMA OpenIsFinite ==
  ASSUME OneRow, NEW s \in Slots
  PROVE  IsFiniteSet(Open(s)) /\ Cardinality(Open(s)) <= 1
<1>1. CASE Open(s) = {}
  BY <1>1, FS_EmptySet
<1>2. CASE Open(s) # {}
  <2>1. PICK r \in Open(s) : TRUE
    BY <1>2
  <2>2. Open(s) = {r}
    BY <2>1 DEF OneRow, Open
  <2>3. IsFiniteSet({r}) /\ Cardinality({r}) = 1
    BY FS_Singleton
  <2> QED BY <2>2, <2>3
<1> QED BY <1>1, <1>2

\* The open rows and the resolvers of several slots.
OpenIn(S) == UNION {Open(s) : s \in S}
HeldIn(S) == UNION {pending[s] : s \in S}

LEMMA OpenInOne ==
  ASSUME OneRow, NEW s \in Slots
  PROVE  OpenIn({s}) = Open(s) /\ HeldIn({s}) = pending[s] /\ IsFiniteSet(OpenIn({s}))
<1>1. OpenIn({s}) = Open(s) /\ HeldIn({s}) = pending[s]
  BY DEF OpenIn, HeldIn
<1> QED BY <1>1, OpenIsFinite

\* Closing slots writes the status to all their open rows, or SQLite failed on
\* some of them.
LEMMA CloseWrites ==
  ASSUME TypeOK, NEW S, IsFiniteSet(OpenIn(S)), NEW status, NEW decision,
         Close(S, status, decision)
  PROVE  /\ faults' \in 0 .. faults
         /\ row' = [r \in Requests |-> row'[r]]
         /\ \A r \in Requests : row'[r] # row[r] => r \in OpenIn(S) /\ row'[r] = status
         /\ faults' = faults => \A r \in OpenIn(S) : row'[r] = status
<1>1. PICK failed \in SUBSET OpenIn(S) :
        /\ Cardinality(failed) <= faults
        /\ faults' = faults - Cardinality(failed)
        /\ row' = [r \in Requests |-> IF r \in OpenIn(S) \ failed THEN status ELSE row[r]]
  BY Zenon DEF Close, LedgerResolve, SetStatus, OpenIn
<1>2. OpenIn(S) \subseteq Requests
  BY DEF OpenIn, Open
<1>3. IsFiniteSet(failed)
  BY FS_Subset
<1>4. Cardinality(failed) \in Nat /\ (Cardinality(failed) = 0 => failed = {})
  BY <1>3, FS_CardinalityType, FS_EmptySet
<1>5. faults \in Nat
  BY Constants DEF TypeOK
<1>6. faults' \in 0 .. faults /\ (faults' = faults => Cardinality(failed) = 0)
  BY <1>1, <1>4, <1>5
<1>7. /\ row' = [r \in Requests |-> row'[r]]
      /\ \A r \in Requests : row'[r] # row[r] => r \in OpenIn(S) /\ row'[r] = status
  BY <1>1
<1>8. ASSUME faults' = faults PROVE \A r \in OpenIn(S) : row'[r] = status
  BY <1>1, <1>2, <1>4, <1>6, <1>8
<1> QED BY <1>6, <1>7, <1>8

\* The rest of what closing slots does.
LEMMA CloseSettles ==
  ASSUME NEW S, NEW status, NEW decision, Close(S, status, decision)
  PROVE  /\ process # "down"
         /\ pending' = [x \in Slots |-> IF x \in S THEN {} ELSE pending[x]]
         /\ answer' = [r \in Requests |-> IF r \in HeldIn(S) THEN decision ELSE answer[r]]
         /\ UNCHANGED <<process, epoch, asked, born>>
  BY Zenon DEF Close, SettleAll, Running, HeldIn

-----------------------------------------------------------------------------

LEMMA InitIInv == Init => IInv
<1> SUFFICES ASSUME Init PROVE IInv
  OBVIOUS
<1>1. TypeOK
  BY Constants DEF Init, TypeOK
<1>2. epoch = 0 /\ \A r \in Requests : born[r] = 0 /\ row[r] = "none" /\ answer[r] = "unasked"
  BY DEF Init
<1> QED
  BY <1>1, <1>2 DEF Init, IInv, WaitingIsHeld, OneRow, RowsAreAsked, DeadHoldNothing,
     RowsHaveAge, OpenRowIsLiveOrOrphan

LEMMA AttachStep ==
  ASSUME IInv, NEW r \in Requests, NEW s \in Slots, Running, answer[r] = "unasked",
         asked' = [asked EXCEPT ![r] = s], Attach(r, s), UNCHANGED <<process, epoch>>
  PROVE  IInv'
<1> USE Constants DEF IInv, TypeOK, Running
<1>1. /\ pending[s] # {}
      /\ pending' = [pending EXCEPT ![s] = @ \union {r}]
      /\ answer' = [answer EXCEPT ![r] = "waiting"]
      /\ UNCHANGED <<row, born, faults>>
  BY DEF Attach
<1>2. row[r] = "none"
  BY DEF RowsAreAsked
<1>3. \A x \in Slots : pending'[x] = {} <=> pending[x] = {}
  BY <1>1
<1>4. TypeOK'
  BY <1>1
<1>5. WaitingIsHeld'
  BY <1>1, <1>4 DEF WaitingIsHeld
<1>6. OneRow' /\ RowsAreAsked' /\ DeadHoldNothing'
  BY <1>1, <1>2 DEF OneRow, RowsAreAsked, DeadHoldNothing
<1>7. RowsHaveAge' /\ OpenRowIsLiveOrOrphan'
  BY <1>1, <1>2, <1>3, <1>4 DEF RowsHaveAge, OpenRowIsLiveOrOrphan, RowsAreAsked
<1> QED BY <1>4, <1>5, <1>6, <1>7

LEMMA RefuseOrphanedStep ==
  ASSUME IInv, NEW r \in Requests, NEW s \in Slots, Running, answer[r] = "unasked",
         asked' = [asked EXCEPT ![r] = s], RefuseOrphaned(r, s), UNCHANGED <<process, epoch>>
  PROVE  IInv'
<1> USE Constants DEF IInv, TypeOK, Running
<1>1. /\ answer' = [answer EXCEPT ![r] = "rejected"]
      /\ UNCHANGED <<pending, row, born, faults>>
  BY DEF RefuseOrphaned
<1>2. row[r] = "none" /\ asked[r] = NoSlot
  BY DEF RowsAreAsked
<1>4. TypeOK'
  BY <1>1 DEF Settled, Decisions
<1>5. WaitingIsHeld'
  BY <1>1, <1>2, <1>4 DEF WaitingIsHeld
<1>6. OneRow' /\ RowsAreAsked' /\ DeadHoldNothing'
  BY <1>1, <1>2 DEF OneRow, RowsAreAsked, DeadHoldNothing
<1>7. RowsHaveAge' /\ OpenRowIsLiveOrOrphan'
  BY <1>1, <1>2, <1>4 DEF RowsHaveAge, OpenRowIsLiveOrOrphan, RowsAreAsked
<1> QED BY <1>4, <1>5, <1>6, <1>7

LEMMA OpenSlotStep ==
  ASSUME IInv, NEW r \in Requests, NEW s \in Slots, Running, answer[r] = "unasked",
         asked' = [asked EXCEPT ![r] = s], OpenSlot(r, s), UNCHANGED <<process, epoch>>
  PROVE  IInv'
<1> USE Constants DEF IInv, TypeOK, Running
<1>1. /\ pending[s] = {}
      /\ Open(s) = {}
      /\ pending' = [pending EXCEPT ![s] = {r}]
      /\ answer' = [answer EXCEPT ![r] = "waiting"]
  BY DEF OpenSlot
<1>2. row[r] = "none" /\ asked[r] = NoSlot
  BY DEF RowsAreAsked
<1>3. \A q \in Requests : ~(asked[q] = s /\ row[q] = "pending")
  BY <1>1 DEF Open
<1>4. WaitingIsHeld'
  BY <1>1, <1>2 DEF WaitingIsHeld
<1>5. DeadHoldNothing'
  BY <1>1 DEF DeadHoldNothing
<1>6. CASE /\ row' = [row EXCEPT ![r] = "pending"]
           /\ born' = [born EXCEPT ![r] = epoch]
           /\ UNCHANGED faults
  <2>1. TypeOK'
    BY <1>1, <1>6 DEF Statuses
  <2>2. OneRow' /\ RowsAreAsked'
    BY <1>1, <1>2, <1>3, <1>6 DEF OneRow, RowsAreAsked
  <2>3. RowsHaveAge'
    BY <1>1, <1>2, <1>3, <1>6, <2>1 DEF RowsHaveAge, RowsAreAsked
  <2>4. OpenRowIsLiveOrOrphan'
    BY <1>1, <1>2, <1>3, <1>6 DEF OpenRowIsLiveOrOrphan, RowsAreAsked
  <2> QED BY <1>4, <1>5, <2>1, <2>2, <2>3, <2>4
<1>7. CASE faults > 0 /\ faults' = faults - 1 /\ UNCHANGED <<row, born>>
  <2>1. TypeOK'
    BY <1>1, <1>7
  <2>2. OneRow' /\ RowsAreAsked'
    BY <1>1, <1>2, <1>3, <1>7 DEF OneRow, RowsAreAsked
  <2>3. RowsHaveAge'
    BY <1>1, <1>2, <1>3, <1>7, <2>1 DEF RowsHaveAge, RowsAreAsked
  <2>4. OpenRowIsLiveOrOrphan'
    BY <1>7 DEF OpenRowIsLiveOrOrphan
  <2> QED BY <1>4, <1>5, <2>1, <2>2, <2>3, <2>4
<1> QED BY <1>6, <1>7 DEF OpenSlot

LEMMA CloseStep ==
  ASSUME IInv, NEW S \in SUBSET Slots, IsFiniteSet(OpenIn(S)),
         NEW status \in Statuses \ {"pending"}, NEW decision \in Decisions,
         Close(S, status, decision)
  PROVE  IInv'
<1> USE Constants DEF IInv, TypeOK
<1>1. /\ process # "down"
      /\ pending' = [x \in Slots |-> IF x \in S THEN {} ELSE pending[x]]
      /\ answer' = [r \in Requests |-> IF r \in HeldIn(S) THEN decision ELSE answer[r]]
      /\ UNCHANGED <<process, epoch, asked, born>>
  BY CloseSettles
<1>2. faults' \in 0 .. faults
  BY CloseWrites
<1>3. /\ row' = [r \in Requests |-> row'[r]]
      /\ \A r \in Requests : row'[r] # row[r] => r \in OpenIn(S) /\ row'[r] = status
      /\ faults' = faults => \A r \in OpenIn(S) : row'[r] = status
  BY CloseWrites
<1>4. \A r \in Requests : /\ row'[r] = "pending" => row[r] = "pending"
                          /\ row'[r] # "none" => row[r] # "none"
                          /\ row[r] = "none" => row'[r] = "none"
  BY <1>3 DEF OpenIn, Open, Statuses
<1>5. TypeOK'
  BY <1>1, <1>2, <1>3 DEF Settled, Decisions, Statuses
<1>6. \A r \in Requests : r \in HeldIn(S) <=> answer[r] = "waiting" /\ asked[r] \in S
  BY DEF WaitingIsHeld, HeldIn
<1>7. WaitingIsHeld'
  BY <1>1, <1>5, <1>6 DEF WaitingIsHeld, Decisions
<1>8. OneRow' /\ RowsAreAsked' /\ DeadHoldNothing'
  BY <1>1, <1>4, <1>6 DEF OneRow, RowsAreAsked, DeadHoldNothing, Decisions
<1>9. RowsHaveAge'
  <2>1. \A r \in Requests : row'[r] = "pending" => asked[r] \in Slots
    BY <1>4 DEF RowsAreAsked
  <2>2. \A x \in Slots : pending'[x] # {} => pending[x] # {}
    BY <1>1
  <2> QED BY <1>1, <1>4, <2>1, <2>2 DEF RowsHaveAge, Decisions
<1>10. OpenRowIsLiveOrOrphan'
  <2> SUFFICES ASSUME NEW r \in Requests, row'[r] = "pending", born[r] = epoch,
                      faults' = MaxFaults
               PROVE  pending'[asked[r]] # {}
    BY <1>1 DEF OpenRowIsLiveOrOrphan, Running
  <2>1. faults = MaxFaults
    BY <1>2
  <2>2. r \notin OpenIn(S) /\ row[r] = "pending"
    BY <1>3, <2>1, <1>4
  <2>3. asked[r] \notin S /\ asked[r] \in Slots
    BY <2>2 DEF OpenIn, Open, RowsAreAsked
  <2>4. pending[asked[r]] # {}
    BY <1>1, <2>1, <2>2 DEF OpenRowIsLiveOrOrphan, Running
  <2> QED BY <1>1, <2>3, <2>4
<1> QED BY <1>5, <1>7, <1>8, <1>9, <1>10

LEMMA SupersedeStep ==
  ASSUME IInv, NEW t \in Tasks, SupersedeForRetry(t)
  PROVE  IInv'
<1> USE Constants DEF IInv, TypeOK
<1>1. PICK rows \in SUBSET OpenRows :
        row' = [r \in Requests |-> IF r \in rows THEN "superseded" ELSE row[r]]
  BY DEF SupersedeForRetry, SetStatus, OpenRows
<1>2. UNCHANGED <<process, epoch, faults, asked, answer, pending, born>>
  BY DEF SupersedeForRetry
<1>3. \A r \in Requests : /\ row'[r] = "pending" => row[r] = "pending"
                          /\ row'[r] # "none" => row[r] # "none"
                          /\ row[r] = "none" => row'[r] = "none"
  BY <1>1 DEF OpenRows
<1>4. TypeOK'
  BY <1>1, <1>2 DEF Statuses
<1> QED
  BY <1>2, <1>3, <1>4 DEF WaitingIsHeld, OneRow, RowsAreAsked, DeadHoldNothing,
     RowsHaveAge, OpenRowIsLiveOrOrphan, Running

LEMMA ClearStep ==
  ASSUME IInv, Clear
  PROVE  IInv'
<1> USE Constants DEF IInv, TypeOK
<1>1. /\ process' = "closing"
      /\ pending' = [s \in Slots |-> {}]
      /\ row' = [r \in Requests |-> IF r \in OpenRows THEN "shutdown_rejected" ELSE row[r]]
      /\ UNCHANGED <<epoch, faults, asked, born>>
  BY DEF Clear, SetStatus
<1>2. answer' = [r \in Requests |-> IF r \in UNION {pending[s] : s \in Slots}
                                   THEN "rejected" ELSE answer[r]]
  BY DEF Clear, SettleAll
<1>3. \A r \in Requests : answer[r] = "waiting" <=> \E s \in Slots : r \in pending[s]
  <2>1. \A r \in Requests : answer[r] # "unasked" => asked[r] \in Slots
    BY DEF RowsAreAsked
  <2> QED BY <2>1 DEF WaitingIsHeld
<1>4. \A r \in Requests : row'[r] # "pending" /\ (row'[r] # "none" <=> row[r] # "none")
  BY <1>1 DEF OpenRows
<1>5. TypeOK'
  BY <1>1, <1>2 DEF Settled, Decisions, Statuses
<1>6. \A r \in Requests : /\ answer'[r] # "waiting"
                          /\ answer'[r] = "unasked" <=> answer[r] = "unasked"
                          /\ answer'[r] = "lost" => answer[r] = "lost"
  BY <1>2, <1>3
<1>7. WaitingIsHeld'
  BY <1>1, <1>6 DEF WaitingIsHeld
<1>8. process # "down"
  BY DEF Clear
<1>9. OneRow' /\ RowsAreAsked' /\ DeadHoldNothing' /\ OpenRowIsLiveOrOrphan'
  BY <1>1, <1>4, <1>6 DEF OneRow, RowsAreAsked, DeadHoldNothing, OpenRowIsLiveOrOrphan
<1>10. RowsHaveAge'
  BY <1>1, <1>4, <1>6, <1>8 DEF RowsHaveAge
<1> QED BY <1>5, <1>7, <1>9, <1>10

LEMMA DieStep ==
  ASSUME IInv, Die
  PROVE  IInv'
<1> USE Constants DEF IInv, TypeOK
<1>1. /\ process' = "down"
      /\ pending' = [s \in Slots |-> {}]
      /\ answer' = [r \in Requests |-> IF answer[r] = "waiting" THEN "lost" ELSE answer[r]]
      /\ UNCHANGED <<epoch, faults, asked, born>>
  BY DEF Die, SettleAll
<1>2. PICK done \in SUBSET OpenRows :
        row' = [r \in Requests |-> IF r \in done THEN "shutdown_rejected" ELSE row[r]]
  BY DEF Die, SetStatus
<1>3. \A r \in Requests : /\ row'[r] = "pending" => row[r] = "pending"
                          /\ row'[r] # "none" <=> row[r] # "none"
  BY <1>2 DEF OpenRows
<1>4. TypeOK'
  BY <1>1, <1>2 DEF Settled, Decisions, Statuses
<1>5. WaitingIsHeld' /\ DeadHoldNothing'
  BY <1>1 DEF WaitingIsHeld, DeadHoldNothing
<1>6. OneRow' /\ RowsAreAsked'
  BY <1>1, <1>3 DEF OneRow, RowsAreAsked
<1>7. RowsHaveAge' /\ OpenRowIsLiveOrOrphan'
  <2>1. \A r \in Requests : row'[r] = "pending" => pending'[asked[r]] = {}
    BY <1>1, <1>3 DEF RowsAreAsked
  <2> QED BY <1>1, <1>3, <2>1 DEF RowsHaveAge, OpenRowIsLiveOrOrphan, Running
<1> QED BY <1>4, <1>5, <1>6, <1>7

LEMMA RestartStep ==
  ASSUME IInv, Restart
  PROVE  IInv'
<1> USE Constants DEF IInv, TypeOK
<1>1. /\ process = "down"
      /\ epoch < MaxCrashes
      /\ process' = "up"
      /\ epoch' = epoch + 1
      /\ UNCHANGED <<faults, asked, answer, pending, row, born>>
  BY DEF Restart
<1>2. \A s \in Slots : pending[s] = {}
  BY <1>1 DEF WaitingIsHeld, DeadHoldNothing
<1>3. \A r \in Requests : born[r] < epoch'
  BY <1>1 DEF RowsHaveAge
<1>4. TypeOK'
  BY <1>1
<1>5. WaitingIsHeld' /\ OneRow' /\ RowsAreAsked' /\ DeadHoldNothing'
  BY <1>1 DEF WaitingIsHeld, OneRow, RowsAreAsked, DeadHoldNothing
<1>6. \A r \in Requests : born'[r] # epoch' /\ born'[r] <= epoch'
  BY <1>1, <1>3, <1>4
<1>7. OpenRowIsLiveOrOrphan'
  BY <1>6 DEF OpenRowIsLiveOrOrphan
<1>8. \A r \in Requests : row'[r] = "pending" => pending'[asked'[r]] = {}
  BY <1>1, <1>2 DEF RowsAreAsked
<1>9. RowsHaveAge'
  BY <1>6, <1>8 DEF RowsHaveAge
<1> QED BY <1>4, <1>5, <1>7, <1>9

\* One case per action of Next.
LEMMA StepIInv == IInv /\ [Next]_vars => IInv'
<1> SUFFICES ASSUME IInv, [Next]_vars PROVE IInv'
  OBVIOUS
<1>1. ASSUME NEW r \in Requests, NEW s \in Slots, RequestApproval(r, s) PROVE IInv'
  BY <1>1, AttachStep, RefuseOrphanedStep, OpenSlotStep DEF RequestApproval
<1>2. ASSUME NEW s \in Slots, NEW d \in Decisions, Resolve(s, d) PROVE IInv'
  BY <1>2, CloseStep, OpenInOne DEF Resolve, Decisions, Statuses, IInv
<1>3. ASSUME NEW s \in Slots, Timeout(s) PROVE IInv'
  BY <1>3, CloseStep, OpenInOne DEF Timeout, Decisions, Statuses, IInv
<1>4. CASE UNCHANGED vars
  BY <1>4 DEF vars, IInv, TypeOK, WaitingIsHeld, OneRow, RowsAreAsked, DeadHoldNothing,
     RowsHaveAge, OpenRowIsLiveOrOrphan, Running
<1> QED
  BY <1>1, <1>2, <1>3, <1>4, SupersedeStep, ClearStep, DieStep, RestartStep DEF Next

LEMMA Invariance == Spec => []IInv
<1> QED BY InitIInv, StepIInv, PTL DEF Spec

-----------------------------------------------------------------------------
(* The results *)

\* Every value the gate keeps is one of its type (approval-gate.ts, the map
\* `pending`; approval-ledger-store.ts, the statuses of a row).
THEOREM TypeCorrect == Spec => []TypeOK
<1> QED BY Invariance, PTL DEF IInv

\* Promises, slots and rows agree (requestApproval, resolve, the timer, clear):
\* a waiting promise is held by its own slot and by no other, a slot has one
\* open row at most, and while SQLite has not failed an open row of the live
\* process has its slot.
THEOREM PromisesSlotsAndRowsAgree == Spec => []SlotsMatchRows
<1>1. ASSUME IInv PROVE SlotsMatchRows
  BY <1>1, OpenIsFinite DEF IInv, SlotsMatchRows, OneOpenRow
<1> QED BY <1>1, Invariance, PTL

\* A row changes to an answer only by a decision or a timer of its own slot.
LEMMA AnswersComeFromTheSlot ==
  ASSUME IInv, Next, NEW r \in Requests, row[r] = "pending",
         row'[r] \in {"approved", "rejected", "timed_out"}
  PROVE  process # "down" /\ pending[asked[r]] # {}
<1>1. ASSUME NEW s \in Slots, NEW status, NEW d, pending[s] # {}, Close({s}, status, d)
      PROVE  process # "down" /\ pending[asked[r]] # {}
  <2>2. r \in Open(s)
    BY <1>1, CloseWrites, OpenInOne DEF IInv
  <2> QED BY <1>1, <2>2, CloseSettles DEF Open
<1>2. ASSUME NEW q \in Requests, NEW s \in Slots, RequestApproval(q, s) PROVE FALSE
  <2>1. row[q] = "none"
    BY <1>2 DEF RequestApproval, IInv, RowsAreAsked
  <2> QED BY <1>2, <2>1 DEF RequestApproval, Attach, RefuseOrphaned, OpenSlot, IInv, TypeOK
<1>3. ASSUME NEW t \in Tasks, SupersedeForRetry(t) PROVE FALSE
  BY <1>3 DEF SupersedeForRetry, SetStatus
<1>4. ~Clear /\ ~Die /\ ~Restart
  BY DEF Clear, Die, Restart, SetStatus
<1> QED BY <1>1, <1>2, <1>3, <1>4 DEF Next, Resolve, Timeout

\* A decision reaches the rows it is about and no others: a row left by another
\* process is never adopted by this one, and a granted request whose slot has a
\* row finds it approved (resolve and the timer of approval-gate.ts, resolve
\* and timeout of approval-ledger-store.ts).
THEOREM DecisionsReachTheirRows == Spec => DecisionReachesItsRow
<1>1. ASSUME IInv, Next, NEW r \in Requests, row[r] = "pending",
             row'[r] \in {"approved", "rejected", "timed_out"}
      PROVE  born[r] = epoch /\ answer[r] # "lost" /\ pending[asked[r]] # {}
  <2>1. process # "down" /\ pending[asked[r]] # {}
    BY <1>1, AnswersComeFromTheSlot
  <2>2. born[r] = epoch
    BY <1>1, <2>1 DEF IInv, RowsHaveAge
  <2> QED BY <1>1, <2>1, <2>2 DEF IInv, RowsHaveAge
<1>2. ASSUME IInv, Next, NEW r \in Requests, answer[r] = "waiting",
             answer'[r] = "approved", faults' = faults
      PROVE  \A o \in Open(asked[r]) : row'[o] = "approved"
  <2>1. ASSUME NEW s \in Slots, NEW d, NEW status, Close({s}, status, d)
        PROVE  /\ d = "approved"
               /\ asked[r] = s
               /\ \A o \in Open(s) : row'[o] = status
    <3>1. r \in pending[s] /\ d = "approved"
      BY <1>2, <2>1, CloseSettles, OpenInOne DEF IInv
    <3>2. \A o \in Open(s) : row'[o] = status
      <4>1. TypeOK /\ OneRow
        BY <1>2 DEF IInv
      <4> QED BY <1>2, <2>1, <4>1, CloseWrites, OpenInOne
    <3>3. asked[r] = s
      BY <1>2, <3>1 DEF IInv, WaitingIsHeld
    <3> QED BY <3>1, <3>2, <3>3
  <2>2. ASSUME NEW s \in Slots, NEW d \in Decisions, Resolve(s, d)
        PROVE  \A o \in Open(asked[r]) : row'[o] = "approved"
    BY <2>1, <2>2 DEF Resolve
  <2>3. ASSUME NEW s \in Slots, Timeout(s) PROVE FALSE
    <3>1. Close({s}, "timed_out", "rejected")
      BY <2>3 DEF Timeout
    <3> QED BY <2>1, <3>1
  <2>4. ASSUME NEW q \in Requests, NEW s \in Slots, RequestApproval(q, s) PROVE FALSE
    BY <1>2, <2>4 DEF RequestApproval, Attach, RefuseOrphaned, OpenSlot, IInv, TypeOK
  <2>5. ASSUME NEW t \in Tasks, SupersedeForRetry(t) PROVE FALSE
    BY <1>2, <2>5 DEF SupersedeForRetry
  <2>6. ~Clear /\ ~Die /\ ~Restart
    BY <1>2 DEF Clear, Die, Restart, SettleAll
  <2> QED BY <1>2, <2>2, <2>3, <2>4, <2>5, <2>6 DEF Next
<1>3. IInv /\ [Next]_vars => [\A r \in Requests :
         row[r] = "pending" /\ row'[r] \in {"approved", "rejected", "timed_out"}
            => born[r] = epoch /\ answer[r] # "lost" /\ pending[asked[r]] # {}]_vars
  BY <1>1
<1>4. IInv /\ [Next]_vars => [\A r \in Requests :
         answer[r] = "waiting" /\ answer'[r] = "approved" /\ faults' = faults
            => \A o \in Open(asked[r]) : row'[o] = "approved"]_vars
  BY <1>2
<1> QED
  BY <1>3, <1>4, Invariance, PTL DEF Spec, DecisionReachesItsRow, NoAdoption, GrantIsRecorded

-----------------------------------------------------------------------------
(* The sessions: what their steps preserve *)

\* Nothing has happened before the session is started.
BeforeTheStart ==
    mode = "none" =>
        st = "created" /\ run = "idle" /\ life = "pending" /\ ~alive /\ "cancelled" \notin events

\* A prompt is its own slot, and is asked before the bridge remembers it.
PromptsAreAsked ==
    /\ IsFiniteSet(active)
    /\ \A p \in Prompts :
        /\ answer[p] # "unasked" => asked[p] = p
        /\ p \in active => answer[p] # "unasked"

\* The row of a prompt that waits is open or was never written; as long as
\* SQLite has not failed it is open, and the row of an approved one approved.
RowsFollowAnswers ==
    \A p \in Prompts :
        /\ answer[p] = "waiting" => row[p] \in {"pending", "none"}
        /\ answer[p] = "waiting" /\ faults = MaxFaults => row[p] = "pending"
        /\ answer[p] = "approved" /\ faults = MaxFaults => row[p] = "approved"

\* The verifier speaks once, and it ends the run.
VerdictEndsRun == verdict # "none" => run = "returned"

\* A cancelled session is final, and its process cannot be written to.
CancelledIsQuiet ==
    /\ "cancelled" \in events => st \in Terminal
    /\ st = "starting" => life # "running"
    /\ st = "cancelled" => mode = "headless" \/ life # "running"

CliInv ==
    /\ IInv
    /\ TypeOKCli
    /\ BeforeTheStart
    /\ PromptsAreAsked
    /\ RowsFollowAnswers
    /\ VerdictEndsRun
    /\ CancelledIsQuiet
    /\ NothingOnTrust

\* The session's part of TypeOKCli.
SessionTypeOK ==
    /\ st \in States
    /\ mode \in {"none", "headless", "interactive"}
    /\ life \in {"pending", "running", "stalled", "killed", "exited"}
    /\ alive \in BOOLEAN
    /\ signal \in {"none", "SIGTERM", "SIGKILL"}
    /\ exitCode \in {"none", "zero", "nonzero", "null"}
    /\ claim \in BOOLEAN
    /\ worked \in BOOLEAN
    /\ run \in {"idle", "prompting", "waiting", "verifying", "returned"}
    /\ verdict \in {"none", "passed", "failed"}
    /\ outcome \in {"none", "completed", "failed", "unsupported"}
    /\ events \subseteq {"completed", "failed", "cancelled"}
    /\ stored \in States \union {"none"}

\* What the session part of the invariant says, without the gate and the prompts.
SessionInv ==
    /\ SessionTypeOK
    /\ BeforeTheStart
    /\ VerdictEndsRun
    /\ CancelledIsQuiet
    /\ CompletionIsVerified

PermittedTo(p) == "allow" \in {replies[p][i] : i \in 1 .. Len(replies[p])}

\* The rest of it.  A permission needs an approval only, RowsFollowAnswers says
\* the rest.
PromptsInv ==
    /\ IInv
    /\ active \subseteq Prompts
    /\ replies \in [Prompts -> Seq({"allow", "deny"})]
    /\ PromptsAreAsked
    /\ RowsFollowAnswers
    /\ \A p \in Prompts \ AutoPrompts : PermittedTo(p) => answer[p] = "approved"

LEMMA CliInvIsItsParts ==
  /\ CliInv <=> SessionInv /\ PromptsInv
  /\ CliInv' <=> SessionInv' /\ PromptsInv'
<1>1. IInv => TypeOK
  BY DEF IInv
<1>2. IInv' => TypeOK'
  BY DEF IInv
<1>3. RowsFollowAnswers =>
        (AllowNeedsHuman <=> \A p \in Prompts \ AutoPrompts : PermittedTo(p) => answer[p] = "approved")
  BY DEF RowsFollowAnswers, AllowNeedsHuman, PermittedTo
<1>4. RowsFollowAnswers' =>
        (AllowNeedsHuman' <=> \A p \in Prompts \ AutoPrompts : PermittedTo(p)' => answer'[p] = "approved")
  BY DEF RowsFollowAnswers, AllowNeedsHuman, PermittedTo
<1>5. CliInv => SessionInv /\ PromptsInv
  BY <1>3 DEF CliInv, SessionInv, PromptsInv, TypeOKCli, SessionTypeOK, NothingOnTrust
<1>6. SessionInv /\ PromptsInv => CliInv
  BY <1>1, <1>3 DEF CliInv, SessionInv, PromptsInv, TypeOKCli, SessionTypeOK, NothingOnTrust
<1>7. CliInv' => SessionInv' /\ PromptsInv'
  BY <1>4 DEF CliInv, SessionInv, PromptsInv, TypeOKCli, SessionTypeOK, NothingOnTrust
<1>8. SessionInv' /\ PromptsInv' => CliInv'
  BY <1>2, <1>4 DEF CliInv, SessionInv, PromptsInv, TypeOKCli, SessionTypeOK, NothingOnTrust
<1> QED BY <1>5, <1>6, <1>7, <1>8

-----------------------------------------------------------------------------
(* The state machine *)

\* A move is made or refused; out of a final state it is refused.
LEMMA MovedOrStays ==
  ASSUME NEW s, NEW to
  PROVE  /\ Moved(s, to) \in {s, to}
         /\ s \in Terminal => Moved(s, to) = s
<1>1. Moved(s, to) \in {s, to}
  BY DEF Moved
<1>2. ASSUME s \in Terminal PROVE Legal(s) = {}
  <2>1. CASE s = "failed"
    BY <2>1 DEF Legal, Work, Terminal, Broken
  <2>2. CASE s = "cancelled"
    BY <2>2 DEF Legal, Work, Terminal, Broken
  <2>3. CASE s = "timed-out"
    BY <2>3 DEF Legal, Work, Terminal, Broken
  <2>4. CASE s = "crashed"
    BY <2>4 DEF Legal, Work, Terminal, Broken
  <2>5. CASE s = "completed"
    BY <2>5 DEF Legal, Work, Terminal, Broken
  <2>6. CASE s = "unsupported-capability"
    BY <2>6 DEF Legal, Work, Terminal, Broken
  <2> QED BY <1>2, <2>1, <2>2, <2>3, <2>4, <2>5, <2>6 DEF Terminal, Broken
<1> QED BY <1>1, <1>2 DEF Moved

\* Every session that is not final can be cancelled.
LEMMA CancelledIsFinal ==
  ASSUME NEW s \in States
  PROVE  Moved(s, "cancelled") \in Terminal
<1>1. CASE s \in Terminal
  BY <1>1, MovedOrStays
<1>2. CASE s \notin Terminal
  <2>1. s \in Work \union {"created", "starting", "ready", "verifying", "stalled"}
    BY <1>2 DEF States
  <2>2. "cancelled" \in Legal(s)
    <3>1. CASE s \in {"created", "starting", "ready", "running", "waiting-input"}
      BY <3>1 DEF Legal, Work, Terminal, Broken
    <3>2. CASE s \in Work \ {"running", "waiting-input"}
      BY <3>2 DEF Legal, Work, Terminal, Broken
    <3>3. CASE s \in {"verifying", "stalled"}
      BY <3>3 DEF Legal, Work, Terminal, Broken
    <3> QED BY <2>1, <3>1, <3>2, <3>3
  <2> QED BY <2>2 DEF Moved, Terminal, Broken
<1> QED BY <1>1, <1>2

-----------------------------------------------------------------------------
(* The session's steps *)

LEMMA PromptsUntouched ==
  ASSUME PromptsInv, UNCHANGED <<gateVars, promptVars>>
  PROVE  PromptsInv'
<1>1. UNCHANGED vars /\ active' = active /\ replies' = replies
  BY DEF gateVars, promptVars
<1>2. IInv'
  BY <1>1, StepIInv DEF PromptsInv
<1>3. PromptsAreAsked' /\ RowsFollowAnswers'
  BY <1>1 DEF PromptsInv, PromptsAreAsked, RowsFollowAnswers, vars
<1> QED BY <1>1, <1>2, <1>3 DEF PromptsInv, PermittedTo, vars

\* Steps that make no verdict and emit nothing, of a session that is started.
LEMMA QuietSessionStep ==
  ASSUME SessionInv, SessionTypeOK', UNCHANGED <<mode, verdict, events, run, outcome>>,
         mode # "none", st' \in {st, "completed", "stalled", "timed-out"}, st \in Terminal => st' = st,
         life' = life \/ life' # "running"
  PROVE  SessionInv'
<1>1. BeforeTheStart' /\ VerdictEndsRun' /\ CompletionIsVerified'
  BY DEF SessionInv, BeforeTheStart, VerdictEndsRun, CompletionIsVerified
<1>2. CancelledIsQuiet'
  BY DEF SessionInv, CancelledIsQuiet, Terminal, Broken
<1> QED BY <1>1, <1>2 DEF SessionInv

LEMMA StartStep ==
  ASSUME CliInv, CreateUnsupported \/ StartHeadless \/ StartInteractive
  PROVE  CliInv'
<1>1. SessionInv /\ PromptsInv
  BY CliInvIsItsParts
<1>2. mode = "none" /\ UNCHANGED <<gateVars, promptVars>>
  BY DEF CreateUnsupported, StartHeadless, StartInteractive
<1>3. PromptsInv'
  BY <1>1, <1>2, PromptsUntouched
<1>4. /\ st = "created" /\ run = "idle" /\ life = "pending" /\ "cancelled" \notin events
      /\ verdict = "none" /\ "completed" \notin events /\ outcome # "completed"
  BY <1>1, <1>2 DEF SessionInv, BeforeTheStart, VerdictEndsRun, CompletionIsVerified
<1>5. CASE CreateUnsupported
  <2>1. st' \in {"created", "unsupported-capability"}
    BY <1>4, <1>5, MovedOrStays DEF CreateUnsupported
  <2>2. SessionTypeOK'
    BY <1>1, <1>5, <2>1 DEF CreateUnsupported, SessionInv, SessionTypeOK, States, Terminal, Broken, processVars
  <2>3. BeforeTheStart' /\ VerdictEndsRun' /\ CancelledIsQuiet' /\ CompletionIsVerified'
    BY <1>4, <1>5, <2>1
    DEF CreateUnsupported, BeforeTheStart, VerdictEndsRun, CancelledIsQuiet, CompletionIsVerified, processVars
  <2> QED BY <1>3, <2>2, <2>3, CliInvIsItsParts DEF SessionInv
<1>6. CASE StartHeadless
  <2>1. SessionTypeOK'
    BY <1>1, <1>6 DEF StartHeadless, SessionInv, SessionTypeOK, States, Work, Terminal, Broken
  <2>2. BeforeTheStart' /\ VerdictEndsRun' /\ CancelledIsQuiet' /\ CompletionIsVerified'
    BY <1>4, <1>6 DEF StartHeadless, BeforeTheStart, VerdictEndsRun, CancelledIsQuiet, CompletionIsVerified
  <2> QED BY <1>3, <2>1, <2>2, CliInvIsItsParts DEF SessionInv
<1>7. CASE StartInteractive
  <2>1. SessionTypeOK'
    <3>1. /\ st' \in States /\ mode' = "interactive" /\ stored' \in States
          /\ life' \in {"pending", "running", "stalled", "killed", "exited"} /\ alive' \in BOOLEAN
      BY <1>1, <1>7 DEF StartInteractive, SessionInv, SessionTypeOK, States, Work
    <3>2. UNCHANGED <<signal, exitCode, claim, worked, run, verdict, outcome, events>>
      BY <1>7 DEF StartInteractive, runVars
    <3> QED BY <1>1, <3>1, <3>2 DEF SessionInv, SessionTypeOK
  <2>2. BeforeTheStart' /\ VerdictEndsRun' /\ CancelledIsQuiet' /\ CompletionIsVerified'
    BY <1>4, <1>7
    DEF StartInteractive, BeforeTheStart, VerdictEndsRun, CancelledIsQuiet, CompletionIsVerified, runVars
  <2> QED BY <1>3, <2>1, <2>2, CliInvIsItsParts DEF SessionInv
<1> QED BY <1>5, <1>6, <1>7

\* The end of the first write.
LEMMA PromptingStep ==
  ASSUME CliInv, PromptWritten \/ PromptFails
  PROVE  CliInv'
<1>1. SessionInv /\ PromptsInv
  BY CliInvIsItsParts
<1>2. /\ run = "prompting" /\ run' = "waiting" /\ UNCHANGED <<gateVars, promptVars>>
      /\ UNCHANGED <<st, mode, alive, exitCode, claim, worked, verdict, outcome, events, stored>>
      /\ life' \in {life, "killed"} /\ signal' \in {signal, "SIGTERM"}
  BY DEF PromptWritten, PromptFails, processVars
<1>3. mode # "none" /\ verdict = "none"
  BY <1>1, <1>2 DEF SessionInv, BeforeTheStart, VerdictEndsRun
<1>4. SessionTypeOK'
  BY <1>1, <1>2 DEF SessionInv, SessionTypeOK
<1>5. BeforeTheStart' /\ VerdictEndsRun' /\ CancelledIsQuiet' /\ CompletionIsVerified'
  BY <1>1, <1>2, <1>3
  DEF SessionInv, BeforeTheStart, VerdictEndsRun, CancelledIsQuiet, CompletionIsVerified
<1> QED BY <1>1, <1>2, <1>4, <1>5, PromptsUntouched, CliInvIsItsParts DEF SessionInv

\* Output, the result line, the stop hook, the timers and the exit.
LEMMA ProcessStep ==
  ASSUME CliInv, Output \/ ReportResult \/ StopHook \/ IdleTimer \/ WallTimer \/ Exit,
         mode # "none"
  PROVE  CliInv'
<1>1. SessionInv /\ PromptsInv /\ SessionTypeOK
  BY CliInvIsItsParts DEF SessionInv
<1>2. UNCHANGED <<gateVars, promptVars>> /\ UNCHANGED <<mode, verdict, events, run, outcome>>
  BY DEF Output, ReportResult, StopHook, IdleTimer, WallTimer, Exit, runVars
<1>3. st' \in {st, "completed", "stalled", "timed-out"} /\ (st \in Terminal => st' = st)
  BY MovedOrStays DEF Output, ReportResult, StopHook, IdleTimer, WallTimer, Exit
<1>4. life' = life \/ life' # "running"
  BY DEF Output, ReportResult, StopHook, IdleTimer, WallTimer, Exit, processVars
<1>5. SessionTypeOK'
  <2>1. st' \in States
    BY <1>1, <1>3 DEF SessionTypeOK, States, Terminal, Broken
  <2>2. /\ life' \in {"pending", "running", "stalled", "killed", "exited"} /\ alive' \in BOOLEAN
        /\ signal' \in {"none", "SIGTERM", "SIGKILL"}
        /\ exitCode' \in {"none", "zero", "nonzero", "null"}
    BY <1>1 DEF SessionTypeOK, Output, ReportResult, StopHook, IdleTimer, WallTimer, Exit, processVars
  <2>3. claim' \in BOOLEAN /\ worked' \in BOOLEAN /\ stored' \in States \union {"none"}
    BY <1>1 DEF SessionTypeOK, Output, ReportResult, StopHook, IdleTimer, WallTimer, Exit
  <2> QED BY <1>1, <1>2, <2>1, <2>2, <2>3 DEF SessionTypeOK
<1> QED BY <1>1, <1>2, <1>3, <1>4, <1>5, QuietSessionStep, PromptsUntouched, CliInvIsItsParts

LEMMA CollectStep ==
  ASSUME CliInv, Collect
  PROVE  CliInv'
<1>1. SessionInv /\ PromptsInv /\ SessionTypeOK
  BY CliInvIsItsParts DEF SessionInv
<1>2. /\ run = "waiting" /\ mode # "none" /\ verdict = "none"
      /\ "completed" \notin events /\ outcome # "completed"
  BY <1>1 DEF Collect, SessionInv, BeforeTheStart, VerdictEndsRun, CompletionIsVerified
<1>3. /\ UNCHANGED <<gateVars, promptVars>>
      /\ UNCHANGED <<mode, life, alive, signal, exitCode, worked, verdict, stored>>
  BY DEF Collect, processVars
<1>4. \/ run' = "verifying" /\ claim' \in BOOLEAN /\ UNCHANGED <<st, events, outcome>>
      \/ run' = "returned" /\ outcome' = "failed" /\ claim' = claim /\ Finalize("failed")
  BY DEF Collect
<1>5. /\ st' \in {st, "failed"} /\ (st \in Terminal => st' = st)
      /\ events' \in {events, events \union {"failed"}}
  BY <1>4, MovedOrStays DEF Finalize
<1>6. SessionTypeOK'
  <2>1. st' \in States
    BY <1>1, <1>5 DEF SessionTypeOK, States, Terminal, Broken
  <2>2. claim' \in BOOLEAN /\ run' \in {"idle", "prompting", "waiting", "verifying", "returned"}
        /\ outcome' \in {"none", "completed", "failed", "unsupported"}
        /\ events' \subseteq {"completed", "failed", "cancelled"}
    BY <1>1, <1>4, <1>5 DEF SessionTypeOK
  <2> QED BY <1>1, <1>3, <2>1, <2>2 DEF SessionTypeOK
<1>7. BeforeTheStart' /\ VerdictEndsRun' /\ CompletionIsVerified'
  BY <1>2, <1>3, <1>4, <1>5 DEF BeforeTheStart, VerdictEndsRun, CompletionIsVerified
<1>8. CancelledIsQuiet'
  BY <1>1, <1>3, <1>5 DEF SessionInv, CancelledIsQuiet, Terminal, Broken
<1> QED BY <1>1, <1>3, <1>6, <1>7, <1>8, PromptsUntouched, CliInvIsItsParts DEF SessionInv

LEMMA VerifiedStep ==
  ASSUME CliInv, Verified
  PROVE  CliInv'
<1>1. SessionInv /\ PromptsInv /\ SessionTypeOK
  BY CliInvIsItsParts DEF SessionInv
<1>2. /\ run = "verifying" /\ mode # "none" /\ verdict = "none"
      /\ "completed" \notin events /\ outcome # "completed"
  BY <1>1 DEF Verified, SessionInv, BeforeTheStart, VerdictEndsRun, CompletionIsVerified
<1>3. /\ UNCHANGED <<gateVars, promptVars>> /\ run' = "returned" /\ stored' = st'
      /\ UNCHANGED <<mode, life, alive, signal, exitCode, worked, claim>>
  BY DEF Verified, processVars
<1>4. PICK passed \in BOOLEAN :
        /\ verdict' = IF passed THEN "passed" ELSE "failed"
        /\ Finalize(IF passed THEN "completed" ELSE "failed")
        /\ outcome' = IF passed THEN "completed" ELSE "failed"
  BY DEF Verified
<1>5. /\ st' \in {st, "completed", "failed"} /\ (st \in Terminal => st' = st)
      /\ events' \in {events, events \union {IF passed THEN "completed" ELSE "failed"}}
  <2>1. CASE passed
    BY <1>4, <2>1, MovedOrStays DEF Finalize
  <2>2. CASE ~passed
    BY <1>4, <2>2, MovedOrStays DEF Finalize
  <2> QED BY <2>1, <2>2
<1>6. SessionTypeOK'
  <2>1. st' \in States
    BY <1>1, <1>5 DEF SessionTypeOK, States, Terminal, Broken
  <2>2. /\ verdict' \in {"none", "passed", "failed"}
        /\ outcome' \in {"none", "completed", "failed", "unsupported"}
        /\ events' \subseteq {"completed", "failed", "cancelled"}
    BY <1>1, <1>4, <1>5 DEF SessionTypeOK
  <2> QED BY <1>1, <1>3, <2>1, <2>2 DEF SessionTypeOK
<1>7. BeforeTheStart' /\ VerdictEndsRun' /\ CompletionIsVerified'
  BY <1>2, <1>3, <1>4, <1>5 DEF BeforeTheStart, VerdictEndsRun, CompletionIsVerified
<1>8. CancelledIsQuiet'
  BY <1>1, <1>3, <1>5 DEF SessionInv, CancelledIsQuiet, Terminal, Broken
<1> QED BY <1>1, <1>3, <1>6, <1>7, <1>8, PromptsUntouched, CliInvIsItsParts DEF SessionInv

-----------------------------------------------------------------------------
(* The prompts *)

\* A decision is written for its prompt only, and to an interactive, running
\* process only.
LEMMA WrittenSaysIt ==
  ASSUME PromptsInv, NEW p \in Prompts, NEW d \in {"allow", "deny"}, replies' = Written(p, d)
  PROVE  /\ replies' \in [Prompts -> Seq({"allow", "deny"})]
         /\ mode # "interactive" \/ life # "running" => replies' = replies
         /\ \A q \in Prompts : PermittedTo(q)' => PermittedTo(q) \/ (q = p /\ d = "allow")
<1>1. CASE ~(mode = "interactive" /\ life = "running")
  BY <1>1 DEF Written, PromptsInv, PermittedTo
<1>2. CASE mode = "interactive" /\ life = "running"
  <2>1. PICK t : t = replies[p] \o <<d, d>>
    OBVIOUS
  <2>2. replies' = [replies EXCEPT ![p] = t]
    BY <1>2, <2>1 DEF Written
  <2>3. replies[p] \in Seq({"allow", "deny"}) /\ <<d, d>> \in Seq({"allow", "deny"}) /\ Len(<<d, d>>) = 2
    BY DEF PromptsInv
  <2>4. /\ t \in Seq({"allow", "deny"}) /\ Len(t) = Len(replies[p]) + 2 /\ Len(replies[p]) \in Nat
        /\ \A i \in 1 .. Len(t) : t[i] = IF i <= Len(replies[p]) THEN replies[p][i]
                                         ELSE <<d, d>>[i - Len(replies[p])]
    BY <2>1, <2>3, ConcatProperties
  <2>5. \A i \in 1 .. Len(t) : \/ i \in 1 .. Len(replies[p]) /\ t[i] = replies[p][i]
                               \/ t[i] = d
    <3>1. \A j \in 1 .. 2 : <<d, d>>[j] = d
      OBVIOUS
    <3>2. \A i \in 1 .. Len(t) : i <= Len(replies[p]) \/ i - Len(replies[p]) \in 1 .. 2
      BY <2>4
    <3> QED BY <2>4, <3>1, <3>2
  <2>6. replies' \in [Prompts -> Seq({"allow", "deny"})] /\ replies'[p] = t
        /\ \A q \in Prompts : q # p => replies'[q] = replies[q]
    BY <2>2, <2>4 DEF PromptsInv
  <2>7. \A q \in Prompts : PermittedTo(q)' => PermittedTo(q) \/ (q = p /\ d = "allow")
    BY <2>5, <2>6 DEF PermittedTo
  <2> QED BY <1>2, <2>6, <2>7
<1> QED BY <1>1, <1>2

\* A step about a prompt leaves the session alone.
LEMMA SessionUntouched ==
  ASSUME SessionInv,
         UNCHANGED <<st, mode, life, alive, signal, exitCode, claim, worked, run, verdict,
                     outcome, events, stored>>
  PROVE  SessionInv'
BY DEF SessionInv, SessionTypeOK, BeforeTheStart, VerdictEndsRun, CancelledIsQuiet, CompletionIsVerified

\* A new request does not touch the others, and its row is open or was never written.
LEMMA AskKeeps ==
  ASSUME PromptsInv, NEW p \in Prompts, RequestApproval(p, p)
  PROVE  /\ IInv' /\ RowsFollowAnswers'
         /\ answer'[p] # "unasked" /\ answer[p] = "unasked"
         /\ \A q \in Prompts : /\ answer'[q] # "unasked" => asked'[q] = q
                               /\ q # p => answer'[q] = answer[q]
<1>1. IInv /\ TypeOK /\ Slots = Requests /\ p \in Slots /\ p \in Requests /\ Prompts = Requests
  BY PromptsAssumption DEF PromptsInv, IInv, Prompts
<1>2. IInv'
  <2>1. Next
    BY <1>1 DEF Next
  <2> QED BY <1>1, <2>1, StepIInv
<1>3. row[p] = "none" /\ answer[p] = "unasked"
  BY <1>1 DEF RequestApproval, IInv, RowsAreAsked
<1>4. /\ asked' = [asked EXCEPT ![p] = p]
      /\ answer' = [answer EXCEPT ![p] = "waiting"] \/ answer' = [answer EXCEPT ![p] = "rejected"]
      /\ row' = row \/ row' = [row EXCEPT ![p] = "pending"]
      /\ faults' = faults \/ (faults > 0 /\ faults' = faults - 1)
  BY DEF RequestApproval, Attach, RefuseOrphaned, OpenSlot
<1>5. /\ asked'[p] = p /\ answer'[p] \in {"waiting", "rejected"} /\ row'[p] \in {"none", "pending"}
      /\ \A q \in Prompts : q # p => answer'[q] = answer[q] /\ asked'[q] = asked[q] /\ row'[q] = row[q]
  BY <1>1, <1>3, <1>4 DEF TypeOK
<1>6. faults' = MaxFaults => faults = MaxFaults
  <2>1. faults \in 0 .. MaxFaults /\ MaxFaults \in Nat
    BY <1>1, Constants DEF TypeOK
  <2> QED BY <1>4, <2>1
<1>7. pending[p] = {}
  <2>1. \A r \in pending[p] : r \in Prompts /\ asked[r] = p /\ answer[r] = "waiting"
    BY <1>1 DEF IInv, WaitingIsHeld, TypeOK
  <2> QED BY <1>3, <2>1 DEF PromptsInv, PromptsAreAsked
<1>8. answer'[p] = "waiting" /\ faults' = MaxFaults => row'[p] = "pending"
  <2>1. ~Attach(p, p) /\ (RefuseOrphaned(p, p) => answer'[p] = "rejected")
    BY <1>1, <1>7 DEF Attach, RefuseOrphaned, TypeOK
  <2>2. OpenSlot(p, p) => row'[p] = "pending" \/ faults' = faults - 1
    BY <1>1 DEF OpenSlot, TypeOK
  <2>3. faults \in 0 .. MaxFaults /\ MaxFaults \in Nat
    BY <1>1, Constants DEF TypeOK
  <2> QED BY <2>1, <2>2, <2>3 DEF RequestApproval
<1>9. RowsFollowAnswers'
  BY <1>5, <1>6, <1>8 DEF PromptsInv, RowsFollowAnswers
<1> QED BY <1>2, <1>3, <1>5, <1>9 DEF PromptsInv, PromptsAreAsked

\* Closing slots settles the requests that wait in them, with the status of
\* their rows, and touches no other.
LEMMA CloseKeeps ==
  ASSUME PromptsInv, NEW S \in SUBSET Prompts, IsFiniteSet(OpenIn(S)),
         NEW status \in Statuses \ {"pending"}, NEW d \in Decisions, Close(S, status, d),
         d = "approved" => status = "approved"
  PROVE  /\ IInv' /\ RowsFollowAnswers' /\ UNCHANGED asked
         /\ \A q \in Prompts :
              /\ answer[q] # "waiting" => answer'[q] = answer[q]
              /\ answer[q] = "waiting" => answer'[q] = IF q \in S THEN d ELSE "waiting"
<1>1. IInv /\ TypeOK /\ Slots = Requests /\ Prompts = Requests /\ S \in SUBSET Slots
  BY PromptsAssumption DEF PromptsInv, IInv, Prompts
<1>2. IInv'
  BY <1>1, CloseStep
<1>3. /\ answer' = [r \in Requests |-> IF r \in HeldIn(S) THEN d ELSE answer[r]]
      /\ UNCHANGED asked
  BY CloseSettles
<1>4. \A q \in Prompts : q \in HeldIn(S) <=> answer[q] = "waiting" /\ q \in S
  <2>1. \A q \in Prompts : q \in HeldIn(S) <=> answer[q] = "waiting" /\ asked[q] \in S
    BY <1>1 DEF HeldIn, IInv, WaitingIsHeld
  <2> QED BY <2>1 DEF PromptsInv, PromptsAreAsked
<1>5. /\ faults' \in 0 .. faults
      /\ \A r \in Requests : row'[r] # row[r] => r \in OpenIn(S) /\ row'[r] = status
      /\ faults' = faults => \A r \in OpenIn(S) : row'[r] = status
  BY <1>1, CloseWrites
<1>6. \A q \in Prompts : q \in OpenIn(S) <=> row[q] = "pending" /\ q \in S
  <2>1. \A q \in Prompts : q \in OpenIn(S) <=> row[q] = "pending" /\ asked[q] \in S
    BY <1>1 DEF OpenIn, Open
  <2>2. \A q \in Prompts : row[q] = "pending" => answer[q] # "unasked"
    BY <1>1 DEF IInv, RowsAreAsked
  <2> QED BY <2>1, <2>2 DEF PromptsInv, PromptsAreAsked
<1>7. faults' = MaxFaults => faults = MaxFaults
  <2>1. faults \in 0 .. MaxFaults /\ MaxFaults \in Nat
    BY <1>1, Constants DEF TypeOK
  <2> QED BY <1>5, <2>1
<1>8. ASSUME NEW q \in Prompts
      PROVE  /\ answer'[q] = "waiting" => row'[q] \in {"pending", "none"}
             /\ answer'[q] = "waiting" /\ faults' = MaxFaults => row'[q] = "pending"
             /\ answer'[q] = "approved" /\ faults' = MaxFaults => row'[q] = "approved"
  <2>1. /\ answer[q] = "waiting" => row[q] \in {"pending", "none"}
        /\ answer[q] = "waiting" /\ faults = MaxFaults => row[q] = "pending"
        /\ answer[q] = "approved" /\ faults = MaxFaults => row[q] = "approved"
    BY DEF PromptsInv, RowsFollowAnswers
  <2>2. CASE answer[q] = "waiting" /\ q \in S
    <3>1. answer'[q] = d /\ d # "waiting"
      BY <1>1, <1>3, <1>4, <2>2 DEF Decisions
    <3>2. row'[q] = row[q] \/ row'[q] = status
      BY <1>1, <1>5
    <3>3. d = "approved" /\ faults' = MaxFaults /\ row[q] = "pending" => row'[q] = "approved"
      BY <1>5, <1>6, <1>7, <2>2
    <3>4. faults' = MaxFaults => row[q] = "pending"
      BY <1>7, <2>1, <2>2
    <3> QED BY <2>1, <2>2, <3>1, <3>2, <3>3, <3>4
  <2>3. CASE ~(answer[q] = "waiting" /\ q \in S)
    <3>1. answer'[q] = answer[q]
      BY <1>1, <1>3, <1>4, <2>3
    <3>2. answer[q] = "waiting" => row'[q] = row[q]
      BY <1>1, <1>5, <1>6, <2>3
    <3>3. answer[q] = "approved" /\ faults = MaxFaults => row'[q] = row[q]
      BY <1>1, <1>5, <1>6, <2>1
    <3> QED BY <1>7, <2>1, <3>1, <3>2, <3>3
  <2> QED BY <2>2, <2>3
<1>9. \A q \in Prompts : /\ answer[q] # "waiting" => answer'[q] = answer[q]
                         /\ answer[q] = "waiting" => answer'[q] = IF q \in S THEN d ELSE "waiting"
  BY <1>1, <1>3, <1>4
<1>10. RowsFollowAnswers'
  BY <1>8 DEF RowsFollowAnswers, Prompts
<1> QED BY <1>2, <1>3, <1>9, <1>10

\* After a step of the gate: what is asked stays asked, and what is approved
\* stays approved.
LEMMA GateKeepsPrompts ==
  ASSUME PromptsInv, IInv', RowsFollowAnswers', UNCHANGED <<asked, active, replies>>,
         \A q \in Prompts : /\ answer[q] = "unasked" <=> answer'[q] = "unasked"
                            /\ answer[q] = "approved" => answer'[q] = "approved"
  PROVE  PromptsInv'
<1>1. PromptsAreAsked'
  BY DEF PromptsInv, PromptsAreAsked, Prompts
<1>2. \A q \in Prompts \ AutoPrompts : PermittedTo(q)' => answer'[q] = "approved"
  BY DEF PromptsInv, PermittedTo, Prompts
<1> QED BY <1>1, <1>2 DEF PromptsInv, Prompts

LEMMA PromptStep ==
  ASSUME CliInv, NEW p \in Prompts, Prompt(p)
  PROVE  CliInv'
<1>1. SessionInv /\ PromptsInv
  BY CliInvIsItsParts
<1>2. UNCHANGED <<st, mode, life, alive, signal, exitCode, claim, worked, run, verdict,
                  outcome, events, stored>>
  BY DEF Prompt, processVars, runVars
<1>3. CASE p \in AutoPrompts
  <2>1. UNCHANGED vars /\ active' = active /\ replies' = Written(p, "allow")
    BY <1>3 DEF Prompt, gateVars
  <2>2. /\ replies' \in [Prompts -> Seq({"allow", "deny"})]
        /\ \A q \in Prompts : PermittedTo(q)' => PermittedTo(q) \/ q = p
    BY <1>1, <2>1, WrittenSaysIt
  <2>3. IInv'
    BY <1>1, <2>1, StepIInv DEF PromptsInv
  <2>4. PromptsAreAsked' /\ RowsFollowAnswers'
    BY <1>1, <2>1 DEF PromptsInv, PromptsAreAsked, RowsFollowAnswers, vars
  <2>5. \A q \in Prompts \ AutoPrompts : PermittedTo(q)' => answer'[q] = "approved"
    BY <1>1, <1>3, <2>1, <2>2 DEF PromptsInv, vars
  <2>6. PromptsInv'
    BY <1>1, <2>1, <2>2, <2>3, <2>4, <2>5 DEF PromptsInv
  <2> QED BY <1>1, <1>2, <2>6, SessionUntouched, CliInvIsItsParts
<1>4. CASE p \notin AutoPrompts
  <2>1. RequestApproval(p, p) /\ active' = active \union {p} /\ replies' = replies
    BY <1>4 DEF Prompt
  <2>2. /\ IInv' /\ RowsFollowAnswers' /\ answer'[p] # "unasked" /\ answer[p] = "unasked"
        /\ \A q \in Prompts : /\ answer'[q] # "unasked" => asked'[q] = q
                              /\ q # p => answer'[q] = answer[q]
    BY <1>1, <2>1, AskKeeps
  <2>3. IsFiniteSet(active')
    BY <1>1, <2>1, FS_AddElement DEF PromptsInv, PromptsAreAsked
  <2>4. PromptsAreAsked'
    BY <1>1, <2>1, <2>2, <2>3 DEF PromptsInv, PromptsAreAsked, Prompts
  <2>5. \A q \in Prompts \ AutoPrompts : PermittedTo(q)' => answer'[q] = "approved"
    BY <1>1, <2>1, <2>2 DEF PromptsInv, PermittedTo, Prompts
  <2>6. PromptsInv'
    BY <1>1, <2>1, <2>2, <2>4, <2>5 DEF PromptsInv
  <2> QED BY <1>1, <1>2, <2>6, SessionUntouched, CliInvIsItsParts
<1> QED BY <1>3, <1>4

LEMMA AnsweredStep ==
  ASSUME CliInv, NEW p \in Prompts, Answered(p)
  PROVE  CliInv'
<1>1. SessionInv /\ PromptsInv
  BY CliInvIsItsParts
<1>2. /\ UNCHANGED <<st, mode, life, alive, signal, exitCode, claim, worked, run, verdict,
                     outcome, events, stored>>
      /\ UNCHANGED vars /\ active' = active \ {p}
  BY DEF Answered, processVars, runVars, gateVars
<1>3. PICK d : d = IF answer[p] = "approved" THEN "allow" ELSE "deny"
  OBVIOUS
<1>4. d \in {"allow", "deny"} /\ replies' = Written(p, d) /\ (d = "allow" => answer[p] = "approved")
  BY <1>3 DEF Answered
<1>5. /\ replies' \in [Prompts -> Seq({"allow", "deny"})]
      /\ \A q \in Prompts : PermittedTo(q)' => PermittedTo(q) \/ (q = p /\ d = "allow")
  BY <1>1, <1>4, WrittenSaysIt
<1>6. IInv' /\ RowsFollowAnswers'
  BY <1>1, <1>2, StepIInv DEF PromptsInv, RowsFollowAnswers, vars
<1>7. PromptsAreAsked'
  <2>1. IsFiniteSet(active')
    BY <1>1, <1>2, FS_RemoveElement DEF PromptsInv, PromptsAreAsked
  <2> QED BY <1>1, <1>2, <2>1 DEF PromptsInv, PromptsAreAsked, vars
<1>8. \A q \in Prompts \ AutoPrompts : PermittedTo(q)' => answer'[q] = "approved"
  BY <1>1, <1>2, <1>4, <1>5 DEF PromptsInv, vars
<1>9. PromptsInv'
  BY <1>1, <1>2, <1>5, <1>6, <1>7, <1>8 DEF PromptsInv
<1> QED BY <1>1, <1>2, <1>9, SessionUntouched, CliInvIsItsParts

\* The open rows of some prompts are those prompts' own.
LEMMA OpenRowsAreTheirOwn ==
  ASSUME PromptsInv, NEW S \in SUBSET Prompts, IsFiniteSet(S)
  PROVE  IsFiniteSet(OpenIn(S))
<1>1. OpenIn(S) \subseteq S
  <2> SUFFICES ASSUME NEW s \in S, NEW r \in Requests, asked[r] = s, row[r] = "pending"
               PROVE  r \in S
    BY DEF OpenIn, Open
  <2>1. answer[r] # "unasked" /\ r \in Prompts
    BY DEF PromptsInv, IInv, RowsAreAsked, Prompts
  <2> QED BY <2>1 DEF PromptsInv, PromptsAreAsked
<1> QED BY <1>1, FS_Subset

LEMMA CancelStep ==
  ASSUME CliInv, Cancel
  PROVE  CliInv'
<1>1. SessionInv /\ PromptsInv /\ SessionTypeOK
  BY CliInvIsItsParts DEF SessionInv
<1>2. /\ mode # "none" /\ st' = Moved(st, "cancelled") /\ stored' = st'
      /\ events' = events \union {"cancelled"}
      /\ UNCHANGED <<mode, alive, exitCode, claim, worked, run, verdict, outcome, active, replies>>
  BY DEF Cancel, runVars
<1>3. /\ life' \in {"killed", life} /\ signal' \in {"SIGTERM", signal}
      /\ mode = "interactive" /\ st # "starting" => life' = "killed"
      /\ ~(mode = "interactive" /\ st # "starting") => life' = life
  BY DEF Cancel
<1>4. st' \in Terminal /\ st' \in {st, "cancelled"}
  BY <1>1, <1>2, CancelledIsFinal, MovedOrStays DEF SessionTypeOK
<1>5. SessionTypeOK'
  <2>1. st' \in States /\ life' \in {"pending", "running", "stalled", "killed", "exited"}
        /\ signal' \in {"none", "SIGTERM", "SIGKILL"} /\ events' \subseteq {"completed", "failed", "cancelled"}
    BY <1>1, <1>2, <1>3, <1>4 DEF SessionTypeOK, States
  <2> QED BY <1>1, <1>2, <2>1 DEF SessionTypeOK
<1>6. BeforeTheStart' /\ VerdictEndsRun' /\ CompletionIsVerified'
  BY <1>1, <1>2 DEF SessionInv, BeforeTheStart, VerdictEndsRun, CompletionIsVerified
<1>7. CancelledIsQuiet'
  <2>1. st' # "starting"
    BY <1>4 DEF Terminal, Broken
  <2>2. mode \in {"headless", "interactive"}
    BY <1>1, <1>2 DEF SessionTypeOK
  <2>3. st = "starting" => life # "running"
    BY <1>1 DEF SessionInv, CancelledIsQuiet
  <2> QED BY <1>2, <1>3, <1>4, <2>1, <2>2, <2>3 DEF CancelledIsQuiet
<1>8. PromptsInv'
  <2>1. PICK S \in SUBSET Prompts : S = {p \in active : pending[p] # {}}
    BY <1>1 DEF PromptsInv
  <2>2. IsFiniteSet(OpenIn(S))
    <3>1. IsFiniteSet(S)
      BY <1>1, <2>1, FS_Subset DEF PromptsInv, PromptsAreAsked
    <3> QED BY <1>1, <3>1, OpenRowsAreTheirOwn
  <2>3. Close(S, "rejected", "rejected")
    BY <2>1 DEF Cancel
  <2>4. "rejected" \in Statuses \ {"pending"} /\ "rejected" \in Decisions
    BY DEF Statuses, Decisions
  <2>5. /\ IInv' /\ RowsFollowAnswers' /\ UNCHANGED asked
        /\ \A q \in Prompts :
             /\ answer[q] # "waiting" => answer'[q] = answer[q]
             /\ answer[q] = "waiting" => answer'[q] = IF q \in S THEN "rejected" ELSE "waiting"
    BY <1>1, <2>2, <2>3, <2>4, CloseKeeps
  <2> QED BY <1>1, <1>2, <2>5, GateKeepsPrompts
<1> QED BY <1>5, <1>6, <1>7, <1>8, CliInvIsItsParts DEF SessionInv

\* The human, the gate's timer and its clear().
LEMMA GateStepStep ==
  ASSUME CliInv, GateStep
  PROVE  CliInv'
<1>1. SessionInv /\ PromptsInv /\ IInv /\ TypeOK /\ Slots = Requests /\ Prompts = Requests
  BY CliInvIsItsParts, PromptsAssumption DEF PromptsInv, IInv, Prompts
<1>2. /\ UNCHANGED <<st, mode, life, alive, signal, exitCode, claim, worked, run, verdict,
                     outcome, events, stored>>
      /\ UNCHANGED <<active, replies>>
  BY DEF GateStep, cliVars
<1>3. ASSUME NEW p \in Prompts, NEW status \in Statuses \ {"pending"}, NEW d \in Decisions,
             Close({p}, status, d), d = "approved" => status = "approved"
      PROVE  PromptsInv'
  <2>1. IsFiniteSet(OpenIn({p}))
    BY <1>1, OpenInOne DEF IInv
  <2>2. /\ IInv' /\ RowsFollowAnswers' /\ UNCHANGED asked
        /\ \A q \in Prompts :
             /\ answer[q] # "waiting" => answer'[q] = answer[q]
             /\ answer[q] = "waiting" => answer'[q] = IF q \in {p} THEN d ELSE "waiting"
    BY <1>1, <1>3, <2>1, CloseKeeps
  <2>3. d # "unasked"
    BY DEF Decisions
  <2> QED BY <1>1, <1>2, <2>2, <2>3, GateKeepsPrompts
<1>4. ASSUME Clear PROVE PromptsInv'
  <2>1. IInv' /\ UNCHANGED <<asked, faults>>
    BY <1>1, <1>4, ClearStep DEF Clear
  <2>2. \A q \in Prompts : \/ answer'[q] = answer[q] /\ answer[q] # "waiting"
                           \/ answer'[q] = "rejected" /\ answer[q] = "waiting"
    <3>1. \A q \in Prompts : answer'[q] = IF q \in UNION {pending[s] : s \in Slots}
                                          THEN "rejected" ELSE answer[q]
      BY <1>1, <1>4 DEF Clear, SettleAll
    <3>2. \A q \in Prompts : answer[q] = "waiting" <=> q \in UNION {pending[s] : s \in Slots}
      <4>1. \A q \in Prompts : answer[q] # "unasked" => asked[q] \in Slots
        BY <1>1 DEF IInv, RowsAreAsked
      <4>2. \A q \in Requests, s \in Slots : q \in pending[s] <=> answer[q] = "waiting" /\ asked[q] = s
        BY <1>1 DEF IInv, WaitingIsHeld
      <4>3. ASSUME NEW q \in Prompts, answer[q] = "waiting" PROVE \E s \in Slots : q \in pending[s]
        BY <1>1, <4>1, <4>2, <4>3
      <4> QED BY <1>1, <4>2, <4>3
    <3> QED BY <3>1, <3>2
  <2>3. \A q \in Prompts : row[q] # "pending" => row'[q] = row[q]
    BY <1>1, <1>4 DEF Clear, SetStatus, OpenRows
  <2>4. RowsFollowAnswers'
    BY <1>1, <2>1, <2>2, <2>3 DEF PromptsInv, RowsFollowAnswers
  <2> QED BY <1>1, <1>2, <2>1, <2>2, <2>4, GateKeepsPrompts
<1>5. PromptsInv'
  <2>1. ASSUME NEW p \in Prompts, NEW d \in Decisions, Resolve(p, d) PROVE PromptsInv'
    BY <1>3, <2>1 DEF Resolve, Decisions, Statuses
  <2>2. ASSUME NEW p \in Prompts, Timeout(p) PROVE PromptsInv'
    BY <1>3, <2>2 DEF Timeout, Decisions, Statuses
  <2> QED BY <1>4, <2>1, <2>2 DEF GateStep
<1> QED BY <1>1, <1>2, <1>5, SessionUntouched, CliInvIsItsParts

-----------------------------------------------------------------------------

LEMMA CliInit == InitCli => CliInv
<1> SUFFICES ASSUME InitCli PROVE CliInv
  OBVIOUS
<1>1. IInv
  BY InitIInv DEF InitCli
<1>2. SessionInv
  BY DEF InitCli, SessionInv, SessionTypeOK, BeforeTheStart, VerdictEndsRun, CancelledIsQuiet,
         CompletionIsVerified, States, Terminal, Broken
<1>3. PromptsAreAsked
  BY FS_EmptySet DEF InitCli, Init, PromptsAreAsked, Prompts
<1>4. RowsFollowAnswers
  BY DEF InitCli, Init, RowsFollowAnswers, Prompts
<1>5. /\ active \subseteq Prompts /\ replies \in [Prompts -> Seq({"allow", "deny"})]
      /\ \A p \in Prompts \ AutoPrompts : PermittedTo(p) => answer[p] = "approved"
  <2>1. <<>> \in Seq({"allow", "deny"}) /\ Len(<<>>) = 0
    BY EmptySeq
  <2>2. replies = [p \in Prompts |-> <<>>] /\ active = {}
    BY DEF InitCli
  <2>3. \A p \in Prompts : ~PermittedTo(p)
    BY <2>1, <2>2 DEF PermittedTo
  <2> QED BY <2>1, <2>2, <2>3
<1> QED BY <1>1, <1>2, <1>3, <1>4, <1>5, CliInvIsItsParts DEF PromptsInv

LEMMA CliNext == CliInv /\ [NextCli]_allVars => CliInv'
<1> SUFFICES ASSUME CliInv, [NextCli]_allVars PROVE CliInv'
  OBVIOUS
<1>1. CASE Output \/ ReportResult \/ StopHook \/ IdleTimer \/ WallTimer \/ Exit
  <2>1. mode # "none"
    BY <1>1 DEF CliInv, BeforeTheStart, Output, ReportResult, StopHook, IdleTimer, WallTimer, Exit, Printing
  <2> QED BY <1>1, <2>1, ProcessStep
<1>2. CASE UNCHANGED allVars
  <2>1. UNCHANGED <<gateVars, promptVars>>
    BY <1>2 DEF allVars, cliVars, gateVars, promptVars
  <2>2. UNCHANGED <<st, mode, life, alive, signal, exitCode, claim, worked, run, verdict,
                    outcome, events, stored>>
    BY <1>2 DEF allVars, cliVars
  <2> QED BY <2>1, <2>2, PromptsUntouched, SessionUntouched, CliInvIsItsParts
<1> QED BY <1>1, <1>2, StartStep, PromptingStep, PromptStep, AnsweredStep, CollectStep, VerifiedStep, CancelStep,
           GateStepStep DEF NextCli

-----------------------------------------------------------------------------
(* The results *)

\* CliInv holds in every state of every session.
THEOREM CliInvariant == SpecCli => []CliInv
<1> QED BY CliInit, CliNext, PTL DEF SpecCli

\* Every value of a session, of its process, of its run and of its prompts is one
\* of its type (coding-cli-session.ts, coding-cli-process.ts).
THEOREM CliTypeCorrect == SpecCli => []TypeOKCli
<1>1. CliInv => TypeOKCli
  BY DEF CliInv
<1> QED BY <1>1, CliInvariant, PTL

\* The CLI is never taken at its word: neither the completed event nor the
\* outcome of the run comes before the verifier passed it (runHeadless of the
\* controller), and no prompt left to a human is answered with a permission that
\* no human gave (the approval bridge), through any SQLite errors of the ledger.
THEOREM NothingIsTakenOnTrust == SpecCli => []NothingOnTrust
<1>1. CliInv => NothingOnTrust
  BY DEF CliInv
<1> QED BY <1>1, CliInvariant, PTL

\* A final state is never left.
LEMMA FinalStays ==
  ASSUME CliInv, NextCli, st \in Terminal
  PROVE  st' = st
<1>1. st # "created"
  BY DEF Terminal, Broken
<1>2. mode # "none"
  BY <1>1 DEF CliInv, BeforeTheStart
<1>3. ~CreateUnsupported /\ ~StartHeadless /\ ~StartInteractive
  BY <1>2 DEF CreateUnsupported, StartHeadless, StartInteractive
<1>7. CASE PromptWritten \/ PromptFails
  BY <1>7 DEF PromptWritten, PromptFails
<1>4. CASE Output \/ ReportResult \/ StopHook \/ IdleTimer \/ WallTimer \/ Exit \/ Cancel
  BY <1>4, MovedOrStays DEF Output, ReportResult, StopHook, IdleTimer, WallTimer, Exit, Cancel
<1>5. CASE Collect \/ Verified
  BY <1>5 DEF Collect, Verified, Finalize
<1>6. CASE (\E p \in Prompts : Prompt(p) \/ Answered(p)) \/ GateStep
  BY <1>6 DEF Prompt, Answered, GateStep, cliVars
<1> QED BY <1>3, <1>4, <1>5, <1>6, <1>7 DEF NextCli

\* Nothing is written to the process of a cancelled session.
LEMMA CancelledIsNotAnswered ==
  ASSUME CliInv, NextCli, st = "cancelled"
  PROVE  replies' = replies
<1>1. PromptsInv /\ (mode # "interactive" \/ life # "running")
  BY CliInvIsItsParts DEF CliInv, CancelledIsQuiet
<1>2. ASSUME NEW p \in Prompts, NEW d \in {"allow", "deny"}, replies' = Written(p, d)
      PROVE  replies' = replies
  BY <1>1, <1>2, WrittenSaysIt
<1>3. ASSUME NEW p \in Prompts, Prompt(p) PROVE replies' = replies
  BY <1>2, <1>3 DEF Prompt
<1>4. ASSUME NEW p \in Prompts, Answered(p) PROVE replies' = replies
  <2>1. CASE answer[p] = "approved"
    BY <1>2, <1>4, <2>1 DEF Answered
  <2>2. CASE answer[p] # "approved"
    BY <1>2, <1>4, <2>2 DEF Answered
  <2> QED BY <2>1, <2>2
<1>5. CASE ~\E p \in Prompts : Prompt(p) \/ Answered(p)
  BY <1>5 DEF NextCli, CreateUnsupported, StartHeadless, StartInteractive, PromptWritten, PromptFails, Output, ReportResult, StopHook,
     IdleTimer, WallTimer, Exit, Collect, Verified, Cancel, GateStep, promptVars, cliVars
<1> QED BY <1>3, <1>4, <1>5

\* The cancellation settles every prompt the bridge still waits for.
LEMMA CancelSettles ==
  ASSUME CliInv, NextCli, events' # events, "cancelled" \in events', NEW p \in active
  PROVE  answer'[p] \in Settled
<1>1. Cancel
  <2>1. ~Collect /\ ~Verified
    <3>1. ASSUME NEW to, Finalize(to), to # "cancelled" PROVE FALSE
      BY <3>1 DEF Finalize, CliInv, CancelledIsQuiet
    <3>2. ~Collect
      BY <3>1 DEF Collect
    <3>3. ASSUME Verified PROVE FALSE
      <4>1. PICK passed \in BOOLEAN : Finalize(IF passed THEN "completed" ELSE "failed")
        BY <3>3 DEF Verified
      <4>2. PICK to : to = IF passed THEN "completed" ELSE "failed"
        OBVIOUS
      <4> QED BY <3>1, <4>1, <4>2
    <3> QED BY <3>2, <3>3
  <2> QED BY <2>1 DEF NextCli, CreateUnsupported, StartHeadless, StartInteractive, PromptWritten, PromptFails, Output, ReportResult,
          StopHook, Prompt, Answered, IdleTimer, WallTimer, Exit, GateStep, cliVars
<1>2. PromptsInv /\ TypeOK /\ p \in Prompts /\ p \in Requests /\ Prompts = Requests /\ Slots = Requests
  BY CliInvIsItsParts, PromptsAssumption DEF PromptsInv, IInv, Prompts
<1>3. answer[p] # "unasked" /\ asked[p] = p
  BY <1>2 DEF PromptsInv, PromptsAreAsked
<1>4. answer[p] \in Settled \union {"waiting"}
  BY <1>2, <1>3 DEF TypeOK
<1>5. PICK S \in SUBSET Prompts : S = {q \in active : pending[q] # {}}
  BY <1>2 DEF PromptsInv
<1>6. Close(S, "rejected", "rejected")
  BY <1>1, <1>5 DEF Cancel
<1>7. \A r \in Requests : answer'[r] = IF r \in HeldIn(S) THEN "rejected" ELSE answer[r]
  BY <1>6, CloseSettles
<1>8. answer[p] = "waiting" => p \in HeldIn(S)
  <2> SUFFICES ASSUME answer[p] = "waiting" PROVE p \in HeldIn(S)
    OBVIOUS
  <2>1. p \in pending[p]
    BY <1>2, <1>3 DEF PromptsInv, IInv, WaitingIsHeld
  <2> QED BY <1>5, <2>1 DEF HeldIn
<1> QED BY <1>2, <1>4, <1>7, <1>8 DEF Settled, Decisions

\* An end is an end: the later of the stop hook, the deadline, the user and the
\* verifier change nothing (transition() of the state machine), no permission is
\* written to a cancelled session's process, and the prompts raised before the
\* cancellation are settled by it (cancelSession).
THEOREM EndsAreFinal == SpecCli => EndIsFinal
<1>1. CliInv /\ [NextCli]_allVars => [st' # st => st \notin Terminal]_allVars
  BY FinalStays
<1>2. CliInv /\ [NextCli]_allVars => [st = "cancelled" => replies' = replies]_allVars
  BY CancelledIsNotAnswered
<1>3. CliInv /\ [NextCli]_allVars =>
        [events' # events /\ "cancelled" \in events' => \A p \in active : answer'[p] \in Settled]_allVars
  BY CancelSettles
<1> QED BY <1>1, <1>2, <1>3, CliInvariant, PTL
        DEF SpecCli, EndIsFinal, FinalStateStays, NoAllowAfterCancel, CancelClosesPrompts

=============================================================================
