---------------------------- MODULE ApprovalGate ----------------------------
(***************************************************************************)
(* The human-in-the-loop gate of src/src/orchestrator/approval-gate.ts     *)
(* with its durable ledger, src/src/db/approval-ledger-store.ts, across    *)
(* crashes and clean shutdowns of the orchestrator process.                *)
(*                                                                         *)
(* A slot is a (taskId, approvalKey) pair.  The first request of a slot    *)
(* opens it: a `pending` row in SQLite, an entry in the map, a timer.      *)
(* Further requests attach a resolver to the entry.  A human's decision,   *)
(* the timer or shutdown closes the slot and settles all its resolvers.    *)
(* Every function of the gate is synchronous, so each is one action.  The  *)
(* map dies with the process, the rows do not.                             *)
(***************************************************************************)
EXTENDS Naturals, FiniteSets

CONSTANTS
    Requests,    \* calls of requestApproval, each made once
    Slots,       \* (taskId, approvalKey) pairs
    Tasks,       \* task ids
    TaskOf,      \* the task of a slot
    NoSlot,      \* the slot of a request that has not been made
    MaxCrashes,  \* bound on crashes and shutdowns
    MaxFaults    \* bound on SQLite errors

ASSUME SlotsAssumption == TaskOf \in [Slots -> Tasks] /\ NoSlot \notin Slots
ASSUME BoundsAssumption == MaxCrashes \in Nat /\ MaxFaults \in Nat

VARIABLES
    process,  \* "up", "closing" (close() has called clear()) or "down"
    epoch,    \* how many processes ended before this one
    faults,   \* SQLite errors that may still happen
    asked,    \* the slot each request named
    answer,   \* the promise of each request
    pending,  \* the map `pending`: the requests whose resolvers a slot holds
    row,      \* status of the ledger row a request created
    born      \* the epoch of the process that created it

vars == <<process, epoch, faults, asked, answer, pending, row, born>>

Decisions == {"approved", "rejected"}
Settled == Decisions \union {"lost"}
Statuses == {"pending", "approved", "rejected", "timed_out",
             "shutdown_rejected", "superseded"}

TypeOK ==
    /\ process \in {"up", "closing", "down"}
    /\ epoch \in 0 .. MaxCrashes
    /\ faults \in 0 .. MaxFaults
    /\ asked \in [Requests -> Slots \union {NoSlot}]
    /\ answer \in [Requests -> {"unasked", "waiting"} \union Settled]
    /\ pending \in [Slots -> SUBSET Requests]
    /\ row \in [Requests -> Statuses \union {"none"}]
    /\ born \in [Requests -> 0 .. MaxCrashes]

Init ==
    /\ process = "up"
    /\ epoch = 0
    /\ faults = MaxFaults
    /\ asked = [r \in Requests |-> NoSlot]
    /\ answer = [r \in Requests |-> "unasked"]
    /\ pending = [s \in Slots |-> {}]
    /\ row = [r \in Requests |-> "none"]
    /\ born = [r \in Requests |-> 0]

-----------------------------------------------------------------------------
(* The ledger *)

\* findOpenStmt: the pending rows of a slot.
Open(s) == {r \in Requests : asked[r] = s /\ row[r] = "pending"}

OpenRows == {r \in Requests : row[r] = "pending"}

\* An UPDATE of the rows R that are still pending.
SetStatus(R, status) ==
    row' = [r \in Requests |-> IF r \in R THEN status ELSE row[r]]

\* Slip: the row is not written.
LedgerResolve_Skip(rows, status) == UNCHANGED <<row, faults>>

\* resolve() and timeout() of the store, for each of the open rows: it takes
\* the status, unless SQLite fails on it.
LedgerResolve(rows, status) ==
    \E failed \in SUBSET rows :
        /\ Cardinality(failed) <= faults
        /\ faults' = faults - Cardinality(failed)
        /\ SetStatus(rows \ failed, status)

-----------------------------------------------------------------------------
(* The gate *)

Running == process # "down"

\* All the resolvers R are called with the decision.
SettleAll(R, decision) ==
    answer' = [r \in Requests |-> IF r \in R THEN decision ELSE answer[r]]

\* Slip: a second request replaces the entry of the map.
Attach_Replace(r, s) ==
    /\ pending[s] # {}
    /\ pending' = [pending EXCEPT ![s] = {r}]
    /\ answer' = [answer EXCEPT ![r] = "waiting"]
    /\ UNCHANGED <<row, born, faults>>

\* requestApproval on a slot that is already waiting: one more resolver.
Attach(r, s) ==
    /\ pending[s] # {}
    /\ pending' = [pending EXCEPT ![s] = @ \union {r}]
    /\ answer' = [answer EXCEPT ![r] = "waiting"]
    /\ UNCHANGED <<row, born, faults>>

\* Slips: the caller is given the store's reason for its answer; or it adopts
\* the row it found.
RefuseOrphaned_Reason(r, s) ==
    /\ pending[s] = {}
    /\ Open(s) # {}
    /\ answer' = [answer EXCEPT ![r] = "duplicate_pending"]
    /\ UNCHANGED <<pending, row, born, faults>>

RefuseOrphaned_Adopt(r, s) ==
    /\ pending[s] = {}
    /\ Open(s) # {}
    /\ answer' = [answer EXCEPT ![r] = "waiting"]
    /\ pending' = [pending EXCEPT ![s] = {r}]
    /\ UNCHANGED <<row, born, faults>>

\* The slot is free here but the ledger has a pending row of it, left by
\* another process or by a failed update: rejected at once, the row stays.
RefuseOrphaned(r, s) ==
    /\ pending[s] = {}
    /\ Open(s) # {}
    /\ answer' = [answer EXCEPT ![r] = "rejected"]
    /\ UNCHANGED <<pending, row, born, faults>>

\* Slip: no look at the ledger before the INSERT, and no unique index.
OpenSlot_NoCheck(r, s) ==
    /\ pending[s] = {}
    /\ pending' = [pending EXCEPT ![s] = {r}]
    /\ answer' = [answer EXCEPT ![r] = "waiting"]
    /\ row' = [row EXCEPT ![r] = "pending"]
    /\ born' = [born EXCEPT ![r] = epoch]
    /\ UNCHANGED faults

\* A new slot: the row first, then the timer and the entry.  When the INSERT
\* fails (db_error) the gate opens all the same, without a row.
OpenSlot(r, s) ==
    /\ pending[s] = {}
    /\ Open(s) = {}
    /\ pending' = [pending EXCEPT ![s] = {r}]
    /\ answer' = [answer EXCEPT ![r] = "waiting"]
    /\ \/ /\ row' = [row EXCEPT ![r] = "pending"]
          /\ born' = [born EXCEPT ![r] = epoch]
          /\ UNCHANGED faults
       \/ /\ faults > 0
          /\ faults' = faults - 1
          /\ UNCHANGED <<row, born>>

\* requestApproval(taskId, ..., { approvalKey }).  close() does not wait for
\* the tasks in flight, so a request may come after clear().
RequestApproval(r, s) ==
    /\ Running
    /\ answer[r] = "unasked"
    /\ asked' = [asked EXCEPT ![r] = s]
    /\ Attach(r, s) \/ RefuseOrphaned(r, s) \/ OpenSlot(r, s)
    /\ UNCHANGED <<process, epoch>>

\* Closes the waiting slots S: entries and timers go, the rows are updated, then
\* the promises settle.
Close(S, status, decision) ==
    /\ Running
    /\ pending' = [s \in Slots |-> IF s \in S THEN {} ELSE pending[s]]
    /\ LedgerResolve(UNION {Open(s) : s \in S}, status)
    /\ SettleAll(UNION {pending[s] : s \in S}, decision)
    /\ UNCHANGED <<process, epoch, asked, born>>

\* resolve(): a decision of the API or the TUI.  Without a slot it is a 404.
Resolve(s, decision) == pending[s] # {} /\ Close({s}, decision, decision)

\* The timer of the slot.
Timeout(s) == pending[s] # {} /\ Close({s}, "timed_out", "rejected")

\* supersedeForRetry(parentTaskId, ...): the ledger's rows only; the slots and
\* their resolvers stay.
SupersedeForRetry(t) ==
    /\ Running
    /\ LET rows == {r \in OpenRows : TaskOf[asked[r]] = t}
       IN rows # {} /\ SetStatus(rows, "superseded")
    /\ UNCHANGED <<process, epoch, faults, asked, answer, pending, born>>

\* clear(), called by close(): every resolver is rejected, then every pending
\* row of the ledger, whoever created it.
Clear ==
    /\ process = "up"
    /\ process' = "closing"
    /\ SettleAll(UNION {pending[s] : s \in Slots}, "rejected")
    /\ pending' = [s \in Slots |-> {}]
    /\ SetStatus(OpenRows, "shutdown_rejected")
    /\ UNCHANGED <<epoch, faults, asked, born>>

-----------------------------------------------------------------------------
(* The process *)

\* The process ends, by exit after close() or by a crash at any time: the map
\* and the promises are gone.  A crash may hit the loop of shutdownRejectOpen,
\* so that some of the pending rows have been rejected.
Die ==
    /\ Running
    /\ process' = "down"
    /\ \E done \in SUBSET OpenRows :
         /\ SetStatus(done, "shutdown_rejected")
         /\ done # {} => process = "up"
    /\ pending' = [s \in Slots |-> {}]
    /\ SettleAll({r \in Requests : answer[r] = "waiting"}, "lost")
    /\ UNCHANGED <<epoch, faults, asked, born>>

Restart ==
    /\ process = "down"
    /\ epoch < MaxCrashes
    /\ process' = "up"
    /\ epoch' = epoch + 1
    /\ UNCHANGED <<faults, asked, answer, pending, row, born>>

Next ==
    \/ \E r \in Requests, s \in Slots : RequestApproval(r, s)
    \/ \E s \in Slots, d \in Decisions : Resolve(s, d)
    \/ \E s \in Slots : Timeout(s)
    \/ \E t \in Tasks : SupersedeForRetry(t)
    \/ Clear
    \/ Die
    \/ Restart

Spec == Init /\ [][Next]_vars

\* A timer of a live process fires.
FairSpec == Spec /\ \A s \in Slots : WF_vars(Timeout(s))

-----------------------------------------------------------------------------
(* Properties *)

\* A promise that waits is held by exactly one slot, its own, so that one of
\* resolve(), the timer and clear() reaches it: no request hangs because its
\* resolver was replaced or dropped, and no settled one is called again.
WaitingIsHeld ==
    \A r \in Requests, s \in Slots :
        r \in pending[s] <=> answer[r] = "waiting" /\ asked[r] = s

\* idx_approval_ledger_pending_unique: a slot has one pending row at most.
OneOpenRow == \A s \in Slots : Cardinality(Open(s)) <= 1

\* "every resolution, timeout, or shutdown updates the row before the awaiting
\* promise settles": while SQLite has not failed, a pending row of this process
\* has its slot, so that getOrphanedPending lists rows of dead processes only
\* and no later request of this process is refused because of them.
OpenRowIsLiveOrOrphan ==
    \A r \in Requests :
        row[r] = "pending" /\ born[r] = epoch /\ Running /\ faults = MaxFaults
            => pending[asked[r]] # {}

\* Promises, slots and rows agree, through failing updates, crashes and restarts.
SlotsMatchRows == WaitingIsHeld /\ OneOpenRow /\ OpenRowIsLiveOrOrphan

\* A row left behind is never adopted: a human's decision or a timer reaches
\* only a row created by this process, while its slot waits.
NoAdoption ==
    [][\A r \in Requests :
         row[r] = "pending" /\ row'[r] \in {"approved", "rejected", "timed_out"}
            => born[r] = epoch /\ answer[r] # "lost" /\ pending[asked[r]] # {}]_vars

\* An approval is on record: when a request is granted and its slot had a row,
\* the row says approved, unless a retry superseded it or SQLite failed.
GrantIsRecorded ==
    [][\A r \in Requests :
         answer[r] = "waiting" /\ answer'[r] = "approved" /\ faults' = faults
            => \A o \in Open(asked[r]) : row'[o] = "approved"]_vars

\* A decision reaches the rows it is about, and no others.
DecisionReachesItsRow == NoAdoption /\ GrantIsRecorded

\* Whatever happens to a request's slot, its promise settles or its process
\* ends.
RequestSettles ==
    \A r \in Requests : answer[r] = "waiting" ~> answer[r] \in Settled

\* Statement of approval-gate.ts:420 ("by design we never strand pending rows
\* across a clean shutdown"), which a request made after clear() breaks.
CleanExitStrandsNothing ==
    [][process = "closing" /\ process' = "down" => OpenRows = {}]_vars

\* Statement of approval-ledger-store.ts:12-15: the store does not resolve the
\* rows of an earlier process, a human does; the next clean shutdown does.
OrphansAwaitHuman ==
    [][\A r \in Requests :
         row[r] = "pending" /\ born[r] < epoch /\ process = "up" /\ process' = "closing"
            => row'[r] = "pending"]_vars
=============================================================================
