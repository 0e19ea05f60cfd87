---------------------------- MODULE Schedules_proofs ----------------------------
(***************************************************************************)
(* Proofs for Schedules: for any schedules, crons, limit and number of     *)
(* ticks, an active schedule is below its limit of failures, and the       *)
(* runner brings nothing back into service.                                *)
(***************************************************************************)
EXTENDS Schedules, FiniteSetTheorems, SequenceTheorems, TLAPS

-----------------------------------------------------------------------------
(* The inductive invariant *)

Firing == [id : Schedules, row : Row]

Tick == [now : 0 .. MaxTime, left : Seq(Firing), phase : {"idle", "run", "reply"}]

\* A row in service has not reached the limit, so one more failure counts up to it
\* at most.  It holds of the copies as well, which are as old as their tick or edit.
InService(row) == row.status = "active" => row.streak < Limit

StreaksAreBelow ==
    /\ \A s \in Schedules : Has(s) => InService(rows[s])
    /\ \A e \in edits : InService(e.row)
    /\ \A k \in Ticks : \A i \in DOMAIN ticks[k].left :
          ticks[k].left[i].row.status = "active" /\ InService(ticks[k].left[i].row)

IInv ==
    /\ TypeOK
    /\ ticks \in [Ticks -> Tick]
    /\ StreaksAreBelow

-----------------------------------------------------------------------------
(* The operators *)

LEMMA Bounds ==
  /\ IsFiniteSet(Schedules) /\ Crons \subseteq Nat /\ Limit \in Nat /\ Limit > 0
  /\ MaxTicks \in Nat /\ MaxTime \in Nat /\ MaxTime > 0 /\ MaxRequests \in Nat /\ MaxCrashes \in Nat
BY SchedulesAssumption

\* Three columns of a row are written.
Written(row, st, k, n) == [row EXCEPT !.status = st, !.streak = k, !.next = n]

LEMMA RowWritten ==
  ASSUME NEW row \in Row, NEW st \in {"active", "paused", "expired", "failed-circuit"},
         NEW n \in Nat, NEW k \in 0 .. Limit
  PROVE  Written(row, st, k, n) \in Row
<1> DEFINE r == [row EXCEPT !.status = st, !.streak = k, !.next = n]
<1>1. r = [[[row EXCEPT !.status = st] EXCEPT !.streak = k] EXCEPT !.next = n]
  BY DEF Row
<1>2. [row EXCEPT !.status = st] \in Row
  BY DEF Row
<1>3. \A q \in Row : [q EXCEPT !.streak = k] \in Row /\ [q EXCEPT !.next = n] \in Row
  BY DEF Row
<1> QED BY <1>1, <1>2, <1>3 DEF Written

\* The next match is a minute, or there is none.
LEMMA NextFireIsAMinute ==
  ASSUME NEW c \in Crons, NEW now \in Nat
  PROVE  NextFireAt(c, now) \in Nat
<1>1. c \in Nat
  BY Bounds
<1>2. CASE c = 0
  BY <1>2 DEF NextFireAt, Null
<1>3. CASE c # 0
  <2>1. now \div c \in Nat
    BY <1>1, <1>3
  <2>2. \A m, n \in Nat : (m + 1) * n \in Nat
    OBVIOUS
  <2> QED BY <1>1, <1>3, <2>1, <2>2 DEF NextFireAt
<1> QED BY <1>2, <1>3

LEMMA FreshIsARow ==
  ASSUME TypeOK, NEW c \in Crons
  PROVE  Fresh(c) \in Row /\ InService(Fresh(c))
<1>1. clock \in Nat
  BY Bounds DEF TypeOK
<1> QED BY <1>1, Bounds, NextFireIsAMinute DEF Fresh, Row, InService

\* What a firing makes of a row is a row, which it does not put into service.
LEMMA AfterFiringIsARow ==
  ASSUME TypeOK, NEW f \in Firing, NEW now \in 0 .. MaxTime, NEW o \in Outcomes,
         InService(f.row), f.row.status = "active"
  PROVE  /\ AfterFiring(f, now, o) \in Row \union {NoRow}
         /\ ~Has(f.id) => AfterFiring(f, now, o) = NoRow
         /\ Has(f.id) => /\ AfterFiring(f, now, o) \in Row
                         /\ InService(AfterFiring(f, now, o))
                         /\ AfterFiring(f, now, o).status = "active" => rows[f.id].status = "active"
<1>1. /\ f.id \in Schedules /\ f.row \in Row /\ f.row.cron \in Crons
      /\ f.row.streak \in Nat /\ f.row.streak < Limit /\ Limit \in Nat
  BY Bounds DEF Firing, Row, InService
<1> DEFINE streak == IF Failed(o) THEN f.row.streak + 1 ELSE 0
<1>2. streak \in 0 .. Limit
  BY <1>1
<1>3. NextFireAt(f.row.cron, now) \in Nat
  <2>1. now \in Nat
    BY Bounds
  <2> QED BY <1>1, <2>1, NextFireIsAMinute
<1>4. CASE ~Has(f.id)
  BY <1>4 DEF AfterFiring
<1>5. CASE Has(f.id)
  <2>1. rows[f.id] \in Row
    BY <1>1, <1>5 DEF TypeOK, Has
  <2>2. CASE streak >= Limit
    <3>1. AfterFiring(f, now, o) = Written(rows[f.id], "failed-circuit", streak, Null)
      BY <1>5, <2>2 DEF AfterFiring, Written
    <3> HIDE DEF streak
    <3>2. Null \in Nat
      BY DEF Null
    <3>3. Written(rows[f.id], "failed-circuit", streak, Null) \in Row
      BY <1>2, <2>1, <3>2, RowWritten, Zenon
    <3>4. Written(rows[f.id], "failed-circuit", streak, Null).status = "failed-circuit"
      BY <2>1 DEF Written, Row
    <3> QED BY <1>5, <3>1, <3>3, <3>4 DEF InService
  <2>3. CASE ~(streak >= Limit)
    <3>1. AfterFiring(f, now, o)
            = [rows[f.id] EXCEPT !.streak = streak, !.next = NextFireAt(f.row.cron, now)]
      BY <1>5, <2>3 DEF AfterFiring
    <3>2. streak < Limit
      BY <1>1, <1>2, <2>3
    <3> QED BY <1>2, <1>3, <1>5, <2>1, <3>1, <3>2 DEF Row, InService
  <2> QED BY <2>2, <2>3
<1> QED BY <1>4, <1>5

\* A tick that goes on has something left, or its place is free.
LEMMA OnwardIsATick ==
  ASSUME NEW k, ticks[k] \in Tick, ticks[k].left # <<>>
  PROVE  /\ Onward(k) \in Tick
         /\ (Onward(k).left = <<>>) = (Onward(k) = Idle)
         /\ \A i \in DOMAIN Onward(k).left :
               \E j \in DOMAIN ticks[k].left : Onward(k).left[i] = ticks[k].left[j]
<1> DEFINE rest == Tail(ticks[k].left)
<1>1. ticks[k].left \in Seq(Firing)
  BY DEF Tick
<1>2. /\ rest \in Seq(Firing)
      /\ \A i \in DOMAIN rest : i + 1 \in DOMAIN ticks[k].left /\ rest[i] = ticks[k].left[i + 1]
  BY <1>1
<1>3. Idle \in Tick /\ Idle.left = <<>>
  BY Bounds DEF Idle, Tick, Null
<1>4. CASE rest = <<>>
  BY <1>3, <1>4 DEF Onward
<1>5. CASE rest # <<>>
  <2>1. Onward(k) = [ticks[k] EXCEPT !.left = rest, !.phase = "run"]
    BY <1>5 DEF Onward
  <2>2. Onward(k) \in Tick /\ Onward(k).left = rest
    BY <1>2, <2>1 DEF Tick
  <2> QED BY <1>2, <1>3, <1>5, <2>2
<1> QED BY <1>4, <1>5

-----------------------------------------------------------------------------
(* The steps *)

\* One row is written, or removed.
LEMMA OneRowChanges ==
  ASSUME IInv, NEW s \in Schedules, NEW r \in Row \union {NoRow},
         rows' = [rows EXCEPT ![s] = r], r # NoRow => InService(r),
         edits' \subseteq edits, UNCHANGED <<ticks, clock, runner, crashes>>,
         born' \subseteq Schedules, requests' \in 0 .. MaxRequests
  PROVE  IInv'
<1>1. TypeOK'
  BY DEF IInv, TypeOK
<1>2. StreaksAreBelow'
  <2>1. \A t \in Schedules : Has(t)' => InService(rows'[t])
    BY DEF IInv, TypeOK, StreaksAreBelow, Has
  <2> QED BY <2>1 DEF IInv, StreaksAreBelow
<1> QED BY <1>1, <1>2 DEF IInv

LEMMA OneRequest ==
  ASSUME TypeOK, Requested
  PROVE  requests' \in 0 .. MaxRequests
BY Bounds DEF TypeOK, Requested

LEMMA EditBegins ==
  ASSUME IInv, NEW s \in Schedules, Has(s), NEW c \in Crons, NEW kind \in {"resume", "patch"},
         Requested, edits' = edits \union {[kind |-> kind, id |-> s, row |-> rows[s], cron |-> c]},
         UNCHANGED <<rows, born, ticks, clock, runner, crashes>>
  PROVE  IInv'
<1> DEFINE e == [kind |-> kind, id |-> s, row |-> rows[s], cron |-> c]
<1>1. rows[s] \in Row /\ InService(rows[s])
  BY DEF IInv, TypeOK, StreaksAreBelow, Has
<1>2. e \in [kind : {"resume", "patch"}, id : Schedules, row : Row, cron : Crons] /\ e.row = rows[s]
  BY <1>1
<1>3. TypeOK'
  BY <1>2, OneRequest DEF IInv, TypeOK
<1>4. StreaksAreBelow'
  <2>1. \A d \in edits' : InService(d.row)
    BY <1>1, <1>2 DEF IInv, StreaksAreBelow
  <2> QED BY <2>1 DEF IInv, StreaksAreBelow, Has
<1> QED BY <1>3, <1>4 DEF IInv

LEMMA OperatorSteps ==
  ASSUME IInv, NEW s \in Schedules, NEW c \in Crons,
         \/ Create(s, c) \/ Pause(s) \/ Delete(s) \/ Expire(s)
         \/ ResumeBegins(s) \/ PatchBegins(s, c)
  PROVE  IInv'
<1>1. TypeOK /\ StreaksAreBelow
  BY DEF IInv
<1>2. Has(s) => rows[s] \in Row
  BY <1>1 DEF TypeOK, Has
<1>3. CASE Create(s, c)
  <2>1. born' \subseteq Schedules /\ requests' \in 0 .. MaxRequests
    BY <1>1, <1>3, OneRequest DEF Create, TypeOK
  <2>2. Fresh(c) \in Row /\ InService(Fresh(c))
    BY <1>1, FreshIsARow
  <2> QED BY <1>3, <2>1, <2>2, OneRowChanges DEF Create
<1>4. CASE Pause(s)
  <2> DEFINE r == [rows[s] EXCEPT !.status = "paused", !.next = Null]
  <2>1. rows' = [rows EXCEPT ![s] = r] /\ r \in Row /\ InService(r)
    BY <1>1, <1>2, <1>4 DEF Pause, TypeOK, Row, InService, Null
  <2>2. born' \subseteq Schedules /\ requests' \in 0 .. MaxRequests
    BY <1>1, <1>4, OneRequest DEF Pause, TypeOK
  <2> QED BY <1>4, <2>1, <2>2, OneRowChanges DEF Pause
<1>5. CASE Delete(s)
  <2>1. born' \subseteq Schedules /\ requests' \in 0 .. MaxRequests
    BY <1>1, <1>5, OneRequest DEF Delete, TypeOK
  <2> QED BY <1>5, <2>1, OneRowChanges DEF Delete
<1>6. CASE Expire(s)
  <2> DEFINE r == [rows[s] EXCEPT !.status = "expired"]
  <2>1. rows' = [rows EXCEPT ![s] = r] /\ r \in Row /\ InService(r)
    BY <1>1, <1>2, <1>6 DEF Expire, TypeOK, Row, InService
  <2>2. born' \subseteq Schedules /\ requests' \in 0 .. MaxRequests
    BY <1>1, <1>6, OneRequest DEF Expire, TypeOK
  <2> QED BY <1>6, <2>1, <2>2, OneRowChanges DEF Expire
<1>7. CASE ResumeBegins(s)
  <2>1. rows[s].cron \in Crons
    BY <1>2, <1>7 DEF ResumeBegins, Row
  <2> QED BY <1>7, <2>1, EditBegins DEF ResumeBegins
<1>8. CASE PatchBegins(s, c)
  BY <1>8, EditBegins DEF PatchBegins
<1> QED BY <1>3, <1>4, <1>5, <1>6, <1>7, <1>8

LEMMA EditEnds ==
  ASSUME IInv, NEW e \in edits, ResumeEnds(e) \/ PatchEnds(e)
  PROVE  IInv'
<1>1. /\ TypeOK /\ e.id \in Schedules /\ e.row \in Row /\ e.cron \in Crons /\ InService(e.row)
      /\ clock \in Nat
  BY Bounds DEF IInv, TypeOK, StreaksAreBelow
<1>2. NextFireAt(e.cron, clock) \in Nat
  BY <1>1, NextFireIsAMinute
<1>3. born \subseteq Schedules /\ requests \in 0 .. MaxRequests
  BY <1>1 DEF TypeOK
<1>4. CASE ResumeEnds(e) /\ Has(e.id)
  <2> DEFINE r == Written(rows[e.id], "active", 0, NextFireAt(e.cron, clock))
  <2>1. rows[e.id] \in Row
    BY <1>1, <1>4 DEF TypeOK, Has
  <2>2. r \in Row /\ r.streak = 0
    <3>1. 0 \in 0 .. Limit
      BY Bounds
    <3>2. r \in Row
      BY <1>2, <2>1, <3>1, RowWritten, Zenon
    <3>3. r.streak = 0
      BY <2>1 DEF Written, Row
    <3> QED BY <3>2, <3>3
  <2>3. InService(r)
    BY <2>2, Bounds DEF InService
  <2>4. rows' = [rows EXCEPT ![e.id] = r]
    BY <1>1, <1>4 DEF ResumeEnds, Written
  <2> QED BY <1>1, <1>3, <1>4, <2>2, <2>3, <2>4, OneRowChanges DEF ResumeEnds
<1>5. CASE ResumeEnds(e) /\ ~Has(e.id)
  <2>1. rows' = [rows EXCEPT ![e.id] = NoRow]
    BY <1>1, <1>5 DEF ResumeEnds, TypeOK, Has
  <2> QED BY <1>1, <1>3, <1>5, <2>1, OneRowChanges DEF ResumeEnds
<1>6. CASE PatchEnds(e)
  <2> DEFINE r == [e.row EXCEPT !.cron = e.cron, !.next = NextFireAt(e.cron, clock)]
  <2>1. r \in Row /\ InService(r)
    BY <1>1, <1>2 DEF Row, InService
  <2> QED BY <1>1, <1>3, <1>6, <2>1, OneRowChanges DEF PatchEnds
<1> QED BY <1>4, <1>5, <1>6

\* One tick begins, goes on or ends, with the rows as its step leaves them.
LEMMA OneTickChanges ==
  ASSUME IInv, NEW k \in Ticks, NEW t \in Tick,
         ticks' = [ticks EXCEPT ![k] = t],
         (t.left = <<>>) = (t = Idle),
         \A i \in DOMAIN t.left :
            t.left[i].row.status = "active" /\ InService(t.left[i].row),
         rows' \in [Schedules -> Row \union {NoRow}],
         \A s \in Schedules : Has(s)' => InService(rows'[s]),
         UNCHANGED <<born, edits, clock, runner, requests, crashes>>
  PROVE  IInv'
<1>1. ticks' \in [Ticks -> Tick] /\ ticks'[k] = t /\ \A j \in Ticks : j # k => ticks'[j] = ticks[j]
  BY DEF IInv
<1>2. \A i \in DOMAIN t.left : t.left[i] \in Firing
  BY DEF Tick
<1>3. t.phase \in {"idle", "run", "reply"}
  BY DEF Tick
<1>4. ASSUME NEW j \in Ticks
      PROVE  /\ ticks'[j].phase \in {"idle", "run", "reply"}
             /\ (ticks'[j].left = <<>>) = (ticks'[j] = Idle)
             /\ \A i \in DOMAIN ticks'[j].left :
                   /\ ticks'[j].left[i] \in Firing
                   /\ ticks'[j].left[i].row.status = "active"
                   /\ InService(ticks'[j].left[i].row)
  <2>1. CASE j = k
    BY <1>1, <1>2, <1>3, <2>1
  <2>2. CASE j # k
    BY <1>1, <2>2 DEF IInv, TypeOK, StreaksAreBelow, Firing
  <2> QED BY <2>1, <2>2
<1>5. TypeOK'
  BY <1>4 DEF IInv, TypeOK, Firing
<1>6. StreaksAreBelow'
  BY <1>4 DEF IInv, StreaksAreBelow
<1> QED BY <1>1, <1>5, <1>6 DEF IInv

\* What a tick under way has left are firings of rows that were in service.
LEMMA TickUnderWay ==
  ASSUME IInv, NEW k \in Ticks, ticks[k].phase # "idle"
  PROVE  /\ ticks[k] \in Tick /\ ticks[k].left # <<>>
         /\ Head(ticks[k].left) \in Firing
         /\ Head(ticks[k].left).row.status = "active"
         /\ InService(Head(ticks[k].left).row)
         /\ \A i \in DOMAIN ticks[k].left :
               ticks[k].left[i].row.status = "active" /\ InService(ticks[k].left[i].row)
<1>1. ticks[k] \in Tick /\ ticks[k].left \in Seq(Firing)
  BY DEF IInv, Tick
<1>2. ticks[k].left # <<>>
  BY DEF IInv, TypeOK, Idle
<1>3. 1 \in DOMAIN ticks[k].left /\ Head(ticks[k].left) = ticks[k].left[1]
  BY <1>1, <1>2
<1>4. \A i \in DOMAIN ticks[k].left :
         ticks[k].left[i].row.status = "active" /\ InService(ticks[k].left[i].row)
  BY DEF IInv, StreaksAreBelow
<1> QED BY <1>1, <1>2, <1>3, <1>4

LEMMA GoingOn ==
  ASSUME IInv, NEW k \in Ticks, ticks[k].phase # "idle",
         ticks' = [ticks EXCEPT ![k] = Onward(k)],
         rows' \in [Schedules -> Row \union {NoRow}],
         \A s \in Schedules : Has(s)' => InService(rows'[s]),
         UNCHANGED <<born, edits, clock, runner, requests, crashes>>
  PROVE  IInv'
<1>1. /\ ticks[k] \in Tick /\ ticks[k].left # <<>>
      /\ \A i \in DOMAIN ticks[k].left :
            ticks[k].left[i].row.status = "active" /\ InService(ticks[k].left[i].row)
  BY TickUnderWay
<1>2. /\ Onward(k) \in Tick
      /\ (Onward(k).left = <<>>) = (Onward(k) = Idle)
      /\ \A i \in DOMAIN Onward(k).left :
            \E j \in DOMAIN ticks[k].left : Onward(k).left[i] = ticks[k].left[j]
  BY <1>1, OnwardIsATick
<1>3. \A i \in DOMAIN Onward(k).left :
        Onward(k).left[i].row.status = "active" /\ InService(Onward(k).left[i].row)
  BY <1>1, <1>2
<1> QED BY <1>2, <1>3, OneTickChanges

\* The due schedules, in any order, are firings of rows in service.
LEMMA TickBeginsKeeps ==
  ASSUME IInv, NEW k \in Ticks, TickBegins(k)
  PROVE  IInv'
<1> DEFINE due == {s \in Schedules : Due(s)}
<1>1. PICK q \in SetToSeqs(due) :
        ticks' = [ticks EXCEPT ![k] =
                    [now |-> clock, phase |-> "run",
                     left |-> [i \in DOMAIN q |-> [id |-> q[i], row |-> rows[q[i]]]]]]
  BY DEF TickBegins
<1>2. PICK n \in Nat : n > 0 /\ q \in [1 .. n -> due]
  <2>1. IsFiniteSet(due)
    BY Bounds, FS_Subset
  <2>2. due # {}
    BY DEF TickBegins
  <2> HIDE DEF due
  <2>3. Cardinality(due) \in Nat /\ Cardinality(due) # 0
    BY <2>1, <2>2, FS_CardinalityType, FS_EmptySet
  <2> QED BY <2>3 DEF SetToSeqs
<1> DEFINE left == [i \in DOMAIN q |-> [id |-> q[i], row |-> rows[q[i]]]]
           t == [now |-> clock, phase |-> "run", left |-> left]
<1>3. \A s \in due : /\ s \in Schedules /\ rows[s] \in Row
                     /\ rows[s].status = "active" /\ InService(rows[s])
  BY DEF Due, Has, IInv, TypeOK, StreaksAreBelow
<1>4. \A i \in 1 .. n : /\ left[i] \in Firing
                        /\ left[i].row.status = "active" /\ InService(left[i].row)
  BY <1>2, <1>3 DEF Firing
<1>5. left \in [1 .. n -> Firing]
  BY <1>2, <1>4
<1>6. left \in Seq(Firing) /\ DOMAIN left = 1 .. n /\ left # <<>>
  BY <1>2, <1>5
<1>7. clock \in 0 .. MaxTime
  BY Bounds DEF IInv, TypeOK
<1> HIDE DEF left
<1>8. t \in Tick /\ t.left = left /\ t # Idle
  BY <1>6, <1>7 DEF Tick, Idle
<1>9. ticks' = [ticks EXCEPT ![k] = t]
  BY <1>1 DEF left
<1>10. /\ rows' \in [Schedules -> Row \union {NoRow}]
       /\ \A s \in Schedules : Has(s)' => InService(rows'[s])
       /\ UNCHANGED <<born, edits, clock, runner, requests, crashes>>
  BY DEF TickBegins, IInv, TypeOK, StreaksAreBelow, Has
<1> QED BY <1>4, <1>6, <1>8, <1>9, <1>10, OneTickChanges

\* A firing ends: its row is written, and its tick delivers or goes on.
LEMMA FireEndsKeeps ==
  ASSUME IInv, NEW k \in Ticks, NEW o \in Outcomes, FireEnds(k, o)
  PROVE  IInv'
<1> DEFINE f == Head(ticks[k].left)
           r == AfterFiring(f, ticks[k].now, o)
<1>1. /\ ticks[k] \in Tick /\ ticks[k].left # <<>>
      /\ f \in Firing /\ f.row.status = "active" /\ InService(f.row)
      /\ \A i \in DOMAIN ticks[k].left :
            ticks[k].left[i].row.status = "active" /\ InService(ticks[k].left[i].row)
  BY TickUnderWay DEF FireEnds
<1>2. f.id \in Schedules /\ ticks[k].now \in 0 .. MaxTime
  BY <1>1 DEF Firing, Tick
<1>3. /\ r \in Row \union {NoRow}
      /\ ~Has(f.id) => r = NoRow
      /\ Has(f.id) => InService(r)
  BY <1>1, <1>2, AfterFiringIsARow DEF IInv
<1>4. rows' = [rows EXCEPT ![f.id] = r]
  BY DEF FireEnds
<1>5. /\ rows' \in [Schedules -> Row \union {NoRow}]
      /\ \A s \in Schedules : Has(s)' => InService(rows'[s])
  BY <1>2, <1>3, <1>4 DEF IInv, TypeOK, StreaksAreBelow, Has
<1>6. UNCHANGED <<born, edits, clock, runner, requests, crashes>> /\ ticks[k].phase # "idle"
  BY DEF FireEnds
<1>7. CASE o = "threw"
  <2>1. ticks' = [ticks EXCEPT ![k] = Onward(k)]
    BY <1>7 DEF FireEnds
  <2> QED BY <1>5, <1>6, <2>1, GoingOn
<1>8. CASE o # "threw"
  <2> DEFINE t == [ticks[k] EXCEPT !.phase = "reply"]
  <2>1. ticks' = [ticks EXCEPT ![k] = t]
    BY <1>8 DEF FireEnds, IInv
  <2>2. t \in Tick /\ t.left = ticks[k].left /\ t # Idle
    BY <1>1 DEF Tick, Idle
  <2>3. (t.left = <<>>) = (t = Idle)
    BY <1>1, <2>2
  <2>4. \A i \in DOMAIN t.left : t.left[i].row.status = "active" /\ InService(t.left[i].row)
    BY <1>1, <2>2
  <2> HIDE DEF t
  <2> QED BY <1>5, <1>6, <2>1, <2>2, <2>3, <2>4, OneTickChanges
<1> QED BY <1>7, <1>8

-----------------------------------------------------------------------------
(* The invariant *)

LEMMA InitEstablishesIInv == Init => IInv
<1> SUFFICES ASSUME Init PROVE IInv
  OBVIOUS
<1>1. clock = 1 /\ clock \in 1 .. MaxTime
  BY Bounds DEF Init
<1>2. \A c \in Crons : Fresh(c) \in Row /\ InService(Fresh(c))
  BY <1>1, Bounds, NextFireIsAMinute DEF Fresh, Row, InService
<1>3. /\ rows \in [Schedules -> Row \union {NoRow}]
      /\ \A s \in Schedules : Has(s) => InService(rows[s])
  BY <1>2 DEF Init, Has
<1>4. Idle \in Tick /\ Idle.left = <<>> /\ Idle.phase = "idle"
  BY Bounds DEF Idle, Tick, Null
<1>5. ticks \in [Ticks -> Tick] /\ \A k \in Ticks : ticks[k] = Idle
  BY <1>4 DEF Init
<1>6. TypeOK
  BY <1>1, <1>3, <1>4, <1>5, Bounds DEF Init, TypeOK
<1>7. StreaksAreBelow
  BY <1>3, <1>4, <1>5 DEF Init, StreaksAreBelow
<1> QED BY <1>5, <1>6, <1>7 DEF IInv

\* The process starts, stops or ends, and time passes.
LEMMA ProcessSteps ==
  ASSUME IInv, Start \/ Stop \/ Crash \/ Pass
  PROVE  IInv'
<1>1. CASE Start \/ Stop
  <2>1. TypeOK'
    BY <1>1 DEF IInv, TypeOK, Start, Stop
  <2>2. StreaksAreBelow' /\ (ticks \in [Ticks -> Tick])'
    BY <1>1 DEF IInv, StreaksAreBelow, Has, Start, Stop
  <2> QED BY <2>1, <2>2 DEF IInv
<1>2. CASE Crash
  <2>1. Idle \in Tick /\ Idle.left = <<>> /\ Idle.phase = "idle"
    BY Bounds DEF Idle, Tick, Null
  <2>2. ticks' \in [Ticks -> Tick] /\ \A k \in Ticks : ticks'[k] = Idle
    BY <1>2, <2>1 DEF Crash
  <2>3. crashes' \in 0 .. MaxCrashes
    BY <1>2, Bounds DEF Crash, IInv, TypeOK
  <2>4. TypeOK'
    BY <1>2, <2>1, <2>2, <2>3 DEF IInv, TypeOK, Crash
  <2>5. StreaksAreBelow'
    BY <1>2, <2>1, <2>2 DEF IInv, StreaksAreBelow, Has, Crash
  <2> QED BY <2>2, <2>4, <2>5 DEF IInv
<1>3. CASE Pass
  <2>1. clock' \in 1 .. MaxTime
    BY <1>3, Bounds DEF Pass, IInv, TypeOK
  <2>2. TypeOK'
    BY <1>3, <2>1 DEF IInv, TypeOK, Pass
  <2>3. StreaksAreBelow' /\ (ticks \in [Ticks -> Tick])'
    BY <1>3 DEF IInv, StreaksAreBelow, Has, Pass
  <2> QED BY <2>2, <2>3 DEF IInv
<1> QED BY <1>1, <1>2, <1>3

LEMMA NextKeepsIInv == IInv /\ [Next]_vars => IInv'
<1> SUFFICES ASSUME IInv, [Next]_vars PROVE IInv'
  OBVIOUS
<1>1. ASSUME NEW s \in Schedules, NEW c \in Crons, Create(s, c) \/ PatchBegins(s, c)
      PROVE  IInv'
  BY <1>1, OperatorSteps
<1>2. ASSUME NEW s \in Schedules, Pause(s) \/ ResumeBegins(s) \/ Delete(s) \/ Expire(s)
      PROVE  IInv'
  <2>1. Has(s)
    BY <1>2 DEF Pause, ResumeBegins, Delete, Expire
  <2>2. rows[s].cron \in Crons
    BY <2>1 DEF IInv, TypeOK, Has, Row
  <2> QED BY <1>2, <2>2, OperatorSteps
<1>3. ASSUME NEW e \in edits, ResumeEnds(e) \/ PatchEnds(e)
      PROVE  IInv'
  BY <1>3, EditEnds
<1>4. ASSUME NEW k \in Ticks, TickBegins(k)
      PROVE  IInv'
  BY <1>4, TickBeginsKeeps
<1>5. ASSUME NEW k \in Ticks, Delivered(k)
      PROVE  IInv'
  <2>1. /\ rows' \in [Schedules -> Row \union {NoRow}]
        /\ \A s \in Schedules : Has(s)' => InService(rows'[s])
    BY <1>5 DEF Delivered, IInv, TypeOK, StreaksAreBelow, Has
  <2> QED BY <1>5, <2>1, GoingOn DEF Delivered
<1>6. ASSUME NEW k \in Ticks, NEW o \in Outcomes, FireEnds(k, o)
      PROVE  IInv'
  BY <1>6, FireEndsKeeps
<1>7. ASSUME Start \/ Stop \/ Crash \/ Pass
      PROVE  IInv'
  BY <1>7, ProcessSteps
<1>8. CASE UNCHANGED vars
  <2>1. TypeOK'
    BY <1>8 DEF IInv, TypeOK, vars
  <2>2. StreaksAreBelow' /\ (ticks \in [Ticks -> Tick])'
    BY <1>8 DEF IInv, StreaksAreBelow, Has, vars
  <2> QED BY <2>1, <2>2 DEF IInv
<1> QED BY <1>1, <1>2, <1>3, <1>4, <1>5, <1>6, <1>7, <1>8 DEF Next

LEMMA IInvHolds == Spec => []IInv
BY InitEstablishesIInv, NextKeepsIInv, PTL DEF Spec

\* For any schedules, crons, limit and number of ticks, every variable has its
\* type; with it, no streak passes the limit: counting one failure more than the
\* row read when the tick began never leaves the column's range.
THEOREM TypeCorrect == Spec => []TypeOK
<1>1. IInv => TypeOK
  BY DEF IInv
<1> QED BY <1>1, IInvHolds, PTL

-----------------------------------------------------------------------------
(* What makes a schedule active, or brings it back *)

\* The two ways a schedule gets into service, and the one a deleted one returns.
Explained(s) ==
    /\ Status(s) # "active" /\ Status(s)' = "active" =>
         \/ s \notin born
         \/ \E e \in edits \ edits' :
              /\ e.id = s
              /\ e.kind = "resume" \/ e.row.status = "active"
    /\ s \in born /\ ~Has(s) /\ Has(s)' =>
         \E e \in edits \ edits' : e.id = s /\ e.kind = "patch"

\* A step that leaves a row alone has nothing to explain.
LEMMA SameRow ==
  ASSUME NEW s, rows'[s] = rows[s]
  PROVE  Explained(s)
BY DEF Explained, Status, Has

\* Neither has one after which the row is out of service, or in it as before.
LEMMA NotRevived ==
  ASSUME NEW s, Has(s)' => Has(s) /\ (rows'[s].status = "active" => rows[s].status = "active")
  PROVE  Explained(s)
<1>1. ~(~Has(s) /\ Has(s)')
  OBVIOUS
<1>2. ~(Status(s) # "active" /\ Status(s)' = "active")
  BY DEF Status
<1> QED BY <1>1, <1>2 DEF Explained

LEMMA OperatorsExplained ==
  ASSUME IInv, NEW s \in Schedules, NEW t \in Schedules,
         \/ \E c \in Crons : Create(t, c) \/ PatchBegins(t, c)
         \/ Pause(t) \/ ResumeBegins(t) \/ Delete(t) \/ Expire(t)
  PROVE  Explained(s)
<1>1. rows \in [Schedules -> Row \union {NoRow}]
  BY DEF IInv, TypeOK
<1>2. ASSUME NEW c \in Crons, Create(t, c)
      PROVE  Explained(s)
  <2>1. CASE s = t
    BY <1>2, <2>1 DEF Create, Explained
  <2>2. CASE s # t
    <3>1. rows'[s] = rows[s]
      BY <1>1, <1>2, <2>2 DEF Create
    <3> QED BY <3>1, SameRow
  <2> QED BY <2>1, <2>2
<1>3. CASE ResumeBegins(t) \/ \E c \in Crons : PatchBegins(t, c)
  <2>1. rows'[s] = rows[s]
    BY <1>3 DEF ResumeBegins, PatchBegins
  <2> QED BY <2>1, SameRow
<1>4. CASE Pause(t) \/ Delete(t) \/ Expire(t)
  <2>1. CASE s # t
    <3>1. rows'[s] = rows[s]
      BY <1>1, <1>4, <2>1 DEF Pause, Delete, Expire
    <3> QED BY <3>1, SameRow
  <2>2. CASE s = t
    <3>1. Has(s) /\ rows[s] \in Row
      BY <1>1, <1>4, <2>2 DEF Pause, Delete, Expire, Has
    <3>2. CASE Delete(t)
      <4>1. ~Has(s)'
        BY <1>1, <2>2, <3>2 DEF Delete, Has
      <4> QED BY <4>1, NotRevived
    <3>3. CASE Pause(t) \/ Expire(t)
      <4>1. rows'[s].status # "active"
        BY <1>1, <2>2, <3>1, <3>3 DEF Pause, Expire, Row
      <4> QED BY <3>1, <4>1, NotRevived
    <3> QED BY <1>4, <3>2, <3>3
  <2> QED BY <2>1, <2>2
<1> QED BY <1>2, <1>3, <1>4

LEMMA EditsExplained ==
  ASSUME IInv, NEW s \in Schedules, NEW e \in edits, ResumeEnds(e) \/ PatchEnds(e)
  PROVE  Explained(s)
<1>1. rows \in [Schedules -> Row \union {NoRow}] /\ e.id \in Schedules /\ e.row \in Row
  BY DEF IInv, TypeOK
<1>2. e \in edits \ edits'
  BY DEF ResumeEnds, PatchEnds
<1>3. CASE s # e.id
  <2>1. rows'[s] = rows[s]
    BY <1>1, <1>3 DEF ResumeEnds, PatchEnds
  <2> QED BY <2>1, SameRow
<1>4. CASE s = e.id /\ ResumeEnds(e)
  <2>1. Has(s)' => Has(s)
    BY <1>1, <1>4 DEF ResumeEnds, Has
  <2>2. e.kind = "resume"
    BY <1>4 DEF ResumeEnds
  <2> QED BY <1>2, <1>4, <2>1, <2>2 DEF Explained
<1>5. CASE s = e.id /\ PatchEnds(e)
  <2>1. rows'[s].status = e.row.status
    BY <1>1, <1>5 DEF PatchEnds, Row
  <2>2. e.kind = "patch"
    BY <1>5 DEF PatchEnds
  <2>3. Status(s)' = "active" => e.row.status = "active"
    BY <2>1 DEF Status
  <2> QED BY <1>2, <1>5, <2>2, <2>3 DEF Explained
<1> QED BY <1>3, <1>4, <1>5

\* A firing that ends writes the row that is there, and never as an active one
\* that was not.
LEMMA RunnerExplained ==
  ASSUME IInv, NEW s \in Schedules, NEW k \in Ticks, NEW o \in Outcomes, FireEnds(k, o)
  PROVE  Explained(s)
<1> DEFINE f == Head(ticks[k].left)
           r == AfterFiring(f, ticks[k].now, o)
<1>1. /\ f \in Firing /\ f.row.status = "active" /\ InService(f.row) /\ ticks[k] \in Tick
  BY TickUnderWay DEF FireEnds
<1>2. f.id \in Schedules /\ ticks[k].now \in 0 .. MaxTime
  BY <1>1 DEF Firing, Tick
<1>3. /\ ~Has(f.id) => r = NoRow
      /\ Has(f.id) => (r.status = "active" => rows[f.id].status = "active")
  BY <1>1, <1>2, AfterFiringIsARow DEF IInv
<1>4. rows' = [rows EXCEPT ![f.id] = r] /\ rows \in [Schedules -> Row \union {NoRow}]
  BY DEF FireEnds, IInv, TypeOK
<1>5. CASE s # f.id
  <2>1. rows'[s] = rows[s]
    BY <1>4, <1>5
  <2> QED BY <2>1, SameRow
<1>6. CASE s = f.id
  <2>1. rows'[s] = r
    BY <1>2, <1>4, <1>6
  <2>2. Has(s)' => Has(s) /\ (rows'[s].status = "active" => rows[s].status = "active")
    BY <1>3, <1>6, <2>1 DEF Has
  <2> QED BY <2>2, NotRevived
<1> QED BY <1>5, <1>6

LEMMA StepIsExplained == IInv /\ [Next]_vars => [\A s \in Schedules : Explained(s)]_vars
<1> SUFFICES ASSUME IInv, Next, NEW s \in Schedules
             PROVE  Explained(s)
  OBVIOUS
<1>1. ASSUME NEW t \in Schedules,
             \/ \E c \in Crons : Create(t, c) \/ PatchBegins(t, c)
             \/ Pause(t) \/ ResumeBegins(t) \/ Delete(t) \/ Expire(t)
      PROVE  Explained(s)
  BY <1>1, OperatorsExplained
<1>2. ASSUME NEW e \in edits, ResumeEnds(e) \/ PatchEnds(e)
      PROVE  Explained(s)
  BY <1>2, EditsExplained
<1>3. ASSUME NEW k \in Ticks, NEW o \in Outcomes, FireEnds(k, o)
      PROVE  Explained(s)
  BY <1>3, RunnerExplained
<1>4. CASE \/ \E k \in Ticks : TickBegins(k) \/ Delivered(k)
           \/ Start \/ Stop \/ Crash \/ Pass
  <2>1. rows'[s] = rows[s]
    BY <1>4 DEF TickBegins, Delivered, Start, Stop, Crash, Pass
  <2> QED BY <2>1, SameRow
<1> QED BY <1>1, <1>2, <1>3, <1>4 DEF Next

\* Whatever ticks overlap and whatever operators do in between, the runner brings
\* no schedule back: an inactive one becomes active only by a resume, or by a
\* change of its cron that read it active, and a deleted one returns only by such
\* a change.
THEOREM RevivesNothing == Spec => RunnerRevivesNothing
<1>1. IInv /\ [Next]_vars
        => [\A s \in Schedules :
              /\ Status(s) # "active" /\ Status(s)' = "active" =>
                   \/ s \notin born
                   \/ \E e \in edits \ edits' :
                        /\ e.id = s
                        /\ e.kind = "resume" \/ e.row.status = "active"
              /\ s \in born /\ ~Has(s) /\ Has(s)' =>
                   \E e \in edits \ edits' : e.id = s /\ e.kind = "patch"]_vars
  BY StepIsExplained DEF Explained
<1> QED BY <1>1, IInvHolds, PTL DEF Spec, RunnerRevivesNothing

=============================================================================
