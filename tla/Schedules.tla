------------------------------ MODULE Schedules ------------------------------
(***************************************************************************)
(* The scheduled jobs of the gateway: the rows of `gateway_schedules`      *)
(* (gateway-schedule-store.ts), the ScheduleRunner that fires the due ones *)
(* (schedule-runner.ts), the console's handlers that create, change,       *)
(* pause, resume and delete them (api/server.ts) and the CLI's soft delete *)
(* (cli/schedule.ts).                                                      *)
(*                                                                         *)
(* The runner and the handlers share one event loop: what runs without an  *)
(* await is one step.  A tick is awaited by nobody, so that the next one   *)
(* starts beside it; a handler that loads the cron parser awaits between   *)
(* its read of the row and its write.  The CLI is another process: where   *)
(* its UPDATE falls inside the runner's read-and-replace of a row it is    *)
(* lost, which is the same as no step of it.                               *)
(*                                                                         *)
(* Time counts minutes from 1.  A cron is its period, 0 one that matches   *)
(* no minute of the next year.  Profile, time zone, goal, constraints and  *)
(* run history are left out: nothing here reads them.                      *)
(***************************************************************************)
EXTENDS Naturals, FiniteSets, SequencesExt

CONSTANTS
    Schedules,    \* the ids the program may give to a schedule
    Crons,        \* periods, in minutes
    Limit,        \* SCHEDULE_FAILURE_CIRCUIT_STREAK
    Market,       \* is the runner hooked to the market's scheduler?
    NoRow,
    MaxTicks,     \* bounds of the model: ticks under way at once,
    MaxTime,      \*   minutes,
    MaxRequests,  \*   requests of operators,
    MaxCrashes    \*   crashes

ASSUME SchedulesAssumption ==
    /\ IsFiniteSet(Schedules)
    /\ Crons \subseteq Nat
    /\ Limit \in Nat \ {0}
    /\ Market \in BOOLEAN
    /\ MaxTicks \in Nat /\ MaxTime \in Nat \ {0}
    /\ MaxRequests \in Nat /\ MaxCrashes \in Nat

VARIABLES
    rows,      \* the table
    born,      \* the ids given so far
    ticks,     \* the ticks under way: their time, what is left, what it does
    edits,     \* the handlers that wait between their read and their write
    clock,
    runner,    \* "off" while no process runs
    requests, crashes

vars == <<rows, born, ticks, edits, clock, runner, requests, crashes>>

-----------------------------------------------------------------------------

Null == 0

Ticks == 1 .. MaxTicks

Row == [status : {"active", "paused", "expired", "failed-circuit"},
        cron : Crons, next : Nat, streak : 0 .. Limit]

Idle == [now |-> Null, left |-> <<>>, phase |-> "idle"]

\* Slip: at or after the minute given, rather than after it.
NextFireAt_AtOrAfter(cron, now) ==
    IF cron = 0 THEN Null ELSE ((now + cron - 1) \div cron) * cron

\* nextFireAt and safeNextFire: the first match after the minute given.
NextFireAt(cron, now) == IF cron = 0 THEN Null ELSE (now \div cron + 1) * cron

Has(s) == rows[s] # NoRow

Due(s) == /\ Has(s)
          /\ rows[s].status = "active"
          /\ rows[s].next # Null
          /\ rows[s].next <= clock

Status(s) == IF Has(s) THEN rows[s].status ELSE "none"

Alive == runner # "off"

Requested == requests < MaxRequests /\ requests' = requests + 1

-----------------------------------------------------------------------------

Fresh(c) == [status |-> "active", cron |-> c, next |-> NextFireAt(c, clock),
             streak |-> 0]

\* A process is about to start on a table that holds some schedules already.
Init ==
    /\ clock = 1
    /\ rows \in [Schedules -> {Fresh(c) : c \in Crons} \cup {NoRow}]
    /\ born = {s \in Schedules : Has(s)}
    /\ ticks = [k \in Ticks |-> Idle]
    /\ edits = {}
    /\ runner = "off"
    /\ requests = 0 /\ crashes = 0

\* A new schedule, from the console (the CLI's differs in refusing a cron
\* that never matches, which leaves no row).
Create(s, c) ==
    /\ Requested
    /\ s \notin born
    /\ born' = born \cup {s}
    /\ rows' = [rows EXCEPT ![s] = Fresh(c)]
    /\ UNCHANGED <<ticks, edits, clock, runner, crashes>>

\* The pause handler reads and writes without an await.
Pause(s) ==
    /\ Alive /\ Requested
    /\ Has(s) /\ rows[s].status # "paused"
    /\ rows' = [rows EXCEPT ![s].status = "paused", ![s].next = Null]
    /\ UNCHANGED <<born, ticks, edits, clock, runner, crashes>>

\* Resume reads the row, then awaits the cron parser ...
ResumeBegins(s) ==
    /\ Alive /\ Requested
    /\ Has(s) /\ ~(rows[s].status = "active" /\ rows[s].next # Null)
    /\ edits' = edits \cup {[kind |-> "resume", id |-> s, row |-> rows[s],
                             cron |-> rows[s].cron]}
    /\ UNCHANGED <<rows, born, ticks, clock, runner, crashes>>

\* ... and updates three columns of whatever row is there by now.
ResumeEnds(e) ==
    /\ e.kind = "resume"
    /\ edits' = edits \ {e}
    /\ rows' = IF Has(e.id)
               THEN [rows EXCEPT ![e.id].status = "active", ![e.id].streak = 0,
                                 ![e.id].next = NextFireAt(e.cron, clock)]
               ELSE rows
    /\ UNCHANGED <<born, ticks, clock, runner, requests, crashes>>

\* A new cron (or time zone, which works the same): the handler reads the row,
\* awaits the parser ...
PatchBegins(s, c) ==
    /\ Alive /\ Requested
    /\ Has(s) /\ rows[s].cron # c
    /\ edits' = edits \cup {[kind |-> "patch", id |-> s, row |-> rows[s], cron |-> c]}
    /\ UNCHANGED <<rows, born, ticks, clock, runner, crashes>>

\* ... and saves the row it read, with the new cron: INSERT OR REPLACE.
PatchEnds(e) ==
    /\ e.kind = "patch"
    /\ edits' = edits \ {e}
    /\ rows' = [rows EXCEPT ![e.id] =
                  [e.row EXCEPT !.cron = e.cron, !.next = NextFireAt(e.cron, clock)]]
    /\ UNCHANGED <<born, ticks, clock, runner, requests, crashes>>

Delete(s) ==
    /\ Alive /\ Requested
    /\ Has(s)
    /\ rows' = [rows EXCEPT ![s] = NoRow]
    /\ UNCHANGED <<born, ticks, edits, clock, runner, crashes>>

\* `vinyan schedule delete`, in a process of its own: the status alone.
Expire(s) ==
    /\ Requested
    /\ Has(s)
    /\ rows' = [rows EXCEPT ![s].status = "expired"]
    /\ UNCHANGED <<born, ticks, edits, clock, runner, crashes>>

-----------------------------------------------------------------------------
(* The runner. *)

\* A timer fires: the due rows are read once, the earliest first.  A runner
\* hooked to the market waits for ticks that nobody drives.  A timer that
\* finds nothing due changes nothing and is left out; k is the first free place.
TickBegins(k) ==
    /\ runner = "on" /\ ~Market
    /\ ticks[k] = Idle
    /\ \A j \in 1 .. k - 1 : ticks[j] # Idle
    /\ LET due == {s \in Schedules : Due(s)}
           Earlier(a, b) == rows[a].next < rows[b].next
       IN  /\ due # {}
           /\ \E q \in SetToSeqs(due) :
                /\ \A i, j \in DOMAIN q : i < j => ~Earlier(q[j], q[i])
                /\ ticks' = [ticks EXCEPT ![k] =
                     [now |-> clock, phase |-> "run",
                      left |-> [i \in DOMAIN q |-> [id |-> q[i], row |-> rows[q[i]]]]]]
    /\ UNCHANGED <<rows, born, edits, clock, runner, requests, crashes>>

\* Slip: the place of a tick that is over is not given back.
Onward_KeepsPlace(k) ==
    [ticks[k] EXCEPT !.left = Tail(@),
                     !.phase = IF Len(ticks[k].left) > 1 THEN "run" ELSE "reply"]

\* The tick k goes on to its next schedule, or ends.
Onward(k) ==
    LET rest == Tail(ticks[k].left)
    IN  IF rest = <<>> THEN Idle
        ELSE [ticks[k] EXCEPT !.left = rest, !.phase = "run"]

\* An end that does not count as a failure: completed or input-required.
Failed(o) == o # "ok"

\* Slip: the streak is saved with the row read when the tick began.
AfterFiring_SavesSnapshot(f, now, o) ==
    LET streak == IF Failed(o) THEN f.row.streak + 1 ELSE 0
    IN  IF streak >= Limit
        THEN [f.row EXCEPT !.status = "failed-circuit", !.streak = streak,
                           !.next = Null]
        ELSE [f.row EXCEPT !.streak = streak,
                           !.next = NextFireAt(f.row.cron, now)]

\* The columns a firing changes, of the row that is there when it ends: the
\* streak and the cron are those of the row read when its tick began.
\* Nothing when the row is gone.
AfterFiring(f, now, o) ==
    LET s == f.id
        streak == IF Failed(o) THEN f.row.streak + 1 ELSE 0
    IN  IF ~Has(s) THEN NoRow
        ELSE IF streak >= Limit
        THEN [rows[s] EXCEPT !.status = "failed-circuit", !.streak = streak,
                             !.next = Null]
        ELSE [rows[s] EXCEPT !.streak = streak,
                             !.next = NextFireAt(f.row.cron, now)]

\* executeTask answers (ok, bad) or throws; the row is brought up to date and
\* an answer goes to deliverReply before the tick goes on.
FireEnds(k, o) ==
    /\ ticks[k].phase = "run"
    /\ LET f == Head(ticks[k].left)
       IN  rows' = [rows EXCEPT ![f.id] = AfterFiring(f, ticks[k].now, o)]
    /\ ticks' = [ticks EXCEPT ![k] =
                   IF o = "threw" THEN Onward(k) ELSE [@ EXCEPT !.phase = "reply"]]
    /\ UNCHANGED <<born, edits, clock, runner, requests, crashes>>

\* deliverReply is over, with an error or without.
Delivered(k) ==
    /\ ticks[k].phase = "reply"
    /\ ticks' = [ticks EXCEPT ![k] = Onward(k)]
    /\ UNCHANGED <<rows, born, edits, clock, runner, requests, crashes>>

Start ==
    /\ runner = "off"
    /\ runner' = "on"
    /\ UNCHANGED <<rows, born, ticks, edits, clock, requests, crashes>>

\* The shutdown clears the timer; what is under way goes on.
Stop ==
    /\ runner = "on"
    /\ runner' = "stopped"
    /\ UNCHANGED <<rows, born, ticks, edits, clock, requests, crashes>>

\* The process ends, by a crash or after a stop: only the table is left.
Crash ==
    /\ Alive
    /\ crashes < MaxCrashes /\ crashes' = crashes + 1
    /\ runner' = "off"
    /\ ticks' = [k \in Ticks |-> Idle]
    /\ edits' = {}
    /\ UNCHANGED <<rows, born, clock, requests>>

Pass ==
    /\ clock < MaxTime
    /\ clock' = clock + 1
    /\ UNCHANGED <<rows, born, ticks, edits, runner, requests, crashes>>

Outcomes == {"ok", "bad", "threw"}

Next ==
    \/ \E s \in Schedules, c \in Crons : Create(s, c) \/ PatchBegins(s, c)
    \/ \E s \in Schedules : Pause(s) \/ ResumeBegins(s) \/ Delete(s) \/ Expire(s)
    \/ \E e \in edits : ResumeEnds(e) \/ PatchEnds(e)
    \/ \E k \in Ticks : TickBegins(k) \/ Delivered(k)
    \/ \E k \in Ticks, o \in Outcomes : FireEnds(k, o)
    \/ Start \/ Stop \/ Crash \/ Pass

\* The timer keeps firing, tasks and deliveries end, and so does the await of
\* a handler; no operator, crash or clock is owed a step.
Fairness ==
    /\ \A k \in Ticks :
         /\ WF_vars(TickBegins(k))
         /\ WF_vars(\E o \in Outcomes : FireEnds(k, o))
         /\ WF_vars(Delivered(k))
    /\ WF_vars(\E e \in edits : ResumeEnds(e) \/ PatchEnds(e))

Spec == Init /\ [][Next]_vars /\ Fairness

-----------------------------------------------------------------------------
(* Properties *)

\* Every variable has its type.
TypeOK ==
    /\ rows \in [Schedules -> Row \cup {NoRow}]
    /\ born \subseteq Schedules
    /\ \A k \in Ticks : /\ ticks[k].phase \in {"idle", "run", "reply"}
                        /\ (ticks[k].left = <<>>) = (ticks[k] = Idle)
                        /\ \A i \in DOMAIN ticks[k].left :
                             ticks[k].left[i] \in [id : Schedules, row : Row]
    /\ edits \subseteq [kind : {"resume", "patch"}, id : Schedules,
                        row : Row, cron : Crons]
    /\ clock \in 1 .. MaxTime
    /\ runner \in {"off", "on", "stopped"}
    /\ requests \in 0 .. MaxRequests
    /\ crashes \in 0 .. MaxCrashes

\* The runner takes a schedule out of service but brings none back: one that
\* was paused, cut off or deleted while its task ran is active again, or there
\* again, only by a resume, or by a change of its cron that had read it so.
RunnerRevivesNothing ==
    [][\A s \in Schedules :
         /\ Status(s) # "active" /\ Status(s)' = "active" =>
              \/ s \notin born
              \/ \E e \in edits \ edits' :
                   /\ e.id = s
                   /\ e.kind = "resume" \/ e.row.status = "active"
         /\ s \in born /\ ~Has(s) /\ Has(s)' =>
              \E e \in edits \ edits' : e.id = s /\ e.kind = "patch"]_vars

\* A schedule does not stay due: while the runner is on, a minute that has come
\* passes, whatever the task did and whatever ran meanwhile, so that a
\* schedule that fails or throws is not fired for ever.
DueTimePasses == \A s \in Schedules : []<>~(runner = "on" /\ Due(s))

-----------------------------------------------------------------------------
(* Statements of the documentation the code does not keep. *)

\* "`from = now + 1` so we never re-fire the same minute we just fired"
\* (schedule-runner.ts): no two ticks run one due minute of one schedule.
MinuteFiredOnce ==
    \A k, j \in Ticks :
        /\ k # j
        /\ ticks[k].phase = "run" /\ ticks[j].phase = "run"
        => LET f == Head(ticks[k].left)
               g == Head(ticks[j].left)
           IN  ~(f.id = g.id /\ f.row.next = g.row.next)

\* "null when paused/expired" (gateway/scheduling/types.ts), of the next fire.
NextOnlyWhenActive ==
    \A s \in Schedules :
        Has(s) /\ rows[s].status # "active" => rows[s].next = Null

\* A schedule that is active and whose cron has a match is going to be fired.
ActiveIsArmed ==
    \A s \in Schedules :
        Has(s) /\ rows[s].status = "active" /\ rows[s].cron # 0 => rows[s].next # Null

\* "stops firing until an operator re-activates it" (schedule-runner.ts): only a
\* resume makes a schedule active whose circuit was open.
CircuitStops ==
    [][\A s \in Schedules :
         Status(s) = "failed-circuit" /\ Status(s)' = "active" =>
            \E e \in edits \ edits' : e.id = s /\ e.kind = "resume"]_vars

\* "Hard remove" (gateway-schedule-store.ts): a deleted schedule stays deleted.
DeletedStaysGone ==
    [][\A s \in Schedules : s \in born /\ ~Has(s) => ~Has(s)']_vars

\* A new cron decides the next minute: no active row waits for one that its cron
\* does not match.
EditSurvives ==
    \A s \in Schedules :
        Has(s) /\ rows[s].status = "active" /\ rows[s].next # Null =>
            rows[s].cron # 0 /\ rows[s].next % rows[s].cron = 0

=============================================================================
