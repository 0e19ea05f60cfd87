------------------------------- MODULE TaskApi -------------------------------
(***************************************************************************)
(* The task lifecycle of the HTTP server (src/src/api/server.ts) with the  *)
(* rows and turns its SessionManager keeps (src/src/api/session-manager.ts)*)
(* and the order in which src/src/cli/serve.ts starts and stops them.      *)
(*                                                                         *)
(* A handler runs without interruption up to its first await, which is     *)
(* executeTask; what follows the await, or stands in a .then or .catch, is *)
(* an action of its own.  executeTask is the environment: it reads the     *)
(* conversation some time after it was called, announces task:complete,    *)
(* returns or throws.  The process may die between any two actions and     *)
(* between the two writes of one, and any write may throw: what the caller *)
(* does then is part of its action.                                        *)
(***************************************************************************)
EXTENDS Naturals, FiniteSets

CONSTANTS
    Tasks,      \* task ids, made in the order of the numbers
    Sessions,   \* chat sessions
    Hidden,     \* the default api session of tasks posted without one
    Outcomes,   \* how executeTask may return
    Faulty,     \* tasks whose rows and turns may fail to be written
    NoTask

ASSUME ApiAssumption ==
    /\ Hidden \notin Sessions /\ NoTask \notin Tasks /\ Tasks \subseteq Nat
    /\ Faulty \subseteq Tasks
    /\ Outcomes \subseteq {"completed", "failed", "escalated", "uncertain", "input-required"}

VARIABLES
    server,    \* "starting" (the sweep), "up", "stopping" (answers 503) or "down"
    kind,      \* the endpoint that made the task, "none" before
    sess,      \* the session of its row
    row,       \* session_tasks.status
    asked,     \* tasks whose user turn is recorded
    answers,   \* how many assistant turns a task has
    run,       \* its executeTask call in this process
    prev,      \* the tail it was chained to, or the parent of a retry
    inFlight,  \* inFlightTasks
    tail,      \* sessionTaskChain
    toSweep,   \* the orphaned rows this start has still to visit
    gaveUp,    \* those whose sweep failed, and failed again at the attempt to say so
    torn       \* history: streams whose turn was written by a call that then threw

diskVars == <<kind, sess, row, asked, answers>>
callVars == <<run, prev, inFlight, tail>>
sweepVars == <<toSweep, gaveUp>>
memVars == <<callVars, sweepVars>>
vars == <<server, diskVars, memVars, torn>>

Kinds == {"sync", "async", "message", "stream", "retry", "job"}
Places == Sessions \union {Hidden}

Live(t) == run[t] \in {"chained", "running"}

\* What a chained task waits for; of a retry it is the parent, which it does not wait for.
Ahead(t) == {prev[t]} \ {NoTask}

\* Which tasks leave an assistant turn when executeTask returns: chat messages,
\* and posted tasks bound to a session (recordChat); a retry and a job leave none.
Speaks(t) == kind[t] \in {"message", "stream"} \/ (kind[t] \in {"sync", "async"} /\ sess[t] # Hidden)

-----------------------------------------------------------------------------
(* The session manager *)

\* The next task id, drawn at random or named by the client, never twice; the order is
\* that of the calls.
New(t, k) ==
    /\ kind[t] = "none" /\ \A u \in Tasks : u < t => kind[u] # "none"
    /\ kind' = [kind EXCEPT ![t] = k]

\* addTask
AddTask(t, k, s) ==
    /\ New(t, k)
    /\ sess' = [sess EXCEPT ![t] = s]
    /\ row' = [row EXCEPT ![t] = "pending"]

\* Slip: the result's own status is stored.
DbStatus_Raw(o) == o

\* completeTask: a request for input ends the turn, not in failure, and the table
\* has no status for it.
DbStatus(o) == IF o \in {"completed", "input-required"} THEN "completed" ELSE "failed"

\* completeTask: whatever the row says, the result replaces it.
CompleteTask(t, o) == row' = [row EXCEPT ![t] = DbStatus(o)]

\* How far completeTask and recordAssistantTurn get before a write throws: the row is
\* written, then the turn, then the session's cursor and summaries.
Reach(t) == IF t \in Faulty THEN {"nothing", "row", "turn", "all"} ELSE {"all"}

\* The row and the number of turns after the two calls, of the ones before
Kept(t, o, far, was) ==
    [row |-> IF far = "nothing" THEN was.row ELSE DbStatus(o),
     answers |-> IF far \in {"turn", "all"} /\ Speaks(t) THEN was.answers + 1 ELSE was.answers]

Now(t) == [row |-> row[t], answers |-> answers[t]]

Keep(t, books) ==
    /\ row' = [row EXCEPT ![t] = books.row]
    /\ answers' = [answers EXCEPT ![t] = books.answers]

-----------------------------------------------------------------------------
(* Posting a task *)

Accepting == server = "up"

\* handleSyncTask: nothing in memory knows of the task but its handler.
PostSync(t, s) ==
    /\ Accepting /\ AddTask(t, "sync", s)
    /\ run' = [run EXCEPT ![t] = "running"]
    /\ UNCHANGED <<server, asked, answers, prev, inFlight, tail, sweepVars, torn>>

\* handleAsyncTask
PostAsync(t, s) ==
    /\ Accepting /\ AddTask(t, "async", s)
    /\ run' = [run EXCEPT ![t] = "running"]
    /\ inFlight' = inFlight \union {t}
    /\ UNCHANGED <<server, asked, answers, prev, tail, sweepVars, torn>>

\* handleRunScheduledJobNow: the task of a schedule, run by hand, has no row.
PostJob(t) ==
    /\ Accepting /\ New(t, "job")
    /\ run' = [run EXCEPT ![t] = "running"]
    /\ inFlight' = inFlight \union {t}
    /\ UNCHANGED <<server, sess, row, asked, answers, prev, tail, sweepVars, torn>>

\* handleSessionMessage without `stream`: the user turn first, then the task,
\* which waits for nobody.
PostMessage(t, s) ==
    /\ Accepting /\ s \in Sessions /\ AddTask(t, "message", s)
    /\ asked' = asked \union {t}
    /\ run' = [run EXCEPT ![t] = "running"]
    /\ UNCHANGED <<server, answers, prev, inFlight, tail, sweepVars, torn>>

\* handleSessionMessage with `stream`: the call is chained behind the session's
\* tail, and the user turn waits for it.
PostStream(t, s) ==
    /\ Accepting /\ s \in Sessions /\ AddTask(t, "stream", s)
    /\ prev' = [prev EXCEPT ![t] = tail[s]]
    /\ tail' = [tail EXCEPT ![s] = t]
    /\ run' = [run EXCEPT ![t] = "chained"]
    /\ UNCHANGED <<server, asked, answers, inFlight, sweepVars, torn>>

\* Slip: .then without the .catch before it, so that a throw holds up the chain.
StartChained_AfterSuccess(t) ==
    /\ run[t] = "chained" /\ \A p \in Ahead(t) : run[p] = "returned"
    /\ run' = [run EXCEPT ![t] = "running"]
    /\ asked' = asked \union {t}
    /\ UNCHANGED <<server, kind, sess, row, answers, prev, inFlight, tail, sweepVars, torn>>

\* Slip: the tail is awaited before the result of the task ahead is recorded.
StartChained_Early(t) ==
    /\ run[t] = "chained"
    /\ \A p \in Ahead(t) : run[p] # "chained"
    /\ run' = [run EXCEPT ![t] = "running"]
    /\ asked' = asked \union {t}
    /\ UNCHANGED <<server, kind, sess, row, answers, prev, inFlight, tail, sweepVars, torn>>

\* prevTail.catch(..).then(..): the reactions that record the previous result, and
\* the .catch behind them, were registered before this one and are as short, so they ran.
Ready(t) == run[t] = "chained" /\ \A p \in Ahead(t) : ~ Live(p)

\* The chained call
StartChained(t) ==
    /\ Ready(t)
    /\ run' = [run EXCEPT ![t] = "running"]
    /\ asked' = asked \union {t}
    /\ UNCHANGED <<server, kind, sess, row, answers, prev, inFlight, tail, sweepVars, torn>>

\* handleRetryTask: refused while the parent is in inFlightTasks, and only then.
Retry(t, p) ==
    /\ Accepting /\ p \notin inFlight /\ row[p] # "none"
    /\ AddTask(t, "retry", sess[p])
    /\ prev' = [prev EXCEPT ![t] = p]
    /\ run' = [run EXCEPT ![t] = "running"]
    /\ inFlight' = inFlight \union {t}
    /\ UNCHANGED <<server, asked, answers, tail, sweepVars, torn>>

-----------------------------------------------------------------------------
(* executeTask, and what follows it *)

\* .finally: the chain's slot is given back by the tail only.
Untail(t) == [s \in Sessions |-> IF tail[s] = t THEN NoTask ELSE tail[s]]

\* The call is over, whatever became of the books.
Over(t, end) ==
    /\ inFlight' = inFlight \ {t}
    /\ run' = [run EXCEPT ![t] = end]
    /\ tail' = Untail(t)
    /\ UNCHANGED <<server, kind, sess, prev, sweepVars>>

\* executeTask has returned: the row, the turn, the map.  A job has neither row nor
\* turn.  If a write throws, a stream's .catch makes the result a failure and records
\* that, as far as it gets; an async or a retry forgets the task, the others answer 500.
Settle(t, o) ==
    /\ run[t] = "running"
    /\ \E far, again \in Reach(t) :
        LET first == Kept(t, o, far, Now(t))
            caught == kind[t] = "stream" /\ far # "all"
        IN  /\ IF kind[t] = "job" THEN UNCHANGED <<row, answers>>
               ELSE Keep(t, IF caught THEN Kept(t, "failed", again, first) ELSE first)
            /\ torn' = IF caught /\ far = "turn" THEN torn \union {t} ELSE torn
    /\ Over(t, "returned")
    /\ UNCHANGED asked

\* The call was rejected.  A stream records a failure, as far as it gets; the others
\* answer 500 or forget the task: their row stays as it is.
Rejected(t) ==
    /\ IF kind[t] = "stream" THEN \E far \in Reach(t) : Keep(t, Kept(t, "failed", far, Now(t)))
       ELSE UNCHANGED <<row, answers>>
    /\ Over(t, "threw")
    /\ UNCHANGED torn

\* executeTask has thrown.
Throw(t) == run[t] = "running" /\ Rejected(t) /\ UNCHANGED asked

\* recordUserTurn throws inside the chain, and executeTask is not called.
AskThrows(t) == t \in Faulty /\ Ready(t) /\ Rejected(t) /\ asked' \in {asked, asked \union {t}}

-----------------------------------------------------------------------------
(* Cancelling *)

\* Slip: the row is cancelled, the map is left to the run.
Cancel_RowOnly(t) ==
    /\ Accepting /\ (t \in inFlight \/ row[t] = "pending")
    /\ row' = [row EXCEPT ![t] = IF @ = "pending" THEN "cancelled" ELSE @]
    /\ UNCHANGED <<server, kind, sess, asked, answers, memVars, torn>>

\* handleCancelTask and cancelTask, which may throw.  The run hears nothing of it: the
\* abort signal is not passed to executeTask, and nobody who could stop it listens to
\* task:timeout.
Cancel(t) ==
    /\ Accepting /\ (t \in inFlight \/ row[t] = "pending")
    /\ inFlight' = inFlight \ {t}
    /\ \/ row' = [row EXCEPT ![t] = IF @ = "pending" THEN "cancelled" ELSE @]
       \/ t \in Faulty /\ UNCHANGED row
    /\ UNCHANGED <<server, kind, sess, asked, answers, run, prev, tail, sweepVars, torn>>

-----------------------------------------------------------------------------
(* Stopping, dying and starting *)

Forget ==
    /\ run' = [t \in Tasks |-> "none"]
    /\ prev' = [t \in Tasks |-> NoTask]
    /\ tail' = [s \in Sessions |-> NoTask]
    /\ inFlight' = {} /\ toSweep' = {} /\ gaveUp' = {}

\* stop, step 1
StopBegins ==
    /\ server = "up" /\ server' = "stopping"
    /\ UNCHANGED <<diskVars, memVars, torn>>

Die == server' = "down" /\ Forget /\ UNCHANGED torn

\* stop, steps 2 to 6, and the exit: the tasks in flight are awaited, or the
\* deadline passes; the handlers and streams are not awaited at all.
StopEnds == server = "stopping" /\ Die /\ UNCHANGED diskVars

Crash == server # "down" /\ Die /\ UNCHANGED diskVars

\* The process dies in the middle of Settle: the row is written, the turn is not.
CrashInSettle(t, o) ==
    /\ run[t] = "running" /\ Speaks(t)
    /\ Die /\ CompleteTask(t, o)
    /\ UNCHANGED <<kind, sess, asked, answers>>

\* listPendingTasks
Orphans == {t \in Tasks : row[t] = "pending"}

Start ==
    /\ server = "down" /\ server' = "starting"
    /\ toSweep' = Orphans
    /\ UNCHANGED <<diskVars, callVars, gaveUp, torn>>

\* One turn of recoverOrphanedTasks, which answers whoever asked.  If it throws, the
\* row is marked failed all the same; if that throws too, the row is left as it is.
Sweep(t) ==
    /\ server = "starting" /\ t \in toSweep
    /\ toSweep' = toSweep \ {t}
    /\ \E far \in Reach(t), marked \in BOOLEAN :
        LET left == far = "nothing" /\ ~ marked
        IN  /\ IF left THEN UNCHANGED row ELSE CompleteTask(t, "failed")
            /\ gaveUp' = IF left THEN gaveUp \union {t} ELSE gaveUp
            /\ answers' = [answers EXCEPT ![t] = IF far \in {"turn", "all"} THEN @ + 1 ELSE @]
    /\ UNCHANGED <<server, kind, sess, asked, callVars, torn>>

CrashInSweep(t) ==
    /\ server = "starting" /\ t \in toSweep
    /\ Die /\ CompleteTask(t, "failed")
    /\ UNCHANGED <<kind, sess, asked, answers>>

\* server.start(), after the sweep, whatever that left
Listen ==
    /\ server = "starting" /\ toSweep = {} /\ server' = "up"
    /\ UNCHANGED <<diskVars, memVars, torn>>

-----------------------------------------------------------------------------
Init ==
    /\ server = "starting"
    /\ kind = [t \in Tasks |-> "none"] /\ sess = [t \in Tasks |-> Hidden]
    /\ row = [t \in Tasks |-> "none"]
    /\ asked = {} /\ answers = [t \in Tasks |-> 0]
    /\ run = [t \in Tasks |-> "none"] /\ prev = [t \in Tasks |-> NoTask]
    /\ tail = [s \in Sessions |-> NoTask]
    /\ inFlight = {} /\ toSweep = {} /\ gaveUp = {} /\ torn = {}

Post(t) ==
    \/ \E s \in Places : PostSync(t, s) \/ PostAsync(t, s)
    \/ \E s \in Sessions : PostMessage(t, s) \/ PostStream(t, s)
    \/ \E p \in Tasks : Retry(t, p)
    \/ PostJob(t)

Ends(t) == (\E o \in Outcomes : Settle(t, o)) \/ Throw(t)

Next ==
    \/ \E t \in Tasks : \/ Post(t) \/ StartChained(t) \/ AskThrows(t) \/ Ends(t) \/ Cancel(t)
                        \/ Sweep(t) \/ CrashInSweep(t) \/ \E o \in Outcomes : CrashInSettle(t, o)
    \/ StopBegins \/ StopEnds \/ Crash \/ Start \/ Listen

Spec == Init /\ [][Next]_vars

\* Promise reactions run, executeTask ends, and a start goes on.  Nobody has to post, cancel, stop or start anything.
FairApi ==
    /\ Spec
    /\ \A t \in Tasks : WF_vars(StartChained(t)) /\ WF_vars(Ends(t))
    /\ WF_vars(\E t \in Tasks : Sweep(t)) /\ WF_vars(Listen)

-----------------------------------------------------------------------------
TypeOKApi ==
    /\ server \in {"starting", "up", "stopping", "down"}
    /\ kind \in [Tasks -> Kinds \union {"none"}] /\ sess \in [Tasks -> Places]
    /\ row \in [Tasks -> {"none", "pending", "completed", "failed", "cancelled"}]
    /\ asked \subseteq Tasks /\ answers \in [Tasks -> Nat]
    /\ run \in [Tasks -> {"none", "chained", "running", "returned", "threw"}]
    /\ prev \in [Tasks -> Tasks \union {NoTask}] /\ tail \in [Sessions -> Tasks \union {NoTask}]
    /\ inFlight \subseteq Tasks /\ toSweep \subseteq Tasks /\ gaveUp \subseteq Tasks
    /\ torn \subseteq Tasks

\* sessionTaskChain: the streamed messages of a session run one after another and in
\* the order they were sent, so that none reads another's question unanswered.
StreamsTakeTurns ==
    \A t \in Tasks : kind[t] = "stream" /\ run[t] = "running" =>
        \A u \in Tasks : u < t /\ kind[u] = "stream" /\ sess[u] = sess[t] => ~ Live(u)

\* Polling tells the truth: a task in inFlightTasks, which GET reports as running, is
\* running, and its row is the pending one, or none if it is a job.  Neither a cancel, a
\* throw, a failed write nor a restart leaves an entry behind.
RunningIsTrue ==
    \A t \in inFlight : /\ run[t] = "running"
                        /\ row[t] = (IF kind[t] = "job" THEN "none" ELSE "pending")

\* A client of a server that listens sees a row that waits for a process that is dead
\* only if this start's sweep has failed on it twice: what else is pending was posted
\* to this process.
NoRowOfTheDead ==
    server \in {"up", "stopping"} =>
        \A t \in Tasks : row[t] = "pending" => run[t] # "none" \/ t \in gaveUp

\* However runs, cancellations, throws, failed writes and sweeps of several starts meet,
\* a task answers once in its conversation.  A stream whose turn was written by a call
\* that threw then answers again, with a failure, and its row says so.
OneAnswer ==
    \A t \in Tasks : answers[t] <= (IF t \in torn /\ kind[t] = "stream" /\ row[t] = "failed" THEN 2 ELSE 1)

\* What the server keeps in memory, in its rows and in the conversation agrees,
\* through cancellations, throws, writes that fail, and several lives of the process.
BooksAgree == RunningIsTrue /\ NoRowOfTheDead /\ OneAnswer

\* A message behind another in its session gets its turn, even if the one before
\* throws, unless the process ends.
ChainMoves == \A t \in Tasks : run[t] = "chained" ~> run[t] # "chained"

(* Statements that TLC refutes; the README says how. *)

\* "serializes message handling within one session so a 2nd send can't race the 1st"
MessagesTakeTurns ==
    \A t, u \in Tasks : /\ {kind[t], kind[u]} \subseteq {"message", "stream"} /\ sess[t] = sess[u]
                        /\ run[t] = "running" /\ run[u] = "running"
                        => t = u

\* "cancel persists `cancelled`"
CancelPersists == [][\A t \in Tasks : row[t] = "cancelled" => row'[t] = "cancelled"]_vars

\* "Task is still running": a retry and its parent do not run at once.
RetryWaits == \A t \in Tasks : kind[t] = "retry" /\ Live(t) => \A p \in Ahead(t) : ~ Live(p)

\* serve.ts:343, of the sweep: it runs first "so clients never see the half-state".
HalfStateUnseen ==
    server = "up" => \A t \in Tasks : row[t] = "pending" => run[t] # "none"

\* A task answers once, without exception.
AnsweredOnce == \A t \in Tasks : answers[t] <= 1

\* A row that was swept, or whose task has ended, is one the chat explains.
EndedIsExplained ==
    server = "up" => \A t \in asked : row[t] # "pending" /\ ~ Live(t) => answers[t] > 0

\* A task whose call has ended is not pending.
EndedIsSettled == \A t \in Tasks : row[t] = "pending" => run[t] \notin {"returned", "threw"}
=============================================================================
