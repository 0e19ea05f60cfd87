---------------------------- MODULE TaskApi_proofs ----------------------------
(***************************************************************************)
(* Proofs for TaskApi: for any tasks and chat sessions and any number of   *)
(* crashes and restarts, the streamed messages of a session run one after  *)
(* another, and the server's memory, its rows and the conversation agree.  *)
(***************************************************************************)
EXTENDS TaskApi, TLAPS

\* Task ids are handed out in their order.
MadeInOrder == \A t, u \in Tasks : u < t /\ kind[t] # "none" => kind[u] # "none"

\* A task that has not been posted has left no trace.
UnmadeIsBlank ==
    \A t \in Tasks : kind[t] = "none" => row[t] = "none" /\ run[t] = "none" /\ answers[t] = 0

\* A process that does not listen yet, or any more, holds nothing.
MemoryIsFresh ==
    server \in {"starting", "down"} =>
        /\ inFlight = {}
        /\ \A t \in Tasks : run[t] = "none"
        /\ \A s \in Sessions : tail[s] = NoTask

\* A stream of session s that this process was given.
StreamOf(t, s) == t \in Tasks /\ kind[t] = "stream" /\ sess[t] = s /\ run[t] # "none"

\* The tail of a session is its newest stream; without one, no stream is live.
TailIsLast ==
    \A s \in Sessions :
        /\ tail[s] # NoTask => StreamOf(tail[s], s)
        /\ \A u \in Tasks : StreamOf(u, s) /\ Live(u) => tail[s] # NoTask /\ u <= tail[s]

\* A chained stream waits for the newest of the streams before it.
ChainIsWhole ==
    \A t \in Tasks : kind[t] = "stream" /\ run[t] = "chained" =>
        /\ prev[t] # NoTask => StreamOf(prev[t], sess[t]) /\ prev[t] < t
        /\ \A u \in Tasks : u < t /\ StreamOf(u, sess[t]) /\ Live(u)
                              => prev[t] # NoTask /\ u <= prev[t]

\* StreamsTakeTurns, and the same of a stream whose call has ended.
TurnsAreOver ==
    \A t, u \in Tasks :
        /\ kind[t] = "stream" /\ run[t] \notin {"none", "chained"}
        /\ u < t /\ StreamOf(u, sess[t])
        => ~ Live(u)

\* Only chat sessions have streams.
StreamsAreChats == \A t \in Tasks : kind[t] = "stream" => sess[t] \in Sessions

\* What may still be answered has not been.
NotAnsweredYet == \A t \in Tasks : row[t] = "pending" \/ Live(t) => answers[t] = 0

\* A start has listed every row that is pending, and lists no other.
SweepIsWhole ==
    server = "starting" =>
        /\ \A t \in toSweep : row[t] = "pending"
        /\ \A t \in Tasks : row[t] = "pending" => t \in toSweep \union gaveUp

\* The inductive invariant.  A stream starts when the one it waits for has
\* ended, and TurnsAreOver says that then all the earlier ones have.  A task is
\* answered by the end of its call or by the sweep of its row: NotAnsweredYet says
\* that neither comes after the other.
IInv ==
    /\ TypeOKApi
    /\ MadeInOrder
    /\ UnmadeIsBlank
    /\ MemoryIsFresh
    /\ StreamsAreChats
    /\ TailIsLast
    /\ ChainIsWhole
    /\ TurnsAreOver
    /\ NotAnsweredYet
    /\ SweepIsWhole
    /\ RunningIsTrue
    /\ NoRowOfTheDead
    /\ OneAnswer

-----------------------------------------------------------------------------

LEMMA DbStatusIsFinal == DbStatus("failed") = "failed" /\ \A o : DbStatus(o) \in {"completed", "failed"}
  BY DEF DbStatus

\* What an end's two calls leave, however far they get: one turn more at most, and
\* then the row is the result's.
LEMMA KeptFacts ==
  ASSUME NEW t, NEW o, NEW far, NEW was, was.answers \in Nat
  PROVE  /\ Kept(t, o, far, was).row \in {was.row, DbStatus(o)}
         /\ Kept(t, o, far, was).answers \in {was.answers, was.answers + 1}
         /\ Kept(t, o, far, was).answers # was.answers =>
               Kept(t, o, far, was).row = DbStatus(o) /\ far \in {"turn", "all"}
  BY DEF Kept

LEMMA InitIInv == Init => IInv
<1> SUFFICES ASSUME Init PROVE IInv
  OBVIOUS
<1>1. TypeOKApi
  BY DEF Init, TypeOKApi, Places
<1>2. \A t \in Tasks : kind[t] = "none" /\ row[t] = "none" /\ run[t] = "none" /\ answers[t] = 0
  BY DEF Init
<1>3. TailIsLast /\ ChainIsWhole /\ TurnsAreOver /\ StreamsAreChats /\ NotAnsweredYet
  BY <1>2 DEF Init, TailIsLast, ChainIsWhole, TurnsAreOver, StreamsAreChats, NotAnsweredYet,
     StreamOf, Live
<1>4. SweepIsWhole /\ OneAnswer
  BY <1>2 DEF Init, SweepIsWhole, OneAnswer
<1> QED
  BY <1>1, <1>2, <1>3, <1>4 DEF Init, IInv, MadeInOrder, UnmadeIsBlank, MemoryIsFresh,
     RunningIsTrue, NoRowOfTheDead

\* A new task is newer than all the others.
LEMMA NewIsLast ==
  ASSUME IInv, NEW t \in Tasks, NEW k, New(t, k)
  PROVE  /\ kind[t] = "none" /\ row[t] = "none" /\ run[t] = "none" /\ answers[t] = 0
         /\ t \notin inFlight
         /\ \A u \in Tasks : u < t <=> u # t /\ kind[u] # "none"
         /\ \A u \in Tasks : u < t <=> u # t /\ ~ (t < u)
<1>1. kind[t] = "none" /\ \A u \in Tasks : u < t => kind[u] # "none"
  BY DEF New
<1>2. row[t] = "none" /\ run[t] = "none" /\ answers[t] = 0
  BY <1>1 DEF IInv, UnmadeIsBlank
<1>3. \A u \in Tasks : u < t <=> u # t /\ ~ (t < u)
  BY ApiAssumption
<1>4. \A u \in Tasks : t < u => kind[u] = "none"
  BY <1>1 DEF IInv, MadeInOrder
<1>5. \A u \in Tasks : u < t => u # t
  BY ApiAssumption
<1> QED BY <1>1, <1>2, <1>3, <1>4, <1>5 DEF IInv, RunningIsTrue

\* What the posts that start their call at once have in common: sync, async, message,
\* retry and job.
PostOf(t, k, s) ==
    /\ server = "up" /\ k \in Kinds \ {"stream"} /\ New(t, k)
    /\ s \in Places /\ sess' = [sess EXCEPT ![t] = s]
    /\ row' = [row EXCEPT ![t] = IF k = "job" THEN "none" ELSE "pending"]
    /\ run' = [run EXCEPT ![t] = "running"]
    /\ prev' \in [Tasks -> Tasks \union {NoTask}] /\ \A u \in Tasks \ {t} : prev'[u] = prev[u]
    /\ inFlight' \in {inFlight, inFlight \union {t}} /\ asked' \in {asked, asked \union {t}}
    /\ UNCHANGED <<server, answers, tail, toSweep, gaveUp, torn>>

LEMMA PostStep ==
  ASSUME IInv, NEW t \in Tasks, NEW k, NEW s, PostOf(t, k, s)
  PROVE  IInv'
<1> USE ApiAssumption DEF IInv, TypeOKApi, PostOf
<1>1. /\ kind[t] = "none" /\ row[t] = "none" /\ run[t] = "none" /\ answers[t] = 0
      /\ t \notin inFlight
      /\ \A u \in Tasks : u < t <=> u # t /\ kind[u] # "none"
      /\ \A u \in Tasks : u < t <=> u # t /\ ~ (t < u)
  BY NewIsLast
<1>2. kind' = [kind EXCEPT ![t] = k]
  BY DEF New
<1>3. TypeOKApi'
  BY <1>2 DEF Kinds, Places
<1>4. MadeInOrder' /\ UnmadeIsBlank' /\ StreamsAreChats'
  BY <1>1, <1>2 DEF MadeInOrder, UnmadeIsBlank, StreamsAreChats, Kinds
<1>5. MemoryIsFresh' /\ NoRowOfTheDead' /\ SweepIsWhole'
  BY <1>2 DEF MemoryIsFresh, NoRowOfTheDead, SweepIsWhole
<1>6. \A u, x : StreamOf(u, x) <=> StreamOf(u, x)'
  BY <1>1, <1>2 DEF StreamOf
<1>7. \A u \in Tasks : u # t => (Live(u) <=> Live(u)') /\ run'[u] = run[u] /\ sess'[u] = sess[u]
                            /\ kind'[u] = kind[u] /\ prev'[u] = prev[u]
  BY <1>2 DEF Live
<1>8. \A x : ~ StreamOf(t, x)'
  BY <1>2 DEF StreamOf
<1>9. TailIsLast'
  BY <1>6, <1>7, <1>8 DEF TailIsLast
<1>10. ChainIsWhole'
  BY <1>2, <1>6, <1>7, <1>8 DEF ChainIsWhole
<1>11. TurnsAreOver'
  BY <1>2, <1>6, <1>7, <1>8 DEF TurnsAreOver
<1>12. NotAnsweredYet' /\ OneAnswer'
  BY <1>1, <1>2, <1>7 DEF NotAnsweredYet, OneAnswer
<1>13. RunningIsTrue'
  BY <1>1, <1>2 DEF RunningIsTrue
<1> QED BY <1>3, <1>4, <1>5, <1>9, <1>10, <1>11, <1>12, <1>13

LEMMA PostStreamStep ==
  ASSUME IInv, NEW t \in Tasks, NEW s \in Sessions, PostStream(t, s)
  PROVE  IInv'
<1> USE ApiAssumption DEF IInv, TypeOKApi
<1>1. /\ kind[t] = "none" /\ row[t] = "none" /\ run[t] = "none" /\ answers[t] = 0
      /\ t \notin inFlight
      /\ \A u \in Tasks : u < t <=> u # t /\ kind[u] # "none"
      /\ \A u \in Tasks : u < t <=> u # t /\ ~ (t < u)
  BY NewIsLast DEF PostStream, AddTask
<1>2. /\ server = "up"
      /\ kind' = [kind EXCEPT ![t] = "stream"]
      /\ sess' = [sess EXCEPT ![t] = s]
      /\ row' = [row EXCEPT ![t] = "pending"]
      /\ prev' = [prev EXCEPT ![t] = tail[s]]
      /\ tail' = [tail EXCEPT ![s] = t]
      /\ run' = [run EXCEPT ![t] = "chained"]
      /\ UNCHANGED <<server, asked, answers, inFlight, toSweep, gaveUp, torn>>
  BY DEF PostStream, AddTask, New, Accepting, sweepVars
<1>3. TypeOKApi'
  BY <1>2 DEF Kinds, Places
<1>4. MadeInOrder' /\ UnmadeIsBlank' /\ StreamsAreChats'
  BY <1>1, <1>2 DEF MadeInOrder, UnmadeIsBlank, StreamsAreChats
<1>5. MemoryIsFresh' /\ NoRowOfTheDead' /\ SweepIsWhole'
  BY <1>2 DEF MemoryIsFresh, NoRowOfTheDead, SweepIsWhole
<1>6. \A u, x : u # t => (StreamOf(u, x) <=> StreamOf(u, x)')
  BY <1>1, <1>2 DEF StreamOf
<1>7. \A u \in Tasks : u # t => (Live(u) <=> Live(u)') /\ run'[u] = run[u] /\ sess'[u] = sess[u]
                            /\ kind'[u] = kind[u] /\ prev'[u] = prev[u]
  BY <1>2 DEF Live
<1>8. StreamOf(t, s)' /\ \A x : x # s => ~ StreamOf(t, x)'
  BY <1>2 DEF StreamOf
<1>9. \A u, x : StreamOf(u, x) => u \in Tasks /\ u < t /\ u # t
  BY <1>1 DEF StreamOf
<1>10. TailIsLast'
  <2> SUFFICES ASSUME NEW x \in Sessions
               PROVE  /\ tail'[x] # NoTask => StreamOf(tail[x], x)'
                      /\ \A u \in Tasks : StreamOf(u, x)' /\ Live(u)'
                            => tail'[x] # NoTask /\ u <= tail'[x]
    BY DEF TailIsLast
  <2>1. CASE x = s
    <3>1. tail'[x] = t
      BY <1>2, <2>1
    <3>2. \A u \in Tasks : StreamOf(u, x)' => u <= t
      BY <1>6, <1>9
    <3> QED BY <2>1, <3>1, <3>2, <1>8
  <2>2. CASE x # s
    <3>1. tail'[x] = tail[x]
      BY <1>2, <2>2
    <3>2. tail'[x] # NoTask => StreamOf(tail[x], x)'
      BY <1>1, <1>2, <3>1 DEF TailIsLast, StreamOf
    <3>3. \A u \in Tasks : StreamOf(u, x)' /\ Live(u)' => StreamOf(u, x) /\ Live(u)
      BY <1>6, <1>7, <1>8, <2>2
    <3> QED BY <3>1, <3>2, <3>3 DEF TailIsLast
  <2> QED BY <2>1, <2>2
<1>11. ChainIsWhole'
  <2> SUFFICES ASSUME NEW q \in Tasks, kind'[q] = "stream", run'[q] = "chained"
               PROVE  /\ prev'[q] # NoTask => StreamOf(prev[q], sess[q])' /\ prev'[q] < q
                      /\ \A u \in Tasks : u < q /\ StreamOf(u, sess[q])' /\ Live(u)'
                            => prev'[q] # NoTask /\ u <= prev'[q]
    BY DEF ChainIsWhole
  <2>1. CASE q = t
    <3>1. prev'[q] = tail[s] /\ sess'[q] = s
      BY <1>2, <2>1
    <3>2. PICK p : p = tail[s]
      OBVIOUS
    <3>3. p # NoTask => StreamOf(p, s)
      BY <3>2 DEF TailIsLast
    <3>4. p # NoTask => StreamOf(p, s)' /\ p < t
      BY <1>6, <1>9, <3>3
    <3>5. ASSUME NEW u \in Tasks, u < t, StreamOf(u, s)', Live(u)'
          PROVE  p # NoTask /\ u <= p
      <4>1. u # t
        BY <1>1, <3>5
      <4>2. StreamOf(u, s) /\ Live(u)
        BY <1>6, <1>7, <3>5, <4>1
      <4> QED BY <3>2, <4>2 DEF TailIsLast
    <3> QED BY <2>1, <3>1, <3>2, <3>4, <3>5
  <2>2. CASE q # t
    <3>1. kind[q] = "stream" /\ run[q] = "chained" /\ prev'[q] = prev[q] /\ sess'[q] = sess[q]
      BY <1>7, <2>2
    <3>2. q < t
      BY <1>1, <2>2, <3>1
    <3>3. prev[q] # NoTask => StreamOf(prev[q], sess[q])' /\ prev[q] < q
      BY <1>6, <1>9, <3>1 DEF ChainIsWhole
    <3>4. \A u \in Tasks : u < q => u # t
      BY <1>1, <3>2
    <3> QED BY <1>6, <1>7, <3>1, <3>3, <3>4 DEF ChainIsWhole
  <2> QED BY <2>1, <2>2
<1>12. TurnsAreOver'
  <2> SUFFICES ASSUME NEW q \in Tasks, NEW u \in Tasks, kind'[q] = "stream",
                      run'[q] \notin {"none", "chained"}, u < q, StreamOf(u, sess[q])'
               PROVE  ~ Live(u)'
    BY DEF TurnsAreOver
  <2>1. q # t
    BY <1>2
  <2>2. kind[q] = "stream" /\ run'[q] = run[q] /\ sess'[q] = sess[q]
    BY <1>7, <2>1
  <2>3. u # t
    BY <1>1, <2>1, <2>2
  <2> QED BY <1>6, <1>7, <2>2, <2>3 DEF TurnsAreOver
<1>13. NotAnsweredYet' /\ OneAnswer'
  BY <1>1, <1>2, <1>7 DEF NotAnsweredYet, OneAnswer
<1>14. RunningIsTrue'
  BY <1>1, <1>2 DEF RunningIsTrue
<1> QED BY <1>3, <1>4, <1>5, <1>10, <1>11, <1>12, <1>13, <1>14

\* When it is a chained stream's turn, the earlier streams of its session are over.
LEMMA AheadIsOver ==
  ASSUME IInv, NEW t \in Tasks, Ready(t), kind[t] = "stream",
         NEW u \in Tasks, u < t, StreamOf(u, sess[t])
  PROVE  ~ Live(u)
<1> SUFFICES ASSUME Live(u) PROVE FALSE
  OBVIOUS
<1> USE ApiAssumption DEF IInv, TypeOKApi
<1>1. run[t] = "chained" /\ \A p \in Ahead(t) : ~ Live(p)
  BY DEF Ready
<1>2. prev[t] # NoTask /\ StreamOf(prev[t], sess[t]) /\ u <= prev[t]
  BY <1>1 DEF ChainIsWhole
<1>3. prev[t] \in Tasks /\ ~ Live(prev[t])
  <2>1. prev[t] \in Ahead(t)
    BY <1>2 DEF Ahead
  <2> QED BY <1>1, <1>2, <2>1 DEF StreamOf
<1>4. u < prev[t]
  <2>1. u # prev[t]
    BY <1>3
  <2>2. u \in Nat /\ prev[t] \in Nat /\ u <= prev[t]
    BY <1>2, <1>3
  <2> QED BY <2>1, <2>2
<1>5. kind[prev[t]] = "stream" /\ sess[prev[t]] = sess[t] /\ run[prev[t]] \notin {"none", "chained"}
  BY <1>2, <1>3 DEF StreamOf, Live
<1> QED BY <1>3, <1>4, <1>5 DEF TurnsAreOver

LEMMA StartChainedStep ==
  ASSUME IInv, NEW t \in Tasks, StartChained(t)
  PROVE  IInv'
<1> USE ApiAssumption DEF IInv, TypeOKApi
<1>1. /\ run[t] = "chained" /\ Ready(t)
      /\ run' = [run EXCEPT ![t] = "running"]
      /\ asked' = asked \union {t}
      /\ UNCHANGED <<server, kind, sess, row, answers, prev, inFlight, tail, toSweep, gaveUp, torn>>
  BY DEF StartChained, Ready, sweepVars
<1>2. TypeOKApi'
  BY <1>1
<1>3. \A u : (Live(u) <=> Live(u)') /\ \A x : StreamOf(u, x) <=> StreamOf(u, x)'
  <2>1. ASSUME NEW u PROVE Live(u) <=> Live(u)'
    BY <1>1 DEF Live
  <2>2. ASSUME NEW u, NEW x PROVE StreamOf(u, x) <=> StreamOf(u, x)'
    BY <1>1 DEF StreamOf
  <2> QED BY <2>1, <2>2
<1>4. MadeInOrder' /\ UnmadeIsBlank' /\ MemoryIsFresh' /\ StreamsAreChats'
  BY <1>1 DEF MadeInOrder, UnmadeIsBlank, MemoryIsFresh, StreamsAreChats
<1>5. TailIsLast'
  BY <1>1, <1>3 DEF TailIsLast
<1>6. ChainIsWhole'
  BY <1>1, <1>3 DEF ChainIsWhole
<1>7. \A u \in Tasks : kind[t] = "stream" /\ u < t /\ StreamOf(u, sess[t]) => ~ Live(u)
  BY <1>1, AheadIsOver
<1>8. TurnsAreOver'
  BY <1>1, <1>3, <1>7 DEF TurnsAreOver
<1>9. NotAnsweredYet' /\ RunningIsTrue' /\ NoRowOfTheDead' /\ SweepIsWhole' /\ OneAnswer'
  BY <1>1, <1>3 DEF NotAnsweredYet, RunningIsTrue, NoRowOfTheDead, SweepIsWhole, OneAnswer
<1> QED BY <1>2, <1>4, <1>5, <1>6, <1>8, <1>9

\* A call ends and the row of its task becomes r, and its turns n.
EndOf(t, end, r, n) ==
    /\ run[t] = "running" \/ Ready(t)
    /\ end \in {"returned", "threw"} /\ run' = [run EXCEPT ![t] = end]
    /\ row' = [row EXCEPT ![t] = r] /\ r \in {row[t], "completed", "failed"}
    /\ answers' = [answers EXCEPT ![t] = n] /\ n \in {0, 1, 2}
    /\ n # 0 => r # "pending"
    /\ n = 2 => t \in torn' /\ kind[t] = "stream" /\ r = "failed"
    /\ torn' \in {torn, torn \union {t}} /\ asked' \in {asked, asked \union {t}}
    /\ inFlight' = inFlight \ {t} /\ tail' = Untail(t)
    /\ UNCHANGED <<server, kind, sess, prev, toSweep, gaveUp>>

LEMMA EndStep ==
  ASSUME IInv, NEW t \in Tasks, NEW end, NEW r, NEW n, EndOf(t, end, r, n)
  PROVE  IInv'
<1> USE ApiAssumption DEF IInv, TypeOKApi, EndOf
<1>0. Live(t) /\ run[t] # "none"
  BY DEF Live, Ready
<1>1. kind[t] # "none" /\ server \notin {"starting", "down"}
  BY <1>0 DEF UnmadeIsBlank, MemoryIsFresh
<1>2. TypeOKApi'
  BY DEF Untail
<1>3. \A u, x : StreamOf(u, x) <=> StreamOf(u, x)'
  BY <1>0 DEF StreamOf
<1>4. ~ Live(t)' /\ \A u \in Tasks : Live(u)' => Live(u)
  BY DEF Live
<1>5. MadeInOrder' /\ UnmadeIsBlank' /\ MemoryIsFresh' /\ StreamsAreChats'
  BY <1>1 DEF MadeInOrder, UnmadeIsBlank, MemoryIsFresh, StreamsAreChats
<1>6. \A u \in Tasks : kind[t] = "stream" /\ u < t /\ StreamOf(u, sess[t]) => ~ Live(u)
  BY AheadIsOver DEF TurnsAreOver
<1>7. TailIsLast'
  <2> SUFFICES ASSUME NEW s \in Sessions
               PROVE  /\ tail'[s] # NoTask => StreamOf(tail[s], s)'
                      /\ \A u \in Tasks : StreamOf(u, s)' /\ Live(u)'
                            => tail'[s] # NoTask /\ u <= tail'[s]
    BY DEF TailIsLast
  <2>1. CASE tail[s] = t
    <3>1. tail'[s] = NoTask
      BY <2>1 DEF Untail
    <3>2. kind[t] = "stream" /\ sess[t] = s
      BY <2>1 DEF TailIsLast, StreamOf
    <3>3. ASSUME NEW u \in Tasks, StreamOf(u, s)', Live(u)' PROVE FALSE
      <4>1. StreamOf(u, s) /\ Live(u) /\ u # t
        BY <1>3, <1>4, <3>3
      <4>2. u < t
        BY <2>1, <4>1 DEF TailIsLast
      <4> QED BY <1>6, <3>2, <4>1, <4>2
    <3> QED BY <3>1, <3>3
  <2>2. CASE tail[s] # t
    <3>1. tail'[s] = tail[s]
      BY <2>2 DEF Untail
    <3> QED BY <1>3, <1>4, <3>1 DEF TailIsLast
  <2> QED BY <2>1, <2>2
<1>8. ChainIsWhole'
  <2>1. \A q \in Tasks : run'[q] = "chained" => run[q] = "chained"
    OBVIOUS
  <2> QED BY <1>3, <1>4, <2>1 DEF ChainIsWhole
<1>9. TurnsAreOver'
  <2>1. \A q \in Tasks : q # t /\ run'[q] \notin {"none", "chained"}
                        => run[q] \notin {"none", "chained"}
    OBVIOUS
  <2> QED BY <1>3, <1>4, <1>6, <2>1 DEF TurnsAreOver
<1>10. NotAnsweredYet'
  BY <1>4 DEF NotAnsweredYet
<1>11. OneAnswer'
  BY DEF OneAnswer
<1>12. RunningIsTrue' /\ NoRowOfTheDead' /\ SweepIsWhole'
  BY <1>0, <1>1 DEF RunningIsTrue, NoRowOfTheDead, SweepIsWhole
<1> QED BY <1>2, <1>5, <1>7, <1>8, <1>9, <1>10, <1>11, <1>12

\* executeTask returns.  Two turns are written only by a stream whose first one was, by
\* a call that threw.
LEMMA SettleStep ==
  ASSUME IInv, NEW t \in Tasks, NEW o \in Outcomes, Settle(t, o)
  PROVE  IInv'
<1> USE DEF IInv, TypeOKApi
<1>1. answers[t] = 0 /\ run[t] = "running"
  BY DEF Settle, NotAnsweredYet, Live
<1>2. /\ inFlight' = inFlight \ {t} /\ run' = [run EXCEPT ![t] = "returned"]
      /\ tail' = Untail(t) /\ UNCHANGED <<server, kind, sess, asked, prev, toSweep, gaveUp>>
  BY DEF Settle, Over, sweepVars
<1>3. PICK far \in Reach(t), again \in Reach(t) :
        LET first == Kept(t, o, far, Now(t))
            caught == kind[t] = "stream" /\ far # "all"
        IN  /\ IF kind[t] = "job" THEN UNCHANGED <<row, answers>>
               ELSE Keep(t, IF caught THEN Kept(t, "failed", again, first) ELSE first)
            /\ torn' = IF caught /\ far = "turn" THEN torn \union {t} ELSE torn
  BY DEF Settle
<1> DEFINE first == Kept(t, o, far, Now(t))
           caught == kind[t] = "stream" /\ far # "all"
           last == Kept(t, "failed", again, first)
<1>4. /\ first.row \in {row[t], "completed", "failed"} /\ first.answers \in {0, 1}
      /\ first.answers = 1 => first.row # "pending" /\ far \in {"turn", "all"}
  <2>1. Now(t).answers = 0 /\ Now(t).row = row[t]
    BY <1>1 DEF Now
  <2> QED BY <2>1, KeptFacts, DbStatusIsFinal
<1>5. /\ last.row \in {first.row, "failed"} /\ last.answers \in {first.answers, first.answers + 1}
      /\ last.answers # first.answers => last.row = "failed"
  BY <1>4, KeptFacts, DbStatusIsFinal
<1>6. torn' \in {torn, torn \union {t}}
  BY <1>3
<1> HIDE DEF IInv, TypeOKApi, first, last
<1>7. CASE kind[t] = "job"
  <2>1. row' = [row EXCEPT ![t] = row[t]] /\ answers' = [answers EXCEPT ![t] = 0]
    BY <1>1, <1>3, <1>7 DEF IInv, TypeOKApi
  <2>2. EndOf(t, "returned", row[t], 0)
    BY <1>1, <1>2, <1>6, <2>1 DEF EndOf
  <2> QED BY <2>2, EndStep
<1>8. CASE kind[t] # "job" /\ ~ caught
  <2>1. row' = [row EXCEPT ![t] = first.row] /\ answers' = [answers EXCEPT ![t] = first.answers]
    BY <1>3, <1>8 DEF Keep, first
  <2>2. EndOf(t, "returned", first.row, first.answers)
    BY <1>1, <1>2, <1>4, <1>6, <2>1 DEF EndOf
  <2> QED BY <2>2, EndStep
<1>9. CASE kind[t] # "job" /\ caught
  <2>1. row' = [row EXCEPT ![t] = last.row] /\ answers' = [answers EXCEPT ![t] = last.answers]
    BY <1>3, <1>9 DEF Keep, first, last
  <2>2. /\ last.row \in {row[t], "completed", "failed"} /\ last.answers \in {0, 1, 2}
        /\ last.answers # 0 => last.row # "pending"
    BY <1>4, <1>5
  <2>3. last.answers = 2 => far = "turn" /\ last.row = "failed"
    BY <1>4, <1>5, <1>9
  <2>4. far = "turn" => t \in torn'
    BY <1>3, <1>9
  <2>5. EndOf(t, "returned", last.row, last.answers)
    BY <1>1, <1>2, <1>6, <1>9, <2>1, <2>2, <2>3, <2>4 DEF EndOf
  <2> QED BY <2>5, EndStep
<1> QED BY <1>7, <1>8, <1>9

\* executeTask throws, or the user's turn before it.
LEMMA RejectedStep ==
  ASSUME IInv, NEW t \in Tasks, run[t] = "running" \/ Ready(t), Rejected(t),
         asked' \in {asked, asked \union {t}}
  PROVE  IInv'
<1>1. answers[t] = 0
  BY DEF IInv, NotAnsweredYet, Live, Ready
<1>2. /\ inFlight' = inFlight \ {t} /\ run' = [run EXCEPT ![t] = "threw"]
      /\ tail' = Untail(t) /\ UNCHANGED <<server, kind, sess, prev, toSweep, gaveUp, torn>>
  BY DEF Rejected, Over, sweepVars
<1>3. CASE UNCHANGED <<row, answers>>
  <2>1. row' = [row EXCEPT ![t] = row[t]] /\ answers' = [answers EXCEPT ![t] = 0]
    BY <1>1, <1>3 DEF IInv, TypeOKApi
  <2>2. EndOf(t, "threw", row[t], 0)
    BY <1>2, <2>1 DEF EndOf
  <2> QED BY <2>2, EndStep
<1>4. ASSUME NEW far, Keep(t, Kept(t, "failed", far, Now(t))) PROVE IInv'
  <2> DEFINE books == Kept(t, "failed", far, Now(t))
  <2>1. Now(t).answers = 0 /\ Now(t).row = row[t]
    BY <1>1 DEF Now
  <2>2. /\ books.row \in {row[t], "completed", "failed"} /\ books.answers \in {0, 1}
        /\ books.answers = 1 => books.row # "pending"
    BY <2>1, KeptFacts, DbStatusIsFinal
  <2>3. row' = [row EXCEPT ![t] = books.row] /\ answers' = [answers EXCEPT ![t] = books.answers]
    BY <1>4 DEF Keep
  <2> HIDE DEF books
  <2>4. EndOf(t, "threw", books.row, books.answers)
    BY <1>2, <2>2, <2>3 DEF EndOf
  <2> QED BY <2>4, EndStep
<1> QED BY <1>3, <1>4 DEF Rejected

LEMMA CancelStep ==
  ASSUME IInv, NEW t \in Tasks, Cancel(t)
  PROVE  IInv'
<1> USE DEF IInv, TypeOKApi
<1>1. /\ server = "up"
      /\ inFlight' = inFlight \ {t}
      /\ row' = [row EXCEPT ![t] = IF @ = "pending" THEN "cancelled" ELSE @] \/ UNCHANGED row
      /\ UNCHANGED <<server, kind, sess, asked, answers, run, prev, tail, toSweep, gaveUp, torn>>
  BY DEF Cancel, Accepting, sweepVars
<1>2. TypeOKApi'
  BY <1>1
<1>3. \A u, x : (Live(u) <=> Live(u)') /\ (StreamOf(u, x) <=> StreamOf(u, x)')
  BY <1>1 DEF Live, StreamOf
<1>4. MadeInOrder' /\ UnmadeIsBlank' /\ MemoryIsFresh' /\ StreamsAreChats'
  BY <1>1 DEF MadeInOrder, UnmadeIsBlank, MemoryIsFresh, StreamsAreChats
<1>5. TailIsLast' /\ ChainIsWhole' /\ TurnsAreOver'
  BY <1>1, <1>3 DEF TailIsLast, ChainIsWhole, TurnsAreOver
<1>6. NotAnsweredYet' /\ RunningIsTrue' /\ NoRowOfTheDead' /\ SweepIsWhole' /\ OneAnswer'
  BY <1>1, <1>3 DEF NotAnsweredYet, RunningIsTrue, NoRowOfTheDead, SweepIsWhole, OneAnswer
<1> QED BY <1>2, <1>4, <1>5, <1>6

\* The process dies: whatever reached the disk, no pending row is answered.
LEMMA DieStep ==
  ASSUME IInv, Forget, server' = "down", UNCHANGED <<kind, sess, asked, answers, torn>>,
         row' \in [Tasks -> {"none", "pending", "completed", "failed", "cancelled"}],
         \A t \in Tasks : row'[t] = row[t]
                          \/ /\ kind[t] # "none" /\ answers[t] = 0
                             /\ row'[t] \in {"completed", "failed"}
  PROVE  IInv'
<1> USE DEF IInv, TypeOKApi
<1>1. \A t \in Tasks : /\ row'[t] = "pending" => row[t] = "pending"
                       /\ kind[t] = "none" => row'[t] = row[t]
  OBVIOUS
<1>2. /\ run' = [t \in Tasks |-> "none"]
      /\ prev' = [t \in Tasks |-> NoTask]
      /\ tail' = [s \in Sessions |-> NoTask]
      /\ inFlight' = {} /\ toSweep' = {} /\ gaveUp' = {}
  BY DEF Forget
<1>3. TypeOKApi'
  BY <1>1, <1>2
<1>4. \A u \in Tasks : run'[u] = "none" /\ prev'[u] = NoTask
  BY <1>2
<1>5. MadeInOrder' /\ StreamsAreChats'
  BY DEF MadeInOrder, StreamsAreChats
<1>9. UnmadeIsBlank'
  BY <1>1, <1>4 DEF UnmadeIsBlank
<1>6. MemoryIsFresh' /\ TailIsLast' /\ ChainIsWhole' /\ TurnsAreOver'
  BY <1>2, <1>4 DEF MemoryIsFresh, TailIsLast, ChainIsWhole, TurnsAreOver, StreamOf, Live
<1>7. NotAnsweredYet'
  BY <1>1, <1>4 DEF NotAnsweredYet, Live
<1>8. RunningIsTrue' /\ NoRowOfTheDead' /\ SweepIsWhole' /\ OneAnswer'
  BY <1>2 DEF RunningIsTrue, NoRowOfTheDead, SweepIsWhole, OneAnswer
<1> QED BY <1>3, <1>5, <1>6, <1>7, <1>8, <1>9

LEMMA SweepStep ==
  ASSUME IInv, NEW t \in Tasks, Sweep(t)
  PROVE  IInv'
<1> USE DEF IInv, TypeOKApi
<1>1. /\ server = "starting" /\ t \in toSweep /\ toSweep' = toSweep \ {t}
      /\ UNCHANGED <<server, kind, sess, asked, run, prev, inFlight, tail, torn>>
  BY DEF Sweep, callVars
<1>2. row[t] = "pending" /\ answers[t] = 0
  BY <1>1 DEF SweepIsWhole, NotAnsweredYet
<1>3. PICK far \in Reach(t), marked \in BOOLEAN :
        LET left == far = "nothing" /\ ~ marked
        IN  /\ IF left THEN UNCHANGED row ELSE CompleteTask(t, "failed")
            /\ gaveUp' = IF left THEN gaveUp \union {t} ELSE gaveUp
            /\ answers' = [answers EXCEPT ![t] = IF far \in {"turn", "all"} THEN @ + 1 ELSE @]
  BY DEF Sweep
<1>4. \/ /\ UNCHANGED row /\ gaveUp' = gaveUp \union {t} /\ UNCHANGED answers
      \/ /\ row' = [row EXCEPT ![t] = "failed"] /\ UNCHANGED gaveUp
         /\ \E n \in {0, 1} : answers' = [answers EXCEPT ![t] = n]
  <2>1. CASE far = "nothing" /\ ~ marked
    BY <1>3, <2>1
  <2>2. CASE ~ (far = "nothing" /\ ~ marked)
    <3>1. CompleteTask(t, "failed") /\ UNCHANGED gaveUp
      BY <1>3, <2>2
    <3>2. row' = [row EXCEPT ![t] = "failed"]
      BY <3>1, DbStatusIsFinal DEF CompleteTask
    <3>3. \E n \in {0, 1} : answers' = [answers EXCEPT ![t] = n]
      <4>1. CASE far \in {"turn", "all"}
        <5>1. answers[t] + 1 = 1 /\ answers' = [answers EXCEPT ![t] = answers[t] + 1]
          BY <1>2, <1>3, <4>1
        <5> QED BY <5>1
      <4>2. CASE far \notin {"turn", "all"}
        BY <1>2, <1>3, <4>2
      <4> QED BY <4>1, <4>2
    <3> QED BY <3>1, <3>2, <3>3
  <2> QED BY <2>1, <2>2
<1>5. TypeOKApi'
  BY <1>1, <1>4
<1>6. \A u, x : (Live(u) <=> Live(u)') /\ (StreamOf(u, x) <=> StreamOf(u, x)')
  BY <1>1 DEF Live, StreamOf
<1>7. MadeInOrder' /\ MemoryIsFresh' /\ StreamsAreChats' /\ TailIsLast' /\ ChainIsWhole' /\ TurnsAreOver'
  BY <1>1, <1>6 DEF MadeInOrder, MemoryIsFresh, StreamsAreChats, TailIsLast, ChainIsWhole,
     TurnsAreOver
<1>8. UnmadeIsBlank'
  BY <1>1, <1>2, <1>4 DEF UnmadeIsBlank
<1>9. NotAnsweredYet'
  <2>1. \A u \in Tasks : ~ Live(u)'
    BY <1>1 DEF MemoryIsFresh, Live
  <2> QED BY <1>2, <1>4, <2>1 DEF NotAnsweredYet
<1>10. SweepIsWhole'
  BY <1>1, <1>2, <1>4 DEF SweepIsWhole
<1>11. RunningIsTrue' /\ NoRowOfTheDead'
  BY <1>1 DEF RunningIsTrue, NoRowOfTheDead, MemoryIsFresh
<1>12. OneAnswer'
  BY <1>1, <1>2, <1>4 DEF OneAnswer
<1> QED BY <1>5, <1>7, <1>8, <1>9, <1>10, <1>11, <1>12

\* Only the server's own state changes: it starts to stop, to start or to listen.
LEMMA ServerStep ==
  ASSUME IInv, StopBegins \/ Start \/ Listen
  PROVE  IInv'
<1> USE DEF IInv, TypeOKApi
<1>1. UNCHANGED <<kind, sess, row, asked, answers, run, prev, inFlight, tail, gaveUp, torn>>
  BY DEF StopBegins, Start, Listen, diskVars, callVars, memVars, sweepVars
<1>2. \/ server = "up" /\ server' = "stopping" /\ UNCHANGED toSweep
      \/ server = "down" /\ server' = "starting" /\ toSweep' = Orphans
      \/ server = "starting" /\ server' = "up" /\ toSweep = {} /\ UNCHANGED toSweep
  BY DEF StopBegins, Start, Listen, memVars, sweepVars
<1>3. \A u, x : (Live(u) <=> Live(u)') /\ (StreamOf(u, x) <=> StreamOf(u, x)')
  BY <1>1 DEF Live, StreamOf
<1>4. TypeOKApi' /\ MadeInOrder' /\ UnmadeIsBlank' /\ MemoryIsFresh' /\ StreamsAreChats'
  BY <1>1, <1>2 DEF MadeInOrder, UnmadeIsBlank, MemoryIsFresh, StreamsAreChats, Orphans
<1>5. /\ TailIsLast' /\ ChainIsWhole' /\ TurnsAreOver' /\ NotAnsweredYet' /\ RunningIsTrue'
      /\ OneAnswer'
  BY <1>1, <1>3 DEF TailIsLast, ChainIsWhole, TurnsAreOver, NotAnsweredYet, RunningIsTrue, OneAnswer
<1>6. NoRowOfTheDead' /\ SweepIsWhole'
  BY <1>1, <1>2 DEF NoRowOfTheDead, SweepIsWhole, Orphans
<1> QED BY <1>4, <1>5, <1>6

\* One case per action of Next.
LEMMA StepIInv == IInv /\ [Next]_vars => IInv'
<1> SUFFICES ASSUME IInv, [Next]_vars PROVE IInv'
  OBVIOUS
<1>1. ASSUME NEW t \in Tasks, Post(t) PROVE IInv'
  <2> USE DEF AddTask, Accepting, Kinds, sweepVars, PostOf
  <2>1. /\ prev \in [Tasks -> Tasks \union {NoTask}] /\ \A u \in Tasks : sess[u] \in Places
        /\ Sessions \subseteq Places
    BY DEF IInv, TypeOKApi, Places
  <2>2. ASSUME NEW s \in Places, PostSync(t, s) PROVE PostOf(t, "sync", s)
    BY <2>1, <2>2 DEF PostSync
  <2>3. ASSUME NEW s \in Places, PostAsync(t, s) PROVE PostOf(t, "async", s)
    BY <2>1, <2>3 DEF PostAsync
  <2>4. ASSUME NEW s \in Sessions, PostMessage(t, s) PROVE PostOf(t, "message", s)
    BY <2>1, <2>4 DEF PostMessage
  <2>5. ASSUME NEW p \in Tasks, Retry(t, p) PROVE PostOf(t, "retry", sess[p])
    BY <2>1, <2>5 DEF Retry
  <2>6. ASSUME PostJob(t) PROVE PostOf(t, "job", sess[t])
    <3>1. sess' = [sess EXCEPT ![t] = sess[t]]
      BY <2>6 DEF PostJob, IInv, TypeOKApi
    <3>2. row' = [row EXCEPT ![t] = "none"]
      BY <2>6 DEF PostJob, New, IInv, TypeOKApi, UnmadeIsBlank
    <3> QED BY <2>1, <2>6, <3>1, <3>2 DEF PostJob
  <2> HIDE DEF PostOf
  <2> QED BY <1>1, <2>2, <2>3, <2>4, <2>5, <2>6, PostStep, PostStreamStep DEF Post
<1>2. ASSUME NEW t \in Tasks, Ends(t) \/ AskThrows(t) PROVE IInv'
  BY <1>2, SettleStep, RejectedStep DEF Ends, Throw, AskThrows
<1>3. ASSUME NEW t \in Tasks, CrashInSweep(t) PROVE IInv'
  <2>1. kind[t] # "none" /\ answers[t] = 0
    BY <1>3 DEF CrashInSweep, IInv, SweepIsWhole, UnmadeIsBlank, NotAnsweredYet
  <2>2. PICK status \in {"completed", "failed"} : row' = [row EXCEPT ![t] = status]
    BY <1>3, DbStatusIsFinal DEF CrashInSweep, CompleteTask
  <2>3. /\ row' \in [Tasks -> {"none", "pending", "completed", "failed", "cancelled"}]
        /\ \A u \in Tasks : row'[u] = row[u]
                          \/ /\ kind[u] # "none" /\ answers[u] = 0
                             /\ row'[u] \in {"completed", "failed"}
    BY <2>1, <2>2 DEF IInv, TypeOKApi
  <2> QED BY <1>3, <2>3, DieStep DEF CrashInSweep, Die
<1>4. ASSUME NEW t \in Tasks, NEW o \in Outcomes, CrashInSettle(t, o) PROVE IInv'
  <2>1. kind[t] # "none" /\ answers[t] = 0
    BY <1>4 DEF CrashInSettle, IInv, UnmadeIsBlank, NotAnsweredYet, Live
  <2>2. PICK status \in {"completed", "failed"} : row' = [row EXCEPT ![t] = status]
    BY <1>4, DbStatusIsFinal DEF CrashInSettle, CompleteTask
  <2>3. /\ row' \in [Tasks -> {"none", "pending", "completed", "failed", "cancelled"}]
        /\ \A u \in Tasks : row'[u] = row[u]
                          \/ /\ kind[u] # "none" /\ answers[u] = 0
                             /\ row'[u] \in {"completed", "failed"}
    BY <2>1, <2>2 DEF IInv, TypeOKApi
  <2> QED BY <1>4, <2>3, DieStep DEF CrashInSettle, Die
<1>5. CASE StopEnds \/ Crash
  <2>1. Forget /\ server' = "down" /\ UNCHANGED <<kind, sess, row, asked, answers, torn>>
    BY <1>5 DEF StopEnds, Crash, Die, diskVars
  <2>2. row' \in [Tasks -> {"none", "pending", "completed", "failed", "cancelled"}]
    BY <2>1 DEF IInv, TypeOKApi
  <2>3. \A u \in Tasks : row'[u] = row[u]
    BY <2>1
  <2> QED BY <2>1, <2>2, <2>3, DieStep
<1>6. CASE UNCHANGED vars
  BY <1>6 DEF vars, diskVars, callVars, sweepVars, memVars, IInv, TypeOKApi, MadeInOrder,
     UnmadeIsBlank, MemoryIsFresh, StreamsAreChats, TailIsLast, ChainIsWhole, TurnsAreOver,
     NotAnsweredYet, SweepIsWhole, RunningIsTrue, NoRowOfTheDead, OneAnswer, StreamOf, Live
<1> QED
  BY <1>1, <1>2, <1>3, <1>4, <1>5, <1>6, StartChainedStep, CancelStep, SweepStep, ServerStep
  DEF Next

LEMMA Invariance == Spec => []IInv
<1> QED BY InitIInv, StepIInv, PTL DEF Spec

-----------------------------------------------------------------------------
(* The results *)

\* The server's maps and the rows of session_tasks hold values of their types
\* (server.ts, session-manager.ts); in particular no row takes a status that
\* the table does not know.
THEOREM TypeCorrect == Spec => []TypeOKApi
<1> QED BY Invariance, PTL DEF IInv

\* sessionTaskChain serialises the streamed messages of a session, in the order
\* they were sent, through throws, cancellations, crashes and restarts
\* (handleSessionMessage of server.ts).
THEOREM StreamsRunInTurn == Spec => []StreamsTakeTurns
<1>1. ASSUME IInv PROVE StreamsTakeTurns
  <2> SUFFICES ASSUME NEW t \in Tasks, kind[t] = "stream", run[t] = "running",
                      NEW u \in Tasks, u < t, kind[u] = "stream", sess[u] = sess[t], Live(u)
               PROVE  FALSE
    BY DEF StreamsTakeTurns
  <2>1. StreamOf(u, sess[t])
    BY DEF StreamOf, Live
  <2> QED BY <1>1, <2>1 DEF IInv, TurnsAreOver
<1> QED BY <1>1, Invariance, PTL

\* What the server keeps in memory, in its rows and in the conversation agrees,
\* whichever writes fail: a task listed as running runs, on a pending row unless it is
\* a job, a server that listens shows no row of a dead process but those its sweep
\* failed on twice, and a task answers once, unless it is a stream whose first answer
\* was written by a call that threw (executeTask's callers, handleCancelTask,
\* handleRunScheduledJobNow, recoverOrphanedTasks).
THEOREM TheBooksAgree == Spec => []BooksAgree
<1>1. ASSUME IInv PROVE BooksAgree
  BY <1>1 DEF IInv, BooksAgree
<1> QED BY <1>1, Invariance, PTL

===============================================================================
