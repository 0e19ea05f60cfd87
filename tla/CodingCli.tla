------------------------------ MODULE CodingCli ------------------------------
(***************************************************************************)
(* One session of an external coding CLI (src/src/orchestrator/            *)
(* external-coding-cli/): the session with its state machine, the process  *)
(* with its two timers, the controller's headless run with verification,   *)
(* cancellation, and the permission prompts, which go through the approval *)
(* bridge to the ApprovalGate this module is composed with.                *)
(*                                                                         *)
(* Sessions meet in the gate only, under keys of their own, so one is      *)
(* enough.  The CLI is the environment: it prints, asks, waits, ignores a  *)
(* SIGTERM or exits as it likes.                                           *)
(***************************************************************************)
EXTENDS ApprovalGate, Sequences

CONSTANT AutoPrompts  \* prompts the policy approves without a human

\* A prompt of the CLI is at once the request and the slot of the gate, whose
\* key is made of the task id and the prompt's request id.
Prompts == Requests

ASSUME PromptsAssumption == Slots = Requests /\ AutoPrompts \subseteq Requests

VARIABLES
    st,        \* the state machine
    mode,      \* what the session was started for
    life,      \* PipeProcess.lifecycle
    alive,     \* the operating system's process exists
    signal,    \* the strongest signal sent to it
    exitCode,  \* how it ended
    claim,     \* finalResult: the CLI has reported a result
    worked,    \* it has changed a file, run a command or printed a summary
    run,       \* where controller.runHeadless is
    verdict,   \* what the verifier said
    outcome,   \* what CodingCliWorkflowStrategy.run returned
    events,    \* terminal events emitted on the bus
    stored,    \* the state in coding_cli_sessions
    active,    \* prompts whose approvalBridge.request() has not returned
    replies    \* what has been written to the CLI's stdin for each prompt

cliVars == <<st, mode, life, alive, signal, exitCode, claim, worked, run, verdict,
             outcome, events, stored, active, replies>>
gateVars == vars
allVars == <<vars, cliVars>>

processVars == <<life, alive, signal, exitCode>>
runVars == <<run, verdict, outcome>>
promptVars == <<active, replies>>

-----------------------------------------------------------------------------
(* The state machine *)

Work == {"running", "planning", "editing", "running-command", "waiting-input",
         "waiting-approval"}
Broken == {"failed", "cancelled", "timed-out", "crashed"}
Terminal == Broken \union {"completed", "unsupported-capability"}
States == Work \union Terminal \union {"created", "starting", "ready", "verifying", "stalled"}

\* TRANSITIONS
Legal(s) ==
    CASE s = "created"   -> (Broken \ {"timed-out", "crashed"})
                              \union {"starting", "unsupported-capability"}
      [] s = "starting"  -> Broken \union {"ready"}
      [] s = "ready"     -> Broken \union Work \union {"verifying", "completed", "stalled"}
      [] s = "running"   -> Broken \union (Work \ {s})
                              \union {"verifying", "completed", "stalled", "ready"}
      [] s = "waiting-input" -> (Broken \ {"failed"}) \union (Work \ {s})
                              \union {"verifying", "stalled"}
      [] s \in Work \ {"running", "waiting-input"} -> Broken \union (Work \ {s})
                              \union {"verifying", "stalled"}
      [] s = "verifying" -> Broken \union {"completed"}
      [] s = "stalled"   -> Broken \union {"running"}
      [] s \in Terminal  -> {}

\* Slip: the session writes the state without asking canTransition.
Moved_Unchecked(s, to) == to

\* CodingCliSession.transition(): an illegal move is dropped in silence.
Moved(s, to) == IF to \in Legal(s) THEN to ELSE s

TypeOKCli ==
    /\ TypeOK
    /\ st \in States
    /\ mode \in {"none", "headless", "interactive"}
    /\ life \in {"pending", "running", "stalled", "killed", "exited"}
    /\ alive \in BOOLEAN
    /\ signal \in {"none", "SIGTERM", "SIGKILL"}
    /\ exitCode \in {"none", "zero", "nonzero", "null"}
    /\ claim \in BOOLEAN
    /\ worked \in BOOLEAN
    /\ run \in {"idle", "prompting", "waiting", "verifying", "returned"}
    /\ verdict \in {"none", "passed", "failed"}
    /\ outcome \in {"none", "completed", "failed", "unsupported"}
    /\ events \subseteq {"completed", "failed", "cancelled"}
    /\ stored \in States \union {"none"}
    /\ active \subseteq Prompts
    /\ replies \in [Prompts -> Seq({"allow", "deny"})]

InitCli ==
    /\ Init
    /\ st = "created"
    /\ mode = "none"
    /\ life = "pending"
    /\ alive = FALSE
    /\ signal = "none"
    /\ exitCode = "none"
    /\ claim = FALSE
    /\ worked = FALSE
    /\ run = "idle"
    /\ verdict = "none"
    /\ outcome = "none"
    /\ events = {}
    /\ stored = "none"
    /\ active = {}
    /\ replies = [p \in Prompts |-> <<>>]

-----------------------------------------------------------------------------
(* Creation and start *)

\* createSession: a provider that is missing, limited or without a stream
\* protocol gets a session that is final at once; no row is inserted for it.
CreateUnsupported ==
    /\ Running /\ mode = "none"
    /\ st' = Moved(st, "unsupported-capability")
    /\ mode' = "headless"
    /\ run' = "returned"
    /\ outcome' = "unsupported"
    /\ UNCHANGED <<gateVars, processVars, claim, worked, verdict, events, stored, promptVars>>

\* createSession then runHeadless of the session: starting, ready, running,
\* the process is spawned, the writing of the prompt begins.  The command or
\* the spawn may throw, which is a failed session without an event and
\* without an update of its row.
StartHeadless ==
    /\ Running /\ mode = "none"
    /\ mode' = "headless"
    /\ stored' = "created"
    /\ \/ /\ st' = "running"
          /\ life' = "running"
          /\ alive' = TRUE
          /\ run' = "prompting"
          /\ UNCHANGED outcome
       \/ /\ st' = "failed"
          /\ run' = "returned"
          /\ outcome' = "failed"
          /\ UNCHANGED <<life, alive>>
    /\ UNCHANGED <<gateVars, signal, exitCode, claim, worked, verdict, events, promptVars>>

\* The pipe has taken the prompt: stdin is closed and the exit awaited.
PromptWritten ==
    /\ run = "prompting"
    /\ run' = "waiting"
    /\ UNCHANGED <<gateVars, st, mode, processVars, claim, worked, verdict, outcome, events,
                   stored, promptVars>>

\* The CLI has closed its stdin or is gone, and the write fails: it is sent a
\* SIGTERM, whether or not it lives, and its exit is awaited all the same.
\* kill() also changes the lifecycle that both timers look at.
PromptFails ==
    /\ run = "prompting"
    /\ run' = "waiting"
    /\ life' = "killed"
    /\ signal' = IF alive /\ signal = "none" THEN "SIGTERM" ELSE signal
    /\ UNCHANGED <<gateVars, st, mode, alive, exitCode, claim, worked, verdict, outcome, events,
                   stored, promptVars>>

\* POST /sessions without `headless`: stdin stays open, nobody waits for the
\* exit.  When the spawn throws the session stays in `starting`.
StartInteractive ==
    /\ Running /\ mode = "none"
    /\ mode' = "interactive"
    /\ stored' = "created"
    /\ \/ st' = "running" /\ life' = "running" /\ alive' = TRUE
       \/ st' = "starting" /\ UNCHANGED <<life, alive>>
    /\ UNCHANGED <<gateVars, signal, exitCode, claim, worked, runVars, events, promptVars>>

-----------------------------------------------------------------------------
(* What the process prints *)

\* A chunk of stdout may be read after the exit: nothing awaits the readers.
Printing == life # "pending"

\* handleChunk with a tool, file, command or text event.
Output ==
    /\ Printing
    /\ worked' = TRUE
    /\ UNCHANGED <<gateVars, st, mode, processVars, claim, runVars, events, stored, promptVars>>

\* A `result` line of the stream.
ReportResult ==
    /\ Printing
    /\ claim' = TRUE
    /\ UNCHANGED <<gateVars, st, mode, processVars, worked, runVars, events, stored, promptVars>>

\* The Stop and SubagentStop hooks of Claude Code are turned into a state event.
StopHook ==
    /\ Printing
    /\ st' = Moved(st, "completed")
    /\ UNCHANGED <<gateVars, mode, processVars, claim, worked, runVars, events, stored, promptVars>>

\* writeToStdin of a decision: it needs a running lifecycle and an open stdin,
\* which a headless run has closed.  The runner and the adapter both append a
\* chunk to ctx.buffer, so that the prompt was parsed, asked and answered twice.
Written(p, decision) ==
    IF mode = "interactive" /\ life = "running"
      THEN [replies EXCEPT ![p] = @ \o <<decision, decision>>]
      ELSE replies

\* A PreToolUse hook: approvalBridge.request().  The policy answers, or the
\* gate is asked and the bridge remembers the prompt.  The two copies of the
\* event run in one task and attach to one slot, so they are one request here.
Prompt(p) ==
    /\ Printing /\ Running
    /\ answer[p] = "unasked" /\ replies[p] = <<>>
    /\ IF p \in AutoPrompts
         THEN /\ replies' = Written(p, "allow")
              /\ UNCHANGED <<gateVars, active>>
         ELSE /\ RequestApproval(p, p)
              /\ active' = active \union {p}
              /\ UNCHANGED replies
    /\ UNCHANGED <<st, mode, processVars, claim, worked, runVars, events, stored>>

\* Slip: anything but a rejection is taken for a permission.
Answered_NotRejected(p) ==
    /\ p \in active
    /\ answer[p] \in Settled \union {"waiting"}
    /\ active' = active \ {p}
    /\ replies' = Written(p, IF answer[p] = "rejected" THEN "deny" ELSE "allow")
    /\ UNCHANGED <<gateVars, st, mode, processVars, claim, worked, runVars, events, stored>>

\* The gate's promise has settled: the bridge forgets the prompt and the
\* session writes the decision.
Answered(p) ==
    /\ p \in active
    /\ answer[p] \in Decisions
    /\ active' = active \ {p}
    /\ replies' = Written(p, IF answer[p] = "approved" THEN "allow" ELSE "deny")
    /\ UNCHANGED <<gateVars, st, mode, processVars, claim, worked, runVars, events, stored>>

-----------------------------------------------------------------------------
(* Timers and the end of the process *)

\* armIdleTimer: silence stalls the process for good (no output makes the
\* lifecycle running again) and the session if it may.
IdleTimer ==
    /\ life = "running"
    /\ life' = "stalled"
    /\ st' = Moved(st, "stalled")
    /\ UNCHANGED <<gateVars, mode, alive, signal, exitCode, claim, worked, runVars, events,
                   stored, promptVars>>

\* Slip: the deadline is for running processes only.
WallTimer_RunningOnly ==
    /\ life = "running"
    /\ st' = Moved(st, "timed-out")
    /\ life' = "killed"
    /\ signal' = "SIGKILL"
    /\ UNCHANGED <<gateVars, mode, alive, exitCode, claim, worked, runVars, events, stored,
                   promptVars>>

\* armWallTimer: timed-out unless the session is final, then SIGKILL.
WallTimer ==
    /\ life \in {"running", "stalled"}
    /\ st' = Moved(st, "timed-out")
    /\ life' = "killed"
    /\ signal' = "SIGKILL"
    /\ UNCHANGED <<gateVars, mode, alive, exitCode, claim, worked, runVars, events, stored,
                   promptVars>>

\* Slip: a killed process keeps its signal where the exit code was.
Exit_SignalAsCode ==
    /\ alive
    /\ alive' = FALSE
    /\ exitCode' \in IF signal = "SIGKILL" THEN {signal} ELSE {"zero", "nonzero", "null"}
    /\ life' = IF life = "killed" THEN "killed" ELSE "exited"
    /\ UNCHANGED <<gateVars, st, mode, signal, claim, worked, runVars, events, stored, promptVars>>

\* handleExit: the timers are cleared.  A process that a signal ended has no
\* exit code; one may heed a SIGTERM with a code of its own.
Exit ==
    /\ alive
    /\ alive' = FALSE
    /\ exitCode' \in IF signal = "SIGKILL" THEN {"null"} ELSE {"zero", "nonzero", "null"}
    /\ life' = IF life = "killed" THEN "killed" ELSE "exited"
    /\ UNCHANGED <<gateVars, st, mode, signal, claim, worked, runVars, events, stored, promptVars>>

-----------------------------------------------------------------------------
(* The controller *)

\* session.finalize(): nothing on a final session; otherwise the move, which
\* the state machine may refuse, and the event in any case.
Finalize(to) ==
    IF st \in Terminal
      THEN UNCHANGED <<st, events>>
      ELSE st' = Moved(st, to) /\ events' = events \union {to}

\* runHeadless after the exit: the envelope in stdout, the one streamed, or one
\* synthesized from what the session saw, unless the exit code is a non-zero
\* number.  With no claim the run fails and the row is not updated.
Collect ==
    /\ run = "waiting"
    /\ ~alive
    /\ \E inStdout \in BOOLEAN :
         LET synthesized == exitCode # "nonzero" /\ worked
         IN  IF claim \/ inStdout \/ synthesized
               THEN /\ run' = "verifying"
                    /\ claim' = (claim \/ inStdout)
                    /\ UNCHANGED <<st, events, outcome>>
               ELSE /\ Finalize("failed")
                    /\ run' = "returned"
                    /\ outcome' = "failed"
                    /\ UNCHANGED claim
    /\ UNCHANGED <<gateVars, mode, processVars, worked, verdict, stored, promptVars>>

\* Slip: the state of the session says whether the run passed.
Verified_ByState ==
    /\ run = "verifying"
    /\ \E passed \in BOOLEAN :
         /\ verdict' = IF passed THEN "passed" ELSE "failed"
         /\ Finalize(IF passed \/ claim THEN "completed" ELSE "failed")
         /\ outcome' = IF passed \/ st = "completed" THEN "completed" ELSE "failed"
    /\ stored' = st'
    /\ run' = "returned"
    /\ UNCHANGED <<gateVars, mode, processVars, claim, worked, promptVars>>

\* The verifier's answer: the session is finalized, its row updated, and the
\* strategy reports what the verifier said.
Verified ==
    /\ run = "verifying"
    /\ \E passed \in BOOLEAN :
         /\ verdict' = IF passed THEN "passed" ELSE "failed"
         /\ Finalize(IF passed THEN "completed" ELSE "failed")
         /\ outcome' = IF passed THEN "completed" ELSE "failed"
    /\ stored' = st'
    /\ run' = "returned"
    /\ UNCHANGED <<gateVars, mode, processVars, claim, worked, promptVars>>

\* Slip: the prompts of the session are left to the human.
Cancel_LeavePrompts ==
    /\ Running /\ mode # "none" /\ "cancelled" \notin events
    /\ IF mode = "interactive" /\ st # "starting"
         THEN life' = "killed" /\ signal' = "SIGTERM"
         ELSE UNCHANGED <<life, signal>>
    /\ st' = Moved(st, "cancelled")
    /\ stored' = st'
    /\ events' = events \union {"cancelled"}
    /\ active' = {}
    /\ UNCHANGED <<gateVars, mode, alive, exitCode, claim, worked, runVars, replies>>

\* Slip: the prompts are rejected before the process is killed, and the
\* process is left to its timers.
Cancel_NoKill ==
    /\ Running /\ mode # "none" /\ "cancelled" \notin events
    /\ st' = Moved(st, "cancelled")
    /\ stored' = st'
    /\ events' = events \union {"cancelled"}
    /\ Close({p \in active : pending[p] # {}}, "rejected", "rejected")
    /\ UNCHANGED <<mode, processVars, claim, worked, runVars, active, replies>>

\* cancelSession (API, or dispose() at shutdown): an interactive process gets a
\* SIGTERM, and the timer that would send SIGKILL looks for a lifecycle that
\* kill() has just changed; a headless one is not touched.  Then the state, and
\* the waiting prompts are rejected at the gate; their continuations run later.
Cancel ==
    /\ Running /\ mode # "none" /\ "cancelled" \notin events
    /\ IF mode = "interactive" /\ st # "starting"
         THEN life' = "killed" /\ signal' = IF signal = "none" THEN "SIGTERM" ELSE signal
         ELSE UNCHANGED <<life, signal>>
    /\ st' = Moved(st, "cancelled")
    /\ stored' = st'
    /\ events' = events \union {"cancelled"}
    /\ Close({p \in active : pending[p] # {}}, "rejected", "rejected")
    /\ UNCHANGED <<mode, alive, exitCode, claim, worked, runVars, active, replies>>

-----------------------------------------------------------------------------
(* The gate's own steps: the human, its timer, and clear() at shutdown. *)

GateStep ==
    /\ \/ \E p \in Prompts, d \in Decisions : Resolve(p, d)
       \/ \E p \in Prompts : Timeout(p)
       \/ Clear
    /\ UNCHANGED cliVars

NextCli ==
    \/ CreateUnsupported \/ StartHeadless \/ StartInteractive
    \/ PromptWritten \/ PromptFails
    \/ Output \/ ReportResult \/ StopHook
    \/ \E p \in Prompts : Prompt(p) \/ Answered(p)
    \/ IdleTimer \/ WallTimer \/ Exit
    \/ Collect \/ Verified \/ Cancel
    \/ GateStep

SpecCli == InitCli /\ [][NextCli]_allVars

\* Timers fire, promises continue, the verifier answers, no process survives
\* SIGKILL, and a write to a pipe whose reader is gone comes to an end.  A
\* process need not read, heed SIGTERM, print or exit.
FairCli ==
    /\ SpecCli
    /\ WF_allVars(WallTimer)
    /\ WF_allVars(Exit /\ signal = "SIGKILL")
    /\ WF_allVars(~alive /\ (PromptWritten \/ PromptFails))
    /\ WF_allVars(Collect)
    /\ WF_allVars(Verified)
    /\ \A p \in Prompts :
         /\ WF_allVars(Timeout(p) /\ UNCHANGED cliVars)
         /\ WF_allVars(Answered(p))

-----------------------------------------------------------------------------
(* Properties *)

\* State machine doc: "no outbound edges".  Whichever of the CLI's Stop hook,
\* the deadline, the user and the verifier comes first, the later ones do not
\* change a final state.
FinalStateStays == [][st' # st => st \notin Terminal]_allVars

\* A1, "the workflow layer never sees an unverified completed claim": neither
\* the event nor the strategy's outcome says completed unless the verifier
\* passed, whatever the CLI claimed and whatever state it put the session in.
CompletionIsVerified ==
    "completed" \in events \/ outcome = "completed" => verdict = "passed"

\* A tool the policy leaves to a human runs only on a human's word: every
\* `allow` was preceded by an approval of that prompt, and the ledger has it
\* unless SQLite failed.
AllowNeedsHuman ==
    \A p \in Prompts \ AutoPrompts :
        "allow" \in {replies[p][i] : i \in 1 .. Len(replies[p])}
            => /\ answer[p] = "approved"
               /\ faults = MaxFaults => row[p] = "approved"

\* The CLI is never taken at its word, neither about what it did nor about what
\* it may do.
NothingOnTrust == CompletionIsVerified /\ AllowNeedsHuman

\* Once the session is cancelled no permission reaches the process: neither a
\* late decision, nor one that raced the cancellation, nor the policy's.
NoAllowAfterCancel ==
    [][st = "cancelled" => replies' = replies]_allVars

\* A prompt raised before cancelSession is not left on a human's screen, nor a
\* human's later click taken for it: the slot closed with the session.
CancelClosesPrompts ==
    [][events' # events /\ "cancelled" \in events'
         => \A p \in active : answer'[p] \in Settled]_allVars

\* An end is an end: no later event changes the state, answers a prompt with a
\* permission or leaves one open.
EndIsFinal == FinalStateStays /\ NoAllowAfterCancel /\ CancelClosesPrompts

\* A headless run returns, even when the CLI does not read its prompt or hangs on
\* one that nobody can answer: the deadline kills it.  The one thing that may hold
\* the run up is a CLI that closed its stdin and outlives the SIGTERM it got for
\* that; once it ends the run returns.
HeadlessRunReturns ==
    run \in {"prompting", "waiting"} ~> run = "returned" \/ (alive /\ signal = "SIGTERM")

\* Statement of external-coding-cli-pty-adapter.ts:40, "Hard wall-clock deadline":
\* the process of a headless run does not live on for ever.
DeadlineIsHard == mode = "headless" /\ alive ~> ~alive

\* Statement of external-coding-cli-controller.ts:11-13, that verification runs
\* "BEFORE marking the session as `completed`" and a failure marks it `failed`.
CompletedStateIsVerified ==
    st = "completed" /\ mode = "headless" => verdict = "passed"

\* Statement of docs/design/external-coding-cli.md:42, "SIGTERM to SIGKILL": a
\* cancelled interactive process ends.
CancelledProcessEnds ==
    mode = "interactive" /\ st = "cancelled" ~> ~alive

\* Statement of external-coding-cli-controller.ts:470-471, that a killed process
\* gets no synthesized claim.
KilledIsNotSynthesized ==
    [][run' = "verifying" /\ run = "waiting" /\ ~claim' => signal = "none"]_allVars

\* The completed event comes with the completed state; a stalled session emits
\* the event and stays stalled.
CompletedEventHasState == "completed" \in events => st = "completed"

\* Each prompt is answered once.
AnsweredOnce == \A p \in Prompts : Len(replies[p]) <= 1

\* A decision a human made in time reaches the process that waits for it; after
\* two minutes of silence it does not, though the human has five.
DecisionIsDelivered ==
    [][\A p \in active : p \notin active' /\ mode = "interactive" /\ alive /\ st # "cancelled"
         /\ signal = "none" => replies'[p] # replies[p]]_allVars
=============================================================================
