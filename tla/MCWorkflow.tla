----------------------------- MODULE MCWorkflow -----------------------------
(* Workflow on plans of up to three steps.  Each plan is there for a case:   *)
(* see the comment on it.                                                    *)
EXTENDS Workflow

CONSTANTS a, b, c, p, q

MCSteps == {a, b, c, p, q}
MCWords == {a, b, c}

Blank ==
    [order |-> <<a>>, deps |-> [s \in MCSteps |-> {}],
     strategy |-> [s \in MCSteps |-> "llm-reasoning"],
     fallback |-> [s \in MCSteps |-> "none"], retries |-> [s \in MCSteps |-> 99],
     primaries |-> {}, rounds |-> 0, asks |-> {}, destructive |-> {},
     setting |-> "auto", long |-> FALSE, sub |-> FALSE]

\* two delegates and the comparison of their answers
Compare ==
    [Blank EXCEPT !.order = <<a, b, c>>, !.deps[c] = {a, b},
                  !.strategy[a] = "delegate-sub-agent", !.strategy[b] = "delegate-sub-agent"]
\* a question made up for two delegates
Quiz ==
    [Blank EXCEPT !.order = <<a, b, c>>, !.deps[b] = {a}, !.deps[c] = {a}, !.retries[b] = 0,
                  !.strategy[b] = "delegate-sub-agent", !.strategy[c] = "delegate-sub-agent"]
\* the comparison as a sub-task, which asks nobody
CompareBelow == [Compare EXCEPT !.sub = TRUE, !.setting = "always"]
\* one delegate, which gets the automatic fallback, and a budget that is clamped
Lone ==
    [Blank EXCEPT !.order = <<a, b>>, !.deps[b] = {a}, !.retries[a] = 5, !.long = TRUE,
                  !.strategy[a] = "delegate-sub-agent", !.fallback[a] = "human-input"]
\* a question to the user, a tool, and a delegate as a fallback
Ask ==
    [Blank EXCEPT !.order = <<a, b, c>>, !.deps[b] = {a}, !.deps[c] = {b},
                  !.strategy[a] = "human-input", !.strategy[b] = "direct-tool",
                  !.fallback[b] = "delegate-sub-agent", !.long = TRUE]
\* steps that change the user's machine
Mutate(s) == [Blank EXCEPT !.order = <<a, b>>, !.strategy[a] = s, !.destructive = {a}, !.long = TRUE]
\* a code-writing fallback behind a delegate
Behind == [Lone EXCEPT !.fallback[a] = "full-pipeline"]
\* a step that waits for one that is not in the plan, and one that does not
Stuck == [Blank EXCEPT !.order = <<a, b>>, !.deps[b] = {q}, !.strategy[b] = "delegate-sub-agent"]
\* the debate of two personas and its integrator
Debate ==
    [Blank EXCEPT !.order = <<p, q, c>>, !.deps[c] = {p, q}, !.primaries = {p, q}, !.rounds = 2,
                  !.strategy[p] = "delegate-sub-agent", !.strategy[q] = "delegate-sub-agent"]

MCPlans ==
    {Compare, Quiz, CompareBelow, Lone, Ask, Behind, Stuck, Debate,
     [Blank EXCEPT !.asks = {a}]}
    \union {Mutate(s) : s \in {"direct-tool", "full-pipeline", "external-coding-cli"}}
=============================================================================
