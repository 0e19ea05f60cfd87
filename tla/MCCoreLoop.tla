----------------------------- MODULE MCCoreLoop -----------------------------
(* One task of each of a few kinds, with a budget of a few attempts.        *)
EXTENDS CoreLoop

Kind(risk, calibrated, floor, domain, needsTools, mins) ==
    [risk |-> risk, calibrated |-> calibrated, floor |-> floor, reasoning |-> FALSE,
     needsTools |-> needsTools, domain |-> domain, mins |-> mins]

(* A plain task, and de-escalated, pinned, capped and production ones.     *)
MCTaskKinds ==
    {Kind(0, FALSE, 0, "other", FALSE, <<>>), Kind(2, TRUE, 0, "other", FALSE, <<>>),
     Kind(0, FALSE, 0, "other", FALSE, <<2>>), Kind(0, FALSE, 0, "other", FALSE, <<0>>),
     Kind(1, FALSE, 2, "other", FALSE, <<0>>), Kind(3, TRUE, 1, "inquire", FALSE, <<>>),
     [Kind(0, FALSE, 0, "conversational", TRUE, <<>>) EXCEPT !.reasoning = TRUE]}

=============================================================================
