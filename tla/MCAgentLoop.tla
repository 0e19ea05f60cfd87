---------------------------- MODULE MCAgentLoop ----------------------------
(* AgentLoop with batches that mix the kinds of calls: one over the limit of *)
(* a turn, one over the limit of the session in two turns, one whose         *)
(* violation is followed by a tool.                                          *)
EXTENDS AgentLoop

MCBatches ==
    {<<"tool", "denied", "tool">>, <<"violation", "tool">>,
     <<"delegate", "delegate">>, <<"consult", "tool">>, <<"consult", "consult">>}
=============================================================================
