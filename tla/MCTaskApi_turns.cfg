SPECIFICATION Spec
CONSTANTS
    Tasks = {1, 2, 3}
    chat = chat
    Sessions = {chat}
    Hidden = Hidden
    NoTask = NoTask
    Outcomes = {"input-required"}
    Faulty = {2}
CHECK_DEADLOCK FALSE
INVARIANT MessagesTakeTurns
