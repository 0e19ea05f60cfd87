SPECIFICATION FairApi
CONSTANTS
    Tasks = {1, 2, 3}
    chat = chat
    Sessions = {chat}
    Hidden = Hidden
    NoTask = NoTask
    Outcomes = {"input-required"}
    Faulty = {2}
INVARIANTS
    TypeOKApi
    StreamsTakeTurns
    BooksAgree
PROPERTIES
    ChainMoves
CHECK_DEADLOCK FALSE
