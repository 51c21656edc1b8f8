SPECIFICATION LiveSpec
CONSTANTS
    Tasks = {t1, t2}
    Clients = {"full", "gateway", "off"}
    Tries = 2
    MaxReplies = 2
    MaxFaults = 2
CHECK_DEADLOCK FALSE
INVARIANTS
    TypeOK
    OneDeal
    NotedOnce
    ToldOnce
    ClosedStaysClosed
    WorkIsDated
PROPERTIES
    LetterIsTold
    DealIsTold
