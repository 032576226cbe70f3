SPECIFICATION FairSpec
CONSTANTS
    Producers = {p1, p2}
    Conns = {c1}
    None = None
    MaxNotes = 3
    MaxFaults = 2
INVARIANTS
    TypeOK
    LossCauses
    SentOnce
PROPERTY
    QueueDrains
CHECK_DEADLOCK TRUE
