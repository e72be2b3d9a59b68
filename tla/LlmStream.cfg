SPECIFICATION FairSpec
CONSTANTS
    MaxBytes = 4
    MaxLine = 2
    MaxBody = 2
    PieceSize = 2
INVARIANTS
    EventsInOrder
    NothingLost
    OutcomeIsTrue
    WorkerJoined
PROPERTIES
    CallEnds
CHECK_DEADLOCK FALSE
