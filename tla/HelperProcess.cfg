SPECIFICATION FairSpec
CONSTANTS
    Limit = 1
    PipeSize = 1
    MaxPieces = 2
INVARIANTS
    OutcomeIsTrue
    StopsTree
    NoStraySignal
PROPERTIES
    CallReturns
CHECK_DEADLOCK FALSE
