SPECIFICATION FairSpec
CONSTANTS
    MaxItems = 4
    MaxCalls = 2
INVARIANTS
    WholeFrames
    AnsweredOnce
    OkMeansAnswered
    PermitsMatch
    BoundedReadAhead
    InlineInOrder
PROPERTIES
    SessionReturns
    ParserEnds
CHECK_DEADLOCK FALSE
