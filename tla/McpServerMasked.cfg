SPECIFICATION Spec
CONSTANTS
    MaxItems = 4
    MaxCalls = 2
INVARIANTS
    FailureNotMasked
CHECK_DEADLOCK FALSE
