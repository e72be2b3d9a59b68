SPECIFICATION Spec
CONSTANTS
    k1 = k1
    k2 = k2
    Checkers = {k1, k2}
    Persisting = {k1, k2}
    Ttl = 2
    Timeout = 1
    MaxTime = 4
    MaxRelease = 2
SYMMETRY Alike
INVARIANTS
    CacheIsTrue
PROPERTIES
    AnswerIsRecent
    NeverGoesBack
