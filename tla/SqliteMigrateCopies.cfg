SPECIFICATION Spec
CONSTANTS
    c1 = c1
    c2 = c2
    Conns = {c1, c2}
    Holder = Holder
    None = None
    Versions <- MCVersions
    Script <- MCScript
    MaxStmts = 2
    Listings <- MCListings
    Wal = TRUE
    Immediate = {}
INVARIANTS
    ExactlyOneCopy
