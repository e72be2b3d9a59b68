SPECIFICATION FairSpec
CONSTANTS
    c1 = c1
    c2 = c2
    Conns = {c1, c2}
    Holder = Holder
    None = None
    Versions <- MCVersions
    Script <- MCJournalScript
    MaxStmts = 2
    Listings <- MCListings
    Wal = FALSE
    Immediate = {c2}
PROPERTIES
    CallsReturn
