SPECIFICATION Spec
CONSTANTS
    u1 = u1
    u2 = u2
    r1 = r1
    r2 = r2
    Updaters = {u1, u2}
    Releases = {r1, r2}
    Old = Old
    Corrupt = Corrupt
    Part = Part
    None = None
    Exclusive = FALSE
PROPERTIES
    RejectionRestores
