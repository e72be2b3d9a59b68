SPECIFICATION Spec
CONSTANTS
    p1 = p1
    p2 = p2
    n1 = n1
    n2 = n2
    n3 = n3
    Procs = {p1, p2}
    Inodes = {n1, n2, n3}
    Old = Old
    Half = Half
    Part = Part
    None = None
    MaxWrites = 2
SYMMETRY Alike
INVARIANTS
    WholeFile
    DurableOk
PROPERTIES
    RemovesWhatItSaw
