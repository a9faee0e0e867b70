SPECIFICATION Spec
CONSTANTS
    d1 = d1
    d2 = d2
    c1 = c1
    c2 = c2
    c3 = c3
    c4 = c4
    c5 = c5
    Docs = {d1, d2}
    Chunks = {c1, c2, c3, c4, c5}
    MaxParagraphs = 3
    MaxSplit = 2
    MaxChunks = 1
    MaxFaults = 3
    Absent = Absent
    NoObject = NoObject
    NoDoc = NoDoc
SYMMETRY Symmetric
INVARIANTS MapsAgree Recoverable DamageReported
PROPERTY ImplementsAtomicWizards
CHECK_DEADLOCK FALSE
