SPECIFICATION Spec
CONSTANTS
    Procs = {p1, p2}
    Pages <- MCPages
    Dirs = {raw, old}
    Sources <- MCSources
    Contents = {x, y}
    Written = {x}
    Declarations <- MCDeclarations
    MaxEdits = 1
    MaxRuns = 2
    Large = Large
    Absent = Absent
    Torn = Torn
    None = None
SYMMETRY MCSymmetry
CHECK_DEADLOCK FALSE
INVARIANTS
    TypeOK
    RetainedHeld
    RecordObserved
    QuietScanExact
