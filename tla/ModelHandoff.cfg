SPECIFICATION Spec
CONSTANTS
    Procs = {p1, p2}
    Dirs = {d1}
    Paths <- MCPaths
    Inside <- MCInside
    Contents <- MCContents
    FirstFiles <- MCFirstFiles
    Reads <- MCReads
    Unresolved = Unresolved
    Names = {n1}
    Bodies <- MCBodies
    MaxFacts = 2
    MaxFiles = 1
    MaxLog = 3
    MaxEdits = 1
    Absent = Absent
    Torn = Torn
    None = None
SYMMETRY MCSymmetry
CHECK_DEADLOCK FALSE
INVARIANTS
    LineageCommitted
    DecisionPrecedesState
    CommitsObserved
    LatestCarried
PROPERTY
    ImplementsLineage
