SPECIFICATION Spec
CONSTANTS
    Nodes = {1, 2, 3, 4, 5}
    Evidence = {"e1", "e2"}
    Inputs <- MCInputs
    NoNode = NoNode
    Pending = Pending
    Refused = Refused
CHECK_DEADLOCK FALSE
INVARIANTS
    PathsExplain
    ShortestPaths
PROPERTIES
    ImplementsReopening
    Terminates
