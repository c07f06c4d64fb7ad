SPECIFICATION Spec
CONSTANTS
    Names = {"ann", "bob"}
    Keys = {"k1", "k2"}
    Trust <- MCTrust
    Actions = {"deploy", "read"}
    Runs = {"run", "other"}
    Evidence = {"e1", "e2"}
    Contents = {"x", "y"}
    Facts <- MCFacts
    Policies <- MCPolicies
    Second = 2
    Malformed = Malformed
    None = None
    Nodes = {"root", "mid", "aside", "c"}
    Inputs <- MCInputs
    Drafts <- MCDrafts
    Packs <- MCPacks
    Calls <- MCCalls
    FirstFiles = {"x"}
    MaxClaims = 1
    MaxClock = 1
    MaxLog = 2
    MaxDecisions = 2
    MaxEdits = 1
    Absent = Absent
CHECK_DEADLOCK FALSE
INVARIANTS
    TypeOK
    CommitEarned
    ContradictionRejects
    HandoffRests
    ImpactSound
PROPERTIES
    DissentIsFinal
