SPECIFICATION Spec
CONSTANTS
    Sessions = {1}
    Protocols = {p1}
    Cuts = {1}
    Metric <- MCMetric
    Measured <- MCMeasured
    Contents <- MCContents
    MaxRev = 0
    TestN = 1
    MaxLag = 1
    MinClass = 1
    CalibrationEnd = 0
    MaxTime = 3
    Absent = Absent
INVARIANTS
    ScoredBeforeContinuation
CHECK_DEADLOCK FALSE
