SPECIFICATION Spec
CONSTANTS
    Sessions = {2}
    Protocols = {p1, p2}
    Cuts = {2, 3}
    Metric <- MCMetric
    Measured <- MCMeasured
    Contents <- MCAllContents
    MaxRev = 1
    TestN = 1
    MaxLag = 1
    MinClass = 1
    CalibrationEnd = 0
    MaxTime = 5
    Absent = Absent
INVARIANTS
    EvaluationSound
    VerifierAgrees
PROPERTIES
    VerdictIsFinal
CHECK_DEADLOCK FALSE
