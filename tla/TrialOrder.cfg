SPECIFICATION Spec
CONSTANTS
    Sessions = {1, 2, 3}
    Protocols = {p1}
    Cuts = {2, 3}
    Metric <- MCMetric
    Measured <- MCMeasured
    Contents <- MCContents
    MaxRev = 0
    TestN = 2
    MaxLag = 0
    MinClass = 1
    CalibrationEnd = 0
    MaxTime = 3
    Absent = Absent
INVARIANTS
    TypeOK
    ChainsSelfValid
    BlackoutHolds
    FirstHandoffsEvaluated
PROPERTIES
    ImplementsSealedTrial
    ThresholdsFixed
    MissedWindowIsFinal
CHECK_DEADLOCK FALSE
