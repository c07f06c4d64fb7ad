SPECIFICATION RunSpec
CONSTANTS
    Sessions = {1, 2}
    Protocols = {p1}
    Cuts = {2}
    Metric <- MCMetric
    Measured <- MCMeasured
    Contents <- MCContents
    MaxRev = 0
    TestN = 1
    MaxLag = 0
    MinClass = 0
    CalibrationEnd = 0
    MaxTime = 3
    Absent = Absent
    Torn = Torn
    Procs = {c1, c2}
CHECK_DEADLOCK FALSE
PROPERTIES
    UnlockWriteOnce
