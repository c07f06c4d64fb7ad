\* Samples and calibrations of four to six sessions; real units, levels at and off a
\* dyadic boundary.
CONSTANTS
    SCALE = 1000000
    Fits <- MCFits
    Comparators <- MCComparators
    Samples <- MCSamples
    Inferences <- MCInferences
    MinClass = 2
    MaxSessions = 6
    MaxValue = 3
    None = None

SPECIFICATION Spec
INVARIANTS FitBest InferenceExact
CHECK_DEADLOCK FALSE
