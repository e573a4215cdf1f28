SPECIFICATION FairSpec
CONSTANTS
    Probes = {q1, q2}
    MaxOutages = 4
INVARIANTS TypeOK ReadyMeansServed OutageEndsOnlyAtHandover
PROPERTIES ReadinessNotUndone Recovers
CHECK_DEADLOCK FALSE
