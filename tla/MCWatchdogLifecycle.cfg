SPECIFICATION FairSpec
CONSTANTS
    Callers = {c1, c2, c3}
    MaxGenerations = 3
CHECK_DEADLOCK FALSE
INVARIANTS
    AtMostOneWatcher
    RunningIsTruthful
    CancelStaysReachable
PROPERTIES
    StopEndsTheWatcher
