SPECIFICATION Spec
CONSTANTS
    Callers = {c1}
    MaxGenerations = 1
CHECK_DEADLOCK FALSE
PROPERTIES
    StopMarksStopped
