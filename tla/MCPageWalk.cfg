SPECIFICATION FairSpec
CONSTANTS
    Rows = {1, 2, 3}
    Keys = {0, 1}
    Offsets = {0, 1}
    Limits = {1, 2}
CHECK_DEADLOCK FALSE
INVARIANTS
    MissedOnlyByMovement
    RepeatedOnlyByMovement
    LostOnlyWhenRecordsLeft
PROPERTIES
    WalkEnds
