CONSTANTS
    MaxTasks = 3
    Delays = {0, 1, 2}
    MaxTime = 3
SPECIFICATION FairSpec
INVARIANTS NeverOversleeps NeverEarly AtMostOnce
PROPERTY EveryTaskRuns
CHECK_DEADLOCK FALSE
