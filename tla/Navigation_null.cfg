\* As Navigation_plan, for the one property that fails.
CONSTANTS
    GRID_NUM = 4
    GoalCell <- MCGoal
    Poses <- MCPoses
    Scans <- MCScans
    OBS_THRES = 1
    DIST_EPSILON = 1
    MaxData = 3
    MaxInFlight = 1
SPECIFICATION Spec
INVARIANTS NeverNullList
CHECK_DEADLOCK FALSE
