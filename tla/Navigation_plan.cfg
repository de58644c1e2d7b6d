\* Four by four cells, three messages of Filter; when they are used up all rest.
CONSTANTS
    GRID_NUM = 4
    GoalCell <- MCGoal
    Poses <- MCPoses
    Scans <- MCScans
    OBS_THRES = 1
    DIST_EPSILON = 1
    MaxData = 3
    MaxInFlight = 1
SPECIFICATION Spec
INVARIANTS TypeOK MapsAgree PathAhead
PROPERTIES RouteShortest ToldTheRoute
CHECK_DEADLOCK FALSE
