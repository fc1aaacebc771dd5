CONSTANTS
    u1 = u1
    u2 = u2
    Users <- MCUsers
    Spots <- MCSpots
    MAX_ROOM_PLAYERS = 2
    MAX_INVENTORY = 2
    MAX_MAP_ITEMS = 2
    INITIAL_HP = 2
    HEALTH_RESTORE = 1
    InitialRadius = 2
    HIT = 1
    POISON = 1
    MaxTail = 2
    MaxPid = 3
    MaxOps = 4
    MaxCrashes = 1
SPECIFICATION BoundedSpec
CHECK_DEADLOCK FALSE
SYMMETRY Symmetry
INVARIANTS TypeOK TheLivingComeBack LogMirrorsGame TheDeadStayDead PoisonNeverCloser FinishedStaysFinished
