CONSTANTS
    p1 = p1
    p2 = p2
    r1 = r1
    r2 = r2
    g1 = g1
    g2 = g2
    l1 = l1
    l2 = l2
    None = None
    Players <- MCPlayers
    Rooms <- MCRooms
    Goroutines <- MCGoroutines
    Loops <- MCLoops
    MinRoomPlayers = 2
    MaxRoomPlayers = 2
SPECIFICATION Spec
CHECK_DEADLOCK FALSE
SYMMETRY Symmetry
CONSTRAINT Followed
INVARIANTS CountAgrees NoDeadRoom SeatsAgree GamesRun
