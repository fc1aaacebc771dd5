CONSTANTS
    u1 = u1
    u2 = u2
    Users <- MCUsers
    MaxRoom = 2
    MaxCrashes = 2
    MinRoomPlayers = 2
    MaxRoomPlayers = 2
SPECIFICATION Spec
CHECK_DEADLOCK FALSE
SYMMETRY Symmetry
CONSTRAINT Followed
INVARIANTS EntriesLead EndedStayEnded LivingAreKept DeathsAreKept GamersHaveAGame
