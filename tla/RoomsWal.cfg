CONSTANTS
    p1 = p1
    p2 = p2
    p3 = p3
    u1 = u1
    u2 = u2
    u3 = u3
    r1 = r1
    r2 = r2
    t1 = t1
    t2 = t2
    None = None
    Players <- MCPlayers2
    Users <- MCUsers2
    Rooms <- MCRooms2
    Threads <- MCThreads2
    MaxRooms = 2
    MinPlayers = 2
    MaxPlayers = 2
SPECIFICATION Spec
SYMMETRY Symmetry2
INVARIANT RunningGameIsLogged
