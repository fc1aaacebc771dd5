CONSTANTS
    p1 = p1
    p2 = p2
    p3 = p3
    u1 = u1
    u2 = u2
    u3 = u3
    r1 = r1
    r2 = r2
    t1 = t1
    t2 = t2
    None = None
    Players <- MCPlayers2
    Users <- MCUsers2
    Rooms <- MCRooms1
    Threads <- MCThreads2
    MaxRooms = 1
    MinPlayers = 2
    MaxPlayers = 2
SPECIFICATION LiveSpec

PROPERTIES GamesEnd CommandsEnd
