CONSTANTS
    p1 = p1
    p2 = p2
    p3 = p3
    u1 = u1
    u2 = u2
    u3 = u3
    r1 = r1
    r2 = r2
    t1 = t1
    t2 = t2
    None = None
    Players <- MCPlayers3
    Users <- MCUsers3
    Rooms <- MCRooms2
    Threads <- MCThreads1
    MaxRooms = 2
    MinPlayers = 2
    MaxPlayers = 2
SPECIFICATION Spec
SYMMETRY Symmetry3
INVARIANTS TypeOK SlotsAgree StatusAgrees UsersDistinct NoEmptyRoom
PROPERTY LobbySpec
