CONSTANTS
    u1 = u1
    u2 = u2
    u3 = u3
    None = None
    Users <- MCUsers
    MAX_USERS = 3
    MaxRooms = 2
    MAX_RECOVERY_MAPPINGS = 2
    MaxCrashes = 1
SPECIFICATION Spec
CONSTRAINT Followed
CHECK_DEADLOCK FALSE
INVARIANTS SlotsAgree OneRoomPerGame NobodyLockedOut NobodyStranded AccountsSaved
PROPERTIES WaitEnds
