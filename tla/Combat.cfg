CONSTANTS
    p1 = p1
    p2 = p2
    p3 = p3
    None = None
    Players <- MCPlayers2
    Cells <- MCCells
    Beside <- MCBeside
    Near <- MCNear
    Ring <- MCRing
    SpawnCells <- MCSpawnCells
    Radius = 2
    MaxHp = 2
    BaseAtk = 3
    Def = 2
    Restore = 2
    Buff = 1
    MaxItems = 2
    MaxInventory = 1
    MinPlayers = 2
    PoisonDamage = 5
    TickMs = 50
SPECIFICATION BoundedSpec
CHECK_DEADLOCK FALSE
SYMMETRY Symmetry2
INVARIANTS TypeOK NoWalkingDead StatusFollowsPhase VerdictStands PlaceForItem ItemsCounted OnePotion
PROPERTY MatchSpec
