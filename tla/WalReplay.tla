------------------------------ MODULE WalReplay ------------------------------
(***************************************************************************)
(* What recovery.c makes of the files of one game: the records of the      *)
(* log, their replay one by one, the snapshot, and the .recovery file      *)
(* players are later restored from.  Operators only: Durability supplies   *)
(* the files.                                                              *)
(***************************************************************************)
EXTENDS Integers, Sequences, FiniteSets, SequencesExt

CONSTANTS Users,             \* user names
          MAX_ROOM_PLAYERS, MAX_INVENTORY, MAX_MAP_ITEMS,
          INITIAL_HP,        \* also max_hp, which nothing changes
          HEALTH_RESTORE,
          InitialRadius,     \* map_get_initial_poison_radius()
          Spots              \* places on the map

ASSUME ReplayAssumption ==
    /\ {MAX_ROOM_PLAYERS, MAX_INVENTORY, MAX_MAP_ITEMS} \subseteq Nat \ {0}
    /\ {INITIAL_HP, HEALTH_RESTORE, InitialRadius} \subseteq Nat \ {0}

NONE == 0
HEALTH == 1
ATTACK == 2
SHIELD == 3
ItemType == {HEALTH, ATTACK, SHIELD}

Slots == 1..MAX_INVENTORY
EmptyInventory == [k \in Slots |-> NONE]

\* What of a sequence is in a set, in its order.
Picked(s, Good) ==
    LET upTo[i \in 0..Len(s)] == IF i = 0 THEN << >>
                                 ELSE IF s[i] \in Good THEN Append(upTo[i - 1], s[i])
                                 ELSE upTo[i - 1]
    IN  upTo[Len(s)]

(***************************************************************************)
(* The records.  The log writes an inventory as all five slots, used or    *)
(* not.  ATTACK records and the names and times in the others change       *)
(* nothing that is replayed and are left out.                              *)
(***************************************************************************)
GameStart == [t |-> "GAME_START"]
Checkpoint == [t |-> "CHECKPOINT"]
GameEnd == [t |-> "GAME_END"]
Join(pid, u, p) == [t |-> "PLAYER_JOIN", pid |-> pid, user |-> u, pos |-> p.pos,
                    hp |-> p.hp, buff |-> p.buff, shield |-> p.shield, inv |-> p.inv]
Move(pid, pos) == [t |-> "MOVE", pid |-> pid, pos |-> pos]
Damage(pid, hp, broken) == [t |-> "DAMAGE", pid |-> pid, hp |-> hp, broken |-> broken]
Death(pid) == [t |-> "PLAYER_DEATH", pid |-> pid]
Pickup(pid, type, pos) == [t |-> "PICKUP", pid |-> pid, item |-> type, pos |-> pos]
UseItem(pid, type, idx) == [t |-> "USE_ITEM", pid |-> pid, item |-> type, idx |-> idx]
ItemSpawn(i) == [t |-> "ITEM_SPAWN", item |-> i.type, pos |-> i.pos]
PoisonShrink(radius) == [t |-> "POISON_SHRINK", radius |-> radius]

(***************************************************************************)
(* RecoveryState after memset() and one action per record type.            *)
(***************************************************************************)
\* Mutant of Blank: the radius as memset() leaves it.
BlankZero == [players |-> << >>, radius |-> 0, items |-> << >>]

Blank == [players |-> << >>, radius |-> InitialRadius, items |-> << >>]

\* The first player with this id: two may have it, see Durability.
FindPlayerIndex(s, pid) == SelectInSeq(s.players, LAMBDA p : p.id = pid)

FindUserIndex(s, u) == SelectInSeq(s.players, LAMBDA p : p.user = u)

OnPlayer(s, pid, Change(_)) ==
    LET i == FindPlayerIndex(s, pid)
    IN  IF i = 0 THEN s ELSE [s EXCEPT !.players[i] = Change(@)]

ParsePlayerJoin(s, r) ==
    LET i == FindUserIndex(s, r.user)
        p == [id |-> r.pid, user |-> r.user, pos |-> r.pos, hp |-> r.hp,
              buff |-> r.buff, shield |-> r.shield, status |-> "GAMING", inv |-> r.inv,
              cnt |-> Cardinality({k \in Slots : r.inv[k] # NONE})]
    IN  CASE i # 0 -> [s EXCEPT !.players[i] = p]
          [] i = 0 /\ Len(s.players) < MAX_ROOM_PLAYERS -> [s EXCEPT !.players = Append(@, p)]
          [] OTHER -> s

ParseMove(s, r) == OnPlayer(s, r.pid, LAMBDA p : [p EXCEPT !.pos = r.pos])

ParseDamage(s, r) ==
    OnPlayer(s, r.pid, LAMBDA p : [p EXCEPT !.hp = r.hp, !.shield = @ /\ ~r.broken])

ParsePlayerDeath(s, r) ==
    OnPlayer(s, r.pid, LAMBDA p : [p EXCEPT !.hp = 0, !.status = "DEAD"])

ParsePoisonShrink(s, r) == [s EXCEPT !.radius = r.radius]

ParseItemSpawn(s, r) ==
    IF Len(s.items) < MAX_MAP_ITEMS
    THEN [s EXCEPT !.items = Append(@, [pos |-> r.pos, type |-> r.item, active |-> TRUE])]
    ELSE s

\* The first active item of a table at a place, 0 if there is none.
ItemAt(table, pos) == SelectInSeq(table, LAMBDA i : i.active /\ i.pos = pos)

TakeFrom(table, n) == IF n = 0 THEN table ELSE [table EXCEPT ![n].active = FALSE]

\* Mutant of ParsePickup: the item stays on the map.
ParsePickupOnly(s, r) ==
    OnPlayer(s, r.pid, LAMBDA p : IF p.cnt < MAX_INVENTORY
                                  THEN [p EXCEPT !.inv[p.cnt + 1] = r.item, !.cnt = @ + 1] ELSE p)

ParsePickup(s, r) ==
    OnPlayer([s EXCEPT !.items = TakeFrom(@, ItemAt(@, r.pos))], r.pid,
             LAMBDA p : IF p.cnt < MAX_INVENTORY
                        THEN [p EXCEPT !.inv[p.cnt + 1] = r.item, !.cnt = @ + 1] ELSE p)

\* Slots idx.. move up; the slot that was last keeps what it held.
Shifted(inv, cnt, idx) == [k \in Slots |-> IF k >= idx /\ k < cnt THEN inv[k + 1] ELSE inv[k]]

Smaller(a, b) == IF a < b THEN a ELSE b

Effect(p, item) ==
    CASE item = HEALTH -> [p EXCEPT !.hp = Smaller(@ + HEALTH_RESTORE, INITIAL_HP)]
      [] item = ATTACK -> [p EXCEPT !.buff = TRUE]
      [] item = SHIELD -> [p EXCEPT !.shield = TRUE]

ParseUseItem(s, r) ==
    OnPlayer(s, r.pid, LAMBDA p : Effect(
        IF r.idx <= p.cnt
        THEN [p EXCEPT !.inv = Shifted(@, p.cnt, r.idx), !.cnt = @ - 1] ELSE p, r.item))

\* The patterns for poison_radius in a CHECKPOINT record never match what
\* snapshot_save() writes, where the room name stands before the radius:
\* the record changes nothing.  GAME_END does not get here: see ParseOk.
Apply(s, r) ==
    CASE r.t = "PLAYER_JOIN" -> ParsePlayerJoin(s, r)
      [] r.t = "MOVE" -> ParseMove(s, r)
      [] r.t = "DAMAGE" -> ParseDamage(s, r)
      [] r.t = "PLAYER_DEATH" -> ParsePlayerDeath(s, r)
      [] r.t = "POISON_SHRINK" -> ParsePoisonShrink(s, r)
      [] r.t = "ITEM_SPAWN" -> ParseItemSpawn(s, r)
      [] r.t = "PICKUP" -> ParsePickup(s, r)
      [] r.t = "USE_ITEM" -> ParseUseItem(s, r)
      [] OTHER -> s

(***************************************************************************)
(* A log is kept as what parse_wal_file() and wal_has_game_end() find in   *)
(* it: the state replayed, whether it has a record, and GAME_END.          *)
(***************************************************************************)
EmptyLog == [st |-> Blank, any |-> FALSE, ended |-> FALSE]

\* One turn of the loop of parse_wal_file().
Feed(log, r) == [st |-> Apply(log.st, r), any |-> TRUE,
                 ended |-> log.ended \/ r.t = "GAME_END"]

ParseOk(log) == log.any /\ ~log.ended

(***************************************************************************)
(* recovery_recover_room(): which file the state comes from, and what is   *)
(* left on the disk.  A .recovery file is the list of players with their   *)
(* status, the radius and the items that lie on the map.                   *)
(***************************************************************************)
Lives(p) == p.status = "GAMING" /\ p.hp > 0

Living(s) == {i \in DOMAIN s.players : Lives(s.players[i])}

OnTheMap(table) == Picked(table, {i \in ToSet(table) : i.active})

SaveRecoveryInfo(s) == [s EXCEPT !.items = OnTheMap(@)]

\* snapshot_load() writes the same file from the snapshot.
SnapshotLoad(snap) == SaveRecoveryInfo(snap)

\* The state the log yields; a snapshot, if there is one, overrules the
\* radius the log ends with.
FromWal(log, hasSnap, snap) ==
    IF hasSnap THEN [log.st EXCEPT !.radius = snap.radius] ELSE log.st

HasPlayerData(files, log) ==
    "wal" \in files /\ ParseOk(log) /\ log.st.players # << >>

NoInfo == Blank

\* Files left and the .recovery content after the recovery of one room.
RecoverRoom(files, log, snap) ==
    LET s == IF HasPlayerData(files, log)
             THEN SaveRecoveryInfo(FromWal(log, "snap" \in files, snap))
             ELSE SnapshotLoad(snap)
        rest == files \ {"recovery"}
    IN  IF ~HasPlayerData(files, log) /\ "snap" \notin files THEN [files |-> rest, info |-> NoInfo]
        ELSE IF Cardinality(Living(s)) <= 1 THEN [files |-> rest \ {"wal", "snap"}, info |-> NoInfo]
        ELSE [files |-> rest \cup {"recovery"}, info |-> s]

\* recovery_list_recoverable_rooms() for this room.
Recoverable(files, log) ==
    /\ files \cap {"wal", "snap"} # {}
    /\ ~ ("wal" \in files /\ log.ended)

\* What the disk holds after a start of the server: nothing changes for a
\* room that is not listed, its old .recovery file included.
CheckAndRecover(files, log, snap, info) ==
    IF Recoverable(files, log) THEN RecoverRoom(files, log, snap)
    ELSE [files |-> files, info |-> info]

\* The users recovery_check_player() finds alive in a .recovery file.
MayReturn(files, info) ==
    IF "recovery" \in files
    THEN {info.players[i].user : i \in Living(info)} ELSE {}

=============================================================================
