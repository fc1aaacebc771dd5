------------------------- MODULE Durability_proofs -------------------------
(***************************************************************************)
(* What holds of a game's files for any number of players, places, items,  *)
(* commands and crashes.                                                   *)
(***************************************************************************)
EXTENDS Durability, WalReplay_proofs

-----------------------------------------------------------------------------
(***************************************************************************)
(* The types: of the memory, of the steps the threads are in and of what   *)
(* the disk holds.                                                         *)
(***************************************************************************)

\* The records that are written in a row.
JoinSet == [t : {"PLAYER_JOIN"}, pid : Nat, user : Users, pos : Places, hp : Health,
            buff : BOOLEAN, shield : BOOLEAN, inv : Inventory]
SpawnSet == [t : {"ITEM_SPAWN"}, item : ItemType, pos : Places]
ShrinkSet == [t : {"POISON_SHRINK"}, radius : 1..InitialRadius]
TodoSet == {GameStart, Checkpoint} \cup JoinSet \cup SpawnSet \cup ShrinkSet

MainType ==
    {Idle} \cup [pc : {"move"}, u : Users, to : Spots]
           \cup [pc : {"pickup"}, u : Users, item : ItemType]
           \cup [pc : {"used", "effect"}, u : Users, item : ItemType, idx : Slots]
           \cup [pc : {"hit"}, u : Users]
           \cup [pc : {"seat", "state", "record"}, u : Users, pid : 1..MaxPid]

\* The steps the threads are in: a player about to get an item has a place for it,
\* one who comes back is not in the room yet and is alive in the .recovery file.
Locals ==
    /\ main \in MainType /\ sc \in {"idle", "collected", "writing"}
    /\ todo \in [by : {"none", "main", "game"}, recs : Seq(TodoSet)]
    /\ items \in [1..MAX_MAP_ITEMS -> MapItem]
    /\ main.pc = "pickup" => Len(pl[main.u].inv) < MAX_INVENTORY
    /\ main.pc = "seat" => main.u \notin InRoom
    /\ main.pc \in {"seat", "state", "record"} /\ phase \in {"creating", "recovered", "running"} =>
         main.u \in MayReturn(files, info)
    /\ phase \in {"waiting", "starting", "down", "none"} => main = Idle

Disk == /\ log \in Seq(LogType) /\ Len(log) > 0
        /\ snap \in Replayed /\ info \in Replayed

Types == TypeOK /\ Locals /\ Disk

\* What the assumptions say of the constants, as the proofs use it.
LEMMA NumbersOfGame ==
    /\ HIT \in Nat /\ POISON \in Nat /\ MaxTail \in Nat /\ MaxPid \in Nat
    /\ HIT > 0 /\ POISON > 0 /\ MaxTail > 0 /\ MaxPid > 0
    /\ IsFiniteSet(Users) /\ Cardinality(Users) \in Nat
    /\ 2 <= Cardinality(Users) /\ Cardinality(Users) <= MAX_ROOM_PLAYERS
    /\ Cardinality(Users) <= MaxPid
    /\ Spots \subseteq Nat
BY DurabilityAssumption, Numbers

\* The records of a row are well formed.
LEMMA TodoOK == ASSUME NEW r \in TodoSet PROVE RecordOK(r)
<1>1. CASE r \in JoinSet
  BY <1>1 DEF JoinSet, RecordOK
<1>2. CASE r \in SpawnSet
  BY <1>2 DEF SpawnSet, RecordOK
<1>3. CASE r \in ShrinkSet
  BY <1>3 DEF ShrinkSet, RecordOK
<1>4. CASE r \in {GameStart, Checkpoint}
  BY <1>4 DEF GameStart, Checkpoint, RecordOK
<1> QED BY <1>1, <1>2, <1>3, <1>4 DEF TodoSet

\* The record with which a player enters the log.
LEMMA JoinType ==
    ASSUME NEW pid \in Nat, NEW u \in Users, NEW p,
           p.pos \in Places, p.hp \in Health, p.buff \in BOOLEAN, p.shield \in BOOLEAN,
           p.inv \in Inventory
    PROVE  Join(pid, u, p) \in JoinSet
BY DEF Join, JoinSet

\* The rows of records that describe players and items.
LEMMA JoinsType ==
    ASSUME NEW ps \in Seq(ReplayPlayer)
    PROVE  Joins(ps) \in Seq(JoinSet) /\ Len(Joins(ps)) = Len(ps)
             /\ \A i \in 1..Len(ps) : Joins(ps)[i] = Join(ps[i].id, ps[i].user, ps[i])
<1>1. \A i \in 1..Len(ps) : Join(ps[i].id, ps[i].user, ps[i]) \in JoinSet
  <2> TAKE i \in 1..Len(ps)
  <2>1. ps[i] \in ReplayPlayer
    OBVIOUS
  <2> QED BY <2>1, JoinType DEF ReplayPlayer
<1> QED BY <1>1 DEF Joins

\* A row of ITEM_SPAWN records has one for each item on the map.
LEMMA SpawnsType ==
    ASSUME NEW is \in Seq(MapItem), Len(is) <= MAX_MAP_ITEMS
    PROVE  Spawns(is) \in Seq(SpawnSet) /\ Len(Spawns(is)) = Len(OnTheMap(is))
             /\ \A i \in 1..Len(OnTheMap(is)) : Spawns(is)[i] = ItemSpawn(OnTheMap(is)[i])
<1> DEFINE on == OnTheMap(is)
<1>1. on \in Seq(MapItem) /\ \A i \in 1..Len(on) : on[i].active
  BY OnTheMapType
<1> HIDE DEF on
<1>2. \A i \in 1..Len(on) : ItemSpawn(on[i]) \in SpawnSet
  <2> TAKE i \in 1..Len(on)
  <2>1. on[i] \in MapItem /\ on[i].active
    BY <1>1
  <2> QED BY <2>1 DEF MapItem, ItemSpawn, SpawnSet
<1>3. Spawns(is) = [i \in DOMAIN on |-> ItemSpawn(on[i])]
  BY DEF Spawns, on
<1>4. Spawns(is) \in Seq(SpawnSet) /\ Len(Spawns(is)) = Len(on)
        /\ \A i \in 1..Len(on) : Spawns(is)[i] = ItemSpawn(on[i])
  BY <1>1, <1>2, <1>3
<1> QED BY <1>4 DEF on

\* A write leaves a log.
LEMMA WriteType ==
    ASSUME Disk, NEW r, RecordOK(r)
    PROVE  /\ Last(log) \in LogType /\ Last(log) = log[Len(log)] /\ Len(log) \in DOMAIN log
           /\ Feed(Last(log), r) \in LogType
           /\ WalWrite(r) => log' \in Seq(LogType) /\ Len(log') > 0
           /\ WriteSynced(r) => log' \in Seq(LogType) /\ Len(log') > 0
           /\ WalSync => log' \in Seq(LogType) /\ Len(log') > 0
           /\ NewLog => log' \in Seq(LogType) /\ Len(log') > 0
           /\ KeepLog => log' \in Seq(LogType) /\ Len(log') > 0
<1>1. log \in Seq(LogType) /\ Len(log) > 0
  BY DEF Disk
<1>2. Last(log) \in LogType /\ Last(log) = log[Len(log)] /\ Len(log) \in DOMAIN log
  BY <1>1 DEF Last
<1>3. Feed(Last(log), r) \in LogType
  BY <1>2, FeedType
<1>4. WalWrite(r) \/ WriteSynced(r) => log' \in Seq(LogType) /\ Len(log') > 0
  <2> DEFINE f == Feed(Last(log), r)
  <2>1. f \in LogType
    BY <1>3
  <2>4. WalWrite(r) \/ WriteSynced(r) => log' = <<f>> \/ log' = Append(log, f)
    BY DEF WalWrite, WriteSynced
  <2> HIDE DEF f
  <2>2. Append(log, f) \in Seq(LogType) /\ Len(Append(log, f)) = Len(log) + 1
    BY <1>1, <2>1
  <2>3. <<f>> \in Seq(LogType) /\ Len(<<f>>) = 1
    BY <2>1
  <2> SUFFICES ASSUME WalWrite(r) \/ WriteSynced(r)
               PROVE  log' \in Seq(LogType) /\ Len(log') > 0
    OBVIOUS
  <2>5. CASE log' = <<f>>
    BY <2>3, <2>5
  <2>6. CASE log' = Append(log, f)
    BY <1>1, <2>2, <2>6
  <2> QED BY <2>4, <2>5, <2>6
<1>5. WalSync \/ NewLog => log' \in Seq(LogType) /\ Len(log') > 0
  <2> DEFINE l == Last(log)
             e == EmptyLog
  <2>1. l \in LogType /\ e \in LogType
    BY <1>2, EmptyLogType
  <2>3. WalSync \/ NewLog => log' = <<l>> \/ log' = <<e>>
    BY DEF WalSync, NewLog
  <2> HIDE DEF l, e
  <2>2. /\ <<l>> \in Seq(LogType) /\ Len(<<l>>) = 1
        /\ <<e>> \in Seq(LogType) /\ Len(<<e>>) = 1
    BY <2>1
  <2>4. CASE log' = <<l>>
    BY <2>2, <2>4
  <2>5. CASE log' = <<e>>
    BY <2>2, <2>5
  <2> QED BY <2>3, <2>4, <2>5
<1>6. KeepLog => log' \in Seq(LogType) /\ Len(log') > 0
  BY <1>1 DEF KeepLog
<1> QED BY <1>2, <1>3, <1>4, <1>5, <1>6

-----------------------------------------------------------------------------
(* Who is where. *)

\* No user has two seats, so the room is never over its size.
LEMMA SeatsFit ==
    ASSUME TypeOK
    PROVE  Len(seats) <= Cardinality(Users)
<1>1. seats \in Seq(Users) /\ IsInjective(seats) /\ DOMAIN seats = 1..Len(seats)
        /\ Len(seats) \in Nat
  BY DEF TypeOK
<1>2. seats \in Injection(1..Len(seats), Users)
  BY <1>1 DEF Injection, IsInjective
<1>3. Cardinality(1..Len(seats)) <= Cardinality(Users)
  BY <1>2, NumbersOfGame, FS_Injection
<1> QED BY <1>1, <1>3, Counting

\* A user's player in memory is within its bounds.
PlayerOK(p) == p \in PlayerType /\ p.hp <= INITIAL_HP /\ Len(p.inv) <= MAX_INVENTORY

\* A player just connected is within the limits.
LEMMA FreshOK == ASSUME NEW pid \in 0..MaxPid PROVE PlayerOK(Fresh(pid))
<1>1. << >> \in Seq(ItemType) /\ Len(<< >>) = 0
  OBVIOUS
<1> QED BY <1>1, Numbers DEF PlayerOK, Fresh, PlayerType

\* What the snapshot and the records of a start of the game say of him.
LEMMA SavedType ==
    ASSUME NEW u \in Users, PlayerOK(pl[u])
    PROVE  /\ Saved(u) \in ReplayPlayer /\ Saved(u).user = u /\ Saved(u).id = pl[u].pid
           /\ Saved(u).pos = pl[u].pos /\ Saved(u).hp = pl[u].hp
           /\ Saved(u).buff = pl[u].buff /\ Saved(u).shield = pl[u].shield
           /\ Saved(u).status = pl[u].status
           /\ Saved(u).inv = Raw(pl[u].inv) /\ Saved(u).cnt = Len(pl[u].inv)
<1>1. pl[u].inv \in Seq(ItemType) /\ Len(pl[u].inv) \in 0..MAX_INVENTORY
  BY Numbers DEF PlayerOK, PlayerType
<1>2. Raw(pl[u].inv) \in Inventory
  BY <1>1 DEF Raw, Inventory, Slots
<1>3. /\ pl[u].pid \in Nat /\ pl[u].pos \in Places /\ pl[u].hp \in Health
      /\ pl[u].buff \in BOOLEAN /\ pl[u].shield \in BOOLEAN
      /\ pl[u].status \in {"LOBBY", "GAMING", "DEAD"}
  BY NumbersOfGame DEF PlayerOK, PlayerType, Places, Health
<1> HIDE DEF Inventory
<1> QED BY <1>1, <1>2, <1>3 DEF Saved, ReplayPlayer

\* The snapshot of the room.
LEMMA SnapshotType ==
    ASSUME TypeOK, Locals
    PROVE  /\ [players |-> [i \in DOMAIN seats |-> Saved(seats[i])],
               radius |-> radius, items |-> items] \in Replayed
           /\ items \in Seq(MapItem) /\ Len(items) = MAX_MAP_ITEMS
<1>1. seats \in Seq(Users) /\ DOMAIN seats = 1..Len(seats) /\ Len(seats) \in Nat
  BY DEF TypeOK
<1>2. \A u \in Users : PlayerOK(pl[u])
  BY DEF TypeOK, PlayerOK
<1>3. \A i \in DOMAIN seats : Saved(seats[i]) \in ReplayPlayer
  BY <1>1, <1>2, SavedType
<1> DEFINE ps == [i \in DOMAIN seats |-> Saved(seats[i])]
<1>4. ps \in Seq(ReplayPlayer) /\ Len(ps) = Len(seats)
  BY <1>1, <1>3
<1>5. Len(ps) <= MAX_ROOM_PLAYERS
  BY <1>1, <1>4, SeatsFit, NumbersOfGame, Numbers
<1>6. items \in Seq(MapItem) /\ Len(items) = MAX_MAP_ITEMS
  BY Numbers DEF Locals
<1>7. radius \in 1..InitialRadius
  BY DEF TypeOK
<1> HIDE DEF ps
<1>8. [players |-> ps, radius |-> radius, items |-> items] \in Replayed
  BY <1>4, <1>5, <1>6, <1>7, Numbers DEF Replayed
<1> QED BY <1>6, <1>8 DEF ps

\* What a .recovery file says of a user who may return.
LEMMA RecordType ==
    ASSUME info \in Replayed, NEW u \in MayReturn(files, info)
    PROVE  /\ "recovery" \in files
           /\ Record(u) \in ReplayPlayer /\ Record(u).user = u /\ Lives(Record(u))
           /\ \E i \in 1..Len(info.players) : Record(u) = info.players[i]
<1>1. info.players \in Seq(ReplayPlayer) /\ DOMAIN info.players = 1..Len(info.players)
        /\ Len(info.players) \in Nat
  BY DEF Replayed
<1> DEFINE I == {i \in 1..Len(info.players) :
                   info.players[i].user = u /\ Lives(info.players[i])}
<1>2. "recovery" \in files /\ I # {}
  BY <1>1 DEF MayReturn, Living
<1>3. Record(u) = info.players[Min(I)]
  BY <1>2 DEF Record, SelectInSeq
<1>4. I \subseteq Nat /\ I \subseteq 1..Len(info.players)
  BY <1>1
<1>5. Min(I) \in I
  <2> HIDE DEF I
  <2> QED BY <1>2, <1>4, Least
<1>6. PICK i \in 1..Len(info.players) :
         /\ info.players[i].user = u /\ Lives(info.players[i])
         /\ Record(u) = info.players[i]
  BY <1>3, <1>5
<1>7. info.players[i] \in ReplayPlayer
  BY <1>1
<1> QED BY <1>2, <1>6, <1>7

-----------------------------------------------------------------------------
(***************************************************************************)
(* The rows of records.                                                    *)
(***************************************************************************)
\* A row of the start or of a snapshot, and the zone at its end.
Row(first, js, ss) == <<first>> \o js \o ss

\* A row of records ends, if at all, with the radius of the zone.
LEMMA RowType ==
    ASSUME NEW first \in {GameStart, Checkpoint}, NEW js \in Seq(JoinSet),
           NEW ss \in Seq(SpawnSet), NEW r \in 1..InitialRadius
    PROVE  /\ Row(first, js, ss) \in Seq(TodoSet)
           /\ Row(first, js, ss) \o <<PoisonShrink(r)>> \in Seq(TodoSet)
           /\ \A i \in 1..Len(Row(first, js, ss)) : Row(first, js, ss)[i].t # "POISON_SHRINK"
           /\ \A i \in 1..Len(Row(first, js, ss) \o <<PoisonShrink(r)>>) :
                (Row(first, js, ss) \o <<PoisonShrink(r)>>)[i].t = "POISON_SHRINK" =>
                    (Row(first, js, ss) \o <<PoisonShrink(r)>>)[i].radius = r
<1> DEFINE Plain == {GameStart, Checkpoint} \cup JoinSet \cup SpawnSet
           z == PoisonShrink(r)
<1>1. \A x \in Plain : x.t # "POISON_SHRINK"
  BY DEF GameStart, Checkpoint, JoinSet, SpawnSet
<1>2. z \in ShrinkSet /\ z.radius = r
  BY DEF ShrinkSet, PoisonShrink
<1>3. Plain \subseteq TodoSet /\ ShrinkSet \subseteq TodoSet
  BY DEF TodoSet
<1>4. js \in Seq(Plain) /\ ss \in Seq(Plain) /\ <<first>> \in Seq(Plain)
  OBVIOUS
<1> HIDE DEF Plain, z
<1>5. <<first>> \o js \in Seq(Plain)
  BY <1>4
<1> DEFINE row == Row(first, js, ss)
<1>6. row \in Seq(Plain)
  BY <1>4, <1>5 DEF Row
<1> HIDE DEF row
<1>7. row \in Seq(TodoSet) /\ \A i \in 1..Len(row) : row[i].t # "POISON_SHRINK"
  BY <1>1, <1>3, <1>6
<1>8. <<z>> \in Seq(TodoSet) /\ Len(<<z>>) = 1 /\ <<z>>[1] = z
  BY <1>2, <1>3
<1> DEFINE one == <<z>>
<1>9. one \in Seq(TodoSet) /\ Len(one) = 1 /\ one[1] = z
  BY <1>8
<1> HIDE DEF one
<1>10. row \o one \in Seq(TodoSet) /\ Len(row \o one) = Len(row) + 1
         /\ \A i \in 1..Len(row) + 1 : (row \o one)[i] = IF i <= Len(row) THEN row[i] ELSE z
  <2> HIDE DEF TodoSet
  <2>1. row \in Seq(TodoSet) /\ one \in Seq(TodoSet)
    BY <1>7, <1>9
  <2>2. row \o one \in Seq(TodoSet) /\ Len(row \o one) = Len(row) + Len(one)
    BY <2>1
  <2>3. ASSUME NEW i \in 1..Len(row) + 1
        PROVE  (row \o one)[i] = IF i <= Len(row) THEN row[i] ELSE z
    <3>1. (row \o one)[i] = IF i <= Len(row) THEN row[i] ELSE one[i - Len(row)]
      <4>1. i \in 1..Len(row) + Len(one)
        BY <1>9
      <4> QED BY <2>1, <4>1
    <3>2. i <= Len(row) \/ i - Len(row) = 1
      <4>1. Len(row) \in Nat
        BY <2>1
      <4> QED BY <4>1
    <3> QED BY <3>1, <3>2, <1>9
  <2> QED BY <2>2, <2>3, <1>9
<1>11. ASSUME NEW i \in 1..Len(row \o one), (row \o one)[i].t = "POISON_SHRINK"
       PROVE  (row \o one)[i].radius = r
  <2>1. i \in 1..Len(row) + 1
    BY <1>10
  <2>2. (row \o one)[i] = IF i <= Len(row) THEN row[i] ELSE z
    BY <1>10, <2>1
  <2>3. i <= Len(row) => i \in 1..Len(row)
    BY <2>1
  <2> QED BY <1>2, <1>7, <1>11, <2>2, <2>3
<1> QED BY <1>7, <1>10, <1>11 DEF row, one, z

\* The row room_start_game() writes: what the players are from now on.
LEMMA StartRow ==
    ASSUME Types, StartGame, items' \in [1..MAX_MAP_ITEMS -> MapItem]
    PROVE  /\ \E js \in Seq(JoinSet) :
                /\ todo' = [by |-> "main", recs |-> Row(GameStart, js, Spawns(items'))]
                /\ Len(js) = Len(seats)
                /\ \A i \in 1..Len(seats) :
                     js[i] = [t |-> "PLAYER_JOIN", pid |-> pl'[seats[i]].pid, user |-> seats[i],
                              pos |-> pl'[seats[i]].pos, hp |-> pl'[seats[i]].hp,
                              buff |-> pl'[seats[i]].buff, shield |-> pl'[seats[i]].shield,
                              inv |-> Raw(pl'[seats[i]].inv)]
           /\ Spawns(items') \in Seq(SpawnSet)
           /\ todo' \in [by : {"none", "main", "game"}, recs : Seq(TodoSet)]
           /\ \A i \in 1..Len(todo'.recs) : todo'.recs[i].t # "POISON_SHRINK"
<1>0. TypeOK /\ \A u \in Users : PlayerOK(pl[u])
  BY DEF Types, TypeOK, PlayerOK
<1>1. PICK place \in [Users -> Spots] :
        pl' = [u \in Users |-> [pl[u] EXCEPT !.pos = place[u], !.status = "GAMING"]]
  BY DEF StartGame
<1> DEFINE js == [i \in DOMAIN seats |->
                    Join(pl[seats[i]].pid, seats[i],
                         [Saved(seats[i]) EXCEPT !.pos = pl'[seats[i]].pos])]
           ss == Spawns(items')
<1>2. seats \in Seq(Users) /\ DOMAIN seats = 1..Len(seats) /\ Len(seats) \in Nat
  BY <1>0 DEF TypeOK
<1>3. ASSUME NEW u \in Users
      PROVE  /\ pl'[u].pos \in Places /\ pl'[u].pid = pl[u].pid /\ pl'[u].hp = pl[u].hp
             /\ pl'[u].buff = pl[u].buff /\ pl'[u].shield = pl[u].shield /\ pl'[u].inv = pl[u].inv
  BY <1>0, <1>1 DEF Places, PlayerOK, PlayerType
<1>4. ASSUME NEW i \in 1..Len(seats)
      PROVE  /\ js[i] \in JoinSet
             /\ js[i] = [t |-> "PLAYER_JOIN", pid |-> pl'[seats[i]].pid, user |-> seats[i],
                         pos |-> pl'[seats[i]].pos, hp |-> pl'[seats[i]].hp,
                         buff |-> pl'[seats[i]].buff, shield |-> pl'[seats[i]].shield,
                         inv |-> Raw(pl'[seats[i]].inv)]
  <2> DEFINE u == seats[i]
             q == [Saved(u) EXCEPT !.pos = pl'[u].pos]
  <2>1. u \in Users
    BY <1>2
  <2>2. /\ Saved(u) \in ReplayPlayer /\ pl[u].pid \in Nat /\ Saved(u).hp = pl[u].hp
        /\ Saved(u).buff = pl[u].buff /\ Saved(u).shield = pl[u].shield
        /\ Saved(u).inv = Raw(pl[u].inv)
    BY <1>0, <2>1, SavedType DEF PlayerOK, PlayerType
  <2>3. /\ q.pos = pl'[u].pos /\ q.hp = Saved(u).hp /\ q.buff = Saved(u).buff
        /\ q.shield = Saved(u).shield /\ q.inv = Saved(u).inv
    BY <2>2 DEF ReplayPlayer
  <2>4. /\ q.pos \in Places /\ q.hp \in Health /\ q.buff \in BOOLEAN
        /\ q.shield \in BOOLEAN /\ q.inv \in Inventory
    BY <2>1, <2>2, <2>3, <1>3 DEF ReplayPlayer
  <2>5. js[i] = Join(pl[u].pid, u, q)
    BY <1>2
  <2> HIDE DEF u, q, js
  <2>6. Join(pl[u].pid, u, q) \in JoinSet
    BY <2>1, <2>2, <2>4, JoinType
  <2>7. Join(pl[u].pid, u, q) =
          [t |-> "PLAYER_JOIN", pid |-> pl'[u].pid, user |-> u,
           pos |-> pl'[u].pos, hp |-> pl'[u].hp, buff |-> pl'[u].buff,
           shield |-> pl'[u].shield, inv |-> Raw(pl'[u].inv)]
    <3>1. /\ q.pos = pl'[u].pos /\ q.hp = pl'[u].hp /\ q.buff = pl'[u].buff
          /\ q.shield = pl'[u].shield /\ q.inv = Raw(pl'[u].inv) /\ pl[u].pid = pl'[u].pid
      BY <2>1, <2>2, <2>3, <1>3
    <3> QED BY <3>1 DEF Join
  <2> QED BY <2>5, <2>6, <2>7 DEF u
<1>5. js \in Seq(JoinSet) /\ Len(js) = Len(seats)
  <2>1. \A i \in 1..Len(seats) : js[i] \in JoinSet
    BY <1>4
  <2> QED BY <1>2, <2>1
<1>6. items' \in Seq(MapItem) /\ Len(items') = MAX_MAP_ITEMS
  BY Numbers
<1>7. ss \in Seq(SpawnSet)
  <2> DEFINE it == items'
  <2>1. it \in Seq(MapItem) /\ Len(it) <= MAX_MAP_ITEMS /\ ss = Spawns(it)
    BY <1>6, Numbers
  <2> HIDE DEF it, ss
  <2> QED BY <2>1, SpawnsType
<1>8. todo' = [by |-> "main", recs |-> Row(GameStart, js, ss)]
  BY DEF StartGame, Row
<1> HIDE DEF js
<1>9. 1 \in 1..InitialRadius
  BY Numbers
<1>10. Row(GameStart, js, ss) \in Seq(TodoSet)
        /\ \A i \in 1..Len(Row(GameStart, js, ss)) : Row(GameStart, js, ss)[i].t # "POISON_SHRINK"
  <2> HIDE DEF ss
  <2> QED BY <1>5, <1>7, <1>9, RowType
<1>11. todo' \in [by : {"none", "main", "game"}, recs : Seq(TodoSet)]
  <2> HIDE DEF ss, TodoSet
  <2> QED BY <1>8, <1>10
<1>12. todo'.recs = Row(GameStart, js, ss)
  BY <1>8
<1> QED BY <1>4, <1>5, <1>7, <1>8, <1>10, <1>11, <1>12

\* The row recovery_create_room_for_game() writes: those who live in the .recovery file.
LEMMA LoginRow ==
    ASSUME Types, NEW u \in Users, NEW pid \in 1..MaxPid, Login(u, pid), phase # "running"
    PROVE  LET living == Picked(info.players, {p \in ToSet(info.players) : Lives(p)})
           IN  /\ living \in Seq(ReplayPlayer)
               /\ Joins(living) \in Seq(JoinSet) /\ Spawns(info.items) \in Seq(SpawnSet)
               /\ todo' = [by |-> "main",
                           recs |-> Row(GameStart, Joins(living), Spawns(info.items))
                                      \o <<PoisonShrink(info.radius)>>]
               /\ todo' \in [by : {"none", "main", "game"}, recs : Seq(TodoSet)]
               /\ \A i \in 1..Len(todo'.recs) :
                    todo'.recs[i].t = "POISON_SHRINK" => todo'.recs[i].radius = info.radius
<1> DEFINE living == Picked(info.players, {p \in ToSet(info.players) : Lives(p)})
           js == Joins(living)
           ss == Spawns(info.items)
           recs == Row(GameStart, js, ss) \o <<PoisonShrink(info.radius)>>
<1>1. todo' = [by |-> "main", recs |-> recs]
  BY DEF Login, Row
<1>2. info \in Replayed
  BY DEF Types, Disk
<1>3. info.players \in Seq(ReplayPlayer) /\ info.items \in Seq(MapItem)
        /\ Len(info.items) <= MAX_MAP_ITEMS /\ info.radius \in 1..InitialRadius
  BY <1>2 DEF Replayed
<1>4. living \in Seq(ReplayPlayer)
  BY <1>3, PickedBasics
<1>5. js \in Seq(JoinSet)
  <2> HIDE DEF living
  <2> QED BY <1>4, JoinsType
<1>6. ss \in Seq(SpawnSet)
  BY <1>3, SpawnsType
<1> HIDE DEF living, js, ss
<1>7. recs \in Seq(TodoSet)
        /\ \A i \in 1..Len(recs) : recs[i].t = "POISON_SHRINK" => recs[i].radius = info.radius
  BY <1>3, <1>5, <1>6, RowType
<1> HIDE DEF recs
<1>8. todo' \in [by : {"none", "main", "game"}, recs : Seq(TodoSet)]
  <2> HIDE DEF TodoSet
  <2> QED BY <1>1, <1>7
<1>9. todo'.recs = recs
  BY <1>1
<1> QED BY <1>1, <1>4, <1>5, <1>6, <1>7, <1>8, <1>9 DEF living, js, ss, recs

\* The row snapshot_save() writes: what it has copied.
LEMMA TruncateRow ==
    ASSUME Types, SnapshotTruncate
    PROVE  /\ Joins(snap.players) \in Seq(JoinSet) /\ Spawns(snap.items) \in Seq(SpawnSet)
           /\ todo' = [by |-> "game", recs |-> Row(Checkpoint, Joins(snap.players), Spawns(snap.items))]
           /\ todo' \in [by : {"none", "main", "game"}, recs : Seq(TodoSet)]
           /\ \A i \in 1..Len(todo'.recs) : todo'.recs[i].t # "POISON_SHRINK"
<1> DEFINE js == Joins(snap.players)
           ss == Spawns(snap.items)
<1>1. todo' = [by |-> "game", recs |-> Row(Checkpoint, js, ss)]
  BY DEF SnapshotTruncate, Row
<1>2. snap.players \in Seq(ReplayPlayer) /\ snap.items \in Seq(MapItem)
        /\ Len(snap.items) <= MAX_MAP_ITEMS
  BY DEF Types, Disk, Replayed
<1>3. js \in Seq(JoinSet) /\ ss \in Seq(SpawnSet)
  BY <1>2, JoinsType, SpawnsType
<1> HIDE DEF js, ss
<1>4. 1 \in 1..InitialRadius
  BY Numbers
<1>5. Row(Checkpoint, js, ss) \in Seq(TodoSet)
        /\ \A i \in 1..Len(Row(Checkpoint, js, ss)) : Row(Checkpoint, js, ss)[i].t # "POISON_SHRINK"
  BY <1>3, <1>4, RowType
<1>6. todo' \in [by : {"none", "main", "game"}, recs : Seq(TodoSet)]
  <2> HIDE DEF TodoSet
  <2> QED BY <1>1, <1>5
<1>7. todo'.recs = Row(Checkpoint, js, ss)
  BY <1>1
<1> QED BY <1>1, <1>3, <1>5, <1>6, <1>7 DEF js, ss

-----------------------------------------------------------------------------
(***************************************************************************)
(* The types are kept.                                                     *)
(***************************************************************************)
\* The blow of an attack, whether or not a shield takes it.
LEMMA BlowOK ==
    ASSUME TypeOK, NEW u \in Users, NEW v \in Users
    PROVE  LET hp == IF pl[v].shield THEN pl[v].hp
                     ELSE pl[v].hp - (IF pl[u].buff THEN 2 * HIT ELSE HIT)
           IN  hp \in Health /\ RecordOK(Damage(pl[v].pid, hp, pl[v].shield))
<1> DEFINE hp == IF pl[v].shield THEN pl[v].hp
                 ELSE pl[v].hp - (IF pl[u].buff THEN 2 * HIT ELSE HIT)
<1>1. hp \in Health /\ pl[v].shield \in BOOLEAN
  <2>1. pl[v].hp \in Int /\ pl[v].hp <= INITIAL_HP /\ pl[v].shield \in BOOLEAN
    BY DEF TypeOK, PlayerType
  <2>2. (IF pl[u].buff THEN 2 * HIT ELSE HIT) \in Nat
    BY NumbersOfGame
  <2>3. hp \in Int /\ hp <= INITIAL_HP
    BY <2>1, <2>2, Numbers
  <2> QED BY <2>1, <2>3 DEF Health
<1> HIDE DEF hp
<1>2. RecordOK(Damage(pl[v].pid, hp, pl[v].shield))
  BY <1>1 DEF RecordOK, Damage
<1> QED BY <1>1, <1>2 DEF hp

\* What the later steps of a command write, if anything.
LEMMA CommandRecord ==
    ASSUME TypeOK, Locals, Disk, MoveEnd \/ AddItem \/ UseLog \/ UseEffect \/ AttackDeath
    PROVE  \/ KeepLog
           \/ \E r : RecordOK(r) /\ r.t \in PlayerRecords /\ WalWrite(r)
<1>1. CASE MoveEnd
  <2> DEFINE n == IF Len(pl[main.u].inv) < MAX_INVENTORY THEN ItemAt(items, main.to) ELSE 0
             r == Pickup(pl[main.u].pid, items[n].type, main.to)
  <2>1. items \in Seq(MapItem) /\ Len(items) \in Nat
    BY SnapshotType
  <2>2. n # 0 => n \in 1..Len(items) /\ items[n].active
    BY <2>1, FindItem
  <2>3. KeepLog \/ (n # 0 /\ WalWrite(r))
    BY <1>1 DEF MoveEnd
  <2> HIDE DEF n
  <2>4. n # 0 => items[n].type \in ItemType
    BY <2>1, <2>2 DEF MapItem
  <2>5. n # 0 => RecordOK(r) /\ r.t \in PlayerRecords
    BY <2>4 DEF RecordOK, Pickup, PlayerRecords
  <2> QED BY <2>3, <2>5
<1>2. CASE AddItem \/ UseEffect
  BY <1>2 DEF AddItem, UseEffect
<1>3. CASE UseLog
  <2> DEFINE r == UseItem(pl[main.u].pid, main.item, main.idx)
  <2>1. main.item \in ItemType /\ main.idx \in Slots
    BY <1>3 DEF UseLog, Locals, MainType, Idle
  <2>2. RecordOK(r) /\ r.t \in PlayerRecords
    BY <2>1 DEF RecordOK, UseItem, PlayerRecords
  <2>3. WalWrite(r)
    BY <1>3 DEF UseLog
  <2> QED BY <2>2, <2>3
<1>4. CASE AttackDeath
  <2> DEFINE r == Death(pl[main.u].pid)
  <2>1. RecordOK(r) /\ r.t \in PlayerRecords
    BY DEF RecordOK, Death, PlayerRecords
  <2>2. KeepLog \/ WalWrite(r)
    BY <1>4 DEF AttackDeath
  <2> QED BY <2>1, <2>2
<1> QED BY <1>1, <1>2, <1>3, <1>4

\* The record of one who comes back.
LEMMA ReturnRecord ==
    ASSUME TypeOK, Locals, Disk, RestoreRecord
    PROVE  /\ main.u \in Users /\ main.pid \in 1..MaxPid /\ main.u \in MayReturn(files, info)
           /\ RecordOK(Join(main.pid, main.u, Record(main.u)))
<1>1. main.u \in MayReturn(files, info) /\ main.u \in Users /\ main.pid \in 1..MaxPid
  BY DEF RestoreRecord, Locals, MainType, Idle
<1>2. Record(main.u) \in ReplayPlayer
  BY <1>1, RecordType DEF Disk
<1>3. Join(main.pid, main.u, Record(main.u)) \in JoinSet
  BY <1>1, <1>2, JoinType, NumbersOfGame DEF ReplayPlayer
<1> QED BY <1>1, <1>3, TodoOK DEF TodoSet

\* The types are kept: what the disk holds.
LEMMA DiskKept == Types /\ [Next]_vars => Disk'
<1> SUFFICES ASSUME Types, [Next]_vars PROVE Disk'
  OBVIOUS
<1>0. TypeOK /\ Locals /\ Disk
  BY DEF Types
<1>a. \A u \in Users : PlayerOK(pl[u])
  BY <1>0 DEF TypeOK, PlayerOK
<1>b. log \in Seq(LogType) /\ Len(log) > 0 /\ snap \in Replayed /\ info \in Replayed
  BY <1>0 DEF Disk
<1>c. ASSUME NEW r, RecordOK(r), WalWrite(r) \/ WriteSynced(r)
      PROVE  log' \in Seq(LogType) /\ Len(log') > 0
  BY <1>0, <1>c, WriteType
<1>d. ASSUME WalSync \/ NewLog \/ KeepLog
      PROVE  log' \in Seq(LogType) /\ Len(log') > 0
  BY <1>0, <1>d, WriteType, TodoOK DEF TodoSet
<1>e. ASSUME log' \in Seq(LogType) /\ Len(log') > 0, UNCHANGED <<snap, info>> PROVE Disk'
  BY <1>b, <1>e DEF Disk
<1>f. Blank \in Replayed /\ NoInfo \in Replayed
  BY BlankReplayed DEF NoInfo
<1>1. CASE StartGame
  BY <1>1, <1>b DEF StartGame, Disk
<1>2. CASE WriteNext
  <2>1. Head(todo.recs) \in TodoSet
    BY <1>0, <1>2 DEF WriteNext, Locals
  <2>2. RecordOK(Head(todo.recs))
    BY <2>1, TodoOK
  <2> QED BY <1>2, <1>c, <1>e, <2>2 DEF WriteNext
<1>3. CASE FinishWrites
  BY <1>3, <1>d, <1>e DEF FinishWrites
<1>4. CASE Commands
  <2>1. ASSUME NEW u \in Users, NEW to \in Spots, MoveBegin(u, to) PROVE Disk'
    <3>1. RecordOK(Move(pl[u].pid, to))
      BY DEF RecordOK, Move, Places
    <3> QED BY <2>1, <3>1, <1>c, <1>e DEF MoveBegin
  <2>2. ASSUME NEW u \in Users, NEW idx \in Slots, UseTake(u, idx) PROVE Disk'
    BY <2>2, <1>d, <1>e DEF UseTake
  <2>3. ASSUME NEW u \in Users, NEW v \in Users, Attack(u, v) PROVE Disk'
    <3> DEFINE hp == IF pl[v].shield THEN pl[v].hp
                     ELSE pl[v].hp - (IF pl[u].buff THEN 2 * HIT ELSE HIT)
    <3>1. WalWrite(Damage(pl[v].pid, hp, pl[v].shield)) /\ UNCHANGED <<snap, info>>
      BY <2>3 DEF Attack
    <3>2. RecordOK(Damage(pl[v].pid, hp, pl[v].shield))
      BY <1>0, BlowOK
    <3> HIDE DEF hp
    <3> QED BY <3>1, <3>2, <1>c, <1>e
  <2>4. ASSUME NEW u \in Users, Leave(u) PROVE Disk'
    <3>1. log' \in Seq(LogType) /\ Len(log') > 0
      BY <2>4, <1>d DEF Leave
    <3> QED BY <2>4, <3>1, <1>b, <1>f DEF Leave, Disk
  <2>5. ASSUME NEW u \in Users, NEW pid \in 1..MaxPid, Login(u, pid) PROVE Disk'
    <3>1. NewLog \/ KeepLog
      BY <2>5 DEF Login, KeepLog
    <3> QED BY <2>5, <3>1, <1>d, <1>e DEF Login
  <2>6. CASE MoveEnd \/ AddItem \/ UseLog \/ UseEffect \/ AttackDeath
    <3>1. KeepLog \/ \E r : RecordOK(r) /\ r.t \in PlayerRecords /\ WalWrite(r)
      BY <1>0, <2>6, CommandRecord
    <3>2. UNCHANGED <<snap, info>>
      BY <2>6 DEF MoveEnd, AddItem, UseLog, UseEffect, AttackDeath
    <3> QED BY <3>1, <3>2, <1>c, <1>d, <1>e
  <2>7. CASE Seat \/ Restore
    BY <2>7, <1>b DEF Seat, Restore, disk, Disk
  <2>8. CASE RestoreRecord
    <3>1. RecordOK(Join(main.pid, main.u, Record(main.u)))
      BY <1>0, <2>8, ReturnRecord
    <3>2. WriteSynced(Join(main.pid, main.u, Record(main.u)))
      BY <2>8 DEF RestoreRecord
    <3>3. log' \in Seq(LogType) /\ Len(log') > 0
      BY <3>1, <3>2, <1>c
    <3>4. snap' = snap /\ info' \in {info, NoInfo}
      BY <2>8 DEF RestoreRecord
    <3> QED BY <3>3, <3>4, <1>b, <1>f DEF Disk
  <2> QED BY <1>4, <2>1, <2>2, <2>3, <2>4, <2>5, <2>6, <2>7, <2>8 DEF Commands
<1>5. CASE GameThread
  <2>1. ASSUME NEW u \in Users, BuffExpires(u) PROVE Disk'
    BY <2>1, <1>d, <1>e DEF BuffExpires
  <2>2. ASSUME NEW u \in Users, PoisonHurts(u) PROVE Disk'
    <3>1. RecordOK(Death(pl[u].pid))
      BY DEF RecordOK, Death
    <3>2. KeepLog \/ WalWrite(Death(pl[u].pid))
      BY <2>2 DEF PoisonHurts
    <3> QED BY <2>2, <3>1, <3>2, <1>c, <1>d, <1>e DEF PoisonHurts
  <2>3. ASSUME NEW pos \in Spots, NEW type \in ItemType, SpawnItem(pos, type) PROVE Disk'
    <3> DEFINE it == [pos |-> pos, type |-> type, active |-> TRUE]
    <3>1. RecordOK(ItemSpawn(it))
      BY DEF RecordOK, ItemSpawn, Places
    <3> QED BY <2>3, <3>1, <1>c, <1>e DEF SpawnItem
  <2>4. CASE Shrink
    <3>1. RecordOK(PoisonShrink(radius - 1))
      BY <1>0, <2>4, Numbers DEF Shrink, TypeOK, RecordOK, PoisonShrink
    <3> QED BY <2>4, <3>1, <1>c, <1>e DEF Shrink
  <2>5. CASE SnapshotCollect
    BY <2>5, <1>0, <1>b, <1>d, SnapshotType DEF SnapshotCollect, Disk
  <2>6. CASE SnapshotTruncate
    BY <2>6, <1>d, <1>e DEF SnapshotTruncate
  <2>7. CASE WaitOver
    BY <2>7, <1>b DEF WaitOver, disk, Disk
  <2>8. CASE EndGame
    <3>1. RecordOK(GameEnd)
      BY DEF RecordOK, GameEnd
    <3> QED BY <2>8, <3>1, <1>c, <1>e DEF EndGame
  <2>9. CASE DeleteWal
    BY <2>9, <1>d, <1>e DEF DeleteWal
  <2>10. CASE DeleteSnapshot \/ DeleteRecovery
    BY <2>10, <1>b, <1>f DEF DeleteSnapshot, DeleteRecovery, Disk
  <2> QED BY <1>5, <2>1, <2>2, <2>3, <2>4, <2>5, <2>6, <2>7, <2>8, <2>9, <2>10 DEF GameThread
<1>6. CASE Crash
  <2>1. PICK n \in DOMAIN log : log' = <<log[n]>>
    BY <1>6 DEF Crash
  <2>2. log[n] \in LogType
    BY <1>b, <2>1
  <2>3. log' \in Seq(LogType) /\ Len(log') > 0
    <3> DEFINE l == log[n]
    <3>1. l \in LogType /\ log' = <<l>>
      BY <2>1, <2>2
    <3> HIDE DEF l
    <3> QED BY <3>1
  <2> QED BY <1>6, <2>3, <1>e DEF Crash
<1>7. CASE Boot
  <2> DEFINE after == CheckAndRecover(files, log[1], snap, info)
  <2>1. log[1] \in LogType /\ files \subseteq {"wal", "snap", "recovery"}
    BY <1>0, <1>b DEF TypeOK
  <2>2. after.info \in Replayed
    BY <2>1, <1>b, RecoverRoomType DEF CheckAndRecover
  <2>3. info' = after.info /\ snap' \in {snap, Blank} /\ (log' = log \/ log' = <<EmptyLog>>)
    BY <1>7 DEF Boot
  <2>4. log' \in Seq(LogType) /\ Len(log') > 0
    BY <2>3, <1>b, <1>d DEF NewLog
  <2> HIDE DEF after
  <2> QED BY <2>2, <2>3, <2>4, <1>b, <1>f DEF Disk
<1>8. CASE UNCHANGED vars
  BY <1>8, <1>b DEF vars, disk, Disk
<1> QED BY <1>1, <1>2, <1>3, <1>4, <1>5, <1>6, <1>7, <1>8 DEF Next

\* Each of the changes a player goes through leaves him within his bounds.
LEMMA UpdateOK ==
    ASSUME NEW p, PlayerOK(p)
    PROVE  /\ \A h \in Int : h <= INITIAL_HP => PlayerOK([p EXCEPT !.hp = h])
           /\ PlayerOK([p EXCEPT !.hp = 0, !.status = "DEAD"])
           /\ \A inv \in Seq(ItemType) :
                Len(inv) <= MAX_INVENTORY => PlayerOK([p EXCEPT !.inv = inv])
           /\ \A r \in ReplayPlayer, inv \in Seq(ItemType) :
                Len(inv) <= MAX_INVENTORY =>
                    PlayerOK([p EXCEPT !.hp = r.hp, !.status = "GAMING", !.pos = r.pos,
                                       !.buff = r.buff, !.shield = r.shield, !.inv = inv])
           /\ \A item \in ItemType : PlayerOK(Effect(p, item))
<1>1. p \in PlayerType /\ p.hp \in Int /\ p.hp <= INITIAL_HP /\ Len(p.inv) <= MAX_INVENTORY
  BY DEF PlayerOK, PlayerType
<1>2. ASSUME NEW h \in Int, h <= INITIAL_HP PROVE PlayerOK([p EXCEPT !.hp = h])
  BY <1>1, <1>2 DEF PlayerOK, PlayerType
<1>3. PlayerOK([p EXCEPT !.hp = 0, !.status = "DEAD"])
  <2>1. 0 \in Int /\ 0 <= INITIAL_HP
    BY Numbers
  <2> QED BY <1>1, <2>1 DEF PlayerOK, PlayerType
<1>4. ASSUME NEW inv \in Seq(ItemType), Len(inv) <= MAX_INVENTORY
      PROVE  PlayerOK([p EXCEPT !.inv = inv])
  BY <1>1, <1>4 DEF PlayerOK, PlayerType
<1>5. ASSUME NEW r \in ReplayPlayer, NEW inv \in Seq(ItemType), Len(inv) <= MAX_INVENTORY
      PROVE  PlayerOK([p EXCEPT !.hp = r.hp, !.status = "GAMING", !.pos = r.pos,
                                !.buff = r.buff, !.shield = r.shield, !.inv = inv])
  <2>1. r.hp \in Int /\ r.hp <= INITIAL_HP /\ r.pos \in Spots \cup {0}
          /\ r.buff \in BOOLEAN /\ r.shield \in BOOLEAN
    BY DEF ReplayPlayer, Places, Health
  <2> QED BY <1>1, <1>5, <2>1 DEF PlayerOK, PlayerType
<1>6. ASSUME NEW item \in ItemType PROVE PlayerOK(Effect(p, item))
  <2>1. CASE item = HEALTH
    <3>1. Effect(p, item) = [p EXCEPT !.hp = Smaller(@ + HEALTH_RESTORE, INITIAL_HP)]
      BY <2>1 DEF Effect, HEALTH, ATTACK, SHIELD
    <3>2. Smaller(p.hp + HEALTH_RESTORE, INITIAL_HP) \in Int
            /\ Smaller(p.hp + HEALTH_RESTORE, INITIAL_HP) <= INITIAL_HP
      BY <1>1, Numbers DEF Smaller
    <3> QED BY <3>1, <3>2, <1>2
  <2>2. CASE item = ATTACK
    <3>1. Effect(p, item) = [p EXCEPT !.buff = TRUE]
      BY <2>2 DEF Effect, HEALTH, ATTACK, SHIELD
    <3> QED BY <1>1, <3>1 DEF PlayerOK, PlayerType
  <2>3. CASE item = SHIELD
    <3>1. Effect(p, item) = [p EXCEPT !.shield = TRUE]
      BY <2>3 DEF Effect, HEALTH, ATTACK, SHIELD
    <3> QED BY <1>1, <3>1 DEF PlayerOK, PlayerType
  <2> QED BY <2>1, <2>2, <2>3 DEF ItemType
<1> QED BY <1>2, <1>3, <1>4, <1>5, <1>6

\* An inventory with one item less, or more.
LEMMA InventorySteps ==
    ASSUME NEW S, NEW s \in Seq(S)
    PROVE  /\ \A i \in 1..Len(s) : /\ RemoveAt(s, i) \in Seq(S)
                                  /\ Len(RemoveAt(s, i)) = Len(s) - 1
                                  /\ \A k \in 1..Len(s) - 1 :
                                       RemoveAt(s, i)[k] = IF k < i THEN s[k] ELSE s[k + 1]
           /\ \A e \in S : Append(s, e) \in Seq(S) /\ Len(Append(s, e)) = Len(s) + 1
<1>1. \A e \in S : Append(s, e) \in Seq(S) /\ Len(Append(s, e)) = Len(s) + 1
  OBVIOUS
<1>2. ASSUME NEW i \in 1..Len(s)
      PROVE  /\ RemoveAt(s, i) \in Seq(S)
             /\ Len(RemoveAt(s, i)) = Len(s) - 1
             /\ \A k \in 1..Len(s) - 1 :
                  RemoveAt(s, i)[k] = IF k < i THEN s[k] ELSE s[k + 1]
  <2>1. SubSeq(s, 1, i - 1) \in Seq(S) /\ Len(SubSeq(s, 1, i - 1)) = i - 1
          /\ \A k \in 1..i - 1 : SubSeq(s, 1, i - 1)[k] = s[k]
    OBVIOUS
  <2>2. SubSeq(s, i + 1, Len(s)) \in Seq(S) /\ Len(SubSeq(s, i + 1, Len(s))) = Len(s) - i
          /\ \A k \in 1..Len(s) - i : SubSeq(s, i + 1, Len(s))[k] = s[k + i]
    OBVIOUS
  <2> DEFINE a == SubSeq(s, 1, i - 1)
             b == SubSeq(s, i + 1, Len(s))
  <2>3. RemoveAt(s, i) = a \o b
    BY DEF RemoveAt
  <2>4. /\ a \in Seq(S) /\ Len(a) = i - 1 /\ \A k \in 1..i - 1 : a[k] = s[k]
        /\ b \in Seq(S) /\ Len(b) = Len(s) - i /\ \A k \in 1..Len(s) - i : b[k] = s[k + i]
    BY <2>1, <2>2
  <2> HIDE DEF a, b
  <2>5. /\ a \o b \in Seq(S) /\ Len(a \o b) = Len(a) + Len(b)
        /\ \A k \in 1..Len(a) + Len(b) : (a \o b)[k] = IF k <= Len(a) THEN a[k] ELSE b[k - Len(a)]
    <3>1. a \in Seq(S) /\ b \in Seq(S)
      BY <2>4
    <3> QED BY <3>1
  <2>6. Len(a) + Len(b) = Len(s) - 1 /\ Len(a) = i - 1 /\ Len(s) \in Nat /\ i \in 1..Len(s)
    BY <2>4
  <2>7. \A k \in 1..Len(s) - 1 : (a \o b)[k] = IF k < i THEN s[k] ELSE s[k + 1]
    <3> SUFFICES ASSUME NEW k \in 1..Len(s) - 1
                 PROVE  (a \o b)[k] = IF k < i THEN s[k] ELSE s[k + 1]
      OBVIOUS
    <3>1. (a \o b)[k] = IF k <= Len(a) THEN a[k] ELSE b[k - Len(a)]
      BY <2>5, <2>6
    <3>2. CASE k < i
      <4>1. k \in 1..i - 1 /\ k <= Len(a)
        BY <2>6, <3>2
      <4> QED BY <2>4, <3>1, <3>2, <4>1
    <3>3. CASE ~(k < i)
      <4>1. /\ ~(k <= Len(a)) /\ k - Len(a) \in 1..Len(s) - i
            /\ (k - Len(a)) + i = k + 1
        BY <2>6, <3>3
      <4>2. b[k - Len(a)] = s[(k - Len(a)) + i]
        BY <2>4, <4>1
      <4> QED BY <3>1, <3>3, <4>1, <4>2
    <3> QED BY <3>2, <3>3
  <2> QED BY <2>3, <2>5, <2>6, <2>7
<1> QED BY <1>1, <1>2

\* Effects and blows leave a player within his bounds.
LEMMA PlayersKept ==
    Types /\ [Next]_vars => pl' \in [Users -> PlayerType] /\ \A w \in Users : PlayerOK(pl'[w])
<1> SUFFICES ASSUME Types, [Next]_vars
             PROVE  pl' \in [Users -> PlayerType] /\ \A w \in Users : PlayerOK(pl'[w])
  OBVIOUS
<1> DEFINE Goal == pl' \in [Users -> PlayerType] /\ \A w \in Users : PlayerOK(pl'[w])
<1>0. TypeOK /\ Locals /\ Disk
  BY DEF Types
<1>a. pl \in [Users -> PlayerType] /\ \A u \in Users : PlayerOK(pl[u])
  BY <1>0 DEF TypeOK, PlayerOK
<1>b. ASSUME NEW u \in Users, NEW p, PlayerOK(p), pl' = [pl EXCEPT ![u] = p] PROVE Goal
  BY <1>a, <1>b DEF PlayerOK
<1>c. ASSUME UNCHANGED pl PROVE Goal
  BY <1>a, <1>c
<1>d. ASSUME NEW u \in Users
      PROVE  /\ pl[u] \in PlayerType /\ pl[u].hp \in Int /\ pl[u].hp <= INITIAL_HP
             /\ pl[u].inv \in Seq(ItemType) /\ Len(pl[u].inv) \in 0..MAX_INVENTORY
  BY <1>a, <1>d, Numbers DEF PlayerOK, PlayerType
<1>e. main.pc # "idle" => main.u \in Users
  BY <1>0 DEF Locals, MainType, Idle
<1>f. pl' = [u \in Users |-> Fresh(0)] => Goal
  <2>1. 0 \in 0..MaxPid /\ PlayerOK(Fresh(0))
    BY FreshOK, NumbersOfGame
  <2> QED BY <2>1 DEF PlayerOK
<1>1. CASE StartGame
  <2>1. PICK place \in [Users -> Spots] :
          pl' = [u \in Users |-> [pl[u] EXCEPT !.pos = place[u], !.status = "GAMING"]]
    BY <1>1 DEF StartGame
  <2>2. \A u \in Users : PlayerOK([pl[u] EXCEPT !.pos = place[u], !.status = "GAMING"])
    BY <1>a DEF PlayerOK, PlayerType
  <2> QED BY <2>1, <2>2 DEF PlayerOK
<1>2. CASE WriteNext \/ FinishWrites
  BY <1>2, <1>c DEF WriteNext, FinishWrites
<1>3. CASE Commands
  <2>1. ASSUME NEW u \in Users, NEW to \in Spots, MoveBegin(u, to) PROVE Goal
    BY <2>1, <1>c DEF MoveBegin
  <2>2. ASSUME NEW u \in Users, NEW idx \in Slots, UseTake(u, idx) PROVE Goal
    <3> DEFINE p == [pl[u] EXCEPT !.inv = RemoveAt(@, idx)]
    <3>1. idx \in 1..Len(pl[u].inv) /\ pl' = [pl EXCEPT ![u] = p]
      BY <2>2, <1>d DEF UseTake
    <3>2. RemoveAt(pl[u].inv, idx) \in Seq(ItemType) /\ Len(RemoveAt(pl[u].inv, idx)) = Len(pl[u].inv) - 1
      BY <1>d, <3>1, InventorySteps
    <3>3. PlayerOK(p)
      <4>1. Len(RemoveAt(pl[u].inv, idx)) <= MAX_INVENTORY
        BY <1>d, <3>2, Numbers
      <4> QED BY <1>a, <3>2, <4>1, UpdateOK
    <3> HIDE DEF p
    <3> QED BY <3>1, <3>3, <1>b
  <2>3. ASSUME NEW u \in Users, NEW v \in Users, Attack(u, v) PROVE Goal
    <3> DEFINE damage == IF pl[u].buff THEN 2 * HIT ELSE HIT
               hp == IF pl[v].shield THEN pl[v].hp ELSE pl[v].hp - damage
               p == [pl[v] EXCEPT !.hp = hp, !.shield = FALSE]
    <3>1. pl' = [pl EXCEPT ![v] = p]
      BY <2>3, <1>a DEF Attack
    <3>2. damage \in Nat
      BY NumbersOfGame
    <3>3. hp \in Int /\ hp <= INITIAL_HP
      <4> HIDE DEF damage
      <4> QED BY <3>2, <1>d, Numbers
    <3> HIDE DEF hp
    <3>4. PlayerOK(p)
      BY <1>a, <3>3 DEF PlayerOK, PlayerType
    <3> HIDE DEF p
    <3> QED BY <3>1, <3>4, <1>b
  <2>4. ASSUME NEW u \in Users, Leave(u) PROVE Goal
    <3>1. PlayerOK(Fresh(0)) /\ pl' = [pl EXCEPT ![u] = Fresh(0)]
      BY <2>4, FreshOK, NumbersOfGame DEF Leave
    <3> QED BY <3>1, <1>b
  <2>5. ASSUME NEW u \in Users, NEW pid \in 1..MaxPid, Login(u, pid) PROVE Goal
    BY <2>5, <1>c DEF Login
  <2>6. CASE MoveEnd
    <3> DEFINE p == [pl[main.u] EXCEPT !.pos = main.to]
    <3>1. main.u \in Users /\ main.to \in Spots /\ pl' = [pl EXCEPT ![main.u] = p]
      BY <1>0, <2>6 DEF MoveEnd, Locals, MainType, Idle
    <3>2. PlayerOK(p)
      BY <1>a, <3>1 DEF PlayerOK, PlayerType
    <3> HIDE DEF p
    <3> QED BY <3>1, <3>2, <1>b
  <2>7. CASE AddItem
    <3> DEFINE p == [pl[main.u] EXCEPT !.inv = Append(@, main.item)]
    <3>1. main.u \in Users /\ main.item \in ItemType /\ Len(pl[main.u].inv) < MAX_INVENTORY
            /\ pl' = [pl EXCEPT ![main.u] = p]
      BY <1>0, <2>7 DEF AddItem, Locals, MainType, Idle
    <3>2. Append(pl[main.u].inv, main.item) \in Seq(ItemType)
            /\ Len(Append(pl[main.u].inv, main.item)) = Len(pl[main.u].inv) + 1
      BY <3>1, <1>d, InventorySteps
    <3>3. PlayerOK(p)
      <4>1. Len(Append(pl[main.u].inv, main.item)) <= MAX_INVENTORY
        BY <3>1, <3>2, <1>d, Numbers
      <4> QED BY <1>a, <3>1, <3>2, <4>1, UpdateOK
    <3> HIDE DEF p
    <3> QED BY <3>1, <3>3, <1>b
  <2>8. CASE UseEffect
    <3> DEFINE p == Effect(pl[main.u], main.item)
    <3>1. main.u \in Users /\ main.item \in ItemType /\ pl' = [pl EXCEPT ![main.u] = p]
      BY <1>0, <2>8 DEF UseEffect, Locals, MainType, Idle
    <3>2. PlayerOK(p)
      BY <1>a, <3>1, UpdateOK
    <3> HIDE DEF p
    <3> QED BY <3>1, <3>2, <1>b
  <2>9. CASE AttackDeath
    <3> DEFINE p == [pl[main.u] EXCEPT !.hp = 0, !.status = "DEAD"]
    <3>1. main.u \in Users /\ (UNCHANGED pl \/ pl' = [pl EXCEPT ![main.u] = p])
      <4>1. main.u \in Users
        BY <2>9, <1>e DEF AttackDeath
      <4> QED BY <4>1, <2>9, <1>a DEF AttackDeath
    <3>2. PlayerOK(p)
      BY <1>a, <3>1, UpdateOK
    <3> HIDE DEF p
    <3> QED BY <3>1, <3>2, <1>b, <1>c
  <2>10. CASE Seat
    <3>1. main.u \in Users /\ main.pid \in 1..MaxPid /\ pl' = [pl EXCEPT ![main.u] = Fresh(main.pid)]
      BY <1>0, <2>10 DEF Seat, Locals, MainType, Idle
    <3>2. PlayerOK(Fresh(main.pid))
      BY <3>1, FreshOK, NumbersOfGame
    <3> QED BY <3>1, <3>2, <1>b
  <2>11. CASE Restore
    <3> DEFINE r == Record(main.u)
               full == [k \in 1..r.cnt |-> r.inv[k]]
               held == Picked(full, ItemType)
    <3>1. main.u \in Users /\ main.u \in MayReturn(files, info)
      BY <1>0, <2>11 DEF Restore, Locals, MainType, Idle
    <3>2. r \in ReplayPlayer
      BY <1>0, <3>1, RecordType DEF Disk
    <3> DEFINE p == [pl[main.u] EXCEPT !.hp = r.hp, !.status = "GAMING", !.pos = r.pos,
                              !.buff = r.buff, !.shield = r.shield, !.inv = held]
    <3>3. pl' = [pl EXCEPT ![main.u] = p]
      BY <2>11, <3>1, <1>a DEF Restore
    <3> HIDE DEF r
    <3>4. /\ r.cnt \in 0..MAX_INVENTORY /\ r.hp \in Int /\ r.hp <= INITIAL_HP /\ r.pos \in Spots \cup {0}
          /\ r.buff \in BOOLEAN /\ r.shield \in BOOLEAN /\ r.inv \in [1..MAX_INVENTORY -> {NONE} \cup ItemType]
      BY <3>2 DEF ReplayPlayer, Places, Health, Inventory, Slots
    <3>5. full \in Seq({NONE} \cup ItemType) /\ Len(full) = r.cnt
      BY <3>4, Numbers
    <3> HIDE DEF full
    <3>6. /\ held \in Seq({NONE} \cup ItemType) /\ Len(held) <= Len(full)
          /\ \A i \in 1..Len(held) : held[i] \in ItemType
      BY <3>5, PickedBasics
    <3> HIDE DEF held
    <3>7. held \in Seq(ItemType) /\ Len(held) <= MAX_INVENTORY
      <4>1. held = [i \in 1..Len(held) |-> held[i]] /\ Len(held) \in Nat
        BY <3>6
      <4> QED BY SMTT(30), <4>1, <3>4, <3>5, <3>6, Numbers
    <3>8. PlayerOK(p)
      BY <3>1, <3>2, <3>7, <1>a, UpdateOK
    <3> HIDE DEF p
    <3> QED BY <3>1, <3>3, <3>8, <1>b
  <2>12. CASE UseLog \/ RestoreRecord
    BY <2>12, <1>c DEF UseLog, RestoreRecord
  <2> QED BY <1>3, <2>1, <2>2, <2>3, <2>4, <2>5, <2>6, <2>7, <2>8, <2>9, <2>10, <2>11, <2>12 DEF Commands
<1>4. CASE GameThread
  <2>1. ASSUME NEW u \in Users, BuffExpires(u) PROVE Goal
    <3> DEFINE p == [pl[u] EXCEPT !.buff = FALSE]
    <3>1. pl' = [pl EXCEPT ![u] = p]
      BY <2>1, <1>a DEF BuffExpires
    <3>2. PlayerOK(p)
      BY <1>a DEF PlayerOK, PlayerType
    <3> HIDE DEF p
    <3> QED BY <3>1, <3>2, <1>b
  <2>2. ASSUME NEW u \in Users, PoisonHurts(u) PROVE Goal
    <3> DEFINE p == [pl[u] EXCEPT !.hp = @ - POISON]
               q == [pl[u] EXCEPT !.hp = 0, !.status = "DEAD"]
    <3>1. pl' = [pl EXCEPT ![u] = p] \/ pl' = [pl EXCEPT ![u] = q]
      BY <2>2, <1>a DEF PoisonHurts
    <3>2. PlayerOK(p) /\ PlayerOK(q)
      <4>1. pl[u].hp - POISON \in Int /\ pl[u].hp - POISON <= INITIAL_HP
        BY <1>d, Numbers, NumbersOfGame
      <4> QED BY <1>a, <4>1, UpdateOK
    <3> HIDE DEF p, q
    <3> QED BY <3>1, <3>2, <1>b
  <2>3. CASE Shrink \/ SnapshotCollect \/ SnapshotTruncate \/ WaitOver \/ EndGame \/ DeleteWal
               \/ DeleteSnapshot \/ DeleteRecovery
    BY <2>3, <1>c DEF Shrink, SnapshotCollect, SnapshotTruncate, WaitOver, EndGame, DeleteWal,
         DeleteSnapshot, DeleteRecovery, mem
  <2>4. ASSUME NEW pos \in Spots, NEW type \in ItemType, SpawnItem(pos, type) PROVE Goal
    BY <2>4, <1>c DEF SpawnItem
  <2> QED BY <1>4, <2>1, <2>2, <2>3, <2>4 DEF GameThread
<1>5. CASE Crash
  BY <1>5, <1>f DEF Crash
<1>6. CASE Boot \/ UNCHANGED vars
  BY <1>6, <1>c DEF Boot, vars, mem
<1> QED BY <1>1, <1>2, <1>3, <1>4, <1>5, <1>6 DEF Next

\* Who leaves gives his seat up and nobody else's.
LEMMA LeaveSeats ==
    ASSUME TypeOK, NEW u \in InRoom
    PROVE  LET left == RemoveFirst(seats, u)
           IN  /\ left \in Seq(Users) /\ IsInjective(left) /\ ToSet(left) = InRoom \ {u}
               /\ \E gap \in 1..Len(seats) :
                    /\ seats[gap] = u /\ Len(left) = Len(seats) - 1
                    /\ \A k \in 1..Len(left) : left[k] = IF k < gap THEN seats[k] ELSE seats[k + 1]
<1>1. seats \in Seq(Users) /\ DOMAIN seats = 1..Len(seats) /\ Len(seats) \in Nat
  BY DEF TypeOK
<1>2. \A i, j \in 1..Len(seats) : seats[i] = seats[j] => i = j
  BY <1>1 DEF TypeOK, IsInjective
<1>3. InRoom = {seats[i] : i \in 1..Len(seats)}
  BY <1>1 DEF InRoom, ToSet
<1> DEFINE I == {i \in 1..Len(seats) : seats[i] = u}
           gap == Min(I)
<1>4. I # {} /\ I \subseteq Nat
  BY <1>1, <1>3
<1>5. gap \in I
  <2> HIDE DEF I
  <2> QED BY <1>4, Least
<1>6. RemoveFirst(seats, u) = RemoveAt(seats, gap)
  BY <1>4, <1>5 DEF RemoveFirst, SelectInSeq
<1> HIDE DEF gap
<1>7. gap \in 1..Len(seats) /\ seats[gap] = u
  BY <1>5
<1> DEFINE left == RemoveAt(seats, gap)
<1>8. /\ left \in Seq(Users) /\ Len(left) = Len(seats) - 1
      /\ \A k \in 1..Len(seats) - 1 : left[k] = IF k < gap THEN seats[k] ELSE seats[k + 1]
  BY <1>1, <1>7, InventorySteps
<1> HIDE DEF left
<1>9. IsInjective(left)
  <2>1. ASSUME NEW i \in 1..Len(left), NEW j \in 1..Len(left), left[i] = left[j] PROVE i = j
    <3>1. i \in 1..Len(seats) - 1 /\ j \in 1..Len(seats) - 1
      BY <1>8
    <3> DEFINE a == IF i < gap THEN i ELSE i + 1
               b == IF j < gap THEN j ELSE j + 1
    <3>2. left[i] = seats[a] /\ left[j] = seats[b]
      BY <1>8, <3>1
    <3>3. a \in 1..Len(seats) /\ b \in 1..Len(seats)
      BY <1>1, <3>1
    <3>4. a = b
      <4> HIDE DEF a, b
      <4> QED BY <1>2, <2>1, <3>2, <3>3
    <3> QED BY <1>1, <1>7, <3>1, <3>4
  <2> QED BY <1>8, <2>1 DEF IsInjective
<1>10. ToSet(left) = InRoom \ {u}
  <2>1. ToSet(left) = {left[k] : k \in 1..Len(left)}
    BY <1>8 DEF ToSet
  <2>2. ASSUME NEW k \in 1..Len(left) PROVE left[k] \in InRoom /\ left[k] # u
    <3>1. k \in 1..Len(seats) - 1
      BY <1>8
    <3>2. left[k] = (IF k < gap THEN seats[k] ELSE seats[k + 1])
      BY <1>8, <3>1
    <3> QED BY <1>1, <1>2, <1>3, <1>7, <3>1, <3>2
  <2>3. ASSUME NEW v \in InRoom, v # u PROVE \E k \in 1..Len(left) : left[k] = v
    <3>1. PICK i \in 1..Len(seats) : seats[i] = v
      BY <1>3
    <3>2. i # gap
      BY <1>7, <2>3, <3>1
    <3>3. CASE i < gap
      <4>1. i \in 1..Len(seats) - 1 /\ left[i] = seats[i]
        BY <1>1, <1>7, <1>8, <3>1, <3>3
      <4> QED BY <1>8, <3>1, <4>1
    <3>4. CASE i > gap
      <4>1. i - 1 \in 1..Len(seats) - 1 /\ ~(i - 1 < gap) /\ (i - 1) + 1 = i
        BY <1>1, <1>7, <3>1, <3>4
      <4>2. left[i - 1] = seats[i]
        BY <1>8, <4>1
      <4> QED BY <1>8, <3>1, <4>1, <4>2
    <3> QED BY <1>7, <3>1, <3>2, <3>3, <3>4
  <2> QED BY <2>1, <2>2, <2>3
<1>11. \A k \in 1..Len(left) : left[k] = IF k < gap THEN seats[k] ELSE seats[k + 1]
  BY <1>8
<1> QED BY <1>6, <1>7, <1>8, <1>9, <1>10, <1>11 DEF left

\* Nobody gets a second seat.
LEMMA SeatsKept == Types /\ [Next]_vars => seats' \in Seq(Users) /\ IsInjective(seats')
<1> SUFFICES ASSUME Types, [Next]_vars PROVE seats' \in Seq(Users) /\ IsInjective(seats')
  OBVIOUS
<1> DEFINE Goal == seats' \in Seq(Users) /\ IsInjective(seats')
<1>0. TypeOK /\ Locals
  BY DEF Types
<1>a. ASSUME UNCHANGED seats PROVE Goal
  BY <1>0, <1>a DEF TypeOK
<1>1. CASE StartGame \/ WriteNext \/ FinishWrites
  BY <1>1, <1>a DEF StartGame, WriteNext, FinishWrites
<1>2. CASE Commands
  <2>1. ASSUME NEW u \in Users, NEW to \in Spots, MoveBegin(u, to) PROVE Goal
    BY <2>1, <1>a DEF MoveBegin
  <2>2. ASSUME NEW u \in Users, NEW idx \in Slots, UseTake(u, idx) PROVE Goal
    BY <2>2, <1>a DEF UseTake
  <2>3. ASSUME NEW u \in Users, NEW v \in Users, Attack(u, v) PROVE Goal
    BY <2>3, <1>a DEF Attack
  <2>4. ASSUME NEW u \in Users, Leave(u) PROVE Goal
    BY <2>4, <1>0, LeaveSeats DEF Leave
  <2>5. ASSUME NEW u \in Users, NEW pid \in 1..MaxPid, Login(u, pid) PROVE Goal
    BY <2>5, <1>a DEF Login
  <2>6. CASE Seat
    <3> DEFINE w == main.u
    <3>1. w \in Users /\ w \notin InRoom /\ seats' = Append(seats, w)
      BY <1>0, <2>6 DEF Seat, Locals, MainType, Idle
    <3> HIDE DEF w
    <3>2. seats \in Seq(Users) /\ IsInjective(seats)
      BY <1>0 DEF TypeOK
    <3>3. \A i \in 1..Len(seats) : seats[i] # w
      BY <3>1, <3>2 DEF InRoom, ToSet
    <3> QED BY <3>1, <3>2, <3>3 DEF IsInjective
  <2>7. CASE MoveEnd \/ AddItem \/ UseLog \/ UseEffect \/ AttackDeath \/ Restore \/ RestoreRecord
    BY <2>7, <1>a DEF MoveEnd, AddItem, UseLog, UseEffect, AttackDeath, Restore, RestoreRecord
  <2> QED BY <1>2, <2>1, <2>2, <2>3, <2>4, <2>5, <2>6, <2>7 DEF Commands
<1>3. CASE GameThread
  BY <1>3, <1>a DEF GameThread, BuffExpires, PoisonHurts, SpawnItem, Shrink, SnapshotCollect,
     SnapshotTruncate, WaitOver, EndGame, DeleteWal, DeleteSnapshot, DeleteRecovery, mem
<1>4. CASE Crash
  BY <1>4 DEF Crash, IsInjective
<1>5. CASE Boot \/ UNCHANGED vars
  BY <1>5, <1>a DEF Boot, vars, mem
<1> QED BY <1>1, <1>2, <1>3, <1>4, <1>5 DEF Next

\* The items, the zone, the counters, the files.
LEMMA RestKept ==
    Types /\ [Next]_vars =>
        /\ phase' \in Phases
        /\ items' \in [1..MAX_MAP_ITEMS -> MapItem]
        /\ radius' \in 1..InitialRadius
        /\ expected' \in 0..MAX_ROOM_PLAYERS
        /\ nextPid' \in 1..MaxPid + 1
        /\ files' \subseteq {"wal", "snap", "recovery"}
        /\ torn' \in Torn /\ revived' \in BOOLEAN
<1> SUFFICES ASSUME Types, [Next]_vars
             PROVE  /\ phase' \in Phases
                    /\ items' \in [1..MAX_MAP_ITEMS -> MapItem]
                    /\ radius' \in 1..InitialRadius
                    /\ expected' \in 0..MAX_ROOM_PLAYERS
                    /\ nextPid' \in 1..MaxPid + 1
                    /\ files' \subseteq {"wal", "snap", "recovery"}
                    /\ torn' \in Torn /\ revived' \in BOOLEAN
  OBVIOUS
<1> DEFINE Map == items' \in [1..MAX_MAP_ITEMS -> MapItem] /\ radius' \in 1..InitialRadius
           Count2 == expected' \in 0..MAX_ROOM_PLAYERS /\ nextPid' \in 1..MaxPid + 1
           Life == phase' \in Phases /\ files' \subseteq {"wal", "snap", "recovery"}
           Past == torn' \in Torn /\ revived' \in BOOLEAN
           Goal == Map /\ Count2 /\ Life /\ Past
<1>0. TypeOK /\ Locals /\ Disk
  BY DEF Types
<1>a. UNCHANGED <<items, radius>> => Map
  BY <1>0 DEF TypeOK, Locals
<1>b. UNCHANGED <<expected, nextPid>> => Count2
  BY <1>0 DEF TypeOK
<1>c. UNCHANGED <<phase, files>> => Life
  BY <1>0 DEF TypeOK
<1>d. Marks \/ UNCHANGED hist => Past
  BY <1>0 DEF TypeOK, Marks, hist, Torn
<1>e. phase \in Phases /\ files \subseteq {"wal", "snap", "recovery"}
        /\ torn \in Torn /\ revived \in BOOLEAN
  BY <1>0 DEF TypeOK
<1>f. NoItem \in MapItem /\ NoItems \in [1..MAX_MAP_ITEMS -> MapItem]
        /\ InitialRadius \in 1..InitialRadius
  BY Numbers DEF NoItem, NoItems, MapItem, Places
<1>g. items \in [1..MAX_MAP_ITEMS -> MapItem] /\ radius \in 1..InitialRadius
  BY <1>0 DEF TypeOK, Locals
<1>1. CASE StartGame
  <2>1. PICK type \in ItemType :
          items' = [NoItems EXCEPT ![1] = [pos |-> 0, type |-> type, active |-> TRUE]]
    BY <1>1 DEF StartGame
  <2>2. [pos |-> 0, type |-> type, active |-> TRUE] \in MapItem
    BY DEF MapItem, Places
  <2>3. Map
    BY <1>1, <1>f, <1>g, <2>1, <2>2 DEF StartGame
  <2>4. Life
    BY <1>1, <1>e DEF StartGame, Phases
  <2> QED BY <1>1, <1>b, <1>d, <2>3, <2>4 DEF StartGame
<1>2. CASE WriteNext
  BY <1>2, <1>a, <1>b, <1>c, <1>d DEF WriteNext
<1>3. CASE FinishWrites
  <2>1. Life
    BY <1>3, <1>e DEF FinishWrites, Phases
  <2> QED BY <1>3, <2>1, <1>a, <1>b, <1>d DEF FinishWrites
<1>4. CASE Commands
  <2>1. ASSUME NEW u \in Users, NEW to \in Spots, MoveBegin(u, to) PROVE Goal
    BY <2>1, <1>a, <1>b, <1>c, <1>d DEF MoveBegin
  <2>2. ASSUME NEW u \in Users, NEW idx \in Slots, UseTake(u, idx) PROVE Goal
    BY <2>2, <1>a, <1>b, <1>c, <1>d DEF UseTake
  <2>3. ASSUME NEW u \in Users, NEW v \in Users, Attack(u, v) PROVE Goal
    BY <2>3, <1>a, <1>b, <1>c, <1>d DEF Attack
  <2>4. ASSUME NEW u \in Users, Leave(u) PROVE Goal
    <3>1. Life
      BY <2>4, <1>e DEF Leave, Phases
    <3> QED BY <2>4, <3>1, <1>a, <1>b, <1>d DEF Leave
  <2>5. ASSUME NEW u \in Users, NEW pid \in 1..MaxPid, Login(u, pid) PROVE Goal
    <3>1. info \in Replayed
      BY <1>0 DEF Disk
    <3>2. nextPid' \in 1..MaxPid + 1
      BY <2>5, NumbersOfGame DEF Login
    <3>3. Life
      BY <2>5, <1>e DEF Login, Phases
    <3>4. Past
      <4>1. UNCHANGED revived /\ torn' \in {"yes", torn, "no"}
        BY <2>5 DEF Login, Marks
      <4> QED BY <4>1, <1>e DEF Torn
    <3>5. CASE phase = "running"
      <4>1. UNCHANGED <<items, radius, expected>>
        BY <2>5, <3>5 DEF Login
      <4>2. expected' \in 0..MAX_ROOM_PLAYERS
        BY <4>1, <1>0 DEF TypeOK
      <4> QED BY <4>1, <4>2, <3>2, <3>3, <3>4, <1>a
    <3>6. CASE phase # "running"
      <4>1. /\ items' = [i \in 1..MAX_MAP_ITEMS |->
                           IF i <= Len(info.items) THEN info.items[i] ELSE NoItem]
            /\ radius' = info.radius /\ expected' = Cardinality(Living(info))
        BY <2>5, <3>6 DEF Login
      <4>2. Map
        BY <3>1, <4>1, <1>f, Numbers DEF Replayed
      <4>3. expected' \in 0..MAX_ROOM_PLAYERS
        <5>1. info.players \in Seq(ReplayPlayer) /\ Len(info.players) \in 0..MAX_ROOM_PLAYERS
                /\ DOMAIN info.players = 1..Len(info.players)
          BY <3>1, Numbers DEF Replayed
        <5>2. Living(info) \in SUBSET (1..Len(info.players)) /\ Len(info.players) \in Nat
          BY <5>1 DEF Living
        <5>3. IsFiniteSet(Living(info)) /\ Cardinality(Living(info)) <= Len(info.players)
          BY <5>2, Counting, FS_Subset
        <5>4. Cardinality(Living(info)) \in Nat
          BY <5>3, FS_CardinalityType
        <5> QED BY <4>1, <5>1, <5>3, <5>4, Numbers
      <4> QED BY <4>2, <4>3, <3>2, <3>3, <3>4
    <3> QED BY <3>5, <3>6
  <2>6. CASE MoveEnd
    <3>1. items' \in [1..MAX_MAP_ITEMS -> MapItem]
      <4> DEFINE n == IF Len(pl[main.u].inv) < MAX_INVENTORY THEN ItemAt(items, main.to) ELSE 0
      <4>1. items \in Seq(MapItem) /\ Len(items) = MAX_MAP_ITEMS
        BY <1>0, SnapshotType
      <4>2. items' = items \/ items' = TakeFrom(items, n)
        BY <2>6 DEF MoveEnd
      <4>3. n \in 0..Len(items)
        BY <4>1, FindItem
      <4> HIDE DEF n
      <4>4. CASE n # 0
        <5> DEFINE it == [items[n] EXCEPT !.active = FALSE]
        <5>1. items[n] \in MapItem /\ n \in 1..MAX_MAP_ITEMS
          BY <4>1, <4>3, <4>4
        <5>2. it \in MapItem
          BY <5>1 DEF MapItem
        <5>3. items' = items \/ items' = [items EXCEPT ![n] = it]
          BY <4>2, <4>4 DEF TakeFrom
        <5> HIDE DEF it
        <5> QED BY <5>1, <5>2, <5>3, <1>g
      <4>5. CASE n = 0
        BY <4>2, <4>5, <1>g DEF TakeFrom
      <4> QED BY <4>4, <4>5
    <3> QED BY <2>6, <3>1, <1>b, <1>c, <1>d, <1>g DEF MoveEnd
  <2>7. CASE AddItem \/ UseLog \/ UseEffect \/ AttackDeath
    BY <2>7, <1>a, <1>b, <1>c, <1>d DEF AddItem, UseLog, UseEffect, AttackDeath
  <2>8. CASE Seat \/ Restore
    BY <2>8, <1>a, <1>b, <1>c, <1>d DEF Seat, Restore, disk
  <2>9. CASE RestoreRecord
    <3>1. Life /\ Past
      BY <2>9, <1>e DEF RestoreRecord, Phases, Torn
    <3> QED BY <2>9, <3>1, <1>a, <1>b DEF RestoreRecord
  <2> QED BY <1>4, <2>1, <2>2, <2>3, <2>4, <2>5, <2>6, <2>7, <2>8, <2>9 DEF Commands
<1>5. CASE GameThread
  <2>1. ASSUME NEW u \in Users, BuffExpires(u) \/ PoisonHurts(u) PROVE Goal
    BY <2>1, <1>a, <1>b, <1>c, <1>d DEF BuffExpires, PoisonHurts
  <2>2. CASE Shrink
    <3>1. Map
      BY <2>2, <1>g, Numbers DEF Shrink
    <3> QED BY <2>2, <3>1, <1>b, <1>c, <1>d DEF Shrink
  <2>3. ASSUME NEW pos \in Spots, NEW type \in ItemType, SpawnItem(pos, type) PROVE Goal
    <3> DEFINE it == [pos |-> pos, type |-> type, active |-> TRUE]
               n == SelectInSeq(items, LAMBDA i : ~i.active)
    <3>1. it \in MapItem
      BY DEF MapItem, Places
    <3>2. items' = [items EXCEPT ![n] = it]
      BY <2>3 DEF SpawnItem
    <3> HIDE DEF it, n
    <3>3. Map
      BY <2>3, <3>1, <3>2, <1>g DEF SpawnItem
    <3> QED BY <2>3, <3>3, <1>b, <1>c, <1>d DEF SpawnItem
  <2>4. CASE SnapshotCollect \/ SnapshotTruncate
    <3>1. Life /\ Past
      BY <2>4, <1>e DEF SnapshotCollect, SnapshotTruncate, Torn
    <3> QED BY <2>4, <3>1, <1>a, <1>b DEF SnapshotCollect, SnapshotTruncate
  <2>5. CASE WaitOver
    <3>1. Count2
      BY <2>5, <1>0, Numbers DEF WaitOver, TypeOK
    <3> QED BY <2>5, <3>1, <1>a, <1>c, <1>d DEF WaitOver, disk
  <2>6. CASE EndGame \/ DeleteWal \/ DeleteSnapshot \/ DeleteRecovery
    <3>1. Life
      BY <2>6, <1>e DEF EndGame, DeleteWal, DeleteSnapshot, DeleteRecovery, Phases
    <3> QED BY <2>6, <3>1, <1>a, <1>b, <1>d
        DEF EndGame, DeleteWal, DeleteSnapshot, DeleteRecovery, mem
  <2> QED BY <1>5, <2>1, <2>2, <2>3, <2>4, <2>5, <2>6 DEF GameThread
<1>6. CASE Crash
  <2>1. Map /\ Count2
    BY <1>6, <1>f, Numbers, NumbersOfGame DEF Crash
  <2>2. Life /\ Past
    BY <1>6, <1>e DEF Crash, Phases, Torn
  <2> QED BY <2>1, <2>2
<1>7. CASE Boot
  <2> DEFINE after == CheckAndRecover(files, log[1], snap, info)
  <2>1. log[1] \in LogType /\ snap \in Replayed
    BY <1>0 DEF Disk
  <2>2. after.files \subseteq {"wal", "snap", "recovery"}
    BY <2>1, <1>e, RecoverRoomType DEF CheckAndRecover
  <2>3. Life
    BY <1>7, <2>2 DEF Boot, Phases
  <2>4. torn' = torn /\ revived' \in BOOLEAN
    BY <1>7 DEF Boot
  <2>5. Past
    BY <2>4, <1>e
  <2> QED BY <1>7, <2>3, <2>5, <1>a, <1>b DEF Boot, mem
<1>8. CASE UNCHANGED vars
  BY <1>8, <1>a, <1>b, <1>c, <1>d DEF vars, mem, disk
<1> QED BY <1>1, <1>2, <1>3, <1>4, <1>5, <1>6, <1>7, <1>8 DEF Next

\* The steps the threads are in.
LEMMA LocalsKept == Types /\ [Next]_vars => Locals'
<1> SUFFICES ASSUME Types, [Next]_vars PROVE Locals'
  OBVIOUS
<1> DEFINE Where == main' \in MainType
           Saving == sc' \in {"idle", "collected", "writing"}
           ToWrite == todo' \in [by : {"none", "main", "game"}, recs : Seq(TodoSet)]
           Room == main'.pc = "pickup" => Len(pl'[main'.u].inv) < MAX_INVENTORY
           Outside == main'.pc = "seat" => main'.u \notin ToSet(seats')
           Returns == main'.pc \in {"seat", "state", "record"}
                        /\ phase' \in {"creating", "recovered", "running"} =>
                      main'.u \in MayReturn(files', info')
           Before == phase' \in {"waiting", "starting", "down", "none"} => main' = Idle
           Goal == Where /\ Saving /\ ToWrite /\ Room /\ Outside /\ Returns /\ Before
<1>0. TypeOK /\ Locals /\ Disk
  BY DEF Types
<1>1. items' \in [1..MAX_MAP_ITEMS -> MapItem]
  BY RestKept
<1>2. Goal => Locals'
  BY <1>1 DEF Locals, InRoom
<1>a. /\ main \in MainType /\ sc \in {"idle", "collected", "writing"}
      /\ todo \in [by : {"none", "main", "game"}, recs : Seq(TodoSet)]
  BY <1>0 DEF Locals
<1>b. /\ main.pc = "pickup" => Len(pl[main.u].inv) < MAX_INVENTORY
      /\ main.pc = "seat" => main.u \notin ToSet(seats)
      /\ main.pc \in {"seat", "state", "record"} /\ phase \in {"creating", "recovered", "running"} =>
            main.u \in MayReturn(files, info)
      /\ phase \in {"waiting", "starting", "down", "none"} => main = Idle
  BY <1>0 DEF Locals, InRoom
<1>c. main' = Idle => Where /\ Room /\ Outside /\ Returns /\ Before
  BY DEF Idle, MainType
<1>d. NoTodo \in [by : {"none", "main", "game"}, recs : Seq(TodoSet)]
  <2>1. << >> \in Seq(TodoSet)
    OBVIOUS
  <2> HIDE DEF TodoSet
  <2> QED BY <2>1 DEF NoTodo
<1>e. UNCHANGED <<main, pl, seats, phase, files, info>> =>
        Where /\ Room /\ Outside /\ Returns /\ Before
  BY <1>a, <1>b
<1>f. pl \in [Users -> PlayerType] /\ \A u \in Users : PlayerOK(pl[u])
  BY <1>0 DEF TypeOK, PlayerOK
<1>g. main'.pc \notin {"pickup", "seat", "state", "record"} /\ phase' \in {"running", "ended"} =>
        Room /\ Outside /\ Returns /\ Before
  OBVIOUS
<1>h. /\ UNCHANGED sc \/ sc' = "idle" => Saving
      /\ UNCHANGED todo \/ todo' = NoTodo => ToWrite
      /\ sc' \in {"idle", "collected", "writing"} => Saving
  BY <1>a, <1>d
<1> HIDE DEF TodoSet, Where, Saving, ToWrite, Room, Outside, Returns, Before
<1>3. CASE StartGame
  <2>1. main = Idle /\ main' = main /\ sc' = sc
    BY <1>3, <1>b DEF StartGame
  <2>2. ToWrite
    BY <1>0, <1>3, StartRow, RestKept DEF Types, ToWrite
  <2> QED BY <1>2, <1>h, <1>c, <2>1, <2>2
<1>4. CASE WriteNext
  <2>1. todo.recs \in Seq(TodoSet) /\ todo.recs # << >>
    BY <1>4, <1>a DEF WriteNext
  <2>2. Tail(todo.recs) \in Seq(TodoSet)
    BY <2>1
  <2>3. ToWrite
    BY <1>4, <1>a, <2>2 DEF WriteNext, ToWrite
  <2> QED BY <1>4, <2>3, <1>2, <1>h, <1>e DEF WriteNext
<1>5. CASE FinishWrites
  <2>1. UNCHANGED <<main, pl, seats, files, info>> /\ sc' = "idle" /\ todo' = NoTodo
    BY <1>5 DEF FinishWrites
  <2>2. CASE phase = "starting"
    BY <2>1, <2>2, <1>2, <1>b, <1>c, <1>h
  <2>3. CASE phase # "starting"
    <3>1. phase' = IF phase = "creating" THEN "recovered" ELSE phase
      BY <1>5, <2>3 DEF FinishWrites
    <3>2. Where /\ Room /\ Outside /\ Returns /\ Before
      BY <2>1, <2>3, <3>1, <1>a, <1>b DEF Where, Room, Outside, Returns, Before
    <3> QED BY <2>1, <3>2, <1>2, <1>h
  <2> QED BY <2>2, <2>3
<1>6. CASE Commands
  <2>1. ASSUME NEW u \in Users, NEW to \in Spots, MoveBegin(u, to) PROVE Goal
    <3>1. main' = [pc |-> "move", u |-> u, to |-> to] /\ phase' = phase /\ phase = "running"
            /\ UNCHANGED <<sc, todo>>
      BY <2>1 DEF MoveBegin, Ready
    <3>2. Where
      BY <3>1 DEF Where, MainType
    <3> QED BY <3>1, <3>2, <1>g, <1>h
  <2>2. ASSUME NEW u \in Users, NEW idx \in Slots, UseTake(u, idx) PROVE Goal
    <3>1. main' = [pc |-> "used", u |-> u, item |-> pl[u].inv[idx], idx |-> idx]
            /\ phase' = phase /\ phase = "running" /\ UNCHANGED <<sc, todo>>
            /\ idx \in DOMAIN pl[u].inv
      BY <2>2 DEF UseTake, Ready
    <3>2. pl[u].inv \in Seq(ItemType)
      BY <1>f DEF PlayerType
    <3>3. pl[u].inv[idx] \in ItemType
      BY <3>1, <3>2
    <3>4. Where
      BY <3>1, <3>3 DEF Where, MainType
    <3> QED BY <3>1, <3>4, <1>g, <1>h
  <2>3. ASSUME NEW u \in Users, NEW v \in Users, Attack(u, v) PROVE Goal
    <3>1. main' \in {Idle, [pc |-> "hit", u |-> v]} /\ phase' = phase /\ phase = "running"
            /\ UNCHANGED <<sc, todo>>
      BY <2>3 DEF Attack, Ready
    <3>2. CASE main' = Idle
      BY <3>1, <3>2, <1>h, <1>c
    <3>3. CASE main' = [pc |-> "hit", u |-> v]
      <4>1. Where
        BY <3>3 DEF Where, MainType
      <4> QED BY <3>1, <3>3, <4>1, <1>g, <1>h
    <3> QED BY <3>1, <3>2, <3>3
  <2>4. ASSUME NEW u \in Users, Leave(u) PROVE Goal
    <3>1. main' = main /\ main = Idle
      BY <2>4, <1>a DEF Leave, MainType
    <3>2. sc' \in {sc, "idle"} /\ todo' \in {todo, NoTodo}
      BY <2>4 DEF Leave
    <3> QED BY <3>1, <3>2, <1>h, <1>c
  <2>5. ASSUME NEW u \in Users, NEW pid \in 1..MaxPid, Login(u, pid) PROVE Goal
    <3>1. /\ main' = [pc |-> "seat", u |-> u, pid |-> pid] /\ sc' = sc
          /\ u \notin ToSet(seats) /\ seats' = seats /\ info' = info
          /\ u \in MayReturn(files, info)
      BY <2>5 DEF Login, InRoom
    <3>2. files' = files \/ files' = files \cup {"wal"}
      BY <2>5 DEF Login
    <3>3. MayReturn(files', info') = MayReturn(files, info)
      BY <3>1, <3>2 DEF MayReturn, Living
    <3>4. main' \in MainType
      BY <3>1 DEF MainType
    <3>7. Where
      BY <3>4 DEF Where
    <3>5. phase' \in {"running", "creating"}
      BY <2>5 DEF Login
    <3>6. ToWrite
      <4>1. CASE phase = "running"
        BY <2>5, <4>1, <1>h DEF Login
      <4>2. CASE phase # "running"
        BY <2>5, <4>2, <1>0, LoginRow DEF Types, ToWrite
      <4> QED BY <4>1, <4>2
    <3>8. Room /\ Outside /\ Returns /\ Before
      BY <3>1, <3>3, <3>5 DEF Room, Outside, Returns, Before
    <3> QED BY <3>1, <3>6, <3>7, <3>8, <1>h
  <2>6. ASSUME MoveEnd PROVE Goal
    <3> DEFINE n == IF Len(pl[main.u].inv) < MAX_INVENTORY THEN ItemAt(items, main.to) ELSE 0
    <3>1. /\ pl' = [pl EXCEPT ![main.u].pos = main.to] /\ main.pc = "move"
          /\ phase' = phase /\ phase \in {"running", "ended"} /\ UNCHANGED <<sc, todo>>
          /\ \/ main' = Idle
             \/ n # 0 /\ main' = [pc |-> "pickup", u |-> main.u, item |-> items[n].type]
      BY <2>6 DEF MoveEnd
    <3>2. main.u \in Users
      BY <3>1, <1>a DEF MainType, Idle
    <3>3. CASE main' = Idle
      BY <3>1, <3>3, <1>h, <1>c
    <3>4. CASE n # 0 /\ main' = [pc |-> "pickup", u |-> main.u, item |-> items[n].type]
      <4>1. items \in Seq(MapItem) /\ Len(items) \in Nat
        BY <1>0, SnapshotType
      <4>2. n = ItemAt(items, main.to) /\ Len(pl[main.u].inv) < MAX_INVENTORY
        BY <3>4
      <4> HIDE DEF n
      <4>3. items[n] \in MapItem /\ items[n].active
        BY <3>4, <4>1, <4>2, FindItem
      <4>4. items[n].type \in ItemType
        BY <4>3 DEF MapItem
      <4>5. pl'[main.u].inv = pl[main.u].inv
        BY <3>1, <3>2, <1>f DEF PlayerType
      <4>6. main'.pc = "pickup" /\ main'.u = main.u
        BY <3>4
      <4>7. Where
        BY <3>2, <3>4, <4>4 DEF Where, MainType
      <4>8. Room /\ Outside /\ Returns /\ Before
        BY <3>1, <4>2, <4>5, <4>6 DEF Room, Outside, Returns, Before
      <4> QED BY <3>1, <4>7, <4>8, <1>h
    <3> QED BY <3>1, <3>3, <3>4
  <2>7. ASSUME AddItem \/ UseEffect \/ AttackDeath PROVE Goal
    <3>1. main' = Idle /\ UNCHANGED <<sc, todo>>
      BY <2>7 DEF AddItem, UseEffect, AttackDeath
    <3> QED BY <3>1, <1>h, <1>c
  <2>8. ASSUME UseLog PROVE Goal
    <3>1. main' = [main EXCEPT !.pc = "effect"] /\ main.pc = "used" /\ phase' = phase
            /\ phase \in {"running", "ended"} /\ UNCHANGED <<sc, todo>>
      BY <2>8 DEF UseLog
    <3>2. main \in [pc : {"used", "effect"}, u : Users, item : ItemType, idx : Slots]
      BY <3>1, <1>a DEF MainType, Idle
    <3>3. Where /\ main'.pc = "effect"
      BY <3>1, <3>2 DEF Where, MainType
    <3> QED BY <3>1, <3>3, <1>g, <1>h
  <2>9. ASSUME Seat PROVE Goal
    <3>1. main' = [main EXCEPT !.pc = "state"] /\ main.pc = "seat" /\ phase' = phase
            /\ phase \in {"recovered", "running"} /\ UNCHANGED <<sc, todo, files, info>>
      BY <2>9 DEF Seat, disk
    <3>2. main \in [pc : {"seat", "state", "record"}, u : Users, pid : 1..MaxPid]
      BY <3>1, <1>a DEF MainType, Idle
    <3>3. Where /\ main'.pc # "pickup" /\ main'.pc # "seat" /\ main'.u = main.u
      BY <3>1, <3>2 DEF Where, MainType
    <3>4. Room /\ Outside /\ Returns /\ Before
      BY <3>1, <3>3, <1>b DEF Room, Outside, Returns, Before
    <3> QED BY <3>1, <3>3, <3>4, <1>h
  <2>10. ASSUME Restore PROVE Goal
    <3>1. main' = [main EXCEPT !.pc = "record"] /\ main.pc = "state" /\ phase' = phase
            /\ phase \in {"recovered", "running"} /\ UNCHANGED <<sc, todo, files, info>>
      BY <2>10 DEF Restore, disk
    <3>2. main \in [pc : {"seat", "state", "record"}, u : Users, pid : 1..MaxPid]
      BY <3>1, <1>a DEF MainType, Idle
    <3>3. Where /\ main'.pc # "pickup" /\ main'.pc # "seat" /\ main'.u = main.u
      BY <3>1, <3>2 DEF Where, MainType
    <3>4. Room /\ Outside /\ Returns /\ Before
      BY <3>1, <3>3, <1>b DEF Room, Outside, Returns, Before
    <3> QED BY <3>1, <3>3, <3>4, <1>h
  <2>11. ASSUME RestoreRecord PROVE Goal
    BY <2>11, <1>h, <1>c DEF RestoreRecord
  <2> QED BY <1>2, <1>6, <2>1, <2>2, <2>3, <2>4, <2>5, <2>6, <2>7, <2>8, <2>9, <2>10, <2>11 DEF Commands
<1>7. CASE GameThread
  <2>a. ASSUME pl' \in [Users -> PlayerType], \A w \in Users : pl'[w].inv = pl[w].inv,
               UNCHANGED <<main, seats, phase, files, info, sc, todo>>
        PROVE  Goal
    <3>1. main.pc = "pickup" => main.u \in Users
      BY <1>a DEF MainType, Idle
    <3>2. Where /\ Room /\ Outside /\ Returns /\ Before
      BY <2>a, <3>1, <1>a, <1>b DEF Where, Room, Outside, Returns, Before
    <3> QED BY <2>a, <3>2, <1>h
  <2>1. ASSUME NEW u \in Users, BuffExpires(u) PROVE Goal
    <3>1. \A w \in Users : pl'[w].inv = pl[w].inv
      BY <2>1, <1>f DEF BuffExpires, PlayerType
    <3> QED BY <2>1, <2>a, <3>1, PlayersKept DEF BuffExpires
  <2>2. ASSUME NEW u \in Users, PoisonHurts(u) PROVE Goal
    <3>1. \A w \in Users : pl'[w].inv = pl[w].inv
      <4> DEFINE p == [pl[u] EXCEPT !.hp = pl[u].hp - POISON]
                 q == [pl[u] EXCEPT !.hp = 0, !.status = "DEAD"]
      <4>1. pl' = [pl EXCEPT ![u] = p] \/ pl' = [pl EXCEPT ![u] = q]
        BY <2>2, <1>f DEF PoisonHurts
      <4>2. p.inv = pl[u].inv /\ q.inv = pl[u].inv
        BY <1>f DEF PlayerType
      <4> HIDE DEF p, q
      <4> QED BY <4>1, <4>2, <1>f
    <3> QED BY <2>2, <2>a, <3>1, PlayersKept DEF PoisonHurts
  <2>3. ASSUME NEW pos \in Spots, NEW type \in ItemType, SpawnItem(pos, type) PROVE Goal
    BY <2>3, <1>h, <1>e DEF SpawnItem
  <2>4. ASSUME Shrink \/ WaitOver PROVE Goal
    BY <2>4, <1>h, <1>e DEF Shrink, WaitOver, disk
  <2>5. ASSUME SnapshotCollect PROVE Goal
    <3>1. files' = files \cup {"snap"} /\ info' = info
      BY <2>5 DEF SnapshotCollect
    <3>2. MayReturn(files', info') = MayReturn(files, info)
      BY <3>1 DEF MayReturn, Living
    <3>3. UNCHANGED <<main, pl, seats, phase, todo>> /\ sc' = "collected"
      BY <2>5 DEF SnapshotCollect
    <3>4. Where /\ Room /\ Outside /\ Returns /\ Before
      BY <3>2, <3>3, <1>a, <1>b DEF Where, Room, Outside, Returns, Before
    <3> QED BY <3>3, <3>4, <1>h
  <2>6. ASSUME SnapshotTruncate PROVE Goal
    <3>5. ToWrite
      BY <2>6, <1>0, TruncateRow DEF Types, ToWrite
    <3>6. sc' = "writing" /\ UNCHANGED <<main, pl, seats, phase, files, info>>
      BY <2>6 DEF SnapshotTruncate
    <3> QED BY <3>5, <3>6, <1>e, <1>h
  <2>7. ASSUME EndGame \/ DeleteWal \/ DeleteSnapshot \/ DeleteRecovery PROVE Goal
    <3>1. UNCHANGED mem /\ phase' \notin {"creating", "recovered", "running", "waiting", "starting",
                                           "down", "none"}
      BY <2>7 DEF EndGame, DeleteWal, DeleteSnapshot, DeleteRecovery
    <3>2. UNCHANGED <<main, pl, seats, sc, todo>>
      BY <3>1 DEF mem
    <3>3. Where /\ Room /\ Outside /\ Returns /\ Before
      BY <3>1, <3>2, <1>a, <1>b DEF Where, Room, Outside, Returns, Before
    <3> QED BY <3>2, <3>3, <1>h
  <2> QED BY <1>2, <1>7, <2>1, <2>2, <2>3, <2>4, <2>5, <2>6, <2>7 DEF GameThread
<1>8. CASE Crash
  BY <1>8, <1>2, <1>c, <1>h DEF Crash
<1>9. CASE Boot
  <2>1. main' = Idle /\ UNCHANGED <<sc, todo>>
    BY <1>9, <1>b DEF Boot, mem
  <2> QED BY <2>1, <1>2, <1>h, <1>c
<1>10. CASE UNCHANGED vars
  BY <1>10, <1>2, <1>h, <1>e DEF vars, mem, disk
<1> QED BY <1>3, <1>4, <1>5, <1>6, <1>7, <1>8, <1>9, <1>10 DEF Next

\* A row of users, each of them once: how the room is filled at first.
LEMMA EveryUserOnce == SetToSeq(Users) \in Seq(Users) /\ IsInjective(SetToSeq(Users))
                         /\ ToSet(SetToSeq(Users)) \subseteq Users
<1>1. ExistsBijection(1..Cardinality(Users), Users)
  BY NumbersOfGame, FS_CardinalityType
<1>2. \E f \in [1..Cardinality(Users) -> Users] : IsInjective(f)
  BY <1>1 DEF ExistsBijection, Bijection, Injection, IsInjective
<1>3. SetToSeq(Users) \in [1..Cardinality(Users) -> Users] /\ IsInjective(SetToSeq(Users))
  BY <1>2 DEF SetToSeq
<1> QED BY <1>3, NumbersOfGame DEF ToSet

\* Who sits down is in the room as well.
LEMMA OneMoreSeat ==
    ASSUME NEW s \in Seq(Users), NEW u \in Users
    PROVE  ToSet(Append(s, u)) = ToSet(s) \cup {u}
<1> DEFINE more == Append(s, u)
<1>1. /\ DOMAIN more = 1..Len(s) + 1 /\ more[Len(s) + 1] = u /\ Len(s) \in Nat
      /\ DOMAIN s = 1..Len(s) /\ \A i \in 1..Len(s) : more[i] = s[i]
  OBVIOUS
<1> HIDE DEF more
<1>2. ToSet(more) \subseteq ToSet(s) \cup {u}
  <2> SUFFICES ASSUME NEW i \in DOMAIN more PROVE more[i] \in ToSet(s) \cup {u}
    BY DEF ToSet
  <2>1. CASE i = Len(s) + 1
    BY <1>1, <2>1
  <2>2. CASE i \in 1..Len(s)
    BY <1>1, <2>2 DEF ToSet
  <2> QED BY <1>1, <2>1, <2>2
<1>3. ToSet(s) \cup {u} \subseteq ToSet(more)
  <2>1. u \in ToSet(more)
    <3>1. Len(s) + 1 \in DOMAIN more
      BY <1>1
    <3> QED BY <1>1, <3>1 DEF ToSet
  <2>2. ASSUME NEW i \in DOMAIN s PROVE s[i] \in ToSet(more)
    <3>1. i \in DOMAIN more /\ more[i] = s[i]
      BY <1>1, <2>2
    <3> QED BY <3>1 DEF ToSet
  <2> QED BY <2>1, <2>2 DEF ToSet
<1> QED BY <1>2, <1>3 DEF more

\* The types hold of a game that waits for its players.
LEMMA TypesInit == Init => Types
<1> SUFFICES ASSUME Init PROVE Types
  OBVIOUS
<1>1. PICK pid \in [Users -> 1..Cardinality(Users)] : pl = [u \in Users |-> Fresh(pid[u])]
  BY DEF Init
<1>2. \A u \in Users : PlayerOK(Fresh(pid[u]))
  <2> TAKE u \in Users
  <2>1. pid[u] \in 0..MaxPid
    BY NumbersOfGame
  <2> QED BY <2>1, FreshOK
<1>3. pl \in [Users -> PlayerType]
        /\ \A u \in Users : pl[u].hp <= INITIAL_HP /\ Len(pl[u].inv) <= MAX_INVENTORY
  BY <1>1, <1>2 DEF PlayerOK
<1>4. seats \in Seq(Users) /\ IsInjective(seats)
  BY EveryUserOnce DEF Init
<1>5. items \in [1..MAX_MAP_ITEMS -> MapItem]
  BY DEF Init, NoItem, NoItems, MapItem, Places
<1>6. items \in [1..MAX_MAP_ITEMS -> ItemsType]
  BY <1>5 DEF MapItem, ItemsType, Places
<1>7. TypeOK
  <2>1. nextPid \in 1..MaxPid + 1
    BY NumbersOfGame DEF Init
  <2>2. radius \in 1..InitialRadius /\ expected \in 0..MAX_ROOM_PLAYERS
    BY Numbers DEF Init
  <2>3. phase \in Phases /\ files \subseteq {"wal", "snap", "recovery"}
          /\ torn \in Torn /\ revived \in BOOLEAN
    BY DEF Init, Phases, Torn
  <2> QED BY <1>3, <1>4, <1>6, <2>1, <2>2, <2>3 DEF TypeOK
<1>8. Locals
  <2>1. NoTodo \in [by : {"none", "main", "game"}, recs : Seq(TodoSet)]
    <3>1. << >> \in Seq(TodoSet)
      OBVIOUS
    <3> HIDE DEF TodoSet
    <3> QED BY <3>1 DEF NoTodo
  <2>2. main = Idle /\ sc = "idle" /\ todo = NoTodo
    BY DEF Init
  <2> QED BY <1>5, <2>1, <2>2 DEF Locals, Idle, MainType
<1>9. Disk
  <2> DEFINE e == EmptyLog
  <2>1. log = <<e>> /\ e \in LogType /\ snap = Blank /\ info = Blank
    BY EmptyLogType DEF Init, NoInfo
  <2> HIDE DEF e
  <2>2. log \in Seq(LogType) /\ Len(log) > 0
    BY <2>1
  <2> QED BY <2>1, <2>2, BlankReplayed DEF Disk
<1> QED BY <1>7, <1>8, <1>9 DEF Types

\* The types are kept.
LEMMA TypesKept == Types /\ [Next]_vars => Types'
<1> SUFFICES ASSUME Types, [Next]_vars PROVE Types'
  OBVIOUS
<1>1. items' \in [1..MAX_MAP_ITEMS -> ItemsType]
  BY RestKept DEF MapItem, ItemsType, Places
<1>2. \A u \in Users : pl'[u].hp <= INITIAL_HP /\ Len(pl'[u].inv) <= MAX_INVENTORY
  BY PlayersKept DEF PlayerOK
<1>3. TypeOK'
  BY <1>1, <1>2, PlayersKept, SeatsKept, RestKept DEF TypeOK
<1> QED BY <1>3, LocalsKept, DiskKept DEF Types

\* The types hold throughout.
LEMMA AlwaysTyped == Spec => []Types
BY TypesInit, TypesKept, PTL DEF Spec

\* The values the game, its log and its files keep to, at every step and after any
\* number of crashes: no user has two seats, an inventory never holds more than
\* player_add_item() lets in, the poison never closes in altogether
\* (player.c:267-284, game.c:452-492).
THEOREM TypeCorrect == Spec => []TypeOK
<1>1. Types => TypeOK
  BY DEF Types
<1> QED BY <1>1, AlwaysTyped, PTL

-----------------------------------------------------------------------------
(***************************************************************************)
(* The zone of a recovered game.                                           *)
(***************************************************************************)
\* A write adds one place to cut the log at, or leaves one only.
LEMMA PlacesOfTheLog ==
    ASSUME Disk, NEW r, NEW Good
    PROVE  /\ /\ \A n \in DOMAIN log : log[n] \in Good
              /\ Feed(Last(log), r) \in Good
              /\ WalWrite(r) \/ WriteSynced(r)
              => \A n \in DOMAIN log' : log'[n] \in Good
           /\ /\ \A n \in DOMAIN log : log[n] \in Good
              /\ KeepLog \/ WalSync
              => \A n \in DOMAIN log' : log'[n] \in Good
           /\ EmptyLog \in Good /\ NewLog => \A n \in DOMAIN log' : log'[n] \in Good
<1>1. log \in Seq(LogType) /\ Len(log) > 0 /\ DOMAIN log = 1..Len(log)
  BY DEF Disk
<1>2. Last(log) = log[Len(log)] /\ Len(log) \in DOMAIN log
  BY <1>1 DEF Last
<1>3. ASSUME NEW x \in Good, log' = <<x>> PROVE \A n \in DOMAIN log' : log'[n] \in Good
  BY <1>3
<1>4. ASSUME NEW x \in Good, \A n \in DOMAIN log : log[n] \in Good, log' = Append(log, x)
      PROVE  \A n \in DOMAIN log' : log'[n] \in Good
  BY <1>1, <1>4
<1>5. ASSUME \A n \in DOMAIN log : log[n] \in Good, Feed(Last(log), r) \in Good,
             WalWrite(r) \/ WriteSynced(r)
      PROVE  \A n \in DOMAIN log' : log'[n] \in Good
  <2> DEFINE f == Feed(Last(log), r)
  <2>1. f \in Good /\ (log' = <<f>> \/ log' = Append(log, f))
    BY <1>5 DEF WalWrite, WriteSynced
  <2> HIDE DEF f
  <2> QED BY <2>1, <1>3, <1>4, <1>5
<1>6. ASSUME \A n \in DOMAIN log : log[n] \in Good, KeepLog \/ WalSync
      PROVE  \A n \in DOMAIN log' : log'[n] \in Good
  <2>1. CASE KeepLog
    BY <1>6, <2>1 DEF KeepLog
  <2>2. CASE WalSync
    <3> DEFINE l == Last(log)
    <3>1. l \in Good /\ log' = <<l>>
      BY <2>2, <1>2, <1>6 DEF WalSync
    <3> HIDE DEF l
    <3> QED BY <3>1, <1>3
  <2> QED BY <1>6, <2>1, <2>2
<1>7. ASSUME EmptyLog \in Good, NewLog PROVE \A n \in DOMAIN log' : log'[n] \in Good
  <2> DEFINE e == EmptyLog
  <2>1. e \in Good /\ log' = <<e>>
    BY <1>7 DEF NewLog
  <2> HIDE DEF e
  <2> QED BY <2>1, <1>3
<1> QED BY <1>5, <1>6, <1>7

LivePhases == {"starting", "running", "creating", "recovered"}

\* The logs without GAME_END in which the poison is no closer than in memory.
Wide(r) == {l \in LogType : ~l.ended /\ l.st.radius >= r}

\* What keeps the poison from closer: neither the log nor the records still to write
\* go beyond the zone in memory, nor does the snapshot, and a .recovery file written
\* next to a snapshot has the radius of the snapshot.
Zone ==
    /\ phase = "waiting" => files = {} /\ todo = NoTodo /\ sc = "idle" /\ log = <<EmptyLog>>
    /\ phase \in LivePhases =>
         /\ "wal" \in files
         /\ \A n \in DOMAIN log : log[n] \in Wide(radius)
         /\ \A i \in 1..Len(todo.recs) :
              todo.recs[i].t = "POISON_SHRINK" => todo.recs[i].radius >= radius
         /\ ~revived /\ "snap" \in files => snap.radius >= radius
    /\ phase = "none" /\ ~revived /\ {"recovery", "snap"} \subseteq files =>
         snap.radius >= info.radius

\* Which radius the next start takes.
LEMMA RadiusRecovered ==
    ASSUME NEW F \in SUBSET {"wal", "snap", "recovery"}, NEW l \in LogType,
           NEW sn \in Replayed, NEW inf \in Replayed, Recoverable(F, l),
           NEW after, after = CheckAndRecover(F, l, sn, inf), "recovery" \in after.files
    PROVE  /\ "snap" \in F => after.info.radius = sn.radius
           /\ "snap" \notin F => after.info.radius = l.st.radius
           /\ "snap" \in after.files => "snap" \in F
<1> DEFINE s == IF HasPlayerData(F, l) THEN SaveRecoveryInfo(FromWal(l, "snap" \in F, sn))
                ELSE SnapshotLoad(sn)
<1>1. after = RecoverRoom(F, l, sn)
  BY DEF CheckAndRecover
<1>2. HasPlayerData(F, l) \/ "snap" \in F => ("recovery" \in after.files => after.info = s)
  BY <1>1 DEF RecoverRoom
<1>3. ~HasPlayerData(F, l) /\ "snap" \notin F => "recovery" \notin after.files
  BY <1>1 DEF RecoverRoom
<1>4. "snap" \in after.files => "snap" \in F
  BY <1>1 DEF RecoverRoom
<1>5. HasPlayerData(F, l) => s.radius = IF "snap" \in F THEN sn.radius ELSE l.st.radius
  <2> DEFINE w == FromWal(l, "snap" \in F, sn)
  <2>1. w \in Replayed /\ w.radius = IF "snap" \in F THEN sn.radius ELSE l.st.radius
    <3>1. /\ "snap" \in F => w = FromWal(l, TRUE, sn)
          /\ "snap" \notin F => w = FromWal(l, FALSE, sn)
      BY DEF FromWal
    <3>2. /\ FromWal(l, TRUE, sn) \in Replayed /\ FromWal(l, TRUE, sn).radius = sn.radius
          /\ FromWal(l, FALSE, sn) \in Replayed /\ FromWal(l, FALSE, sn).radius = l.st.radius
      BY FromWalType
    <3> HIDE DEF w
    <3> QED BY <3>1, <3>2
  <2> HIDE DEF w
  <2>2. SaveRecoveryInfo(w).radius = w.radius
    BY <2>1, InfoType
  <2>3. HasPlayerData(F, l) => s = SaveRecoveryInfo(w)
    BY DEF w
  <2> QED BY <2>1, <2>2, <2>3
<1>6. ~HasPlayerData(F, l) => s.radius = sn.radius
  BY InfoType DEF SnapshotLoad
<1> HIDE DEF s
<1> QED BY <1>2, <1>3, <1>4, <1>5, <1>6

\* A record that is neither GAME_END nor beyond the zone keeps the log wide.
LEMMA StaysWide ==
    ASSUME NEW l \in LogType, NEW q \in Int, l \in Wide(q), NEW r, RecordOK(r), r.t # "GAME_END",
           r.t = "POISON_SHRINK" => r.radius >= q
    PROVE  Feed(l, r) \in Wide(q)
<1>1. Feed(l, r) \in LogType /\ Feed(l, r).st = Apply(l.st, r) /\ ~Feed(l, r).ended
  BY FeedType DEF Wide
<1>2. l.st \in Replayed
  BY DEF LogType
<1>3. Apply(l.st, r).radius = IF r.t = "POISON_SHRINK" THEN r.radius ELSE l.st.radius
  BY <1>2, ApplyType
<1> QED BY <1>1, <1>3 DEF Wide

\* Every step keeps the zone of each file as wide as that of the game, or wider.
LEMMA ZoneKept == Types /\ Zone /\ [Next]_vars => Zone'
<1> SUFFICES ASSUME Types, Zone, [Next]_vars PROVE Zone'
  OBVIOUS
<1>0. TypeOK /\ Locals /\ Disk /\ TypeOK' /\ Disk'
  BY TypesKept DEF Types
<1> DEFINE Waiting == phase' = "waiting" =>
                         files' = {} /\ todo' = NoTodo /\ sc' = "idle" /\ log' = <<EmptyLog>>
           WideLog == \A n \in DOMAIN log' : log'[n] \in Wide(radius')
           ToWrite == \A i \in 1..Len(todo'.recs) :
                        todo'.recs[i].t = "POISON_SHRINK" => todo'.recs[i].radius >= radius'
           WideSnap == ~revived' /\ "snap" \in files' => snap'.radius >= radius'
           Live == phase' \in LivePhases => "wal" \in files' /\ WideLog /\ ToWrite /\ WideSnap
           Between == phase' = "none" /\ ~revived' /\ {"recovery", "snap"} \subseteq files' =>
                        snap'.radius >= info'.radius
<1>1. Waiting /\ Live /\ Between => Zone'
  BY DEF Zone
<1>a. phase' \notin LivePhases \cup {"waiting", "none"} => Waiting /\ Live /\ Between
  BY DEF LivePhases
<1>b. /\ radius \in Int /\ radius' \in Int /\ snap.radius \in Int /\ snap'.radius \in Int
      /\ radius \in 1..InitialRadius /\ radius' \in 1..InitialRadius
      /\ log \in Seq(LogType) /\ Len(log) > 0 /\ DOMAIN log = 1..Len(log)
      /\ Last(log) = log[Len(log)] /\ Len(log) \in DOMAIN log
  <2>1. radius \in 1..InitialRadius /\ radius' \in 1..InitialRadius
    BY <1>0 DEF TypeOK
  <2>2. snap \in Replayed /\ snap' \in Replayed /\ log \in Seq(LogType) /\ Len(log) > 0
    BY <1>0 DEF Disk
  <2>3. snap.radius \in 1..InitialRadius /\ snap'.radius \in 1..InitialRadius
    BY <2>2 DEF Replayed
  <2>4. DOMAIN log = 1..Len(log) /\ Last(log) = log[Len(log)] /\ Len(log) \in DOMAIN log
    BY <2>2 DEF Last
  <2> QED BY <2>1, <2>2, <2>3, <2>4, Numbers
<1>c. phase \in LivePhases =>
         /\ "wal" \in files
         /\ \A n \in DOMAIN log : log[n] \in Wide(radius)
         /\ \A i \in 1..Len(todo.recs) :
              todo.recs[i].t = "POISON_SHRINK" => todo.recs[i].radius >= radius
         /\ ~revived /\ "snap" \in files => snap.radius >= radius
  BY DEF Zone
<1>d. /\ phase = "waiting" => files = {} /\ todo = NoTodo /\ sc = "idle" /\ log = <<EmptyLog>>
      /\ phase = "none" /\ ~revived /\ {"recovery", "snap"} \subseteq files =>
           snap.radius >= info.radius
  BY DEF Zone
<1>e. EmptyLog \in Wide(radius')
  BY <1>b, EmptyLogType DEF EmptyLog, Blank, Wide
\* The step of a live game that writes at most one record and does not shrink the zone.
<1>f. ASSUME phase \in LivePhases, phase' \in LivePhases, radius' = radius,
             WideLog, ToWrite, UNCHANGED <<snap, revived>>,
             files' \in {files, files \ {"recovery"}}
      PROVE  Zone'
  <2>1. "wal" \in files' /\ WideSnap
    BY <1>c, <1>f
  <2>2. Waiting /\ Between
    BY <1>f DEF LivePhases
  <2> QED BY <1>1, <1>f, <2>1, <2>2
<1>g. ASSUME NEW r, RecordOK(r), r.t # "GAME_END", r.t = "POISON_SHRINK" => r.radius >= radius',
             WalWrite(r) \/ WriteSynced(r), phase \in LivePhases, radius' <= radius
      PROVE  WideLog
  <2>1. \A n \in DOMAIN log : log[n] \in Wide(radius')
    <3> TAKE n \in DOMAIN log
    <3>1. log[n] \in Wide(radius) /\ log[n] \in LogType
      BY <1>b, <1>c, <1>g
    <3>2. log[n].st.radius \in Int
      BY <3>1 DEF LogType, Replayed
    <3> QED BY <1>b, <1>g, <3>1, <3>2 DEF Wide
  <2> DEFINE l == Last(log)
  <2>2. l \in LogType /\ l \in Wide(radius')
    BY <1>b, <2>1
  <2> HIDE DEF l
  <2>3. Feed(l, r) \in Wide(radius')
    BY <1>b, <1>g, <2>2, StaysWide
  <2> QED BY <1>0, <1>g, <2>1, <2>3, PlacesOfTheLog DEF l
<1>h. phase \in LivePhases /\ radius' = radius /\ (KeepLog \/ WalSync) => WideLog
  BY <1>0, <1>c, PlacesOfTheLog
<1>i. phase \in LivePhases /\ UNCHANGED <<radius, todo>> => ToWrite
  BY <1>c
<1>j. NewLog => WideLog
  BY <1>0, <1>e, PlacesOfTheLog
<1>k. \A i \in 1..Len(todo.recs) : todo.recs[i] \in TodoSet
  BY <1>0 DEF Locals
<1>m. todo' = NoTodo => ToWrite
  BY DEF NoTodo
<1> HIDE DEF WideLog, ToWrite
<1>2. CASE StartGame
  <2>1. log = <<EmptyLog>> /\ phase' = "starting" /\ files' = {"wal"} /\ log' = log
    BY <1>2, <1>d DEF StartGame
  <2>2. WideLog
    BY <2>1, <1>j DEF NewLog
  <2>3. \A i \in 1..Len(todo'.recs) : todo'.recs[i].t # "POISON_SHRINK"
    BY <1>2, StartRow, RestKept
  <2>4. ToWrite
    BY <2>3 DEF ToWrite
  <2> QED BY <2>1, <2>2, <2>4, <1>1 DEF LivePhases
<1>3. CASE WriteNext
  <2> DEFINE r == Head(todo.recs)
  <2>1. todo.recs \in Seq(TodoSet) /\ todo.recs # << >>
    BY <1>0, <1>3 DEF WriteNext, Locals
  <2>2. r = todo.recs[1] /\ 1 \in 1..Len(todo.recs)
    BY <2>1
  <2>3. RecordOK(r) /\ r.t # "GAME_END"
    <3>1. r \in TodoSet
      BY <2>1, <2>2
    <3>2. r.t # "GAME_END"
      BY <3>1 DEF TodoSet, GameStart, Checkpoint, JoinSet, SpawnSet, ShrinkSet
    <3> QED BY <3>1, <3>2, TodoOK
  <2>4. phase' = phase /\ WalWrite(r) /\ UNCHANGED <<radius, files, snap, info, revived, sc>>
          /\ todo' = [todo EXCEPT !.recs = Tail(todo.recs)]
    BY <1>3 DEF WriteNext, hist
  <2>5. todo'.recs = Tail(todo.recs)
    BY <2>4, <1>0 DEF Locals
  <2>6. CASE phase \in LivePhases
    <3>1. r.t = "POISON_SHRINK" => r.radius >= radius'
      BY <2>2, <2>4, <2>6, <1>c
    <3>2. WideLog
      <4> HIDE DEF r
      <4> QED BY <2>3, <2>4, <2>6, <3>1, <1>b, <1>g
    <3>3. ToWrite
      <4>1. ASSUME NEW i \in 1..Len(todo'.recs)
            PROVE  i + 1 \in 1..Len(todo.recs) /\ todo'.recs[i] = todo.recs[i + 1]
        <5> HIDE DEF TodoSet
        <5> QED BY <2>1, <2>5
      <4> QED BY <4>1, <2>4, <2>6, <1>c DEF ToWrite
    <3> QED BY <2>4, <2>6, <3>2, <3>3, <1>f
  <2>7. CASE phase = "none"
    BY <2>4, <2>7, <1>d, <1>1 DEF LivePhases
  <2>8. phase # "waiting"
    BY <2>1, <1>d DEF NoTodo
  <2> QED BY <2>4, <2>6, <2>7, <2>8, <1>a, <1>1
<1>4. CASE FinishWrites
  <2>1. UNCHANGED <<radius, files, snap, info, revived>> /\ WalSync /\ todo' = NoTodo
          /\ sc' = "idle"
    BY <1>4 DEF FinishWrites, hist
  <2>2. phase' = IF phase = "starting" THEN "running"
                 ELSE IF phase = "creating" THEN "recovered" ELSE phase
    BY <1>4 DEF FinishWrites
  <2>3. phase # "waiting"
    BY <1>4, <1>d DEF FinishWrites, NoTodo
  <2>4. CASE phase \in LivePhases
    <3>1. phase' \in LivePhases
      BY <2>2, <2>4 DEF LivePhases
    <3> QED BY <2>1, <2>4, <3>1, <1>f, <1>h, <1>m
  <2>5. CASE phase = "none"
    BY <2>1, <2>2, <2>5, <1>d, <1>1 DEF LivePhases
  <2>6. CASE phase \notin LivePhases \cup {"none"}
    BY <2>2, <2>3, <2>6, <1>a, <1>1 DEF LivePhases
  <2> QED BY <2>4, <2>5, <2>6
<1>5. CASE Commands
  <2>1. ASSUME NEW u \in Users, NEW to \in Spots, MoveBegin(u, to) PROVE Zone'
    <3>1. RecordOK(Move(pl[u].pid, to)) /\ Move(pl[u].pid, to).t = "MOVE"
      BY DEF RecordOK, Move, Places
    <3>2. WideLog
      <4> DEFINE r == Move(pl[u].pid, to)
      <4>1. WalWrite(r) /\ phase \in LivePhases /\ radius' = radius /\ RecordOK(r) /\ r.t = "MOVE"
        BY <2>1, <3>1 DEF MoveBegin, Ready, LivePhases
      <4> HIDE DEF r
      <4> QED BY <4>1, <1>b, <1>g
    <3> QED BY <2>1, <3>2, <1>f, <1>i DEF MoveBegin, Ready, Marks, LivePhases
  <2>2. ASSUME NEW u \in Users, NEW idx \in Slots, UseTake(u, idx) PROVE Zone'
    BY <2>2, <1>f, <1>h, <1>i DEF UseTake, Ready, Marks, LivePhases
  <2>3. ASSUME NEW u \in Users, NEW v \in Users, Attack(u, v) PROVE Zone'
    <3> DEFINE hp == IF pl[v].shield THEN pl[v].hp
                     ELSE pl[v].hp - (IF pl[u].buff THEN 2 * HIT ELSE HIT)
    <3>1. WalWrite(Damage(pl[v].pid, hp, pl[v].shield))
      BY <2>3 DEF Attack
    <3> HIDE DEF hp
    <3>2. WideLog
      <4>1. RecordOK(Damage(pl[v].pid, hp, pl[v].shield))
        BY <1>0, BlowOK DEF TypeOK, hp
      <4>2. phase \in LivePhases /\ radius' = radius
        BY <2>3 DEF Attack, Ready, LivePhases
      <4> DEFINE r == Damage(pl[v].pid, hp, pl[v].shield)
      <4>3. r.t = "DAMAGE" /\ RecordOK(r) /\ WalWrite(r)
        BY <3>1, <4>1 DEF Damage
      <4> HIDE DEF r
      <4> QED BY <4>2, <4>3, <1>b, <1>g
    <3> QED BY <2>3, <3>2, <1>f, <1>i DEF Attack, Ready, Marks, LivePhases
  <2>4. ASSUME NEW u \in Users, Leave(u) PROVE Zone'
    <3>1. CASE phase' = "gone"
      BY <3>1, <1>a, <1>1 DEF LivePhases
    <3>2. CASE phase' # "gone"
      BY <2>4, <3>2, <1>f, <1>h, <1>i DEF Leave, Marks, LivePhases
    <3> QED BY <3>1, <3>2
  <2>5. ASSUME NEW u \in Users, NEW pid \in 1..MaxPid, Login(u, pid) PROVE Zone'
    <3>1. CASE phase = "running"
      BY <2>5, <3>1, <1>f, <1>h, <1>i DEF Login, Marks, LivePhases, KeepLog
    <3>2. CASE phase = "none"
      <4>1. phase' = "creating" /\ radius' = info.radius /\ files' = files \cup {"wal"} /\ NewLog
              /\ UNCHANGED <<snap, info, revived>>
        BY <2>5, <3>2 DEF Login
      <4>2. "recovery" \in files
        BY <2>5 DEF Login, MayReturn
      <4>3. \A i \in 1..Len(todo'.recs) :
              todo'.recs[i].t = "POISON_SHRINK" => todo'.recs[i].radius = info.radius
        BY <2>5, <3>2, LoginRow
      <4>4. ToWrite
        BY <4>1, <4>3, <1>b DEF ToWrite
      <4>5. WideSnap
        BY <3>2, <4>1, <4>2, <1>d
      <4> QED BY <4>1, <4>4, <4>5, <1>j, <1>1 DEF LivePhases
    <3> QED BY <2>5, <3>1, <3>2 DEF Login
  <2>6. CASE MoveEnd \/ AddItem \/ UseLog \/ UseEffect \/ AttackDeath
    <3>1. phase' = phase /\ phase \in {"running", "ended"}
            /\ UNCHANGED <<radius, todo, sc, files, snap, info, revived>>
      BY <2>6 DEF MoveEnd, AddItem, UseLog, UseEffect, AttackDeath, Marks
    <3>2. CASE phase = "ended"
      BY <3>1, <3>2, <1>a, <1>1 DEF LivePhases
    <3>3. CASE phase = "running"
      <4>1. phase \in LivePhases
        BY <3>3 DEF LivePhases
      <4>2. \/ KeepLog
            \/ \E r : RecordOK(r) /\ r.t \in PlayerRecords /\ WalWrite(r)
        BY <1>0, <2>6, CommandRecord DEF Types
      <4>3. WideLog
        <5>1. CASE KeepLog
          BY <3>1, <4>1, <5>1, <1>h
        <5>2. ASSUME NEW r, RecordOK(r), r.t \in PlayerRecords, WalWrite(r) PROVE WideLog
          <6>1. r.t # "GAME_END" /\ r.t # "POISON_SHRINK"
            BY <5>2 DEF PlayerRecords
          <6> QED BY <3>1, <4>1, <5>2, <6>1, <1>b, <1>g
        <5> QED BY <4>2, <5>1, <5>2
      <4> QED BY <3>1, <4>1, <4>3, <1>f, <1>i
    <3> QED BY <3>1, <3>2, <3>3
  <2>7. CASE Seat \/ Restore
    BY <2>7, <1>f, <1>h, <1>i DEF Seat, Restore, disk, Marks, LivePhases, KeepLog
  <2>8. CASE RestoreRecord
    <3>1. /\ phase \in LivePhases /\ phase' = "running" /\ radius' = radius
          /\ UNCHANGED <<todo, snap, revived>> /\ files' \in {files, files \ {"recovery"}}
      BY <2>8 DEF RestoreRecord, LivePhases
    <3> DEFINE r == Join(main.pid, main.u, Record(main.u))
    <3>2. RecordOK(r) /\ WriteSynced(r) /\ r.t = "PLAYER_JOIN"
      BY <1>0, <2>8, ReturnRecord DEF RestoreRecord, Join, Types
    <3> HIDE DEF r
    <3>3. WideLog
      BY <3>1, <3>2, <1>b, <1>g
    <3> QED BY <3>1, <3>3, <1>f, <1>i DEF LivePhases
  <2> QED BY <1>5, <2>1, <2>2, <2>3, <2>4, <2>5, <2>6, <2>7, <2>8 DEF Commands
<1>6. CASE GameThread
  <2>1. ASSUME NEW u \in Users, BuffExpires(u) PROVE Zone'
    BY <2>1, <1>f, <1>h, <1>i DEF BuffExpires, Tick, hist, LivePhases
  <2>2. ASSUME NEW u \in Users, PoisonHurts(u) PROVE Zone'
    <3>1. RecordOK(Death(pl[u].pid)) /\ Death(pl[u].pid).t = "PLAYER_DEATH"
      BY DEF RecordOK, Death
    <3>2. phase \in LivePhases /\ (KeepLog \/ WalWrite(Death(pl[u].pid)))
            /\ UNCHANGED <<phase, radius, todo, snap, revived, files>>
      BY <2>2 DEF PoisonHurts, Tick, LivePhases, hist
    <3> DEFINE r == Death(pl[u].pid)
    <3>3. RecordOK(r) /\ r.t = "PLAYER_DEATH" /\ (KeepLog \/ WalWrite(r))
      BY <3>1, <3>2
    <3> HIDE DEF r
    <3>4. WideLog
      BY <3>2, <3>3, <1>b, <1>g, <1>h
    <3> QED BY <3>2, <3>4, <1>f, <1>i
  <2>3. ASSUME NEW pos \in Spots, NEW type \in ItemType, SpawnItem(pos, type) PROVE Zone'
    <3> DEFINE r == ItemSpawn([pos |-> pos, type |-> type, active |-> TRUE])
    <3>1. RecordOK(r) /\ r.t = "ITEM_SPAWN" /\ WalWrite(r)
      BY <2>3 DEF RecordOK, ItemSpawn, Places, SpawnItem
    <3> HIDE DEF r
    <3>2. phase \in LivePhases /\ UNCHANGED <<phase, radius, todo, snap, revived, files>>
      BY <2>3 DEF SpawnItem, Tick, hist, LivePhases
    <3>3. WideLog
      BY <3>1, <3>2, <1>b, <1>g
    <3> QED BY <3>2, <3>3, <1>f, <1>i
  <2>4. CASE Shrink
    <3> DEFINE r == PoisonShrink(radius - 1)
    <3>1. /\ phase \in LivePhases /\ phase' = phase /\ radius' = radius - 1 /\ radius' <= radius
          /\ UNCHANGED <<todo, snap, revived, files, info>>
      BY <2>4, <1>b DEF Shrink, Tick, hist, LivePhases
    <3>2. RecordOK(r) /\ r.t = "POISON_SHRINK" /\ r.radius = radius' /\ WalWrite(r)
      BY <2>4, <3>1, <1>b DEF RecordOK, PoisonShrink, Shrink
    <3> HIDE DEF r
    <3>3. WideLog
      BY <3>1, <3>2, <1>b, <1>g
    <3>4. ToWrite
      <4> SUFFICES ASSUME NEW i \in 1..Len(todo.recs), todo.recs[i].t = "POISON_SHRINK"
                   PROVE  todo.recs[i].radius >= radius'
        BY <3>1 DEF ToWrite
      <4>1. todo.recs[i] \in TodoSet
        BY <1>k
      <4>2. todo.recs[i].radius \in Int
        BY <4>1 DEF TodoSet, GameStart, Checkpoint, JoinSet, SpawnSet, ShrinkSet
      <4>3. todo.recs[i].radius >= radius
        BY <3>1, <1>c
      <4> QED BY <3>1, <4>2, <4>3, <1>b
    <3>5. WideSnap
      <4>1. ~revived /\ "snap" \in files => snap.radius >= radius
        BY <3>1, <1>c
      <4> QED BY <3>1, <4>1, <1>b
    <3> QED BY <3>1, <3>3, <3>4, <3>5, <1>1, <1>c DEF LivePhases
  <2>5. CASE SnapshotCollect
    <3>1. /\ phase \in LivePhases /\ phase' = phase /\ radius' = radius /\ snap'.radius = radius
          /\ files' = files \cup {"snap"} /\ UNCHANGED todo /\ KeepLog
      BY <2>5 DEF SnapshotCollect, Tick, LivePhases
    <3>2. WideLog /\ ToWrite /\ WideSnap
      BY <3>1, <1>b, <1>h, <1>i
    <3> QED BY <3>1, <3>2, <1>1, <1>c DEF LivePhases
  <2>6. CASE SnapshotTruncate
    <3>1. \A i \in 1..Len(todo'.recs) : todo'.recs[i].t # "POISON_SHRINK"
      BY <2>6, TruncateRow
    <3>2. ToWrite
      BY <3>1 DEF ToWrite
    <3> QED BY <2>6, <3>2, <1>f, <1>j DEF SnapshotTruncate, LivePhases
  <2>7. CASE WaitOver
    BY <2>7, <1>f, <1>h, <1>i DEF WaitOver, disk, hist, LivePhases, KeepLog
  <2>8. CASE EndGame \/ DeleteWal \/ DeleteSnapshot \/ DeleteRecovery
    BY <2>8, <1>a, <1>1 DEF EndGame, DeleteWal, DeleteSnapshot, DeleteRecovery, LivePhases
  <2> QED BY <1>6, <2>1, <2>2, <2>3, <2>4, <2>5, <2>6, <2>7, <2>8 DEF GameThread
<1>7. CASE Crash
  BY <1>7, <1>a, <1>1 DEF Crash, LivePhases
<1>8. CASE Boot
  <2> DEFINE after == CheckAndRecover(files, log[1], snap, info)
  <2>1. phase' = "none" /\ files' = after.files /\ info' = after.info
          /\ revived' = ({"wal", "recovery"} \subseteq files /\ log[1].ended)
          /\ snap' = IF "snap" \in after.files THEN snap ELSE Blank
    BY <1>8 DEF Boot
  <2>2. log[1] \in LogType /\ files \subseteq {"wal", "snap", "recovery"}
          /\ snap \in Replayed /\ info \in Replayed
    BY <1>0 DEF TypeOK, Disk
  <2>3. CASE Recoverable(files, log[1])
    <3>1. "recovery" \in after.files =>
            /\ "snap" \in files => after.info.radius = snap.radius
            /\ "snap" \in after.files => "snap" \in files
      <4>1. after = CheckAndRecover(files, log[1], snap, info)
        OBVIOUS
      <4> HIDE DEF after
      <4> QED BY <2>2, <2>3, <4>1, RadiusRecovered
    <3> HIDE DEF after
    <3> QED BY <2>1, <3>1, <1>b, <1>1 DEF LivePhases
  <2>4. CASE ~Recoverable(files, log[1])
    <3>1. after.files = files
      BY <2>4 DEF CheckAndRecover
    <3>2. {"recovery", "snap"} \subseteq files => "wal" \in files /\ log[1].ended
      BY <2>4 DEF Recoverable
    <3> HIDE DEF after
    <3> QED BY <2>1, <3>1, <3>2, <1>1 DEF LivePhases
  <2> QED BY <2>3, <2>4
<1>9. CASE UNCHANGED vars
  BY <1>9 DEF vars, mem, disk, hist, Zone
<1> QED BY <1>2, <1>3, <1>4, <1>5, <1>6, <1>7, <1>8, <1>9 DEF Next

\* The zone of each file is never smaller than that of the game.
LEMMA ZoneAlways == Spec => [](Types /\ Zone)
<1>1. Init => Zone
  BY DEF Init, Zone, LivePhases
<1> QED BY <1>1, TypesInit, TypesKept, ZoneKept, PTL DEF Spec

\* Whenever the process dies, and whichever of the unsynced records the crash keeps:
\* the zone a game is recovered with is not smaller than the one it was left with,
\* but for a finished game that came back (recovery.c:357-367, recovery.c:870-892, game.c:452-492, snapshot.c:219-263).
THEOREM NeverCloser == Spec => []PoisonNeverCloser
<1>1. ASSUME Types, Zone PROVE PoisonNeverCloser
  <2> SUFFICES ASSUME phase \in LivePhases, ~revived, NEW n \in DOMAIN log,
                      "recovery" \in AfterRestart(n).files
               PROVE  AfterRestart(n).info.radius >= radius
    BY DEF PoisonNeverCloser, LivePhases
  <2>1. /\ files \subseteq {"wal", "snap", "recovery"} /\ log[n] \in LogType
        /\ snap \in Replayed /\ info \in Replayed
    BY <1>1 DEF Types, TypeOK, Disk
  <2>2. "wal" \in files /\ log[n] \in Wide(radius) /\ ("snap" \in files => snap.radius >= radius)
    BY <1>1 DEF Zone
  <2>3. Recoverable(files, log[n])
    BY <2>2 DEF Recoverable, Wide
  <2>4. /\ "snap" \in files => AfterRestart(n).info.radius = snap.radius
        /\ "snap" \notin files => AfterRestart(n).info.radius = log[n].st.radius
    <3> DEFINE after == AfterRestart(n)
               l == log[n]
    <3>1. after = CheckAndRecover(files, l, snap, info) /\ "recovery" \in after.files
            /\ l \in LogType /\ Recoverable(files, l) /\ files \in SUBSET {"wal", "snap", "recovery"}
      BY <2>1, <2>3 DEF AfterRestart
    <3> HIDE DEF after, l
    <3>3. /\ "snap" \in files => after.info.radius = snap.radius
          /\ "snap" \notin files => after.info.radius = l.st.radius
      BY <2>1, <3>1, RadiusRecovered
    <3>2. /\ "snap" \in files => after.info.radius = snap.radius
          /\ "snap" \notin files => after.info.radius = log[n].st.radius
      BY <3>3 DEF l
    <3> QED BY <3>2 DEF after
  <2> QED BY <2>2, <2>4 DEF Wide
<1> QED BY <1>1, ZoneAlways, PTL

-----------------------------------------------------------------------------
(***************************************************************************)
(* A finished game.                                                        *)
(***************************************************************************)
\* The files room_end_game() has deleted so far.
Deleted ==
    /\ phase = "walGone" => "wal" \notin files
    /\ phase \in {"snapGone", "over"} => files \cap {"wal", "snap"} = {}
    /\ phase = "over" => "recovery" \notin files

\* No file is deleted to begin with.
LEMMA DeletedInit == Init => Deleted
  BY DEF Init, Deleted

\* room_end_game() deletes the files one after the other, and nobody makes them anew.
LEMMA DeletedStep == Deleted /\ [Next]_vars => Deleted'
<1> SUFFICES ASSUME Deleted, [Next]_vars PROVE Deleted'
  OBVIOUS
<1> USE DEF Deleted
<1>1. CASE StartGame
  BY <1>1 DEF StartGame
<1>2. CASE WriteNext
  BY <1>2 DEF WriteNext
<1>3. CASE FinishWrites
  BY <1>3 DEF FinishWrites
<1>4. CASE Commands
  <2>1. ASSUME NEW u \in Users, NEW to, MoveBegin(u, to) PROVE Deleted'
    BY <2>1 DEF MoveBegin, Ready
  <2>2. ASSUME NEW u \in Users, NEW idx, UseTake(u, idx) PROVE Deleted'
    BY <2>2 DEF UseTake, Ready
  <2>3. ASSUME NEW u \in Users, NEW v \in Users, Attack(u, v) PROVE Deleted'
    BY <2>3 DEF Attack, Ready
  <2>4. ASSUME NEW u \in Users, Leave(u) PROVE Deleted'
    BY <2>4 DEF Leave
  <2>5. ASSUME NEW u \in Users, NEW pid, Login(u, pid) PROVE Deleted'
    BY <2>5 DEF Login
  <2>6. CASE MoveEnd
    BY <2>6 DEF MoveEnd
  <2>7. CASE AddItem \/ UseLog \/ UseEffect \/ AttackDeath
    BY <2>7 DEF AddItem, UseLog, UseEffect, AttackDeath
  <2>8. CASE Seat \/ Restore \/ RestoreRecord
    BY <2>8 DEF Seat, Restore, RestoreRecord, disk
  <2> QED BY <1>4, <2>1, <2>2, <2>3, <2>4, <2>5, <2>6, <2>7, <2>8 DEF Commands
<1>5. CASE GameThread
  <2>1. ASSUME NEW u \in Users, BuffExpires(u) \/ PoisonHurts(u) PROVE Deleted'
    BY <2>1 DEF BuffExpires, PoisonHurts, Tick
  <2>2. ASSUME NEW pos, NEW type, SpawnItem(pos, type) PROVE Deleted'
    BY <2>2 DEF SpawnItem, Tick
  <2>3. CASE Shrink \/ SnapshotCollect \/ SnapshotTruncate \/ WaitOver \/ EndGame
    BY <2>3 DEF Shrink, SnapshotCollect, SnapshotTruncate, WaitOver, EndGame, Tick, disk
  <2>4. CASE DeleteWal \/ DeleteSnapshot \/ DeleteRecovery
    BY <2>4 DEF DeleteWal, DeleteSnapshot, DeleteRecovery
  <2> QED BY <1>5, <2>1, <2>2, <2>3, <2>4 DEF GameThread
<1>6. CASE Crash
  BY <1>6 DEF Crash
<1>7. CASE Boot
  BY <1>7 DEF Boot
<1>8. CASE UNCHANGED vars
  BY <1>8 DEF vars, disk
<1> QED BY <1>1, <1>2, <1>3, <1>4, <1>5, <1>6, <1>7, <1>8 DEF Next

\* A game that room_end_game() is through with is offered to nobody after a
\* restart (room.c:531-560, recovery.c:585-665).
THEOREM FinishedForGood == Spec => []FinishedStaysFinished
<1>1. Spec => []Deleted
  BY DeletedInit, DeletedStep, PTL DEF Spec
<1>2. Deleted => FinishedStaysFinished
  <2> SUFFICES ASSUME Deleted, phase = "over"
               PROVE  MayReturn(AfterRestart(1).files, AfterRestart(1).info) = {}
    BY DEF FinishedStaysFinished
  <2>1. ~Recoverable(files, log[1])
    BY DEF Deleted, Recoverable
  <2>2. AfterRestart(1).files = files
    BY <2>1 DEF AfterRestart, CheckAndRecover
  <2> QED BY <2>2 DEF Deleted, MayReturn
<1> QED BY <1>1, <1>2, PTL

-----------------------------------------------------------------------------
(***************************************************************************)
(* The log and the game.  What holds between the steps of a command, and   *)
(* while records are written in a row.                                     *)
(***************************************************************************)
Returning == main.pc \in {"seat", "state", "record"}

\* The players whose records are in the log.
Settled == InRoom \ (IF main.pc \in {"state", "record"} THEN {main.u} ELSE {})

\* The command each user is in.
Doings == [u \in Users |-> IF main.pc # "idle" /\ main.u = u THEN main ELSE Idle]

OnceEach(s) == \A i, j \in 1..Len(s.players) : s.players[i].user = s.players[j].user => i = j
DistinctIds(s) == \A i, j \in 1..Len(s.players) : s.players[i].id = s.players[j].id => i = j

\* What is replayed as p is user u, whose player is q and who is in the middle of m:
\* the records of m that are written count, though their effect is yet to come.
Told(p, u, q, m) ==
    /\ p.user = u /\ p.id = q.pid
    /\ p.pos = IF m.pc = "move" THEN m.to ELSE q.pos
    /\ p.shield = (q.shield \/ (m.pc = "effect" /\ m.item = SHIELD))
    /\ Lives(q) => /\ Lives(p) /\ p.hp >= q.hp
                   /\ m.pc = "effect" /\ m.item = HEALTH =>
                        p.hp >= Smaller(q.hp + HEALTH_RESTORE, INITIAL_HP)
    /\ q.status = "DEAD" /\ q.hp = 0 => ~Lives(p)
    /\ m.pc \in {"used", "effect"} /\ q.status = "DEAD" => p.status = "DEAD"

\* So does his inventory.
Carried(p, q, m) ==
    /\ m.pc = "pickup" => /\ p.cnt = Len(q.inv) + 1 /\ p.inv[p.cnt] = m.item
                          /\ \A k \in 1..Len(q.inv) : p.inv[k] = q.inv[k]
    /\ m.pc = "used" => /\ p.cnt = Len(q.inv) + 1 /\ m.idx \in 1..p.cnt
                        /\ \A k \in 1..Len(q.inv) :
                             q.inv[k] = p.inv[IF k < m.idx THEN k ELSE k + 1]
    /\ m.pc \notin {"pickup", "used"} => /\ p.cnt = Len(q.inv)
                                         /\ \A k \in 1..Len(q.inv) : p.inv[k] = q.inv[k]

\* Of inventories the log tells as long as nobody came back, in the first process (c = 0).
Agrees(p, u, q, m, c) == Told(p, u, q, m) /\ (c = 0 => Carried(p, q, m))

\* A replay tells of everybody in A, whose players are P and who are doing D.
AllTold(s, A, P, D, c) ==
    \A u \in A : \E i \in 1..Len(s.players) : Agrees(s.players[i], u, P[u], D[u], c)

\* The logs that have all of A, and the living as living ones.
Covering(A, P) ==
    {l \in LogType : \A u \in A : \E i \in 1..Len(l.st.players) :
        l.st.players[i].user = u /\ (Lives(P[u]) => Lives(l.st.players[i]))}

\* As many items lie everywhere, unless the replayed table is full.
SameItems(s, table) ==
    Len(s.items) < MAX_MAP_ITEMS => \A pos \in Spots : Lying(s.items, pos) = Lying(table, pos)

-----------------------------------------------------------------------------
(***************************************************************************)
(* The inductive invariant.                                                *)
(***************************************************************************)
\* Where the threads can be in each phase of the room.
Control ==
    /\ crashes \in Nat
    /\ phase \in {"waiting", "starting"} => torn = "no" /\ crashes = 0
    /\ phase \in {"starting", "creating"} => todo.by = "main" /\ sc = "idle"
    /\ phase \notin {"starting", "creating", "running"} => todo = NoTodo /\ sc = "idle"
    /\ phase = "running" => IF sc = "writing" THEN todo.by = "game" ELSE todo = NoTodo
    /\ phase \in {"down", "none", "creating"} => seats = << >>
    /\ phase = "creating" => main.pc = "seat"
    /\ phase = "recovered" => Returning /\ InRoom \subseteq {main.u}
    /\ crashes = 0 => /\ "recovery" \notin files
                      /\ phase \notin {"down", "none", "creating", "recovered"}
    /\ torn = "mending" => sc = "collected"
    /\ sc # "idle" => "snap" \in files

\* Who is in the game, and as which connection: no number is given twice, commands are
\* of those who are in the room, and without hit points one fights on only while the
\* blow that took them is looked at.
People ==
    /\ phase = "waiting" => /\ \A u, v \in Users : u # v => pl[u].pid # pl[v].pid
                            /\ \A u \in Users : pl[u].hp = INITIAL_HP
    /\ \A u, v \in InRoom : u # v => pl[u].pid # pl[v].pid
    /\ \A u \in InRoom : pl[u].pid < (IF main.pc = "seat" THEN main.pid ELSE nextPid)
    /\ Returning => main.pid < nextPid
    /\ main.pc \in {"state", "record"} => main.u \in InRoom /\ pl[main.u].pid = main.pid
    /\ main.pc \in {"move", "pickup", "used", "effect", "hit"} => main.u \in InRoom
    /\ \A u \in InRoom : pl[u].status = "GAMING" /\ pl[u].hp <= 0 => main.pc = "hit" /\ main.u = u
    /\ main.pc = "record" /\ phase \in {"recovered", "running"} =>
         /\ pl[main.u].pos = Record(main.u).pos
         /\ pl[main.u].shield = Record(main.u).shield
         /\ pl[main.u].hp <= Record(main.u).hp

\* No user has two entries, and a log with players has records.
Entries ==
    /\ \A n \in DOMAIN log : OnceEach(log[n].st) /\ (log[n].st.players # << >> => log[n].any)
    /\ OnceEach(snap) /\ OnceEach(info)

\* What k records of a row leave in an empty log: one record opens it, a PLAYER_JOIN
\* for each of js follows, then an ITEM_SPAWN for each of ss.
Within(k, n) == IF k < 0 THEN 0 ELSE IF k > n THEN n ELSE k

Beginning(players, js) ==
    Len(players) <= Len(js) /\ \A i \in 1..Len(players) : players[i] = JoinedPlayer(js[i])

Written(s, js, ss, k) ==
    /\ Beginning(s.players, js) /\ Len(s.players) = Within(k - 1, Len(js))
    /\ Len(s.items) = Within(k - 1 - Len(js), Len(ss))
    /\ \A i \in 1..Len(s.items) :
         s.items[i] = [pos |-> ss[i].pos, type |-> ss[i].item, active |-> TRUE]

\* A thread has recs of the row left to write into the log l.
InARow(row, js, ss, recs, l) ==
    LET k == Len(row) - Len(recs)
    IN  /\ k \in 0..Len(row)
        /\ \A i \in 1..Len(recs) : recs[i] = row[k + i]
        /\ Written(Last(l).st, js, ss, k)
        /\ \A n \in DOMAIN l : Beginning(l[n].st.players, js)

Copy == [i \in DOMAIN seats |-> Saved(seats[i])]
LivingOf(s) == Picked(s.players, {p \in ToSet(s.players) : Lives(p)})

\* The rows of room_start_game(), of snapshot_save(), whose copy is that of the game
\* unless a command came in between, and of recovery_create_room_for_game().
Rows ==
    /\ phase = "starting" =>
         InARow(Row(GameStart, Joins(Copy), Spawns(items)), Joins(Copy), Spawns(items), todo.recs, log)
    /\ sc # "idle" /\ torn # "yes" =>
         main = Idle /\ snap = [players |-> Copy, radius |-> radius, items |-> items]
    /\ sc = "writing" /\ torn # "yes" =>
         InARow(Row(Checkpoint, Joins(snap.players), Spawns(snap.items)),
                Joins(snap.players), Spawns(snap.items), todo.recs, log)
    /\ phase = "creating" =>
         /\ items = [i \in 1..MAX_MAP_ITEMS |->
                       IF i <= Len(info.items) THEN info.items[i] ELSE NoItem]
         /\ torn = (IF Clash(LivingOf(info)) THEN "yes" ELSE "no")
         /\ InARow(Row(GameStart, Joins(LivingOf(info)), Spawns(info.items))
                     \o <<PoisonShrink(info.radius)>>,
                   Joins(LivingOf(info)), Spawns(info.items), todo.recs, log)

\* Between its rows the log tells of all players and items, and none of its places to
\* cut at is without one who is in the room, or has him dead while he is alive.
Following == torn = "no" /\ phase \in {"recovered", "running"} /\ sc # "writing"

Mirrors(l, A, P, D, c, table) ==
    /\ DistinctIds(Last(l).st)
    /\ AllTold(Last(l).st, A, P, D, c)
    /\ SameItems(Last(l).st, table)
    /\ \A n \in DOMAIN l : l[n] \in Covering(A, P)

Mirror == Following => Mirrors(log, Settled, pl, Doings, crashes, items)

-----------------------------------------------------------------------------
(***************************************************************************)
(* Items and players of a replay.                                          *)
(***************************************************************************)
\* A table of items with one that another has not.
LEMMA OneMoreItem ==
    ASSUME NEW t \in Seq(MapItem), NEW more \in Seq(MapItem), NEW n \in 1..Len(more),
           more[n].active, n \in 1..Len(t) => ~t[n].active,
           \A i \in Nat : i # n => /\ i \in 1..Len(more) <=> i \in 1..Len(t)
                                   /\ i \in 1..Len(t) => more[i] = t[i],
           NEW pos
    PROVE  /\ Lying(t, pos) \in Nat
           /\ Lying(more, pos) = IF more[n].pos = pos THEN Lying(t, pos) + 1 ELSE Lying(t, pos)
<1> DEFINE S == {i \in DOMAIN t : t[i].active /\ t[i].pos = pos}
           T == {i \in DOMAIN more : more[i].active /\ more[i].pos = pos}
<1>1. DOMAIN t = 1..Len(t) /\ DOMAIN more = 1..Len(more) /\ Len(t) \in Nat /\ Len(more) \in Nat
  OBVIOUS
<1>2. IsFiniteSet(S) /\ Cardinality(S) \in Nat
  <2>1. S \subseteq 1..Len(t)
    BY <1>1
  <2> QED BY <2>1, <1>1, Counting, FS_Subset, FS_CardinalityType
<1>3. n \notin S
  BY <1>1
<1>4. T = IF more[n].pos = pos THEN S \cup {n} ELSE S
  <2>1. \A i \in Nat : i # n => (i \in T <=> i \in S)
    BY <1>1
  <2>2. n \in T <=> more[n].pos = pos
    BY <1>1
  <2>3. S \subseteq Nat /\ T \subseteq Nat /\ n \in Nat
    BY <1>1
  <2> HIDE DEF S, T
  <2>4. CASE more[n].pos = pos
    <3>1. T \subseteq S \cup {n}
      BY <2>1, <2>3
    <3>2. S \cup {n} \subseteq T
      BY <2>1, <2>2, <2>3, <2>4, <1>3
    <3>3. T = S \cup {n}
      BY <3>1, <3>2
    <3> QED BY <3>3, <2>4
  <2>5. CASE more[n].pos # pos
    <3>1. T \subseteq S
      BY <2>1, <2>2, <2>3, <2>5
    <3>2. S \subseteq T
      BY <2>1, <2>3, <1>3
    <3>3. T = S
      BY <3>1, <3>2
    <3> QED BY <3>3, <2>5
  <2> QED BY <2>4, <2>5
<1>5. Lying(t, pos) = Cardinality(S) /\ Lying(more, pos) = Cardinality(T)
  BY DEF Lying
<1> HIDE DEF S, T
<1>6. Cardinality(S \cup {n}) = Cardinality(S) + 1
  BY <1>2, <1>3, FS_AddElement
<1> QED BY <1>2, <1>4, <1>5, <1>6

\* The first item at a place is taken, if there is one.
LEMMA ItemTaken ==
    ASSUME NEW t \in Seq(MapItem), NEW pos
    PROVE  LET n == ItemAt(t, pos)
           IN  /\ n \in 0..Len(t)
               /\ Lying(t, pos) \in Nat
               /\ n = 0 <=> Lying(t, pos) = 0
               /\ TakeFrom(t, n) \in Seq(MapItem) /\ Len(TakeFrom(t, n)) = Len(t)
               /\ n # 0 => \A q : /\ Lying(TakeFrom(t, n), q) \in Nat
                                  /\ Lying(t, q) = IF q = pos THEN Lying(TakeFrom(t, n), q) + 1
                                                   ELSE Lying(TakeFrom(t, n), q)
<1> DEFINE n == ItemAt(t, pos)
           left == TakeFrom(t, n)
           S == {i \in DOMAIN t : t[i].active /\ t[i].pos = pos}
<1>1. /\ n \in 0..Len(t)
      /\ n = 0 => \A i \in 1..Len(t) : ~(t[i].active /\ t[i].pos = pos)
      /\ n # 0 => t[n].active /\ t[n].pos = pos
  BY FindItem
<1>2. Lying(t, pos) = Cardinality(S) /\ DOMAIN t = 1..Len(t) /\ Len(t) \in Nat
  BY DEF Lying
<1>3. IsFiniteSet(S) /\ Cardinality(S) \in Nat /\ (Cardinality(S) = 0 <=> S = {})
  <2>1. S \subseteq 1..Len(t)
    BY <1>2
  <2>2. IsFiniteSet(S)
    BY <2>1, <1>2, Counting, FS_Subset
  <2> QED BY <2>2, FS_CardinalityType, FS_EmptySet
<1>4. n = 0 <=> S = {}
  <2>1. n # 0 => n \in S
    BY <1>1, <1>2
  <2> HIDE DEF n
  <2> QED BY <1>1, <1>2, <2>1
<1> DEFINE Goal == /\ n \in 0..Len(t)
                   /\ Lying(t, pos) \in Nat
                   /\ n = 0 <=> Lying(t, pos) = 0
                   /\ left \in Seq(MapItem) /\ Len(left) = Len(t)
                   /\ n # 0 => \A q : /\ Lying(left, q) \in Nat
                                      /\ Lying(t, q) = IF q = pos THEN Lying(left, q) + 1
                                                       ELSE Lying(left, q)
<1> HIDE DEF n
<1>5. ASSUME n = 0 PROVE Goal
  BY <1>1, <1>2, <1>3, <1>4, <1>5 DEF TakeFrom
<1>6. ASSUME n # 0 PROVE Goal
  <2>1. n \in 1..Len(t)
    BY <1>1, <1>2, <1>6
  <2>2. left = [t EXCEPT ![n].active = FALSE]
    BY <1>6 DEF TakeFrom
  <2> DEFINE gone == [t[n] EXCEPT !.active = FALSE]
  <2>3. gone \in MapItem /\ ~gone.active
    <3>1. t[n] \in MapItem
      BY <2>1
    <3> QED BY <3>1 DEF MapItem
  <2>4. left = [t EXCEPT ![n] = gone]
    BY <2>2
  <2> HIDE DEF gone, left
  <2>5. left \in Seq(MapItem) /\ Len(left) = Len(t) /\ left[n] = gone
          /\ \A i \in 1..Len(t) : i # n => left[i] = t[i]
    BY <2>1, <2>3, <2>4
  <2>6. ASSUME NEW q PROVE /\ Lying(left, q) \in Nat
                           /\ Lying(t, q) = IF q = pos THEN Lying(left, q) + 1 ELSE Lying(left, q)
    <3>1. t[n].active /\ t[n].pos = pos /\ ~left[n].active
      BY <1>1, <1>6, <2>3, <2>5
    <3>2. \A i \in Nat : i # n => /\ i \in 1..Len(t) <=> i \in 1..Len(left)
                                  /\ i \in 1..Len(left) => t[i] = left[i]
      BY <2>5
    <3> QED BY <2>1, <2>5, <3>1, <3>2, OneMoreItem
  <2> QED BY <1>1, <1>2, <1>3, <1>4, <1>6, <2>5, <2>6
<1>7. Goal
  BY <1>5, <1>6
<1> QED BY <1>7 DEF n

\* A table copied without what does not lie on the map.
LEMMA ItemsCopied ==
    ASSUME NEW t \in Seq(MapItem), Len(t) <= MAX_MAP_ITEMS, NEW copy \in Seq(MapItem),
           Len(copy) = Len(OnTheMap(t)),
           \A i \in 1..Len(OnTheMap(t)) : copy[i].active /\ copy[i].pos = OnTheMap(t)[i].pos,
           NEW pos
    PROVE  Lying(copy, pos) = Lying(t, pos)
<1> DEFINE Good == {i \in ToSet(t) : i.active}
           More == {i \in MapItem : i.pos = pos}
           o == Picked(t, Good)
           A == {i \in DOMAIN copy : copy[i].active /\ copy[i].pos = pos}
           B == {j \in DOMAIN t : t[j].active /\ t[j].pos = pos}
<1>1. o \in Seq(MapItem) /\ DOMAIN t = 1..Len(t) /\ DOMAIN copy = 1..Len(copy)
        /\ OnTheMap(t) = o /\ DOMAIN o = 1..Len(o)
  BY OnTheMapType DEF OnTheMap
<1>2. A = Both(o, Good, More)
  <2>1. \A i \in 1..Len(o) : o[i] \in MapItem /\ o[i] \in Good
    BY PickedBasics
  <2>2. Len(copy) = Len(o) /\ \A i \in 1..Len(o) : copy[i].active /\ copy[i].pos = o[i].pos
    <3> HIDE DEF o, Good
    <3> QED BY <1>1
  <2> HIDE DEF o, Good
  <2> QED BY <1>1, <2>1, <2>2 DEF Both
<1>3. B = Both(t, Good, More)
  <2>1. \A j \in 1..Len(t) : t[j] \in MapItem /\ t[j] \in ToSet(t)
    BY <1>1 DEF ToSet
  <2> HIDE DEF o
  <2> QED BY <1>1, <2>1 DEF Both
<1>4. Cardinality(A) = Cardinality(B)
  <2> HIDE DEF Good, More, A, B
  <2> QED BY <1>2, <1>3, PickedCount
<1> QED BY <1>4 DEF Lying

\* A table in the slots of the map.
LEMMA ItemsPadded ==
    ASSUME NEW t \in Seq(MapItem), Len(t) <= MAX_MAP_ITEMS, NEW pos
    PROVE  Lying([i \in 1..MAX_MAP_ITEMS |-> IF i <= Len(t) THEN t[i] ELSE NoItem], pos)
             = Lying(t, pos)
<1> DEFINE map == [i \in 1..MAX_MAP_ITEMS |-> IF i <= Len(t) THEN t[i] ELSE NoItem]
<1>1. DOMAIN t = 1..Len(t) /\ Len(t) \in Nat /\ MAX_MAP_ITEMS \in Nat
  BY Numbers
<1>2. {i \in DOMAIN map : map[i].active /\ map[i].pos = pos}
        = {i \in DOMAIN t : t[i].active /\ t[i].pos = pos}
  BY <1>1 DEF NoItem
<1> QED BY <1>2 DEF Lying

\* A record about a player changes the one entry that has his id.
LEMMA PlayerWritten ==
    ASSUME NEW s \in Replayed, DistinctIds(s), NEW r, RecordOK(r), r.t \in PlayerRecords
    PROVE  LET t == Apply(s, r)
           IN  /\ t \in Replayed /\ DistinctIds(t) /\ t.items = ItemsAfter(s, r)
               /\ Len(t.players) = Len(s.players)
               /\ \A j \in 1..Len(s.players) :
                    t.players[j] = IF s.players[j].id = r.pid THEN Changed(s.players[j], r)
                                   ELSE s.players[j]
<1> DEFINE t == Apply(s, r)
           k == FindPlayerIndex(s, r.pid)
<1>1. /\ t \in Replayed /\ t.items = ItemsAfter(s, r) /\ Len(t.players) = Len(s.players)
      /\ \A j \in 1..Len(s.players) :
           t.players[j] = IF j = k THEN Changed(s.players[j], r) ELSE s.players[j]
  BY ApplyToPlayer
<1>2. s.players \in Seq(ReplayPlayer) /\ Len(s.players) \in Nat
        /\ \A j \in 1..Len(s.players) : s.players[j] \in ReplayPlayer
  BY DEF Replayed
<1>3. /\ k \in 0..Len(s.players)
      /\ k = 0 => \A i \in 1..Len(s.players) : s.players[i].id # r.pid
      /\ k # 0 => s.players[k].id = r.pid
  BY <1>2, FindPlayer
<1> HIDE DEF t, k
<1>4. \A j \in 1..Len(s.players) : s.players[j].id = r.pid <=> j = k
  BY <1>2, <1>3 DEF DistinctIds
<1>5. \A j \in 1..Len(s.players) : t.players[j].id = s.players[j].id
  BY <1>1, <1>2, ChangedType
<1>6. DistinctIds(t)
  BY <1>1, <1>5 DEF DistinctIds
<1>7. \A j \in 1..Len(s.players) :
        t.players[j] = IF s.players[j].id = r.pid THEN Changed(s.players[j], r) ELSE s.players[j]
  BY <1>1, <1>4
<1> QED BY <1>1, <1>6, <1>7 DEF t

\* No record gives a user a second entry.
LEMMA OnceEachKept ==
    ASSUME NEW s \in Replayed, OnceEach(s), NEW r, RecordOK(r)
    PROVE  OnceEach(Apply(s, r))
<1> DEFINE t == Apply(s, r)
<1>1. s.players \in Seq(ReplayPlayer) /\ Len(s.players) \in Nat
        /\ \A j \in 1..Len(s.players) : s.players[j] \in ReplayPlayer
  BY DEF Replayed
<1>2. CASE r.t \in PlayerRecords
  <2>1. /\ Len(t.players) = Len(s.players)
        /\ \A j \in 1..Len(s.players) : t.players[j] = IF j = FindPlayerIndex(s, r.pid)
                                                       THEN Changed(s.players[j], r) ELSE s.players[j]
    BY <1>2, ApplyToPlayer
  <2> HIDE DEF t
  <2>2. \A j \in 1..Len(s.players) : t.players[j].user = s.players[j].user
    BY <1>1, <1>2, <2>1, ChangedType
  <2>3. OnceEach(t)
    BY <2>1, <2>2 DEF OnceEach
  <2> QED BY <2>3 DEF t
<1>3. CASE r.t = "PLAYER_JOIN"
  <2> DEFINE i == FindUserIndex(s, r.user)
             p == JoinedPlayer(r)
  <2>1. /\ i # 0 => /\ Len(t.players) = Len(s.players)
                    /\ \A j \in 1..Len(s.players) : t.players[j] = IF j = i THEN p ELSE s.players[j]
        /\ i = 0 /\ Len(s.players) < MAX_ROOM_PLAYERS => t.players = Append(s.players, p)
        /\ i = 0 /\ ~(Len(s.players) < MAX_ROOM_PLAYERS) => t = s
    BY <1>3, ApplyJoin
  <2>2. /\ i \in 0..Len(s.players)
        /\ i = 0 => \A j \in 1..Len(s.players) : s.players[j].user # r.user
        /\ i # 0 => s.players[i].user = r.user
    BY <1>1, FindUser
  <2>3. p.user = r.user
    BY DEF JoinedPlayer
  <2> HIDE DEF t, i, p
  <2>4. CASE i # 0
    <3>1. \A j \in 1..Len(s.players) : t.players[j].user = s.players[j].user
      BY <2>1, <2>2, <2>3, <2>4
    <3>2. OnceEach(t)
      BY <2>1, <2>4, <3>1 DEF OnceEach
    <3> QED BY <3>2 DEF t
  <2>5. CASE i = 0 /\ Len(s.players) < MAX_ROOM_PLAYERS
    <3>1. /\ Len(t.players) = Len(s.players) + 1 /\ t.players[Len(s.players) + 1] = p
          /\ \A j \in 1..Len(s.players) : t.players[j] = s.players[j]
      BY <1>1, <2>1, <2>5
    <3>2. OnceEach(t)
      BY SMTT(30), <1>1, <2>2, <2>3, <2>5, <3>1 DEF OnceEach
    <3> QED BY <3>2 DEF t
  <2>6. CASE i = 0 /\ ~(Len(s.players) < MAX_ROOM_PLAYERS)
    BY <2>1, <2>6 DEF t
  <2> QED BY <2>4, <2>5, <2>6
<1>4. CASE r.t \notin PlayerRecords /\ r.t # "PLAYER_JOIN"
  <2>1. t.players = s.players
    BY <1>4, ApplyToMap
  <2> QED BY <2>1 DEF OnceEach
<1> QED BY <1>2, <1>3, <1>4

\* There is an entry left for whoever has none.
LEMMA RoomForOne ==
    ASSUME NEW s \in Replayed, OnceEach(s), NEW u \in Users, FindUserIndex(s, u) = 0
    PROVE  Len(s.players) < MAX_ROOM_PLAYERS
<1> DEFINE n == Len(s.players)
           who == [i \in 1..n |-> s.players[i].user]
           others == Users \ {u}
<1>1. s.players \in Seq(ReplayPlayer) /\ n \in Nat
        /\ \A j \in 1..n : s.players[j] \in ReplayPlayer
  BY DEF Replayed
<1>2. \A j \in 1..n : s.players[j].user \in others
  <2>1. \A j \in 1..n : s.players[j].user # u
    BY <1>1, FindUser
  <2> QED BY <1>1, <2>1 DEF ReplayPlayer
<1>3. who \in Injection(1..n, others)
  BY <1>2 DEF Injection, IsInjective, OnceEach
<1>4. IsFiniteSet(others) /\ Cardinality(others) = Cardinality(Users) - 1
  BY NumbersOfGame, FS_RemoveElement
<1>5. IsFiniteSet(1..n) /\ Cardinality(1..n) = n
  BY <1>1, Counting
<1> HIDE DEF n, who, others
<1>6. Cardinality(1..n) <= Cardinality(others)
  BY <1>3, <1>4, <1>5, FS_Injection
<1> QED BY <1>1, <1>4, <1>5, <1>6, NumbersOfGame, Numbers DEF n

\* The record of a player who comes in gives him his entry and leaves the others theirs.
LEMMA JoinWritten ==
    ASSUME NEW s \in Replayed, OnceEach(s), NEW r, RecordOK(r), r.t = "PLAYER_JOIN"
    PROVE  LET t == Apply(s, r)
           IN  /\ t \in Replayed /\ t.items = s.items
               /\ \E i \in 1..Len(t.players) : t.players[i] = JoinedPlayer(r)
               /\ \A j \in 1..Len(s.players) :
                    s.players[j].user # r.user =>
                        j \in 1..Len(t.players) /\ t.players[j] = s.players[j]
               /\ FindUserIndex(s, r.user) = 0 => t.players = Append(s.players, JoinedPlayer(r))
<1> DEFINE t == Apply(s, r)
           i == FindUserIndex(s, r.user)
           p == JoinedPlayer(r)
<1>1. s.players \in Seq(ReplayPlayer) /\ Len(s.players) \in Nat /\ r.user \in Users
  BY DEF Replayed, RecordOK
<1>2. /\ t \in Replayed /\ t.items = s.items
      /\ i # 0 => /\ Len(t.players) = Len(s.players)
                  /\ \A j \in 1..Len(s.players) : t.players[j] = IF j = i THEN p ELSE s.players[j]
      /\ i = 0 /\ Len(s.players) < MAX_ROOM_PLAYERS => t.players = Append(s.players, p)
  BY ApplyJoin
<1>3. i \in 0..Len(s.players) /\ (i # 0 => s.players[i].user = r.user)
  BY <1>1, FindUser
<1>4. i = 0 => t.players = Append(s.players, p)
  BY <1>1, <1>2, RoomForOne
<1> HIDE DEF t, i, p
<1>5. \E k \in 1..Len(t.players) : t.players[k] = p
  <2>1. CASE i # 0
    BY <1>2, <1>3, <2>1
  <2>2. CASE i = 0
    <3>1. Len(t.players) = Len(s.players) + 1 /\ t.players[Len(s.players) + 1] = p
      BY <1>1, <1>4, <2>2
    <3> QED BY <1>1, <3>1
  <2> QED BY <2>1, <2>2
<1>6. \A j \in 1..Len(s.players) :
        s.players[j].user # r.user => j \in 1..Len(t.players) /\ t.players[j] = s.players[j]
  <2>1. CASE i # 0
    BY <1>2, <1>3, <2>1
  <2>2. CASE i = 0
    BY <1>1, <1>4, <2>2
  <2> QED BY <2>1, <2>2
<1> QED BY <1>2, <1>4, <1>5, <1>6 DEF t, i, p

-----------------------------------------------------------------------------
(***************************************************************************)
(* One player, as he is and as he is replayed, through the steps of a      *)
(* command.                                                                *)
(***************************************************************************)
LEMMA ChangedBy ==
    ASSUME NEW p \in ReplayPlayer, NEW r
    PROVE  /\ r.t = "MOVE" => Changed(p, r) = [p EXCEPT !.pos = r.pos]
           /\ r.t = "DAMAGE" => Changed(p, r) = [p EXCEPT !.hp = r.hp, !.shield = @ /\ ~r.broken]
           /\ r.t = "PLAYER_DEATH" => Changed(p, r) = [p EXCEPT !.hp = 0, !.status = "DEAD"]
           /\ r.t = "PICKUP" =>
                Changed(p, r) = IF p.cnt < MAX_INVENTORY
                                THEN [p EXCEPT !.inv[p.cnt + 1] = r.item, !.cnt = @ + 1] ELSE p
           /\ r.t = "USE_ITEM" => Changed(p, r) = Effect(Without(p, r), r.item)
  BY DEF Changed

\* Who is in no command is as one whose command has nothing recorded yet.
LEMMA OtherwiseIdle ==
    ASSUME NEW p, NEW u, NEW q, NEW m, NEW o, NEW c, Agrees(p, u, q, m, c),
           m.pc \notin {"move", "pickup", "used", "effect"},
           o.pc \notin {"move", "pickup", "used", "effect"}
    PROVE  Agrees(p, u, q, o, c)
  BY DEF Agrees, Told, Carried

\* The record of a move tells the place the player is about to be at.
LEMMA MoveTold ==
    ASSUME NEW p \in ReplayPlayer, NEW u, NEW q, NEW c, Agrees(p, u, q, Idle, c),
           NEW r, r.t = "MOVE"
    PROVE  Agrees(Changed(p, r), u, q, [pc |-> "move", u |-> u, to |-> r.pos], c)
<1> DEFINE o == Changed(p, r)
           m == [pc |-> "move", u |-> u, to |-> r.pos]
<1>1. o = [p EXCEPT !.pos = r.pos]
  BY ChangedBy
<1>2. /\ o.pos = r.pos /\ o.id = p.id /\ o.user = p.user /\ o.hp = p.hp /\ o.shield = p.shield
      /\ o.status = p.status /\ o.inv = p.inv /\ o.cnt = p.cnt
  BY <1>1 DEF ReplayPlayer
<1>3. m.pc = "move" /\ m.to = r.pos /\ Idle.pc = "idle"
  BY DEF Idle
<1> HIDE DEF o, m
<1>4. Told(p, u, q, Idle) /\ (c = 0 => Carried(p, q, Idle))
  BY DEF Agrees
<1>5. Told(o, u, q, m)
  BY <1>2, <1>3, <1>4 DEF Told, Lives
<1>6. c = 0 => Carried(o, q, m)
  BY <1>2, <1>3, <1>4 DEF Carried
<1> QED BY <1>5, <1>6 DEF o, m, Agrees

\* The move is made: the player is where the record says.
LEMMA ArriveTold ==
    ASSUME NEW p \in ReplayPlayer, NEW u, NEW q \in PlayerType, NEW m, NEW c,
           Agrees(p, u, q, m, c), m.pc = "move"
    PROVE  Agrees(p, u, [q EXCEPT !.pos = m.to], Idle, c)
<1> DEFINE o == [q EXCEPT !.pos = m.to]
<1>1. /\ o.pos = m.to /\ o.pid = q.pid /\ o.hp = q.hp /\ o.shield = q.shield
      /\ o.status = q.status /\ o.inv = q.inv
  BY DEF PlayerType
<1>2. Idle.pc = "idle"
  BY DEF Idle
<1> HIDE DEF o
<1>3. Told(p, u, q, m) /\ (c = 0 => Carried(p, q, m))
  BY DEF Agrees
<1>4. Told(p, u, o, Idle)
  BY <1>1, <1>2, <1>3 DEF Told, Lives
<1>5. c = 0 => Carried(p, o, Idle)
  BY <1>1, <1>2, <1>3 DEF Carried
<1> QED BY <1>4, <1>5 DEF o, Agrees

\* The record of an item picked up puts it into the first free slot.
LEMMA PickupTold ==
    ASSUME NEW p \in ReplayPlayer, NEW u, NEW q,
           NEW c, Agrees(p, u, q, Idle, c), Len(q.inv) < MAX_INVENTORY, Len(q.inv) \in Nat,
           NEW r, r.t = "PICKUP"
    PROVE  Agrees(Changed(p, r), u, q,
                  [pc |-> "pickup", u |-> u, item |-> r.item], c)
<1> DEFINE o == Changed(p, r)
           m == [pc |-> "pickup", u |-> u, item |-> r.item]
<1>1. o = IF p.cnt < MAX_INVENTORY THEN [p EXCEPT !.inv[p.cnt + 1] = r.item, !.cnt = @ + 1] ELSE p
  BY ChangedBy
<1>2. p.cnt \in 0..MAX_INVENTORY /\ p.inv \in Inventory /\ MAX_INVENTORY \in Nat
  BY Numbers DEF ReplayPlayer
<1>3. /\ o.pos = p.pos /\ o.id = p.id /\ o.user = p.user /\ o.hp = p.hp /\ o.shield = p.shield
      /\ o.status = p.status
  BY <1>1 DEF ReplayPlayer
<1>4. p.cnt < MAX_INVENTORY => /\ o.cnt = p.cnt + 1 /\ o.inv[p.cnt + 1] = r.item
                               /\ \A k \in 1..p.cnt : o.inv[k] = p.inv[k]
  <2> SUFFICES ASSUME p.cnt < MAX_INVENTORY
               PROVE  /\ o.cnt = p.cnt + 1 /\ o.inv[p.cnt + 1] = r.item
                      /\ \A k \in 1..p.cnt : o.inv[k] = p.inv[k]
    OBVIOUS
  <2>1. o = [p EXCEPT !.inv[p.cnt + 1] = r.item, !.cnt = @ + 1]
    BY <1>1
  <2>2. o.cnt = p.cnt + 1 /\ o.inv = [p.inv EXCEPT ![p.cnt + 1] = r.item]
    BY <2>1 DEF ReplayPlayer
  <2>3. p.cnt + 1 \in Slots /\ DOMAIN p.inv = Slots
    BY <1>2 DEF Inventory, Slots
  <2>4. \A k \in 1..p.cnt : k # p.cnt + 1 /\ k \in Slots
    BY <1>2 DEF Slots
  <2> HIDE DEF o
  <2> QED BY <2>2, <2>3, <2>4
<1>5. m.pc = "pickup" /\ m.item = r.item /\ Idle.pc = "idle"
  BY DEF Idle
<1> HIDE DEF o, m
<1>6. Told(p, u, q, Idle) /\ (c = 0 => Carried(p, q, Idle))
  BY DEF Agrees
<1>7. Told(o, u, q, m)
  BY <1>3, <1>5, <1>6 DEF Told, Lives
<1>8. ASSUME c = 0 PROVE Carried(o, q, m)
  <2>1. p.cnt = Len(q.inv) /\ \A k \in 1..Len(q.inv) : p.inv[k] = q.inv[k]
    BY <1>5, <1>6, <1>8 DEF Carried
  <2>2. o.cnt = Len(q.inv) + 1 /\ o.inv[o.cnt] = r.item /\ \A k \in 1..Len(q.inv) : o.inv[k] = q.inv[k]
    BY <1>4, <2>1
  <2> QED BY <1>5, <2>2 DEF Carried
<1> QED BY <1>7, <1>8 DEF o, m, Agrees

\* The item is put in: both inventories have it at the same place.
LEMMA AddTold ==
    ASSUME NEW p \in ReplayPlayer, NEW u, NEW q \in PlayerType, NEW m, NEW c,
           Agrees(p, u, q, m, c), m.pc = "pickup", m.item \in ItemType
    PROVE  Agrees(p, u, [q EXCEPT !.inv = Append(@, m.item)], Idle, c)
<1> DEFINE o == [q EXCEPT !.inv = Append(@, m.item)]
<1>1. /\ o.pos = q.pos /\ o.pid = q.pid /\ o.hp = q.hp /\ o.shield = q.shield
      /\ o.status = q.status /\ o.inv = Append(q.inv, m.item) /\ q.inv \in Seq(ItemType)
  BY DEF PlayerType
<1>2. Idle.pc = "idle"
  BY DEF Idle
<1> HIDE DEF o
<1>3. Told(p, u, q, m) /\ (c = 0 => Carried(p, q, m))
  BY DEF Agrees
<1>4. Told(p, u, o, Idle)
  BY <1>1, <1>2, <1>3 DEF Told, Lives
<1>5. ASSUME c = 0 PROVE Carried(p, o, Idle)
  <2>1. p.cnt = Len(q.inv) + 1 /\ p.inv[p.cnt] = m.item
          /\ \A k \in 1..Len(q.inv) : p.inv[k] = q.inv[k]
    BY <1>3, <1>5 DEF Carried
  <2>2. /\ Len(o.inv) = Len(q.inv) + 1 /\ o.inv[Len(q.inv) + 1] = m.item
        /\ \A k \in 1..Len(q.inv) : o.inv[k] = q.inv[k]
    BY <1>1
  <2>3. p.cnt = Len(o.inv) /\ \A k \in 1..Len(o.inv) : p.inv[k] = o.inv[k]
    BY <1>1, <2>1, <2>2
  <2> QED BY <1>2, <2>3 DEF Carried
<1> QED BY <1>4, <1>5 DEF o, Agrees

\* An item is taken out of the inventory before its record is written.
LEMMA TakeTold ==
    ASSUME NEW p \in ReplayPlayer, NEW u, NEW q \in PlayerType, NEW c, Agrees(p, u, q, Idle, c),
           q.status = "GAMING", NEW idx \in 1..Len(q.inv)
    PROVE  Agrees(p, u, [q EXCEPT !.inv = RemoveAt(@, idx)],
                  [pc |-> "used", u |-> u, item |-> q.inv[idx], idx |-> idx], c)
<1> DEFINE left == RemoveAt(q.inv, idx)
           o == [q EXCEPT !.inv = RemoveAt(@, idx)]
           m == [pc |-> "used", u |-> u, item |-> q.inv[idx], idx |-> idx]
<1>1. q.inv \in Seq(ItemType) /\ Len(q.inv) \in Nat
  BY DEF PlayerType
<1>2. /\ Len(left) = Len(q.inv) - 1
      /\ \A k \in 1..Len(q.inv) - 1 : left[k] = IF k < idx THEN q.inv[k] ELSE q.inv[k + 1]
  BY <1>1, InventorySteps
<1>3. /\ o.pos = q.pos /\ o.pid = q.pid /\ o.hp = q.hp /\ o.shield = q.shield
      /\ o.status = q.status /\ o.inv = left
  BY DEF PlayerType
<1>4. m.pc = "used" /\ m.idx = idx /\ Idle.pc = "idle"
  BY DEF Idle
<1> HIDE DEF o, m, left
<1>5. Told(p, u, q, Idle) /\ (c = 0 => Carried(p, q, Idle))
  BY DEF Agrees
<1>6. Told(p, u, o, m)
  BY <1>3, <1>4, <1>5 DEF Told, Lives
<1>7. ASSUME c = 0 PROVE Carried(p, o, m)
  <2>1. p.cnt = Len(q.inv) /\ \A k \in 1..Len(q.inv) : p.inv[k] = q.inv[k]
    BY <1>4, <1>5, <1>7 DEF Carried
  <2>2. p.cnt = Len(o.inv) + 1 /\ idx \in 1..p.cnt
    BY <1>1, <1>2, <1>3, <2>1
  <2>3. ASSUME NEW k \in 1..Len(o.inv) PROVE o.inv[k] = p.inv[IF k < idx THEN k ELSE k + 1]
    <3>1. k \in 1..Len(q.inv) - 1 /\ k \in 1..Len(q.inv) /\ k + 1 \in 1..Len(q.inv)
      BY <1>1, <1>2, <1>3, <2>3
    <3>2. o.inv[k] = IF k < idx THEN q.inv[k] ELSE q.inv[k + 1]
      BY <1>2, <1>3, <3>1
    <3> QED BY <2>1, <3>1, <3>2
  <2> QED BY <1>4, <2>2, <2>3 DEF Carried
<1> QED BY <1>6, <1>7 DEF o, m, Agrees

\* The record of an item used takes it out and has its effect, before the game does.
LEMMA UseTold ==
    ASSUME NEW p \in ReplayPlayer, NEW u, NEW q \in PlayerType, q.hp <= INITIAL_HP, NEW c,
           NEW m, NEW o, Agrees(p, u, q, m, c), m.pc = "used",
           o.pc = "effect", o.item = m.item, NEW r, RecordOK(r), r.t = "USE_ITEM",
           r.item = m.item, r.idx = m.idx
    PROVE  Agrees(Changed(p, r), u, q, o, c)
<1> DEFINE w == Without(p, r)
           e == Effect(w, r.item)
<1>1. Changed(p, r) = e
  BY ChangedBy
<1>2. w \in ReplayPlayer /\ w.id = p.id /\ w.user = p.user /\ w.pos = p.pos /\ w.hp = p.hp
        /\ w.shield = p.shield /\ w.status = p.status
  BY WithoutType
<1>3. r.item \in ItemType /\ r.idx \in Slots
  BY DEF RecordOK
<1> HIDE DEF w
<1>4. /\ e.id = p.id /\ e.user = p.user /\ e.pos = p.pos /\ e.status = p.status
      /\ e.inv = w.inv /\ e.cnt = w.cnt
      /\ r.item = SHIELD => e.shield = TRUE
      /\ r.item # SHIELD => e.shield = p.shield
      /\ e.hp = IF r.item = HEALTH THEN Smaller(p.hp + HEALTH_RESTORE, INITIAL_HP) ELSE p.hp
  <2>1. /\ e.id = w.id /\ e.user = w.user /\ e.pos = w.pos /\ e.status = w.status
        /\ e.inv = w.inv /\ e.cnt = w.cnt
        /\ e.shield = IF r.item = SHIELD THEN TRUE ELSE w.shield
        /\ e.hp = IF r.item = HEALTH THEN Smaller(w.hp + HEALTH_RESTORE, INITIAL_HP) ELSE w.hp
    BY <1>2, <1>3, EffectType
  <2> HIDE DEF e
  <2>2. /\ r.item = SHIELD => e.shield = TRUE
        /\ r.item # SHIELD => e.shield = w.shield
    BY <2>1
  <2> QED BY <1>2, <2>1, <2>2
<1> HIDE DEF e
<1>5. Told(p, u, q, m) /\ (c = 0 => Carried(p, q, m))
  BY DEF Agrees
<1>6. /\ p.hp \in Int /\ q.hp \in Int /\ q.hp <= INITIAL_HP
      /\ p.shield \in BOOLEAN /\ q.shield \in BOOLEAN
      /\ INITIAL_HP \in Nat /\ INITIAL_HP > 0 /\ HEALTH_RESTORE \in Nat /\ HEALTH_RESTORE > 0
  BY Numbers DEF ReplayPlayer, PlayerType, Health
<1>7. Told(e, u, q, o)
  <2>1. e.user = u /\ e.id = q.pid /\ e.pos = q.pos
    BY <1>4, <1>5 DEF Told
  <2>2. e.shield = (q.shield \/ (o.pc = "effect" /\ o.item = SHIELD))
    <3>1. p.shield = q.shield
      BY <1>5, <1>6 DEF Told
    <3>2. CASE r.item = SHIELD
      BY <1>4, <3>2
    <3>3. CASE r.item # SHIELD
      <4>1. e.shield = q.shield
        BY <1>4, <3>1, <3>3
      <4> QED BY <1>6, <3>3, <4>1
    <3> QED BY <3>2, <3>3
  <2>3. Lives(q) => /\ Lives(e) /\ e.hp >= q.hp
                    /\ o.pc = "effect" /\ o.item = HEALTH =>
                         e.hp >= Smaller(q.hp + HEALTH_RESTORE, INITIAL_HP)
    <3>1. Lives(q) => p.status = "GAMING" /\ p.hp > 0 /\ p.hp >= q.hp
      BY <1>5 DEF Told, Lives
    <3> QED BY <1>4, <1>6, <3>1 DEF Lives, Smaller
  <2>4. q.status = "DEAD" => e.status = "DEAD"
    BY <1>4, <1>5 DEF Told
  <2> QED BY <2>1, <2>2, <2>3, <2>4 DEF Told, Lives
<1>8. ASSUME c = 0 PROVE Carried(e, q, o)
  <2>1. /\ p.cnt = Len(q.inv) + 1 /\ m.idx \in 1..p.cnt
        /\ \A k \in 1..Len(q.inv) : q.inv[k] = p.inv[IF k < m.idx THEN k ELSE k + 1]
    BY <1>5, <1>8 DEF Carried
  <2>2. Len(q.inv) \in Nat /\ MAX_INVENTORY \in Nat /\ p.cnt \in 0..MAX_INVENTORY
    BY Numbers DEF PlayerType, ReplayPlayer
  <2>3. w = [p EXCEPT !.inv = Shifted(@, p.cnt, r.idx), !.cnt = @ - 1]
    BY <2>1, <2>2 DEF Without, w
  <2>4. w.cnt = Len(q.inv) /\ w.inv = Shifted(p.inv, p.cnt, r.idx)
    BY <2>1, <2>2, <2>3 DEF ReplayPlayer
  <2>5. ASSUME NEW k \in 1..Len(q.inv) PROVE w.inv[k] = q.inv[k]
    <3>1. k \in Slots /\ k < p.cnt
      BY <2>1, <2>2 DEF Slots
    <3>2. w.inv[k] = IF k >= r.idx THEN p.inv[k + 1] ELSE p.inv[k]
      BY <2>4, <3>1 DEF Shifted
    <3>3. q.inv[k] = p.inv[IF k < r.idx THEN k ELSE k + 1]
      BY <2>1
    <3>4. r.idx \in Int /\ k \in Int
      BY <2>1, <2>2
    <3> QED BY <3>2, <3>3, <3>4
  <2> QED BY <1>4, <2>4, <2>5 DEF Carried
<1> QED BY <1>1, <1>7, <1>8 DEF Agrees

\* The item has its effect: what the record said of it is true of the player.
LEMMA EffectTold ==
    ASSUME NEW p \in ReplayPlayer, NEW u, NEW q \in PlayerType, NEW c,
           q.status = "GAMING" => q.hp > 0,
           NEW m, Agrees(p, u, q, m, c), m.pc = "effect", m.item \in ItemType
    PROVE  Agrees(p, u, Effect(q, m.item), Idle, c)
<1> DEFINE e == Effect(q, m.item)
<1>1. /\ e.pid = q.pid /\ e.pos = q.pos /\ e.status = q.status /\ e.inv = q.inv
      /\ m.item = SHIELD => e.shield = TRUE
      /\ m.item # SHIELD => e.shield = q.shield
      /\ e.hp = IF m.item = HEALTH THEN Smaller(q.hp + HEALTH_RESTORE, INITIAL_HP) ELSE q.hp
  <2>1. CASE m.item = HEALTH
    BY <2>1 DEF Effect, PlayerType, HEALTH, SHIELD, ATTACK
  <2>2. CASE m.item = ATTACK
    BY <2>2 DEF Effect, PlayerType, HEALTH, SHIELD, ATTACK
  <2>3. CASE m.item = SHIELD
    BY <2>3 DEF Effect, PlayerType, HEALTH, SHIELD, ATTACK
  <2> QED BY <2>1, <2>2, <2>3 DEF ItemType
<1>2. Idle.pc = "idle"
  BY DEF Idle
<1>3. Told(p, u, q, m) /\ (c = 0 => Carried(p, q, m))
  BY DEF Agrees
<1> HIDE DEF e
<1>4. c = 0 => Carried(p, e, Idle)
  BY <1>1, <1>2, <1>3 DEF Carried
<1>5. /\ p.hp \in Int /\ q.hp \in Int /\ p.shield \in BOOLEAN /\ q.shield \in BOOLEAN
      /\ INITIAL_HP \in Nat /\ HEALTH_RESTORE \in Nat
  BY Numbers DEF ReplayPlayer, PlayerType, Health
<1>6. Told(p, u, e, Idle)
  <2>1. p.user = u /\ p.id = e.pid /\ p.pos = e.pos
    BY <1>1, <1>3 DEF Told
  <2>2. p.shield = e.shield
    BY <1>1, <1>3, <1>5 DEF Told
  <2>3. Lives(e) => Lives(p) /\ p.hp >= e.hp
    <3>1. Lives(e) => Lives(q)
      BY <1>1 DEF Lives
    <3> QED BY <1>1, <1>3, <1>5, <3>1 DEF Told
  <2>4. e.status = "DEAD" => p.status = "DEAD"
    BY <1>1, <1>3 DEF Told
  <2>5. e.shield \in BOOLEAN
    BY <1>1, <1>5
  <2> QED BY <1>2, <2>1, <2>2, <2>3, <2>4, <2>5 DEF Told, Lives
<1> QED BY <1>4, <1>6 DEF e, Agrees

\* The record of a blow breaks the shield and takes the hit points as the blow does.
LEMMA BlowTold ==
    ASSUME NEW p \in ReplayPlayer, NEW u, NEW q \in PlayerType, NEW c, Lives(q),
           Agrees(p, u, q, Idle, c), NEW m, m.pc \in {"idle", "hit"},
           NEW r, r.t = "DAMAGE", r.broken = q.shield,
           NEW o, o.pid = q.pid, o.pos = q.pos, o.status = q.status, o.inv = q.inv, o.hp = r.hp,
           o.hp \in Int, ~o.shield
    PROVE  Agrees(Changed(p, r), u, o, m, c)
<1> DEFINE e == Changed(p, r)
<1>1. e = [p EXCEPT !.hp = r.hp, !.shield = @ /\ ~r.broken]
  BY ChangedBy
<1>2. /\ e.id = p.id /\ e.user = p.user /\ e.pos = p.pos /\ e.status = p.status
      /\ e.inv = p.inv /\ e.cnt = p.cnt /\ e.hp = o.hp
  BY <1>1 DEF ReplayPlayer
<1>3. e.shield = (p.shield /\ ~q.shield)
  BY <1>1 DEF ReplayPlayer
<1>4. /\ o.pid = q.pid /\ o.pos = q.pos /\ o.status = q.status /\ o.inv = q.inv
      /\ ~o.shield
  OBVIOUS
<1>5. Idle.pc = "idle" /\ q.shield \in BOOLEAN /\ p.shield \in BOOLEAN
  BY DEF Idle, ReplayPlayer, PlayerType
<1>6. Told(p, u, q, Idle) /\ (c = 0 => Carried(p, q, Idle))
  BY DEF Agrees
<1> HIDE DEF e
<1>7. c = 0 => Carried(e, o, m)
  BY <1>2, <1>4, <1>5, <1>6 DEF Carried
<1>8. p.shield = q.shield
  BY <1>5, <1>6 DEF Told
<1>9. ~e.shield
  <2>1. CASE q.shield
    BY <2>1, <1>3
  <2>2. CASE ~q.shield
    BY <2>2, <1>3, <1>8
  <2> QED BY <2>1, <2>2
<1>10. Told(e, u, o, m)
  <2>1. e.user = u /\ e.id = o.pid /\ e.pos = o.pos
    BY <1>2, <1>4, <1>5, <1>6 DEF Told
  <2>2. q.status = "GAMING" /\ q.hp > 0 /\ p.status = "GAMING" /\ p.hp > 0
    BY <1>6 DEF Told, Lives
  <2>3. Lives(o) => Lives(e) /\ e.hp >= o.hp
    BY <1>2, <1>4, <2>2 DEF Lives
  <2>4. e.shield = (o.shield \/ (m.pc = "effect" /\ m.item = SHIELD))
    <3>1. e.shield \in BOOLEAN
      BY <1>3, <1>5
    <3> QED BY <1>4, <1>9, <3>1
  <2> QED BY <1>4, <2>1, <2>2, <2>3, <2>4 DEF Told
<1> QED BY <1>7, <1>10 DEF e, Agrees

\* The record of a death leaves the player dead on zero hit points in both.
LEMMA DeathTold ==
    ASSUME NEW p \in ReplayPlayer, NEW u, NEW q \in PlayerType, NEW m, NEW c,
           Agrees(p, u, q, m, c), NEW r, r.t = "PLAYER_DEATH"
    PROVE  Agrees(Changed(p, r), u, [q EXCEPT !.hp = 0, !.status = "DEAD"], m, c)
<1> DEFINE e == Changed(p, r)
           o == [q EXCEPT !.hp = 0, !.status = "DEAD"]
<1>1. e = [p EXCEPT !.hp = 0, !.status = "DEAD"]
  BY ChangedBy
<1>2. /\ e.id = p.id /\ e.user = p.user /\ e.pos = p.pos /\ e.status = "DEAD"
      /\ e.inv = p.inv /\ e.cnt = p.cnt /\ e.hp = 0 /\ e.shield = p.shield
  BY <1>1 DEF ReplayPlayer
<1>3. /\ o.pid = q.pid /\ o.pos = q.pos /\ o.status = "DEAD" /\ o.inv = q.inv
      /\ o.hp = 0 /\ o.shield = q.shield
  BY DEF PlayerType
<1>4. Told(p, u, q, m) /\ (c = 0 => Carried(p, q, m))
  BY DEF Agrees
<1> HIDE DEF e, o
<1>5. c = 0 => Carried(e, o, m)
  BY <1>2, <1>3, <1>4 DEF Carried
<1>6. Told(e, u, o, m)
  BY <1>2, <1>3, <1>4 DEF Told, Lives
<1> QED BY <1>5, <1>6 DEF e, o, Agrees

\* The poison hurts without a record.
LEMMA HurtTold ==
    ASSUME NEW p \in ReplayPlayer, NEW u, NEW q \in PlayerType, NEW m, NEW c,
           Agrees(p, u, q, m, c), q.hp > POISON
    PROVE  Agrees(p, u, [q EXCEPT !.hp = @ - POISON], m, c)
<1> DEFINE o == [q EXCEPT !.hp = @ - POISON]
<1>1. /\ o.pid = q.pid /\ o.pos = q.pos /\ o.status = q.status /\ o.inv = q.inv
      /\ o.hp = q.hp - POISON /\ o.shield = q.shield
  BY DEF PlayerType
<1>2. Told(p, u, q, m) /\ (c = 0 => Carried(p, q, m))
  BY DEF Agrees
<1>3. /\ p.hp \in Int /\ q.hp \in Int /\ POISON \in Nat /\ POISON > 0
      /\ INITIAL_HP \in Nat /\ HEALTH_RESTORE \in Nat
  BY NumbersOfGame, Numbers DEF ReplayPlayer, PlayerType, Health
<1> HIDE DEF o
<1>4. c = 0 => Carried(p, o, m)
  BY <1>1, <1>2 DEF Carried
<1>5. Lives(o) => Lives(q)
  BY <1>1, <1>3 DEF Lives
<1>6. Lives(o) => /\ Lives(p) /\ p.hp >= o.hp
                  /\ m.pc = "effect" /\ m.item = HEALTH =>
                       p.hp >= Smaller(o.hp + HEALTH_RESTORE, INITIAL_HP)
  <2>1. Lives(q) => /\ Lives(p) /\ p.hp >= q.hp
                    /\ m.pc = "effect" /\ m.item = HEALTH =>
                         p.hp >= Smaller(q.hp + HEALTH_RESTORE, INITIAL_HP)
    BY <1>2 DEF Told
  <2> QED BY <1>1, <1>3, <1>5, <2>1 DEF Smaller
<1>7. o.hp # 0
  BY <1>1, <1>3
<1>8. Told(p, u, o, m)
  BY <1>1, <1>2, <1>6, <1>7 DEF Told
<1> QED BY <1>4, <1>8 DEF o, Agrees

\* Whether a potion of strength works is not compared.
LEMMA BuffTold ==
    ASSUME NEW p, NEW u, NEW q \in PlayerType, NEW m, NEW c, Agrees(p, u, q, m, c)
    PROVE  Agrees(p, u, [q EXCEPT !.buff = FALSE], m, c)
<1> DEFINE o == [q EXCEPT !.buff = FALSE]
<1>1. /\ o.pid = q.pid /\ o.pos = q.pos /\ o.status = q.status /\ o.inv = q.inv
      /\ o.hp = q.hp /\ o.shield = q.shield
  BY DEF PlayerType
<1> HIDE DEF o
<1>2. Agrees(p, u, o, m, c)
  BY <1>1 DEF Agrees, Told, Carried, Lives
<1> QED BY <1>2 DEF o

-----------------------------------------------------------------------------
(***************************************************************************)
(* All players.                                                            *)
(***************************************************************************)
\* What a step that changes w, and perhaps writes r about w, owes to the others in B, to
\* w, to the living, and to the items.
OthersStay(B, w, P, Q, D, E) == \A v \in B : v # w => Q[v] = P[v] /\ E[v] = D[v]
OtherNumbers(B, w, P) == \A v \in B : v # w => P[v].pid # P[w].pid
StillTold(B, w, P, Q, D, E, c) ==
    \A p \in ReplayPlayer : w \in B /\ Agrees(p, w, P[w], D[w], c) => Agrees(p, w, Q[w], E[w], c)
NowTold(B, w, P, Q, D, E, c, r) ==
    \A p \in ReplayPlayer :
        w \in B /\ Agrees(p, w, P[w], D[w], c) => Agrees(Changed(p, r), w, Q[w], E[w], c)
NoneRises(B, P, Q) == \A u \in B : Lives(Q[u]) => Lives(P[u])
AsMany(is, table) == Len(is) < MAX_MAP_ITEMS => \A pos \in Spots : Lying(is, pos) = Lying(table, pos)
LogIs(l, f, m) == m = Append(l, f) \/ m = <<f>>

\* A step that writes nothing about w, and touches nobody else.
LEMMA NothingWritten ==
    ASSUME NEW s \in Replayed, NEW A, NEW B \in SUBSET A, NEW P, NEW Q, NEW D, NEW E, NEW c, NEW w,
           AllTold(s, A, P, D, c),
           OthersStay(B, w, P, Q, D, E), StillTold(B, w, P, Q, D, E, c)
    PROVE  AllTold(s, B, Q, E, c)
<1>1. \A j \in 1..Len(s.players) : s.players[j] \in ReplayPlayer
  BY DEF Replayed
<1> SUFFICES ASSUME NEW v \in B
             PROVE  \E i \in 1..Len(s.players) : Agrees(s.players[i], v, Q[v], E[v], c)
  BY DEF AllTold
<1>2. PICK i \in 1..Len(s.players) : Agrees(s.players[i], v, P[v], D[v], c)
  BY DEF AllTold
<1>3. Agrees(s.players[i], v, Q[v], E[v], c)
  <2>1. CASE v = w
    BY <1>1, <1>2, <2>1 DEF StillTold
  <2>2. CASE v # w
    BY <1>2, <2>2 DEF OthersStay
  <2> QED BY <2>1, <2>2
<1> QED BY <1>3

\* A step that writes a record about w, whose number nobody else has.
LEMMA RecordWritten ==
    ASSUME NEW s \in Replayed, DistinctIds(s), NEW A, NEW B \in SUBSET A, NEW P, NEW Q, NEW D, NEW E,
           NEW c, NEW w, AllTold(s, A, P, D, c),
           NEW r, RecordOK(r), r.t \in PlayerRecords, r.pid = P[w].pid,
           OthersStay(B, w, P, Q, D, E), OtherNumbers(B, w, P), NowTold(B, w, P, Q, D, E, c, r)
    PROVE  AllTold(Apply(s, r), B, Q, E, c)
<1> DEFINE t == Apply(s, r)
<1>1. \A j \in 1..Len(s.players) : s.players[j] \in ReplayPlayer
  BY DEF Replayed
<1>2. /\ Len(t.players) = Len(s.players)
      /\ \A j \in 1..Len(s.players) :
           t.players[j] = IF s.players[j].id = r.pid THEN Changed(s.players[j], r) ELSE s.players[j]
  BY PlayerWritten
<1> HIDE DEF t
<1>3. ASSUME NEW v \in B
      PROVE  \E i \in 1..Len(t.players) : Agrees(t.players[i], v, Q[v], E[v], c)
  <2>1. PICK i \in 1..Len(s.players) : Agrees(s.players[i], v, P[v], D[v], c)
    BY DEF AllTold
  <2>2. s.players[i].id = P[v].pid
    BY <2>1 DEF Agrees, Told
  <2>3. Agrees(t.players[i], v, Q[v], E[v], c)
    <3>1. CASE v = w
      BY <1>1, <1>2, <2>1, <2>2, <3>1 DEF NowTold
    <3>2. CASE v # w
      <4>1. t.players[i] = s.players[i]
        BY <1>2, <2>2, <3>2 DEF OtherNumbers
      <4> QED BY <2>1, <3>2, <4>1 DEF OthersStay
    <3> QED BY <3>1, <3>2
  <2> QED BY <1>2, <2>3
<1> QED BY <1>3 DEF AllTold, t

-----------------------------------------------------------------------------
(***************************************************************************)
(* The invariant is kept: where the threads are.                           *)
(***************************************************************************)
\* A command between two records of a row never goes by unnoticed.
LEMMA MarksType ==
    ASSUME Marks
    PROVE  /\ torn' = "yes" \/ (torn' = torn /\ sc = "idle")
           /\ revived' = revived
BY DEF Marks

\* No thread is on its way to begin with.
LEMMA ControlInit == Init => Control
BY DEF Init, Control, NoTodo, Idle, Returning

\* The invariant is kept: where the threads are.
LEMMA ControlKept == Types /\ Control /\ [Next]_vars => Control'
<1> SUFFICES ASSUME Types, Control, [Next]_vars PROVE Control'
  OBVIOUS
<1>0. /\ phase \in Phases /\ torn \in Torn /\ main \in MainType
      /\ sc \in {"idle", "collected", "writing"} /\ seats \in Seq(Users)
      /\ files \subseteq {"wal", "snap", "recovery"}
      /\ todo \in [by : {"none", "main", "game"}, recs : Seq(TodoSet)]
  BY DEF Types, TypeOK, Locals
<1>z. NoTodo.by = "none" /\ NoTodo.recs = << >> /\ Idle.pc = "idle"
  BY DEF NoTodo, Idle
<1> HIDE DEF TodoSet
<1>1. CASE StartGame
  BY <1>1, <1>0 DEF StartGame, Control, hist
<1>2. CASE WriteNext
  <2>1. todo'.by = todo.by /\ todo # NoTodo /\ todo'.recs = Tail(todo.recs)
    BY <1>2, <1>0, <1>z DEF WriteNext
  <2>2. phase \in {"starting", "creating"} \/ (phase = "running" /\ sc = "writing")
    BY <2>1, <1>0 DEF Control
  <2> QED BY <1>2, <1>0, <2>1, <2>2 DEF WriteNext, Control, hist, Returning, InRoom
<1>3. CASE FinishWrites
  <2>1. todo # NoTodo
    BY <1>3, <1>z DEF FinishWrites
  <2>2. phase \in {"starting", "creating"} \/ (phase = "running" /\ sc = "writing")
    BY <2>1, <1>0 DEF Control
  <2>3. phase' = IF phase = "creating" THEN "recovered" ELSE "running"
    BY <1>3, <2>2 DEF FinishWrites
  <2>4. ToSet(<< >>) = {}
    BY DEF ToSet
  <2> QED BY <1>3, <1>0, <2>2, <2>3, <2>4 DEF FinishWrites, Control, hist, Returning, InRoom
<1>4. CASE Commands
  <2>1. ASSUME NEW u \in Users, NEW to \in Spots, MoveBegin(u, to) PROVE Control'
    BY <2>1, <1>0, MarksType DEF MoveBegin, Ready, Count, Control
  <2>2. ASSUME NEW u \in Users, NEW idx \in Slots, UseTake(u, idx) PROVE Control'
    BY <2>2, <1>0, MarksType DEF UseTake, Ready, Count, Control
  <2>3. ASSUME NEW u \in Users, NEW v \in Users, Attack(u, v) PROVE Control'
    BY <2>3, <1>0, MarksType DEF Attack, Ready, Count, Control
  <2>4. ASSUME NEW u \in Users, Leave(u) PROVE Control'
    BY <2>4, <1>0, MarksType DEF Leave, Control
  <2>5. ASSUME NEW u \in Users, NEW pid \in 1..MaxPid, Login(u, pid) PROVE Control'
    <3>1. CASE phase = "running"
      BY <2>5, <3>1, <1>0, MarksType DEF Login, Control
    <3>2. CASE phase = "none"
      BY <2>5, <3>2, <1>0 DEF Login, Control
    <3> QED BY <2>5, <3>1, <3>2 DEF Login
  <2>6. CASE MoveEnd \/ AddItem \/ UseLog \/ UseEffect \/ AttackDeath
    <3>1. /\ phase \in {"running", "ended"} /\ Marks
          /\ UNCHANGED <<phase, seats, sc, todo, files, crashes>>
      BY <2>6 DEF MoveEnd, AddItem, UseLog, UseEffect, AttackDeath
    <3> QED BY <3>1, <1>0, MarksType DEF Control
  <2>7. CASE Seat
    <3>1. main \in [pc : {"seat", "state", "record"}, u : Users, pid : 1..MaxPid]
      BY <2>7, <1>0 DEF Seat, MainType, Idle
    <3>2. main'.pc = "state" /\ main'.u = main.u /\ seats' = Append(seats, main.u)
            /\ Marks /\ UNCHANGED <<phase, sc, todo, files, crashes>>
            /\ phase \in {"recovered", "running"}
      BY <2>7, <3>1 DEF Seat, disk
    <3>3. InRoom' = InRoom \cup {main.u}
      BY <1>0, <3>1, <3>2, OneMoreSeat DEF InRoom
    <3> QED BY <3>2, <3>3, <1>0, MarksType DEF Control, Returning
  <2>8. CASE Restore
    <3>1. main \in [pc : {"seat", "state", "record"}, u : Users, pid : 1..MaxPid]
      BY <2>8, <1>0 DEF Restore, MainType, Idle
    <3>2. main'.pc = "record" /\ main'.u = main.u /\ seats' = seats
            /\ Marks /\ UNCHANGED <<phase, sc, todo, files, crashes>>
            /\ phase \in {"recovered", "running"}
      BY <2>8, <3>1 DEF Restore, disk
    <3> QED BY <3>2, <1>0, MarksType DEF Control, Returning, InRoom
  <2>9. CASE RestoreRecord
    <3>1. /\ phase \in {"recovered", "running"} /\ phase' = "running"
          /\ torn' \in {"yes", torn} /\ (torn' = torn \/ torn' = "yes")
          /\ UNCHANGED <<seats, sc, todo, crashes>>
          /\ files' = files \/ files' = files \ {"recovery"}
      BY <2>9 DEF RestoreRecord
    <3> QED BY <3>1, <1>0 DEF Control
  <2> QED BY <1>4, <2>1, <2>2, <2>3, <2>4, <2>5, <2>6, <2>7, <2>8, <2>9 DEF Commands
<1>5. CASE GameThread
  <2>1. ASSUME NEW u \in Users, BuffExpires(u) \/ PoisonHurts(u) PROVE Control'
    <3>1. phase = "running" /\ UNCHANGED <<phase, seats, sc, todo, files, crashes, torn>>
      BY <2>1 DEF BuffExpires, PoisonHurts, hist, Tick
    <3> QED BY <3>1 DEF Control
  <2>2. ASSUME NEW pos \in Spots, NEW type \in ItemType, SpawnItem(pos, type) PROVE Control'
    <3>1. phase = "running" /\ UNCHANGED <<phase, seats, sc, todo, files, crashes, torn>>
      BY <2>2 DEF SpawnItem, hist, Tick
    <3> QED BY <3>1 DEF Control
  <2>3. CASE Shrink \/ WaitOver
    <3>1. phase = "running" /\ UNCHANGED <<phase, seats, sc, todo, files, crashes, torn>>
      BY <2>3 DEF Shrink, WaitOver, disk, hist, Tick
    <3> QED BY <3>1 DEF Control
  <2>4. CASE SnapshotCollect
    BY <2>4, <1>0 DEF SnapshotCollect, Tick, Control
  <2>5. CASE SnapshotTruncate
    BY <2>5, <1>0 DEF SnapshotTruncate, Control
  <2>6. CASE EndGame \/ DeleteWal \/ DeleteSnapshot \/ DeleteRecovery
    <3>1. /\ (phase = "running" /\ sc = "idle") \/ phase \in {"ended", "walGone", "snapGone"}
          /\ phase' \in {"ended", "walGone", "snapGone", "over"}
          /\ UNCHANGED <<seats, sc, todo, crashes, torn>> /\ files' \subseteq files
      BY <2>6 DEF EndGame, DeleteWal, DeleteSnapshot, DeleteRecovery, mem, hist
    <3> QED BY <3>1, <1>0 DEF Control
  <2> QED BY <1>5, <2>1, <2>2, <2>3, <2>4, <2>5, <2>6 DEF GameThread
<1>6. CASE Crash
  BY <1>6 DEF Crash, Control
<1>7. CASE Boot
  BY <1>7 DEF Boot, Control, mem
<1>8. CASE UNCHANGED vars
  BY <1>8 DEF vars, mem, disk, hist, Control, Returning, InRoom
<1> QED BY <1>1, <1>2, <1>3, <1>4, <1>5, <1>6, <1>7, <1>8 DEF Next
-----------------------------------------------------------------------------
\* Who is in the game, and as whom.
LEMMA PeopleInit == Init => People
<1> SUFFICES ASSUME Init PROVE People
  OBVIOUS
<1>1. PICK pid \in [Users -> 1..Cardinality(Users)] :
        /\ \A u, v \in Users : u # v => pid[u] # pid[v]
        /\ pl = [u \in Users |-> Fresh(pid[u])]
  BY DEF Init
<1>2. \A u \in Users : pl[u].pid = pid[u] /\ pl[u].hp = INITIAL_HP /\ pl[u].status = "LOBBY"
  BY <1>1 DEF Fresh
<1>3. InRoom \subseteq Users
  BY EveryUserOnce DEF Init, InRoom
<1>4. phase = "waiting" /\ main.pc = "idle" /\ nextPid = Cardinality(Users) + 1
  BY DEF Init, Idle
<1>5. \A u \in Users : pl[u].pid < nextPid
  BY <1>1, <1>2, <1>4, NumbersOfGame
<1> QED BY <1>1, <1>2, <1>3, <1>4, <1>5 DEF People, Returning

\* What a .recovery file says of whoever comes back changes with the file only.
LEMMA RecordStays ==
    ASSUME info' = info, main'.u = main.u
    PROVE  Record(main.u)' = Record(main.u)
BY DEF Record, SelectInSeq, Lives, Min

\* The invariant is kept: connection numbers, seats and statuses.
LEMMA PeopleKept == Types /\ Control /\ People /\ [Next]_vars => People'
<1> SUFFICES ASSUME Types, Control, People, [Next]_vars PROVE People'
  OBVIOUS
<1>0. /\ phase \in Phases /\ main \in MainType /\ seats \in Seq(Users) /\ nextPid \in Nat
      /\ pl \in [Users -> PlayerType] /\ Locals /\ TypeOK /\ Disk /\ nextPid \in 1..MaxPid + 1
      /\ InRoom \subseteq Users
  BY NumbersOfGame DEF Types, TypeOK, Locals, InRoom, ToSet
<1>p. \A v \in Users : pl[v] \in PlayerType /\ pl[v].pid \in Nat /\ pl[v].hp \in Int
  BY <1>0, NumbersOfGame DEF PlayerType
<1>i. Idle.pc = "idle"
  BY DEF Idle
<1>m. /\ main.pc \in {"seat", "state", "record"} =>
           main \in [pc : {"seat", "state", "record"}, u : Users, pid : 1..MaxPid]
      /\ main.pc \in {"seat", "state", "record"} => main.pid \in Nat /\ main.u \in Users
      /\ main.pc # "idle" => main.u \in Users
  BY <1>0, NumbersOfGame DEF MainType, Idle
<1>c. /\ \A u, v \in InRoom : u # v => pl[u].pid # pl[v].pid
      /\ \A u \in InRoom : pl[u].pid < (IF main.pc = "seat" THEN main.pid ELSE nextPid)
      /\ main.pc \in {"seat", "state", "record"} => main.pid < nextPid
      /\ main.pc \in {"state", "record"} => main.u \in InRoom /\ pl[main.u].pid = main.pid
      /\ main.pc \in {"move", "pickup", "used", "effect", "hit"} => main.u \in InRoom
      /\ \A u \in InRoom : pl[u].status = "GAMING" /\ pl[u].hp <= 0 => main.pc = "hit" /\ main.u = u
  BY DEF People, Returning
\* A command of somebody in the room.
<1>a. ASSUME phase' # "waiting", UNCHANGED <<seats, nextPid>>,
             \A v \in InRoom : pl'[v].pid = pl[v].pid,
             main.pc # "seat", main'.pc \notin {"seat", "state", "record"},
             main'.pc \in {"move", "pickup", "used", "effect", "hit"} => main'.u \in InRoom,
             \A u \in InRoom : pl'[u].status = "GAMING" /\ pl'[u].hp <= 0 =>
                main'.pc = "hit" /\ main'.u = u
      PROVE  People'
  <2>1. InRoom' = InRoom
    BY <1>a DEF InRoom
  <2> QED BY <1>a, <1>c, <2>1 DEF People, Returning
\* The game thread.
<1>b. ASSUME phase' # "waiting", UNCHANGED <<seats, nextPid, main>>,
             main.pc = "record" /\ phase' \in {"recovered", "running"} =>
                phase \in {"recovered", "running"} /\ UNCHANGED info,
             \A v \in InRoom : /\ pl'[v].pid = pl[v].pid /\ pl'[v].pos = pl[v].pos
                               /\ pl'[v].shield = pl[v].shield
                               /\ pl'[v].hp \in Int /\ pl'[v].hp <= pl[v].hp
                               /\ pl'[v].status = "GAMING" /\ pl'[v].hp <= 0 =>
                                    pl[v].status = "GAMING" /\ pl[v].hp <= 0
      PROVE  People'
  <2>1. InRoom' = InRoom
    BY <1>b DEF InRoom
  <2>2. main.pc = "record" /\ phase' \in {"recovered", "running"} =>
          /\ main.u \in InRoom /\ Record(main.u)' = Record(main.u)
          /\ pl'[main.u].pos = Record(main.u).pos
          /\ pl'[main.u].shield = Record(main.u).shield
          /\ pl'[main.u].hp <= Record(main.u).hp
    <3> SUFFICES ASSUME main.pc = "record", phase' \in {"recovered", "running"}
                 PROVE  /\ main.u \in InRoom /\ Record(main.u)' = Record(main.u)
                        /\ pl'[main.u].pos = Record(main.u).pos
                        /\ pl'[main.u].shield = Record(main.u).shield
                        /\ pl'[main.u].hp <= Record(main.u).hp
      OBVIOUS
    <3>1. main.u \in InRoom /\ Record(main.u)' = Record(main.u)
      BY <1>b, <1>c, RecordStays
    <3>2. /\ pl[main.u].pos = Record(main.u).pos
          /\ pl[main.u].shield = Record(main.u).shield
          /\ pl[main.u].hp <= Record(main.u).hp
      BY <1>b DEF People
    <3>3. Record(main.u).hp \in Int
      <4>1. main.u \in MayReturn(files, info) /\ main.u \in Users
        BY <1>0, <1>b, <1>m DEF Locals
      <4>2. Record(main.u) \in ReplayPlayer
        BY <4>1, <1>0, RecordType DEF Disk
      <4> QED BY <4>2 DEF ReplayPlayer, Health
    <3> QED BY <1>b, <1>p, <1>0, <3>1, <3>2, <3>3
  <2> QED BY <1>b, <1>c, <2>1, <2>2 DEF People, Returning
<1>1. CASE StartGame
  <2>1. PICK place \in [Users -> Spots] :
          pl' = [u \in Users |-> [pl[u] EXCEPT !.pos = place[u], !.status = "GAMING"]]
    BY <1>1 DEF StartGame
  <2>2. \A v \in Users : pl'[v].pid = pl[v].pid /\ pl'[v].hp = pl[v].hp
    BY <2>1, <1>p DEF PlayerType
  <2>3. phase = "waiting" /\ phase' = "starting" /\ main = Idle /\ UNCHANGED <<seats, nextPid, main>>
    BY <1>1, <1>0 DEF StartGame, Locals
  <2>4. \A v \in Users : pl[v].hp > 0
    BY <2>3, Numbers DEF People
  <2> QED BY <1>a, <1>0, <1>p, <1>i, <2>2, <2>3, <2>4
<1>2. CASE WriteNext
  <2>1. UNCHANGED <<phase, pl, seats, nextPid, main, info>> /\ todo # NoTodo
    BY <1>2 DEF WriteNext, NoTodo
  <2>2. phase # "waiting"
    BY <2>1 DEF Control
  <2> QED BY <1>b, <1>p, <1>0, <2>1, <2>2
<1>3. CASE FinishWrites
  <2>1. UNCHANGED <<pl, seats, nextPid, main, info>> /\ todo # NoTodo
    BY <1>3 DEF FinishWrites, NoTodo
  <2>2. phase # "waiting" /\ main.pc = "record" => phase \notin {"starting", "creating"}
    BY <2>1, <1>0, <1>i DEF Control, Locals
  <2>3. phase' = IF phase = "creating" THEN "recovered" ELSE IF phase = "starting" THEN "running" ELSE phase
    BY <1>3 DEF FinishWrites
  <2>4. phase # "waiting"
    BY <2>1 DEF Control
  <2> QED BY <1>b, <1>p, <1>0, <2>1, <2>2, <2>3, <2>4
<1>4. CASE Commands
  <2>1. ASSUME NEW u \in Users, NEW to \in Spots, MoveBegin(u, to) PROVE People'
    BY <2>1, <1>a, <1>c, <1>i DEF MoveBegin, Ready
  <2>2. ASSUME NEW u \in Users, NEW idx \in Slots, UseTake(u, idx) PROVE People'
    <3>1. /\ phase' = "running" /\ UNCHANGED <<seats, nextPid>> /\ main.pc = "idle" /\ u \in InRoom
          /\ main'.pc = "used" /\ main'.u = u
          /\ pl' = [pl EXCEPT ![u].inv = RemoveAt(@, idx)]
      BY <2>2 DEF UseTake, Ready
    <3>2. \A v \in Users : pl'[v].pid = pl[v].pid /\ pl'[v].hp = pl[v].hp /\ pl'[v].status = pl[v].status
      BY <3>1, <1>p, <1>0 DEF PlayerType
    <3> QED BY <3>1, <3>2, <1>a, <1>c, <1>0
  <2>3. ASSUME NEW u \in Users, NEW v \in Users, Attack(u, v) PROVE People'
    <3> DEFINE hp == IF pl[v].shield THEN pl[v].hp
                     ELSE pl[v].hp - (IF pl[u].buff THEN 2 * HIT ELSE HIT)
    <3>1. /\ phase' = "running" /\ UNCHANGED <<seats, nextPid>> /\ main.pc = "idle" /\ v \in InRoom
          /\ main' = (IF pl[v].shield THEN Idle ELSE [pc |-> "hit", u |-> v])
          /\ pl' = [pl EXCEPT ![v].hp = hp, ![v].shield = FALSE] /\ Alive(v)
      BY <2>3 DEF Attack, Ready
    <3>2. \A w \in Users : /\ pl'[w].pid = pl[w].pid
                           /\ pl'[w].hp = IF w = v THEN hp ELSE pl[w].hp
                           /\ pl'[w].status = pl[w].status
      <4> HIDE DEF hp
      <4> QED BY <3>1, <1>p, <1>0 DEF PlayerType
    <3>3. CASE pl[v].shield
      <4>1. hp = pl[v].hp /\ main'.pc = "idle"
        BY <3>1, <3>3, <1>i
      <4> HIDE DEF hp
      <4> QED BY <3>1, <3>2, <4>1, <1>a, <1>c, <1>0
    <3>4. CASE ~pl[v].shield
      <4>1. main'.pc = "hit" /\ main'.u = v
        BY <3>1, <3>4
      <4> HIDE DEF hp
      <4> QED BY <3>1, <3>2, <4>1, <1>a, <1>c, <1>0
    <3> QED BY <3>3, <3>4
  <2>4. ASSUME NEW u \in Users, Leave(u) PROVE People'
    <3>1. /\ phase' \in {"running", "gone"} /\ UNCHANGED <<nextPid, main>> /\ main.pc = "idle"
          /\ u \in InRoom /\ seats' = RemoveFirst(seats, u) /\ pl' = [pl EXCEPT ![u] = Fresh(0)]
      BY <2>4 DEF Leave
    <3>2. InRoom' = InRoom \ {u}
      BY <3>1, <1>0, LeaveSeats DEF InRoom
    <3>3. \A v \in InRoom' : v \in InRoom /\ pl'[v] = pl[v]
      BY <3>1, <3>2, <1>0
    <3> QED BY <3>1, <3>3, <1>c DEF People, Returning
  <2>5. ASSUME NEW u \in Users, NEW pid \in 1..MaxPid, Login(u, pid) PROVE People'
    <3>1. /\ phase' \in {"running", "creating"} /\ UNCHANGED <<seats, pl>> /\ main.pc = "idle"
          /\ main'.pc = "seat" /\ main'.pid = pid /\ nextPid' = pid + 1 /\ pid >= nextPid
      BY <2>5 DEF Login
    <3>2. InRoom' = InRoom /\ pid \in Nat
      BY <3>1, NumbersOfGame DEF InRoom
    <3>3. \A v \in InRoom : pl[v].pid < pid
      BY <3>1, <3>2, <1>0, <1>p, <1>c
    <3> QED BY <3>1, <3>2, <3>3, <1>0, <1>c DEF People, Returning
  <2>6. CASE MoveEnd
    <3>1. /\ phase' # "waiting" /\ UNCHANGED <<seats, nextPid>> /\ main.pc = "move"
          /\ main' = Idle \/ (main'.pc = "pickup" /\ main'.u = main.u)
          /\ pl' = [pl EXCEPT ![main.u].pos = main.to]
      BY <2>6 DEF MoveEnd
    <3>2. \A v \in Users : pl'[v].pid = pl[v].pid /\ pl'[v].hp = pl[v].hp /\ pl'[v].status = pl[v].status
      BY <3>1, <1>p, <1>0 DEF PlayerType
    <3> QED BY <3>1, <3>2, <1>a, <1>c, <1>0, <1>i
  <2>7. CASE AddItem
    <3>1. /\ phase' # "waiting" /\ UNCHANGED <<seats, nextPid>> /\ main.pc = "pickup" /\ main' = Idle
          /\ pl' = [pl EXCEPT ![main.u].inv = Append(@, main.item)]
      BY <2>7 DEF AddItem
    <3>2. \A v \in Users : pl'[v].pid = pl[v].pid /\ pl'[v].hp = pl[v].hp /\ pl'[v].status = pl[v].status
      BY <3>1, <1>p, <1>0 DEF PlayerType
    <3> QED BY <3>1, <3>2, <1>a, <1>c, <1>0, <1>i
  <2>8. CASE UseLog
    <3>1. /\ phase' # "waiting" /\ UNCHANGED <<seats, nextPid, pl>> /\ main.pc = "used"
          /\ main' = [main EXCEPT !.pc = "effect"]
      BY <2>8 DEF UseLog
    <3>2. main'.pc = "effect" /\ main'.u = main.u
      <4>1. main \in [pc : {"used", "effect"}, u : Users, item : ItemType, idx : Slots]
        BY <3>1, <1>0 DEF MainType, Idle
      <4> QED BY <3>1, <4>1
    <3> QED BY <3>1, <3>2, <1>a, <1>c, <1>0
  <2>9. CASE UseEffect
    <3>1. /\ phase' # "waiting" /\ UNCHANGED <<seats, nextPid>> /\ main.pc = "effect" /\ main' = Idle
          /\ pl' = [pl EXCEPT ![main.u] = Effect(@, main.item)]
      BY <2>9 DEF UseEffect
    <3>2. main.item \in ItemType
      BY <3>1, <1>0 DEF MainType, Idle
    <3> DEFINE e == Effect(pl[main.u], main.item)
    <3>8. e.hp \in Int
      <4>1. PlayerOK(pl[main.u])
        BY <3>1, <1>m, <1>0 DEF TypeOK, PlayerOK
      <4>2. PlayerOK(e)
        BY <4>1, <3>2, UpdateOK
      <4> QED BY <4>2 DEF PlayerOK, PlayerType
    <3>3. e.pid = pl[main.u].pid /\ e.status = pl[main.u].status
            /\ (pl[main.u].hp > 0 => e.hp > 0)
      <4>1. pl[main.u] \in PlayerType
        BY <3>1, <1>m, <1>p
      <4>2. CASE main.item = HEALTH
        BY <4>1, <4>2, Numbers DEF Effect, PlayerType, HEALTH, SHIELD, ATTACK, Smaller
      <4>3. CASE main.item = ATTACK
        BY <4>1, <4>3 DEF Effect, PlayerType, HEALTH, SHIELD, ATTACK
      <4>4. CASE main.item = SHIELD
        BY <4>1, <4>4 DEF Effect, PlayerType, HEALTH, SHIELD, ATTACK
      <4> QED BY <3>2, <4>2, <4>3, <4>4 DEF ItemType
    <3>4. \A v \in Users : pl'[v] = IF v = main.u THEN e ELSE pl[v]
      <4>1. pl' = [pl EXCEPT ![main.u] = e]
        BY <3>1
      <4> HIDE DEF e
      <4> QED BY <4>1, <1>0
    <3> HIDE DEF e
    <3>5. main'.pc = "idle"
      BY <3>1, <1>i
    <3>6. \A v \in InRoom : pl'[v].pid = pl[v].pid
      BY <3>3, <3>4, <1>0
    <3>7. \A v \in InRoom : pl[v].status = "GAMING" => pl[v].hp > 0
      BY <3>1, <1>c, <1>p, <1>0
    <3>10. \A v \in InRoom : ~(pl'[v].status = "GAMING" /\ pl'[v].hp <= 0)
      <4> SUFFICES ASSUME NEW v \in InRoom, pl'[v].status = "GAMING" /\ pl'[v].hp <= 0 PROVE FALSE
        OBVIOUS
      <4>1. v \in Users /\ (v # main.u => pl'[v] = pl[v])
        BY <3>4, <1>0
      <4>2. v # main.u => pl[v].status = "GAMING" /\ pl[v].hp <= 0
        BY <4>1
      <4>3. v = main.u => pl'[v] = e
        BY <3>4, <1>0
      <4>4. e.hp \in Int
        BY <3>8
      <4> QED BY <3>3, <3>7, <4>1, <4>2, <4>3, <4>4, <1>p
    <3> QED BY <3>1, <3>5, <3>6, <3>10, <1>a
  <2>10. CASE AttackDeath
    <3> DEFINE d == [pl[main.u] EXCEPT !.hp = 0, !.status = "DEAD"]
    <3>1. /\ phase' # "waiting" /\ UNCHANGED <<seats, nextPid>> /\ main.pc = "hit" /\ main' = Idle
          /\ IF pl[main.u].hp <= 0 THEN pl' = [pl EXCEPT ![main.u] = d] ELSE pl' = pl
      BY <2>10, <1>0 DEF AttackDeath
    <3>2. d.pid = pl[main.u].pid /\ d.status = "DEAD"
      <4>1. pl[main.u] \in PlayerType
        BY <3>1, <1>m, <1>p
      <4> QED BY <4>1 DEF PlayerType
    <3> HIDE DEF d
    <3>3. \A v \in Users : pl'[v] = IF v = main.u /\ pl[main.u].hp <= 0 THEN d ELSE pl[v]
      BY <3>1, <1>0
    <3>4. \A v \in InRoom : pl'[v].pid = pl[v].pid
      BY <3>2, <3>3, <1>0
    <3>5. \A v \in InRoom : ~(pl'[v].status = "GAMING" /\ pl'[v].hp <= 0)
      <4> SUFFICES ASSUME NEW v \in InRoom, pl'[v].status = "GAMING" /\ pl'[v].hp <= 0 PROVE FALSE
        OBVIOUS
      <4>1. v \in Users
        BY <1>0
      <4>2. v # main.u => ~(pl[v].status = "GAMING" /\ pl[v].hp <= 0)
        BY <1>c
      <4> QED BY <3>2, <3>3, <4>1, <4>2
    <3>6. main'.pc = "idle"
      BY <3>1, <1>i
    <3> QED BY <3>1, <3>4, <3>5, <3>6, <1>a
  <2>11. CASE Seat
    <3>1. /\ phase' # "waiting" /\ main.pc = "seat" /\ nextPid' = nextPid
          /\ main' = [main EXCEPT !.pc = "state"] /\ seats' = Append(seats, main.u)
          /\ pl' = [pl EXCEPT ![main.u] = Fresh(main.pid)]
      BY <2>11 DEF Seat
    <3>2. main.u \in Users /\ main.u \notin InRoom /\ main.pid \in Nat /\ main.pid < nextPid
      BY <3>1, <1>0, <1>m, <1>c DEF Locals
    <3>3. main'.pc = "state" /\ main'.u = main.u /\ main'.pid = main.pid
      BY <3>1, <1>m
    <3>4. InRoom' = InRoom \cup {main.u}
      BY <3>1, <3>2, <1>0, OneMoreSeat DEF InRoom
    <3>5. \A v \in Users : pl'[v] = IF v = main.u THEN Fresh(main.pid) ELSE pl[v]
      BY <3>1, <1>0
    <3>6. Fresh(main.pid).pid = main.pid /\ Fresh(main.pid).status = "LOBBY"
      BY DEF Fresh
    <3>7. /\ pl'[main.u].pid = main.pid /\ pl'[main.u].status = "LOBBY"
          /\ \A v \in InRoom : pl'[v] = pl[v] /\ pl[v].pid \in Nat /\ pl[v].pid < main.pid
      BY <3>1, <3>2, <3>5, <3>6, <1>0, <1>p, <1>c
    <3>8. \A u, v \in InRoom' : u # v => pl'[u].pid # pl'[v].pid
      BY <3>4, <3>7, <1>c
    <3>9. \A v \in InRoom' : pl'[v].pid < nextPid'
      BY <3>1, <3>2, <3>4, <3>7, <1>0
    <3>10. \A v \in InRoom' : ~(pl'[v].status = "GAMING" /\ pl'[v].hp <= 0)
      BY <3>1, <3>4, <3>7, <1>c
    <3> QED BY <3>1, <3>2, <3>3, <3>4, <3>7, <3>8, <3>9, <3>10 DEF People, Returning
  <2>12. CASE Restore
    <3> DEFINE r == Record(main.u)
               held == Picked([k \in 1..r.cnt |-> r.inv[k]], ItemType)
               e == [pl[main.u] EXCEPT !.hp = r.hp, !.status = "GAMING", !.pos = r.pos,
                                       !.buff = r.buff, !.shield = r.shield, !.inv = held]
    <3>1. /\ phase \in {"recovered", "running"} /\ main.pc = "state"
          /\ UNCHANGED <<phase, seats, nextPid, info>>
          /\ main' = [main EXCEPT !.pc = "record"]
          /\ pl' = [pl EXCEPT ![main.u] = e]
      BY <2>12 DEF Restore, disk
    <3>2. main.u \in Users /\ main'.pc = "record" /\ main'.u = main.u /\ main'.pid = main.pid
      BY <3>1, <1>m
    <3>3. r \in ReplayPlayer /\ Lives(r)
      <4>1. main.u \in MayReturn(files, info)
        BY <3>1, <1>0 DEF Locals
      <4> QED BY <4>1, <3>2, <1>0, RecordType DEF Disk
    <3>4. r.hp > 0 /\ r.hp \in Int
      BY <3>3 DEF Lives, ReplayPlayer, Health
    <3>5. Record(main.u)' = r
      BY <3>1, <3>2, RecordStays DEF r
    <3> HIDE DEF r, held
    <3>6. e.pid = pl[main.u].pid /\ e.pos = r.pos /\ e.shield = r.shield /\ e.hp = r.hp
      BY <3>2, <1>p DEF PlayerType
    <3> HIDE DEF e
    <3>7. \A v \in Users : pl'[v] = IF v = main.u THEN e ELSE pl[v]
      BY <3>1, <1>0
    <3>8. InRoom' = InRoom
      BY <3>1 DEF InRoom
    <3>9. \A v \in InRoom : pl'[v].pid = pl[v].pid
      BY <3>6, <3>7, <1>0
    <3>10. \A v \in InRoom : ~(pl'[v].status = "GAMING" /\ pl'[v].hp <= 0)
      BY <3>1, <3>4, <3>6, <3>7, <1>0, <1>c
    <3>11. pl'[main.u] = e
      BY <3>2, <3>7
    <3> QED BY <3>1, <3>2, <3>4, <3>5, <3>6, <3>8, <3>9, <3>10, <3>11, <1>c DEF People, Returning
  <2>13. CASE RestoreRecord
    <3>1. /\ phase' = "running" /\ main.pc = "record" /\ main' = Idle
          /\ UNCHANGED <<seats, nextPid, pl>>
      BY <2>13 DEF RestoreRecord
    <3> QED BY <3>1, <1>a, <1>c, <1>i
  <2> QED BY <1>4, <2>1, <2>2, <2>3, <2>4, <2>5, <2>6, <2>7, <2>8, <2>9, <2>10, <2>11, <2>12, <2>13 DEF Commands
<1>5. CASE GameThread
  <2>1. ASSUME NEW u \in Users, BuffExpires(u) PROVE People'
    <3>1. /\ phase = "running" /\ UNCHANGED <<phase, seats, nextPid, main, info>>
          /\ pl' = [pl EXCEPT ![u].buff = FALSE]
      BY <2>1 DEF BuffExpires, Tick
    <3>2. \A v \in Users : /\ pl'[v].pid = pl[v].pid /\ pl'[v].pos = pl[v].pos
                           /\ pl'[v].shield = pl[v].shield
                           /\ pl'[v].hp = pl[v].hp /\ pl'[v].status = pl[v].status
      BY <3>1, <1>p, <1>0 DEF PlayerType
    <3> QED BY <3>1, <3>2, <1>b, <1>p, <1>0
  <2>2. ASSUME NEW u \in Users, PoisonHurts(u) PROVE People'
    <3> DEFINE h == [pl[u] EXCEPT !.hp = pl[u].hp - POISON]
               d == [pl[u] EXCEPT !.hp = 0, !.status = "DEAD"]
    <3>1. /\ phase = "running" /\ UNCHANGED <<phase, seats, nextPid, main, info>>
          /\ (pl[u].hp > POISON /\ pl' = [pl EXCEPT ![u] = h]) \/ pl' = [pl EXCEPT ![u] = d]
          /\ Alive(u)
      BY <2>2, <1>0 DEF PoisonHurts, Tick
    <3>2. /\ h.pid = pl[u].pid /\ h.pos = pl[u].pos /\ h.shield = pl[u].shield
          /\ h.hp = pl[u].hp - POISON
          /\ d.pid = pl[u].pid /\ d.pos = pl[u].pos /\ d.shield = pl[u].shield
          /\ d.hp = 0 /\ d.status = "DEAD"
      BY <1>p DEF PlayerType
    <3>3. pl[u].hp > 0 /\ pl[u].hp \in Int /\ POISON \in Nat /\ POISON > 0
      BY <3>1, <1>p, NumbersOfGame DEF Alive
    <3> HIDE DEF h, d
    <3>4. CASE pl[u].hp > POISON /\ pl' = [pl EXCEPT ![u] = h]
      <4>1. \A v \in Users : pl'[v] = IF v = u THEN h ELSE pl[v]
        BY <3>4, <1>0
      <4>2. \A v \in InRoom : v # u => pl'[v] = pl[v] /\ pl[v].hp \in Int
        BY <4>1, <1>0, <1>p
      <4>3. pl'[u] = h /\ h.hp > 0 /\ h.hp \in Int /\ h.hp <= pl[u].hp
        BY <4>1, <3>2, <3>3, <3>4
      <4> QED BY <3>1, <3>2, <4>2, <4>3, <1>b
    <3>5. CASE pl' = [pl EXCEPT ![u] = d]
      <4>1. \A v \in Users : pl'[v] = IF v = u THEN d ELSE pl[v]
        BY <3>5, <1>0
      <4>2. \A v \in InRoom : v # u => pl'[v] = pl[v] /\ pl[v].hp \in Int
        BY <4>1, <1>0, <1>p
      <4>3. pl'[u] = d /\ 0 <= pl[u].hp
        BY <4>1, <3>3
      <4> QED BY <3>1, <3>2, <4>2, <4>3, <1>b
    <3> QED BY <3>1, <3>4, <3>5
  <2>3. ASSUME NEW pos \in Spots, NEW type \in ItemType, SpawnItem(pos, type) PROVE People'
    BY <2>3, <1>b, <1>p, <1>0 DEF SpawnItem, Tick
  <2>4. CASE Shrink \/ WaitOver \/ SnapshotCollect \/ SnapshotTruncate
    <3>1. phase = "running" /\ UNCHANGED <<phase, seats, nextPid, main, info, pl>>
      BY <2>4 DEF Shrink, WaitOver, SnapshotCollect, SnapshotTruncate, Tick, disk
    <3> QED BY <3>1, <1>b, <1>p, <1>0
  <2>5. CASE EndGame \/ DeleteWal \/ DeleteSnapshot \/ DeleteRecovery
    <3>1. phase' \notin {"waiting", "recovered", "running"} /\ UNCHANGED <<seats, nextPid, main, pl>>
      BY <2>5 DEF EndGame, DeleteWal, DeleteSnapshot, DeleteRecovery, mem
    <3> QED BY <3>1, <1>b, <1>p, <1>0
  <2> QED BY <1>5, <2>1, <2>2, <2>3, <2>4, <2>5 DEF GameThread
<1>6. CASE Crash
  <2>1. phase' = "down" /\ seats' = << >> /\ main' = Idle
    BY <1>6 DEF Crash
  <2>2. InRoom' = {}
    BY <2>1 DEF InRoom, ToSet
  <2> QED BY <2>1, <2>2, <1>i DEF People, Returning
<1>7. CASE Boot
  <2>1. phase = "down" /\ phase' = "none" /\ UNCHANGED <<seats, nextPid, main, pl>>
    BY <1>7 DEF Boot, mem
  <2> QED BY <2>1, <1>b, <1>p, <1>0
<1>8. CASE UNCHANGED vars
  <2>1. UNCHANGED <<seats, nextPid, main, pl, info, phase>>
    BY <1>8 DEF vars, mem, disk
  <2>2. Record(main.u)' = Record(main.u)
    BY <2>1, RecordStays
  <2>3. InRoom' = InRoom
    BY <2>1 DEF InRoom
  <2> QED BY <2>1, <2>2, <2>3 DEF People, Returning
<1> QED BY <1>1, <1>2, <1>3, <1>4, <1>5, <1>6, <1>7, <1>8 DEF Next
-----------------------------------------------------------------------------
\* What a step does to the log: one record at most.
LEMMA LogSteps ==
    Types /\ [Next]_vars => \/ KeepLog \/ WalSync \/ NewLog
                            \/ \E r : RecordOK(r) /\ (WalWrite(r) \/ WriteSynced(r))
                            \/ \E n \in DOMAIN log : log' = <<log[n]>>
<1> DEFINE Goal == \/ KeepLog \/ WalSync \/ NewLog
                   \/ \E r : RecordOK(r) /\ (WalWrite(r) \/ WriteSynced(r))
                   \/ \E n \in DOMAIN log : log' = <<log[n]>>
<1> SUFFICES ASSUME Types, [Next]_vars PROVE Goal
  OBVIOUS
<1>0. TypeOK /\ Locals /\ Disk
  BY DEF Types
<1>a. ASSUME KeepLog \/ WalSync \/ NewLog PROVE Goal
  BY <1>a
<1>b. ASSUME NEW r, RecordOK(r), WalWrite(r) \/ WriteSynced(r) PROVE Goal
  BY <1>b
<1>c. ASSUME log' = log PROVE Goal
  BY <1>c DEF KeepLog
<1>6. CASE Crash
  BY <1>6 DEF Crash
<1> HIDE DEF Goal
<1>1. CASE StartGame
  BY <1>1, <1>c DEF StartGame
<1>2. CASE WriteNext
  <2>1. Head(todo.recs) \in TodoSet
    BY <1>0, <1>2 DEF WriteNext, Locals
  <2> QED BY <1>2, <1>b, <2>1, TodoOK DEF WriteNext
<1>3. CASE FinishWrites
  BY <1>3, <1>a DEF FinishWrites
<1>4. CASE Commands
  <2>1. ASSUME NEW u \in Users, NEW to \in Spots, MoveBegin(u, to) PROVE Goal
    <3>1. RecordOK(Move(pl[u].pid, to))
      BY DEF RecordOK, Move, Places
    <3> QED BY <2>1, <3>1, <1>b DEF MoveBegin
  <2>2. ASSUME NEW u \in Users, NEW idx \in Slots, UseTake(u, idx) PROVE Goal
    BY <2>2, <1>a DEF UseTake
  <2>3. ASSUME NEW u \in Users, NEW v \in Users, Attack(u, v) PROVE Goal
    <3> DEFINE hp == IF pl[v].shield THEN pl[v].hp
                     ELSE pl[v].hp - (IF pl[u].buff THEN 2 * HIT ELSE HIT)
    <3>1. WalWrite(Damage(pl[v].pid, hp, pl[v].shield))
      BY <2>3 DEF Attack
    <3>2. RecordOK(Damage(pl[v].pid, hp, pl[v].shield))
      BY <1>0, BlowOK
    <3> HIDE DEF hp
    <3> QED BY <3>1, <3>2, <1>b
  <2>4. ASSUME NEW u \in Users, Leave(u) PROVE Goal
    BY <2>4, <1>a DEF Leave
  <2>5. ASSUME NEW u \in Users, NEW pid \in 1..MaxPid, Login(u, pid) PROVE Goal
    BY <2>5, <1>a, <1>c DEF Login
  <2>6. CASE MoveEnd \/ AddItem \/ UseLog \/ UseEffect \/ AttackDeath
    BY <1>0, <2>6, <1>a, <1>b, CommandRecord
  <2>7. CASE Seat \/ Restore
    BY <2>7, <1>c DEF Seat, Restore, disk
  <2>8. CASE RestoreRecord
    <3>1. RecordOK(Join(main.pid, main.u, Record(main.u)))
      BY <1>0, <2>8, ReturnRecord
    <3> QED BY <2>8, <3>1, <1>b DEF RestoreRecord
  <2> QED BY <1>4, <2>1, <2>2, <2>3, <2>4, <2>5, <2>6, <2>7, <2>8 DEF Commands
<1>5. CASE GameThread
  <2>1. ASSUME NEW u \in Users, BuffExpires(u) PROVE Goal
    BY <2>1, <1>a DEF BuffExpires
  <2>2. ASSUME NEW u \in Users, PoisonHurts(u) PROVE Goal
    <3>1. RecordOK(Death(pl[u].pid))
      BY DEF RecordOK, Death
    <3>2. KeepLog \/ WalWrite(Death(pl[u].pid))
      BY <2>2 DEF PoisonHurts
    <3> QED BY <3>1, <3>2, <1>a, <1>b
  <2>3. ASSUME NEW pos \in Spots, NEW type \in ItemType, SpawnItem(pos, type) PROVE Goal
    <3> DEFINE it == [pos |-> pos, type |-> type, active |-> TRUE]
    <3>1. RecordOK(ItemSpawn(it))
      BY DEF RecordOK, ItemSpawn, Places
    <3> QED BY <2>3, <3>1, <1>b DEF SpawnItem
  <2>4. CASE Shrink
    <3>1. RecordOK(PoisonShrink(radius - 1))
      BY <1>0, <2>4, Numbers DEF Shrink, TypeOK, RecordOK, PoisonShrink
    <3> QED BY <2>4, <3>1, <1>b DEF Shrink
  <2>5. CASE SnapshotCollect \/ SnapshotTruncate \/ DeleteWal
    BY <2>5, <1>a DEF SnapshotCollect, SnapshotTruncate, DeleteWal
  <2>6. CASE WaitOver \/ DeleteSnapshot \/ DeleteRecovery
    BY <2>6, <1>c DEF WaitOver, DeleteSnapshot, DeleteRecovery, disk
  <2>7. CASE EndGame
    <3>1. RecordOK(GameEnd)
      BY DEF RecordOK, GameEnd
    <3> QED BY <2>7, <3>1, <1>b DEF EndGame
  <2> QED BY <1>5, <2>1, <2>2, <2>3, <2>4, <2>5, <2>6, <2>7 DEF GameThread
<1>7. CASE Boot
  BY <1>7, <1>a, <1>c DEF Boot, NewLog
<1>8. CASE UNCHANGED vars
  BY <1>8, <1>c DEF vars, disk
<1> QED BY <1>1, <1>2, <1>3, <1>4, <1>5, <1>6, <1>7, <1>8 DEF Next

\* Whose the .recovery file of the next start is.
LEMMA RecoveredPlayers ==
    ASSUME NEW F \in SUBSET {"wal", "snap", "recovery"}, NEW l \in LogType,
           NEW sn \in Replayed, NEW inf \in Replayed,
           NEW after, after = CheckAndRecover(F, l, sn, inf)
    PROVE  after.info.players \in {<< >>, inf.players, l.st.players, sn.players}
<1> DEFINE s == IF HasPlayerData(F, l)
                THEN SaveRecoveryInfo(FromWal(l, "snap" \in F, sn)) ELSE SnapshotLoad(sn)
<1>1. s.players \in {l.st.players, sn.players}
  <2>1. /\ FromWal(l, "snap" \in F, sn) \in Replayed
        /\ FromWal(l, "snap" \in F, sn).players = l.st.players
    <3>1. ("snap" \in F) \in BOOLEAN
      OBVIOUS
    <3> QED BY <3>1, FromWalType
  <2>2. SaveRecoveryInfo(FromWal(l, "snap" \in F, sn)).players = l.st.players
    BY <2>1, InfoType
  <2>3. SnapshotLoad(sn).players = sn.players
    BY InfoType DEF SnapshotLoad
  <2> QED BY <2>2, <2>3
<1>2. NoInfo.players = << >>
  BY DEF NoInfo, Blank
<1> HIDE DEF s
<1>3. RecoverRoom(F, l, sn).info \in {NoInfo, s}
  BY DEF RecoverRoom, s
<1> QED BY <1>1, <1>2, <1>3 DEF CheckAndRecover

\* The logs in which nobody has two entries.
Orderly == {l \in LogType : OnceEach(l.st) /\ (l.st.players # << >> => l.any)}

\* Nobody is in the first log, the snapshot or the .recovery file.
LEMMA EntriesInit == Init => Entries
<1> SUFFICES ASSUME Init PROVE Entries
  OBVIOUS
<1>1. log = <<EmptyLog>> /\ snap = Blank /\ info = Blank
  BY DEF Init, NoInfo
<1>2. Blank.players = << >> /\ EmptyLog.st = Blank
  BY DEF Blank, EmptyLog
<1>3. OnceEach(Blank)
  BY <1>2 DEF OnceEach
<1>4. \A n \in DOMAIN log : log[n] = EmptyLog
  BY <1>1
<1> QED BY <1>1, <1>2, <1>3, <1>4 DEF Entries

\* The invariant is kept: nobody has two entries.
LEMMA EntriesKept == Types /\ Entries /\ [Next]_vars => Entries'
<1> SUFFICES ASSUME Types, Entries, [Next]_vars PROVE Entries'
  OBVIOUS
<1>0. TypeOK /\ Locals /\ Disk
  BY DEF Types
<1>1. /\ log \in Seq(LogType) /\ snap \in Replayed /\ info \in Replayed
      /\ \A n \in DOMAIN log : log[n] \in LogType
      /\ files \in SUBSET {"wal", "snap", "recovery"} /\ Len(log) > 0
  BY <1>0 DEF Disk, TypeOK
<1>2. \A n \in DOMAIN log : log[n] \in Orderly
  BY <1>1 DEF Entries, Orderly
<1>3. Blank.players = << >> /\ EmptyLog.st = Blank /\ NoInfo = Blank /\ OnceEach(Blank)
  BY DEF Blank, EmptyLog, NoInfo, OnceEach
<1>4. EmptyLog \in Orderly
  BY <1>3, EmptyLogType DEF Orderly
<1>5. \A n \in DOMAIN log' : log'[n] \in Orderly
  <2>1. ASSUME NEW r, RecordOK(r), WalWrite(r) \/ WriteSynced(r)
        PROVE  \A n \in DOMAIN log' : log'[n] \in Orderly
    <3> DEFINE l == Last(log)
    <3>1. l \in Orderly
      BY <1>1, <1>2 DEF Last
    <3>2. l.st \in Replayed /\ OnceEach(l.st) /\ l \in LogType
      BY <3>1 DEF Orderly, LogType
    <3> HIDE DEF l
    <3>3. OnceEach(Apply(l.st, r))
      BY <3>2, <2>1, OnceEachKept
    <3>4. Feed(l, r) \in Orderly
      BY <2>1, <3>2, <3>3, FeedType DEF Orderly
    <3> QED BY <2>1, <3>4, <1>0, <1>2, PlacesOfTheLog DEF l
  <2>2. ASSUME NEW n \in DOMAIN log, log' = <<log[n]>>
        PROVE  \A m \in DOMAIN log' : log'[m] \in Orderly
    <3> DEFINE l == log[n]
    <3>1. l \in Orderly /\ log' = <<l>>
      BY <1>2, <2>2
    <3> HIDE DEF l
    <3> QED BY <3>1
  <2>3. ASSUME KeepLog \/ WalSync \/ NewLog
        PROVE  \A n \in DOMAIN log' : log'[n] \in Orderly
    <3> DEFINE r == GameStart
    <3> HIDE DEF r
    <3> QED BY <2>3, <1>0, <1>2, <1>4, PlacesOfTheLog
  <2> QED BY <2>1, <2>2, <2>3, LogSteps
<1>6. OnceEach(snap) /\ OnceEach(info)
  BY DEF Entries
<1>7. OnceEach(snap')
  <2>1. CASE SnapshotCollect
    <3> DEFINE ps == [i \in DOMAIN seats |-> Saved(seats[i])]
    <3>1. seats \in Seq(Users) /\ IsInjective(seats) /\ DOMAIN seats = 1..Len(seats)
            /\ \A i \in 1..Len(seats) : seats[i] \in Users
      BY <1>0 DEF TypeOK
    <3>2. Len(ps) = Len(seats) /\ \A i \in 1..Len(seats) : ps[i].user = seats[i]
      BY <3>1 DEF Saved
    <3>3. snap'.players = ps
      BY <2>1 DEF SnapshotCollect
    <3> HIDE DEF ps
    <3> QED BY <3>1, <3>2, <3>3 DEF OnceEach, IsInjective
  <2>2. CASE ~SnapshotCollect
    <3>1. snap' \in {snap, Blank}
      BY <2>2 DEF Next, StartGame, WriteNext, FinishWrites, Commands, GameThread, Crash, Boot,
         MoveBegin, UseTake, Attack, Leave, Login, MoveEnd, AddItem, UseLog, UseEffect, AttackDeath,
         Seat, Restore, RestoreRecord, BuffExpires, PoisonHurts, Shrink, SpawnItem, SnapshotTruncate,
         WaitOver, EndGame, DeleteWal, DeleteSnapshot, DeleteRecovery, disk, vars
    <3> QED BY <3>1, <1>3, <1>6
  <2> QED BY <2>1, <2>2
<1>8. OnceEach(info')
  <2>1. CASE Boot
    <3> DEFINE after == CheckAndRecover(files, log[1], snap, info)
    <3>1. info' = after.info
      BY <2>1 DEF Boot
    <3>2. log[1] \in Orderly /\ log[1] \in LogType
      BY <1>1, <1>2
    <3>3. after.info.players \in {<< >>, info.players, log[1].st.players, snap.players}
      BY <3>2, <1>1, RecoveredPlayers
    <3> HIDE DEF after
    <3>4. OnceEach(log[1].st)
      BY <3>2 DEF Orderly
    <3>5. CASE after.info.players = << >>
      BY <3>1, <3>5 DEF OnceEach
    <3>6. CASE after.info.players = info.players
      BY <3>1, <3>6, <1>6 DEF OnceEach
    <3>7. CASE after.info.players = snap.players
      BY <3>1, <3>7, <1>6 DEF OnceEach
    <3>8. CASE after.info.players = log[1].st.players
      BY <3>1, <3>8, <3>4 DEF OnceEach
    <3> QED BY <3>3, <3>5, <3>6, <3>7, <3>8
  <2>2. CASE ~Boot
    <3>1. info' \in {info, NoInfo}
      BY <2>2 DEF Next, StartGame, WriteNext, FinishWrites, Commands, GameThread, Crash,
         MoveBegin, UseTake, Attack, Leave, Login, MoveEnd, AddItem, UseLog, UseEffect, AttackDeath,
         Seat, Restore, RestoreRecord, BuffExpires, PoisonHurts, Shrink, SpawnItem, SnapshotCollect,
         SnapshotTruncate, WaitOver, EndGame, DeleteWal, DeleteSnapshot, DeleteRecovery, disk, vars
    <3> QED BY <3>1, <1>3, <1>6
  <2> QED BY <2>1, <2>2
<1> QED BY <1>5, <1>7, <1>8 DEF Entries, Orderly

-----------------------------------------------------------------------------
(***************************************************************************)
(* Records written in a row.                                               *)
(***************************************************************************)
\* A row: a record that changes nothing, those of players and of items, and
\* perhaps the radius of the zone.
RowOf(row, js, ss) ==
    /\ Len(row) \in {1 + Len(js) + Len(ss), 2 + Len(js) + Len(ss)}
    /\ row[1].t \in {"GAME_START", "CHECKPOINT"}
    /\ \A i \in 1..Len(js) : row[1 + i] = js[i]
    /\ \A i \in 1..Len(ss) : row[1 + Len(js) + i] = ss[i]
    /\ Len(row) = 2 + Len(js) + Len(ss) => row[2 + Len(js) + Len(ss)].t = "POISON_SHRINK"

\* Rows the program writes: of as many as there is room for, no user twice.
Writable(js, ss) ==
    /\ js \in Seq(JoinSet) /\ ss \in Seq(SpawnSet)
    /\ Len(js) <= MAX_ROOM_PLAYERS /\ Len(ss) <= MAX_MAP_ITEMS
    /\ \A i, j \in 1..Len(js) : js[i].user = js[j].user => i = j

\* Two sequences, one after the other.
LEMMA Concatenated ==
    ASSUME NEW S, NEW a \in Seq(S), NEW b \in Seq(S)
    PROVE  /\ a \o b \in Seq(S) /\ Len(a \o b) = Len(a) + Len(b)
           /\ Len(a) \in Nat /\ Len(b) \in Nat
           /\ \A i \in 1..Len(a) : (a \o b)[i] = a[i]
           /\ \A i \in 1..Len(b) : (a \o b)[Len(a) + i] = b[i]
<1>1. Len(a) \in Nat /\ Len(b) \in Nat
  OBVIOUS
<1>2. a \o b \in Seq(S) /\ Len(a \o b) = Len(a) + Len(b)
  OBVIOUS
<1>3. \A i \in 1..Len(a) : (a \o b)[i] = a[i]
  BY <1>1
<1>4. \A i \in 1..Len(b) : (a \o b)[Len(a) + i] = b[i]
  BY <1>1
<1> QED BY <1>1, <1>2, <1>3, <1>4

\* What the code writes in a row is a row.
LEMMA RowsAreRows ==
    ASSUME NEW first \in {GameStart, Checkpoint}, NEW js \in Seq(JoinSet), NEW ss \in Seq(SpawnSet),
           NEW q \in 1..InitialRadius
    PROVE  /\ RowOf(Row(first, js, ss), js, ss)
           /\ RowOf(Row(first, js, ss) \o <<PoisonShrink(q)>>, js, ss)
           /\ Row(first, js, ss) \in Seq(TodoSet)
           /\ Row(first, js, ss) \o <<PoisonShrink(q)>> \in Seq(TodoSet)
<1> DEFINE z == PoisonShrink(q)
           head == <<first>>
           a == head \o js
           row == Row(first, js, ss)
           more == row \o <<z>>
<1>1. row \in Seq(TodoSet) /\ more \in Seq(TodoSet)
  BY RowType
<1>2. first \in TodoSet /\ first.t \in {"GAME_START", "CHECKPOINT"} /\ z.t = "POISON_SHRINK"
  BY DEF TodoSet, GameStart, Checkpoint, PoisonShrink
<1>3. js \in Seq(TodoSet) /\ ss \in Seq(TodoSet)
  <2>1. JoinSet \subseteq TodoSet /\ SpawnSet \subseteq TodoSet
    BY DEF TodoSet
  <2> HIDE DEF TodoSet
  <2> QED BY <2>1
<1> HIDE DEF TodoSet, z
<1>4. Len(js) \in Nat /\ Len(ss) \in Nat
  BY <1>3
<1>5. head \in Seq(TodoSet) /\ Len(head) = 1 /\ head[1] = first
  BY <1>2
<1>6. row = a \o ss
  BY DEF Row
<1> HIDE DEF head
<1>7. a \in Seq(TodoSet) /\ Len(a) = 1 + Len(js) /\ a[1] = first
        /\ \A i \in 1..Len(js) : a[1 + i] = js[i]
  <2>1. /\ a \in Seq(TodoSet) /\ Len(a) = Len(head) + Len(js)
        /\ \A i \in 1..Len(head) : a[i] = head[i]
        /\ \A i \in 1..Len(js) : a[Len(head) + i] = js[i]
    BY SMTT(30), <1>3, <1>5, Concatenated
  <2> HIDE DEF a
  <2> QED BY <1>5, <2>1
<1> HIDE DEF a, row
<1>8. /\ Len(row) = 1 + Len(js) + Len(ss)
      /\ \A i \in 1..1 + Len(js) : row[i] = a[i]
      /\ \A i \in 1..Len(ss) : row[1 + Len(js) + i] = ss[i]
  <2> DEFINE w == a \o ss
  <2>1. /\ w \in Seq(TodoSet) /\ Len(w) = Len(a) + Len(ss)
        /\ \A i \in 1..Len(a) : w[i] = a[i]
        /\ \A i \in 1..Len(ss) : w[Len(a) + i] = ss[i]
    <3>1. a \in Seq(TodoSet) /\ ss \in Seq(TodoSet)
      BY <1>3, <1>7
    <3> QED BY <3>1, Concatenated
  <2>2. row = w
    BY <1>6
  <2> HIDE DEF w
  <2> QED BY <1>4, <1>7, <2>1, <2>2
<1>9. row[1] = first /\ \A i \in 1..Len(js) : row[1 + i] = js[i]
  BY <1>4, <1>7, <1>8
<1>10. RowOf(row, js, ss)
  BY <1>2, <1>4, <1>8, <1>9 DEF RowOf
<1> DEFINE last == <<z>>
<1>11. Len(last) = 1 /\ last[1] = z /\ more = row \o last
  OBVIOUS
<1>12. Len(more) = Len(row) + 1 /\ more[Len(row) + 1] = z /\ \A i \in 1..Len(row) : more[i] = row[i]
  <2>1. last \in Seq({z} \cup TodoSet)
    OBVIOUS
  <2>2. row \in Seq({z} \cup TodoSet)
    BY <1>1
  <2> HIDE DEF last
  <2> DEFINE w == row \o last
  <2>5. /\ Len(w) = Len(row) + Len(last) /\ Len(row) \in Nat
        /\ \A i \in 1..Len(row) : w[i] = row[i]
        /\ \A i \in 1..Len(last) : w[Len(row) + i] = last[i]
    BY <2>1, <2>2, Concatenated
  <2>6. more = w
    BY <1>11
  <2> HIDE DEF w, more
  <2>3. /\ Len(more) = Len(row) + Len(last) /\ Len(row) \in Nat
        /\ \A i \in 1..Len(row) : more[i] = row[i]
        /\ \A i \in 1..Len(last) : more[Len(row) + i] = last[i]
    BY <2>5, <2>6
  <2>4. more[Len(row) + 1] = last[1]
    BY <1>11, <2>3
  <2> QED BY <1>11, <2>3, <2>4
<1> HIDE DEF more
<1>13. RowOf(more, js, ss)
  <2>1. Len(more) = 2 + Len(js) + Len(ss) /\ more[2 + Len(js) + Len(ss)] = z
    BY <1>4, <1>8, <1>12
  <2>2. more[1] = first /\ (\A i \in 1..Len(js) : more[1 + i] = js[i])
          /\ \A i \in 1..Len(ss) : more[1 + Len(js) + i] = ss[i]
    BY <1>4, <1>8, <1>9, <1>12
  <2> QED BY <1>2, <2>1, <2>2 DEF RowOf
<1> QED BY <1>1, <1>10, <1>13 DEF row, more, z

\* The next record of a row.
LEMMA OneMoreWritten ==
    ASSUME NEW s \in Replayed, NEW js, NEW ss, Writable(js, ss), NEW row, RowOf(row, js, ss),
           NEW k \in 0..Len(row) - 1, Written(s, js, ss, k), NEW r, r = row[k + 1], RecordOK(r)
    PROVE  Written(Apply(s, r), js, ss, k + 1)
<1> DEFINE t == Apply(s, r)
           n == Len(js)
           m == Len(ss)
<1>1. n \in Nat /\ m \in Nat /\ Len(row) \in {1 + n + m, 2 + n + m} /\ k \in Nat
        /\ n <= MAX_ROOM_PLAYERS /\ m <= MAX_MAP_ITEMS
        /\ MAX_ROOM_PLAYERS \in Nat /\ MAX_MAP_ITEMS \in Nat
  BY Numbers DEF Writable, RowOf
<1>2. /\ s.players \in Seq(ReplayPlayer) /\ s.items \in Seq(MapItem)
      /\ Len(s.players) \in Nat /\ Len(s.items) \in Nat
  BY DEF Replayed
<1>3. /\ Len(s.players) <= n /\ \A i \in 1..Len(s.players) : s.players[i] = JoinedPlayer(js[i])
      /\ Len(s.players) = Within(k - 1, n)
      /\ Len(s.items) = Within(k - 1 - n, m)
      /\ \A i \in 1..Len(s.items) :
           s.items[i] = [pos |-> ss[i].pos, type |-> ss[i].item, active |-> TRUE]
  BY DEF Written, Beginning
<1> HIDE DEF n, m, t
<1> DEFINE Same == t.players = s.players /\ t.items = s.items
<1>4. CASE k = 0 \/ k = 1 + n + m
  <2>1. r.t \in {"GAME_START", "CHECKPOINT", "POISON_SHRINK"}
    <3>1. CASE k = 0
      <4>1. r = row[1]
        BY <3>1
      <4> QED BY <4>1 DEF RowOf
    <3>2. CASE k = 1 + n + m
      <4>1. Len(row) = 2 + n + m /\ k + 1 = 2 + n + m
        BY <1>1, <3>2
      <4>2. row[2 + n + m].t = "POISON_SHRINK"
        BY <4>1 DEF RowOf, n, m
      <4> QED BY <4>1, <4>2
    <3> QED BY <1>4, <3>1, <3>2
  <2>2. t.players = s.players /\ t.items = ItemsAfter(s, r)
    BY <2>1, ApplyToMap DEF PlayerRecords, t
  <2>3. t.items = s.items
    BY <2>1, <2>2 DEF ItemsAfter
  <2>4. Within(k, n) = Within(k - 1, n) /\ Within(k - n, m) = Within(k - 1 - n, m)
    BY <1>1, <1>4 DEF Within
  <2>5. k + 1 - 1 = k /\ k + 1 - 1 - n = k - n
    BY <1>1
  <2> QED BY <1>3, <2>2, <2>3, <2>4, <2>5 DEF Written, Beginning, n, m, t
<1>5. CASE k \in 1..n
  <2>1. r = js[k] /\ r \in JoinSet
    BY <1>5, <1>1 DEF RowOf, Writable, n
  <2>2. r.t = "PLAYER_JOIN" /\ r.user \in Users
    BY <2>1 DEF JoinSet
  <2>3. Len(s.players) = k - 1
    BY <1>3, <1>5, <1>1 DEF Within
  <2>4. FindUserIndex(s, r.user) = 0
    <3>1. \A i \in 1..Len(s.players) : s.players[i].user = js[i].user
      <4>1. \A x : JoinedPlayer(x).user = x.user
        BY DEF JoinedPlayer
      <4> QED BY <1>3, <4>1
    <3>2. \A i \in 1..Len(s.players) : js[i].user # r.user
      <4> SUFFICES ASSUME NEW i \in 1..Len(s.players) PROVE js[i].user # r.user
        OBVIOUS
      <4>1. i \in 1..Len(js) /\ k \in 1..Len(js) /\ i # k
        BY <1>1, <1>5, <2>3 DEF n
      <4>2. js[i].user # js[k].user
        BY <4>1 DEF Writable
      <4> QED BY <2>1, <4>2
    <3> QED BY SMTT(30), <1>2, <3>1, <3>2, FindUser
  <2>5. t.players = Append(s.players, JoinedPlayer(r)) /\ t.items = s.items
    <3>1. Len(s.players) < MAX_ROOM_PLAYERS
      BY <1>1, <1>5, <2>3
    <3> QED BY <2>2, <2>4, <3>1, ApplyJoin DEF t
  <2>6. /\ Len(t.players) = k /\ t.players[k] = JoinedPlayer(js[k])
        /\ \A i \in 1..k - 1 : t.players[i] = JoinedPlayer(js[i])
    BY SMTT(30), <1>2, <1>3, <1>5, <1>1, <2>1, <2>3, <2>5
  <2>7. \A i \in 1..k : t.players[i] = JoinedPlayer(js[i])
    BY <2>6, <1>1, <1>5
  <2>8. Within(k, n) = k /\ Within(k - n, m) = Within(k - 1 - n, m)
    BY <1>1, <1>5 DEF Within
  <2>9. k + 1 - 1 = k /\ k + 1 - 1 - n = k - n /\ k <= n
    BY <1>1, <1>5
  <2> QED BY <1>3, <2>5, <2>6, <2>7, <2>8, <2>9 DEF Written, Beginning, n, m, t
<1>6. CASE k \in n + 1..n + m
  <2> DEFINE j == k - n
  <2>1. j \in 1..m /\ k + 1 = 1 + n + j /\ j \in Nat
    BY <1>1, <1>6
  <2>2. r = ss[j] /\ r \in SpawnSet
    BY SMTT(30), <2>1, <1>1 DEF RowOf, Writable, n, m
  <2>3. r.t = "ITEM_SPAWN"
    BY <2>2 DEF SpawnSet
  <2>4. Len(s.items) = j - 1 /\ Len(s.items) < MAX_MAP_ITEMS
    BY <1>1, <1>3, <1>6 DEF Within
  <2>5. /\ t.players = s.players
        /\ t.items = Append(s.items, [pos |-> r.pos, type |-> r.item, active |-> TRUE])
    <3>1. t.players = s.players /\ t.items = ItemsAfter(s, r)
      BY <2>3, ApplyToMap DEF PlayerRecords, t
    <3> QED BY <3>1, <2>3, <2>4 DEF ItemsAfter
  <2> DEFINE it == [pos |-> r.pos, type |-> r.item, active |-> TRUE]
  <2>6. it = [pos |-> ss[j].pos, type |-> ss[j].item, active |-> TRUE]
    BY <2>2
  <2>7. t.items = Append(s.items, it)
    BY <2>5
  <2> HIDE DEF it
  <2>8. Len(t.items) = j /\ t.items[j] = it /\ \A i \in 1..j - 1 : t.items[i] = s.items[i]
    BY <1>2, <2>1, <2>4, <2>7
  <2>9. \A i \in 1..j : t.items[i] = [pos |-> ss[i].pos, type |-> ss[i].item, active |-> TRUE]
    <3> SUFFICES ASSUME NEW i \in 1..j
                 PROVE  t.items[i] = [pos |-> ss[i].pos, type |-> ss[i].item, active |-> TRUE]
      OBVIOUS
    <3>1. CASE i = j
      BY <2>6, <2>8, <3>1
    <3>2. CASE i # j
      <4>1. i \in 1..j - 1 /\ i \in 1..Len(s.items)
        BY <2>1, <2>4, <3>2
      <4> QED BY <4>1, <1>3, <2>8
    <3> QED BY <3>1, <3>2
  <2>10. Within(k, n) = Within(k - 1, n) /\ Within(k - n, m) = j
    BY <1>1, <1>6 DEF Within
  <2>11. k + 1 - 1 = k /\ k + 1 - 1 - n = k - n
    BY <1>1
  <2>12. Beginning(t.players, js)
    BY <2>5 DEF Written
  <2> HIDE DEF j
  <2>13. Len(t.players) = Within(k + 1 - 1, n) /\ Len(t.items) = Within(k + 1 - 1 - n, m)
    BY <1>3, <2>5, <2>8, <2>10, <2>11
  <2>14. \A i \in 1..Len(t.items) : t.items[i] = [pos |-> ss[i].pos, type |-> ss[i].item, active |-> TRUE]
    BY <2>8, <2>9
  <2> HIDE DEF t
  <2> QED BY <2>12, <2>13, <2>14 DEF Written, n, m, t
<1> QED BY <1>1, <1>4, <1>5, <1>6

\* A row is begun in an empty log.
LEMMA RowBegun ==
    ASSUME NEW js, NEW ss, Writable(js, ss), NEW row \in Seq(TodoSet), RowOf(row, js, ss),
           NEW l, l = <<EmptyLog>>
    PROVE  InARow(row, js, ss, row, l)
<1>1. Len(row) \in Nat /\ Len(js) \in Nat /\ Len(ss) \in Nat
  <2>1. Len(row) \in Nat
    <3> HIDE DEF TodoSet
    <3> QED OBVIOUS
  <2> QED BY <2>1 DEF Writable
<1>2. Blank.players = << >> /\ Blank.items = << >> /\ EmptyLog.st = Blank
  BY DEF Blank, EmptyLog
<1>3. Written(Blank, js, ss, 0)
  <2>1. Within(0 - 1, Len(js)) = 0 /\ Within(0 - 1 - Len(js), Len(ss)) = 0
    BY <1>1 DEF Within
  <2> QED BY <1>1, <1>2, <2>1 DEF Written, Beginning
<1>4. Last(l) = EmptyLog /\ \A n \in DOMAIN l : l[n] = EmptyLog
  BY DEF Last
<1>5. Len(row) - Len(row) = 0
  BY <1>1
<1>6. \A i \in 1..Len(row) : row[i] = row[0 + i]
  BY <1>1
<1>7. Beginning(Blank.players, js)
  BY <1>3 DEF Written
<1> QED BY <1>1, <1>2, <1>3, <1>4, <1>5, <1>6, <1>7 DEF InARow

\* Its next record is written.
LEMMA RowGoesOn ==
    ASSUME NEW js, NEW ss, Writable(js, ss), NEW row \in Seq(TodoSet), RowOf(row, js, ss),
           NEW recs \in Seq(TodoSet), recs # << >>, NEW l \in Seq(LogType), Len(l) > 0,
           InARow(row, js, ss, recs, l),
           NEW f, f = Feed(Last(l), Head(recs)), NEW m, m = Append(l, f) \/ m = <<f>>
    PROVE  InARow(row, js, ss, Tail(recs), m)
<1> DEFINE k == Len(row) - Len(recs)
           rest == Tail(recs)
           r == Head(recs)
<1>1. /\ k \in 0..Len(row)
      /\ \A i \in 1..Len(recs) : recs[i] = row[k + i]
      /\ Written(Last(l).st, js, ss, k)
      /\ \A n \in DOMAIN l : Beginning(l[n].st.players, js)
  BY DEF InARow
<1>2. /\ Len(row) \in Nat /\ Len(recs) \in Nat /\ Len(recs) > 0
      /\ r = recs[1] /\ Len(rest) = Len(recs) - 1 /\ r \in TodoSet
      /\ \A i \in 1..Len(rest) : rest[i] = recs[i + 1]
  <2> HIDE DEF TodoSet
  <2> QED OBVIOUS
<1>3. RecordOK(r)
  BY <1>2, TodoOK
<1>4. k \in 0..Len(row) - 1 /\ r = row[k + 1]
  BY <1>1, <1>2
<1>5. Last(l) \in LogType /\ Last(l).st \in Replayed /\ DOMAIN l = 1..Len(l) /\ Len(l) \in Nat
  <2>1. DOMAIN l = 1..Len(l) /\ Len(l) \in Nat /\ Len(l) \in 1..Len(l)
    OBVIOUS
  <2>2. Last(l) \in LogType
    <3> HIDE DEF LogType
    <3> QED BY <2>1 DEF Last
  <2> QED BY <2>1, <2>2 DEF LogType
<1>6. f.st = Apply(Last(l).st, r) /\ f \in LogType
  BY <1>3, <1>5, FeedType
<1> HIDE DEF r, rest, k
<1>7. Written(f.st, js, ss, k + 1)
  BY <1>1, <1>3, <1>4, <1>5, <1>6, OneMoreWritten
<1>8. Last(m) = f /\ \A n \in DOMAIN m : m[n] = f \/ (n \in DOMAIN l /\ m[n] = l[n])
  <2>1. CASE m = Append(l, f)
    BY <1>5, <2>1 DEF Last
  <2>2. CASE m = <<f>>
    BY <2>2 DEF Last
  <2> QED BY <2>1, <2>2
<1>9. \A n \in DOMAIN m : Beginning(m[n].st.players, js)
  <2>1. Beginning(f.st.players, js)
    BY <1>7 DEF Written
  <2> QED BY <1>1, <1>8, <2>1
<1>10. Len(row) - Len(rest) = k + 1 /\ k + 1 \in 0..Len(row)
  BY <1>2, <1>4 DEF k
<1>11. \A i \in 1..Len(rest) : rest[i] = row[k + 1 + i]
  <2> SUFFICES ASSUME NEW i \in 1..Len(rest) PROVE rest[i] = row[k + 1 + i]
    OBVIOUS
  <2>1. i + 1 \in 1..Len(recs) /\ k + (i + 1) = k + 1 + i
    BY <1>2, <1>4
  <2>2. recs[i + 1] = row[k + (i + 1)]
    BY <1>1, <2>1
  <2> QED BY <1>2, <2>1, <2>2
<1>12. InARow(row, js, ss, rest, m)
  BY <1>7, <1>8, <1>9, <1>10, <1>11 DEF InARow
<1> QED BY <1>12 DEF rest

\* The players who live in a replay, for a row.
LEMMA LivingType ==
    ASSUME NEW s \in Replayed, OnceEach(s)
    PROVE  /\ LivingOf(s) \in Seq(ReplayPlayer) /\ Len(LivingOf(s)) <= MAX_ROOM_PLAYERS
           /\ \A i, j \in 1..Len(LivingOf(s)) : LivingOf(s)[i].user = LivingOf(s)[j].user => i = j
           /\ \A i \in 1..Len(LivingOf(s)) : Lives(LivingOf(s)[i])
           /\ \A j \in 1..Len(s.players) : Lives(s.players[j]) =>
                 \E i \in 1..Len(LivingOf(s)) : LivingOf(s)[i] = s.players[j]
<1> DEFINE Good == {p \in ToSet(s.players) : Lives(p)}
           o == Picked(s.players, Good)
<1>1. s.players \in Seq(ReplayPlayer) /\ Len(s.players) \in Nat /\ Len(s.players) <= MAX_ROOM_PLAYERS
  BY DEF Replayed
<1>2. /\ o \in Seq(ReplayPlayer) /\ Len(o) <= Len(s.players)
      /\ \A i \in 1..Len(o) : o[i] \in Good
      /\ \A j \in 1..Len(s.players) : s.players[j] \in Good => \E i \in 1..Len(o) : o[i] = s.players[j]
  <2> HIDE DEF Good
  <2> QED BY <1>1, PickedBasics
<1>3. PICK at : PickedFrom(s.players, Good, o, at)
  <2> HIDE DEF Good
  <2> QED BY <1>1, PickedAt
<1>4. Len(o) \in Nat
  BY <1>2
<1>5. \A j \in 1..Len(s.players) : s.players[j] \in ToSet(s.players)
  BY <1>1 DEF ToSet
<1>6. LivingOf(s) = o
  BY DEF LivingOf
<1>7. \A x : x \in Good => Lives(x)
  OBVIOUS
<1>8. \A j \in 1..Len(s.players) : Lives(s.players[j]) => s.players[j] \in Good
  BY <1>5
<1> HIDE DEF o, Good
<1>9. \A i, j \in 1..Len(o) : o[i].user = o[j].user => i = j
  <2> SUFFICES ASSUME NEW i \in 1..Len(o), NEW j \in 1..Len(o), o[i].user = o[j].user PROVE i = j
    OBVIOUS
  <2>1. at[i] \in 1..Len(s.players) /\ at[j] \in 1..Len(s.players)
    BY <1>3 DEF PickedFrom
  <2>2. o[i] = s.players[at[i]] /\ o[j] = s.players[at[j]]
    BY <1>3 DEF PickedFrom
  <2>3. at[i] = at[j]
    BY <2>1, <2>2 DEF OnceEach
  <2>4. (i < j => at[i] < at[j]) /\ (j < i => at[j] < at[i])
    BY <1>3 DEF PickedFrom
  <2> QED BY <1>4, <2>1, <2>3, <2>4
<1>10. Len(o) <= MAX_ROOM_PLAYERS
  BY <1>1, <1>2, <1>4, Numbers
<1> QED BY <1>2, <1>6, <1>7, <1>8, <1>9, <1>10

-----------------------------------------------------------------------------
\* The rows of the program.
LEMMA JoinsWritable ==
    ASSUME NEW ps \in Seq(ReplayPlayer), Len(ps) <= MAX_ROOM_PLAYERS,
           \A i, j \in 1..Len(ps) : ps[i].user = ps[j].user => i = j,
           NEW is \in Seq(MapItem), Len(is) <= MAX_MAP_ITEMS
    PROVE  Writable(Joins(ps), Spawns(is))
<1>1. /\ Joins(ps) \in Seq(JoinSet) /\ Len(Joins(ps)) = Len(ps)
      /\ \A i \in 1..Len(ps) : Joins(ps)[i] = Join(ps[i].id, ps[i].user, ps[i])
  BY JoinsType
<1>2. Spawns(is) \in Seq(SpawnSet) /\ Len(Spawns(is)) <= MAX_MAP_ITEMS
  <2>1. Spawns(is) \in Seq(SpawnSet) /\ Len(Spawns(is)) = Len(OnTheMap(is))
    BY SpawnsType
  <2>2. Len(OnTheMap(is)) <= MAX_MAP_ITEMS
    BY OnTheMapType
  <2> QED BY <2>1, <2>2
<1>3. \A i \in 1..Len(ps) : Joins(ps)[i].user = ps[i].user
  <2>1. \A pid, u, p : Join(pid, u, p).user = u
    BY DEF Join
  <2> QED BY <1>1, <2>1
<1> QED BY <1>1, <1>2, <1>3 DEF Writable

\* The copy of the game, as the rows of its start and of a snapshot have it.
Copied == /\ Writable(Joins(Copy), Spawns(items))
          /\ Copy \in Seq(ReplayPlayer) /\ Len(Copy) = Len(seats)
          /\ \A i \in 1..Len(seats) : Copy[i] = Saved(seats[i])
          /\ \A u \in Users : Saved(u) \in ReplayPlayer

\* What snapshot_save() collects can be written to the log.
LEMMA CopyWritable == TypeOK /\ Locals => Copied
<1> SUFFICES ASSUME TypeOK, Locals PROVE Copied
  OBVIOUS
<1>1. seats \in Seq(Users) /\ IsInjective(seats) /\ DOMAIN seats = 1..Len(seats) /\ Len(seats) \in Nat
  BY DEF TypeOK
<1>2. Copy = [i \in 1..Len(seats) |-> Saved(seats[i])]
  BY <1>1 DEF Copy
<1>3. \A u \in Users : Saved(u) \in ReplayPlayer /\ Saved(u).user = u
  BY SavedType DEF TypeOK, PlayerOK
<1>4. \A i \in 1..Len(seats) : seats[i] \in Users
  BY <1>1
<1>5. Copy \in Seq(ReplayPlayer) /\ Len(Copy) = Len(seats)
        /\ \A i \in 1..Len(seats) : Copy[i] = Saved(seats[i])
  <2>1. [i \in 1..Len(seats) |-> Saved(seats[i])] \in [1..Len(seats) -> ReplayPlayer]
    BY <1>3, <1>4
  <2>2. Copy \in [1..Len(seats) -> ReplayPlayer]
    BY <1>2, <2>1
  <2>3. Copy \in Seq(ReplayPlayer) /\ Len(Copy) = Len(seats)
    BY <1>1, <2>2
  <2> QED BY <1>2, <2>3
<1>6. \A i, j \in 1..Len(Copy) : Copy[i].user = Copy[j].user => i = j
  BY <1>1, <1>3, <1>4, <1>5 DEF IsInjective
<1>7. Len(Copy) <= MAX_ROOM_PLAYERS
  BY <1>1, <1>5, SeatsFit, NumbersOfGame, Numbers
<1>8. items \in Seq(MapItem) /\ Len(items) <= MAX_MAP_ITEMS
  BY SnapshotType, Numbers
<1> QED BY <1>3, <1>5, <1>6, <1>7, <1>8, JoinsWritable DEF Copied

\* So can what a .recovery file holds, all of it or the living alone.
LEMMA FileWritable ==
    ASSUME NEW s \in Replayed, OnceEach(s)
    PROVE  Writable(Joins(s.players), Spawns(s.items)) /\ Writable(Joins(LivingOf(s)), Spawns(s.items))
<1>1. /\ s.players \in Seq(ReplayPlayer) /\ Len(s.players) <= MAX_ROOM_PLAYERS
      /\ s.items \in Seq(MapItem) /\ Len(s.items) <= MAX_MAP_ITEMS
  BY DEF Replayed
<1>2. \A i, j \in 1..Len(s.players) : s.players[i].user = s.players[j].user => i = j
  BY DEF OnceEach
<1>3. Writable(Joins(s.players), Spawns(s.items))
  BY <1>1, <1>2, JoinsWritable
<1>4. Writable(Joins(LivingOf(s)), Spawns(s.items))
  BY <1>1, LivingType, JoinsWritable
<1> QED BY <1>3, <1>4

\* No row is being written to begin with.
LEMMA RowsInit == Init => Rows
BY DEF Init, Rows

\* The invariant is kept: the rows.
LEMMA RowsKept == Types /\ Control /\ Entries /\ Zone /\ Rows /\ [Next]_vars => Rows'
<1> SUFFICES ASSUME Types, Control, Entries, Zone, Rows, [Next]_vars PROVE Rows'
  OBVIOUS
<1>0. /\ TypeOK /\ Locals /\ Disk /\ main \in MainType /\ log \in Seq(LogType) /\ Len(log) > 0
      /\ snap \in Replayed /\ info \in Replayed /\ OnceEach(snap) /\ OnceEach(info)
      /\ todo \in [by : {"none", "main", "game"}, recs : Seq(TodoSet)]
      /\ phase \in Phases
  BY DEF Types, Locals, Disk, Entries, TypeOK
<1> HIDE DEF TodoSet
<1>z. NoTodo.by = "none" /\ NoTodo.recs = << >>
  BY DEF NoTodo
<1>a. ASSUME phase' \notin {"starting", "creating"}, sc' = "idle" PROVE Rows'
  BY <1>a DEF Rows
<1>b. ASSUME phase' \notin {"starting", "creating"}, torn' = "yes" PROVE Rows'
  BY <1>b DEF Rows
<1>1. CASE StartGame
  <2> DEFINE ps == Copy'
             js == Joins(ps)
             ss == Spawns(items')
             row == Row(GameStart, js, ss)
  <2>1. (TypeOK /\ Locals => Copied)' /\ TypeOK' /\ Locals'
    <3>1. (TypeOK /\ Locals => Copied)'
      BY CopyWritable, PTL
    <3> QED BY <3>1, TypesKept DEF Types
  <2>2. /\ Writable(js, ss) /\ ps \in Seq(ReplayPlayer) /\ Len(ps) = Len(seats')
        /\ \A i \in 1..Len(seats') : ps[i] = Saved(seats[i])'
    BY <2>1 DEF Copied
  <2>3. seats' = seats /\ sc' = sc /\ log' = log /\ phase = "waiting" /\ phase' = "starting"
    BY <1>1 DEF StartGame
  <2>4. PICK qs \in Seq(JoinSet) :
          /\ todo' = [by |-> "main", recs |-> Row(GameStart, qs, ss)]
          /\ Len(qs) = Len(seats)
          /\ \A i \in 1..Len(seats) :
               qs[i] = [t |-> "PLAYER_JOIN", pid |-> pl'[seats[i]].pid, user |-> seats[i],
                        pos |-> pl'[seats[i]].pos, hp |-> pl'[seats[i]].hp,
                        buff |-> pl'[seats[i]].buff, shield |-> pl'[seats[i]].shield,
                        inv |-> Raw(pl'[seats[i]].inv)]
    BY <1>1, <2>1, StartRow DEF Locals
  <2>5. js \in Seq(JoinSet) /\ Len(js) = Len(seats)
          /\ \A i \in 1..Len(seats) : js[i] = Join(ps[i].id, ps[i].user, ps[i])
    <3> HIDE DEF ps
    <3> QED BY <2>2, <2>3, JoinsType
  <2>6. ASSUME NEW i \in 1..Len(seats) PROVE js[i] = qs[i]
    <3>1. js[i] = Join(ps[i].id, ps[i].user, ps[i])
      BY <2>5
    <3>2. ps[i] = Saved(seats[i])'
      BY <2>2, <2>3
    <3>3. /\ ps[i].id = pl'[seats[i]].pid /\ ps[i].user = seats[i] /\ ps[i].pos = pl'[seats[i]].pos
          /\ ps[i].hp = pl'[seats[i]].hp /\ ps[i].buff = pl'[seats[i]].buff
          /\ ps[i].shield = pl'[seats[i]].shield /\ ps[i].inv = Raw(pl'[seats[i]].inv)
      <4> HIDE DEF ps
      <4> QED BY <2>3, <3>2 DEF Saved, Raw
    <3> HIDE DEF ps, js
    <3> QED BY <2>4, <3>1, <3>3 DEF Join
  <2>7. js = qs
    <3> HIDE DEF js
    <3> QED BY <2>4, <2>5, <2>6
  <2>8. todo'.recs = row
    BY <2>4, <2>7
  <2>9. log' = <<EmptyLog>> /\ sc' = "idle"
    BY <2>3 DEF Zone
  <2>10. ss \in Seq(SpawnSet) /\ 1 \in 1..InitialRadius
    BY <2>2, Numbers DEF Writable
  <2>11. RowOf(row, js, ss) /\ row \in Seq(TodoSet)
    <3> HIDE DEF js, ss
    <3> QED BY <2>5, <2>10, RowsAreRows
  <2>12. InARow(row, js, ss, row, log')
    <3> HIDE DEF js, ss, row
    <3> QED BY <2>2, <2>9, <2>11, RowBegun
  <2>13. InARow(row, js, ss, todo'.recs, log')
    <3> HIDE DEF js, ss, row
    <3> QED BY <2>8, <2>12
  <2> QED BY <2>3, <2>9, <2>13 DEF Rows
<1>2. CASE WriteNext
  <2> DEFINE recs == todo.recs
             f == Feed(Last(log), Head(recs))
             m == log'
  <2>1. /\ recs # << >> /\ todo'.recs = Tail(recs) /\ recs \in Seq(TodoSet)
        /\ m = Append(log, f) \/ m = <<f>>
        /\ seats' = seats /\ pl' = pl /\ items' = items /\ radius' = radius /\ main' = main
        /\ sc' = sc /\ snap' = snap /\ info' = info /\ torn' = torn /\ phase' = phase
    BY <1>0, <1>2 DEF WriteNext, WalWrite, WriteSynced, hist
  <2>2. Copy' = Copy
    BY <2>1 DEF Copy, Saved
  <2>3. ASSUME NEW js, NEW ss, Writable(js, ss), NEW row \in Seq(TodoSet), RowOf(row, js, ss),
               InARow(row, js, ss, todo.recs, log)
        PROVE  InARow(row, js, ss, todo'.recs, log')
    <3>1. InARow(row, js, ss, Tail(recs), m)
      <4>1. /\ recs \in Seq(TodoSet) /\ recs # << >> /\ f = Feed(Last(log), Head(recs))
            /\ m = Append(log, f) \/ m = <<f>>
            /\ InARow(row, js, ss, recs, log)
        BY <2>1, <2>3
      <4> HIDE DEF recs, f, m
      <4> QED BY <4>1, <2>3, <1>0, RowGoesOn
    <3> QED BY <2>1, <3>1
  <2>4. \A first \in {GameStart, Checkpoint} : \A js, ss : \A q \in 1..InitialRadius :
          Writable(js, ss) =>
            /\ RowOf(Row(first, js, ss), js, ss) /\ Row(first, js, ss) \in Seq(TodoSet)
            /\ RowOf(Row(first, js, ss) \o <<PoisonShrink(q)>>, js, ss)
            /\ Row(first, js, ss) \o <<PoisonShrink(q)>> \in Seq(TodoSet)
    BY RowsAreRows DEF Writable
  <2>5. 1 \in 1..InitialRadius /\ info.radius \in 1..InitialRadius
    BY <1>0, Numbers DEF Replayed
  <2>6. ASSUME phase = "starting"
        PROVE  InARow(Row(GameStart, Joins(Copy), Spawns(items)), Joins(Copy), Spawns(items),
                      todo'.recs, log')
    <3> DEFINE js == Joins(Copy)
               ss == Spawns(items)
               row == Row(GameStart, js, ss)
    <3>1. Writable(js, ss) /\ InARow(row, js, ss, todo.recs, log)
      BY <1>0, <2>6, CopyWritable DEF Copied, Rows
    <3> HIDE DEF js, ss
    <3>2. RowOf(row, js, ss) /\ row \in Seq(TodoSet)
      BY <2>4, <2>5, <3>1
    <3> HIDE DEF row
    <3>3. InARow(row, js, ss, todo'.recs, log')
      BY <2>3, <3>1, <3>2
    <3> QED BY <3>3 DEF js, ss, row
  <2>7. ASSUME sc = "writing", torn # "yes"
        PROVE  InARow(Row(Checkpoint, Joins(snap.players), Spawns(snap.items)),
                      Joins(snap.players), Spawns(snap.items), todo'.recs, log')
    <3> DEFINE js == Joins(snap.players)
               ss == Spawns(snap.items)
               row == Row(Checkpoint, js, ss)
    <3>1. Writable(js, ss) /\ InARow(row, js, ss, todo.recs, log)
      BY <1>0, <2>7, FileWritable DEF Rows
    <3> HIDE DEF js, ss
    <3>2. RowOf(row, js, ss) /\ row \in Seq(TodoSet)
      BY <2>4, <2>5, <3>1
    <3> HIDE DEF row
    <3>3. InARow(row, js, ss, todo'.recs, log')
      BY <2>3, <3>1, <3>2
    <3> QED BY <3>3 DEF js, ss, row
  <2>8. ASSUME phase = "creating"
        PROVE  InARow(Row(GameStart, Joins(LivingOf(info)), Spawns(info.items))
                        \o <<PoisonShrink(info.radius)>>,
                      Joins(LivingOf(info)), Spawns(info.items), todo'.recs, log')
    <3> DEFINE js == Joins(LivingOf(info))
               ss == Spawns(info.items)
               row == Row(GameStart, js, ss) \o <<PoisonShrink(info.radius)>>
    <3>1. Writable(js, ss) /\ InARow(row, js, ss, todo.recs, log)
      BY <1>0, <2>8, FileWritable DEF Rows
    <3> HIDE DEF js, ss
    <3>2. RowOf(row, js, ss) /\ row \in Seq(TodoSet)
      BY <2>4, <2>5, <3>1
    <3> HIDE DEF row
    <3>3. InARow(row, js, ss, todo'.recs, log')
      BY <2>3, <3>1, <3>2
    <3> QED BY <3>3 DEF js, ss, row
  <2> QED
    <3>1. LivingOf(info)' = LivingOf(info) /\ Clash(LivingOf(info))' = Clash(LivingOf(info))
      BY <2>1 DEF LivingOf, Clash, Lives
    <3>2. phase' = "creating" =>
            /\ items' = [i \in 1..MAX_MAP_ITEMS |->
                           IF i <= Len(info'.items) THEN info'.items[i] ELSE NoItem]
            /\ torn' = (IF Clash(LivingOf(info')) THEN "yes" ELSE "no")
      BY <2>1, <3>1 DEF Rows
    <3>3. sc' # "idle" /\ torn' # "yes" =>
            main' = Idle /\ snap' = [players |-> Copy', radius |-> radius', items |-> items']
      BY <2>1, <2>2 DEF Rows
    <3> QED BY <2>1, <2>2, <2>6, <2>7, <2>8, <3>1, <3>2, <3>3 DEF Rows
<1>3. CASE FinishWrites
  <2>1. sc' = "idle" /\ phase' \notin {"starting", "creating"}
    BY <1>3 DEF FinishWrites
  <2> QED BY <2>1, <1>a
<1>4. CASE Commands
  <2>a. ASSUME phase' \notin {"starting", "creating"}, Marks, sc' \in {sc, "idle"} PROVE Rows'
    BY <2>a, <1>a, <1>b, MarksType
  <2>1. ASSUME NEW u \in Users, NEW to \in Spots, MoveBegin(u, to) PROVE Rows'
    BY <2>1, <2>a DEF MoveBegin, Ready
  <2>2. ASSUME NEW u \in Users, NEW idx \in Slots, UseTake(u, idx) PROVE Rows'
    BY <2>2, <2>a DEF UseTake, Ready
  <2>3. ASSUME NEW u \in Users, NEW v \in Users, Attack(u, v) PROVE Rows'
    BY <2>3, <2>a DEF Attack, Ready
  <2>4. ASSUME NEW u \in Users, Leave(u) PROVE Rows'
    BY <2>4, <2>a DEF Leave
  <2>5. ASSUME NEW u \in Users, NEW pid \in 1..MaxPid, Login(u, pid) PROVE Rows'
    <3>1. CASE phase = "running"
      BY <2>5, <3>1, <2>a DEF Login
    <3>2. CASE phase # "running"
      <4> DEFINE living == LivingOf(info)
                 js == Joins(living)
                 ss == Spawns(info.items)
                 row == Row(GameStart, js, ss) \o <<PoisonShrink(info.radius)>>
      <4>1. /\ phase' = "creating" /\ sc' = sc /\ info' = info /\ log' = <<EmptyLog>>
            /\ items' = [i \in 1..MAX_MAP_ITEMS |->
                           IF i <= Len(info.items) THEN info.items[i] ELSE NoItem]
            /\ torn' = (IF Clash(living) THEN "yes" ELSE "no")
            /\ phase = "none" /\ main.pc = "idle"
        BY <2>5, <3>2 DEF Login, NewLog, LivingOf
      <4>2. sc = "idle"
        BY <4>1 DEF Control
      <4>3. todo' = [by |-> "main", recs |-> row]
        BY <2>5, <3>2, LoginRow DEF LivingOf
      <4>4. Writable(js, ss)
        BY <1>0, FileWritable
      <4>5. info.radius \in 1..InitialRadius
        BY <1>0 DEF Replayed
      <4>6. LivingOf(info)' = living /\ Clash(LivingOf(info))' = Clash(living)
        BY <4>1 DEF LivingOf, Lives, Clash
      <4> HIDE DEF js, ss, living
      <4>7. RowOf(row, js, ss) /\ row \in Seq(TodoSet)
        BY <4>4, <4>5, RowsAreRows DEF Writable
      <4>8. todo'.recs = row
        BY <4>3
      <4> HIDE DEF row
      <4>9. InARow(row, js, ss, todo'.recs, log')
        BY <4>1, <4>4, <4>7, <4>8, RowBegun
      <4>10. InARow(Row(GameStart, Joins(LivingOf(info)), Spawns(info.items))
                      \o <<PoisonShrink(info.radius)>>,
                    Joins(LivingOf(info)), Spawns(info.items), todo.recs, log)'
        BY <4>1, <4>6, <4>9 DEF js, ss, row, living
      <4>11. sc' = "idle"
        BY <4>1, <4>2
      <4> QED BY <4>1, <4>6, <4>10, <4>11 DEF Rows
    <3> QED BY <3>1, <3>2
  <2>6. CASE MoveEnd \/ AddItem \/ UseLog \/ UseEffect \/ AttackDeath
    <3>1. /\ phase \in {"running", "ended"} /\ Marks /\ phase' = phase /\ sc' = sc
      BY <2>6 DEF MoveEnd, AddItem, UseLog, UseEffect, AttackDeath
    <3> QED BY <3>1, <2>a
  <2>7. CASE Seat \/ Restore
    BY <2>7, <2>a DEF Seat, Restore
  <2>8. CASE RestoreRecord
    <3>1. phase' = "running" /\ sc' = sc /\ (sc # "idle" => torn' = "yes")
      BY <2>8 DEF RestoreRecord
    <3> QED BY <3>1, <1>a, <1>b
  <2> QED BY <1>4, <2>1, <2>2, <2>3, <2>4, <2>5, <2>6, <2>7, <2>8 DEF Commands
<1>5. CASE GameThread
  <2>1. ASSUME NEW u \in Users, BuffExpires(u) \/ PoisonHurts(u) PROVE Rows'
    BY <2>1, <1>a DEF BuffExpires, PoisonHurts, Tick
  <2>2. ASSUME NEW pos \in Spots, NEW type \in ItemType, SpawnItem(pos, type) PROVE Rows'
    BY <2>2, <1>a DEF SpawnItem, Tick
  <2>3. CASE Shrink \/ WaitOver \/ EndGame
    BY <2>3, <1>a DEF Shrink, WaitOver, EndGame, mem, Tick
  <2>4. CASE SnapshotCollect
    <3>1. /\ phase = "running" /\ phase' = phase /\ sc' = "collected"
          /\ snap' = [players |-> Copy, radius |-> radius, items |-> items]
          /\ seats' = seats /\ pl' = pl /\ items' = items /\ radius' = radius /\ main' = main
          /\ torn' # "yes" => main.pc = "idle"
      BY <2>4 DEF SnapshotCollect, Tick, Copy
    <3>2. Copy' = Copy
      BY <3>1 DEF Copy, Saved
    <3>3. main.pc = "idle" => main = Idle
      BY <1>0 DEF MainType, Idle
    <3> QED BY <3>1, <3>2, <3>3 DEF Rows
  <2>5. CASE SnapshotTruncate
    <3> DEFINE js == Joins(snap.players)
               ss == Spawns(snap.items)
               row == Row(Checkpoint, js, ss)
    <3>1. /\ phase = "running" /\ phase' = phase /\ sc = "collected" /\ sc' = "writing"
          /\ snap' = snap /\ log' = <<EmptyLog>> /\ (torn' # "yes" => torn # "yes")
          /\ seats' = seats /\ pl' = pl /\ items' = items /\ radius' = radius /\ main' = main
      BY <2>5 DEF SnapshotTruncate, NewLog
    <3>2. Copy' = Copy
      BY <3>1 DEF Copy, Saved
    <3>3. todo'.recs = row
      BY <2>5, TruncateRow
    <3>4. Writable(js, ss) /\ 1 \in 1..InitialRadius
      BY <1>0, FileWritable, Numbers
    <3> HIDE DEF js, ss
    <3>5. RowOf(row, js, ss) /\ row \in Seq(TodoSet)
      BY <3>4, RowsAreRows DEF Writable
    <3> HIDE DEF row
    <3>6. InARow(row, js, ss, todo'.recs, log')
      BY <3>1, <3>3, <3>4, <3>5, RowBegun
    <3>7. InARow(Row(Checkpoint, Joins(snap.players), Spawns(snap.items)),
                 Joins(snap.players), Spawns(snap.items), todo.recs, log)'
      BY <3>1, <3>6 DEF js, ss, row
    <3>8. torn' # "yes" =>
            main' = Idle /\ snap' = [players |-> Copy', radius |-> radius', items |-> items']
      BY <3>1, <3>2 DEF Rows
    <3> QED BY <3>1, <3>7, <3>8 DEF Rows
  <2>6. CASE DeleteWal \/ DeleteSnapshot \/ DeleteRecovery
    <3>1. phase \in {"ended", "walGone", "snapGone"}
            /\ phase' \in {"walGone", "snapGone", "over"} /\ sc' = sc
      BY <2>6 DEF DeleteWal, DeleteSnapshot, DeleteRecovery, mem
    <3> QED BY <3>1, <1>a DEF Control
  <2> QED BY <1>5, <2>1, <2>2, <2>3, <2>4, <2>5, <2>6 DEF GameThread
<1>6. CASE Crash
  BY <1>6, <1>a DEF Crash
<1>7. CASE Boot
  BY <1>7, <1>a DEF Boot, mem, Control
<1>8. CASE UNCHANGED vars
  <2>1. /\ seats' = seats /\ pl' = pl /\ items' = items /\ radius' = radius /\ main' = main
        /\ sc' = sc /\ snap' = snap /\ info' = info /\ torn' = torn /\ phase' = phase
        /\ todo' = todo /\ log' = log
    BY <1>8 DEF vars, mem, disk, hist
  <2>2. Copy' = Copy
    BY <2>1 DEF Copy, Saved
  <2>3. LivingOf(info)' = LivingOf(info) /\ Clash(LivingOf(info))' = Clash(LivingOf(info))
    BY <2>1 DEF LivingOf, Clash, Lives
  <2> QED BY <2>1, <2>2, <2>3 DEF Rows
<1> QED BY <1>1, <1>2, <1>3, <1>4, <1>5, <1>6, <1>7, <1>8 DEF Next

-----------------------------------------------------------------------------
(***************************************************************************)
(* The log goes on telling of the game.                                    *)
(***************************************************************************)
\* A replay that tells of everybody has everybody.
LEMMA ToldIsCovered ==
    ASSUME NEW l \in LogType, NEW A, NEW P, NEW D, NEW c, AllTold(l.st, A, P, D, c)
    PROVE  l \in Covering(A, P)
<1>1. \A u \in A : \E i \in 1..Len(l.st.players) :
         l.st.players[i].user = u /\ (Lives(P[u]) => Lives(l.st.players[i]))
  BY DEF AllTold, Agrees, Told
<1> QED BY <1>1 DEF Covering

\* Who has gone or died need not be found.
LEMMA StaysCovered ==
    ASSUME NEW l, NEW A, NEW B \in SUBSET A, NEW P, NEW Q, l \in Covering(A, P),
           NoneRises(B, P, Q)
    PROVE  l \in Covering(B, Q)
<1>1. l \in LogType /\ \A u \in A : \E i \in 1..Len(l.st.players) :
         l.st.players[i].user = u /\ (Lives(P[u]) => Lives(l.st.players[i]))
  BY DEF Covering
<1>2. ASSUME NEW u \in B
      PROVE  \E i \in 1..Len(l.st.players) :
                l.st.players[i].user = u /\ (Lives(Q[u]) => Lives(l.st.players[i]))
  BY <1>1, <1>2 DEF NoneRises
<1> QED BY <1>1, <1>2 DEF Covering

\* A step that writes nothing.
LEMMA MirrorsStay ==
    ASSUME NEW l \in Seq(LogType), Len(l) > 0, NEW A, NEW B \in SUBSET A, NEW P, NEW Q, NEW D, NEW E,
           NEW c, NEW w, NEW table, Mirrors(l, A, P, D, c, table),
           OthersStay(B, w, P, Q, D, E), StillTold(B, w, P, Q, D, E, c), NoneRises(B, P, Q)
    PROVE  Mirrors(l, B, Q, E, c, table)
<1>1. Last(l).st \in Replayed
  <2>1. Len(l) \in DOMAIN l
    OBVIOUS
  <2>2. Last(l) \in LogType
    BY <2>1 DEF Last
  <2> QED BY <2>2 DEF LogType
<1>2. AllTold(Last(l).st, B, Q, E, c)
  BY <1>1, NothingWritten DEF Mirrors
<1>3. \A n \in DOMAIN l : l[n] \in Covering(B, Q)
  BY StaysCovered DEF Mirrors
<1> QED BY <1>2, <1>3 DEF Mirrors

\* The places to cut the log at after a write.
LEMMA MirrorsGrow ==
    ASSUME NEW l \in Seq(LogType), Len(l) > 0, NEW A, NEW B \in SUBSET A, NEW P, NEW Q, NEW D, NEW E,
           NEW c, NEW table, NEW left, Mirrors(l, A, P, D, c, table),
           NEW r, RecordOK(r), NEW f, f = Feed(Last(l), r), NEW m, LogIs(l, f, m),
           DistinctIds(f.st), AllTold(f.st, B, Q, E, c), SameItems(f.st, left),
           NoneRises(B, P, Q)
    PROVE  Mirrors(m, B, Q, E, c, left)
<1>1. f \in LogType
  <2>1. Len(l) \in DOMAIN l
    OBVIOUS
  <2>2. Last(l) \in LogType
    BY <2>1 DEF Last
  <2> QED BY <2>2, FeedType
<1>2. f \in Covering(B, Q)
  BY <1>1, ToldIsCovered
<1>3. \A n \in DOMAIN l : l[n] \in Covering(B, Q)
  BY StaysCovered DEF Mirrors
<1>4. Last(m) = f /\ \A n \in DOMAIN m : m[n] = f \/ (n \in DOMAIN l /\ m[n] = l[n])
  <2>1. CASE m = Append(l, f)
    BY <1>1, <2>1 DEF Last
  <2>2. CASE m = <<f>>
    BY <2>2 DEF Last
  <2> QED BY <2>1, <2>2 DEF LogIs
<1>5. \A n \in DOMAIN m : m[n] \in Covering(B, Q)
  BY <1>2, <1>3, <1>4
<1> QED BY <1>4, <1>5 DEF Mirrors

\* A step that writes a record about w.
LEMMA MirrorsWritten ==
    ASSUME NEW l \in Seq(LogType), Len(l) > 0, NEW A, NEW B \in SUBSET A, NEW P, NEW Q, NEW D, NEW E,
           NEW c, NEW w, NEW table, NEW left, Mirrors(l, A, P, D, c, table),
           NEW r, RecordOK(r), r.t \in PlayerRecords, r.pid = P[w].pid,
           NEW f, f = Feed(Last(l), r), NEW m, LogIs(l, f, m),
           OthersStay(B, w, P, Q, D, E), OtherNumbers(B, w, P),
           NowTold(B, w, P, Q, D, E, c, r), NoneRises(B, P, Q),
           NEW is, is = ItemsAfter(Last(l).st, r),
           AsMany(is, left)
    PROVE  Mirrors(m, B, Q, E, c, left)
<1> DEFINE s == Last(l).st
<1>1. s \in Replayed /\ f.st = Apply(s, r)
  <2>1. Len(l) \in DOMAIN l
    OBVIOUS
  <2>2. Last(l) \in LogType
    BY <2>1 DEF Last
  <2> QED BY <2>2, FeedType DEF LogType
<1>2. DistinctIds(s) /\ AllTold(s, A, P, D, c)
  BY DEF Mirrors
<1> HIDE DEF s
<1>3. AllTold(f.st, B, Q, E, c)
  <2>1. AllTold(Apply(s, r), B, Q, E, c)
    BY <1>1, <1>2, RecordWritten
  <2> QED BY <1>1, <2>1
<1>4. DistinctIds(f.st) /\ f.st.items = ItemsAfter(s, r)
  BY <1>1, <1>2, PlayerWritten
<1>5. SameItems(f.st, left)
  BY <1>4 DEF SameItems, AsMany, s
<1> QED BY <1>3, <1>4, <1>5, MirrorsGrow

\* A step that writes a record of the map.
LEMMA MapWritten ==
    ASSUME NEW l \in Seq(LogType), Len(l) > 0, NEW A, NEW P, NEW D,
           NEW c, NEW table, NEW left, Mirrors(l, A, P, D, c, table),
           NEW r, RecordOK(r), r.t \in {"ITEM_SPAWN", "POISON_SHRINK"},
           NEW f, f = Feed(Last(l), r), NEW m, LogIs(l, f, m),
           NEW is, is = ItemsAfter(Last(l).st, r),
           AsMany(is, left)
    PROVE  Mirrors(m, A, P, D, c, left)
<1> DEFINE s == Last(l).st
<1>1. s \in Replayed /\ f.st = Apply(s, r)
  <2>1. Len(l) \in DOMAIN l
    OBVIOUS
  <2>2. Last(l) \in LogType
    BY <2>1 DEF Last
  <2> QED BY <2>2, FeedType DEF LogType
<1>2. DistinctIds(s) /\ AllTold(s, A, P, D, c)
  BY DEF Mirrors
<1> HIDE DEF s
<1>3. f.st.players = s.players /\ f.st.items = ItemsAfter(s, r)
  BY <1>1, ApplyToMap DEF PlayerRecords
<1>4. DistinctIds(f.st) /\ AllTold(f.st, A, P, D, c)
  BY <1>2, <1>3 DEF DistinctIds, AllTold
<1>5. SameItems(f.st, left)
  BY <1>3 DEF SameItems, AsMany, s
<1>6. A \in SUBSET A
  OBVIOUS
<1>7. NoneRises(A, P, P)
  BY DEF NoneRises
<1> QED BY <1>4, <1>5, <1>6, <1>7, MirrorsGrow

-----------------------------------------------------------------------------
\* Of two tables with as many items everywhere, both lose one at a place.
LEMMA BothTake ==
    ASSUME NEW a \in Seq(MapItem), NEW b \in Seq(MapItem), NEW at \in Spots,
           Len(a) < MAX_MAP_ITEMS => \A pos \in Spots : Lying(a, pos) = Lying(b, pos),
           ItemAt(b, at) # 0,
           NEW less, less = TakeFrom(a, ItemAt(a, at)), NEW left, left = TakeFrom(b, ItemAt(b, at))
    PROVE  Len(less) < MAX_MAP_ITEMS => \A pos \in Spots : Lying(less, pos) = Lying(left, pos)
<1>1. /\ Lying(b, at) # 0
      /\ \A q : /\ Lying(left, q) \in Nat
                /\ Lying(b, q) = IF q = at THEN Lying(left, q) + 1 ELSE Lying(left, q)
  BY ItemTaken
<1>2. /\ Len(less) = Len(a)
      /\ ItemAt(a, at) = 0 <=> Lying(a, at) = 0
      /\ ItemAt(a, at) # 0 => \A q : /\ Lying(less, q) \in Nat
                                     /\ Lying(a, q) = IF q = at THEN Lying(less, q) + 1 ELSE Lying(less, q)
  BY ItemTaken
<1> SUFFICES ASSUME Len(less) < MAX_MAP_ITEMS, NEW q \in Spots PROVE Lying(less, q) = Lying(left, q)
  OBVIOUS
<1>3. Lying(a, at) = Lying(b, at) /\ Lying(a, q) = Lying(b, q)
  BY <1>2
<1>4. ItemAt(a, at) # 0
  BY <1>1, <1>2, <1>3
<1> QED BY <1>1, <1>2, <1>3, <1>4

\* One more in a free slot, and one more at the end.
LEMMA SlotFilled ==
    ASSUME NEW b \in Seq(MapItem), NEW n \in 1..Len(b), ~b[n].active, NEW it \in MapItem, it.active,
           NEW q
    PROVE  Lying([b EXCEPT ![n] = it], q) = IF it.pos = q THEN Lying(b, q) + 1 ELSE Lying(b, q)
<1> DEFINE full == [b EXCEPT ![n] = it]
<1>1. /\ full \in Seq(MapItem) /\ Len(full) = Len(b) /\ full[n] = it
      /\ \A i \in 1..Len(b) : i # n => full[i] = b[i]
  OBVIOUS
<1> HIDE DEF full
<1>2. \A i \in Nat : i # n => /\ i \in 1..Len(full) <=> i \in 1..Len(b)
                              /\ i \in 1..Len(b) => full[i] = b[i]
  BY <1>1
<1>3. n \in 1..Len(full) /\ full[n].active /\ (n \in 1..Len(b) => ~b[n].active)
  BY <1>1
<1>4. /\ Lying(b, q) \in Nat
      /\ Lying(full, q) = IF full[n].pos = q THEN Lying(b, q) + 1 ELSE Lying(b, q)
  BY <1>1, <1>2, <1>3, OneMoreItem
<1> QED BY <1>1, <1>4 DEF full

\* An item more in a table: one more lies at its place, and no more elsewhere.
LEMMA OneAppended ==
    ASSUME NEW a \in Seq(MapItem), NEW it \in MapItem, it.active, NEW q
    PROVE  Lying(Append(a, it), q) = IF it.pos = q THEN Lying(a, q) + 1 ELSE Lying(a, q)
<1> DEFINE more == Append(a, it)
           k == Len(a) + 1
<1>1. /\ more \in Seq(MapItem) /\ k \in 1..Len(more) /\ more[k] = it /\ Len(more) = k
      /\ \A i \in 1..Len(a) : more[i] = a[i]
  OBVIOUS
<1> HIDE DEF more
<1>2. \A i \in Nat : i # k => /\ i \in 1..Len(more) <=> i \in 1..Len(a)
                              /\ i \in 1..Len(a) => more[i] = a[i]
  BY <1>1
<1>3. k \in 1..Len(more) /\ more[k].active /\ (k \in 1..Len(a) => ~a[k].active)
  BY <1>1
<1> HIDE DEF k
<1>4. /\ Lying(a, q) \in Nat
      /\ Lying(more, q) = IF more[k].pos = q THEN Lying(a, q) + 1 ELSE Lying(a, q)
  BY <1>1, <1>2, <1>3, OneMoreItem
<1> QED BY <1>1, <1>4 DEF more

\* The used slots of an inventory of a player.
LEMMA RawCount ==
    ASSUME NEW inv \in Seq(ItemType), Len(inv) <= MAX_INVENTORY
    PROVE  /\ Cardinality({k \in Slots : Raw(inv)[k] # NONE}) = Len(inv)
           /\ \A k \in 1..Len(inv) : Raw(inv)[k] = inv[k]
<1>1. Len(inv) \in Nat /\ MAX_INVENTORY \in Nat
  BY Numbers
<1>2. \A k \in 1..Len(inv) : k \in Slots /\ Raw(inv)[k] = inv[k]
  BY <1>1 DEF Slots, Raw
<1>3. \A k \in 1..Len(inv) : inv[k] # NONE
  BY DEF ItemType, NONE, HEALTH, ATTACK, SHIELD
<1>4. \A k \in Slots : k \notin 1..Len(inv) => Raw(inv)[k] = NONE
  BY <1>1 DEF Slots, Raw
<1>5. {k \in Slots : Raw(inv)[k] # NONE} = 1..Len(inv)
  BY <1>2, <1>3, <1>4
<1> QED BY <1>1, <1>2, <1>5, Counting

\* A record with all of a player tells of him.
LEMMA SavedTold ==
    ASSUME NEW u, NEW q \in PlayerType, Len(q.inv) <= MAX_INVENTORY, NEW c,
           NEW r, r.user = u, r.pid = q.pid, r.pos = q.pos, r.hp = q.hp, r.shield = q.shield,
           r.inv = Raw(q.inv)
    PROVE  Agrees(JoinedPlayer(r), u, q, Idle, c)
<1> DEFINE p == JoinedPlayer(r)
<1>1. /\ p.user = u /\ p.id = q.pid /\ p.pos = q.pos /\ p.hp = q.hp /\ p.shield = q.shield
      /\ p.status = "GAMING" /\ p.inv = Raw(q.inv)
      /\ p.cnt = Cardinality({k \in Slots : Raw(q.inv)[k] # NONE})
  BY DEF JoinedPlayer
<1>2. q.inv \in Seq(ItemType) /\ q.shield \in BOOLEAN /\ q.hp \in Int
  BY DEF PlayerType
<1>3. Idle.pc = "idle"
  BY DEF Idle
<1> HIDE DEF p
<1>4. Told(p, u, q, Idle)
  BY <1>1, <1>2, <1>3 DEF Told, Lives
<1>5. Carried(p, q, Idle)
  BY <1>1, <1>2, <1>3, RawCount DEF Carried
<1> QED BY <1>4, <1>5 DEF p, Agrees

-----------------------------------------------------------------------------
\* A row that is written has said all.
LEMMA RowFinished ==
    ASSUME NEW js, NEW ss, Writable(js, ss), NEW row, RowOf(row, js, ss),
           NEW l, InARow(row, js, ss, << >>, l)
    PROVE  LET s == Last(l).st
           IN  /\ Len(s.players) = Len(js)
               /\ \A i \in 1..Len(js) : s.players[i] = JoinedPlayer(js[i])
               /\ Len(s.items) = Len(ss)
               /\ \A i \in 1..Len(ss) :
                    s.items[i] = [pos |-> ss[i].pos, type |-> ss[i].item, active |-> TRUE]
<1> DEFINE s == Last(l).st
<1>1. Len(js) \in Nat /\ Len(ss) \in Nat
  BY DEF Writable
<1>2. Len(row) \in {1 + Len(js) + Len(ss), 2 + Len(js) + Len(ss)}
  BY DEF RowOf
<1>3. Len(row) - 0 = Len(row) /\ Len(<< >>) = 0
  BY <1>1, <1>2
<1>4. Written(s, js, ss, Len(row))
  BY <1>3 DEF InARow
<1>5. Within(Len(row) - 1, Len(js)) = Len(js) /\ Within(Len(row) - 1 - Len(js), Len(ss)) = Len(ss)
  BY <1>1, <1>2 DEF Within
<1> HIDE DEF s
<1>6. /\ Len(s.players) = Len(js) /\ Len(s.items) = Len(ss)
      /\ \A i \in 1..Len(s.players) : s.players[i] = JoinedPlayer(js[i])
      /\ \A i \in 1..Len(s.items) :
           s.items[i] = [pos |-> ss[i].pos, type |-> ss[i].item, active |-> TRUE]
  BY <1>4, <1>5 DEF Written, Beginning
<1> QED BY <1>6 DEF s

\* As many items as are written of a table lie everywhere.
LEMMA SpawnsMirror ==
    ASSUME NEW table \in Seq(MapItem), Len(table) <= MAX_MAP_ITEMS, NEW is \in Seq(MapItem),
           Len(is) = Len(Spawns(table)),
           \A i \in 1..Len(is) : is[i] = [pos |-> Spawns(table)[i].pos, type |-> Spawns(table)[i].item,
                                          active |-> TRUE],
           NEW pos
    PROVE  Lying(is, pos) = Lying(table, pos)
<1> DEFINE o == OnTheMap(table)
<1>1. Len(is) = Len(o) /\ \A i \in 1..Len(o) : Spawns(table)[i] = ItemSpawn(o[i])
  BY SpawnsType
<1>2. \A x : ItemSpawn(x).pos = x.pos
  BY DEF ItemSpawn
<1>3. \A i \in 1..Len(o) : is[i].active /\ is[i].pos = o[i].pos
  <2> DEFINE sp == Spawns(table)
  <2>0. Len(is) = Len(o) /\ \A i \in 1..Len(o) : sp[i] = ItemSpawn(o[i])
    BY <1>1
  <2>1. \A i \in 1..Len(is) : is[i] = [pos |-> sp[i].pos, type |-> sp[i].item, active |-> TRUE]
    OBVIOUS
  <2> HIDE DEF o, sp
  <2> SUFFICES ASSUME NEW i \in 1..Len(o) PROVE is[i].active /\ is[i].pos = o[i].pos
    OBVIOUS
  <2>2. is[i] = [pos |-> sp[i].pos, type |-> sp[i].item, active |-> TRUE] /\ sp[i] = ItemSpawn(o[i])
    BY <2>0, <2>1
  <2>3. is[i].active /\ is[i].pos = sp[i].pos
    BY <2>2
  <2> QED BY <1>2, <2>2, <2>3
<1> QED BY <1>1, <1>3, ItemsCopied

\* The copy of the game, once written, tells of it.
LEMMA CopyMirrors ==
    ASSUME TypeOK, Locals, People, NEW s \in Replayed, NEW c, Len(s.players) = Len(seats),
           \A i \in 1..Len(seats) : s.players[i] = JoinedPlayer(Joins(Copy)[i]),
           Len(s.items) = Len(Spawns(items)),
           \A i \in 1..Len(s.items) :
              s.items[i] = [pos |-> Spawns(items)[i].pos, type |-> Spawns(items)[i].item, active |-> TRUE]
    PROVE  /\ DistinctIds(s) /\ SameItems(s, items)
           /\ AllTold(s, InRoom, pl, [u \in Users |-> Idle], c)
<1>1. /\ Copy \in Seq(ReplayPlayer) /\ Len(Copy) = Len(seats)
      /\ \A i \in 1..Len(seats) : Copy[i] = Saved(seats[i])
  BY CopyWritable DEF Copied
<1>2. Len(Joins(Copy)) = Len(Copy)
        /\ \A i \in 1..Len(Copy) : Joins(Copy)[i] = Join(Copy[i].id, Copy[i].user, Copy[i])
  BY <1>1, JoinsType
<1>3. seats \in Seq(Users) /\ IsInjective(seats) /\ DOMAIN seats = 1..Len(seats)
        /\ InRoom = {seats[i] : i \in 1..Len(seats)} /\ InRoom \subseteq Users
        /\ \A i \in 1..Len(seats) : seats[i] \in Users /\ seats[i] \in InRoom
  BY DEF TypeOK, InRoom, ToSet
<1>4. \A u \in Users : /\ PlayerOK(pl[u]) /\ pl[u] \in PlayerType /\ Len(pl[u].inv) <= MAX_INVENTORY
  BY DEF TypeOK, PlayerOK
<1>5. ASSUME NEW i \in 1..Len(seats)
      PROVE  /\ Agrees(s.players[i], seats[i], pl[seats[i]], Idle, c)
             /\ s.players[i].id = pl[seats[i]].pid
  <2> DEFINE u == seats[i]
             r == Joins(Copy)[i]
  <2>1. u \in Users /\ s.players[i] = JoinedPlayer(r) /\ r = Join(Saved(u).id, Saved(u).user, Saved(u))
    BY <1>1, <1>2, <1>3
  <2> HIDE DEF u, r
  <2>2. /\ Saved(u).user = u /\ Saved(u).id = pl[u].pid
        /\ Saved(u).pos = pl[u].pos /\ Saved(u).hp = pl[u].hp
        /\ Saved(u).shield = pl[u].shield /\ Saved(u).inv = Raw(pl[u].inv)
    BY <1>4, <2>1, SavedType
  <2>3. /\ r.user = u /\ r.pid = pl[u].pid /\ r.pos = pl[u].pos /\ r.hp = pl[u].hp
        /\ r.shield = pl[u].shield /\ r.inv = Raw(pl[u].inv)
    BY <2>1, <2>2 DEF Join
  <2>4. Agrees(JoinedPlayer(r), u, pl[u], Idle, c)
    BY <1>4, <2>1, <2>3, SavedTold
  <2>5. JoinedPlayer(r).id = r.pid
    BY DEF JoinedPlayer
  <2> QED BY <2>1, <2>3, <2>4, <2>5 DEF u
<1>6. DistinctIds(s)
  <2>1. ASSUME NEW i \in 1..Len(seats), NEW j \in 1..Len(seats), s.players[i].id = s.players[j].id
        PROVE  i = j
    <3>1. pl[seats[i]].pid = pl[seats[j]].pid
      BY <1>5, <2>1
    <3>2. seats[i] = seats[j]
      BY <1>3, <3>1 DEF People
    <3> QED BY <1>3, <3>2 DEF IsInjective
  <2> QED BY <2>1 DEF DistinctIds
<1>7. AllTold(s, InRoom, pl, [u \in Users |-> Idle], c)
  <2> SUFFICES ASSUME NEW u \in InRoom
               PROVE  \E i \in 1..Len(s.players) :
                         Agrees(s.players[i], u, pl[u], [v \in Users |-> Idle][u], c)
    BY DEF AllTold
  <2>1. PICK i \in 1..Len(seats) : u = seats[i]
    BY <1>3
  <2>2. [v \in Users |-> Idle][u] = Idle
    BY <1>3
  <2> QED BY <1>5, <2>1, <2>2
<1>8. SameItems(s, items)
  <2>1. items \in Seq(MapItem) /\ Len(items) <= MAX_MAP_ITEMS /\ s.items \in Seq(MapItem)
    BY SnapshotType, Numbers DEF Replayed
  <2>2. \A pos : Lying(s.items, pos) = Lying(items, pos)
    BY <2>1, SpawnsMirror
  <2> QED BY <2>2 DEF SameItems
<1> QED BY <1>6, <1>7, <1>8

-----------------------------------------------------------------------------
(***************************************************************************)
(* The mirror is kept, step by step.                                       *)
(***************************************************************************)
Mirroring == Following /\ Mirrors(log, Settled, pl, Doings, crashes, items)

\* What every one of the steps starts from.
LEMMA Around ==
    ASSUME Types, Control, People
    PROVE  /\ log \in Seq(LogType) /\ Len(log) > 0
           /\ Last(log) \in LogType /\ Last(log).st \in Replayed /\ Last(log).st.items \in Seq(MapItem)
           /\ items \in Seq(MapItem) /\ Len(items) = MAX_MAP_ITEMS
           /\ InRoom \subseteq Users /\ Settled \subseteq InRoom /\ pl \in [Users -> PlayerType]
           /\ \A v \in Users : /\ pl[v] \in PlayerType /\ pl[v].pid \in Nat /\ pl[v].hp <= INITIAL_HP
                               /\ Len(pl[v].inv) \in Nat /\ Len(pl[v].inv) <= MAX_INVENTORY
           /\ \A v \in Users : Doings[v] = IF main.pc # "idle" /\ main.u = v THEN main ELSE Idle
           /\ main.pc = "idle" => main = Idle /\ Settled = InRoom /\ \A v \in Users : Doings[v] = Idle
           /\ main.pc \notin {"state", "record"} => Settled = InRoom
           /\ \A u, v \in InRoom : u # v => pl[u].pid # pl[v].pid
<1>1. TypeOK /\ Locals /\ Disk
  BY DEF Types
<1>2. log \in Seq(LogType) /\ Len(log) > 0
  BY <1>1 DEF Disk
<1>3. Last(log) \in LogType /\ Last(log).st \in Replayed /\ Last(log).st.items \in Seq(MapItem)
  <2>1. Last(log) \in LogType
    BY <1>2 DEF Last
  <2>2. Last(log).st \in Replayed
    BY <2>1 DEF LogType
  <2> QED BY <2>1, <2>2 DEF Replayed
<1>4. items \in Seq(MapItem) /\ Len(items) = MAX_MAP_ITEMS
  BY <1>1, SnapshotType
<1>5. InRoom \subseteq Users /\ Settled \subseteq InRoom
  BY <1>1 DEF TypeOK, InRoom, ToSet, Settled
<1>6. pl \in [Users -> PlayerType]
  BY <1>1 DEF TypeOK
<1>7. \A v \in Users : /\ pl[v] \in PlayerType /\ pl[v].pid \in Nat /\ pl[v].hp <= INITIAL_HP
                       /\ Len(pl[v].inv) \in Nat /\ Len(pl[v].inv) <= MAX_INVENTORY
  <2> SUFFICES ASSUME NEW v \in Users
               PROVE  /\ pl[v] \in PlayerType /\ pl[v].pid \in Nat /\ pl[v].hp <= INITIAL_HP
                      /\ Len(pl[v].inv) \in Nat /\ Len(pl[v].inv) <= MAX_INVENTORY
    OBVIOUS
  <2>1. pl[v] \in PlayerType /\ pl[v].hp <= INITIAL_HP /\ Len(pl[v].inv) <= MAX_INVENTORY
    BY <1>1 DEF TypeOK
  <2>2. pl[v].pid \in 0..MaxPid /\ pl[v].inv \in Seq(ItemType)
    BY <2>1 DEF PlayerType
  <2> QED BY <2>1, <2>2, NumbersOfGame
<1>8. \A v \in Users : Doings[v] = IF main.pc # "idle" /\ main.u = v THEN main ELSE Idle
  BY DEF Doings
<1>9. main.pc = "idle" => main = Idle
  BY <1>1 DEF Locals, MainType, Idle
<1>10. main.pc \notin {"state", "record"} => Settled = InRoom
  BY DEF Settled
<1>11. \A u, v \in InRoom : u # v => pl[u].pid # pl[v].pid
  BY DEF People
<1> QED BY <1>2, <1>3, <1>4, <1>5, <1>6, <1>7, <1>8, <1>9, <1>10, <1>11

\* Only a log that is followed is followed after a command.
LEMMA CommandFollows ==
    ASSUME Marks, Following', phase' = phase
    PROVE  Following /\ sc = "idle" /\ torn = "no"
BY MarksType DEF Following

\* The record is in the log before the position changes.
LEMMA MirrorMoveBegin ==
    ASSUME Types, Control, People, Mirroring, NEW u \in Users, NEW to \in Spots, MoveBegin(u, to)
    PROVE  Mirrors(log', Settled', pl', Doings', crashes, items')
<1> DEFINE A == Settled
           B == Settled'
           P == pl
           Q == pl'
           D == Doings
           E == Doings'
           r == Move(pl[u].pid, to)
           f == Feed(Last(log), r)
           is == ItemsAfter(Last(log).st, r)
           m == log'
           left == items'
<1>1. /\ main.pc = "idle" /\ u \in InRoom /\ Q = P /\ left = items /\ seats' = seats
      /\ main' = [pc |-> "move", u |-> u, to |-> to] /\ LogIs(log, f, m)
  BY DEF MoveBegin, Ready, WalWrite, WriteSynced, LogIs
<1>2. B = A /\ A = InRoom
  BY <1>1, Around DEF Settled, InRoom
<1>3. \A v \in Users : D[v] = Idle /\ E[v] = IF v = u THEN main' ELSE Idle
  BY <1>1, Around DEF Doings
<1>4. RecordOK(r) /\ r.t = "MOVE" /\ r.t \in PlayerRecords /\ r.pid = P[u].pid /\ r.pos = to
  BY Around DEF RecordOK, Move, PlayerRecords, Places
<1>5. is = Last(log).st.items
  BY <1>4 DEF ItemsAfter
<1>6. Mirrors(log, A, P, D, crashes, items)
  BY DEF Mirroring
<1>7. AsMany(is, left)
  BY <1>1, <1>5, <1>6 DEF Mirrors, SameItems, AsMany
<1>8. log \in Seq(LogType) /\ Len(log) > 0 /\ A \subseteq Users /\ B \in SUBSET A
        /\ \A v \in A : v # u => P[v].pid # P[u].pid
  BY <1>1, <1>2, Around
<1>9. E[u] = [pc |-> "move", u |-> u, to |-> r.pos] /\ D[u] = Idle
  BY <1>1, <1>3, <1>4
<1> HIDE DEF A, B, P, Q, D, E, r, f, is, m, left
<1>10. OthersStay(B, u, P, Q, D, E) /\ OtherNumbers(B, u, P)
  BY <1>1, <1>2, <1>3, <1>8 DEF OthersStay, OtherNumbers
<1>11. NowTold(B, u, P, Q, D, E, crashes, r)
  BY <1>1, <1>4, <1>9, MoveTold DEF NowTold
<1>12. NoneRises(B, P, Q)
  BY <1>1 DEF NoneRises
<1>13. f = Feed(Last(log), r) /\ is = ItemsAfter(Last(log).st, r)
  BY DEF f, is
<1>14. Mirrors(m, B, Q, E, crashes, left)
  BY <1>1, <1>4, <1>6, <1>7, <1>8, <1>10, <1>11, <1>12, <1>13, MirrorsWritten
<1> QED BY <1>14 DEF m, B, Q, E, left

\* player_use_item(): what is taken out is in the log yet.
LEMMA MirrorUseTake ==
    ASSUME Types, Control, People, Mirroring, NEW u \in Users, NEW idx \in Slots, UseTake(u, idx)
    PROVE  Mirrors(log', Settled', pl', Doings', crashes, items')
<1> DEFINE A == Settled
           B == Settled'
           P == pl
           Q == pl'
           D == Doings
           E == Doings'
           q == [pl[u] EXCEPT !.inv = RemoveAt(@, idx)]
           m == [pc |-> "used", u |-> u, item |-> pl[u].inv[idx], idx |-> idx]
<1>1. /\ main.pc = "idle" /\ u \in InRoom /\ items' = items /\ log' = log /\ seats' = seats
      /\ main' = m /\ Q = [P EXCEPT ![u] = q] /\ Alive(u) /\ idx \in 1..Len(pl[u].inv)
  <2>1. pl[u].inv \in Seq(ItemType)
    BY Around DEF PlayerType
  <2>2. DOMAIN pl[u].inv = 1..Len(pl[u].inv)
    BY <2>1
  <2> QED BY <2>2 DEF UseTake, Ready, KeepLog
<1>2. B = A /\ A = InRoom /\ A \subseteq Users
  BY <1>1, Around DEF Settled, InRoom
<1>3. \A v \in Users : D[v] = Idle /\ E[v] = IF v = u THEN m ELSE Idle
  BY <1>1, Around DEF Doings
<1>4. \A v \in Users : Q[v] = IF v = u THEN q ELSE P[v]
  BY <1>1, Around
<1>5. P[u] \in PlayerType /\ P[u].status = "GAMING"
  BY <1>1, Around DEF Alive
<1>6. Mirrors(log, A, P, D, crashes, items)
  BY DEF Mirroring
<1>7. log \in Seq(LogType) /\ Len(log) > 0 /\ B \in SUBSET A
  BY <1>2, Around
<1>8. Lives(q) => Lives(P[u])
  BY <1>5 DEF Lives, PlayerType
<1>9. \A p \in ReplayPlayer : Agrees(p, u, P[u], Idle, crashes) => Agrees(p, u, q, m, crashes)
  BY <1>1, <1>5, TakeTold
<1> HIDE DEF A, B, P, Q, D, E, q, m
<1>10. OthersStay(B, u, P, Q, D, E)
  BY <1>2, <1>3, <1>4 DEF OthersStay
<1>11. StillTold(B, u, P, Q, D, E, crashes)
  BY <1>3, <1>4, <1>9 DEF StillTold
<1>12. NoneRises(B, P, Q)
  BY <1>2, <1>4, <1>8 DEF NoneRises
<1>13. Mirrors(log, B, Q, E, crashes, items)
  BY <1>6, <1>7, <1>10, <1>11, <1>12, MirrorsStay
<1> QED BY <1>1, <1>13 DEF B, Q, E

\* A blow is written as it falls.
LEMMA MirrorAttack ==
    ASSUME Types, Control, People, Mirroring, NEW w \in Users, NEW u \in Users, Attack(w, u)
    PROVE  Mirrors(log', Settled', pl', Doings', crashes, items')
<1> DEFINE A == Settled
           B == Settled'
           P == pl
           Q == pl'
           D == Doings
           E == Doings'
           hp == IF pl[u].shield THEN pl[u].hp
                 ELSE pl[u].hp - (IF pl[w].buff THEN 2 * HIT ELSE HIT)
           q == [pl[u] EXCEPT !.hp = hp, !.shield = FALSE]
           d == IF pl[u].shield THEN Idle ELSE [pc |-> "hit", u |-> u]
           r == Damage(pl[u].pid, hp, pl[u].shield)
           f == Feed(Last(log), r)
           is == ItemsAfter(Last(log).st, r)
           m == log'
           left == items'
<1>1. /\ main.pc = "idle" /\ u \in InRoom /\ left = items /\ seats' = seats /\ Alive(u)
      /\ main' = d /\ LogIs(log, f, m)
  BY DEF Attack, Ready, WalWrite, WriteSynced, LogIs
<1>a. Q = [P EXCEPT ![u] = q]
  BY Around DEF Attack
<1>2. B = A /\ A = InRoom
  BY <1>1, Around DEF Settled, InRoom
<1>3. \A v \in Users : D[v] = Idle /\ E[v] = IF v = u THEN d ELSE Idle
  BY <1>1, Around DEF Doings, Idle
<1>4. RecordOK(r) /\ r.t = "DAMAGE" /\ r.t \in PlayerRecords /\ r.pid = P[u].pid /\ hp \in Int
        /\ r.hp = hp /\ r.broken = P[u].shield
  <2>1. hp \in Health /\ RecordOK(r)
    BY BlowOK DEF Types
  <2> QED BY <2>1 DEF Damage, PlayerRecords, Health
<1>5. is = Last(log).st.items
  BY <1>4 DEF ItemsAfter
<1>6. Mirrors(log, A, P, D, crashes, items)
  BY DEF Mirroring
<1>7. AsMany(is, left)
  BY <1>1, <1>5, <1>6 DEF Mirrors, SameItems, AsMany
<1>8. log \in Seq(LogType) /\ Len(log) > 0 /\ A \subseteq Users /\ B \in SUBSET A
        /\ \A v \in A : v # u => P[v].pid # P[u].pid
  BY <1>1, <1>2, Around
<1>9. P[u] \in PlayerType /\ Lives(P[u]) /\ d.pc \in {"idle", "hit"}
  BY <1>1, Around DEF Alive, Lives, Idle
<1>b. \A v \in Users : Q[v] = IF v = u THEN q ELSE P[v]
  BY <1>a, Around
<1>c. \A p \in ReplayPlayer :
         Agrees(p, u, P[u], Idle, crashes) => Agrees(Changed(p, r), u, q, d, crashes)
  <2>1. /\ q.pid = P[u].pid /\ q.pos = P[u].pos /\ q.status = P[u].status /\ q.inv = P[u].inv
        /\ q.hp = hp /\ ~q.shield
    BY <1>9 DEF PlayerType
  <2>2. r.t = "DAMAGE" /\ r.broken = P[u].shield /\ q.hp = r.hp /\ q.hp \in Int
    BY <1>4, <2>1
  <2> HIDE DEF hp, d, r, P, q
  <2> QED BY <1>9, <2>1, <2>2, BlowTold
<1> HIDE DEF A, B, P, Q, D, E, r, f, is, m, left, hp, q, d
<1>10. OthersStay(B, u, P, Q, D, E) /\ OtherNumbers(B, u, P)
  BY <1>b, <1>2, <1>3, <1>8 DEF OthersStay, OtherNumbers
<1>11. NowTold(B, u, P, Q, D, E, crashes, r)
  BY <1>3, <1>b, <1>c DEF NowTold
<1>12. NoneRises(B, P, Q)
  BY <1>2, <1>8, <1>9, <1>b DEF NoneRises
<1>13. f = Feed(Last(log), r) /\ is = ItemsAfter(Last(log).st, r)
  BY DEF f, is
<1>14. Mirrors(m, B, Q, E, crashes, left)
  BY <1>1, <1>4, <1>6, <1>7, <1>8, <1>10, <1>11, <1>12, <1>13, MirrorsWritten
<1> QED BY <1>14 DEF m, B, Q, E, left

\* Nothing is written of who leaves: one less is compared.
LEMMA MirrorLeave ==
    ASSUME Types, Control, People, Mirroring, NEW u \in Users, Leave(u), phase' = phase
    PROVE  Mirrors(log', Settled', pl', Doings', crashes, items')
<1> DEFINE A == Settled
           B == Settled'
           P == pl
           Q == pl'
           D == Doings
           E == Doings'
<1>0. TypeOK
  BY DEF Types
<1>1. /\ main.pc = "idle" /\ u \in InRoom /\ items' = items /\ main' = main
      /\ seats' = RemoveFirst(seats, u) /\ Q = [P EXCEPT ![u] = Fresh(0)] /\ log' = log
  BY DEF Leave, KeepLog
<1>2. InRoom' = InRoom \ {u}
  BY <1>0, <1>1, LeaveSeats DEF InRoom
<1>3. A = InRoom /\ B = InRoom \ {u} /\ A \subseteq Users
  BY <1>1, <1>2, Around DEF Settled
<1>4. \A v \in Users : D[v] = Idle /\ E[v] = Idle
  BY <1>1, Around DEF Doings
<1>5. \A v \in Users : v # u => Q[v] = P[v]
  BY <1>1, Around
<1>6. Mirrors(log, A, P, D, crashes, items)
  BY DEF Mirroring
<1>7. log \in Seq(LogType) /\ Len(log) > 0 /\ B \in SUBSET A
  BY <1>3, Around
<1> HIDE DEF A, B, P, Q, D, E
<1>10. OthersStay(B, u, P, Q, D, E)
  BY <1>3, <1>4, <1>5 DEF OthersStay
<1>11. StillTold(B, u, P, Q, D, E, crashes)
  BY <1>3 DEF StillTold
<1>12. NoneRises(B, P, Q)
  BY <1>3, <1>5 DEF NoneRises
<1>13. Mirrors(log, B, Q, E, crashes, items)
  BY <1>6, <1>7, <1>10, <1>11, <1>12, MirrorsStay
<1> QED BY <1>1, <1>13 DEF B, Q, E

\* Nor of who logs in before he is put back.
LEMMA MirrorLogin ==
    ASSUME Types, Control, People, Mirroring, NEW u \in Users, NEW pid \in 1..MaxPid, Login(u, pid),
           phase = "running"
    PROVE  Mirrors(log', Settled', pl', Doings', crashes, items')
<1> DEFINE A == Settled
           B == Settled'
           P == pl
           Q == pl'
           D == Doings
           E == Doings'
<1>1. /\ main.pc = "idle" /\ u \notin InRoom /\ items' = items /\ seats' = seats
      /\ main' = [pc |-> "seat", u |-> u, pid |-> pid] /\ Q = P /\ log' = log
  BY DEF Login
<1>3. A = InRoom /\ B = InRoom /\ A \subseteq Users
  BY <1>1, Around DEF Settled, InRoom
<1>4. \A v \in Users : D[v] = Idle /\ (v # u => E[v] = Idle)
  BY <1>1, Around DEF Doings
<1>6. Mirrors(log, A, P, D, crashes, items)
  BY DEF Mirroring
<1>7. log \in Seq(LogType) /\ Len(log) > 0 /\ B \in SUBSET A
  BY <1>3, Around
<1> HIDE DEF A, B, P, Q, D, E
<1>10. OthersStay(B, u, P, Q, D, E)
  BY <1>1, <1>3, <1>4 DEF OthersStay
<1>11. StillTold(B, u, P, Q, D, E, crashes)
  BY <1>1, <1>3 DEF StillTold
<1>12. NoneRises(B, P, Q)
  BY <1>1 DEF NoneRises
<1>13. Mirrors(log, B, Q, E, crashes, items)
  BY <1>6, <1>7, <1>10, <1>11, <1>12, MirrorsStay
<1> QED BY <1>1, <1>13 DEF B, Q, E

-----------------------------------------------------------------------------
\* Whoever is in the middle of a command is in the room.
LEMMA InTheMiddle ==
    ASSUME Types, Control, People, main.pc \in {"move", "pickup", "used", "effect", "hit"}
    PROVE  /\ main.u \in InRoom /\ main.u \in Users /\ main.pc \notin {"idle", "state", "record", "seat"}
           /\ main.pc = "move" => main.to \in Spots
           /\ main.pc \in {"pickup", "used", "effect"} => main.item \in ItemType
           /\ main.pc = "used" => main.idx \in Slots
<1>1. main \in MainType /\ main.u \in InRoom
  BY DEF Types, Locals, People
<1>2. main.u \in Users
  BY <1>1, Around
<1> QED BY <1>1, <1>2 DEF MainType, Idle

\* The player arrives, and what lies there is taken up.
LEMMA MirrorMoveEnd ==
    ASSUME Types, Control, People, Mirroring, MoveEnd
    PROVE  Mirrors(log', Settled', pl', Doings', crashes, items')
<1> DEFINE A == Settled
           B == Settled'
           P == pl
           Q == pl'
           D == Doings
           E == Doings'
           u == main.u
           q == [pl[u] EXCEPT !.pos = main.to]
           n == IF Len(pl[u].inv) < MAX_INVENTORY THEN ItemAt(items, main.to) ELSE 0
           o == main'
<1>1. /\ main.pc = "move" /\ u \in InRoom /\ u \in Users /\ main.to \in Spots /\ seats' = seats
      /\ main.pc \notin {"idle", "state", "record"}
  BY InTheMiddle DEF MoveEnd
<1>a. \A v \in Users : Q[v] = IF v = u THEN q ELSE P[v]
  <2>1. pl' = [pl EXCEPT ![u] = q]
    BY <1>1, Around DEF MoveEnd
  <2> QED BY <2>1, Around
<1>b. o.pc \notin {"state", "record"} /\ (o.pc # "idle" => o.u = u)
        /\ (o.pc = "idle" => o = Idle)
  <2>1. o = Idle \/ \E it : o = [pc |-> "pickup", u |-> u, item |-> it]
    BY DEF MoveEnd
  <2> QED BY <2>1 DEF Idle
<1>2. B = A /\ A = InRoom
  BY <1>1, <1>b, Around DEF Settled, InRoom
<1>3. \A v \in Users : /\ D[v] = IF v = u THEN main ELSE Idle
                       /\ E[v] = IF v = u THEN o ELSE Idle
  <2>1. \A v \in Users : D[v] = IF v = u THEN main ELSE Idle
    BY <1>1, Around
  <2>2. \A v \in Users : E[v] = IF o.pc # "idle" /\ o.u = v THEN o ELSE Idle
    BY DEF Doings
  <2> QED BY <2>1, <2>2, <1>b
<1>6. Mirrors(log, A, P, D, crashes, items)
  BY DEF Mirroring
<1>8. log \in Seq(LogType) /\ Len(log) > 0 /\ A \subseteq Users /\ B \in SUBSET A
        /\ \A v \in A : v # u => P[v].pid # P[u].pid
  BY <1>1, <1>2, Around
<1>9. P[u] \in PlayerType /\ Len(P[u].inv) \in Nat
  BY <1>1, Around
<1>c. \A p \in ReplayPlayer : Agrees(p, u, P[u], D[u], crashes) => Agrees(p, u, q, Idle, crashes)
  <2> HIDE DEF u
  <2>1. D[u] = main
    BY <1>1, <1>3
  <2>2. \A p \in ReplayPlayer : Agrees(p, u, P[u], main, crashes) =>
                                   Agrees(p, u, [P[u] EXCEPT !.pos = main.to], Idle, crashes)
    BY <1>1, <1>9, ArriveTold
  <2> QED BY <2>1, <2>2
<1>d. Lives(q) => Lives(P[u])
  BY <1>9 DEF Lives, PlayerType
<1>e. q.inv = P[u].inv /\ q.pid = P[u].pid
  BY <1>9 DEF PlayerType
<1>10. OthersStay(B, u, P, Q, D, E) /\ OtherNumbers(B, u, P) /\ NoneRises(B, P, Q)
  <2> HIDE DEF A, B, P, Q, D, E, u, q, o
  <2>1. OthersStay(B, u, P, Q, D, E)
    BY <1>a, <1>2, <1>3, <1>8 DEF OthersStay
  <2>2. OtherNumbers(B, u, P)
    BY <1>2, <1>8 DEF OtherNumbers
  <2>3. NoneRises(B, P, Q)
    BY <1>a, <1>2, <1>8, <1>d DEF NoneRises
  <2> QED BY <2>1, <2>2, <2>3
<1>11. CASE n = 0
  <2>1. o = Idle /\ log' = log /\ items' = items
    BY <1>11 DEF MoveEnd, KeepLog
  <2> HIDE DEF A, B, P, Q, D, E, u, q, o
  <2>2. StillTold(B, u, P, Q, D, E, crashes)
    BY <2>1, <1>1, <1>a, <1>3, <1>c DEF StillTold
  <2>3. Mirrors(log, B, Q, E, crashes, items)
    BY <1>6, <1>8, <1>10, <2>2, MirrorsStay
  <2> QED BY <2>1, <2>3 DEF B, Q, E
<1>12. CASE n # 0
  <2> DEFINE r == Pickup(pl[u].pid, items[n].type, main.to)
             f == Feed(Last(log), r)
             is == ItemsAfter(Last(log).st, r)
             m == log'
             left == items'
  <2>1. /\ n = ItemAt(items, main.to) /\ left = TakeFrom(items, n) /\ LogIs(log, f, m)
        /\ o = [pc |-> "pickup", u |-> u, item |-> items[n].type]
        /\ Len(P[u].inv) < MAX_INVENTORY
    BY <1>12 DEF MoveEnd, WalWrite, WriteSynced, LogIs
  <2>2. RecordOK(r) /\ r.t = "PICKUP" /\ r.t \in PlayerRecords /\ r.pid = P[u].pid /\ r.pos = main.to
          /\ r.item = items[n].type
    <3>1. items \in Seq(MapItem) /\ Len(items) \in Nat
      BY Around
    <3>2. n \in 1..Len(items) /\ items[n].active
      BY <1>12, <2>1, <3>1, FindItem
    <3>3. items[n].type \in ItemType
      <4> HIDE DEF n
      <4>1. items[n] \in MapItem
        BY <3>1, <3>2
      <4> QED BY <3>2, <4>1 DEF MapItem
    <3> HIDE DEF n
    <3> QED BY <3>3 DEF Pickup, PlayerRecords, RecordOK
  <2>3. is = TakeFrom(Last(log).st.items, ItemAt(Last(log).st.items, main.to))
    BY <2>2 DEF ItemsAfter
  <2>4. AsMany(is, left)
    <3> DEFINE a == Last(log).st.items
               b == items
    <3>1. a \in Seq(MapItem) /\ b \in Seq(MapItem) /\ main.to \in Spots
      BY <1>1, Around
    <3>2. Len(a) < MAX_MAP_ITEMS => \A pos \in Spots : Lying(a, pos) = Lying(b, pos)
      BY <1>6 DEF Mirrors, SameItems
    <3>3. ItemAt(b, main.to) # 0 /\ left = TakeFrom(b, ItemAt(b, main.to))
            /\ is = TakeFrom(a, ItemAt(a, main.to))
      BY <2>1, <2>3, <1>12
    <3> HIDE DEF a, b, n, is, left
    <3> QED BY <3>1, <3>2, <3>3, BothTake DEF AsMany
  <2> HIDE DEF A, B, P, Q, D, E, u, q, o, n, r, f, is, m, left
  <2>5. NowTold(B, u, P, Q, D, E, crashes, r)
    <3>1. Q[u] = q /\ E[u] = [pc |-> "pickup", u |-> u, item |-> r.item]
      BY <2>1, <2>2, <1>1, <1>a, <1>3
    <3>2. \A p \in ReplayPlayer : Agrees(p, u, q, Idle, crashes) =>
             Agrees(Changed(p, r), u, q, [pc |-> "pickup", u |-> u, item |-> r.item], crashes)
      BY <2>1, <2>2, <1>9, <1>e, PickupTold
    <3> QED BY <3>1, <3>2, <1>c DEF NowTold
  <2>6. f = Feed(Last(log), r) /\ is = ItemsAfter(Last(log).st, r)
    BY DEF f, is
  <2>7. Mirrors(m, B, Q, E, crashes, left)
    BY <1>6, <1>8, <1>10, <2>1, <2>2, <2>4, <2>5, <2>6, MirrorsWritten
  <2> QED BY <2>7 DEF m, B, Q, E, left
<1> QED BY <1>11, <1>12

\* player_add_item(): the item is his in memory too.
LEMMA MirrorAddItem ==
    ASSUME Types, Control, People, Mirroring, AddItem
    PROVE  Mirrors(log', Settled', pl', Doings', crashes, items')
<1> DEFINE A == Settled
           B == Settled'
           P == pl
           Q == pl'
           D == Doings
           E == Doings'
           u == main.u
           q == [pl[u] EXCEPT !.inv = Append(@, main.item)]
<1>1. /\ main.pc = "pickup" /\ u \in InRoom /\ u \in Users /\ main.item \in ItemType
      /\ main.pc \notin {"idle", "state", "record"} /\ seats' = seats /\ main' = Idle
      /\ log' = log /\ items' = items
  BY InTheMiddle DEF AddItem, KeepLog
<1>a. \A v \in Users : Q[v] = IF v = u THEN q ELSE P[v]
  <2>1. pl' = [pl EXCEPT ![u] = q]
    BY <1>1, Around DEF AddItem
  <2> QED BY <2>1, Around
<1>2. B = A /\ A = InRoom
  BY <1>1, Around DEF Settled, InRoom, Idle
<1>3. \A v \in Users : D[v] = (IF v = u THEN main ELSE Idle) /\ E[v] = Idle
  BY <1>1, Around DEF Doings, Idle
<1>6. Mirrors(log, A, P, D, crashes, items)
  BY DEF Mirroring
<1>8. log \in Seq(LogType) /\ Len(log) > 0 /\ A \subseteq Users /\ B \in SUBSET A
  BY <1>2, Around
<1>9. P[u] \in PlayerType
  BY <1>1, Around
<1>c. \A p \in ReplayPlayer : Agrees(p, u, P[u], main, crashes) => Agrees(p, u, q, Idle, crashes)
  BY <1>1, <1>9, AddTold
<1>d. Lives(q) => Lives(P[u])
  BY <1>9 DEF Lives, PlayerType
<1> HIDE DEF A, B, P, Q, D, E, u, q
<1>10. OthersStay(B, u, P, Q, D, E)
  BY <1>a, <1>2, <1>3, <1>8 DEF OthersStay
<1>11. StillTold(B, u, P, Q, D, E, crashes)
  BY <1>1, <1>a, <1>3, <1>c DEF StillTold
<1>12. NoneRises(B, P, Q)
  BY <1>a, <1>2, <1>8, <1>d DEF NoneRises
<1>13. Mirrors(log, B, Q, E, crashes, items)
  BY <1>6, <1>8, <1>10, <1>11, <1>12, MirrorsStay
<1> QED BY <1>1, <1>13 DEF B, Q, E

\* What is used is out of the log too.
LEMMA MirrorUseLog ==
    ASSUME Types, Control, People, Mirroring, UseLog
    PROVE  Mirrors(log', Settled', pl', Doings', crashes, items')
<1> DEFINE A == Settled
           B == Settled'
           P == pl
           Q == pl'
           D == Doings
           E == Doings'
           u == main.u
           o == main'
           r == UseItem(pl[u].pid, main.item, main.idx)
           f == Feed(Last(log), r)
           is == ItemsAfter(Last(log).st, r)
           m == log'
           left == items'
<1>1. /\ main.pc = "used" /\ u \in InRoom /\ u \in Users /\ main.item \in ItemType
      /\ main.idx \in Slots
      /\ main.pc \notin {"idle", "state", "record"} /\ seats' = seats
      /\ left = items /\ Q = P /\ LogIs(log, f, m)
  BY InTheMiddle DEF UseLog, WalWrite, WriteSynced, LogIs
<1>2. o.pc = "effect" /\ o.u = u /\ o.item = main.item
  <2>1. main \in [pc : {"used", "effect"}, u : Users, item : ItemType, idx : Slots]
    BY <1>1 DEF Types, Locals, MainType, Idle
  <2>2. o = [main EXCEPT !.pc = "effect"]
    BY DEF UseLog
  <2> QED BY <2>1, <2>2
<1>a. B = A /\ A = InRoom
  BY <1>1, <1>2, Around DEF Settled, InRoom
<1>3. \A v \in Users : D[v] = (IF v = u THEN main ELSE Idle) /\ E[v] = IF v = u THEN o ELSE Idle
  BY <1>1, <1>2, Around DEF Doings
<1>4. RecordOK(r) /\ r.t = "USE_ITEM" /\ r.t \in PlayerRecords /\ r.pid = P[u].pid
        /\ r.item = main.item /\ r.idx = main.idx
  BY <1>1 DEF RecordOK, UseItem, PlayerRecords
<1>5. is = Last(log).st.items
  BY <1>4 DEF ItemsAfter
<1>6. Mirrors(log, A, P, D, crashes, items)
  BY DEF Mirroring
<1>7. AsMany(is, left)
  BY <1>1, <1>5, <1>6 DEF Mirrors, SameItems, AsMany
<1>8. log \in Seq(LogType) /\ Len(log) > 0 /\ A \subseteq Users /\ B \in SUBSET A
        /\ \A v \in A : v # u => P[v].pid # P[u].pid
  BY <1>1, <1>a, Around
<1>9. P[u] \in PlayerType /\ P[u].hp <= INITIAL_HP
  BY <1>1, Around
<1>13. f = Feed(Last(log), r) /\ is = ItemsAfter(Last(log).st, r)
  OBVIOUS
<1> HIDE DEF A, B, P, Q, D, E, u, r, f, is, m, left, o
<1>10. OthersStay(B, u, P, Q, D, E) /\ OtherNumbers(B, u, P)
  BY <1>1, <1>a, <1>3, <1>8 DEF OthersStay, OtherNumbers
<1>11. NowTold(B, u, P, Q, D, E, crashes, r)
  <2>1. \A p \in ReplayPlayer : Agrees(p, u, P[u], main, crashes) => Agrees(Changed(p, r), u, P[u], o, crashes)
    BY <1>1, <1>2, <1>4, <1>9, UseTold
  <2> QED BY <1>1, <1>3, <2>1 DEF NowTold
<1>12. NoneRises(B, P, Q)
  BY <1>1 DEF NoneRises
<1>14. Mirrors(m, B, Q, E, crashes, left)
  BY <1>1, <1>4, <1>6, <1>7, <1>8, <1>10, <1>11, <1>12, <1>13, MirrorsWritten
<1> QED BY <1>14 DEF m, B, Q, E, left

\* The effect that was written comes about.
LEMMA MirrorUseEffect ==
    ASSUME Types, Control, People, Mirroring, UseEffect
    PROVE  Mirrors(log', Settled', pl', Doings', crashes, items')
<1> DEFINE A == Settled
           B == Settled'
           P == pl
           Q == pl'
           D == Doings
           E == Doings'
           u == main.u
           q == Effect(pl[u], main.item)
<1>1. /\ main.pc = "effect" /\ u \in InRoom /\ u \in Users /\ main.item \in ItemType
      /\ main.pc \notin {"idle", "state", "record"} /\ seats' = seats /\ main' = Idle
      /\ log' = log /\ items' = items
  BY InTheMiddle DEF UseEffect, KeepLog
<1>a. \A v \in Users : Q[v] = IF v = u THEN q ELSE P[v]
  <2>1. pl' = [pl EXCEPT ![u] = q]
    BY <1>1, Around DEF UseEffect
  <2> QED BY <2>1, Around
<1>2. B = A /\ A = InRoom
  BY <1>1, Around DEF Settled, InRoom, Idle
<1>3. \A v \in Users : D[v] = (IF v = u THEN main ELSE Idle) /\ E[v] = Idle
  BY <1>1, Around DEF Doings, Idle
<1>6. Mirrors(log, A, P, D, crashes, items)
  BY DEF Mirroring
<1>8. log \in Seq(LogType) /\ Len(log) > 0 /\ A \subseteq Users /\ B \in SUBSET A
  BY <1>2, Around
<1>9. P[u] \in PlayerType /\ (P[u].status = "GAMING" => P[u].hp > 0)
  <2>1. P[u].status = "GAMING" /\ P[u].hp <= 0 => main.pc = "hit"
    BY <1>1 DEF People
  <2>2. P[u] \in PlayerType
    BY <1>1, Around
  <2>3. P[u].hp \in Int
    BY <2>2 DEF PlayerType
  <2> QED BY <1>1, <2>1, <2>2, <2>3
<1>c. \A p \in ReplayPlayer : Agrees(p, u, P[u], main, crashes) => Agrees(p, u, q, Idle, crashes)
  BY <1>1, <1>9, EffectTold
<1>d. Lives(q) => Lives(P[u])
  <2>1. q.status = P[u].status
    BY <1>1, <1>9 DEF Effect, PlayerType, ItemType
  <2> QED BY <1>9, <2>1 DEF Lives
<1> HIDE DEF A, B, P, Q, D, E, u, q
<1>10. OthersStay(B, u, P, Q, D, E)
  BY <1>a, <1>2, <1>3, <1>8 DEF OthersStay
<1>11. StillTold(B, u, P, Q, D, E, crashes)
  BY <1>1, <1>a, <1>3, <1>c DEF StillTold
<1>12. NoneRises(B, P, Q)
  BY <1>a, <1>2, <1>8, <1>d DEF NoneRises
<1>13. Mirrors(log, B, Q, E, crashes, items)
  BY <1>6, <1>8, <1>10, <1>11, <1>12, MirrorsStay
<1> QED BY <1>1, <1>13 DEF B, Q, E

-----------------------------------------------------------------------------
\* A death by a blow is written, once it is looked at.
LEMMA MirrorAttackDeath ==
    ASSUME Types, Control, People, Mirroring, AttackDeath
    PROVE  Mirrors(log', Settled', pl', Doings', crashes, items')
<1> DEFINE A == Settled
           B == Settled'
           P == pl
           Q == pl'
           D == Doings
           E == Doings'
           u == main.u
           q == [pl[u] EXCEPT !.hp = 0, !.status = "DEAD"]
           r == Death(pl[u].pid)
           f == Feed(Last(log), r)
           is == ItemsAfter(Last(log).st, r)
           m == log'
           left == items'
<1>1. /\ main.pc = "hit" /\ u \in InRoom /\ u \in Users
      /\ main.pc \notin {"idle", "state", "record"} /\ seats' = seats /\ main' = Idle /\ left = items
  BY InTheMiddle DEF AttackDeath
<1>2. B = A /\ A = InRoom
  BY <1>1, Around DEF Settled, InRoom, Idle
<1>3. \A v \in Users : D[v] = (IF v = u THEN main ELSE Idle) /\ E[v] = Idle
  BY <1>1, Around DEF Doings, Idle
<1>4. RecordOK(r) /\ r.t = "PLAYER_DEATH" /\ r.t \in PlayerRecords /\ r.pid = P[u].pid
  BY DEF RecordOK, Death, PlayerRecords
<1>5. is = Last(log).st.items
  BY <1>4 DEF ItemsAfter
<1>6. Mirrors(log, A, P, D, crashes, items)
  BY DEF Mirroring
<1>7. AsMany(is, left)
  BY <1>1, <1>5, <1>6 DEF Mirrors, SameItems, AsMany
<1>8. log \in Seq(LogType) /\ Len(log) > 0 /\ A \subseteq Users /\ B \in SUBSET A
        /\ \A v \in A : v # u => P[v].pid # P[u].pid
  BY <1>1, <1>2, Around
<1>9. P[u] \in PlayerType
  BY <1>1, Around
<1>a. main.pc \notin {"move", "pickup", "used", "effect"} /\ Idle.pc \notin {"move", "pickup", "used", "effect"}
  BY <1>1 DEF Idle
<1>10. CASE pl[u].hp <= 0
  <2>1. pl' = [pl EXCEPT ![u] = q] /\ LogIs(log, f, m)
    BY <1>1, <1>10, Around DEF AttackDeath, WalWrite, WriteSynced, LogIs
  <2>2. \A v \in Users : Q[v] = IF v = u THEN q ELSE P[v]
    BY <2>1, Around
  <2>3. \A p \in ReplayPlayer : Agrees(p, u, P[u], main, crashes) =>
           Agrees(Changed(p, r), u, q, main, crashes)
    <3> HIDE DEF r
    <3> QED BY <1>4, <1>9, DeathTold
  <2>4. ~Lives(q)
    BY <1>9 DEF PlayerType, Lives
  <2>5. f = Feed(Last(log), r) /\ is = ItemsAfter(Last(log).st, r)
    OBVIOUS
  <2> HIDE DEF A, B, P, Q, D, E, u, r, f, is, m, left, q
  <2>6. OthersStay(B, u, P, Q, D, E) /\ OtherNumbers(B, u, P)
    BY <2>2, <1>2, <1>3, <1>8 DEF OthersStay, OtherNumbers
  <2>7. NowTold(B, u, P, Q, D, E, crashes, r)
    <3>1. \A p : Agrees(Changed(p, r), u, q, main, crashes) => Agrees(Changed(p, r), u, q, Idle, crashes)
      BY <1>a, OtherwiseIdle
    <3> QED BY <1>1, <1>3, <2>2, <2>3, <3>1 DEF NowTold
  <2>8. NoneRises(B, P, Q)
    BY <2>2, <2>4, <1>2, <1>8 DEF NoneRises
  <2>9. Mirrors(m, B, Q, E, crashes, left)
    BY <1>4, <1>6, <1>7, <1>8, <2>1, <2>5, <2>6, <2>7, <2>8, MirrorsWritten
  <2> QED BY <2>9 DEF m, B, Q, E, left
<1>11. CASE ~(pl[u].hp <= 0)
  <2>1. Q = P /\ log' = log
    BY <1>11 DEF AttackDeath, KeepLog
  <2> HIDE DEF A, B, P, Q, D, E, u, r, f, is, m, left, q
  <2>2. OthersStay(B, u, P, Q, D, E)
    BY <2>1, <1>2, <1>3, <1>8 DEF OthersStay
  <2>3. StillTold(B, u, P, Q, D, E, crashes)
    <3>1. \A p : Agrees(p, u, P[u], main, crashes) => Agrees(p, u, P[u], Idle, crashes)
      BY <1>a, OtherwiseIdle
    <3> QED BY <1>1, <1>3, <2>1, <3>1 DEF StillTold
  <2>4. NoneRises(B, P, Q)
    BY <2>1 DEF NoneRises
  <2>5. Mirrors(log, B, Q, E, crashes, items)
    BY <1>6, <1>8, <2>2, <2>3, <2>4, MirrorsStay
  <2> QED BY <1>1, <2>1, <2>5 DEF B, Q, E, left
<1> QED BY <1>10, <1>11

-----------------------------------------------------------------------------
(***************************************************************************)
(* The game thread.                                                        *)
(***************************************************************************)
\* The end of a buff is not compared.
LEMMA MirrorBuffExpires ==
    ASSUME Types, Control, People, Mirroring, NEW u \in Users, BuffExpires(u)
    PROVE  Mirrors(log', Settled', pl', Doings', crashes, items')
<1> DEFINE A == Settled
           P == pl
           Q == pl'
           D == Doings
           q == [pl[u] EXCEPT !.buff = FALSE]
<1>1. log' = log /\ items' = items /\ Settled' = A /\ Doings' = D
  BY DEF BuffExpires, KeepLog, Settled, InRoom, Doings
<1>a. \A v \in Users : Q[v] = IF v = u THEN q ELSE P[v]
  BY Around DEF BuffExpires
<1>6. Mirrors(log, A, P, D, crashes, items)
  BY DEF Mirroring
<1>8. log \in Seq(LogType) /\ Len(log) > 0 /\ A \subseteq Users /\ A \in SUBSET A
  BY Around
<1>9. P[u] \in PlayerType
  BY Around
<1>c. \A p : Agrees(p, u, P[u], D[u], crashes) => Agrees(p, u, q, D[u], crashes)
  <2> HIDE DEF D
  <2> QED BY <1>9, BuffTold
<1>d. Lives(q) => Lives(P[u])
  BY <1>9 DEF Lives, PlayerType
<1> HIDE DEF A, P, Q, D, q
<1>10. OthersStay(A, u, P, Q, D, D)
  BY <1>a, <1>8 DEF OthersStay
<1>11. StillTold(A, u, P, Q, D, D, crashes)
  BY <1>a, <1>c DEF StillTold
<1>12. NoneRises(A, P, Q)
  BY <1>a, <1>8, <1>d DEF NoneRises
<1>13. Mirrors(log, A, Q, D, crashes, items)
  BY <1>6, <1>8, <1>10, <1>11, <1>12, MirrorsStay
<1> QED BY <1>1, <1>13 DEF Q

\* The poison hurts without a record, and kills with one.
LEMMA MirrorPoisonHurts ==
    ASSUME Types, Control, People, Mirroring, NEW u \in Users, PoisonHurts(u)
    PROVE  Mirrors(log', Settled', pl', Doings', crashes, items')
<1> DEFINE A == Settled
           P == pl
           Q == pl'
           D == Doings
           r == Death(pl[u].pid)
           f == Feed(Last(log), r)
           is == ItemsAfter(Last(log).st, r)
           m == log'
<1>1. items' = items /\ Settled' = A /\ Doings' = D /\ u \in InRoom /\ Alive(u)
  BY DEF PoisonHurts, Settled, InRoom, Doings
<1>4. RecordOK(r) /\ r.t = "PLAYER_DEATH" /\ r.t \in PlayerRecords /\ r.pid = P[u].pid
  BY DEF RecordOK, Death, PlayerRecords
<1>5. is = Last(log).st.items
  BY <1>4 DEF ItemsAfter
<1>6. Mirrors(log, A, P, D, crashes, items)
  BY DEF Mirroring
<1>7. AsMany(is, items)
  BY <1>5, <1>6 DEF Mirrors, SameItems, AsMany
<1>8. log \in Seq(LogType) /\ Len(log) > 0 /\ A \subseteq Users /\ A \in SUBSET A
        /\ \A v \in A : v # u => P[v].pid # P[u].pid
  BY <1>1, Around
<1>9. P[u] \in PlayerType /\ Lives(P[u])
  BY <1>1, Around DEF Alive, Lives
<1>10. CASE pl[u].hp > POISON
  <2> DEFINE q == [pl[u] EXCEPT !.hp = @ - POISON]
  <2>1. log' = log
    BY <1>10 DEF PoisonHurts, KeepLog
  <2>2. \A v \in Users : Q[v] = IF v = u THEN q ELSE P[v]
    BY <1>10, Around DEF PoisonHurts
  <2>3. \A p \in ReplayPlayer : Agrees(p, u, P[u], D[u], crashes) => Agrees(p, u, q, D[u], crashes)
    <3> HIDE DEF D
    <3> QED BY <1>9, <1>10, HurtTold
  <2> HIDE DEF A, P, Q, D, r, f, is, m, q
  <2>4. OthersStay(A, u, P, Q, D, D)
    BY <2>2, <1>8 DEF OthersStay
  <2>5. StillTold(A, u, P, Q, D, D, crashes)
    BY <2>2, <2>3 DEF StillTold
  <2>6. NoneRises(A, P, Q)
    BY <2>2, <1>8, <1>9 DEF NoneRises
  <2>7. Mirrors(log, A, Q, D, crashes, items)
    BY <1>6, <1>8, <2>4, <2>5, <2>6, MirrorsStay
  <2> QED BY <1>1, <2>1, <2>7 DEF Q
<1>11. CASE ~(pl[u].hp > POISON)
  <2> DEFINE q == [pl[u] EXCEPT !.hp = 0, !.status = "DEAD"]
  <2>1. LogIs(log, f, m)
    BY <1>11 DEF PoisonHurts, WalWrite, WriteSynced, LogIs
  <2>2. \A v \in Users : Q[v] = IF v = u THEN q ELSE P[v]
    BY <1>11, Around DEF PoisonHurts
  <2>3. \A p \in ReplayPlayer : Agrees(p, u, P[u], D[u], crashes) =>
           Agrees(Changed(p, r), u, q, D[u], crashes)
    <3> HIDE DEF D, r
    <3> QED BY <1>4, <1>9, DeathTold
  <2>4. f = Feed(Last(log), r) /\ is = ItemsAfter(Last(log).st, r)
    OBVIOUS
  <2> HIDE DEF A, P, Q, D, r, f, is, m, q
  <2>5. OthersStay(A, u, P, Q, D, D) /\ OtherNumbers(A, u, P)
    BY <2>2, <1>8 DEF OthersStay, OtherNumbers
  <2>6. NowTold(A, u, P, Q, D, D, crashes, r)
    BY <2>2, <2>3 DEF NowTold
  <2>7. NoneRises(A, P, Q)
    BY <2>2, <1>8, <1>9 DEF NoneRises
  <2>8. Mirrors(m, A, Q, D, crashes, items)
    BY <1>4, <1>6, <1>7, <1>8, <2>1, <2>4, <2>5, <2>6, <2>7, MirrorsWritten
  <2> QED BY <1>1, <2>8 DEF Q, m
<1> QED BY <1>10, <1>11

\* The zone is not compared here: see NeverCloser.
LEMMA MirrorShrink ==
    ASSUME Types, Control, People, Mirroring, Shrink
    PROVE  Mirrors(log', Settled', pl', Doings', crashes, items')
<1> DEFINE r == PoisonShrink(radius - 1)
           f == Feed(Last(log), r)
           is == ItemsAfter(Last(log).st, r)
           m == log'
           D == Doings
<1>1. items' = items /\ Settled' = Settled /\ Doings' = D /\ pl' = pl /\ LogIs(log, f, m)
  BY DEF Shrink, Settled, InRoom, Doings, WalWrite, WriteSynced, LogIs
<1>2. RecordOK(r) /\ r.t = "POISON_SHRINK"
  <2>1. radius - 1 \in 1..InitialRadius
    BY Numbers DEF Shrink, Types, TypeOK
  <2> QED BY <2>1 DEF RecordOK, PoisonShrink
<1>3. is = Last(log).st.items
  BY <1>2 DEF ItemsAfter
<1>4. AsMany(is, items) /\ Mirrors(log, Settled, pl, D, crashes, items)
  BY <1>3 DEF Mirroring, Mirrors, SameItems, AsMany
<1>5. log \in Seq(LogType) /\ Len(log) > 0
  BY Around
<1>6. f = Feed(Last(log), r) /\ is = ItemsAfter(Last(log).st, r)
  OBVIOUS
<1> HIDE DEF r, f, is, m, D
<1>7. Mirrors(m, Settled, pl, D, crashes, items)
  BY <1>1, <1>2, <1>4, <1>5, <1>6, MapWritten
<1> QED BY <1>1, <1>7 DEF m

\* A new item is one more in the first free slot, and one more in the log.
LEMMA MirrorSpawnItem ==
    ASSUME Types, Control, People, Mirroring, NEW pos \in Spots, NEW type \in ItemType,
           SpawnItem(pos, type)
    PROVE  Mirrors(log', Settled', pl', Doings', crashes, items')
<1> DEFINE item == [pos |-> pos, type |-> type, active |-> TRUE]
           n == SelectInSeq(items, LAMBDA i : ~i.active)
           r == ItemSpawn(item)
           f == Feed(Last(log), r)
           is == ItemsAfter(Last(log).st, r)
           m == log'
           D == Doings
           left == items'
<1>1. /\ Settled' = Settled /\ Doings' = D /\ pl' = pl /\ LogIs(log, f, m) /\ n # 0
      /\ left = [items EXCEPT ![n] = item]
  BY DEF SpawnItem, Settled, InRoom, Doings, WalWrite, WriteSynced, LogIs
<1>2. RecordOK(r) /\ r.t = "ITEM_SPAWN" /\ r.pos = pos /\ r.item = type /\ item \in MapItem /\ item.active
        /\ item.pos = pos
  BY DEF RecordOK, ItemSpawn, Places, MapItem
<1>3. n \in 1..Len(items) /\ ~items[n].active
  <2> DEFINE I == {i \in 1..Len(items) : ~items[i].active}
  <2>1. n = IF I # {} THEN Min(I) ELSE 0
    BY DEF SelectInSeq
  <2>2. I \in SUBSET Nat /\ I # {}
    BY <1>1, <2>1
  <2>3. Min(I) \in I
    BY <2>2, Least
  <2> HIDE DEF n
  <2> QED BY <2>1, <2>2, <2>3
<1>4. AsMany(is, left)
  <2> DEFINE a == Last(log).st.items
             b == items
             o == [pos |-> r.pos, type |-> r.item, active |-> TRUE]
  <2>1. a \in Seq(MapItem) /\ b \in Seq(MapItem) /\ Len(a) <= MAX_MAP_ITEMS /\ Len(a) \in Nat
    BY Around DEF Replayed
  <2>2. Len(a) < MAX_MAP_ITEMS => \A q \in Spots : Lying(a, q) = Lying(b, q)
    BY DEF Mirroring, Mirrors, SameItems
  <2>3. is = (IF Len(a) < MAX_MAP_ITEMS THEN Append(a, item) ELSE a)
    BY <1>2 DEF ItemsAfter
  <2> HIDE DEF a, b, n, item, is, left, r
  <2>4. \A q : Lying(Append(a, item), q) = IF item.pos = q THEN Lying(a, q) + 1 ELSE Lying(a, q)
    BY <1>2, <2>1, OneAppended
  <2>5. \A q : Lying(left, q) = IF item.pos = q THEN Lying(b, q) + 1 ELSE Lying(b, q)
    <3>1. left = [b EXCEPT ![n] = item] /\ n \in 1..Len(b) /\ ~b[n].active
      BY <1>1, <1>3 DEF b
    <3>2. item \in MapItem /\ item.active /\ b \in Seq(MapItem)
      BY <1>2, <2>1
    <3>3. \A q : Lying([b EXCEPT ![n] = item], q) = IF item.pos = q THEN Lying(b, q) + 1 ELSE Lying(b, q)
      BY <3>1, <3>2, SlotFilled
    <3> QED BY <3>1, <3>3
  <2>6. CASE Len(a) < MAX_MAP_ITEMS
    BY <2>2, <2>3, <2>4, <2>5, <2>6 DEF AsMany
  <2>7. CASE ~(Len(a) < MAX_MAP_ITEMS)
    BY <2>3, <2>7 DEF AsMany
  <2> QED BY <2>6, <2>7
<1>5. log \in Seq(LogType) /\ Len(log) > 0 /\ Mirrors(log, Settled, pl, D, crashes, items)
  BY Around DEF Mirroring
<1>6. f = Feed(Last(log), r) /\ is = ItemsAfter(Last(log).st, r)
  OBVIOUS
<1> HIDE DEF r, f, is, m, D, left
<1>7. Mirrors(m, Settled, pl, D, crashes, left)
  BY <1>1, <1>2, <1>4, <1>5, <1>6, MapWritten
<1> QED BY <1>1, <1>7 DEF m, left

-----------------------------------------------------------------------------
(***************************************************************************)
(* Who comes back, and the ends of rows.                                   *)
(***************************************************************************)
\* Until his record is written nothing is compared of him.
LEMMA MirrorSeat ==
    ASSUME Types, Control, People, Mirroring, Seat
    PROVE  Mirrors(log', Settled', pl', Doings', crashes, items')
<1> DEFINE A == Settled
           B == Settled'
           P == pl
           Q == pl'
           D == Doings
           E == Doings'
           u == main.u
           o == main'
<1>1. /\ main.pc = "seat" /\ u \in Users /\ u \notin InRoom /\ seats' = Append(seats, u)
      /\ Q = [P EXCEPT ![u] = Fresh(main.pid)] /\ log' = log /\ items' = items
      /\ o = [main EXCEPT !.pc = "state"] /\ main \in [pc : {"seat", "state", "record"}, u : Users, pid : 1..MaxPid]
  BY DEF Seat, disk, Types, Locals, MainType, Idle
<1>2. o.pc = "state" /\ o.u = u
  BY <1>1
<1>3. InRoom' = InRoom \cup {u}
  <2>1. seats \in Seq(Users)
    BY DEF Types, TypeOK
  <2>2. ToSet(Append(seats, u)) = ToSet(seats) \cup {u}
    BY <1>1, <2>1 DEF ToSet
  <2> QED BY <1>1, <2>2 DEF InRoom
<1>4. A = InRoom /\ B = InRoom /\ A \subseteq Users /\ log \in Seq(LogType) /\ Len(log) > 0 /\ B \in SUBSET A
  BY <1>1, <1>2, <1>3, Around DEF Settled
<1>5. \A v \in Users : v # u => Q[v] = P[v] /\ D[v] = Idle /\ E[v] = Idle
  BY <1>1, <1>2, Around DEF Doings
<1>6. Mirrors(log, A, P, D, crashes, items)
  BY DEF Mirroring
<1>7. u \notin B
  BY <1>1, <1>4
<1> HIDE DEF A, B, P, Q, D, E, u, o
<1>8. OthersStay(B, u, P, Q, D, E)
  BY <1>4, <1>5 DEF OthersStay
<1>9. StillTold(B, u, P, Q, D, E, crashes)
  BY <1>7 DEF StillTold
<1>10. NoneRises(B, P, Q)
  BY <1>4, <1>5, <1>7 DEF NoneRises
<1>11. Mirrors(log, B, Q, E, crashes, items)
  BY <1>4, <1>6, <1>8, <1>9, <1>10, MirrorsStay
<1> QED BY <1>1, <1>11 DEF B, Q, E

\* A player who comes back gets the state that the .recovery file has of him.
LEMMA MirrorRestore ==
    ASSUME Types, Control, People, Mirroring, Restore
    PROVE  Mirrors(log', Settled', pl', Doings', crashes, items')
<1> DEFINE A == Settled
           B == Settled'
           P == pl
           Q == pl'
           D == Doings
           E == Doings'
           u == main.u
           o == main'
<1>1. /\ main.pc = "state" /\ u \in Users /\ seats' = seats
      /\ \E q : Q = [P EXCEPT ![u] = q]
      /\ log' = log /\ items' = items
      /\ o = [main EXCEPT !.pc = "record"] /\ main \in [pc : {"seat", "state", "record"}, u : Users, pid : 1..MaxPid]
  <2>1. main.pc = "state" /\ seats' = seats /\ (\E q : Q = [P EXCEPT ![u] = q])
          /\ items' = items /\ o = [main EXCEPT !.pc = "record"]
    BY DEF Restore
  <2>2. log' = log
    BY DEF Restore, disk
  <2>3. main \in [pc : {"seat", "state", "record"}, u : Users, pid : 1..MaxPid]
    BY <2>1 DEF Types, Locals, MainType, Idle
  <2> HIDE DEF o, P, Q
  <2> QED BY <2>1, <2>2, <2>3
<1>2. o.pc = "record" /\ o.u = u
  BY <1>1
<1>4. /\ A = InRoom \ {u} /\ B = InRoom \ {u} /\ A \subseteq Users /\ log \in Seq(LogType) /\ Len(log) > 0
      /\ B \in SUBSET A
  BY <1>1, <1>2, Around DEF Settled, InRoom
<1>5. \A v \in Users : v # u => Q[v] = P[v] /\ D[v] = Idle /\ E[v] = Idle
  BY <1>1, <1>2, Around DEF Doings
<1>6. Mirrors(log, A, P, D, crashes, items)
  BY DEF Mirroring
<1>7. u \notin B
  BY <1>4
<1> HIDE DEF A, B, P, Q, D, E, u, o
<1>8. OthersStay(B, u, P, Q, D, E)
  BY <1>4, <1>5 DEF OthersStay
<1>9. StillTold(B, u, P, Q, D, E, crashes)
  BY <1>7 DEF StillTold
<1>10. NoneRises(B, P, Q)
  BY <1>4, <1>5, <1>7 DEF NoneRises
<1>11. Mirrors(log, B, Q, E, crashes, items)
  BY <1>4, <1>6, <1>8, <1>9, <1>10, MirrorsStay
<1> QED BY <1>1, <1>11 DEF B, Q, E

\* A log synced after its last record.
LEMMA SyncedMirrors ==
    ASSUME NEW f \in LogType, NEW l, l = <<f>>, NEW A, NEW P, NEW D, NEW c, NEW table,
           DistinctIds(f.st), AllTold(f.st, A, P, D, c), SameItems(f.st, table)
    PROVE  Mirrors(l, A, P, D, c, table)
<1>1. Last(l) = f /\ DOMAIN l = {1} /\ l[1] = f
  BY DEF Last
<1>2. f \in Covering(A, P)
  BY ToldIsCovered
<1> QED BY <1>1, <1>2 DEF Mirrors

\* The record of who is back tells of him.
LEMMA BackTold ==
    ASSUME NEW r, NEW u, NEW q \in PlayerType, NEW c, c # 0, r.user = u, r.pid = q.pid, r.pos = q.pos,
           r.shield = q.shield, r.hp >= q.hp, r.hp \in Int, Lives(q)
    PROVE  Agrees(JoinedPlayer(r), u, q, Idle, c)
<1> DEFINE p == JoinedPlayer(r)
<1>1. /\ p.id = r.pid /\ p.user = r.user /\ p.pos = r.pos /\ p.hp = r.hp /\ p.shield = r.shield
      /\ p.status = "GAMING"
  BY DEF JoinedPlayer
<1>2. Idle.pc = "idle" /\ q.shield \in BOOLEAN /\ q.hp \in Int
  BY DEF Idle, PlayerType
<1>3. Lives(p) /\ q.status = "GAMING"
  BY <1>1, <1>2 DEF Lives
<1> HIDE DEF p
<1>4. Told(p, u, q, Idle)
  BY <1>1, <1>2, <1>3 DEF Told
<1> QED BY <1>4 DEF Agrees, p

\* His PLAYER_JOIN is written, and the log has him as he is.
LEMMA MirrorRestoreRecord ==
    ASSUME Types, Control, People, Entries, Mirroring, RestoreRecord, torn' = "no"
    PROVE  Mirrors(log', Settled', pl', Doings', crashes, items')
<1> DEFINE A == Settled
           B == Settled'
           P == pl
           D == Doings
           E == Doings'
           u == main.u
           r == Join(main.pid, main.u, Record(main.u))
           s == Last(log).st
           f == Feed(Last(log), r)
<1>0. TypeOK /\ Locals /\ Disk
  BY DEF Types
<1>1. /\ main.pc = "record" /\ seats' = seats /\ pl' = P /\ items' = items /\ main' = Idle
      /\ log' = <<f>> /\ ~Clash(log'[1].st.players) /\ Alive(u) /\ phase \in {"recovered", "running"}
  <2>1. ~(sc # "idle" \/ Clash(log'[1].st.players) \/ ~Alive(u))
    BY DEF RestoreRecord
  <2> QED BY <2>1 DEF RestoreRecord, WriteSynced
<1>2. u \in Users /\ RecordOK(r) /\ crashes # 0
  <2>1. u \in Users /\ u \in MayReturn(files, info) /\ RecordOK(r)
    BY <1>0, ReturnRecord
  <2>2. "recovery" \in files
    BY <2>1, <1>0, RecordType DEF Disk
  <2> QED BY <2>1, <2>2 DEF Control
<1>3. r.t = "PLAYER_JOIN" /\ r.user = u /\ r.pid = main.pid /\ r.pos = Record(u).pos
        /\ r.hp = Record(u).hp /\ r.shield = Record(u).shield
  BY DEF Join
<1>4. /\ u \in InRoom /\ P[u].pid = main.pid /\ P[u].pos = Record(u).pos
      /\ P[u].shield = Record(u).shield /\ P[u].hp <= Record(u).hp
  BY <1>1 DEF People
<1>5. A = InRoom \ {u} /\ B = InRoom /\ A \subseteq Users
  BY <1>1, Around DEF Settled, InRoom, Idle
<1>6. \A v \in Users : (v # u => D[v] = Idle) /\ E[v] = Idle
  BY <1>1, Around DEF Doings, Idle
<1>7. s \in Replayed /\ OnceEach(s) /\ f \in LogType /\ f.st = Apply(s, r)
  <2>1. Last(log) \in LogType /\ s \in Replayed /\ f \in LogType
    BY <1>2, Around, FeedType
  <2>2. OnceEach(s)
    <3>1. Last(log) = log[Len(log)] /\ Len(log) \in DOMAIN log
      BY <1>0 DEF Disk, Last
    <3> QED BY <3>1 DEF Entries
  <2> QED BY <2>1, <2>2 DEF Feed
<1>8. DistinctIds(s) /\ AllTold(s, A, P, D, crashes) /\ SameItems(s, items)
  BY DEF Mirroring, Mirrors
<1>9. DistinctIds(f.st)
  <2>1. log'[1] = f
    BY <1>1
  <2>2. f.st.players \in Seq(ReplayPlayer)
    BY <1>7 DEF LogType, Replayed
  <2>3. ~Clash(f.st.players)
    BY <1>1, <2>1
  <2> HIDE DEF f
  <2> QED BY <2>2, <2>3 DEF Clash, DistinctIds
<1>10. Agrees(JoinedPlayer(r), u, P[u], Idle, crashes)
  <2>1. P[u] \in PlayerType /\ Lives(P[u])
    BY <1>1, <1>2, Around DEF Alive, Lives
  <2>2. r.hp \in Int
    BY <1>2, <1>3 DEF RecordOK, Health
  <2>3. r.hp >= P[u].hp
    <3>1. P[u].hp \in Int
      BY <2>1 DEF PlayerType
    <3> HIDE DEF r
    <3> QED BY <1>3, <1>4, <2>2, <3>1
  <2> HIDE DEF r
  <2> QED BY <1>2, <1>3, <1>4, <2>1, <2>2, <2>3, BackTold
<1> HIDE DEF r, s, f, A, B, P, D, E, u
<1> DEFINE t == Apply(s, r)
<1>11. /\ t.items = s.items
       /\ \E i \in 1..Len(t.players) : t.players[i] = JoinedPlayer(r)
       /\ \A j \in 1..Len(s.players) : s.players[j].user # r.user =>
            j \in 1..Len(t.players) /\ t.players[j] = s.players[j]
  BY <1>2, <1>3, <1>7, JoinWritten
<1> HIDE DEF t
<1>12. AllTold(t, B, P, E, crashes)
  <2> SUFFICES ASSUME NEW v \in B
               PROVE  \E i \in 1..Len(t.players) : Agrees(t.players[i], v, P[v], E[v], crashes)
    BY DEF AllTold
  <2>1. CASE v = u
    BY <2>1, <1>2, <1>6, <1>10, <1>11
  <2>2. CASE v # u
    <3>1. v \in A /\ v \in Users
      BY <1>4, <1>5, <2>2 DEF u
    <3>2. PICK i \in 1..Len(s.players) : Agrees(s.players[i], v, P[v], D[v], crashes)
      BY <1>8, <3>1 DEF AllTold
    <3>3. s.players[i].user = v
      BY <3>2 DEF Agrees, Told
    <3>4. i \in 1..Len(t.players) /\ t.players[i] = s.players[i]
      BY <1>3, <1>11, <2>2, <3>3
    <3> QED BY <1>6, <2>2, <3>1, <3>2, <3>4
  <2> QED BY <2>1, <2>2
<1>13. SameItems(t, items)
  BY <1>8, <1>11 DEF SameItems
<1>14. f.st = t
  BY <1>7 DEF t
<1>15. Mirrors(log', B, P, E, crashes, items)
  BY <1>1, <1>7, <1>9, <1>12, <1>13, <1>14, SyncedMirrors
<1> QED BY <1>1, <1>15 DEF B, P, E

\* The records of the start, of a snapshot, of a recovered game are all written.
LEMMA MirrorFinishWrites ==
    ASSUME Types, Control, People, Entries, Rows, FinishWrites, torn' = "no"
    PROVE  Mirrors(log', Settled', pl', Doings', crashes, items')
<1> DEFINE f == Last(log)
           s == Last(log).st
           E == Doings'
<1>0. TypeOK /\ Locals /\ Disk
  BY DEF Types
<1>1. /\ todo.by # "none" /\ todo.recs = << >> /\ log' = <<f>> /\ torn = "no"
      /\ seats' = seats /\ pl' = pl /\ items' = items /\ main' = main /\ crashes' = crashes
  BY DEF FinishWrites, WalSync, hist
<1>2. f \in LogType /\ s \in Replayed /\ s.players \in Seq(ReplayPlayer) /\ s.items \in Seq(MapItem)
  BY Around DEF Replayed
<1>3. phase \in {"starting", "creating", "running"}
  BY <1>1 DEF Control, NoTodo
<1>4. CASE phase \in {"starting", "running"}
  <2>1. /\ main = Idle
        /\ \E first \in {GameStart, Checkpoint} :
             InARow(Row(first, Joins(Copy), Spawns(items)), Joins(Copy), Spawns(items), << >>, log)
    <3>1. CASE phase = "starting"
      BY <3>1, <1>0, <1>1 DEF Rows, Locals
    <3>2. CASE phase = "running"
      <4>1. sc = "writing"
        BY <3>2, <1>1 DEF Control, NoTodo
      <4>2. main = Idle /\ snap.players = Copy /\ snap.items = items
        BY <4>1, <1>1 DEF Rows
      <4> QED BY <4>1, <4>2, <1>1 DEF Rows
    <3> QED BY <1>4, <3>1, <3>2
  <2>2. PICK first \in {GameStart, Checkpoint} :
           InARow(Row(first, Joins(Copy), Spawns(items)), Joins(Copy), Spawns(items), << >>, log)
    BY <2>1
  <2>3. Writable(Joins(Copy), Spawns(items)) /\ Len(Copy) = Len(seats) /\ Copy \in Seq(ReplayPlayer)
    BY <1>0, CopyWritable DEF Copied
  <2>4. RowOf(Row(first, Joins(Copy), Spawns(items)), Joins(Copy), Spawns(items))
    <3>1. Joins(Copy) \in Seq(JoinSet) /\ Spawns(items) \in Seq(SpawnSet) /\ 1 \in 1..InitialRadius
      BY <2>3, Numbers DEF Writable
    <3> QED BY <3>1, RowsAreRows
  <2>5. /\ Len(s.players) = Len(Joins(Copy))
        /\ \A i \in 1..Len(Joins(Copy)) : s.players[i] = JoinedPlayer(Joins(Copy)[i])
        /\ Len(s.items) = Len(Spawns(items))
        /\ \A i \in 1..Len(Spawns(items)) :
             s.items[i] = [pos |-> Spawns(items)[i].pos, type |-> Spawns(items)[i].item, active |-> TRUE]
    <3> HIDE DEF s
    <3> QED BY <2>2, <2>3, <2>4, RowFinished DEF s
  <2>6. Len(Joins(Copy)) = Len(seats)
    BY <2>3, JoinsType
  <2>7. DistinctIds(s) /\ SameItems(s, items) /\ AllTold(s, InRoom, pl, [u \in Users |-> Idle], crashes)
    <3> HIDE DEF s
    <3> QED BY <1>0, <1>2, <2>5, <2>6, CopyMirrors
  <2>8. Settled' = InRoom /\ E = [u \in Users |-> Idle]
    BY <1>1, <2>1 DEF Settled, InRoom, Doings, Idle
  <2> HIDE DEF s, f, E
  <2>9. f.st = s
    BY DEF f, s
  <2>10. Mirrors(log', InRoom, pl, [u \in Users |-> Idle], crashes, items)
    BY <1>1, <1>2, <2>7, <2>9, SyncedMirrors
  <2> QED BY <1>1, <2>8, <2>10 DEF E
<1>5. CASE phase = "creating"
  <2> DEFINE ps == LivingOf(info)
             js == Joins(ps)
             ss == Spawns(info.items)
             row == Row(GameStart, js, ss) \o <<PoisonShrink(info.radius)>>
             A == Settled'
  <2>1. /\ items = [i \in 1..MAX_MAP_ITEMS |-> IF i <= Len(info.items) THEN info.items[i] ELSE NoItem]
        /\ ~Clash(ps) /\ InARow(row, js, ss, << >>, log)
    BY <1>1, <1>5 DEF Rows
  <2>2. info \in Replayed /\ OnceEach(info) /\ info.items \in Seq(MapItem)
          /\ Len(info.items) <= MAX_MAP_ITEMS /\ info.radius \in 1..InitialRadius
    BY <1>0 DEF Disk, Entries, Replayed
  <2>3. Writable(js, ss) /\ ps \in Seq(ReplayPlayer)
    BY <2>2, FileWritable, LivingType
  <2>4. RowOf(row, js, ss)
    <3>1. js \in Seq(JoinSet) /\ ss \in Seq(SpawnSet)
      BY <2>3 DEF Writable
    <3> HIDE DEF js, ss
    <3> QED BY <2>2, <3>1, RowsAreRows DEF row
  <2>5. /\ Len(s.players) = Len(js) /\ \A i \in 1..Len(js) : s.players[i] = JoinedPlayer(js[i])
        /\ Len(s.items) = Len(ss)
        /\ \A i \in 1..Len(ss) : s.items[i] = [pos |-> ss[i].pos, type |-> ss[i].item, active |-> TRUE]
    <3> HIDE DEF s, js, ss, row
    <3> QED BY <2>1, <2>3, <2>4, RowFinished DEF s
  <2>6. Len(js) = Len(ps) /\ \A i \in 1..Len(ps) : js[i] = Join(ps[i].id, ps[i].user, ps[i])
    BY <2>3, JoinsType
  <2>7. DistinctIds(s)
    <3>1. \A i \in 1..Len(ps) : s.players[i].id = ps[i].id
      <4>1. \A x, y, z : JoinedPlayer(Join(x, y, z)).id = x
        BY DEF JoinedPlayer, Join
      <4> HIDE DEF s, js, ps
      <4> QED BY <2>5, <2>6, <4>1
    <3> HIDE DEF s, js, ps
    <3> QED BY SMTT(30), <2>1, <2>3, <2>5, <2>6, <3>1 DEF DistinctIds, Clash
  <2>8. SameItems(s, items)
    <3>1. \A pos : Lying(s.items, pos) = Lying(info.items, pos)
      <4> DEFINE is == s.items
                 table == info.items
      <4>1. is \in Seq(MapItem) /\ table \in Seq(MapItem) /\ Len(table) <= MAX_MAP_ITEMS
        BY <1>2, <2>2
      <4>2. Len(is) = Len(Spawns(table)) /\ \A i \in 1..Len(is) :
               is[i] = [pos |-> Spawns(table)[i].pos, type |-> Spawns(table)[i].item, active |-> TRUE]
        BY <2>5
      <4> HIDE DEF is, table
      <4> QED BY <4>1, <4>2, SpawnsMirror DEF is, table
    <3>2. \A pos : Lying(items, pos) = Lying(info.items, pos)
      BY <2>1, <2>2, ItemsPadded
    <3> HIDE DEF s
    <3> QED BY <3>1, <3>2 DEF SameItems
  <2>9. A = {}
    <3>1. seats = << >>
      BY <1>5 DEF Control
    <3>2. InRoom' = {}
      BY <1>1, <3>1 DEF InRoom, ToSet
    <3> QED BY <3>2 DEF Settled
  <2> HIDE DEF s, f, E, A
  <2>10. AllTold(s, A, pl, E, crashes)
    BY <2>9 DEF AllTold
  <2>11. f.st = s
    BY DEF f, s
  <2>12. Mirrors(log', A, pl, E, crashes, items)
    BY <1>1, <1>2, <2>7, <2>8, <2>10, <2>11, SyncedMirrors
  <2> QED BY <1>1, <2>12 DEF E, A
<1> QED BY <1>3, <1>4, <1>5

-----------------------------------------------------------------------------
\* The invariant is kept: the log and the game.
LEMMA MirrorInit == Init => Mirror
BY DEF Init, Mirror, Following

\* The invariant is kept: the log and the game.
LEMMA MirrorKept ==
    Types /\ Control /\ People /\ Entries /\ Rows /\ Mirror /\ [Next]_vars => Mirror'
<1> SUFFICES ASSUME Types, Control, People, Entries, Rows, Mirror, [Next]_vars, Following'
             PROVE  Mirrors(log, Settled, pl, Doings, crashes, items)'
  BY DEF Mirror
<1> DEFINE Goal == Mirrors(log', Settled', pl', Doings', crashes', items')
<1>a. torn' = "no" /\ phase' \in {"recovered", "running"} /\ sc' # "writing"
  BY DEF Following
<1>b. Following => Mirroring
  BY DEF Mirror, Mirroring
<1>c. (Marks /\ phase' = phase) => Mirroring
  BY CommandFollows, <1>b
<1>1. CASE StartGame \/ Crash \/ Boot
  BY <1>1, <1>a DEF StartGame, Crash, Boot
<1>2. CASE WriteNext
  <2>1. phase \in {"starting", "creating"} \/ sc = "writing"
    <3>1. todo # NoTodo
      BY <1>2 DEF WriteNext, NoTodo
    <3> QED BY <3>1 DEF Control
  <2> QED BY <1>2, <1>a, <2>1 DEF WriteNext
<1>3. CASE FinishWrites
  <2>1. crashes' = crashes
    BY <1>3 DEF FinishWrites
  <2> QED BY <1>3, <1>a, <2>1, MirrorFinishWrites
<1>4. CASE Commands
  <2>1. ASSUME NEW u \in Users, NEW to \in Spots, MoveBegin(u, to) PROVE Goal
    <3>1. Marks /\ phase' = phase /\ crashes' = crashes
      BY <2>1 DEF MoveBegin
    <3> QED BY <2>1, <3>1, <1>c, MirrorMoveBegin
  <2>2. ASSUME NEW u \in Users, NEW idx \in Slots, UseTake(u, idx) PROVE Goal
    <3>1. Marks /\ phase' = phase /\ crashes' = crashes
      BY <2>2 DEF UseTake
    <3> QED BY <2>2, <3>1, <1>c, MirrorUseTake
  <2>3. ASSUME NEW u \in Users, NEW v \in Users, Attack(u, v) PROVE Goal
    <3>1. Marks /\ phase' = phase /\ crashes' = crashes
      BY <2>3 DEF Attack
    <3> QED BY <2>3, <3>1, <1>c, MirrorAttack
  <2>4. ASSUME NEW u \in Users, Leave(u) PROVE Goal
    <3>1. Marks /\ phase' = phase /\ crashes' = crashes
      BY <2>4, <1>a DEF Leave
    <3> QED BY <2>4, <3>1, <1>c, MirrorLeave
  <2>5. ASSUME NEW u \in Users, NEW pid \in 1..MaxPid, Login(u, pid) PROVE Goal
    <3>1. phase = "running" /\ Marks /\ phase' = phase /\ crashes' = crashes
      BY <2>5, <1>a DEF Login
    <3> QED BY <2>5, <3>1, <1>c, MirrorLogin
  <2>6. CASE MoveEnd
    <3>1. Marks /\ phase' = phase /\ crashes' = crashes
      BY <2>6 DEF MoveEnd
    <3> QED BY <2>6, <3>1, <1>c, MirrorMoveEnd
  <2>7. CASE AddItem
    <3>1. Marks /\ phase' = phase /\ crashes' = crashes
      BY <2>7 DEF AddItem
    <3> QED BY <2>7, <3>1, <1>c, MirrorAddItem
  <2>8. CASE UseLog
    <3>1. Marks /\ phase' = phase /\ crashes' = crashes
      BY <2>8 DEF UseLog
    <3> QED BY <2>8, <3>1, <1>c, MirrorUseLog
  <2>9. CASE UseEffect
    <3>1. Marks /\ phase' = phase /\ crashes' = crashes
      BY <2>9 DEF UseEffect
    <3> QED BY <2>9, <3>1, <1>c, MirrorUseEffect
  <2>10. CASE AttackDeath
    <3>1. Marks /\ phase' = phase /\ crashes' = crashes
      BY <2>10 DEF AttackDeath
    <3> QED BY <2>10, <3>1, <1>c, MirrorAttackDeath
  <2>11. CASE Seat
    <3>1. Marks /\ phase' = phase /\ crashes' = crashes
      BY <2>11 DEF Seat
    <3> QED BY <2>11, <3>1, <1>c, MirrorSeat
  <2>12. CASE Restore
    <3>1. Marks /\ phase' = phase /\ crashes' = crashes
      BY <2>12 DEF Restore
    <3> QED BY <2>12, <3>1, <1>c, MirrorRestore
  <2>13. CASE RestoreRecord
    <3>1. crashes' = crashes /\ sc = "idle" /\ torn = "no" /\ phase \in {"recovered", "running"}
      BY <2>13, <1>a DEF RestoreRecord
    <3>2. Mirroring
      BY <3>1, <1>b DEF Following
    <3> QED BY <2>13, <3>1, <3>2, <1>a, MirrorRestoreRecord
  <2> QED BY <1>4, <2>1, <2>2, <2>3, <2>4, <2>5, <2>6, <2>7, <2>8, <2>9, <2>10, <2>11, <2>12, <2>13
      DEF Commands
<1>5. CASE GameThread
  <2>1. ASSUME NEW u \in Users, BuffExpires(u) PROVE Goal
    <3>1. Following /\ crashes' = crashes
      BY <2>1, <1>a DEF BuffExpires, Tick, hist, Following
    <3> QED BY <2>1, <3>1, <1>b, MirrorBuffExpires
  <2>2. ASSUME NEW u \in Users, PoisonHurts(u) PROVE Goal
    <3>1. Following /\ crashes' = crashes
      BY <2>2, <1>a DEF PoisonHurts, Tick, hist, Following
    <3> QED BY <2>2, <3>1, <1>b, MirrorPoisonHurts
  <2>3. CASE Shrink
    <3>1. Following /\ crashes' = crashes
      BY <2>3, <1>a DEF Shrink, Tick, hist, Following
    <3> QED BY <2>3, <3>1, <1>b, MirrorShrink
  <2>4. ASSUME NEW pos \in Spots, NEW type \in ItemType, SpawnItem(pos, type) PROVE Goal
    <3>1. Following /\ crashes' = crashes
      BY <2>4, <1>a DEF SpawnItem, Tick, hist, Following
    <3> QED BY <2>4, <3>1, <1>b, MirrorSpawnItem
  <2>5. CASE SnapshotCollect
    <3>1. Following
      BY <2>5, <1>a DEF SnapshotCollect, Tick, Following
    <3>2. UNCHANGED <<log, seats, main, pl, items, crashes>>
      BY <2>5 DEF SnapshotCollect, KeepLog
    <3>3. Mirrors(log, Settled, pl, Doings, crashes, items)
      BY <3>1, <1>b DEF Mirroring
    <3> QED BY <3>2, <3>3 DEF Settled, InRoom, Doings
  <2>6. CASE SnapshotTruncate
    BY <2>6, <1>a DEF SnapshotTruncate
  <2>7. CASE WaitOver
    <3>1. Following
      BY <2>7, <1>a DEF WaitOver, hist, Following
    <3>2. UNCHANGED <<log, seats, main, pl, items, crashes>>
      BY <2>7 DEF WaitOver, disk
    <3>3. Mirrors(log, Settled, pl, Doings, crashes, items)
      BY <3>1, <1>b DEF Mirroring
    <3> QED BY <3>2, <3>3 DEF Settled, InRoom, Doings
  <2>8. CASE EndGame \/ DeleteWal \/ DeleteSnapshot \/ DeleteRecovery
    BY <2>8, <1>a DEF EndGame, DeleteWal, DeleteSnapshot, DeleteRecovery
  <2> QED BY <1>5, <2>1, <2>2, <2>3, <2>4, <2>5, <2>6, <2>7, <2>8 DEF GameThread
<1>6. CASE UNCHANGED vars
  <2>1. UNCHANGED <<phase, torn, sc, log, seats, main, pl, items, crashes>>
    BY <1>6 DEF vars, mem, disk, hist
  <2>2. Following
    BY <2>1, <1>a DEF Following
  <2>3. Mirrors(log, Settled, pl, Doings, crashes, items)
    BY <2>2, <1>b DEF Mirroring
  <2> QED BY <2>1, <2>3 DEF Settled, InRoom, Doings
<1> QED BY <1>1, <1>2, <1>3, <1>4, <1>5, <1>6 DEF Next

-----------------------------------------------------------------------------
(***************************************************************************)
(* What follows for the game and its log.                                  *)
(***************************************************************************)
IInv == Types /\ Control /\ People /\ Entries /\ Zone /\ Rows /\ Mirror

\* The inductive invariant holds throughout.
LEMMA IInvAlways == Spec => []IInv
<1>1. Init => Types /\ Zone
  <2>1. Init => Zone
    BY DEF Init, Zone, LivePhases
  <2> QED BY <2>1, TypesInit
<1>2. Init => IInv
  BY <1>1, ControlInit, PeopleInit, EntriesInit, RowsInit, MirrorInit DEF IInv
<1>3. IInv /\ [Next]_vars => IInv'
  <2>1. IInv /\ [Next]_vars => Types' /\ Control' /\ People'
    BY TypesKept, ControlKept, PeopleKept DEF IInv
  <2>2. IInv /\ [Next]_vars => Entries' /\ Zone'
    BY EntriesKept, ZoneKept DEF IInv
  <2>3. IInv /\ [Next]_vars => Rows' /\ Mirror'
    BY RowsKept, MirrorKept DEF IInv
  <2> QED BY <2>1, <2>2, <2>3 DEF IInv
<1> QED BY <1>2, <1>3, PTL DEF Spec

\* Who has one entry is found at it.
LEMMA FoundOnce ==
    ASSUME NEW s \in Replayed, OnceEach(s), NEW i \in 1..Len(s.players)
    PROVE  InLog(s, s.players[i].user) = s.players[i]
<1> DEFINE u == s.players[i].user
           k == FindUserIndex(s, u)
<1>1. Len(s.players) \in Nat
  BY DEF Replayed
<1>2. /\ k \in 0..Len(s.players)
      /\ k = 0 => \A j \in 1..Len(s.players) : s.players[j].user # u
      /\ k # 0 => s.players[k].user = u
  BY <1>1, FindUser
<1> HIDE DEF k
<1>3. k \in 1..Len(s.players) /\ s.players[k].user = s.players[i].user
  BY <1>1, <1>2
<1>4. k = i
  BY <1>3 DEF OnceEach
<1> QED BY <1>4 DEF InLog, k

\* Between commands the log tells of everybody in the room as he is.
LEMMA QuietlyTold ==
    ASSUME IInv, Quiet, NEW u \in InRoom
    PROVE  Agrees(InLog(Last(log).st, u), u, pl[u], Idle, crashes) /\ pl[u] \in PlayerType
<1> DEFINE s == Last(log).st
<1>1. Mirroring /\ main.pc = "idle" /\ Types /\ Control /\ People /\ Entries
  BY DEF IInv, Quiet, Mirror, Mirroring, Following
<1>2. Settled = InRoom /\ Doings[u] = Idle /\ pl[u] \in PlayerType /\ s \in Replayed
  BY <1>1, Around
<1>3. OnceEach(s)
  <2>1. Last(log) = log[Len(log)] /\ Len(log) \in DOMAIN log
    BY <1>1 DEF Types, Disk, Last
  <2> QED BY <1>1, <2>1 DEF Entries
<1>4. PICK i \in 1..Len(s.players) : Agrees(s.players[i], u, pl[u], Idle, crashes)
  BY <1>1, <1>2 DEF Mirroring, Mirrors, AllTold
<1>5. s.players[i].user = u
  BY <1>4 DEF Agrees, Told
<1>6. InLog(s, u) = s.players[i]
  <2> HIDE DEF s
  <2> QED BY <1>2, <1>3, <1>5, FoundOnce
<1> QED BY <1>2, <1>4, <1>6

\* Between commands, and unless one came in the middle of the last snapshot, the log
\* replays to the game: places, shields, inventories, who lives and what lies on the
\* map.  A handler writes its record before or after it changes the player, in steps
\* the game thread and a snapshot come in between: what a command has written and not
\* yet done, or done and not yet written, is made up for by its last step
\* (game.c:79-448, game.c:494-539, player.c:267-309, snapshot.c:103-263,
\* wal.c:159-205, recovery.c:289-574).
THEOREM LogFollows == Spec => []LogMirrorsGame
<1>1. ASSUME IInv PROVE LogMirrorsGame
  <2> SUFFICES ASSUME Quiet
               PROVE  LET st == Last(log).st
                      IN  /\ \A u \in InRoom :
                                LET p == InLog(st, u)
                                IN  /\ p.pos = pl[u].pos
                                    /\ p.shield = pl[u].shield
                                    /\ Alive(u) => Lives(p) /\ p.hp >= pl[u].hp
                                    /\ crashes = 0 => pl[u].inv = [k \in 1..p.cnt |-> p.inv[k]]
                          /\ Len(st.items) < MAX_MAP_ITEMS =>
                               \A pos \in Spots : Lying(st.items, pos) = Lying(items, pos)
    BY DEF LogMirrorsGame
  <2> DEFINE st == Last(log).st
  <2>1. Len(st.items) < MAX_MAP_ITEMS => \A pos \in Spots : Lying(st.items, pos) = Lying(items, pos)
    BY <1>1 DEF IInv, Quiet, Mirror, Following, Mirrors, SameItems
  <2>2. ASSUME NEW u \in InRoom
        PROVE  LET p == InLog(st, u)
               IN  /\ p.pos = pl[u].pos
                   /\ p.shield = pl[u].shield
                   /\ Alive(u) => Lives(p) /\ p.hp >= pl[u].hp
                   /\ crashes = 0 => pl[u].inv = [k \in 1..p.cnt |-> p.inv[k]]
    <3> DEFINE p == InLog(st, u)
               q == pl[u]
    <3>1. Agrees(p, u, q, Idle, crashes) /\ q \in PlayerType
      BY <1>1, QuietlyTold
    <3>2. Idle.pc = "idle" /\ q.shield \in BOOLEAN /\ q.inv \in Seq(ItemType)
      BY <3>1 DEF Idle, PlayerType
    <3> HIDE DEF p, q
    <3>3. p.pos = q.pos /\ (Lives(q) => Lives(p) /\ p.hp >= q.hp)
      BY <3>1, <3>2 DEF Agrees, Told
    <3>4. p.shield = q.shield
      <4>1. p.shield = (q.shield \/ FALSE)
        BY <3>1, <3>2 DEF Agrees, Told
      <4> QED BY <3>2, <4>1
    <3>5. crashes = 0 => q.inv = [k \in 1..p.cnt |-> p.inv[k]]
      <4>1. crashes = 0 => p.cnt = Len(q.inv) /\ \A k \in 1..Len(q.inv) : p.inv[k] = q.inv[k]
        BY <3>1, <3>2 DEF Agrees, Carried
      <4>2. q.inv = [k \in 1..Len(q.inv) |-> q.inv[k]]
        BY <3>2
      <4> QED BY <4>1, <4>2
    <3>6. Alive(u) => Lives(q)
      BY DEF Alive, Lives, q
    <3> QED BY <3>3, <3>4, <3>5, <3>6 DEF p, q
  <2> QED BY <2>1, <2>2
<1> QED BY <1>1, IInvAlways, PTL

\* Between commands, who died with no hit points left is dead in what the log replays
\* to, so that a restart that finds all of it does not bring him back to life
\* (game.c:244-275, game.c:515-532, recovery.c:307-354).
THEOREM DeadStayDead == Spec => []TheDeadStayDead
<1>1. ASSUME IInv PROVE TheDeadStayDead
  <2> SUFFICES ASSUME Quiet, NEW u \in InRoom, pl[u].status = "DEAD", pl[u].hp = 0
               PROVE  ~Lives(InLog(Last(log).st, u))
    BY DEF TheDeadStayDead
  <2>1. Agrees(InLog(Last(log).st, u), u, pl[u], Idle, crashes)
    BY <1>1, QuietlyTold
  <2> QED BY <2>1 DEF Agrees, Told
<1> QED BY <1>1, IInvAlways, PTL

-----------------------------------------------------------------------------
\* Where the next start finds the players of a game that goes on.
LEMMA PlayersRecovered ==
    ASSUME NEW F \in SUBSET {"wal", "snap", "recovery"}, NEW l \in LogType,
           NEW sn \in Replayed, NEW inf \in Replayed, "wal" \in F, ~l.ended,
           NEW ps, NEW L, ps \in Seq(ReplayPlayer), 2 <= Cardinality(L),
           \/ ps = l.st.players /\ ps # << >> /\ l.any
           \/ ps = sn.players /\ l.st.players = << >> /\ "snap" \in F,
           \A u \in L : \E i \in 1..Len(ps) : ps[i].user = u /\ Lives(ps[i]),
           NEW after, after = CheckAndRecover(F, l, sn, inf)
    PROVE  L \subseteq MayReturn(after.files, after.info)
<1> DEFINE s == IF HasPlayerData(F, l) THEN SaveRecoveryInfo(FromWal(l, "snap" \in F, sn))
                ELSE SnapshotLoad(sn)
<1>1. Recoverable(F, l) /\ after = RecoverRoom(F, l, sn)
  <2>1. Recoverable(F, l)
    BY DEF Recoverable
  <2> QED BY <2>1 DEF CheckAndRecover
<1>2. s.players = ps /\ (HasPlayerData(F, l) \/ "snap" \in F)
  <2>1. CASE ps = l.st.players /\ ps # << >> /\ l.any
    <3>1. HasPlayerData(F, l)
      BY <2>1 DEF HasPlayerData, ParseOk
    <3>2. FromWal(l, "snap" \in F, sn).players = l.st.players
            /\ FromWal(l, "snap" \in F, sn) \in [players : Seq(ReplayPlayer), radius : Int, items : Seq(MapItem)]
      <4>1. l.st \in [players : Seq(ReplayPlayer), radius : Int, items : Seq(MapItem)]
              /\ sn.radius \in Int
        BY Numbers DEF LogType, Replayed
      <4> QED BY <4>1 DEF FromWal
    <3>3. SaveRecoveryInfo(FromWal(l, "snap" \in F, sn)).players = l.st.players
      BY <3>2 DEF SaveRecoveryInfo
    <3> QED BY <2>1, <3>1, <3>3
  <2>2. CASE ps = sn.players /\ l.st.players = << >> /\ "snap" \in F
    <3>1. ~HasPlayerData(F, l)
      BY <2>2 DEF HasPlayerData
    <3>2. SnapshotLoad(sn).players = sn.players
      BY DEF SnapshotLoad, SaveRecoveryInfo, Replayed
    <3> QED BY <2>2, <3>1, <3>2
  <2> QED BY <2>1, <2>2
<1> HIDE DEF s
<1>3. Living(s) = {i \in 1..Len(ps) : Lives(ps[i])}
  <2>1. DOMAIN ps = 1..Len(ps)
    OBVIOUS
  <2> QED BY <1>2, <2>1 DEF Living
<1>4. IsFiniteSet(Living(s)) /\ Cardinality(Living(s)) \in Nat /\ 2 <= Cardinality(Living(s))
  <2> DEFINE f == [u \in L |-> CHOOSE i \in 1..Len(ps) : ps[i].user = u /\ Lives(ps[i])]
  <2>1. Len(ps) \in Nat /\ Living(s) \subseteq 1..Len(ps)
    BY <1>3
  <2>2. IsFiniteSet(Living(s))
    BY <2>1, Counting, FS_Subset
  <2>3. \A u \in L : f[u] \in 1..Len(ps) /\ ps[f[u]].user = u /\ Lives(ps[f[u]])
    OBVIOUS
  <2>4. f \in [L -> Living(s)]
    BY <1>3, <2>3
  <2> HIDE DEF f
  <2>5. f \in Injection(L, Living(s))
    BY <2>3, <2>4 DEF Injection, IsInjective
  <2>6. Cardinality(L) <= Cardinality(Living(s))
    BY <2>2, <2>5, FS_Injection
  <2>7. Cardinality(Living(s)) \in Nat /\ Cardinality(L) \in Nat
    BY <2>2, <2>5, FS_Injection, FS_CardinalityType
  <2> QED BY <2>2, <2>6, <2>7
<1>5. "recovery" \in after.files /\ after.info = s
  <2>1. after.files = (F \ {"recovery"}) \cup {"recovery"} /\ after.info = s
    <3>1. ~(Cardinality(Living(s)) <= 1)
      BY <1>4
    <3>2. ~(~HasPlayerData(F, l) /\ "snap" \notin F)
      BY <1>2
    <3>3. RecoverRoom(F, l, sn) =
            IF ~HasPlayerData(F, l) /\ "snap" \notin F THEN [files |-> F \ {"recovery"}, info |-> NoInfo]
            ELSE IF Cardinality(Living(s)) <= 1
                 THEN [files |-> (F \ {"recovery"}) \ {"wal", "snap"}, info |-> NoInfo]
            ELSE [files |-> (F \ {"recovery"}) \cup {"recovery"}, info |-> s]
      BY DEF RecoverRoom, s
    <3> QED BY <1>1, <3>1, <3>2, <3>3
  <2> QED BY <2>1
<1>6. \A u \in L : \E i \in Living(s) : s.players[i].user = u
  BY <1>2, <1>3
<1> QED BY <1>5, <1>6 DEF MayReturn

\* Wherever a crash cuts the log of an open game, all of its living players may return,
\* with the exceptions in which the code loses somebody: a cut between the PLAYER_JOIN
\* records of a row, a command between the collection of a snapshot and its records, and
\* two players under one id (torn).  Otherwise it holds whether the log or the snapshot
\* is read, and while a snapshot rewrites the log (recovery.c:457-583, 797-986,
\* 1014-1082, wal.c:319-348, snapshot.c:103-263).
THEOREM LivingComeBack == Spec => []TheLivingComeBack
<1>1. ASSUME IInv PROVE TheLivingComeBack
  <2> SUFFICES ASSUME phase = "running", main.pc = "idle", torn = "no",
                      Cardinality(LivingUsers) >= 2, NEW n \in DOMAIN log, NotBetweenJoins(log[n].st)
               PROVE  LivingUsers \subseteq MayReturn(AfterRestart(n).files, AfterRestart(n).info)
    BY DEF TheLivingComeBack
  <2>0. Types /\ Control /\ People /\ Entries /\ Zone /\ Rows /\ Mirror
    BY <1>1 DEF IInv
  <2>1. /\ files \in SUBSET {"wal", "snap", "recovery"} /\ log[n] \in LogType
        /\ snap \in Replayed /\ info \in Replayed
    BY <2>0 DEF Types, TypeOK, Disk
  <2>2. "wal" \in files /\ ~log[n].ended
    BY <2>0 DEF Zone, LivePhases, Wide
  <2>3. LivingUsers \subseteq InRoom /\ LivingUsers # {} /\ 2 <= Cardinality(LivingUsers)
    <3>1. Cardinality({}) = 0
      BY FS_EmptySet
    <3>2. LivingUsers \subseteq Users
      BY <2>0, Around DEF LivingUsers
    <3>3. IsFiniteSet(LivingUsers)
      BY <3>2, NumbersOfGame, FS_Subset
    <3>4. Cardinality(LivingUsers) \in Nat
      BY <3>3, FS_CardinalityType
    <3>5. LivingUsers # {}
      <4> SUFFICES ASSUME LivingUsers = {} PROVE FALSE
        OBVIOUS
      <4> QED BY <3>1
    <3> QED BY <3>4, <3>5 DEF LivingUsers
  <2>4. \A u \in LivingUsers : u \in InRoom /\ u \in Users /\ Lives(pl[u]) /\ pl[u].hp \in Int
    BY <2>0, Around DEF LivingUsers, Alive, Lives, PlayerType
  <2> DEFINE l == log[n]
             L == LivingUsers
             after == AfterRestart(n)
  <2>5. after = CheckAndRecover(files, l, snap, info)
    BY DEF AfterRestart
  <2>a. l.st.players \in Seq(ReplayPlayer) /\ l.st \in Replayed /\ (l.st.players # << >> => l.any)
    BY <2>0, <2>1 DEF LogType, Replayed, Entries
  <2>6. CASE sc # "writing"
    <3>1. l \in Covering(InRoom, pl)
      <4>1. Mirroring
        BY <2>0, <2>6 DEF Mirroring, Mirror, Following
      <4>2. Settled = InRoom
        BY <2>0, Around
      <4> QED BY <4>1, <4>2 DEF Mirroring, Mirrors
    <3> HIDE DEF l, L, after
    <3>2. \A u \in L : \E i \in 1..Len(l.st.players) :
             l.st.players[i].user = u /\ Lives(l.st.players[i])
      BY <2>4, <3>1 DEF Covering, L
    <3>3. l.st.players # << >>
      <4>1. PICK u \in L : TRUE
        BY <2>3 DEF L
      <4>2. PICK i \in 1..Len(l.st.players) : TRUE
        BY <3>2, <4>1
      <4> QED BY <4>2
    <3>4. /\ l \in LogType /\ ~l.ended /\ 2 <= Cardinality(L)
      BY <2>1, <2>2, <2>3 DEF l, L
    <3>5. L \subseteq MayReturn(after.files, after.info)
      BY <2>1, <2>2, <2>5, <2>a, <3>2, <3>3, <3>4, PlayersRecovered
    <3> QED BY <3>5 DEF L, after
  <2>7. CASE sc = "writing"
    <3>1. /\ snap.players = Copy
          /\ Beginning(l.st.players, Joins(Copy))
      BY <2>0, <2>7 DEF Rows, InARow
    <3>2. "snap" \in files
      BY <2>0, <2>7 DEF Control
    <3>3. /\ Copy \in Seq(ReplayPlayer) /\ Len(Copy) = Len(seats)
          /\ \A i \in 1..Len(seats) : Copy[i] = Saved(seats[i])
      BY <2>0, CopyWritable DEF Copied, Types
    <3>4. \A u \in Users : /\ Saved(u).user = u /\ Saved(u).hp = pl[u].hp
                           /\ Saved(u).status = pl[u].status
      BY <2>0, SavedType DEF Types, TypeOK, PlayerOK
    <3>5. /\ seats \in Seq(Users) /\ InRoom = {seats[i] : i \in 1..Len(seats)}
      BY <2>0 DEF Types, TypeOK, InRoom, ToSet
    <3>6. /\ l \in LogType /\ ~l.ended /\ 2 <= Cardinality(L)
      BY <2>1, <2>2, <2>3
    <3>7. CASE l.st.players = << >>
      <4>1. \A u \in L : \E i \in 1..Len(Copy) : Copy[i].user = u /\ Lives(Copy[i])
        <5> SUFFICES ASSUME NEW u \in L PROVE \E i \in 1..Len(Copy) : Copy[i].user = u /\ Lives(Copy[i])
          OBVIOUS
        <5>1. PICK i \in 1..Len(seats) : seats[i] = u
          BY <2>4, <3>5
        <5>2. Saved(u).user = u /\ Lives(Saved(u))
          BY <2>4, <3>4 DEF Lives
        <5> QED BY <3>3, <5>1, <5>2
      <4> HIDE DEF l, L, after
      <4>2. L \subseteq MayReturn(after.files, after.info)
        BY <2>1, <2>2, <2>5, <3>1, <3>2, <3>3, <3>6, <3>7, <4>1, PlayersRecovered
      <4> QED BY <4>2 DEF L, after
    <3>8. CASE l.st.players # << >>
      <4> DEFINE ps == l.st.players
                 js == Joins(Copy)
      <4>1. InRoom \subseteq {ps[i].user : i \in DOMAIN ps}
        BY <3>8 DEF NotBetweenJoins
      <4>2. Len(js) = Len(Copy) /\ \A i \in 1..Len(Copy) : js[i] = Join(Copy[i].id, Copy[i].user, Copy[i])
        BY <3>3, JoinsType
      <4>3. Len(ps) <= Len(js) /\ \A i \in 1..Len(ps) : ps[i] = JoinedPlayer(js[i])
        BY <3>1 DEF Beginning
      <4>4. Len(ps) \in Nat /\ Len(js) \in Nat /\ DOMAIN ps = 1..Len(ps) /\ ps \in Seq(ReplayPlayer)
        BY <2>a, <3>3, <4>2
      <4>5. \A x, y, p : LET q == JoinedPlayer(Join(x, y, p))
                         IN  q.user = y /\ q.hp = p.hp /\ q.status = "GAMING"
        BY DEF JoinedPlayer, Join
      <4> HIDE DEF l, L, after, ps, js
      <4>6. \A u \in L : \E i \in 1..Len(ps) : ps[i].user = u /\ Lives(ps[i])
        <5> SUFFICES ASSUME NEW u \in L PROVE \E i \in 1..Len(ps) : ps[i].user = u /\ Lives(ps[i])
          OBVIOUS
        <5>1. u \in InRoom /\ u \in Users /\ Lives(pl[u])
          BY <2>4 DEF L
        <5>2. PICK i \in 1..Len(ps) : ps[i].user = u
          BY <4>1, <4>4, <5>1
        <5>3. i \in 1..Len(seats) /\ i \in 1..Len(Copy)
          BY <3>3, <4>2, <4>3, <4>4
        <5>4. ps[i] = JoinedPlayer(Join(Saved(seats[i]).id, Saved(seats[i]).user, Saved(seats[i])))
          BY <3>3, <4>2, <4>3, <5>3
        <5>5. seats[i] \in Users
          BY <3>5, <5>3
        <5>6. ps[i].user = seats[i] /\ ps[i].hp = Saved(seats[i]).hp /\ ps[i].status = "GAMING"
          BY <3>4, <4>5, <5>4, <5>5
        <5>7. ps[i].hp = pl[u].hp
          BY <3>4, <5>2, <5>5, <5>6
        <5> QED BY <5>1, <5>2, <5>6, <5>7 DEF Lives
      <4>7. ps # << >> /\ l.any /\ ps = l.st.players
        BY <2>a, <3>8 DEF ps
      <4>8. L \subseteq MayReturn(after.files, after.info)
        BY <2>1, <2>2, <2>5, <3>6, <4>4, <4>6, <4>7, PlayersRecovered
      <4> QED BY <4>8 DEF L, after
    <3> QED BY <3>7, <3>8
  <2> QED BY <2>6, <2>7
<1> QED BY <1>1, IInvAlways, PTL
=============================================================================
