----------------------------- MODULE Durability -----------------------------
(***************************************************************************)
(* One game and its files: the log the handlers and the game thread write, *)
(* the snapshot that replaces it, crashes that keep any part of what was   *)
(* not yet synced, the recovery at the next start and the players who come *)
(* back.  The main thread works through one command at a time in the steps *)
(* its locks divide it into; the game thread runs between them.            *)
(***************************************************************************)
EXTENDS WalReplay

CONSTANTS HIT,         \* INITIAL_ATK - INITIAL_DEF, also ATK_BUFF_AMOUNT
          POISON,      \* damage of one tick in the poison
          MaxTail,     \* bound: records written within one sync interval
          MaxPid,      \* bound: connections of one process
          MaxOps,      \* bound: commands and game events of a behaviour
          MaxCrashes   \* bound

ASSUME DurabilityAssumption ==
    /\ {HIT, POISON, MaxTail, MaxPid} \subseteq Nat \ {0}
    /\ {MaxOps, MaxCrashes} \subseteq Nat
    /\ Spots \subseteq Nat      \* a place is known by its distance from the centre
    /\ IsFiniteSet(Users) /\ Cardinality(Users) \in 2..MAX_ROOM_PLAYERS
    /\ Cardinality(Users) <= MaxPid

VARIABLES
    phase,     \* where the room is in its life, see Phases
    seats,     \* the users in the room, as a sequence
    pl,        \* what player_create() and the game made of each user's player
    items,     \* the MAX_MAP_ITEMS slots of the map
    radius,    \* of the safe zone
    expected,  \* room->expected_players, 0 once the wait is over
    main,      \* the command the main thread is in, and how far
    sc,        \* the game thread in snapshot_save()
    todo,      \* records a thread still has to write before it syncs
    nextPid,   \* next_player_id
    files,     \* which of the three files exist
    log,       \* the log: what it replays to up to the last sync, and up to
               \* each of the records written since
    snap,      \* content of the snapshot
    info,      \* content of the .recovery file
    torn,      \* history: does the log fail to follow the game, see Torn
    revived,   \* history: a finished game came back from its old .recovery file
    ops, crashes

mem == <<seats, pl, items, radius, expected, main, sc, todo, nextPid>>
disk == <<files, log, snap, info>>
hist == <<torn, revived>>
vars == <<phase, mem, disk, hist, ops, crashes>>

Phases == {"waiting", "starting", "running", "ended", "walGone", "snapGone",
           "over", "down", "none", "creating", "recovered", "gone"}

InRoom == ToSet(seats)
Alive(u) == pl[u].status = "GAMING" /\ pl[u].hp > 0
LivingUsers == {u \in InRoom : Alive(u)}

Fresh(pid) == [pid |-> pid, hp |-> INITIAL_HP, status |-> "LOBBY", pos |-> 0,
               buff |-> FALSE, shield |-> FALSE, inv |-> << >>]
NoItem == [pos |-> 0, type |-> NONE, active |-> FALSE]
NoItems == [i \in 1..MAX_MAP_ITEMS |-> NoItem]
Idle == [pc |-> "idle"]
NoTodo == [by |-> "none", recs |-> << >>]

\* The five slots of an inventory as snapshot_save() and PLAYER_JOIN hold them.
Raw(inv) == [k \in Slots |-> IF k <= Len(inv) THEN inv[k] ELSE NONE]

Saved(u) == [id |-> pl[u].pid, user |-> u, pos |-> pl[u].pos, hp |-> pl[u].hp,
             buff |-> pl[u].buff, shield |-> pl[u].shield, status |-> pl[u].status,
             inv |-> Raw(pl[u].inv), cnt |-> Len(pl[u].inv)]

Joins(players) == [i \in DOMAIN players |-> Join(players[i].id, players[i].user, players[i])]
Spawns(table) == [i \in DOMAIN OnTheMap(table) |-> ItemSpawn(OnTheMap(table)[i])]

(***************************************************************************)
(* The log.  wal_write() syncs when the last sync is a second old: it may  *)
(* or may not, and must once MaxTail records wait.  A crash keeps what was *)
(* synced and any number of the records since; of each such cut we keep    *)
(* what recovery would read in it.                                         *)
(***************************************************************************)
WalSync == log' = <<Last(log)>>

WriteSynced(r) == log' = <<Feed(Last(log), r)>>

WalWrite(r) ==
    \/ /\ Len(log) <= MaxTail
       /\ log' = Append(log, Feed(Last(log), r))
    \/ WriteSynced(r)

\* Truncated, or closed and deleted and created anew.
NewLog == log' = <<EmptyLog>>

KeepLog == UNCHANGED log

Count == /\ ops < MaxOps
         /\ ops' = ops + 1

\* History.  The log need not follow the game ("yes") once a command ran while a
\* snapshot was taken, or two players of the log have one id (a process numbers its
\* connections from 1 and the log still has the ids of the process before), or the
\* poison killed a player who is coming back before his record was written.  A
\* snapshot taken between commands mends it when the log is truncated ("mending"
\* until then).
Torn == {"no", "mending", "yes"}
Marks == /\ torn' = IF sc # "idle" THEN "yes" ELSE torn
         /\ UNCHANGED revived
Clash(players) == \E i, j \in DOMAIN players : i # j /\ players[i].id = players[j].id

-----------------------------------------------------------------------------
Init ==
    /\ phase = "waiting"
    /\ seats = SetToSeq(Users)
    /\ \E pid \in [Users -> 1..Cardinality(Users)] :
          /\ \A u, v \in Users : u # v => pid[u] # pid[v]
          /\ pl = [u \in Users |-> Fresh(pid[u])]
    /\ items = NoItems /\ radius = InitialRadius /\ expected = 0
    /\ main = Idle /\ sc = "idle" /\ todo = NoTodo
    /\ nextPid = Cardinality(Users) + 1
    /\ files = {} /\ log = <<EmptyLog>> /\ snap = Blank /\ info = NoInfo
    /\ torn = "no" /\ revived = FALSE /\ ops = 0 /\ crashes = 0

(***************************************************************************)
(* room_start_game(): the first item point gets an item of some type, the  *)
(* players a place each; their records are written one by one.             *)
(***************************************************************************)
StartGame ==
    /\ phase = "waiting"
    /\ \E place \in [Users -> Spots], type \in ItemType :
          /\ items' = [NoItems EXCEPT ![1] = [pos |-> 0, type |-> type, active |-> TRUE]]
          /\ pl' = [u \in Users |-> [pl[u] EXCEPT !.pos = place[u], !.status = "GAMING"]]
    /\ todo' = [by |-> "main",
                recs |-> <<GameStart>>
                         \o [i \in DOMAIN seats |->
                               Join(pl[seats[i]].pid, seats[i],
                                    [Saved(seats[i]) EXCEPT !.pos = pl'[seats[i]].pos])]
                         \o Spawns(items')]
    /\ phase' = "starting"
    /\ files' = files \cup {"wal"}
    /\ UNCHANGED <<seats, radius, expected, main, sc, nextPid, log, snap, info,
                   hist, ops, crashes>>

\* The next of the records snapshot_save(), room_start_game() or
\* recovery_create_room_for_game() writes in a row.
WriteNext ==
    /\ todo.recs # << >>
    /\ WalWrite(Head(todo.recs))
    /\ todo' = [todo EXCEPT !.recs = Tail(@)]
    /\ UNCHANGED <<phase, seats, pl, items, radius, expected, main, sc, nextPid,
                   files, snap, info, hist, ops, crashes>>

\* The wal_sync() after the last of them.
FinishWrites ==
    /\ todo.by # "none" /\ todo.recs = << >>
    /\ WalSync
    /\ todo' = NoTodo
    /\ phase' = CASE phase = "starting" -> "running"
                  [] phase = "creating" -> "recovered"
                  [] OTHER -> phase
    /\ sc' = "idle"
    /\ UNCHANGED <<seats, pl, items, radius, expected, main, nextPid,
                   files, snap, info, hist, ops, crashes>>

-----------------------------------------------------------------------------
(***************************************************************************)
(* Commands of the players, handled by the main thread.                    *)
(***************************************************************************)
Ready(u) == /\ phase = "running" /\ main.pc = "idle"
            /\ u \in InRoom /\ Alive(u)
            /\ Count

\* The record is written before the position changes.
MoveBegin(u, to) ==
    /\ Ready(u) /\ to # pl[u].pos
    /\ WalWrite(Move(pl[u].pid, to))
    /\ main' = [pc |-> "move", u |-> u, to |-> to]
    /\ Marks
    /\ UNCHANGED <<phase, seats, pl, items, radius, expected, sc, todo, nextPid,
                   files, snap, info, crashes>>

\* The position, then game_check_item_pickup() up to the record.
MoveEnd ==
    /\ main.pc = "move" /\ phase \in {"running", "ended"}
    /\ pl' = [pl EXCEPT ![main.u].pos = main.to]
    /\ LET n == IF Len(pl[main.u].inv) < MAX_INVENTORY THEN ItemAt(items, main.to) ELSE 0
       IN  IF n = 0
           THEN /\ main' = Idle
                /\ KeepLog /\ UNCHANGED items
           ELSE /\ items' = TakeFrom(items, n)
                /\ WalWrite(Pickup(pl[main.u].pid, items[n].type, main.to))
                /\ main' = [pc |-> "pickup", u |-> main.u, item |-> items[n].type]
    /\ Marks
    /\ UNCHANGED <<phase, seats, radius, expected, sc, todo, nextPid,
                   files, snap, info, ops, crashes>>

\* player_add_item()
AddItem ==
    /\ main.pc = "pickup" /\ phase \in {"running", "ended"}
    /\ pl' = [pl EXCEPT ![main.u].inv = Append(@, main.item)]
    /\ main' = Idle
    /\ Marks /\ KeepLog
    /\ UNCHANGED <<phase, seats, items, radius, expected, sc, todo, nextPid,
                   files, snap, info, ops, crashes>>

\* player_use_item(): taken out of the inventory ...
UseTake(u, idx) ==
    /\ Ready(u) /\ idx \in DOMAIN pl[u].inv
    /\ pl' = [pl EXCEPT ![u].inv = RemoveAt(@, idx)]
    /\ main' = [pc |-> "used", u |-> u, item |-> pl[u].inv[idx], idx |-> idx]
    /\ Marks /\ KeepLog
    /\ UNCHANGED <<phase, seats, items, radius, expected, sc, todo, nextPid,
                   files, snap, info, crashes>>

\* ... recorded ...
UseLog ==
    /\ main.pc = "used" /\ phase \in {"running", "ended"}
    /\ WalWrite(UseItem(pl[main.u].pid, main.item, main.idx))
    /\ main' = [main EXCEPT !.pc = "effect"]
    /\ Marks
    /\ UNCHANGED <<phase, seats, pl, items, radius, expected, sc, todo, nextPid,
                   files, snap, info, ops, crashes>>

\* ... and its effect, on whatever the player is by then.
UseEffect ==
    /\ main.pc = "effect" /\ phase \in {"running", "ended"}
    /\ pl' = [pl EXCEPT ![main.u] = Effect(@, main.item)]
    /\ main' = Idle
    /\ Marks /\ KeepLog
    /\ UNCHANGED <<phase, seats, items, radius, expected, sc, todo, nextPid,
                   files, snap, info, ops, crashes>>

\* A blow with its record; a player's death is looked at after the broadcast
\* that releases the locks.
Attack(u, v) ==
    /\ Ready(u) /\ v \in InRoom \ {u} /\ Alive(v)
    /\ LET damage == IF pl[u].buff THEN 2 * HIT ELSE HIT
           hp == IF pl[v].shield THEN pl[v].hp ELSE pl[v].hp - damage
       IN  /\ pl' = [pl EXCEPT ![v].hp = hp, ![v].shield = FALSE]
           /\ WalWrite(Damage(pl[v].pid, hp, pl[v].shield))
           /\ main' = IF pl[v].shield THEN Idle ELSE [pc |-> "hit", u |-> v]
    /\ Marks
    /\ UNCHANGED <<phase, seats, items, radius, expected, sc, todo, nextPid,
                   files, snap, info, crashes>>

AttackDeath ==
    /\ main.pc = "hit" /\ phase \in {"running", "ended"}
    /\ IF pl[main.u].hp <= 0
       THEN /\ pl' = [pl EXCEPT ![main.u].hp = 0, ![main.u].status = "DEAD"]
            /\ WalWrite(Death(pl[main.u].pid))
       ELSE KeepLog /\ UNCHANGED pl
    /\ main' = Idle
    /\ Marks
    /\ UNCHANGED <<phase, seats, items, radius, expected, sc, todo, nextPid,
                   files, snap, info, ops, crashes>>

\* A connection is closed.  No record is written; the last one out destroys the
\* room with its log and its snapshot.
Leave(u) ==
    /\ phase = "running" /\ main.pc = "idle" /\ u \in InRoom
    /\ Count
    /\ seats' = RemoveFirst(seats, u)
    /\ pl' = [pl EXCEPT ![u] = Fresh(0)]
    /\ IF seats' = << >>
       THEN /\ phase' = "gone"
            /\ files' = files \ {"wal", "snap"}
            /\ NewLog /\ snap' = Blank
            /\ sc' = "idle" /\ todo' = NoTodo
       ELSE KeepLog /\ UNCHANGED <<phase, files, snap, sc, todo>>
    /\ Marks
    /\ UNCHANGED <<items, radius, expected, main, nextPid, info, crashes>>

-----------------------------------------------------------------------------
(***************************************************************************)
(* The game thread.                                                        *)
(***************************************************************************)
Tick == /\ phase = "running"
        /\ sc = "idle"
        /\ Count

\* game_update_buffs(): the end of a buff is not recorded.
BuffExpires(u) ==
    /\ Tick /\ u \in InRoom /\ pl[u].buff
    /\ pl' = [pl EXCEPT ![u].buff = FALSE]
    /\ KeepLog
    /\ UNCHANGED <<phase, seats, items, radius, expected, main, sc, todo, nextPid,
                   files, snap, info, hist, crashes>>

\* Mutant of Shrink: down to nothing.
ShrinkToNothing ==
    /\ Tick /\ radius > 0
    /\ radius' = radius - 1
    /\ WalWrite(PoisonShrink(radius - 1))
    /\ UNCHANGED <<phase, seats, pl, items, expected, main, sc, todo, nextPid,
                   files, snap, info, hist, crashes>>

\* game_update_poison()
Shrink ==
    /\ Tick /\ radius > 1
    /\ radius' = radius - 1
    /\ WalWrite(PoisonShrink(radius - 1))
    /\ UNCHANGED <<phase, seats, pl, items, expected, main, sc, todo, nextPid,
                   files, snap, info, hist, crashes>>

\* Mutant of PoisonHurts: a death by the poison is not recorded either.
PoisonHurtsUnrecorded(u) ==
    /\ Tick /\ u \in InRoom /\ Alive(u) /\ pl[u].pos > radius
    /\ pl' = IF pl[u].hp > POISON THEN [pl EXCEPT ![u].hp = @ - POISON]
             ELSE [pl EXCEPT ![u].hp = 0, ![u].status = "DEAD"]
    /\ KeepLog
    /\ UNCHANGED <<phase, seats, items, radius, expected, main, sc, todo, nextPid,
                   files, snap, info, hist, crashes>>

\* game_apply_poison_damage(): the loss of hit points is not recorded, a death is.
PoisonHurts(u) ==
    /\ Tick /\ u \in InRoom /\ Alive(u) /\ pl[u].pos > radius
    /\ IF pl[u].hp > POISON
       THEN /\ pl' = [pl EXCEPT ![u].hp = @ - POISON]
            /\ KeepLog
       ELSE /\ pl' = [pl EXCEPT ![u].hp = 0, ![u].status = "DEAD"]
            /\ WalWrite(Death(pl[u].pid))
    /\ UNCHANGED <<phase, seats, items, radius, expected, main, sc, todo, nextPid,
                   files, snap, info, hist, crashes>>

\* game_spawn_items(): the first free slot.
SpawnItem(pos, type) ==
    /\ Tick
    /\ LET n == SelectInSeq(items, LAMBDA i : ~i.active)
           item == [pos |-> pos, type |-> type, active |-> TRUE]
       IN  /\ n # 0
           /\ items' = [items EXCEPT ![n] = item]
           /\ WalWrite(ItemSpawn(item))
    /\ UNCHANGED <<phase, seats, pl, radius, expected, main, sc, todo, nextPid,
                   files, snap, info, hist, crashes>>

\* Mutant of SnapshotCollect: the temporary file is not renamed, the log is
\* truncated all the same.
SnapshotNotRenamed ==
    /\ Tick
    /\ snap' = [players |-> [i \in DOMAIN seats |-> Saved(seats[i])],
                radius |-> radius, items |-> items]
    /\ sc' = "collected"
    /\ torn' = IF main.pc # "idle" THEN "yes" ELSE IF torn = "no" THEN "no" ELSE "mending"
    /\ revived' = FALSE
    /\ KeepLog
    /\ UNCHANGED <<phase, seats, pl, items, radius, expected, main, todo, nextPid,
                   files, info, crashes>>

(***************************************************************************)
(* snapshot_save(): room and players are copied, written and renamed over  *)
(* the old snapshot; then the log is truncated; then the copy is written   *)
(* into it.                                                                *)
(***************************************************************************)
SnapshotCollect ==
    /\ Tick
    /\ snap' = [players |-> [i \in DOMAIN seats |-> Saved(seats[i])],
                radius |-> radius, items |-> items]
    /\ files' = files \cup {"snap"}
    /\ sc' = "collected"
    /\ torn' = IF main.pc # "idle" THEN "yes" ELSE IF torn = "no" THEN "no" ELSE "mending"
    /\ revived' = FALSE
    /\ KeepLog
    /\ UNCHANGED <<phase, seats, pl, items, radius, expected, main, todo, nextPid,
                   info, crashes>>

SnapshotTruncate ==
    /\ phase = "running" /\ sc = "collected"
    /\ NewLog
    /\ todo' = [by |-> "game",
                recs |-> <<Checkpoint>> \o Joins(snap.players) \o Spawns(snap.items)]
    /\ sc' = "writing"
    /\ torn' = IF torn = "mending" THEN "no" ELSE torn
    /\ UNCHANGED <<phase, seats, pl, items, radius, expected, main, nextPid,
                   files, snap, info, revived, ops, crashes>>

\* game_check_end(): all expected players are back, or the 30 s are over.
WaitOver ==
    /\ phase = "running" /\ sc = "idle" /\ expected > 0
    /\ expected' = 0
    /\ UNCHANGED <<phase, seats, pl, items, radius, main, sc, todo, nextPid,
                   disk, hist, ops, crashes>>

\* game_check_end() and room_end_game() up to the sync of GAME_END: at most one
\* player is left.  The end by GAME_MAX_DURATION takes the same steps.
EndGame ==
    /\ phase = "running" /\ sc = "idle" /\ expected = 0
    /\ Cardinality(LivingUsers) <= 1
    /\ phase' = "ended"
    /\ WriteSynced(GameEnd)
    /\ UNCHANGED <<mem, files, snap, info, hist, ops, crashes>>

\* The rest of room_end_game(), one file after the other.
DeleteWal ==
    /\ phase = "ended"
    /\ phase' = "walGone"
    /\ files' = files \ {"wal"}
    /\ NewLog
    /\ UNCHANGED <<mem, snap, info, hist, ops, crashes>>

DeleteSnapshot ==
    /\ phase = "walGone"
    /\ phase' = "snapGone"
    /\ files' = files \ {"snap"}
    /\ snap' = Blank
    /\ UNCHANGED <<mem, log, info, hist, ops, crashes>>

\* Mutant of DeleteRecovery: the .recovery file is forgotten.
KeepRecovery ==
    /\ phase = "snapGone"
    /\ phase' = "over"
    /\ UNCHANGED <<mem, disk, hist, ops, crashes>>


DeleteRecovery ==
    /\ phase = "snapGone"
    /\ phase' = "over"
    /\ files' = files \ {"recovery"}
    /\ info' = NoInfo
    /\ UNCHANGED <<mem, log, snap, hist, ops, crashes>>

-----------------------------------------------------------------------------
(***************************************************************************)
(* The process ends, by a crash or by graceful_shutdown(), which leaves    *)
(* the files as they are: what was synced remains, and any number of the   *)
(* records written since.                                                  *)
(***************************************************************************)
Crash ==
    /\ phase \notin {"waiting", "down"}
    /\ crashes < MaxCrashes
    /\ crashes' = crashes + 1
    /\ \E n \in DOMAIN log : log' = <<log[n]>>
    /\ phase' = "down"
    /\ seats' = << >> /\ pl' = [u \in Users |-> Fresh(0)]
    /\ items' = NoItems /\ radius' = InitialRadius /\ expected' = 0
    /\ main' = Idle /\ sc' = "idle" /\ todo' = NoTodo /\ nextPid' = 1
    /\ torn' = "no"
    /\ UNCHANGED <<files, snap, info, revived, ops>>

\* recovery_check_and_recover() before the first connection.
Boot ==
    /\ phase = "down"
    /\ LET after == CheckAndRecover(files, log[1], snap, info)
       IN  /\ files' = after.files
           /\ info' = after.info
           /\ log' = IF "wal" \in after.files THEN log ELSE <<EmptyLog>>
           /\ snap' = IF "snap" \in after.files THEN snap ELSE Blank
    /\ revived' = ({"wal", "recovery"} \subseteq files /\ log[1].ended)
    /\ phase' = "none"
    /\ UNCHANGED <<mem, torn, ops, crashes>>

\* What a .recovery file says of a user who is alive in it.
Record(u) == info.players[SelectInSeq(info.players, LAMBDA p : p.user = u /\ Lives(p))]

\* handler_login() of a user with a game to return to.  Some connections may
\* have come before his.  The first to return has the room made and its log
\* begun anew, recovery_create_room_for_game().
Login(u, pid) ==
    /\ phase \in {"none", "running"} /\ main.pc = "idle"
    /\ u \notin InRoom /\ u \in MayReturn(files, info)
    /\ pid >= nextPid
    /\ nextPid' = pid + 1
    /\ main' = [pc |-> "seat", u |-> u, pid |-> pid]
    /\ IF phase = "running"
       THEN /\ Marks
            /\ UNCHANGED <<phase, items, radius, expected, files, log, todo>>
       ELSE LET living == Picked(info.players, {p \in ToSet(info.players) : Lives(p)})
            IN  /\ phase' = "creating"
                /\ items' = [i \in 1..MAX_MAP_ITEMS |->
                               IF i <= Len(info.items) THEN info.items[i] ELSE NoItem]
                /\ radius' = info.radius
                /\ expected' = Cardinality(Living(info))
                /\ files' = files \cup {"wal"}
                /\ NewLog
                /\ todo' = [by |-> "main",
                            recs |-> <<GameStart>> \o Joins(living) \o Spawns(info.items)
                                     \o <<PoisonShrink(info.radius)>>]
                /\ torn' = IF Clash(living) THEN "yes" ELSE "no"
                /\ UNCHANGED revived
    /\ UNCHANGED <<seats, pl, sc, snap, info, ops, crashes>>

\* recovery_restore_player_to_game(): the slot ...
Seat ==
    /\ main.pc = "seat" /\ phase \in {"recovered", "running"}
    /\ seats' = Append(seats, main.u)
    /\ pl' = [pl EXCEPT ![main.u] = Fresh(main.pid)]
    /\ main' = [main EXCEPT !.pc = "state"]
    /\ Marks
    /\ UNCHANGED <<phase, items, radius, expected, sc, todo, nextPid,
                   disk, ops, crashes>>

\* ... the state ...
Restore ==
    /\ main.pc = "state" /\ phase \in {"recovered", "running"}
    /\ LET r == Record(main.u)
           held == Picked([k \in 1..r.cnt |-> r.inv[k]], ItemType)
       IN  pl' = [pl EXCEPT ![main.u] =
                    [@ EXCEPT !.hp = r.hp, !.status = "GAMING", !.pos = r.pos,
                              !.buff = r.buff, !.shield = r.shield, !.inv = held]]
    /\ main' = [main EXCEPT !.pc = "record"]
    /\ Marks
    /\ UNCHANGED <<phase, seats, items, radius, expected, sc, todo, nextPid,
                   disk, ops, crashes>>

\* ... its record, with the five slots of the file, the game thread, and the end
\* of the .recovery file once all are back.
RestoreRecord ==
    /\ main.pc = "record" /\ phase \in {"recovered", "running"}
    /\ WriteSynced(Join(main.pid, main.u, Record(main.u)))
    /\ main' = Idle
    /\ phase' = "running"
    /\ LET allBack == expected > 0 /\ Len(seats) >= expected
       IN  /\ files' = IF allBack THEN files \ {"recovery"} ELSE files
           /\ info' = IF allBack THEN NoInfo ELSE info
    /\ torn' = IF sc # "idle" \/ Clash(log'[1].st.players) \/ ~Alive(main.u) THEN "yes" ELSE torn
    /\ UNCHANGED revived
    /\ UNCHANGED <<seats, pl, items, radius, expected, sc, todo, nextPid,
                   snap, ops, crashes>>

Commands ==
    \/ \E u \in Users : \/ \E to \in Spots : MoveBegin(u, to)
                        \/ \E idx \in Slots : UseTake(u, idx)
                        \/ \E v \in Users : Attack(u, v)
                        \/ Leave(u)
                        \/ \E pid \in 1..MaxPid : Login(u, pid)
    \/ MoveEnd \/ AddItem \/ UseLog \/ UseEffect \/ AttackDeath
    \/ Seat \/ Restore \/ RestoreRecord

GameThread ==
    \/ \E u \in Users : BuffExpires(u) \/ PoisonHurts(u)
    \/ Shrink
    \/ \E pos \in Spots, type \in ItemType : SpawnItem(pos, type)
    \/ SnapshotCollect \/ SnapshotTruncate
    \/ WaitOver \/ EndGame \/ DeleteWal \/ DeleteSnapshot \/ DeleteRecovery

Next == \/ StartGame \/ WriteNext \/ FinishWrites
        \/ Commands \/ GameThread
        \/ Crash \/ Boot

Spec == Init /\ [][Next]_vars

-----------------------------------------------------------------------------
PlayerType ==
    [pid : 0..MaxPid, hp : Int, status : {"LOBBY", "GAMING", "DEAD"}, pos : Spots \cup {0},
     buff : BOOLEAN, shield : BOOLEAN, inv : Seq(ItemType)]
ItemsType == [pos : Spots \cup {0}, type : {NONE} \cup ItemType, active : BOOLEAN]

\* The types of the memory of the process, and the bounds the code keeps them
\* in: a full inventory takes no further item, the zone never vanishes.
TypeOK ==
    /\ phase \in Phases
    /\ seats \in Seq(Users) /\ IsInjective(seats)
    /\ pl \in [Users -> PlayerType]
    /\ \A u \in Users : pl[u].hp <= INITIAL_HP /\ Len(pl[u].inv) <= MAX_INVENTORY
    /\ items \in [1..MAX_MAP_ITEMS -> ItemsType]
    /\ radius \in 1..InitialRadius
    /\ expected \in 0..MAX_ROOM_PLAYERS
    /\ nextPid \in 1..MaxPid + 1
    /\ files \subseteq {"wal", "snap", "recovery"}
    /\ torn \in Torn /\ revived \in BOOLEAN

\* The disk as the next start would find it if the process ended now with the
\* log cut at its n-th place, and as that start would leave it.
AfterRestart(n) == CheckAndRecover(files, log[n], snap, info)

\* The log is not cut between the PLAYER_JOIN records of a row of them.
NotBetweenJoins(st) ==
    \/ st.players = << >>
    \/ InRoom \subseteq {st.players[i].user : i \in DOMAIN st.players}

\* Whoever is alive in a running game that is still open is offered a return to
\* it after a crash, wherever the crash cuts the log: unless a command ran while
\* the last snapshot was taken, two players of the log got one id, or the cut falls
\* between the PLAYER_JOIN records of a snapshot.
TheLivingComeBack ==
    phase = "running" /\ main.pc = "idle" /\ torn = "no" /\ Cardinality(LivingUsers) >= 2 =>
        \A n \in DOMAIN log :
            LET st == log[n].st
            IN  NotBetweenJoins(st) =>
                    LET after == AfterRestart(n)
                    IN  LivingUsers \subseteq MayReturn(after.files, after.info)

Quiet == phase = "running" /\ main.pc = "idle" /\ sc = "idle" /\ torn = "no"

InLog(st, u) == st.players[FindUserIndex(st, u)]

\* How many items lie at a place.
Lying(table, pos) == Cardinality({i \in DOMAIN table : table[i].active /\ table[i].pos = pos})

\* Between commands the log replays to the game in memory: places, shields,
\* inventories (as long as nobody came back from a crash: see README), who is
\* alive, and how many items lie where as long as the table of the replay is not
\* full.  (Which ones may differ: the game picks up the first of its slots, which
\* a later item may have got, the replay the oldest.)  The replayed hit points are never fewer than the player has: damage by
\* the poison is not recorded.
LogMirrorsGame ==
    Quiet =>
        LET st == Last(log).st
        IN  /\ \A u \in InRoom :
                  LET p == InLog(st, u)
                  IN  /\ p.pos = pl[u].pos
                      /\ p.shield = pl[u].shield
                      /\ Alive(u) => Lives(p) /\ p.hp >= pl[u].hp
                      /\ crashes = 0 => pl[u].inv = [k \in 1..p.cnt |-> p.inv[k]]
            /\ Len(st.items) < MAX_MAP_ITEMS =>
                 \A pos \in Spots : Lying(st.items, pos) = Lying(items, pos)

\* Between commands, who died with no hit points left is dead in the log.  (A
\* potion taken before the death and applied after it leaves a dead player with
\* hit points, and the next snapshot records him as a living one.)
TheDeadStayDead ==
    Quiet =>
        LET st == Last(log).st
        IN  \A u \in InRoom : pl[u].status = "DEAD" /\ pl[u].hp = 0 => ~Lives(InLog(st, u))

\* A crash never brings the poison closer: the zone a game is recovered with is
\* at least the one it was left with, at every step and wherever the log is cut;
\* but for a finished game that came back, whose snapshot is of its later days.
PoisonNeverCloser ==
    phase \in {"starting", "running", "creating", "recovered"} /\ ~revived =>
        \A n \in DOMAIN log :
            LET after == AfterRestart(n)
            IN  "recovery" \in after.files => after.info.radius >= radius

\* What recovery_create_room_for_game() begins the log anew for ("so that the
\* latest state can be restored after consecutive crashes", recovery.c:1340):
\* while the recovered game waits for the players of the .recovery file, another
\* crash takes the way back from none of them.  The snapshot of the first tick
\* breaks it: it rewrites the log with those who are back already.
ConsecutiveCrashes ==
    phase = "running" /\ main.pc = "idle" /\ sc = "idle" /\ expected > 0 =>
        \A n \in DOMAIN log :
            MayReturn(files, info) \subseteq
                MayReturn(AfterRestart(n).files, AfterRestart(n).info)

\* Once room_end_game() is through, no restart offers the game again.
FinishedStaysFinished ==
    phase = "over" => MayReturn(AfterRestart(1).files, AfterRestart(1).info) = {}

=============================================================================
