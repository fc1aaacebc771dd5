----------------------------- MODULE GoRecovery -----------------------------
(***************************************************************************)
(* What the Go server keeps of a game, asciigame-go/internal/server:       *)
(* wal.go, snapshot.go, recovery.go, and the game loop that uses them.     *)
(* After a restart the games in the logs wait for their players, who are   *)
(* put back one by one when their connections come in.                     *)
(*                                                                         *)
(* An action is what one hold of a lock covers, or one record written.     *)
(* A log is represented by what replayWAL() makes of it: who is in it,     *)
(* under which player id, and alive or not.  "logged" includes what is     *)
(* still in the writer's buffer, "disk" does not: a crash loses the        *)
(* difference.                                                             *)
(*                                                                         *)
(* Left out: the JSON snapshot, which nothing reads back; records torn by  *)
(* the crash; places, poison, the items but for the potion, and hit points *)
(* above zero; readiness (GoLobby has it); the limit of rooms.             *)
(***************************************************************************)
EXTENDS Integers, FiniteSets

CONSTANTS Users,           \* bound: each has one session per run of the server
          MaxRoom,         \* bound: the ids of rooms, and of their logs
          MaxCrashes,      \* bound
          MinRoomPlayers, MaxRoomPlayers

ASSUME GoRecoveryAssumption ==
    /\ IsFiniteSet(Users) /\ MaxRoom \in Nat /\ MaxCrashes \in Nat
    /\ MinRoomPlayers \in Nat \ {0} /\ MaxRoomPlayers \in Nat
    /\ MinRoomPlayers <= MaxRoomPlayers

RoomIds == 1..MaxRoom
None == 0                  \* no room, no player id

VARIABLES
    files, disk, logged,                    \* the logs, by room id
    nextRoomID, nextPlayerID,
    status, roomID, hp, id,                 \* of each user's player
    rooms, seats, playerCount, roomStatus,  \* of each room; a player may have two seats
    isRecovery, expected, originalRoomID,
    wal,                                    \* "open", and "held" if only snapshotSave() has it
    fresh,                                  \* lastSnapshotTime is 0
    loop,                                   \* the thread that runs each game
    pending, recByUser, recRoomByOrig,      \* the recovery registry
    restore,                                \* restorePlayerToGame() of each user
    potion,                                 \* handleUseItem() of each user
    extra,                                  \* the game loops begun by refused starts
    crashes,                                \* history: restarts
    strays,          \* history: users put back into a game that was over, or seated twice
    absent,          \* history: users whose return no log knows yet
    missed,          \* history: users of whom a snapshot has written what was over
    revived,         \* history: users who died with a potion in their hands
    overdue,         \* history: rooms no longer waiting, because of the time
    finished,        \* history: logs whose game endGame() ended, and nobody began anew
    seedings         \* history: how many rooms have seeded each log since the restart

fileVars == <<files, disk, logged>>
idVars == <<nextRoomID, nextPlayerID>>
playerVars == <<status, roomID, hp, id>>
waitVars == <<isRecovery, expected, originalRoomID>>
roomVars == <<rooms, seats, playerCount, roomStatus>>
recVars == <<pending, recByUser, recRoomByOrig>>
sideVars == <<potion, extra, revived>>
history == <<strays, absent, missed, overdue, finished, seedings>>
vars == <<fileVars, idVars, playerVars, roomVars, waitVars, wal, fresh, loop, recVars,
          restore, sideVars, crashes, history>>

\* hollow: who has joined without hit points, which leaves his status GAMING
LogType == [records : BOOLEAN, over : BOOLEAN, ids : [Users -> Nat],
            alive : SUBSET Users, hollow : SUBSET Users]
LoopType == [pc : {"none", "log", "top", "tick", "collect", "rewrite", "judge", "end", "reset"},
             todo : SUBSET Users, seen : SUBSET Users, living : SUBSET Users]
NoLog == [records |-> FALSE, over |-> FALSE, ids |-> [u \in Users |-> None],
          alive |-> {}, hollow |-> {}]
NoLoop == [pc |-> "none", todo |-> {}, seen |-> {}, living |-> {}]
NoPotion == [pc |-> "none", r |-> None]
\* pc: "runs", and "ends" from the first endGame(); todo: whom these have collected
NoExtra == [pc |-> "none", todo |-> {}]
doubled == {r \in RoomIds : extra[r].pc # "none"}
NoGame == [ids |-> [u \in Users |-> None], alive |-> {}]

\* Every variable has its type, and no room counts more players than its limit.
TypeOK ==
    /\ files \subseteq RoomIds
    /\ disk \in [RoomIds -> LogType] /\ logged \in [RoomIds -> LogType]
    /\ nextRoomID \in 1..(MaxRoom + 1) /\ nextPlayerID \in Nat
    /\ status \in [Users -> {"off", "lobby", "in_room", "gaming", "dead"}]
    /\ roomID \in [Users -> RoomIds \cup {None}] /\ hp \in [Users -> {0, 1}]
    /\ id \in [Users -> Nat]
    /\ rooms \subseteq RoomIds /\ seats \in [RoomIds -> [Users -> Nat]]
    /\ playerCount \in [RoomIds -> Int] /\ \A r \in RoomIds : playerCount[r] <= MaxRoomPlayers
    /\ roomStatus \in [RoomIds -> {"waiting", "gaming", "ended"}]
    /\ isRecovery \in [RoomIds -> BOOLEAN] /\ expected \in [RoomIds -> Nat]
    /\ originalRoomID \in [RoomIds -> RoomIds \cup {None}]
    /\ wal \in [RoomIds -> {"none", "open", "held"}] /\ fresh \in [RoomIds -> BOOLEAN]
    /\ loop \in [RoomIds -> LoopType]
    /\ pending \in [RoomIds -> [ids : [Users -> Nat], alive : SUBSET Users]]
    /\ recByUser \in [Users -> RoomIds \cup {None}]
    /\ recRoomByOrig \in [RoomIds -> RoomIds \cup {None}]
    /\ restore \in [Users -> [pc : {"none", "seed", "seat", "fields"}, r : RoomIds \cup {None}]]
    /\ potion \in [Users -> [pc : {"drink", "log"}, r : RoomIds] \cup {NoPotion}]
    /\ extra \in [RoomIds -> [pc : {"none", "runs", "ends"}, todo : SUBSET Users]]
    /\ crashes \in 0..MaxCrashes /\ revived \subseteq Users
    /\ strays \subseteq Users /\ absent \subseteq Users /\ missed \subseteq Users
    /\ overdue \subseteq RoomIds /\ finished \subseteq RoomIds /\ seedings \in [RoomIds -> Nat]

-----------------------------------------------------------------------------
(***************************************************************************)
(* The log: replayWAL(), and the writer.                                   *)
(***************************************************************************)
Marked(l) == [l EXCEPT !.records = TRUE]             \* GAME_START, CHECKPOINT
Joined(l, u, i, living) ==                            \* PLAYER_JOIN, keyed by the name
    [l EXCEPT !.records = TRUE, !.ids[u] = i,
              !.alive = IF living THEN @ \cup {u} ELSE @ \ {u},
              !.hollow = IF living THEN @ \ {u} ELSE @ \cup {u}]
Killed(l, i) ==                                       \* PLAYER_DEATH, keyed by the id
    [l EXCEPT !.alive = {u \in @ : l.ids[u] # i}, !.hollow = {u \in @ : l.ids[u] # i}]
Healed(l, i) ==                                       \* USE_ITEM: the status is not looked at
    [l EXCEPT !.alive = @ \cup {u \in l.hollow : l.ids[u] = i},
              !.hollow = {u \in @ : l.ids[u] # i}]
Ended(l) == [l EXCEPT !.records = TRUE, !.over = TRUE]         \* GAME_END

File(r) == IF originalRoomID[r] = None THEN r ELSE originalRoomID[r]

\* What is written to a log that was deleted is lost.
Written(f, l) == IF f \in files THEN [logged EXCEPT ![f] = l] ELSE logged
Write(f, l) ==             \* a record may be the one that is a second after the last sync
    /\ logged' = Written(f, l)
    /\ \/ UNCHANGED disk
       \/ f \in files /\ disk' = [disk EXCEPT ![f] = l]
WriteAndSync(f, l) ==
    /\ logged' = Written(f, l)
    /\ disk' = [disk EXCEPT ![f] = logged'[f]]
Sync(f) == WriteAndSync(f, logged[f])
\* walDeleteForRoom()
Delete(f) ==
    /\ files' = files \ {f}
    /\ disk' = [disk EXCEPT ![f] = NoLog] /\ logged' = [logged EXCEPT ![f] = NoLog]

Recoverable(f) ==
    f \in files /\ disk[f].records /\ ~disk[f].over /\ Cardinality(disk[f].alive) > 1
Dropped(f) ==
    f \in files /\ (disk[f].over \/ (disk[f].records /\ Cardinality(disk[f].alive) <= 1))

-----------------------------------------------------------------------------
Members(r) == {u \in Users : seats[r][u] > 0}
InAnyRoom(u) == \E r \in RoomIds : u \in Members(r)
HasSlot(r) == playerCount[r] < MaxRoomPlayers     \* as many seats are taken as counted
SitDown(u, r) ==
    /\ seats' = [seats EXCEPT ![r][u] = @ + 1]
    /\ playerCount' = [playerCount EXCEPT ![r] = @ + 1]

Init ==
    /\ files = {} /\ disk = [f \in RoomIds |-> NoLog] /\ logged = disk
    /\ nextRoomID = 1 /\ nextPlayerID = 1
    /\ status = [u \in Users |-> "off"] /\ roomID = [u \in Users |-> None]
    /\ hp = [u \in Users |-> 1] /\ id = [u \in Users |-> None]
    /\ rooms = {} /\ seats = [r \in RoomIds |-> [u \in Users |-> 0]]
    /\ playerCount = [r \in RoomIds |-> 0] /\ roomStatus = [r \in RoomIds |-> "waiting"]
    /\ isRecovery = [r \in RoomIds |-> FALSE] /\ expected = [r \in RoomIds |-> 0]
    /\ originalRoomID = [r \in RoomIds |-> None]
    /\ wal = [r \in RoomIds |-> "none"] /\ fresh = [r \in RoomIds |-> TRUE]
    /\ loop = [r \in RoomIds |-> NoLoop]
    /\ pending = [f \in RoomIds |-> NoGame] /\ recByUser = [u \in Users |-> None]
    /\ recRoomByOrig = [f \in RoomIds |-> None]
    /\ restore = [u \in Users |-> [pc |-> "none", r |-> None]]
    /\ potion = [u \in Users |-> NoPotion] /\ extra = [r \in RoomIds |-> NoExtra]
    /\ crashes = 0 /\ revived = {}
    /\ strays = {} /\ absent = {} /\ missed = {} /\ overdue = {} /\ finished = {} 
    /\ seedings = [f \in RoomIds |-> 0]

-----------------------------------------------------------------------------
(***************************************************************************)
(* The crash, and RecoverAll() before the server listens again.            *)
(***************************************************************************)
\* The logs are read in the order of their names, where room_10 comes before
\* room_2: any order of two ids may occur.  A user in several of them is
\* expected in the one read last.
Restart ==
    /\ crashes < MaxCrashes /\ crashes' = crashes + 1
    /\ LET kept == files \ {f \in files : Dropped(f)} IN
        /\ files' = kept
        /\ disk' = [f \in RoomIds |-> IF f \in kept THEN disk[f] ELSE NoLog]
        /\ logged' = disk'
    /\ \E n \in files \cup {0} : (\A f \in files : f <= n) /\ nextRoomID' = n + 1
    /\ nextPlayerID' = 1
    /\ pending' = [f \in RoomIds |-> IF Recoverable(f)
                     THEN [ids |-> disk[f].ids, alive |-> disk[f].alive] ELSE NoGame]
    /\ recByUser' \in [Users -> RoomIds \cup {None}]
    /\ \E rank \in [RoomIds -> RoomIds] :
        /\ \A f, g \in RoomIds : rank[f] = rank[g] => f = g
        /\ \A u \in Users : LET his == {f \in files : Recoverable(f) /\ u \in disk[f].alive} IN
              IF his = {} THEN recByUser'[u] = None
              ELSE recByUser'[u] \in his /\ \A g \in his : rank[g] <= rank[recByUser'[u]]
    /\ recRoomByOrig' = [f \in RoomIds |-> None]
    /\ status' = [u \in Users |-> "off"] /\ roomID' = [u \in Users |-> None]
    /\ hp' = [u \in Users |-> 1] /\ id' = [u \in Users |-> None]
    /\ rooms' = {} /\ seats' = [r \in RoomIds |-> [u \in Users |-> 0]]
    /\ playerCount' = [r \in RoomIds |-> 0] /\ roomStatus' = [r \in RoomIds |-> "waiting"]
    /\ isRecovery' = [r \in RoomIds |-> FALSE] /\ expected' = [r \in RoomIds |-> 0]
    /\ originalRoomID' = [r \in RoomIds |-> None]
    /\ wal' = [r \in RoomIds |-> "none"] /\ fresh' = [r \in RoomIds |-> TRUE]
    /\ loop' = [r \in RoomIds |-> NoLoop]
    /\ restore' = [u \in Users |-> [pc |-> "none", r |-> None]]
    /\ strays' = {} /\ absent' = {} /\ missed' = {} /\ overdue' = {} 
    /\ seedings' = [f \in RoomIds |-> 0]
    /\ potion' = [u \in Users |-> NoPotion] /\ extra' = [r \in RoomIds |-> NoExtra]
    /\ revived' = {}
    /\ finished' = finished \ ({f \in RoomIds : seedings[f] > 1} \cup doubled)

-----------------------------------------------------------------------------
(***************************************************************************)
(* The lobby, cut finer in GoLobby.                                        *)
(***************************************************************************)
Login(u) ==
    /\ status[u] = "off"
    /\ status' = [status EXCEPT ![u] = "lobby"]
    /\ id' = [id EXCEPT ![u] = nextPlayerID] /\ nextPlayerID' = nextPlayerID + 1
    /\ UNCHANGED <<fileVars, nextRoomID, roomID, hp, roomVars, waitVars, wal, fresh, loop, recVars,
                   restore, sideVars, crashes, history>>

Enter(u, r) ==
    /\ SitDown(u, r)
    /\ roomID' = [roomID EXCEPT ![u] = r] /\ status' = [status EXCEPT ![u] = "in_room"]
    /\ strays' = IF InAnyRoom(u) \/ restore[u].pc # "none" THEN strays \cup {u} ELSE strays

CreateRoom(u) ==
    /\ status[u] = "lobby" /\ nextRoomID <= MaxRoom
    /\ rooms' = rooms \cup {nextRoomID} /\ nextRoomID' = nextRoomID + 1
    /\ Enter(u, nextRoomID)
    /\ UNCHANGED <<fileVars, nextPlayerID, hp, id, roomStatus, waitVars, wal, fresh, loop, recVars,
                   restore, sideVars, crashes, absent, missed, overdue, finished, seedings>>

JoinRoom(u, r) ==
    /\ status[u] = "lobby" /\ r \in rooms /\ roomStatus[r] # "gaming" /\ HasSlot(r)
    /\ Enter(u, r)
    /\ UNCHANGED <<fileVars, idVars, hp, id, rooms, roomStatus, waitVars, wal, fresh, loop, recVars,
                   restore, sideVars, crashes, absent, missed, overdue, finished, seedings>>

\* removePlayer(), after a request or the loss of the connection.  The log is
\* told nothing, and destroyRoom() leaves it where it is.
Leave(u) == LET r == roomID[u] IN
    /\ r \in rooms /\ u \in Members(r)
    /\ seats' = [seats EXCEPT ![r][u] = @ - 1]
    /\ playerCount' = [playerCount EXCEPT ![r] = @ - 1]
    /\ roomID' = [roomID EXCEPT ![u] = None] /\ status' = [status EXCEPT ![u] = "lobby"]
    /\ IF playerCount'[r] > 0 THEN UNCHANGED <<fileVars, rooms, roomStatus, wal>>
       ELSE /\ rooms' = rooms \ {r} /\ roomStatus' = [roomStatus EXCEPT ![r] = "ended"]
            /\ wal' = [wal EXCEPT ![r] = "none"]
            /\ UNCHANGED files
            /\ IF wal[r] = "open" THEN Sync(File(r)) ELSE UNCHANGED <<disk, logged>>
    /\ UNCHANGED <<idVars, hp, id, waitVars, fresh, loop, recVars, restore, sideVars, crashes, history>>

-----------------------------------------------------------------------------
(***************************************************************************)
(* startGame(), and the fights.                                            *)
(***************************************************************************)
At(r, pc) == loop[r].pc = pc
Goto(r, pc) == loop' = [loop EXCEPT ![r].pc = pc]
With(r, pc, todo) == loop' = [loop EXCEPT ![r] = [NoLoop EXCEPT !.pc = pc, !.todo = todo]]

\* newWAL() and the first part of startGame(): all members are ready.  No loop of
\* the room is left when it waits, unless it has had several.
StartGame(r) ==
    /\ r \in rooms /\ roomStatus[r] = "waiting" /\ playerCount[r] >= MinRoomPlayers
    /\ At(r, "none") \/ r \in doubled
    /\ \A u \in Members(r) : status[u] = "in_room"
    /\ roomStatus' = [roomStatus EXCEPT ![r] = "gaming"]
    /\ status' = [u \in Users |-> IF u \in Members(r) THEN "gaming" ELSE status[u]]
    /\ hp' = [u \in Users |-> IF u \in Members(r) THEN 1 ELSE hp[u]]
    /\ files' = files \cup {r} /\ wal' = [wal EXCEPT ![r] = "open"]
    /\ logged' = [logged EXCEPT ![r] = Marked(@)]
    /\ disk' \in {disk, [disk EXCEPT ![r] = logged'[r]]}
    /\ With(r, "log", Members(r))
    /\ finished' = finished \ {r} /\ revived' = revived \ Members(r)
    /\ UNCHANGED <<idVars, roomID, id, rooms, seats, playerCount, waitVars, fresh, recVars,
                   restore, potion, extra, crashes, strays, absent, missed, overdue, seedings>>

LogPlayer(r, u) ==
    /\ At(r, "log") /\ u \in loop[r].todo
    /\ IF wal[r] = "open" THEN Write(r, Joined(logged[r], u, id[u], hp[u] > 0))
       ELSE UNCHANGED <<disk, logged>>
    /\ loop' = [loop EXCEPT ![r].todo = @ \ {u}]
    /\ UNCHANGED <<files, idVars, playerVars, roomVars, waitVars, wal, fresh, recVars, restore,
                   sideVars, crashes, history>>

\* The records are synced, and the game loop starts.
LogDone(r) ==
    /\ At(r, "log") /\ loop[r].todo = {}
    /\ IF wal[r] = "open" THEN Sync(r) ELSE UNCHANGED <<disk, logged>>
    /\ Goto(r, "top")
    /\ UNCHANGED <<files, idVars, playerVars, roomVars, waitVars, wal, fresh, recVars, restore,
                   sideVars, crashes, history>>

\* Mutant of Die: the death is not logged.
DieUnlogged(u, r) ==
    /\ u \in Members(r) /\ status[u] = "gaming" /\ hp[u] > 0
    /\ \/ At(r, "tick")
       \/ \E a \in Users \ {u} : status[a] = "gaming" /\ roomID[a] = r /\ r \in rooms
    /\ status' = [status EXCEPT ![u] = "dead"] /\ hp' = [hp EXCEPT ![u] = 0]
    /\ revived' = IF potion[u].pc = "none" THEN revived ELSE revived \cup {u}
    /\ UNCHANGED <<fileVars, idVars, roomID, id, roomVars, waitVars, wal, fresh, loop, recVars, restore,
                   potion, extra, crashes, history>>

\* By poison or a blow.  The record names the player by his id of today.  Who has
\* a potion in his hands will drink it all the same.
Die(u, r) ==
    /\ u \in Members(r) /\ status[u] = "gaming" /\ hp[u] > 0
    /\ \/ At(r, "tick")
       \/ \E a \in Users \ {u} : status[a] = "gaming" /\ roomID[a] = r /\ r \in rooms
    /\ status' = [status EXCEPT ![u] = "dead"] /\ hp' = [hp EXCEPT ![u] = 0]
    /\ IF wal[r] = "open" THEN Write(File(r), Killed(logged[File(r)], id[u]))
       ELSE UNCHANGED <<disk, logged>>
    /\ revived' = IF potion[u].pc = "none" THEN revived ELSE revived \cup {u}
    /\ UNCHANGED <<files, idVars, roomID, id, roomVars, waitVars, wal, fresh, loop, recVars, restore,
                   potion, extra, crashes, history>>

\* handleUseItemCmd(), and the potion taken out of the inventory.
Drink(u) ==
    /\ potion[u].pc = "none" /\ status[u] = "gaming" /\ roomID[u] \in rooms
    /\ potion' = [potion EXCEPT ![u] = [pc |-> "drink", r |-> roomID[u]]]
    /\ UNCHANGED <<fileVars, idVars, playerVars, roomVars, waitVars, wal, fresh, loop, recVars, restore,
                   extra, revived, crashes, history>>

\* Race: he may be dead by now, or out of the room.
Heal(u) ==
    /\ potion[u].pc = "drink"
    /\ hp' = [hp EXCEPT ![u] = 1]
    /\ potion' = [potion EXCEPT ![u].pc = "log"]
    /\ UNCHANGED <<fileVars, idVars, status, roomID, id, roomVars, waitVars, wal, fresh, loop, recVars,
                   restore, extra, revived, crashes, history>>

LogPotion(u) == LET r == potion[u].r IN
    /\ potion[u].pc = "log"
    /\ IF wal[r] = "open" THEN Write(File(r), Healed(logged[File(r)], id[u]))
       ELSE UNCHANGED <<disk, logged>>
    /\ potion' = [potion EXCEPT ![u] = NoPotion]
    /\ UNCHANGED <<files, idVars, playerVars, roomVars, waitVars, wal, fresh, loop, recVars, restore,
                   extra, revived, crashes, history>>

-----------------------------------------------------------------------------
(***************************************************************************)
(* gameLoop(), snapshotSave(), checkEnd(), endGame().                      *)
(***************************************************************************)
Tick(r) ==
    /\ At(r, "top")
    /\ IF roomStatus[r] = "gaming" THEN Goto(r, "tick") ELSE Goto(r, "none")
    /\ UNCHANGED <<fileVars, idVars, playerVars, roomVars, waitVars, wal, fresh, recVars, restore,
                   sideVars, crashes, history>>

\* The first tick of every game saves a snapshot; then one is due every 20 s.
Snapshot(r) ==
    /\ At(r, "tick") /\ roomStatus[r] = "gaming"
    /\ With(r, "collect", Members(r))
    /\ UNCHANGED <<fileVars, idVars, playerVars, roomVars, waitVars, wal, fresh, recVars, restore,
                   sideVars, crashes, history>>

NoSnapshot(r) ==
    /\ At(r, "tick") /\ (fresh[r] => roomStatus[r] # "gaming")
    /\ Goto(r, "judge")
    /\ UNCHANGED <<fileVars, idVars, playerVars, roomVars, waitVars, wal, fresh, recVars, restore,
                   sideVars, crashes, history>>

Collect(r, u) ==
    /\ At(r, "collect") /\ u \in loop[r].todo
    /\ loop' = [loop EXCEPT ![r].todo = @ \ {u}, ![r].seen = @ \cup {u},
                            ![r].living = IF hp[u] > 0 THEN @ \cup {u} ELSE @]
    /\ UNCHANGED <<fileVars, idVars, playerVars, roomVars, waitVars, wal, fresh, recVars, restore,
                   sideVars, crashes, history>>

\* The CHECKPOINT is written too.  A room destroyed meanwhile has closed the
\* log: it is opened again.
Truncate(r) == LET f == File(r) IN
    /\ At(r, "collect") /\ loop[r].todo = {}
    /\ files' = files \cup {f}
    /\ logged' = [logged EXCEPT ![f] = Marked(NoLog)]
    /\ \E l \in {NoLog, Marked(NoLog)} : disk' = [disk EXCEPT ![f] = l]
    /\ wal' = [wal EXCEPT ![r] = IF @ = "none" THEN "held" ELSE @]
    /\ fresh' = [fresh EXCEPT ![r] = FALSE]
    /\ loop' = [loop EXCEPT ![r].pc = "rewrite", ![r].todo = loop[r].seen]
    /\ absent' = absent \ (loop[r].seen \cap Members(r))
    /\ UNCHANGED <<idVars, playerVars, roomVars, waitVars, recVars, restore, sideVars, crashes, strays, missed,
                   overdue, finished, seedings>>

Rewrite(r, u) == LET f == File(r) IN
    /\ At(r, "rewrite") /\ u \in loop[r].todo
    /\ IF wal[r] = "none" THEN UNCHANGED <<disk, logged>>
       ELSE Write(f, Joined(logged[f], u, id[u], u \in loop[r].living))
    /\ loop' = [loop EXCEPT ![r].todo = @ \ {u}]
    /\ missed' = IF u \notin Members(r) THEN missed
                 ELSE IF (u \in loop[r].living) = (hp[u] > 0) THEN missed \ {u} ELSE missed \cup {u}
    /\ UNCHANGED <<files, idVars, playerVars, roomVars, waitVars, wal, fresh, recVars, restore,
                   sideVars, crashes, strays, absent, overdue, finished, seedings>>

\* Mutant of SnapshotDone: what was written is not synced.
SnapshotLeft(r) ==
    /\ At(r, "rewrite") /\ loop[r].todo = {}
    /\ With(r, "judge", {})
    /\ UNCHANGED <<fileVars, idVars, playerVars, roomVars, waitVars, wal, fresh, recVars, restore,
                   sideVars, crashes, history>>

SnapshotDone(r) ==
    /\ At(r, "rewrite") /\ loop[r].todo = {}
    /\ IF wal[r] = "none" THEN UNCHANGED <<disk, logged>> ELSE Sync(File(r))
    /\ With(r, "judge", {})
    /\ UNCHANGED <<files, idVars, playerVars, roomVars, waitVars, wal, fresh, recVars, restore,
                   sideVars, crashes, history>>

Alive(r) == {u \in Members(r) : status[u] = "gaming" /\ hp[u] > 0}
Verdict(r) == Goto(r, IF Cardinality(Alive(r)) >= 2 THEN "top" ELSE "end")
Waits(r) == isRecovery[r] /\ expected[r] > 0
NoLongerWaits(r) ==
    /\ isRecovery' = [isRecovery EXCEPT ![r] = FALSE]
    /\ expected' = [expected EXCEPT ![r] = 0]

\* checkEnd(): GameMaxDuration and RecoveryWaitTime may be over at any time.
CheckEnd(r) ==
    /\ At(r, "judge")
    /\ \/ Goto(r, "end") /\ overdue' = overdue \cup {r} /\ UNCHANGED waitVars
       \/ Waits(r) /\ playerCount[r] < expected[r] /\ Goto(r, "top") /\ UNCHANGED <<waitVars, overdue>>
       \/ /\ Waits(r) /\ playerCount[r] < expected[r] /\ overdue' = overdue \cup {r}
          /\ NoLongerWaits(r) /\ Verdict(r) /\ UNCHANGED originalRoomID
       \/ /\ Waits(r) /\ playerCount[r] >= expected[r]
          /\ NoLongerWaits(r) /\ Verdict(r) /\ UNCHANGED <<originalRoomID, overdue>>
       \/ ~Waits(r) /\ Verdict(r) /\ UNCHANGED <<waitVars, overdue>>
    /\ UNCHANGED <<fileVars, idVars, playerVars, roomVars, wal, fresh, recVars, restore, sideVars, crashes,
                   strays, absent, missed, finished, seedings>>

\* Mutant of EndGame: GAME_END stays in the buffer.
EndGameUnsynced(r) == LET f == File(r) IN
    /\ At(r, "end")
    /\ roomStatus' = [roomStatus EXCEPT ![r] = "ended"]
    /\ IF wal[r] = "open" THEN Write(f, Ended(logged[f])) /\ finished' = finished \cup {f}
       ELSE UNCHANGED <<disk, logged, finished>>
    /\ With(r, "reset", Members(r))
    /\ UNCHANGED <<files, idVars, playerVars, rooms, seats, playerCount, waitVars, wal, fresh, recVars,
                   restore, sideVars, crashes, strays, absent, missed, overdue, seedings>>

\* Mutant of EndGame: only the living are collected.
EndGameLiving(r) == LET f == File(r) IN
    /\ At(r, "end")
    /\ roomStatus' = [roomStatus EXCEPT ![r] = "ended"]
    /\ IF wal[r] = "open" THEN WriteAndSync(f, Ended(logged[f])) /\ finished' = finished \cup {f}
       ELSE UNCHANGED <<disk, logged, finished>>
    /\ With(r, "reset", Alive(r))
    /\ UNCHANGED <<files, idVars, playerVars, rooms, seats, playerCount, waitVars, wal, fresh, recVars,
                   restore, sideVars, crashes, strays, absent, missed, overdue, seedings>>

EndGame(r) == LET f == File(r) IN
    /\ At(r, "end")
    /\ roomStatus' = [roomStatus EXCEPT ![r] = "ended"]
    /\ IF wal[r] = "open" THEN WriteAndSync(f, Ended(logged[f])) /\ finished' = finished \cup {f}
       ELSE UNCHANGED <<disk, logged, finished>>
    /\ With(r, "reset", Members(r))
    /\ UNCHANGED <<files, idVars, playerVars, rooms, seats, playerCount, waitVars, wal, fresh, recVars,
                   restore, sideVars, crashes, strays, absent, missed, overdue, seedings>>

ResetPlayer(r, u) ==
    /\ At(r, "reset") /\ u \in loop[r].todo
    /\ status' = [status EXCEPT ![u] = "in_room"] /\ hp' = [hp EXCEPT ![u] = 1]
    /\ loop' = [loop EXCEPT ![r].todo = @ \ {u}]
    /\ strays' = IF roomID[u] # r THEN strays \cup {u} ELSE strays
    /\ UNCHANGED <<fileVars, idVars, roomID, id, roomVars, waitVars, wal, fresh, recVars, restore,
                   sideVars, crashes, absent, missed, overdue, finished, seedings>>

\* The files go even if the room was destroyed, which has closed the log.
CloseGame(r) ==
    /\ At(r, "reset") /\ loop[r].todo = {}
    /\ roomStatus' = [roomStatus EXCEPT ![r] = "waiting"]
    /\ wal' = [wal EXCEPT ![r] = "none"] /\ Delete(File(r))
    /\ NoLongerWaits(r) /\ originalRoomID' = [originalRoomID EXCEPT ![r] = None]
    /\ fresh' = [fresh EXCEPT ![r] = TRUE]
    /\ With(r, "none", {})
    /\ overdue' = overdue \ {r}
    /\ UNCHANGED <<idVars, playerVars, rooms, seats, playerCount, recVars, restore, sideVars, crashes, strays,
                   absent, missed, finished, seedings>>

-----------------------------------------------------------------------------
(***************************************************************************)
(* Two requests may both find everybody ready.  startGame() refuses the    *)
(* second, but httpReady() has replaced the log's writer by then and runs  *)
(* another gameLoop() all the same.  The loops of such a room, but for the *)
(* one the last startGame() began, are not followed one by one: from then  *)
(* on, whatever a loop may do may happen at any time, and as two writers   *)
(* write to one file, each where it is, what is in it is left open.        *)
(***************************************************************************)
\* What the first writer had in its buffer is lost.  In a recovered room nobody is
\* ready before its game is over; the new log is not the one it was recovered from.
RefusedStart(r) ==
    /\ r \in rooms \/ roomStatus[r] = "ended"
    /\ roomStatus[r] # "waiting" \/ playerCount[r] < MinRoomPlayers
    /\ originalRoomID[r] # None => roomStatus[r] = "ended"
    /\ files' = files \cup {r} /\ logged' = [logged EXCEPT ![r] = disk[r]]
    /\ wal' = [wal EXCEPT ![r] = IF originalRoomID[r] = None THEN "open" ELSE "none"]
    /\ extra' = [extra EXCEPT ![r].pc = IF @ = "none" THEN "runs" ELSE @]
    /\ UNCHANGED <<disk, idVars, playerVars, roomVars, waitVars, fresh, loop, recVars, restore,
                   potion, revived, crashes, history>>

Extra(r) == r \in doubled /\ originalRoomID[r] = None

\* The loop finds that another has set running to FALSE.
LoopStops(r) ==
    /\ Extra(r) /\ At(r, "top") /\ Goto(r, "none")
    /\ UNCHANGED <<fileVars, idVars, playerVars, roomVars, waitVars, wal, fresh, recVars, restore,
                   sideVars, crashes, history>>

\* A snapshot, or a part of one: it makes the file again if it was deleted.
ExtraSnapshot(r) ==
    /\ Extra(r)
    /\ files' = files \cup {r}
    /\ \E over \in BOOLEAN, known \in SUBSET {u \in Users : status[u] # "off"} :
        \E living \in SUBSET known :
            logged' = [logged EXCEPT ![r] =
                [records |-> over \/ known # {}, over |-> over, alive |-> living, hollow |-> known \ living,
                 ids |-> [u \in Users |-> IF u \in known THEN id[u] ELSE None]]]
    /\ disk' \in {disk, [disk EXCEPT ![r] = logged'[r]]}
    /\ fresh' = [fresh EXCEPT ![r] = FALSE]
    /\ UNCHANGED <<idVars, playerVars, roomVars, waitVars, wal, loop, recVars, restore, sideVars,
                   crashes, history>>

\* endGame(), whose verdict may be about the game before.
ExtraEnd(r) ==
    /\ Extra(r)
    /\ roomStatus' = [roomStatus EXCEPT ![r] = "ended"]
    /\ IF wal[r] = "open" THEN WriteAndSync(r, Ended(logged[r])) ELSE UNCHANGED <<disk, logged>>
    /\ extra' = [extra EXCEPT ![r] = [pc |-> "ends", todo |-> @.todo \cup Members(r)]]
    /\ UNCHANGED <<files, idVars, playerVars, rooms, seats, playerCount, waitVars, wal, fresh, loop,
                   recVars, restore, potion, revived, crashes, history>>

ExtraReset(r, u) ==
    /\ Extra(r) /\ u \in extra[r].todo
    /\ status' = [status EXCEPT ![u] = "in_room"] /\ hp' = [hp EXCEPT ![u] = 1]
    /\ strays' = IF roomID[u] # r THEN strays \cup {u} ELSE strays
    /\ UNCHANGED <<fileVars, idVars, roomID, id, roomVars, waitVars, wal, fresh, loop, recVars, restore,
                   sideVars, crashes, absent, missed, overdue, finished, seedings>>

ExtraClose(r) ==
    /\ Extra(r) /\ extra[r].pc = "ends"
    /\ roomStatus' = [roomStatus EXCEPT ![r] = "waiting"]
    /\ wal' = [wal EXCEPT ![r] = "none"] /\ Delete(r)
    /\ fresh' = [fresh EXCEPT ![r] = TRUE]
    /\ UNCHANGED <<idVars, playerVars, rooms, seats, playerCount, waitVars, loop, recVars, restore,
                   sideVars, crashes, history>>

-----------------------------------------------------------------------------
(***************************************************************************)
(* restorePlayerToGame(), by the goroutine of the user's connection.       *)
(***************************************************************************)
RestoreAt(u, pc) == restore[u].pc = pc
\* recMu is held from the lookup until the entry is deleted.
RecFree == \A u \in Users : restore[u].pc # "seed"
LiveRoom(o) == recRoomByOrig[o]
HasLiveRoom(o) == LiveRoom(o) # None /\ LiveRoom(o) \in rooms
Wanted(u) ==
    /\ status[u] # "off" /\ RestoreAt(u, "none") /\ RecFree
    /\ recByUser[u] # None /\ u \in pending[recByUser[u]].alive

\* Mutant of Consume: the game's entry goes with the first of its players.
ConsumeGame(u, o, r) ==
    /\ recByUser' = [recByUser EXCEPT ![u] = None]
    /\ pending' = [pending EXCEPT ![o] = NoGame]
    /\ recRoomByOrig' = [recRoomByOrig EXCEPT ![o] = None]
    /\ restore' = [restore EXCEPT ![u] = [pc |-> "seat", r |-> r]]

\* The entry is deleted, and with the last one the game's.
Consume(u, o, r) ==
    /\ recByUser' = [recByUser EXCEPT ![u] = None]
    /\ IF \A v \in pending[o].alive : recByUser'[v] = None
       THEN /\ pending' = [pending EXCEPT ![o] = NoGame]
            /\ recRoomByOrig' = [recRoomByOrig EXCEPT ![o] = None]
       ELSE /\ recRoomByOrig' = [recRoomByOrig EXCEPT ![o] = r]
            /\ UNCHANGED pending
    /\ restore' = [restore EXCEPT ![u] = [pc |-> "seat", r |-> r]]

Rejoin(u) == LET o == recByUser[u] IN
    /\ Wanted(u) /\ HasLiveRoom(o)
    /\ Consume(u, o, LiveRoom(o))
    /\ UNCHANGED <<fileVars, idVars, playerVars, roomVars, waitVars, wal, fresh, loop, sideVars, crashes, history>>

Seed(g) == [records |-> TRUE, over |-> FALSE, ids |-> g.ids, alive |-> g.alive, hollow |-> {}]

\* createRecoveryRoom(): the log is deleted and written anew, with the ids of
\* the players of before.
Reopen(u) == LET o == recByUser[u]  r == nextRoomID IN
    /\ Wanted(u) /\ ~HasLiveRoom(o) /\ r <= MaxRoom
    /\ rooms' = rooms \cup {r} /\ nextRoomID' = r + 1
    /\ roomStatus' = [roomStatus EXCEPT ![r] = "gaming"]
    /\ isRecovery' = [isRecovery EXCEPT ![r] = TRUE]
    /\ expected' = [expected EXCEPT ![r] = Cardinality(pending[o].alive)]
    /\ originalRoomID' = [originalRoomID EXCEPT ![r] = o]
    /\ files' = files \cup {o} /\ wal' = [wal EXCEPT ![r] = "open"]
    /\ logged' = [logged EXCEPT ![o] = Seed(pending[o])]
    /\ \/ disk' = [disk EXCEPT ![o] = NoLog]
       \/ \E part \in SUBSET pending[o].alive :
             disk' = [disk EXCEPT ![o] = [Seed(pending[o]) EXCEPT !.alive = part]]
    /\ restore' = [restore EXCEPT ![u] = [pc |-> "seed", r |-> r]]
    /\ finished' = finished \ {o} /\ seedings' = [seedings EXCEPT ![o] = @ + 1]
    /\ UNCHANGED <<nextPlayerID, playerVars, seats, playerCount, fresh, loop, recVars, sideVars, crashes,
                   strays, absent, missed, overdue>>

Seeded(u) == LET o == recByUser[u]  r == restore[u].r IN
    /\ RestoreAt(u, "seed")
    /\ Sync(o) /\ With(r, "top", {})
    /\ Consume(u, o, r)
    /\ UNCHANGED <<files, idVars, playerVars, roomVars, waitVars, wal, fresh, sideVars, crashes, history>>

SeatBack(u) == LET r == restore[u].r IN
    /\ RestoreAt(u, "seat") /\ HasSlot(r)
    /\ SitDown(u, r)
    /\ restore' = [restore EXCEPT ![u].pc = "fields"]
    /\ strays' = IF InAnyRoom(u) THEN strays \cup {u} ELSE strays
    /\ UNCHANGED <<fileVars, idVars, playerVars, rooms, roomStatus, waitVars, wal, fresh, loop, recVars,
                   sideVars, crashes, absent, missed, overdue, finished, seedings>>

NoSeatBack(u) ==
    /\ RestoreAt(u, "seat") /\ ~HasSlot(restore[u].r)
    /\ restore' = [restore EXCEPT ![u] = [pc |-> "none", r |-> None]]
    /\ UNCHANGED <<fileVars, idVars, playerVars, roomVars, waitVars, wal, fresh, loop, recVars,
                   sideVars, crashes, history>>

\* Race: the game is over by now, or he has joined a room meanwhile.
FieldsBack(u) == LET r == restore[u].r IN
    /\ RestoreAt(u, "fields")
    /\ roomID' = [roomID EXCEPT ![u] = r] /\ status' = [status EXCEPT ![u] = "gaming"]
    /\ hp' = [hp EXCEPT ![u] = 1]
    /\ restore' = [restore EXCEPT ![u] = [pc |-> "none", r |-> None]]
    /\ absent' = absent \cup {u}
    /\ strays' = IF roomStatus[r] # "gaming" \/ status[u] # "lobby" THEN strays \cup {u} ELSE strays
    /\ UNCHANGED <<fileVars, idVars, id, roomVars, waitVars, wal, fresh, loop, recVars, sideVars, crashes,
                   missed, overdue, finished, seedings>>

-----------------------------------------------------------------------------
GameLoop(r) ==
    \/ StartGame(r) \/ LogDone(r) \/ Tick(r) \/ Snapshot(r) \/ NoSnapshot(r) \/ Truncate(r)
    \/ SnapshotDone(r) \/ CheckEnd(r) \/ EndGame(r) \/ CloseGame(r)
    \/ \E u \in Users : \/ LogPlayer(r, u) \/ Collect(r, u) \/ Rewrite(r, u) \/ ResetPlayer(r, u)
                        \/ Die(u, r)

ExtraLoops(r) ==
    \/ RefusedStart(r) \/ LoopStops(r) \/ ExtraSnapshot(r) \/ ExtraEnd(r) \/ ExtraClose(r)
    \/ \E u \in Users : ExtraReset(r, u)

Potion(u) == Drink(u) \/ Heal(u) \/ LogPotion(u)

Connection(u) ==
    \/ Login(u) \/ CreateRoom(u) \/ Leave(u) \/ \E r \in RoomIds : JoinRoom(u, r)
    \/ Rejoin(u) \/ Reopen(u) \/ Seeded(u) \/ SeatBack(u) \/ NoSeatBack(u) \/ FieldsBack(u)

Next ==
    \/ Restart
    \/ \E u \in Users : Connection(u) \/ Potion(u)
    \/ \E r \in RoomIds : GameLoop(r) \/ ExtraLoops(r)

Spec == Init /\ [][Next]_vars

-----------------------------------------------------------------------------
(***************************************************************************)
(* Properties.                                                             *)
(***************************************************************************)
\* Every entry of recByUser leads to a pending game its user survives in, until he
\* himself is back, whoever comes back before him, in whatever game
\* (recovery.go:148-195).  NoSeatBack() may still leave him outside.
EntriesLead == \A u \in Users : recByUser[u] # None => u \in pending[recByUser[u]].alive

\* A game that endGame() has ended is not recovered, wherever the crash comes,
\* unless a player who came too late has taken it up again, or a refused start has
\* given its room a second loop (game.go:468-532, recovery.go:93-135).
EndedStayEnded == \A f \in finished \ doubled : seedings[f] <= 1 => ~Recoverable(f)

\* The living are in the log: a player alive in a game is alive in what a crash
\* would leave of it, unless a snapshot is being made, none has been made since he
\* came back, or a refused start has given the room a second loop; the death of
\* somebody else does not reach him, although ids are given anew after a restart
\* (room.go:285-317, snapshot.go:78-141).
Quiet(r) == roomStatus[r] = "gaming" /\ wal[r] = "open" /\ loop[r].pc \in {"top", "tick", "collect", "judge", "end"}
LivingAreKept ==
    \A r \in rooms \ doubled : Quiet(r) /\ seedings[File(r)] <= 1 =>
        Alive(r) \ (strays \cup absent \cup missed) \subseteq disk[File(r)].alive

\* The dead are not: once the log is synced, a player who has died in a game is
\* dead in it, unless a snapshot read him alive before he died and wrote that
\* down after, he had a potion in his hands, or the room has a second loop
\* (snapshot.go:95-141).
DeathsAreKept ==
    \A r \in rooms \ doubled :
        Quiet(r) /\ ~At(r, "collect") /\ seedings[File(r)] <= 1 /\ disk[File(r)] = logged[File(r)] =>
        \A u \in Members(r) \ (strays \cup absent \cup missed \cup revived) :
            status[u] = "dead" => u \notin disk[File(r)].alive

\* Who is in a game sits in a room whose game is on or just ending, or that has had
\* a refused start: with these and the late returns marked above, nothing that
\* happens to a game here strands a player.  StartGame and Leave are one step each:
\* what strands him between their halves is GoLobby's (recovery.go:196-236).
GamersHaveAGame ==
    \A u \in Users \ strays : status[u] \in {"gaming", "dead"} =>
        /\ roomID[u] \in rooms /\ u \in Members(roomID[u])
        /\ \/ roomStatus[roomID[u]] = "gaming"
           \/ At(roomID[u], "reset") /\ u \in loop[roomID[u]].todo
           \/ roomID[u] \in doubled

\* recovery.go:271: "so repeated crashes still work": while a game waits for its
\* players, those who have not come back are alive in its log, but for the
\* moment a snapshot is written.
RepeatedCrashes ==
    \A u \in Users : recByUser[u] # None /\ HasLiveRoom(recByUser[u]) /\ isRecovery[LiveRoom(recByUser[u])] =>
        \/ At(LiveRoom(recByUser[u]), "rewrite")
        \/ u \in disk[recByUser[u]].alive

\* game.go:332: "don't judge a winner until the expected players reconnect or
\* the wait window elapses": nobody is still being put back when the game ends
\* although time is not up.
NoEarlyWinner ==
    \A r \in rooms : At(r, "end") /\ r \notin overdue =>
        \A u \in Members(r) : ~(RestoreAt(u, "fields") /\ restore[u].r = r)
=============================================================================
