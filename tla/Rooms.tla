------------------------------- MODULE Rooms -------------------------------
(***************************************************************************)
(* Connections, lobby, rooms and game threads of the C server              *)
(* (src/server/main.c, handler.c, room.c, game.c, player.c).               *)
(*                                                                         *)
(* One main thread serves the epoll loop and runs the handler of one       *)
(* command at a time; every started game has a detached game thread.  A    *)
(* handler is split where it lets go of the last lock and the game thread  *)
(* can act in between.  Combat is reduced to who dies and when; what a     *)
(* blow does to the hit points is the subject of module Combat.            *)
(*                                                                         *)
(* A room is the memory block of its Room structure.  free() leaves the    *)
(* contents in place until calloc() hands the block out again: a thread    *)
(* that still holds the pointer goes on with whatever the block contains.  *)
(* File operations and memory allocations succeed.                         *)
(***************************************************************************)
EXTENDS Naturals, FiniteSets

CONSTANTS
    Players,      \* connections; a disconnected one may come back with a new id
    Users,        \* registered user names
    Rooms,        \* memory blocks a Room can live in
    Threads,      \* bound on the game threads alive at a time
    MaxRooms,     \* MAX_ROOMS, the size of the rooms[] table
    MinPlayers,   \* MIN_ROOM_PLAYERS
    MaxPlayers,   \* MAX_ROOM_PLAYERS
    None          \* room_id -1, an empty user name, a free lock, no pointer

ASSUME RoomsAssumption ==
    /\ IsFiniteSet(Players) /\ IsFiniteSet(Rooms)
    /\ MaxRooms \in Nat
    /\ MinPlayers \in Nat \ {0} /\ MaxPlayers \in Nat
    /\ None \notin Players \cup Users \cup Rooms \cup Threads

VARIABLES
    status, room_id, user,               \* the Player structures
    table,                               \* the rooms[] table
    phase, members, player_count,        \* the Room structures, by block
    max_players, running, expired,       \* expired: game_start_time is long ago
    wal, walFile,                        \* room->wal, and the file it names
    lock,                                \* holder of room->lock between steps
    main,                                \* main thread: pc, command and locals
    thr,                                 \* game threads: pc and locals
    stale                                \* threads whose room was freed under them

playerVars == <<status, room_id, user>>
roomVars   == <<table, phase, members, player_count, max_players, running, expired>>
walVars    == <<wal, walFile>>
vars       == <<playerVars, roomVars, walVars, lock, main, thr, stale>>

Idle   == [pc |-> "idle", cmd |-> None, p |-> None, r |-> None, h |-> None]
NoGame == [pc |-> "none", r |-> None, ids |-> {}]

PlayerStatus == {"disconnected", "connected", "lobby", "in_room", "ready", "gaming", "dead"}
RoomStatus   == {"waiting", "starting", "gaming", "ended"}
WalHandle    == {"null", "linked", "orphan"}
MainPc       == {"idle", "remove", "destroy", "finish", "all_ready", "wal_open", "wal_set",
                 "start", "launch", "spawn", "hit"}
ThreadPc     == {"none", "spawned", "loop", "tick", "check", "end", "reset", "close",
                 "unlink", "unlock"}

Init ==
    /\ status = [p \in Players |-> "disconnected"]
    /\ room_id = [p \in Players |-> None]
    /\ user = [p \in Players |-> None]
    /\ table = {}
    /\ phase = [r \in Rooms |-> "waiting"]
    /\ members = [r \in Rooms |-> {}]
    /\ player_count = [r \in Rooms |-> 0]
    /\ max_players = [r \in Rooms |-> MaxPlayers]
    /\ running = [r \in Rooms |-> FALSE]
    /\ expired = [r \in Rooms |-> TRUE]
    /\ wal = [r \in Rooms |-> "null"]
    /\ walFile = [r \in Rooms |-> FALSE]
    /\ lock = [r \in Rooms |-> None]
    /\ main = Idle
    /\ thr = [t \in Threads |-> NoGame]
    /\ stale = {}

-----------------------------------------------------------------------------
(* The main thread *)

\* The main thread takes the next event of the epoll loop.
MainIdle == main.pc = "idle"

\* Position and command of the main thread while it is inside a handler.
At(pc)       == main.pc = pc
Goto(pc)     == main' = [main EXCEPT !.pc = pc]
Free(r)      == lock[r] = None
GoneQuiet(p) == \A t \in Threads : p \notin thr[t].ids

\* A connection is accepted and player_create() makes its Player, with an id
\* no thread has seen before.
Connect(p) ==
    /\ MainIdle
    /\ status[p] = "disconnected"
    /\ GoneQuiet(p)
    /\ status' = [status EXCEPT ![p] = "connected"]
    /\ UNCHANGED <<room_id, user, roomVars, walVars, lock, main, thr, stale>>

\* handler_login() looks for a connection that has the name already.
UnusedInLobby(u) == \A q \in Players : user[q] = u => status[q] # "lobby"   \* mutant
Unused(u)        == \A q \in Players : user[q] # u

\* LOGIN of a registered user with the right password and no game to rejoin.
Login(p, u) ==
    /\ MainIdle
    /\ status[p] = "connected"
    /\ Unused(u)
    /\ user' = [user EXCEPT ![p] = u]
    /\ status' = [status EXCEPT ![p] = "lobby"]
    /\ UNCHANGED <<room_id, roomVars, walVars, lock, main, thr, stale>>

\* room_add_player() after its checks.
SeatNoRoomId(p, r) ==                                                       \* mutant
    /\ UNCHANGED room_id
    /\ status' = [status EXCEPT ![p] = "in_room"]

Seat(p, r) ==
    /\ room_id' = [room_id EXCEPT ![p] = r]
    /\ status' = [status EXCEPT ![p] = "in_room"]

\* CREATE_ROOM: room_create() in a zeroed block, then room_add_player(), which
\* cannot fail on the new room.
CreateRoom(p, r, n) ==
    /\ MainIdle
    /\ status[p] = "lobby"
    /\ r \notin table /\ Cardinality(table) < MaxRooms
    /\ n \in MinPlayers..MaxPlayers
    /\ table' = table \cup {r}
    /\ phase' = [phase EXCEPT ![r] = "waiting"]
    /\ members' = [members EXCEPT ![r] = {p}]
    /\ player_count' = [player_count EXCEPT ![r] = 1]
    /\ max_players' = [max_players EXCEPT ![r] = n]
    /\ running' = [running EXCEPT ![r] = FALSE]
    /\ expired' = [expired EXCEPT ![r] = TRUE]
    /\ wal' = [wal EXCEPT ![r] = "null"]
    /\ walFile' = [walFile EXCEPT ![r] = FALSE]
    /\ lock' = [lock EXCEPT ![r] = None]
    /\ Seat(p, r)
    /\ UNCHANGED <<user, main, thr, stale>>

\* The room has a free place, and a free slot.
HasSpaceOffByOne(r) == player_count[r] <= max_players[r]                    \* mutant
HasSpace(r) == /\ player_count[r] < max_players[r]
               /\ Cardinality(members[r]) < MaxPlayers

\* JOIN_ROOM: refused while a game runs and when the room is full.
JoinRoom(p, r) ==
    /\ MainIdle
    /\ status[p] = "lobby"
    /\ r \in table
    /\ Free(r)
    /\ phase[r] # "gaming"
    /\ HasSpace(r)
    /\ members' = [members EXCEPT ![r] = @ \cup {p}]
    /\ player_count' = [player_count EXCEPT ![r] = @ + 1]
    /\ Seat(p, r)
    /\ UNCHANGED <<user, table, phase, max_players, running, expired,
                   walVars, lock, main, thr, stale>>

\* LEAVE_ROOM, LOGOUT and a closed connection start here; the first needs a
\* status of at least IN_ROOM and a room that exists.
Depart(p, cmd) ==
    /\ MainIdle
    /\ status[p] # "disconnected"
    /\ cmd = "leave" => /\ status[p] \notin {"connected", "lobby"}
                        /\ room_id[p] \in table
    /\ main' = [pc |-> IF room_id[p] \in table THEN "remove" ELSE "finish",
                cmd |-> cmd, p |-> p, r |-> room_id[p], h |-> None]
    /\ UNCHANGED <<playerVars, roomVars, walVars, lock, thr, stale>>

\* The player to be removed is the last one, and the room goes with him.
LastBeforeDecrement(r) == player_count[r] = 0                               \* mutant
Last(r)                == player_count[r] - 1 = 0

\* room_remove_player() up to the release of room->lock.
Remove ==
    LET p == main.p  r == main.r IN
    /\ At("remove")
    /\ Free(r)
    /\ members' = [members EXCEPT ![r] = @ \ {p}]
    /\ player_count' = [player_count EXCEPT ![r] = @ - 1]
    /\ room_id' = [room_id EXCEPT ![p] = None]
    /\ status' = [status EXCEPT ![p] = "lobby"]
    /\ Goto(IF Last(r) THEN "destroy" ELSE "finish")
    /\ UNCHANGED <<user, table, phase, max_players, running, expired,
                   walVars, lock, thr, stale>>

\* room_destroy() of a room that became empty.  It neither stops nor joins the
\* game thread.
Destroy ==
    LET r == main.r IN
    /\ At("destroy")
    /\ table' = table \ {r}
    /\ wal' = [wal EXCEPT ![r] = "null"]
    /\ walFile' = [walFile EXCEPT ![r] = IF wal[r] = "null" THEN @ ELSE FALSE]
    /\ stale' = stale \cup {t \in Threads : thr[t].r = r}
    /\ Goto("finish")
    /\ UNCHANGED <<playerVars, phase, members, player_count, max_players,
                   running, expired, lock, thr>>

\* The rest of the command: nothing for LEAVE_ROOM, back to CONNECTED without a
\* name for LOGOUT, player_destroy() for a closed connection.
LogoutKeepsStatus(cmd, st) == IF cmd = "disconnect" THEN "disconnected" ELSE st \* mutant
StatusAfter(cmd, st) == CASE cmd = "leave" -> st
                          [] cmd = "logout" -> "connected"
                          [] cmd = "disconnect" -> "disconnected"

Finish ==
    LET p == main.p IN
    /\ At("finish")
    /\ status' = [status EXCEPT ![p] = StatusAfter(main.cmd, @)]
    /\ user' = [user EXCEPT ![p] = IF main.cmd = "leave" THEN @ ELSE None]
    /\ main' = Idle
    /\ UNCHANGED <<room_id, roomVars, walVars, lock, thr, stale>>

\* READY toggles the status under player->lock.
Ready(p) ==
    /\ MainIdle
    /\ status[p] \in {"in_room", "ready"}
    /\ room_id[p] \in table
    /\ \E t \in Threads : thr[t] = NoGame           \* bound on live threads
    /\ status' = [status EXCEPT ![p] = IF @ = "in_room" THEN "ready" ELSE "in_room"]
    /\ main' = [pc |-> "all_ready", cmd |-> "ready", p |-> p, r |-> room_id[p], h |-> None]
    /\ UNCHANGED <<room_id, user, roomVars, walVars, lock, thr, stale>>

\* room_all_ready() decides whether the game is to start.
AllReady ==
    LET r == main.r
        go == /\ player_count[r] >= MinPlayers
              /\ \A p \in members[r] : status[p] = "ready"
    IN
    /\ At("all_ready")
    /\ Free(r)
    /\ main' = IF go THEN [main EXCEPT !.pc = "wal_open"] ELSE Idle
    /\ UNCHANGED <<playerVars, roomVars, walVars, lock, thr, stale>>

\* wal_create_for_room() opens the file of the room, creating it if need be ...
WalOpen ==
    /\ At("wal_open")
    /\ walFile' = [walFile EXCEPT ![main.r] = TRUE]
    /\ main' = [main EXCEPT !.pc = "wal_set", !.h = "linked"]
    /\ UNCHANGED <<playerVars, roomVars, wal, lock, thr, stale>>

\* ... and the handler stores the handle in room->wal without a lock.
WalSet ==
    /\ At("wal_set")
    /\ wal' = [wal EXCEPT ![main.r] = main.h]
    /\ main' = [main EXCEPT !.pc = "start", !.h = None]
    /\ UNCHANGED <<playerVars, roomVars, walFile, lock, thr, stale>>

\* room_start_game() up to the first release of room->lock.  On a room that is
\* not waiting it does nothing, and the handler ignores that it failed.
StartGame ==
    LET r == main.r
        ok == phase[r] \in {"waiting", "starting"} /\ player_count[r] >= MinPlayers
    IN
    /\ At("start")
    /\ Free(r)
    /\ phase' = [phase EXCEPT ![r] = IF ok THEN "gaming" ELSE @]
    /\ expired' = [expired EXCEPT ![r] = IF ok THEN FALSE ELSE @]
    /\ Goto(IF ok THEN "launch" ELSE "spawn")
    /\ UNCHANGED <<playerVars, table, members, player_count, max_players, running,
                   walVars, lock, thr, stale>>

\* The players of the room are placed on the map and set to GAMING.
Launch ==
    /\ At("launch")
    /\ status' = [p \in Players |-> IF p \in members[main.r] THEN "gaming" ELSE status[p]]
    /\ Goto("spawn")
    /\ UNCHANGED <<room_id, user, roomVars, walVars, lock, thr, stale>>

\* pthread_create() of the game thread.
Spawn(t) ==
    /\ At("spawn")
    /\ thr[t] = NoGame
    /\ thr' = [thr EXCEPT ![t] = [NoGame EXCEPT !.pc = "spawned", !.r = main.r]]
    /\ main' = Idle
    /\ UNCHANGED <<playerVars, roomVars, walVars, lock, stale>>

\* ATTACK of a player in a game.  MOVE and USE_ITEM pass the same guard and touch
\* nothing of this module.
Attack(p) ==
    /\ MainIdle
    /\ status[p] = "gaming"
    /\ room_id[p] \in table
    /\ main' = [pc |-> "hit", cmd |-> "attack", p |-> p, r |-> room_id[p], h |-> None]
    /\ UNCHANGED <<playerVars, roomVars, walVars, lock, thr, stale>>

\* The blow kills members of the room that are alive, one slot after the other and
\* long after the handler looked at the attacker's own status.  (The hit points
\* that decide, and a blow that finds its victim put back to the room, are the
\* subject of Combat.)
Hit(v) ==
    LET r == main.r IN
    /\ At("hit")
    /\ Free(r)
    /\ v \in members[r] \ {main.p} /\ status[v] = "gaming"
    /\ status' = [status EXCEPT ![v] = "dead"]
    /\ UNCHANGED <<room_id, user, roomVars, walVars, lock, main, thr, stale>>

HitEnd ==
    /\ At("hit")
    /\ main' = Idle
    /\ UNCHANGED <<playerVars, roomVars, walVars, lock, thr, stale>>

-----------------------------------------------------------------------------
(* The game threads *)

On(t, pc)   == thr[t].pc = pc
Jump(t, pc) == thr' = [thr EXCEPT ![t].pc = pc]
ExitRunning(t) == thr' = [thr EXCEPT ![t].r = None] /\ UNCHANGED stale      \* mutant
Exit(t)     == /\ thr' = [thr EXCEPT ![t] = NoGame]
               /\ stale' = stale \ {t}

\* game_thread_func() marks itself as running.
ThreadStart(t) ==
    LET r == thr[t].r IN
    /\ On(t, "spawned")
    /\ Free(r)
    /\ running' = [running EXCEPT ![r] = TRUE]
    /\ Jump(t, "loop")
    /\ UNCHANGED <<playerVars, table, phase, members, player_count, max_players,
                   expired, walVars, lock, main, stale>>

\* The loop condition, read under room->lock.
LoopTest(t) ==
    LET r == thr[t].r IN
    /\ On(t, "loop")
    /\ Free(r)
    /\ IF running[r] /\ phase[r] = "gaming"
       THEN Jump(t, "tick") /\ UNCHANGED stale
       ELSE Exit(t)
    /\ UNCHANGED <<playerVars, roomVars, walVars, lock, main>>

\* Buffs, poison, items: the poison may kill members that are alive.
Tick(t, K) ==
    LET r == thr[t].r IN
    /\ On(t, "tick")
    /\ Free(r)
    /\ K \subseteq {p \in members[r] : status[p] = "gaming"}
    /\ status' = [p \in Players |-> IF p \in K THEN "dead" ELSE status[p]]
    /\ Jump(t, "check")
    /\ UNCHANGED <<room_id, user, roomVars, walVars, lock, main, stale>>

\* game_check_end(): time is up or at most one player is alive.  Otherwise the
\* state is broadcast and the thread sleeps until the next tick.
Alive(r)          == {p \in members[r] : status[p] = "gaming"}
GameOverByRank(r) == Cardinality(Alive(r)) <= 1                             \* mutant
GameOver(r)       == expired[r] \/ Cardinality(Alive(r)) <= 1

CheckEnd(t) ==
    LET r == thr[t].r IN
    /\ On(t, "check")
    /\ Free(r)
    /\ Jump(t, IF GameOver(r) THEN "end" ELSE "loop")
    /\ UNCHANGED <<playerVars, roomVars, walVars, lock, main, stale>>

\* room_end_game(): the room is ENDED and the ids of its players are collected;
\* the GAME_END record and the broadcast follow.
EndGame(t) ==
    LET r == thr[t].r IN
    /\ On(t, "end")
    /\ Free(r)
    /\ phase' = [phase EXCEPT ![r] = "ended"]
    /\ running' = [running EXCEPT ![r] = FALSE]
    /\ thr' = [thr EXCEPT ![t] = [pc |-> "reset", r |-> r, ids |-> members[r]]]
    /\ UNCHANGED <<playerVars, table, members, player_count, max_players, expired,
                   walVars, lock, main, stale>>

\* Each collected player that still exists is put back to IN_ROOM, wherever he
\* is by now.
Reset(t, p) ==
    /\ On(t, "reset")
    /\ p \in thr[t].ids
    /\ status' = [status EXCEPT ![p] = IF @ = "disconnected" THEN @ ELSE "in_room"]
    /\ thr' = [thr EXCEPT ![t].ids = @ \ {p}]
    /\ UNCHANGED <<room_id, user, roomVars, walVars, lock, main, stale>>

\* The room is WAITING again, its game_start_time 0; the thread keeps room->lock for the next steps.
ReopenRoom(t) ==
    LET r == thr[t].r IN
    /\ On(t, "reset") /\ thr[t].ids = {}
    /\ Free(r)
    /\ lock' = [lock EXCEPT ![r] = t]
    /\ phase' = [phase EXCEPT ![r] = "waiting"]
    /\ expired' = [expired EXCEPT ![r] = TRUE]
    /\ Jump(t, "close")
    /\ UNCHANGED <<playerVars, table, members, player_count, max_players, running,
                   walVars, main, stale>>

\* The WAL is closed and room->wal cleared, if there is one.
CloseWal(t) ==
    LET r == thr[t].r IN
    /\ On(t, "close")
    /\ wal' = [wal EXCEPT ![r] = "null"]
    /\ Jump(t, IF wal[r] = "null" THEN "unlock" ELSE "unlink")
    /\ UNCHANGED <<playerVars, roomVars, walFile, lock, main, stale>>

\* The files of the finished game are deleted; a handle opened on the file
\* before goes on with a file no path leads to.
Orphaned(h) == IF h = "linked" THEN "orphan" ELSE h

UnlinkFiles(t) ==
    LET r == thr[t].r IN
    /\ On(t, "unlink")
    /\ walFile' = [walFile EXCEPT ![r] = FALSE]
    /\ wal' = [wal EXCEPT ![r] = Orphaned(@)]
    /\ main' = IF main.r = r THEN [main EXCEPT !.h = Orphaned(@)] ELSE main
    /\ Jump(t, "unlock")
    /\ UNCHANGED <<playerVars, roomVars, lock, stale>>

\* room->lock is released and the thread ends.
NotReleased(r) == UNCHANGED lock                                            \* mutant
Released(r)    == lock' = [lock EXCEPT ![r] = None]

Unlock(t) ==
    LET r == thr[t].r IN
    /\ On(t, "unlock")
    /\ Released(r)
    /\ Exit(t)
    /\ UNCHANGED <<playerVars, roomVars, walVars, main>>

\* GAME_MAX_DURATION has passed since game_start_time.
Expire(r) ==
    /\ ~expired[r]
    /\ expired' = [expired EXCEPT ![r] = TRUE]
    /\ UNCHANGED <<playerVars, table, phase, members, player_count, max_players,
                   running, walVars, lock, main, thr, stale>>

-----------------------------------------------------------------------------
MainStep ==
    \/ Remove \/ Destroy \/ Finish
    \/ AllReady \/ WalOpen \/ WalSet \/ StartGame \/ Launch
    \/ \E t \in Threads : Spawn(t)
    \/ \E v \in Players : Hit(v)
    \/ HitEnd

Command ==
    \E p \in Players :
        \/ Connect(p)
        \/ \E u \in Users : Login(p, u)
        \/ \E r \in Rooms, n \in MinPlayers..MaxPlayers : CreateRoom(p, r, n)
        \/ \E r \in Rooms : JoinRoom(p, r)
        \/ \E cmd \in {"leave", "logout", "disconnect"} : Depart(p, cmd)
        \/ Ready(p)
        \/ Attack(p)

ThreadStep(t) ==
    \/ ThreadStart(t) \/ LoopTest(t)
    \/ \E K \in SUBSET Players : Tick(t, K)
    \/ CheckEnd(t) \/ EndGame(t)
    \/ \E p \in Players : Reset(t, p)
    \/ ReopenRoom(t) \/ CloseWal(t) \/ UnlinkFiles(t) \/ Unlock(t)

Next ==
    \/ Command
    \/ MainStep
    \/ \E t \in Threads : ThreadStep(t)
    \/ \E r \in Rooms : Expire(r)

Spec == Init /\ [][Next]_vars

\* Commands may stop coming; a handler that has begun and a game thread are
\* scheduled, and time passes.
Fairness ==
    /\ WF_vars(MainStep)
    /\ \A t \in Threads : WF_vars(ThreadStep(t))
    /\ \A r \in Rooms : WF_vars(Expire(r))

FairSpec == Spec /\ Fairness

-----------------------------------------------------------------------------
(* What holds in every interleaving *)

\* The shape of the state: player.h, room.h and the locals of the two kinds of
\* thread.
TypeOK ==
    /\ status \in [Players -> PlayerStatus]
    /\ room_id \in [Players -> Rooms \cup {None}]
    /\ user \in [Players -> Users \cup {None}]
    /\ table \in SUBSET Rooms
    /\ phase \in [Rooms -> RoomStatus]
    /\ members \in [Rooms -> SUBSET Players]
    /\ player_count \in [Rooms -> Nat]
    /\ max_players \in [Rooms -> Nat]
    /\ running \in [Rooms -> BOOLEAN]
    /\ expired \in [Rooms -> BOOLEAN]
    /\ wal \in [Rooms -> WalHandle]
    /\ walFile \in [Rooms -> BOOLEAN]
    /\ lock \in [Rooms -> Threads \cup {None}]
    /\ main \in [pc : MainPc, cmd : {"leave", "logout", "disconnect", "ready", "attack", None},
                 p : Players \cup {None}, r : Rooms \cup {None},
                 h : WalHandle \cup {None}]
    /\ thr \in [Threads -> [pc : ThreadPc, r : Rooms \cup {None},
                            ids : SUBSET Players]]
    /\ \A t \in Threads : thr[t].pc # "none" => thr[t].r \in Rooms
    /\ stale \in SUBSET Threads

\* room_add_player(), room_remove_player() and room_destroy() keep the two views
\* of who sits where in step: the id is in the slots of a room exactly when the
\* player's room_id is that room (so nobody is in two rooms), that room is
\* registered (so nobody sits in a freed one), and player_count counts the
\* slots in use and stays within max_players.
SlotsAgree ==
    /\ \A p \in Players : room_id[p] \in table \cup {None}
    /\ \A p \in Players, r \in Rooms : p \in members[r] <=> room_id[p] = r
    /\ \A r \in Rooms : /\ player_count[r] = Cardinality(members[r])
                        /\ player_count[r] <= MaxPlayers
    /\ \A r \in table : player_count[r] <= max_players[r]

\* A player who is not in a room has a status of the lobby or the stale IN_ROOM
\* that room_end_game() may leave behind; READY, GAMING and DEAD are only ever
\* the statuses of somebody in a room, only players with a name sit in one, and
\* nobody has a name before LOGIN.  This is what lets LOGIN, CREATE_ROOM and
\* JOIN_ROOM test the status alone.
StatusAgrees ==
    \A p \in Players :
        /\ status[p] \in {"disconnected", "connected", "lobby"} => room_id[p] = None
        /\ status[p] \in {"ready", "gaming", "dead"} => room_id[p] # None
        /\ status[p] = "lobby" \/ room_id[p] # None => user[p] # None
        /\ status[p] \in {"disconnected", "connected"} => user[p] = None

\* No user is logged in over two connections (handler_login, handler_logout,
\* handle_disconnect).
UsersDistinct ==
    \A p, q \in Players : user[p] = user[q] /\ user[p] # None => p = q

\* Between two commands the rooms[] table holds no empty room: rooms that are
\* left empty cannot fill it up (room_remove_player, room_destroy).
NoEmptyRoom ==
    \A r \in table : members[r] = {} => main.pc = "destroy" /\ main.r = r

\* Where the main thread is and what it works on: the room of a handler that has
\* begun is registered, and nobody is in a room any more when the end of LOGOUT
\* or of a closed connection is reached.
MainLocals ==
    /\ ~MainIdle => main.p \in Players
    /\ main.pc \notin {"idle", "finish"} => main.r \in table
    /\ At("remove") => room_id[main.p] = main.r
    /\ At("destroy") => members[main.r] = {}
    /\ main.pc \in {"destroy", "finish"} => room_id[main.p] = None
    /\ main.pc \in {"remove", "destroy", "finish"}
           => main.cmd \in {"leave", "logout", "disconnect"}
    /\ At("wal_set") => main.h \in WalHandle

\* Taken together these facts are inductive.
IInv == /\ TypeOK /\ SlotsAgree /\ StatusAgrees
        /\ UsersDistinct /\ NoEmptyRoom /\ MainLocals

\* The lobby with its steps and its threads implements the atomic Seating.
Lobby == INSTANCE Seating WITH seat <- room_id, name <- user, Capacity <- MaxPlayers
LobbySpec == Lobby!Spec

\* Every game ends: a room does not stay GAMING, whatever its players do
\* (game_thread_func, game_check_end, room_end_game).
GamesEnd == \A r \in Rooms : phase[r] = "gaming" ~> phase[r] # "gaming"

\* Every command ends: no room lock keeps the main thread, and with it every
\* player of the server, waiting for ever.
CommandsEnd == ~MainIdle ~> MainIdle

-----------------------------------------------------------------------------
(* What the project says of the program and some interleaving breaks *)

\* player.h: room_id is the room a player is in, -1 in the lobby, and IN_ROOM
\* is the status of somebody in a room.  room_end_game() writes IN_ROOM to
\* players it collected before, who may have left since.
InRoomHasRoom == \A p \in Players : status[p] = "in_room" => room_id[p] # None

\* PORTING_CHECKLIST.md: a room goes from GAMING to ENDED and back to WAITING when
\* everybody has left.  room_remove_player() frees it as soon as the last
\* player is gone, under the game thread that still works on it.
RoomOutlivesGame == stale = {}

\* PORTING_CHECKLIST.md: one game thread per room.  handler_ready() creates a
\* thread even when room_start_game() has refused to start a game.
OneThreadPerRoom ==
    \A t, u \in Threads \ stale : thr[t].r = thr[u].r /\ thr[t].r # None => t = u

\* room.c: the WAL that room_end_game() closes and deletes is that of the game
\* that ended.  It may be the one handler_ready() just made for the next game,
\* which then runs without a log that recovery could find.
RunningGameIsLogged ==
    \A t \in Threads :
        thr[t].pc \in {"tick", "check"} /\ t \notin stale
            => wal[thr[t].r] = "linked" /\ walFile[thr[t].r]
=============================================================================
