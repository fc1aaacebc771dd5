# A verification development for ASCIIGame

ASCIIGame is a small battle-royale played in text terminals. The repository
holds two servers for it, the original one in C (`src/server`, `src/common`)
and a rewrite in Go (`src/asciigame-go`), a client for each, and tests that
drive the servers from outside. This directory holds TLA+ models of the
servers and of what a client sees of them, TLC configurations that check them on small instances, and TLAPS
proofs of what matters most.

`PROJECT.json` lists the components, the runs, the source lines that each
definition models (`map`), for every property a small fault in the model that
breaks it (`mutants`), what the code does that the project says it does not
(`findings`), and what is hard to test in this code (`hazards`).

Contents: 1 inventory, 2 the modules, 3 lobby, rooms and threads, 4 the fight,
5 log, snapshot and recovery, 6 the way back into a game, 7 messages and the
client, 8 the lobby of the Go server, 9 its logs and recovery, 10 runs and bounds,
11 fairness, 12 proofs, 13 findings, 14 what is not modelled, 15 how to run it.


## 1. Inventory

### The C server

| Component | State | Operations |
|---|---|---|
| Connections (`main.c`) | the epoll set, one `Player` per connection | accept, read and dispatch, close, shutdown |
| Commands (`handler.c`) | none of its own | LOGIN, REGISTER, LIST_ROOMS, CREATE_ROOM, JOIN_ROOM, LEAVE_ROOM, READY, MOVE, ATTACK, USE_ITEM, CHAT, LOGOUT |
| Players (`player.c`) | registry of 256; per player status, room id, hit points, position, attack, shield, inventory, buffers | create, destroy, find, reset, send, add and use an item |
| Rooms (`room.c`) | table of 32; per room the slots, `player_count`, status, item table, poison radius, log handle, recovery fields | create, destroy, add and remove a player, start and end a game, broadcast |
| Games (`game.c`) | one detached thread per started game | move, attack, pick up, use; every 50 ms potions wear off, the poison shrinks and hurts, items appear, the end is looked for, the state is broadcast |
| Map (`map.c`) | a fixed template | generate, walkable, in the poison, distance |
| Write-ahead log (`wal.c`) | per game: buffer, sequence number, file | create, write, sync every second, truncate, delete |
| Snapshots (`snapshot.c`) | per game: a file, replaced by `rename` | save every 20 s (then cut the log and repeat the state in it), load |
| Recovery (`recovery.c`) | the games found at start-up, a map from old to new room ids | find games, replay, make the room anew, put a player back at LOGIN, clean up |
| Users (`storage.c`) | table of users, a file | register, verify, statistics, save, load |
| Transport (`network.c`, `protocol.c`) | socket buffers, one receive buffer per player | partial reads, cutting into lines, parsing, sending |
| Logging, configuration | none | – |

**How they interact.** One *main thread* runs the epoll loop and handles one
command to its end before the next. Every started game adds a *game thread*,
which shares players and rooms with it. `rooms_mutex` guards the table,
`room->lock` a room, `players_mutex` the registry, `player->lock` a player,
`wal->lock` a log. Both threads let go of the locks in the middle of an
operation: to broadcast, to write to the log, to look up the next player. That
is where the other one gets in, and it is the source of most of the hazards.
Snapshots and log syncs are made by the game thread; recovery runs once at
start-up and again, piece by piece, in LOGIN.

### The Go server

The same game over HTTP (lobby) and TCP (game). Every HTTP request and every
TCP connection has a goroutine, every game another: there is no single main
thread that orders the commands of one player. `server.go` keeps the registries,
`http.go` the lobby, `room.go` the rooms, `game.go` the loop, `token.go` the
sessions, `wal.go`, `snapshot.go` and `recovery.go` what survives a crash,
`storage.go` the users, `codec.go` the framing of protocol buffers.

### What is hard, and what is correct

| Component | Hard behaviour | Correct when |
|---|---|---|
| Lobby and rooms (C) | commands against the end of a game; a room freed under its thread; READY against the clean-up of the game before | a player sits in one registered room at most, slots, count and room id agree, users are signed in once, no empty room remains, every game and every command ends |
| Fights (C) | a blow, its broadcast and the death are three steps; a potion against the poison; a verdict used after the locks were released; the end of a game against a blow in the air | nobody fights without hit points or comes back to life; a game is concluded only when decided; statuses follow the room; items and potions are neither lost nor doubled |
| Log, snapshot, recovery (C) | a crash between cutting the log and repeating the state in it; records in the buffer; replay that differs from the game | a recovered game is one that was played; a finished game does not come back |
| Reconnection (C) | the last reconnection against the end of the 30 s wait; clean-up on a stale count | nobody is restored twice, or into a game that is over |
| Users (C) | the file is rewritten in place by every registration | whoever registered can log in after a restart |
| Transport, client (C) | full socket buffers; edge-triggered reads; two senders on a socket; the client keeps its own idea of where the player is | a stream of whole lines, in order; the screen shows the mode the player is in |
| Lobby (Go) | two requests of one player at once; joining a room that is being destroyed; double start | as for C, where the races allow it |
| Recovery (Go) | entries that outlive the game; a snapshot rewrites the log; ids given anew after a restart; players who come back late, or to a second game | the living are in the log and the dead are not, an ended game does not come back, the registry entry of whoever is expected leads to a game that waits for him (section 9 has the exceptions the code forces on each) |

The full list, each at its line, is `hazards` in `PROJECT.json`.


## 2. The modules

| Module | What it is | Composes with |
|---|---|---|
| `Rooms` | connections, lobby, rooms, the life of game threads, the log handle | implements `Seating` |
| `Seating` | abstract: seats and names, each change atomic | |
| `Combat` | the fight in one room, command handlers against the tick | implements `Match` |
| `Match` | abstract: who is alive, when a game is over | |
| `WalReplay` | operators: log records, their replay, the choice between the files, what a player may return to | used by `Durability` |
| `Durability` | one game and its files: logging, snapshots, crashes, recovery, players who come back | |
| `Storage` | the table of users and its file | used by `Reconnect` |
| `Reconnect` | LOGIN into a recovered game: the map of rooms, the 30 s wait, the clean-up | |
| `Transport` | the socket of one client, two senders, the client's line buffer | used by `Client` |
| `Client` | what one client shows of what the server does | |
| `GoLobby` | the Go server's requests and game loops over its registries | |
| `GoRecovery` | the Go server's logs, snapshots and crashes, and the return of players | |
| `*_proofs` | the theorems about `Rooms`, `Combat`, `WalReplay`, `Durability`, `Reconnect`, `Client`, `GoLobby`, `GoRecovery` | |
| `MC*` | instances and bounds for TLC | |

The modules overlap on purpose. `Rooms` has many rooms, any number of game
threads and the freeing of memory, with death as a nondeterministic choice;
`Combat` has one room, one thread, and everything that decides who dies;
`Durability` has one game and every file, `Reconnect` one game, one file that is
a set of users, and every order of logins. Each is small enough to be checked
exhaustively; together they would not be. What one leaves to another is said in
its first comment: `Combat` leaves the last departure to `Rooms`, `Reconnect`
leaves the contents of the `.recovery` file to `Durability` and the thread of a
freed room to `Rooms`, `Client` leaves what the server does to `Rooms`, `GoRecovery` the
finer races of the Go lobby to `GoLobby`.

What a continuation would take up: the game commands of the Go server (section
14), a refinement of an abstract "a crash loses a suffix" by `Durability` (below
the bounds of section 10 the properties say as much), the parsing of lines.


## 3. Lobby, rooms and threads: `Rooms`, `Seating`

`Rooms` keeps the code's redundancy, because the question is whether it stays
consistent: `room_id` in the player, `members` (the ids in the slots) and
`player_count` in the room, the `table` of registered rooms. A room is a memory
block: `free` leaves its contents, `calloc` clears them when the block is
handed out again, and a thread with the old pointer works on whatever it finds.
`stale` records which threads do; nothing reads it but properties.

| State | Code |
|---|---|
| `status`, `room_id`, `user` | `Player` (player.h) |
| `table` | `rooms[]` (room.c) |
| `phase`, `members`, `player_count`, `max_players`, `running`, `expired` | `Room.status`, `player_ids`, `player_count`, `max_players`, `game_thread_running`, and whether `game_start_time` is GAME_MAX_DURATION ago |
| `wal`, `walFile` | `room->wal` (no handle, one to the file the path leads to, or one to a deleted file), and whether the file exists |
| `lock` | `room->lock`, where a thread keeps it over several steps |
| `main` | position and locals of the main thread inside a handler |
| `thr` | the same for each game thread |

One action is one stretch between two points at which the code holds no lock
that keeps the other thread out. Commands that take one such stretch are one
action (`Login`, `CreateRoom`, `JoinRoom`); LEAVE_ROOM, LOGOUT and a lost
connection share `Depart`, `Remove`, `Destroy`, `Finish`; READY is `Ready`,
`AllReady`, `WalOpen`, `WalSet`, `StartGame`, `Launch`, `Spawn`; ATTACK is
`Attack`, `Hit` for each victim, `HitEnd`. The game thread is `ThreadStart`,
`LoopTest`, `Tick`, `CheckEnd`, then `EndGame`, `Reset` for each player,
`ReopenRoom`, `CloseWal`, `UnlinkFiles`, `Unlock`.

What is checked of it:

* `SlotsAgree`, `StatusAgrees`, `UsersDistinct`, `NoEmptyRoom`: the redundant
  copies agree in every interleaving. `StatusAgrees` has a hole that the code
  makes (`InRoomHasRoom` below): a player without a room may be IN_ROOM.
* `LobbySpec`: `Rooms` implements `Seating`, in which sitting down, standing up,
  signing in and signing out are atomic, with `seat <- room_id`, `name <- user`.
* `GamesEnd`, `CommandsEnd`: no game and no command lasts for ever, though
  players may leave, die or do nothing, and though `room_end_game` holds
  `room->lock` while it deletes files.


## 4. The fight: `Combat`, `Match`

| State | Code |
|---|---|
| `status`, `hp`, `pos`, `atk`, `buffed`, `shield`, `inventory` | `Player`; `buffed` is `atk_buff_expire > 0` |
| `members`, `phase`, `expired` | as in Rooms |
| `radius` | `room->poison_radius` |
| `items`, `item_count` | the item table with its `active` flags (`None` is a free slot) |
| `main`, `thr` | position and locals of the two threads |

The locks the code releases decide where a step ends:

* Every command of the game looks at the player's status first, without a lock
  (`Accept`), and takes locks later: by then the player may be dead, or put back
  to the room. It may be refused for any reason that needs no state (`Refuse`).
* ATTACK reads the attacker's position and strength once (`AttackBegin`), then
  visits the slots. A blow that lands (`StrikeHit`) releases `room->lock` and the
  victim's lock to broadcast the damage; only then does the code look whether the
  victim is dead (`StrikeKill`). Poison, the verdict, the end of the game and the
  reset of the victim can all come in between. An attacker who is put back
  between `Accept` and `AttackBegin` strikes from the corner (0, 0), which is
  near enough to real cells to hit somebody who has not been put back yet.
* USE_ITEM takes the item out of the inventory and logs it (`UseBegin`), and then
  has its effect (`UseHealth`, `UseAttack`, `UseShield`), whatever has become of
  the player.
* MOVE computes the position (`MoveBegin`), writes it (`MoveEnd`), reads position and
  inventory again (`Look`), takes the item off the map (`TakeItem`) and puts it in
  (`AddItem`).
* The tick is `UpdateBuffs`, `Poison`, `SpawnItem` or `SpawnNothing`, `CheckEnd`;
  the end is `EndGame`, `Reset` for each player, `ReopenRoom`. The loops
  over the slots are one step each: they hold `room->lock` throughout, and what the
  main thread can do meanwhile under `player->lock` alone (a potion, a position)
  concerns one player and can be put before or after. `radius` is read by this
  thread only.

The map is three relations over a set of cells (`Beside`, `Near`, `Ring`), which
is all the code asks of it. Cooldowns and intervals only make actions rarer and
are left open; so is the order in which the slots are visited.

What is checked of it:

* `NoWalkingDead`: a player is GAMING without hit points only while the blow that
  took them is being broadcast. (He can act on the last status he had, in a
  handler that has already begun: the model has that too.)
* `StatusFollowsPhase`: everybody in a running game is GAMING or DEAD, everybody in a
  waiting room IN_ROOM. What keeps a late blow from leaving a player DEAD in a
  waiting room, where READY would refuse him for ever, is not a lock but the line
  `p->hp = INITIAL_HP` in `room_end_game` (room.c:498): `StrikeKill` then finds hit
  points and does nothing. The mutant `NotRested` drops that line and breaks the
  property.
* `VerdictStands`: nobody but the winner is alive when the winner is announced. The
  winner himself may be dead by then, killed by the second half of an attack
  whose attacker is already dead; the property says what does hold.
* `PlaceForItem`, `ItemsCounted`, `OnePotion`: checks made under one lock still hold
  under the next; freed slots of the item table are reused without an item beyond
  `item_count`; potions drunk by one thread and worn off by the other leave no
  bonus behind.
* `MatchSpec`: the fight implements `Match`, with `alive <- Alive`, `late <- expired`.
  In `Match` a game begins with some players alive, players are only ever lost, it
  is concluded when at most one is left or time is up, and the room reopens when
  nobody is left in it. So nobody comes back to life, potion or no potion, before
  the next game.


## 5. Log, snapshot and recovery: `WalReplay`, `Durability`

`WalReplay` is what `recovery.c` makes of the files of a game: one operator for
each record type (`ParsePlayerJoin`, `ParsePickup`, ...), `Feed` for one turn of the
loop of `parse_wal_file()`, `RecoverRoom` for the choice between log and snapshot
and for what is left on the disk. It keeps what is odd in the code: a
CHECKPOINT changes nothing, a snapshot overrules the poison radius of the log,
an inventory is written as all five slots, a spawned item is appended where the
game reuses a free slot, a player is looked for by name when he joins and by
connection number afterwards.

`Durability` runs one game against it. The log is kept as a sequence of what it
replays to: up to the last sync, and up to each record written since; a crash
keeps any of them. A record is written before (`MoveBegin`), between (`UseTake`,
`UseLog`, `UseEffect`) or after what it records, as in the code, and the game thread
runs in between. `snapshot_save()` is `SnapshotCollect` (state collected, file
replaced), `SnapshotTruncate`, and the records written one by one; room_end_game()
is `EndGame`, `DeleteWal`, `DeleteSnapshot`, `DeleteRecovery`; a process can end
between any two. `Boot` is `recovery_check_and_recover()`; a user who may return is
taken through `Login`, `Seat`, `Restore`, `RestoreRecord`.

Merged, because nothing can come between that the properties would see: the
collection of a snapshot with the `rename` of its file, the timer of the sync
with the write (a write may sync, and must after `MaxTail` records). The functions
of a tick come in any order, a log is cut only between records.

What is checked of it:

* `TheLivingComeBack`: whoever is alive in an open game is offered a return to it
  after a crash, but not wherever it cuts the log: there are three exceptions, each a case in
  which the code does lose somebody: a command that ran while the last snapshot
  was taken (its record is cut off with the old log, or repeated on top of the
  state); two players of the log with one connection number (a process counts
  from 1, and the log still has the numbers of the process before); and a cut
  between the PLAYER_JOIN records of a snapshot, which leaves a game of one living
  player, deleted as finished. `torn` and `NotBetweenJoins` are these cases; `torn`
  is "mending" while a snapshot that no command has disturbed yet is on its way to make
  an earlier disturbance good, and "no" when it has.
* `LogMirrorsGame`: between commands the log replays to the game in memory:
  places, shields, inventories, items on the map, who is alive. It says also
  where it does not: damage by the poison is not recorded; the item table of the
  replay fills up, since it reuses no slot; and after a recovery the inventory of a player may hold an
  item twice (`ParseUseItem` moves the slots up but leaves the last one as it was,
  and the next PLAYER_JOIN writes and reads all five). Items are compared place by
  place, as how many lie there (`Lying`): of two at one place the game picks up the
  one in its first slot, which may have been freed and given to the later one, the
  replay the older one.
* `TheDeadStayDead`, `PoisonNeverCloser`: nobody dead on zero hit points is alive in the
  log; a crash never brings the poison closer. The exception of the second,
  `revived`, is a finished game that came back: a crash between the deletion of
  the log and that of the snapshot leaves a snapshot to be recovered.
* `FinishedStaysFinished`: once `room_end_game()` is through, no restart offers the game.
  It says nothing of the moments before: the crash between the deletions, which brings
  the game back, is `revived`.


## 6. The way back into a game: `Storage`, `Reconnect`

After a restart the first survivor to log in makes the room of his game anew,
the others find it through `recovery_room_map`, the thread of the room waits for
all of them or for 30 s, and the last one back removes the `.recovery` file.

| State | Code |
|---|---|
| `offer` | the users alive in the `.recovery` file |
| `mapping` | `recovery_room_map[]`: the new ids of this game's entries, 0 for an entry of another game |
| `members`, `count`, `status`, `expected`, `waited`, `running` | `Room`; `expected` is 0 once `is_recovery_room` is cleared |
| `thr` | where the game thread is in `game_check_end()` or `room_end_game()` |
| `main` | where the main thread is in `handler_login()` |
| `users`, `usersFile` | `g_storage` and its file |
| `unsaved` | history: whose account a save that failed may cost |

A login is `Login`, `FindRoom` or `CreateRoom`, `Seat`, `RestoreState`, `Launch`, `Cleanup`; the
thread is `CheckWait`, `EndWait`, `CountLiving`, `EndGame`, `ResetPlayers`, `ResetRoom`. Players
may die, lose their connection and return, and the process may crash anywhere.
`RegisterUser` with `SaveOpens` leaves the file torn until `SaveDone`: it is opened for
writing and filled in place. The opening may fail (`SaveRefused`) and so may a write
(`SaveBreaks`, which leaves the file torn): `storage_register_user()` does not look at the
result (storage.c:229) and answers OK.

The map has 32 entries for all recovered games together, and an entry whose game
was never cleaned up stays. `OthersMap` is what the logins of other games do to it: they
enter rooms and remove their entries, whereupon the last entry moves into the gap.
`AddMapping` drops an entry when the map is full, in silence.

What is checked of it:

* `SlotsAgree`: seats, count and the players' rooms agree, whatever the thread does.
* `OneRoomPerGame`: the survivors meet in one room, whatever other games do to the map.
  There are two exceptions. After a room of the game is destroyed (`destroyed`) its entry,
  which leads to no room any more, hides the later ones, and every login makes a room of
  its own. And a room made when the map is full (`unmapped`) is in no map: the next survivor
  makes a second one while the first is alive. TLC finds both when they are not excepted.
* `NobodyLockedOut`: whoever is missing can still come back, the 30 s over or not,
  as long as the game goes on and not all have been back at one time. It is
  the claim of handler.c:153, and what holds of it, with the same two exceptions.
* `NobodyStranded`: who plays plays in a game that goes on, or will be put back by its
  end. Exception `late`: who returns between the verdict and the end of the clean-up
  is left GAMING in a room that waits. The verdict can also fall while the last
  player to return is seated but not yet GAMING.
* `AccountsSaved`: between commands a restart that can read the file costs no account but
  those of saves that failed since the last one that succeeded: one's own after a
  save that could not begin, anyone's after one that broke off. A crash in the middle of a save
  is outside, and loses all accounts; anybody may then register a survivor's
  name, and would be let into his game.
* `WaitEnds`: no recovered game waits for ever.

A thread that clears `expected` before the last player's `Cleanup` makes that clean-up
find nothing to do, so the file stays until the game ends; a player who died
and lost his connection can come back alive from it. Both are in the model and
are no violation of the above.


## 7. Messages and the client: `Transport`, `Client`

A message is two pieces, the second of which ends in the newline; the socket
may be full before, between or after them. `SendSome` is one turn of the loop of
`send_all()`, of either thread; `Recv`, `HasLine`, `FirstLine`, `TakeLine` are the client's buffer,
in which a full buffer without a newline is taken for the end of the
connection. `Client` adds the keys a player can press in each mode, the commands
under way (`Read` is one edge-triggered `recv()`), the answers of the handlers and
what the game thread sends on its own. `screen` is the three flags from which
the client decides what to show and which keys to take.

* `LinesAreMessages`: as long as no send was short the client splits the stream
  exactly where the server joined it. (A short send is given up half way and
  reported as a success; the next message follows in the middle of the line.
  server/network.h:60 says that partial sends are handled.)
* `ScreenFollows`: when nothing is under way, the client is in the mode its player
  is in, but for three histories in which it is not: a short send; LEAVE_ROOM sent
  before GAME_START arrived ("Left room" clears `in_room`, not `in_game`,
  client/game.c:196); and the end of a recovered game that overtakes the answer
  to the login that led into it.
* `NoCommandStuck`: a command is left unread only when more arrived at once than
  one `recv()` takes, since the edge is not raised again for the rest.


## 8. The lobby of the Go server: `GoLobby`

The Go server has no main thread: each request is a goroutine, and nothing
keeps two requests of one player apart. One action is what one hold of a lock
covers: CREATE is `CreateRoom` (registry), `Seat` (room), `EnterRoom` (player); a departure is
`Unseat`, `ExitRoom`, `Unregister`, `CloseRoom`; READY is `Toggle`, `CollectMembers`, `CheckReady` for
each player, `StartGame` or `StartRefused`, `PlacePlayer` for each, `Launch`. Game loops
are `LoopBegins`, `Tick`, `Poison`, `GoOn` or `Decide`, `EndGame`, `ResetPlayer`, `ResetRoom`.

With this much freedom seats and players do come apart: a player can sit in two
rooms, in a room that is gone, or after his logout. The question the model
answers is by which races, and whether these are all. Each action that can hit
somebody says so (`Stray`, commented with the race it is), and the properties are
about everybody else:

* `SeatsAgree`: a player no race has hit sits where his `roomID` says and only there,
  in a registered room, with the status that goes with it.
* `CountAgrees`, `NoDeadRoom`: these survive every race. A leave, a logout and a lost
  connection of one player give up one seat once, and a room without members
  always has somebody who is about to sit down in it or to destroy it.
* `GamesRun`: a room in a game has a loop that runs or is being started; and unless a
  `startGame()` was refused (two READYs both find everybody ready, and the second
  starts a loop all the same) it has one, and its players are in a game only
  while it works.


## 9. Logs and recovery of the Go server: `GoRecovery`

The Go server keeps one log per game, named by the room's id, and a recovered
game goes on in the log of the old room. Three things differ from the C
server. There is only the log: the JSON snapshot is written, but nothing reads
it back, and what a snapshot is for is to cut the log and repeat the state in
it. Every entry of the recovery registry stays until its user is back, so it
can outlive the game. And the players are put back by the goroutines of their
connections, against the loop of the game and against each other.

| State | Code |
|---|---|
| `disk`, `logged`, `files` | for each log what `replayWAL()` makes of the synced part and of all of it (who is in it, by which id, alive or not, GAME_END), and whether the file exists |
| `wal`, `fresh` | `room.wal`, and whether `lastSnapshotTime` is still 0 |
| `seats`, `playerCount`, `roomStatus`, `rooms` | `room`; `seats` counts, since a player may be seated twice |
| `isRecovery`, `expected`, `originalRoomID` | the fields of a recovered `room` |
| `loop` | where `startGame()`, `gameLoop()`, `snapshotSave()` and `endGame()` of a room are |
| `pending`, `recByUser`, `recRoomByOrig` | the registry of recovery.go |
| `restore` | where `restorePlayerToGame()` of a user is |
| `potion` | where `handleUseItem()` of a user is, and in which room |
| `extra` | whether a refused start has run a further `gameLoop()` in a room, and whom such loops have collected |

A game is `StartGame`, `LogPlayer` for each member, `LogDone`; then `Tick`, `Snapshot` with
`Collect` for each member, `Truncate`, `Rewrite` for each, `SnapshotDone`, and `CheckEnd`, over and
over; `EndGame`, `ResetPlayer` for each, `CloseGame`. `Die` comes in between, and `Restart` at any point:
it drops what was not synced and is `RecoverAll()`. A return is `Rejoin`, or `Reopen` and `Seeded`
for the first one, then `SeatBack` and `FieldsBack`. Ids start from 1 again with the
process, and a death is logged by id while a player is logged by name: that
is why the log keeps both.

`Drink`, `Heal` and `LogPotion` are a health potion: the status is looked at before the first
(handler.go:71), and nobody looks again. Who is killed in between is DEAD with hit points,
the next snapshot writes a PLAYER_JOIN with them, and a replay takes him for alive.
A log therefore has `hollow` players too, who joined without hit points: USE_ITEM revives them in
the replay, which it does not with one whose PLAYER_DEATH was read.

`RefusedStart` is a READY whose `startGame()` returns at once. It has replaced `room.wal` by
then, so that what the first writer holds in its buffer is no longer synced, and it runs another
`gameLoop()`. From then on the room is `doubled`, for as long as the process lives. Its
further loops are not followed step by step: `ExtraSnapshot`, `ExtraEnd`, `ExtraReset`, `ExtraClose` and
`LoopStops` may come at any time, in any order, and since two writers write to one file, each at
its own offset, a snapshot of theirs may leave anything in it. That is more than the code can do,
so what is shown in spite of it holds; what is excepted is said below.

As in `GoLobby`, some races do harm, and the properties are about everybody they did
not hit; what marks a player is in the history variables. `strays`: put back into a game that was
over by then, or seated in two rooms. `absent`: back, but no snapshot has written him
with his new id yet. `missed`: a snapshot read him before he died and wrote that down
after. `revived`: he died with a potion in his hands. `seedings`: a log that two rooms have
begun anew. And `doubled`: a room that has had a refused start. Without any one of
`doubled`, in each of the properties that has it, and `revived`, TLC finds the property violated.

* `EntriesLead`: every entry of the registry leads to a pending game its user survives in, whoever
  comes back before him, whatever game he comes back to. This is the registry only: a room that is
  full by then (recovery.go:206) or the limit of rooms still leaves him outside.
* `EndedStayEnded`: a game is over in memory, in its log and on the disk at three
  different moments, and a crash between any two does not bring it back. GAME_END is
  synced before anybody is told; that is what it rests on. It does come back if a player who came
  too late takes it up again, and in a `doubled` room: the second loop's snapshot makes
  the log anew that the first has ended and deleted (snapshot.go:128, wal.go:165).
* `LivingAreKept`: at every moment of a running game but the rewriting itself, a
  crash would leave the living alive in the log. The death of another does not
  reach them, although old ids and new ones meet in one log after a restart: who
  could be hit is `absent`. Of a `doubled` room it says nothing: two loops truncate the log
  against each other there.
* `DeathsAreKept`: and the dead are dead in it, once it is synced, but for `missed` and
  `revived`, and in rooms that are not `doubled`.
* `GamersHaveAGame`: who is in a game sits in a room whose game is on or ending, or that is
  `doubled`. Starting, joining and leaving are one step each in this module, so this says which harm
  the returns and the second loops do; `GoLobby` has the races inside those steps.


## 10. Runs and bounds

| Run | Instance | Shows |
|---|---|---|
| `rooms` | 3 connections, 3 users, 2 rooms, 1 thread, capacity 2 | the five invariants and the refinement of Seating |
| `rooms_live` | 2 connections, 1 room, 2 threads | GamesEnd, CommandsEnd |
| `rooms_two_threads` | 2 connections, 1 room, 2 threads | two game threads on one room (violation) |
| `rooms_stuck` | 2 connections, 2 rooms, 2 threads | a player IN_ROOM without a room (violation) |
| `rooms_stale` | the same | a game thread of a freed room (violation) |
| `rooms_wal` | the same | a game that runs without its log (violation) |
| `combat` | 2 players, 2 cells, 2 map slots, 1 inventory place | the seven invariants and the refinement of Match |
| `durability` | 2 users, 2 places, 2 item slots of each kind, 4 commands or events, 1 crash | what of a game a crash leaves |
| `reconnect` | 3 users, 2 rooms of the game, a map of 2 entries, 1 crash | the return of the survivors, the shared map, failing saves, and WaitEnds |
| `client` | 3 keys, 2 commands per recv, socket and buffer of 3 pieces | the stream and the screen |
| `go_lobby` | 2 players, 2 rooms, 2 requests at a time, 2 loops | seats, rooms and games of the Go server |
| `go_recovery` | 2 users, 2 rooms, 2 crashes, potions and refused starts in the first game | what the Go server's logs keep, and who finds back |

Why these are enough to meet the interesting cases:

* *Rooms.* With three connections and capacity 2 a room can be full, a third can be
  refused and take a place that becomes free, and a user can try to sign in
  twice. Two blocks let a freed room be reused by another. One thread meets
  every interleaving of a game with the main thread; the runs about two threads
  have two. `Threads` bounds the live threads: READY waits for a free one.
  `rooms_live` gives each player a name of his own and leaves out lost
  connections, which take the same path as LOGOUT, to keep the graph small.
* *Combat.* Hit points are scaled: two, of which a blow takes one, or two with a
  potion, and a tick of poison one. Two players meet all pairs of a blow and
  anything else, and the poison, which is at work on the edge cell only when
  the zone has shrunk (`Radius = 2`). Two map slots and one inventory place put
  both tables at their limit. `BoundedSpec` bounds further: all items of a moment
  are of one type, lie in the middle, and are at most two on the map, or one there
  and one held (`FewItems`); who leaves does so unhurt or dead and carrying
  nothing (`LeaveBare`; the next game would reset him anyway). Every disjunct of
  `Next` still fires, through several games.
* *Durability.* Four commands or events are enough to pick an item up, use it, be
  hurt by poison and die around a snapshot; `MaxTail = 2` lets a crash cut the log at three
  places, and between the records of a snapshot. `MaxPid = 3` is one connection
  number more than players, so that the numbers of two processes clash. `BoundedSpec`
  fixes the players' places and where items appear, so that the four events are spent on
  what matters, and plays a recovered game on for its last two. Logins are left
  out of the phases in which the game ends or its room is destroyed. An
  instance with two crashes ran over ten million states without a violation and
  is too large to be a run.
* *Reconnect.* Three users: with two, "all are back" and "the other is back" are
  the same. Two rooms of the game show the stale entry of the map, two entries a map
  that others fill before or after the game has its own. `Followed` keeps the graph small: saves
  run while the game has no room yet, since they share only the main thread with
  the rest, and other games' entries come before the crash (the map is empty after it) and
  before a room of the game is destroyed (from then on nothing is claimed of it). `Init` has
  every set of two or more survivors, and a `Restart` may find any set but one of
  one: what a file can say is the matter of `Durability`.
* *Client.* Two pieces per message with room for three put a short send at every
  place of a message. Three keys are a burst (two fit in one `recv()`), and enough
  to enter, be ready and leave. `OneMishap` follows a behaviour until a second of the
  four mishaps (`short`, `leftGame`, `overtaken`, `burst`) happens; one at a time is
  enough for every exception of the properties to be met.
* *GoLobby.* Two players, requests and rooms meet every pair of requests, of one player
  or two, in every pair of rooms. `Followed` stops at the first race of the seats (the
  properties say nothing of those it hit), and with both rooms born there is one loop and no refused
  start. Without it, simulations of millions of states found no
  violation, and section 12 proves that there is none.
* *GoRecovery.* Two users are a game, and the smallest in which one is back and the
  other is not. Two room ids are a game and its recovery, or two games of which
  one user is in both logs; two crashes are a crash in a recovered game and the
  return from it. `Followed` stops at the first stray and the second seeding of a log, of
  which the properties say nothing, and has one loop at a time. Potions are drunk one at a time, in the
  first game, where one crash follows; a refused start is followed in the first game,
  between ticks, and through one crash, which is where an ended game would come back. These
  limits are on the run only; section 12 has none of them, and its inductive invariant
  was checked by TLC over the same graph.
* `CHECK_DEADLOCK FALSE`: in Combat the last player's departure is left to Rooms, so
  the model stops when too few are left to start a game; elsewhere the bounds on
  commands, keys, crashes and ids come to their end.

Bounds are on instances only. The theorems have none.


## 11. Fairness

`Rooms` (`LiveSpec`, `FairSpec`) and `Reconnect` (`Fairness`) have liveness properties.
Assumed is weak fairness of

* `MainStep`, `Handler`: a handler that has begun goes on (a runnable thread is
  scheduled);
* `ThreadStep(t)`, `Thread(r)`: so does every game thread;
* `Expire(r)`: five minutes pass; `TimePasses(r)`: thirty seconds do.

No command, login, death or departure is assumed to come, and no fairness is
given to who gets a contended lock beyond that: where a step waits for
`room->lock`, the holder never does. The other modules state none.


## 12. Proofs

Eight modules prove, for every number of players, users, rooms, threads,
requests, items and buffers, what the runs show on small instances. Beyond
that they prove what no run repeats: the type invariants of `Reconnect`, `Client`,
`GoLobby` and `GoRecovery`, and what the threads of `Rooms` and `Combat` carry from one lock
section to the next (`MainLocals`, `Locals`).

**Assumptions.** Those the modules name: `RoomsAssumption`, `CombatAssumption`, `StorageAssumption`,
`ReplayAssumption`, `DurabilityAssumption`, `ReconnectAssumption`, `TransportAssumption`, `ClientAssumption`,
`GoLobbyAssumption`, `GoRecoveryAssumption`. They say
that sets of players, rooms or requests are finite where the code has tables,
that limits are naturals, positive where the code divides the world by them,
that `None` is nothing else, that the client's line buffer holds a message, that the
players of a game fit into the tables of its log, and that each can have a number of
his own (`Cardinality(Users) <= MaxPid`; `MaxPid` bounds the model, not the code).
TLC evaluates each in a run.

**Rooms.** The inductive invariant `IInv` is the type invariant, the four properties and
`MainLocals`. `SlotsAgree` cannot be shown alone: `Remove` decrements
`player_count` and clears the slot of `main.p`, which is right only if that
player sits in `main.r` and that room is registered; `MainLocals` says so.
`Finish` signs a player out, which keeps `StatusAgrees` only if he has no room by
then; `NoEmptyRoom` needs to know that `Destroy` is about the room just emptied.
`StatusAgrees` must tolerate IN_ROOM without a room, or `Reset` breaks it. Game
threads may even work on freed rooms: the proof shows that they touch neither
seats nor names. Then `LobbyImplementsSeating` maps `Login`, `CreateRoom`, `JoinRoom`, `Remove`
and `Finish` to the steps of Seating and everything else to stuttering.

**Combat.** `IInv` is the type invariant, the six properties and `Locals`. The parts need each
other: `VerdictStands` follows from `AliveShrinks` (no step but `StartGame` adds
to the living), which for `UseHealth` needs `NoWalkingDead` (otherwise a potion
would revive a player who is GAMING with no hit points). `StatusFollowsPhase` for
`StrikeKill` and for `Poison` needs from `Locals` that the wounded victim, if he
has been put back already, has all his hit points, and that the thread is in its
tick only while the room is GAMING. `FightImplementsMatch` follows: `StartGame` is
Begin, `EndGame` is Conclude by `VerdictStands`, `ReopenRoom` is Reopen because
everybody has been put back, and whatever else changes the living loses them.

**Reconnect.** In the middle of a login a player sits in a room his own record
does not name yet; `Place` says where he is, and `Seats` is `SlotsAgree` in its
terms, at every step. `OneEntry` (one room, and its entry in the map, the only one of the game,
while the file is there) gives `OneRoomPerGame`; that other games' entries come and go, and that the
last entry moves when one is removed, is lemmas on `Append` and `Without`. It needs `MainLocals`, that the room a login
has found stays until it is done. `NobodyLockedOut` rests on `Reunion` (a count that reaches
`expected` means that all have been back) for `Cleanup`, and on `Threads` (a room
that a thread is ending is ENDED) for `ResetRoom`; `NobodyStranded` on `Played`, its
form for every step. `AccountsKept` is the simplest: `Saved`, which a save that fails keeps because
`unsaved` takes up whom it may cost his account.

**GoLobby.** A player no race has hit is in one of five places, which follow
the halves of `addPlayer()` and `removePlayer()`: `Out`, `GoingIn`, `In`, `GoingOut`, and
`Crossed`, taken off his seat by a second request before the first had written
his `roomID`. Each action moves a player from one to another or marks him;
`SeatsRight` is read off. `NoDeadRoom` needs a creator who finds his room full
(`RoomsAttended`), `GamesRun` the life of each game: where its loop or its start can be
at each status of the room, and who will still put each player back.

**GoRecovery.** `EntriesHold` follows the registry alone: `Consume` takes the game's entry
with it only when no user's entry leads there any more. `EndedForGood` needs more. `Over`
says that the log of an ended game says so, in the buffer and on the disk, or is
gone, and that no loop is left that writes to it. A log can be written by two rooms,
the one it is named after and the one that recovered it: `FromBefore` says that the first is of
a process that is gone and that its id is not given again, `OneEach` that there is only one of the
second, `Recovered` that it never starts a game of its own while it has the old log, `Seeding` that one
return at a time is between seeding the log and launching the loop. `Unborn` and `Born` say that
a room id is new when it is given.

`EveryGamerHasAGame` rests on `PlacedInv`. `Counted` is `playerCount` against the seats taken, which may
be two of one player; only so does a destroyed room have nobody in its game
(`OthersStay`). `Placed` gives a player who is no stray one seat, in the room he is said to be in or
is being put back to, and a game as long as he is in one; `Playing` has no game outlive its
room. `LivingAreLogged` and `DeathsAreLogged` add to it, in `KeptInv`:

* `Numbered`: the ids of this run of the server are different, so that a death names one player
  among those whose ids the log has anew (`InLog`, which is why a player who has come back
  is excepted until a snapshot has written him).
* `Outside` and `SeededAlone`: nobody sits in a room whose log is still being seeded.
* `LogsTell`: what the log of a game says of each of its players at every step of the
  loop. While records are written (`WritingPCs`), those still to come are excepted, and a
  snapshot that collects has passed over nobody who was there (`Collected`); without
  that, `Truncate` would lose a player. `OneWriter` keeps everybody else's records away.

A step leaves a player's record as good as it was (`Harmless`) or is one of five that are about
it: a start, a record, a sync, a truncation, a death. A potion heals in the log whoever is
`hollow` under the drinker's id: `DeadInLog` says that a dead player's entry there is dead or
his own (`HealedHarmless`), and `Numbered` that a dead player has no potion in his hands
unless he is `revived`. The loops of a `doubled` room write to that room's log only, and nobody else's
log is (`Gone` has no refused start in a room of before), so they are harmless to all other
rooms (`LogsTellByExtraLoops`), and `Over`, `Kept` and `Placed` leave out their own.
None of this bounds rooms, users, crashes or games at a time.

**Client.** `Stream` describes buffer and socket as one sequence cut anywhere: each
piece is followed by what may follow it, across the cut too. A send that is not
short appends a whole message (`SendUnbroken`), `Recv` moves the cut (`RecvUnbroken`), a
line that is taken is the message at the front (`FirstLineIsMessage`), and the buffer can
never be full without a newline, for which it has to be as long as a message.
`CommandsAreHandled` needs only that handlers keep at it until their buffer is empty.
`ScreenIsRight` is about moments when nothing is under way; to get from one to the next,
`ScreenInv` says what the client will show once everything has arrived. `Raised` is the
value of a flag when the lines in buffer and socket have been handled: that of the last
line that sets or clears it, else the present one (`RaisedAppend`, `RaisedTake`).
`Will` adds the messages still `Owed`: those of the handler's `todo`, and what the two threads
have begun to send. `Arriving` has these values agree with the room, the game and the status that the server
holds, at every step: a handler changes its state and what it owes at once
(`OweMore`), and sending and handling a message changes neither side (`OweSent`,
`OweHandled`). The threads may send what they owe in either order only because no two
messages owed contradict each other (`Agree`), which is what a `GAME_END` before the
`GAME_START` of a login breaks: hence the exception `overtaken`. `Course` says where the game and
the player's status can be while a handler is at it. None of this bounds keys or buffers.

**WalReplay.** Its functions search and filter sequences, of which the provers know
nothing. `Climb` is the induction over the naturals that they can use (the least number at
which a set has a gap), and from it come what `Picked`, `SelectInSeq` and a row of
records give: for each operator what it finds, what it keeps and in which types it stays.
`ApplyType`, `FeedType`, `RecoverRoomType` say so of a record, of a log and of a restart.

**Durability.** `FinishedForGood` needs only which of the files `room_end_game()` has deleted at
each of its phases (`Deleted`), and that recovery without a log and a snapshot does nothing.
`NeverCloser` needs `Zone`: in a running game every replayed radius is at least the game's,
and so are the snapshot's and any that is waiting to be written. The other three
come from one invariant, `IInv`:

* `Types`: the type invariant, what the threads carry (`Locals`), and that log, snapshot
  and .recovery file are what a replay can give (`Disk`).
* `Control`: in which phase of the room each thread can be where.
* `People`: nobody in the room shares a number with another or has one yet to be given;
  without hit points one is GAMING only in the middle of the blow.
* `Entries`: no user has two entries in a log or file. A replay looks players up by
  number, so `Mirror` also keeps the numbers of the log apart, which after a
  restart is true only until a new number meets an old one (`torn`).
* `Rows`: while a start, a snapshot or a recovery writes its records, the log holds
  the first of them and the thread has the rest, so that the last record leaves in
  the log exactly what was collected; and that, if no command came in
  between, is still the game.
* `Mirror`: the log against the game, at every step and not only between commands. `Agrees`
  compares the entry of a player with the player and with the command he is in the
  middle of: a record that is written counts, though its effect is yet to come
  (`Doings`). Each half of a command keeps `Agrees`, one by moving the log and the other
  by moving the player (`MoveTold` and `ArriveTold`, `PickupTold` and `AddTold`, `TakeTold`, `UseTold` and
  `EffectTold`); blows, poison and items come between the halves and must keep it for the
  player in between, too. That is where a dead player who still drinks his potion shows:
  the log must not know him as alive. `Covering` says of every prefix a crash may
  keep that all are in it, and the living as living ones.

`LogFollows` and `DeadStayDead` are `Mirror` between commands; `LivingComeBack` is `Covering` where no
snapshot is being written, and `Rows` with the snapshot on the disk where one is: a log that was
just cut has no players, so the snapshot is read, which has all of them
(`PlayersRecovered`).

The frame lemmas (`QuietHandlersFrame`, `ThreadsLeaveSeats`, `ThreadsFrame`, `OthersUnbroken`, ...)
gather the many steps that do not touch what a property is about, so that each
preservation proof has a case per action that matters.

**Model-checked only.** `GamesEnd`, `CommandsEnd` and `WaitEnds`, since liveness under fairness (and
`ENABLED`) is out of reach of TLAPS; and the violations.
No module declares a RECURSIVE operator.


## 13. Findings

Each is a run that TLC ends with a counterexample; the quotations are in
`PROJECT.json`.

| Run | What the code does |
|---|---|
| `rooms_two_threads` | READY ignores that `room_start_game` refused and creates a game thread all the same: two threads on one room |
| `rooms_stuck` | `room_end_game` puts a player who has left the room back to IN_ROOM: he is in no room and no command gets him out but LOGOUT |
| `rooms_stale` | the last player's departure frees the room under its game thread |
| `rooms_wal` | the end of one game closes and deletes the log of the next |

Three properties state what comments say of recovery and are false, too. No run
has them; TLC gives the counterexample, of about twenty steps, when they are
put in a configuration as INVARIANT:

* `ConsecutiveCrashes` (Durability; `Durability.cfg` with `MaxOps = 2`). recovery.c:1339-1340 has the log
  begun anew with the complete recovered state, "so that the latest state can be
  restored after consecutive crashes". But `last_snapshot_time` of the new room is 0
  (room.c:73), so the first tick takes a snapshot, which truncates that log
  and writes the players who are back (snapshot.c:100). A crash now leaves at most one living player,
  and the game is deleted as finished (recovery.c:963).
* `RepeatedCrashes` (GoRecovery; `GoRecovery.cfg`). The same in Go, where recovery.go:271 says "so
  repeated crashes still work". There a death before that snapshot can do it as well: it is logged by
  the new id of the player, which may be the old id of one who is missing.
* `NoEarlyWinner` (GoRecovery; `GoRecovery.cfg`). game.go:332: "don't judge a winner until the expected players
  reconnect or the wait window elapses". `restorePlayerToGame()` raises `playerCount` (recovery.go:211)
  before it sets the status (recovery.go:217). A `checkEnd()` in between ends the wait and finds one
  player alive, who wins while the other is being put back.

Seen while modelling, at the quoted lines, and stated as exceptions of the
properties or left to the reader:

* The poison takes one hit point per 50 ms tick, twenty a second, since an integer
  division would give zero (game.c:513-515); config.h:52 says five a second.
* room.c:531: "the game ended normally, no recovery needed", but a crash before the
  snapshot is deleted (room.c:537) brings the finished game back.
* The winner may be dead when he is announced (game.c:614).
* A player killed by poison during a blow is logged as dead twice.
* The item at recovery.c:430 that is doubled (section 5), the stale entry of the
  map (recovery.c:64), the account file rewritten in place (section 6), short
  sends, `in_game` left set, commands left in a full buffer (section 7).
* Go: asciigame-go/HANDOFF.md:154 has one ticker per room, but two concurrent
  READYs start two loops, and both count the statistics of the end;
  an `allReady()` that is out of date by the time of `startGame()` starts a game with a
  player who is not ready; `findPlayerByUsername` holds the registry lock, called a
  leaf lock in asciigame-go/HANDOFF.md:115, while it takes a player's.


## 14. What is not modelled

* **Rooms**: failing allocations, files and threads; LIST_ROOMS and CHAT, which change
  nothing; shutdown; the few instructions between `player_find_by_id` and the
  use of its result, in which the player could be freed (player.c:147; `Reset`
  looks the player up and writes in one step).
* **Combat**: when a cooldown or an interval is over (any time is allowed), which
  cell a random draw picks (any), broadcasts, statistics, log records, and a
  second game thread (`rooms_two_threads` shows how one can come about: what
  Combat shows holds for games that have one).
* **Durability**: the text of a record and a last line cut in its middle, writes and
  renames that fail, expiry times of potions, and what is never called:
  `recovery_replay_wal`, `recovery_cleanup_old_wal`, `storage_update_stats`.
* **Reconnect**: LEAVE_ROOM of a returned player (a lost connection takes the same
  path), passwords and SHA-256, the parsing of the users' file, the save at shutdown
  (main.c ends the process after it, so it is one more `Save` before a `Restart`); of other games,
  all but their entries in the map.
* **Client, Transport**: the parsing of a line into its fields (an empty field of
  GAME_STATE is skipped, client/game.c:386), chat, what is drawn, the keys of a game,
  the Go client, which speaks another protocol.
* **GoLobby**: user names and tokens (two logins of one name can both pass the
  check of http.go:109; tokens do not expire, where server.go:261 speaks of
  "until the session token expires"), TCP connections but for their loss, the
  fight, the limit of rooms.
* **GoRecovery**: the JSON file, which nothing reads back; the last record cut in its
  middle and writes that fail; places, the poison and the items but for health potions, which
  `WalReplay` has for the C server; the steps of each further loop in a room that had a refused
  start (they are over-approximated, section 9), and a refused start in a room that was destroyed
  and closed before, whose new log nobody writes to; readiness (GoLobby has it) and the limit of rooms; returns by
  token, which take over a session that still has its player and put nobody back.
* **Go users** (`storage.go`): accounts in a table of SQLite, every change of which is one
  statement; hashes, and the import of an old file of users.
* **At all**: logging, generated code, tests and scripts.


## 15. Running it

    tlc -workers 2 -config Rooms.cfg MCRooms             (8 s, likewise the other Rooms*.cfg)
    tlc -workers 2 -config RoomsLive.cfg MCRooms         (50 s)
    tlc -workers 2 -config Combat.cfg MCCombat           (2 min, four million states)
    tlc -workers 2 -config Durability.cfg MCDurability   (2 min, three million states)
    tlc -workers 2 -config Reconnect.cfg MCReconnect     (160 s)
    tlc -workers 2 -config Client.cfg MCClient           (90 s, nine million states)
    tlc -workers 2 -config GoLobby.cfg MCGoLobby         (50 s)
    tlc -workers 2 -config GoRecovery.cfg MCGoRecovery   (80 s, a million states)
    tlapm Rooms_proofs.tla                               (likewise the other *_proofs.tla)
