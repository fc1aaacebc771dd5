----------------------------- MODULE Reconnect -----------------------------
(***************************************************************************)
(* The way back into a game after a restart: the .recovery file of the     *)
(* game, the map from its old room id to the room made for it, the seats   *)
(* of that room, and its game thread, which waits RECOVERY_WAIT_TIME for   *)
(* the players it expects.  The main thread takes a login through the      *)
(* steps its locks divide it into; who may log in is up to Storage.  The   *)
(* map has a fixed number of entries and is shared with the other games,   *)
(* of which nothing else is modelled.                                      *)
(*                                                                         *)
(* What a .recovery file says of each player is the subject of Durability: *)
(* here it is the set of the users alive in it, empty if there is no file. *)
(***************************************************************************)
EXTENDS Storage, Sequences, SequencesExt

CONSTANTS MAX_RECOVERY_MAPPINGS,
          MaxRooms,     \* bound: rooms made for the game by one process
          MaxCrashes,   \* bound
          None

ASSUME ReconnectAssumption ==
    /\ MAX_RECOVERY_MAPPINGS \in Nat \ {0}
    /\ {MaxRooms, MaxCrashes} \subseteq Nat

RoomIds == 1..MaxRooms

VARIABLES
    offer,      \* users alive in the .recovery file
    mapping,    \* recovery_room_map[]: the new ids, 0 for one of another game
    table,      \* the rooms of the game that exist
    made,       \* rooms made so far
    status,     \* room->status
    members, count,       \* room->player_ids and player_count
    expected,   \* room->expected_players, 0 without is_recovery_room
    waited,     \* RECOVERY_WAIT_TIME has passed since recovery_start_time
    running,    \* room->game_thread_running
    thr,        \* game thread of a room: pc and the ids room_end_game() collected
    st, room,   \* status and room of each user's player
    main,       \* the login the main thread is in
    crashes,
    destroyed,  \* history: a room of the game was destroyed
    unmapped,   \* history: a room of the game was made when the map was full
    allBack,    \* history: all the players expected have been in the room
    late        \* history: users who came back to a game that was ending

roomVars == <<mapping, table, made, status, members, count, expected, waited, running>>
histVars == <<destroyed, unmapped, allBack, late>>
vars == <<offer, roomVars, thr, st, room, main, crashes, histVars, storageVars>>

Idle == [pc |-> "idle", u |-> None, r |-> 0]
NoThread == [pc |-> "none", ids |-> {}]
Ending == {"end", "reset", "files"}
ThreadType == [pc : {"none", "tick", "clear", "count"} \cup Ending, ids : SUBSET Users]
MainType == [pc : {"idle", "find", "seat", "state", "launch", "cleanup", "save"},
             u : Users \cup {None}, r : RoomIds \cup {0}]

TypeOK ==
    /\ offer \subseteq Users
    /\ mapping \in Seq(RoomIds \cup {0}) /\ Len(mapping) <= MAX_RECOVERY_MAPPINGS
    /\ table \subseteq RoomIds /\ made \in 0..MaxRooms
    /\ status \in [RoomIds -> {"gaming", "ended", "waiting"}]
    /\ members \in [RoomIds -> SUBSET Users]
    /\ count \in [RoomIds -> Nat] /\ expected \in [RoomIds -> Nat]
    /\ waited \in [RoomIds -> BOOLEAN] /\ running \in [RoomIds -> BOOLEAN]
    /\ thr \in [RoomIds -> ThreadType]
    /\ st \in [Users -> {"off", "lobby", "gaming", "dead", "in_room"}]
    /\ room \in [Users -> RoomIds \cup {0}]
    /\ main \in MainType
    /\ crashes \in 0..MaxCrashes
    /\ destroyed \in BOOLEAN /\ unmapped \in BOOLEAN /\ allBack \in BOOLEAN
    /\ late \subseteq Users
    /\ users \subseteq Users /\ usersFile \in [whole : BOOLEAN, known : SUBSET Users]
    /\ unsaved \subseteq Users

NoRooms ==
    /\ mapping = << >> /\ table = {} /\ made = 0
    /\ status = [r \in RoomIds |-> "waiting"]
    /\ members = [r \in RoomIds |-> {}] /\ count = [r \in RoomIds |-> 0]
    /\ expected = [r \in RoomIds |-> 0] /\ waited = [r \in RoomIds |-> FALSE]
    /\ running = [r \in RoomIds |-> FALSE]

\* A process that has just recovered a game of two or more living players.
Init ==
    /\ offer \in SUBSET Users /\ Cardinality(offer) >= 2
    /\ StorageInit(offer)
    /\ NoRooms
    /\ thr = [r \in RoomIds |-> NoThread]
    /\ st = [u \in Users |-> "off"] /\ room = [u \in Users |-> 0]
    /\ main = Idle /\ crashes = 0
    /\ destroyed = FALSE /\ unmapped = FALSE /\ allBack = FALSE /\ late = {}

-----------------------------------------------------------------------------
(***************************************************************************)
(* handler_login() and recovery_restore_player_to_game()                   *)
(***************************************************************************)
At(pc) == main.pc = pc
Goto(pc) == main' = [main EXCEPT !.pc = pc]

\* A new connection logs in; a user alive in the file is on his way back.
Login(u) ==
    /\ At("idle") /\ st[u] = "off" /\ Verified(u)
    /\ st' = [st EXCEPT ![u] = "lobby"]
    /\ main' = IF u \in offer THEN [Idle EXCEPT !.pc = "find", !.u = u] ELSE Idle
    /\ UNCHANGED <<offer, roomVars, thr, room, crashes, histVars, storageVars>>

\* The entries of the game among those of all.
Ours == {i \in DOMAIN mapping : mapping[i] # 0}

\* find_recovery_room() knows one room for the game, the first of the map;
\* room_find_by_id() may not.
FindRecoveryRoom ==
    IF Ours # {} /\ mapping[Min(Ours)] \in table THEN mapping[Min(Ours)] ELSE 0

FindRoom ==
    /\ At("find") /\ FindRecoveryRoom # 0
    /\ main' = [main EXCEPT !.pc = "seat", !.r = FindRecoveryRoom]
    /\ UNCHANGED <<offer, roomVars, thr, st, room, crashes, histVars, storageVars>>

\* Mutant of AddMapping: the room is not entered in the map.
NoMapping(r) == UNCHANGED mapping

MapFull == Len(mapping) = MAX_RECOVERY_MAPPINGS

\* A full map takes no entry, and says so to nobody.
AddMapping(r) == mapping' = IF MapFull THEN mapping ELSE Append(mapping, r)

\* recovery_create_room_for_game(), while the file is there.
CreateRoom ==
    /\ At("find") /\ FindRecoveryRoom = 0 /\ offer # {} /\ made < MaxRooms
    /\ made' = made + 1
    /\ table' = table \cup {made'}
    /\ status' = [status EXCEPT ![made'] = "gaming"]
    /\ expected' = [expected EXCEPT ![made'] = Cardinality(offer)]
    /\ AddMapping(made')
    /\ unmapped' = (unmapped \/ MapFull)
    /\ main' = [main EXCEPT !.pc = "seat", !.r = made']
    /\ UNCHANGED <<offer, members, count, waited, running, thr, st, room, crashes,
                   destroyed, allBack, late, storageVars>>

\* A game thread has removed the file in between, or other games have taken the
\* last of the server's rooms: an ordinary login.
NotRestored ==
    /\ At("find") /\ FindRecoveryRoom = 0
    /\ main' = Idle
    /\ UNCHANGED <<offer, roomVars, thr, st, room, crashes, histVars, storageVars>>

\* Mutant of Seat: the seat is not counted.
SeatUncounted ==
    /\ At("seat")
    /\ members' = [members EXCEPT ![main.r] = @ \cup {main.u}]
    /\ allBack' = (allBack \/ count[main.r] >= expected[main.r])
    /\ Goto("state")
    /\ UNCHANGED <<offer, mapping, table, made, status, count, expected, waited, running,
                   thr, st, room, crashes, destroyed, unmapped, late, storageVars>>

\* The first free slot, whatever the room has become.
Seat ==
    /\ At("seat")
    /\ members' = [members EXCEPT ![main.r] = @ \cup {main.u}]
    /\ count' = [count EXCEPT ![main.r] = @ + 1]
    /\ allBack' = (allBack \/ count'[main.r] >= expected[main.r])
    /\ Goto("state")
    /\ UNCHANGED <<offer, mapping, table, made, status, expected, waited, running, thr,
                   st, room, crashes, destroyed, unmapped, late, storageVars>>

RestoreState ==
    /\ At("state")
    /\ st' = [st EXCEPT ![main.u] = "gaming"]
    /\ room' = [room EXCEPT ![main.u] = main.r]
    /\ late' = IF status[main.r] # "gaming" THEN late \cup {main.u} ELSE late
    /\ Goto("launch")
    /\ UNCHANGED <<offer, roomVars, thr, crashes, destroyed, unmapped, allBack, storageVars>>

\* A thread that finds its room not GAMING returns at once.
Launch ==
    /\ At("launch")
    /\ running' = [running EXCEPT ![main.r] = TRUE]
    /\ thr' = IF ~running[main.r] /\ status[main.r] = "gaming"
              THEN [thr EXCEPT ![main.r] = [NoThread EXCEPT !.pc = "tick"]] ELSE thr
    /\ Goto("cleanup")
    /\ UNCHANGED <<offer, mapping, table, made, status, members, count, expected, waited,
                   st, room, crashes, histVars, storageVars>>

\* Mutant of AllReconnected: any one will do.
AnyReconnected(r) == count[r] > 0

AllReconnected(r) == expected[r] > 0 /\ count[r] >= expected[r]

\* The last entry takes the place of one that is removed.
Without(map, i) == Front([map EXCEPT ![i] = Last(map)])
RemoveEntry(i) == mapping' = Without(mapping, i)

\* remove_recovery_room_mapping() of this game, ...
RemoveMapping == IF Ours = {} THEN UNCHANGED mapping ELSE RemoveEntry(Min(Ours))

\* ... and what the logins of other games do to the map.
OthersMap ==
    /\ At("idle")
    /\ \/ ~MapFull /\ AddMapping(0)
       \/ \E i \in DOMAIN mapping \ Ours : RemoveEntry(i)
    /\ UNCHANGED <<offer, table, made, status, members, count, expected, waited, running,
                   thr, st, room, main, crashes, histVars, storageVars>>

\* The end of handler_login(): recovery_cleanup_room() once all are back.
Cleanup ==
    /\ At("cleanup")
    /\ IF AllReconnected(main.r)
       THEN offer' = {} /\ RemoveMapping
       ELSE UNCHANGED <<offer, mapping>>
    /\ main' = Idle
    /\ UNCHANGED <<table, made, status, members, count, expected, waited, running, thr,
                   st, room, crashes, histVars, storageVars>>

\* room_remove_player(): the last one out destroys the room, and the file stays.
\* (What the thread of a destroyed room does to its memory is a matter of Rooms.)
RemovePlayer(u) ==
    LET r == room[u]
    IN  /\ members' = [members EXCEPT ![r] = @ \ {u}]
        /\ count' = [count EXCEPT ![r] = @ - 1]
        /\ IF count[r] = 1
           THEN /\ table' = table \ {r}
                /\ thr' = [thr EXCEPT ![r] = NoThread]
                /\ expected' = [expected EXCEPT ![r] = 0]
                /\ destroyed' = TRUE
           ELSE /\ thr' = [thr EXCEPT ![r].ids = @ \ {u}]
                /\ UNCHANGED <<table, destroyed, expected>>

\* handle_disconnect(), and nobody finds the player's id any more.
Disconnect(u) ==
    /\ At("idle") /\ st[u] # "off"
    /\ st' = [st EXCEPT ![u] = "off"]
    /\ room' = [room EXCEPT ![u] = 0]
    /\ late' = late \ {u}
    /\ IF room[u] = 0 THEN UNCHANGED <<members, count, table, thr, destroyed, expected>>
       ELSE RemovePlayer(u)
    /\ UNCHANGED <<offer, mapping, made, status, waited, running, main, crashes, unmapped,
                   allBack, storageVars>>

\* handler_register() on some connection, and the end of its storage_save(),
\* whose result storage_register_user() does not look at.
Register(u) ==
    /\ At("idle")
    /\ RegisterUser(u)
    /\ \/ SaveOpens /\ main' = [Idle EXCEPT !.pc = "save"]
       \/ SaveRefused(u) /\ UNCHANGED main
    /\ UNCHANGED <<offer, roomVars, thr, st, room, crashes, histVars>>

Save ==
    /\ At("save")
    /\ SaveDone \/ SaveBreaks
    /\ main' = Idle
    /\ UNCHANGED <<offer, roomVars, thr, st, room, crashes, histVars>>

-----------------------------------------------------------------------------
(***************************************************************************)
(* The game and its thread.                                                *)
(***************************************************************************)
InGame(r) == {u \in members[r] : st[u] = "gaming"}

\* A player dies of a blow or of the poison.
Die(u) ==
    /\ st[u] = "gaming" /\ status[room[u]] = "gaming" /\ thr[room[u]].pc # "none"
    /\ st' = [st EXCEPT ![u] = "dead"]
    /\ UNCHANGED <<offer, roomVars, thr, room, main, crashes, histVars, storageVars>>

\* The 30 seconds are over.
TimePasses(r) ==
    /\ r \in table /\ expected[r] > 0 /\ ~waited[r]
    /\ waited' = [waited EXCEPT ![r] = TRUE]
    /\ UNCHANGED <<offer, mapping, table, made, status, members, count, expected, running,
                   thr, st, room, main, crashes, histVars, storageVars>>

Step(r, pc) == thr' = [thr EXCEPT ![r].pc = pc]

\* Mutant of MayDecide: the clock is not looked at.
DecideWhenAllAreBack(r) == count[r] >= expected[r]

MayDecide(r) == count[r] >= expected[r] \/ waited[r]

\* game_check_end() of one tick: the wait, read under the lock ...
CheckWait(r) ==
    /\ thr[r].pc = "tick"
    /\ \/ expected[r] = 0 /\ Step(r, "count")
       \/ expected[r] > 0 /\ MayDecide(r) /\ Step(r, "clear")
    /\ UNCHANGED <<offer, roomVars, st, room, main, crashes, histVars, storageVars>>

\* ... ended under the lock taken again ...
EndWait(r) ==
    /\ thr[r].pc = "clear"
    /\ expected' = [expected EXCEPT ![r] = 0]
    /\ Step(r, "count")
    /\ UNCHANGED <<offer, mapping, table, made, status, members, count, waited, running,
                   st, room, main, crashes, histVars, storageVars>>

\* ... and the living counted.
CountLiving(r) ==
    /\ thr[r].pc = "count"
    /\ Step(r, IF Cardinality(InGame(r)) <= 1 THEN "end" ELSE "tick")
    /\ UNCHANGED <<offer, roomVars, st, room, main, crashes, histVars, storageVars>>

\* GAME_MAX_DURATION is looked at before the wait.
TimeUp(r) ==
    /\ thr[r].pc = "tick" /\ (waited[r] \/ expected[r] = 0)
    /\ Step(r, "end")
    /\ UNCHANGED <<offer, roomVars, st, room, main, crashes, histVars, storageVars>>

\* Mutant of EndGame: the winner is not collected.
EndGameLosers(r) ==
    /\ thr[r].pc = "end"
    /\ status' = [status EXCEPT ![r] = "ended"]
    /\ running' = [running EXCEPT ![r] = FALSE]
    /\ thr' = [thr EXCEPT ![r] = [pc |-> "reset", ids |-> members[r] \ InGame(r)]]
    /\ UNCHANGED <<offer, mapping, table, made, members, count, expected, waited,
                   st, room, main, crashes, histVars, storageVars>>

\* room_end_game(): ENDED and the players collected, GAME_END, the broadcast ...
EndGame(r) ==
    /\ thr[r].pc = "end"
    /\ status' = [status EXCEPT ![r] = "ended"]
    /\ running' = [running EXCEPT ![r] = FALSE]
    /\ thr' = [thr EXCEPT ![r] = [pc |-> "reset", ids |-> members[r]]]
    /\ UNCHANGED <<offer, mapping, table, made, members, count, expected, waited,
                   st, room, main, crashes, histVars, storageVars>>

\* ... the collected players, those still connected, reset ...
ResetPlayers(r) ==
    /\ thr[r].pc = "reset"
    /\ st' = [u \in Users |-> IF u \in thr[r].ids
                              THEN "in_room" ELSE st[u]]
    /\ Step(r, "files")
    /\ UNCHANGED <<offer, roomVars, room, main, crashes, histVars, storageVars>>

\* Mutant of RemoveFiles: the .recovery file stays.
KeepFile == UNCHANGED offer

RemoveFiles == offer' = {}

\* ... and the room, with the files of the game.
ResetRoom(r) ==
    /\ thr[r].pc = "files"
    /\ status' = [status EXCEPT ![r] = "waiting"]
    /\ expected' = [expected EXCEPT ![r] = 0]
    /\ RemoveFiles
    /\ thr' = [thr EXCEPT ![r] = NoThread]
    /\ UNCHANGED <<mapping, table, made, members, count, waited, running,
                   st, room, main, crashes, histVars, storageVars>>

\* The process ends and a new one recovers the game, or not: any two or more
\* users may be offered a return then, those of an old file included.
Restart ==
    /\ crashes < MaxCrashes
    /\ crashes' = crashes + 1
    /\ \E left \in SUBSET Users : Cardinality(left) # 1 /\ offer' = left
    /\ StorageLoad
    /\ mapping' = << >> /\ table' = {} /\ made' = 0
    /\ status' = [r \in RoomIds |-> "waiting"]
    /\ members' = [r \in RoomIds |-> {}] /\ count' = [r \in RoomIds |-> 0]
    /\ expected' = [r \in RoomIds |-> 0] /\ waited' = [r \in RoomIds |-> FALSE]
    /\ running' = [r \in RoomIds |-> FALSE]
    /\ thr' = [r \in RoomIds |-> NoThread]
    /\ st' = [u \in Users |-> "off"] /\ room' = [u \in Users |-> 0]
    /\ main' = Idle
    /\ destroyed' = FALSE /\ unmapped' = FALSE /\ allBack' = FALSE /\ late' = {}

Handler == FindRoom \/ CreateRoom \/ NotRestored \/ Seat \/ RestoreState \/ Launch \/ Cleanup \/ Save

Thread(r) == CheckWait(r) \/ EndWait(r) \/ CountLiving(r)
             \/ EndGame(r) \/ ResetPlayers(r) \/ ResetRoom(r)

Next ==
    \/ Handler \/ OthersMap
    \/ \E u \in Users : Login(u) \/ Disconnect(u) \/ Register(u) \/ Die(u)
    \/ \E r \in RoomIds : Thread(r) \/ TimePasses(r) \/ TimeUp(r)
    \/ Restart

\* The threads are scheduled and the clock goes on; nobody has to log in, to
\* die or to leave.
Fairness == /\ WF_vars(Handler)
            /\ \A r \in RoomIds : WF_vars(Thread(r)) /\ WF_vars(TimePasses(r))

Spec == Init /\ [][Next]_vars /\ Fairness

-----------------------------------------------------------------------------
\* Between commands the seats of a room, its count and the rooms of its players
\* agree, whatever its thread is doing.
SlotsAgree ==
    At("idle") => \A r \in table : /\ count[r] = Cardinality(members[r])
                                   /\ members[r] = {u \in Users : room[u] = r}

\* Those who come back meet in one room, whatever the other games do to the map,
\* until a room of the game is destroyed (its entry in the map then hides every
\* later one, and each login makes a room) or is made when the map is full: the
\* games that take all the entries are the third party of the second exception.
OneRoomPerGame == ~destroyed /\ ~unmapped => Cardinality(table) <= 1

\* As long as the game goes on and not all were back at one time, who is missing
\* can still come back, the 30 seconds over or not (handler.c:153).
NobodyLockedOut ==
    At("idle") /\ ~destroyed /\ ~unmapped /\ ~allBack =>
        \A r \in table : status[r] = "gaming" => offer # {}

\* Who plays between commands plays in a game that goes on, or that ends and will
\* reset him: unless he came back when it was ending already.
NobodyStranded ==
    At("idle") =>
        \A u \in Users \ late : st[u] = "gaming" =>
            \/ status[room[u]] = "gaming"
            \/ thr[room[u]].pc = "reset" /\ u \in thr[room[u]].ids

\* Between commands a restart that can read the file costs no account but those
\* for which a save has failed since the last that succeeded: one's own, when it
\* could not open the file, or anyone's, when it broke off in the middle.  The
\* server has answered OK to each of them.
AccountsSaved == ~At("save") => users \ usersFile.known \subseteq unsaved

\* A recovered game does not wait for ever for those who do not come back.
WaitEnds == \A r \in RoomIds : expected[r] > 0 ~> expected[r] = 0

=============================================================================
