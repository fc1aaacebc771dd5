------------------------------ MODULE GoLobby ------------------------------
(***************************************************************************)
(* The lobby of the Go server, asciigame-go/internal/server.  Where the C  *)
(* server takes one command after the other, every HTTP request and every  *)
(* lost connection is handled by a goroutine of its own, and the client    *)
(* sends requests from goroutines too: two requests, even of one player,   *)
(* run side by side.  Every started game is a gameLoop() goroutine.        *)
(*                                                                         *)
(* An action is a critical section: what one hold of room.mu, player.mu or *)
(* a registry lock covers.  Goroutines are the requests at work.           *)
(*                                                                         *)
(* Left out: user names and tokens (a player has a token while he is       *)
(* registered), the TCP connection but for its loss, hit points, the map,  *)
(* the log and the return into a recovered game.                           *)
(***************************************************************************)
EXTENDS Integers, FiniteSets

CONSTANTS Players,         \* bound: players created, ids are never reused
          Rooms,           \* bound: rooms created, ids are never reused
          Goroutines,      \* bound: requests at work at one time
          Loops,           \* bound: game loops at one time
          MinRoomPlayers, MaxRoomPlayers,
          None

ASSUME GoLobbyAssumption ==
    /\ MinRoomPlayers \in Nat \ {0} /\ MaxRoomPlayers \in Nat
    /\ MinRoomPlayers <= MaxRoomPlayers
    /\ IsFiniteSet(Goroutines) /\ IsFiniteSet(Loops)
    /\ None \notin Players \cup Rooms

VARIABLES
    registered,       \* server.players
    status, roomID,   \* of each player
    rooms,            \* server.rooms
    born,             \* rooms ever made
    members, playerCount, roomStatus, running,   \* of each room
    req,              \* the request of each goroutine
    loop,             \* the game loops
    strays,           \* history: players one of the races below has hit
    refused           \* history: rooms whose startGame() was refused

playerVars == <<registered, status, roomID>>
registryVars == <<rooms, born>>
seatVars == <<members, playerCount>>
gameVars == <<roomStatus, running>>
vars == <<playerVars, registryVars, seatVars, gameVars, req, loop, strays, refused>>

Slots == 1..MaxRoomPlayers
InRoom == {"in_room", "ready", "gaming", "dead"}   \* status >= StatusInRoom
Statuses == {"none", "disconnected", "lobby"} \cup InRoom
Task(pc, op, p, r) == [pc |-> pc, op |-> op, p |-> p, r |-> r, last |-> FALSE, todo |-> {}]
NoRequest == Task("idle", "none", None, None)
NoLoop == [pc |-> "none", r |-> None, todo |-> {}]

RequestType ==
    [pc : {"idle", "seat", "seated", "unseat", "unseated", "destroy", "destroyed", "logout",
           "toggle", "collect", "check", "start", "place", "launch"},
     op : {"none", "create", "logout"}, p : Players \cup {None}, r : Rooms \cup {None},
     last : BOOLEAN, todo : SUBSET Players]
LoopType ==
    [pc : {"none", "begin", "top", "judge", "end", "reset"}, r : Rooms \cup {None},
     todo : SUBSET Players]

\* Every variable has its type, and no room counts less than none or more than
\* its limit.
TypeOK ==
    /\ registered \subseteq Players
    /\ status \in [Players -> Statuses] /\ roomID \in [Players -> Rooms \cup {None}]
    /\ rooms \subseteq born /\ born \subseteq Rooms
    /\ members \in [Rooms -> [Slots -> Players \cup {None}]]
    /\ playerCount \in [Rooms -> 0..MaxRoomPlayers]
    /\ roomStatus \in [Rooms -> {"waiting", "gaming", "ended"}]
    /\ running \in [Rooms -> BOOLEAN]
    /\ req \in [Goroutines -> RequestType] /\ loop \in [Loops -> LoopType]
    /\ strays \subseteq Players /\ refused \subseteq Rooms

Init ==
    /\ registered = {}
    /\ status = [p \in Players |-> "none"] /\ roomID = [p \in Players |-> None]
    /\ rooms = {} /\ born = {}
    /\ members = [r \in Rooms |-> [s \in Slots |-> None]]
    /\ playerCount = [r \in Rooms |-> 0]
    /\ roomStatus = [r \in Rooms |-> "waiting"] /\ running = [r \in Rooms |-> FALSE]
    /\ req = [g \in Goroutines |-> NoRequest] /\ loop = [l \in Loops |-> NoLoop]
    /\ strays = {} /\ refused = {}

-----------------------------------------------------------------------------
\* membersLocked().  What is done for each member is done in any order.
Taken(r) == {s \in Slots : members[r][s] # None}
Seated(r) == {members[r][s] : s \in Taken(r)}
IsSeated(p) == \E r \in Rooms : p \in Seated(r)

\* The player is between the two halves of addPlayer() or removePlayer().
Moving(p) == \E g \in Goroutines : req[g].p = p /\ req[g].pc \in {"seated", "unseated"}

At(g, pc) == req[g].pc = pc
\* op is kept where the way goes on differently.
Begin(g, pc, op, p, r) == req' = [req EXCEPT ![g] = Task(pc, op, p, r)]
Goto(g, pc) == req' = [req EXCEPT ![g].pc = pc]
Done(g) == req' = [req EXCEPT ![g] = NoRequest]
\* Only a logout needs its player again.
GotoDestroy(g) ==
    IF req[g].op = "logout" THEN Begin(g, "destroy", "logout", req[g].p, req[g].r)
    ELSE Begin(g, "destroy", "none", None, req[g].r)
\* What follows removePlayer(): a logout goes on, the others are over.
AfterRemoval(g) ==
    IF req[g].op = "logout" THEN Begin(g, "logout", "logout", req[g].p, None) ELSE Done(g)

\* History: these players' records may no longer agree from here on.
Stray(ps) == strays' = strays \cup ps

\* A write to the status of a member collected earlier goes astray if he has
\* left the room since; inside removePlayer() it is overwritten.
HasLeft(p, r) == roomID[p] # r /\ p \notin Seated(r)

-----------------------------------------------------------------------------
(***************************************************************************)
(* Requests.  What a handler tests before it takes the first lock to write *)
(* is its first action.                                                    *)
(***************************************************************************)
Login(p) ==
    /\ status[p] = "none"
    /\ registered' = registered \cup {p}
    /\ status' = [status EXCEPT ![p] = "lobby"]
    /\ UNCHANGED <<roomID, registryVars, seatVars, gameVars, req, loop, strays, refused>>

CreateRoom(g, p, r) ==
    /\ At(g, "idle") /\ p \in registered /\ status[p] = "lobby" /\ r \notin born
    /\ rooms' = rooms \cup {r} /\ born' = born \cup {r}
    /\ Begin(g, "seat", "create", p, r)
    /\ UNCHANGED <<playerVars, seatVars, gameVars, loop, strays, refused>>

JoinRoom(g, p, r) ==
    /\ At(g, "idle") /\ p \in registered /\ status[p] = "lobby" /\ r \in rooms
    /\ Begin(g, "seat", "none", p, r)
    /\ UNCHANGED <<playerVars, registryVars, seatVars, gameVars, loop, strays, refused>>

LeaveRoom(g, p) ==
    /\ At(g, "idle") /\ p \in registered /\ status[p] \in InRoom /\ roomID[p] \in rooms
    /\ Begin(g, "unseat", "none", p, roomID[p])
    /\ UNCHANGED <<playerVars, registryVars, seatVars, gameVars, loop, strays, refused>>

Ready(g, p) ==
    /\ At(g, "idle") /\ p \in registered
    /\ status[p] \in {"in_room", "ready"} /\ roomID[p] \in rooms
    /\ Begin(g, "toggle", "none", p, roomID[p])
    /\ UNCHANGED <<playerVars, registryVars, seatVars, gameVars, loop, strays, refused>>

Logout(g, p) ==
    /\ At(g, "idle") /\ p \in registered
    /\ IF roomID[p] \in rooms THEN Begin(g, "unseat", "logout", p, roomID[p])
       ELSE Begin(g, "logout", "logout", p, None)
    /\ UNCHANGED <<playerVars, registryVars, seatVars, gameVars, loop, strays, refused>>

\* disconnectTCP(): a connection may be lost, and made again, at any time, and
\* outlives the logout.
Drop(g, p) ==
    /\ At(g, "idle") /\ roomID[p] \in rooms
    /\ Begin(g, "unseat", "none", p, roomID[p])
    /\ UNCHANGED <<playerVars, registryVars, seatVars, gameVars, loop, strays, refused>>

-----------------------------------------------------------------------------
(***************************************************************************)
(* addPlayer(), removePlayer(), destroyRoom()                              *)
(***************************************************************************)
HasPlace(r) ==
    /\ roomStatus[r] # "gaming" /\ playerCount[r] < MaxRoomPlayers
    /\ \E s \in Slots : members[r][s] = None
FreeSlot(r) == CHOOSE s \in Slots : members[r][s] = None

\* Race: the player has logged out, has a seat already or is on his way to or
\* from one, or the room is gone.
Seat(g) == LET p == req[g].p  r == req[g].r IN
    /\ At(g, "seat") /\ HasPlace(r)
    /\ members' = [members EXCEPT ![r][FreeSlot(r)] = p]
    /\ playerCount' = [playerCount EXCEPT ![r] = @ + 1]
    /\ Stray(IF p \notin registered \/ IsSeated(p) \/ Moving(p) \/ r \notin rooms THEN {p} ELSE {})
    /\ req' = [req EXCEPT ![g].pc = "seated", ![g].op = "none"]
    /\ UNCHANGED <<playerVars, registryVars, gameVars, loop, refused>>

\* Others may have filled a room, or started its game, before its creator sits.
SeatRefused(g) ==
    /\ At(g, "seat") /\ ~HasPlace(req[g].r)
    /\ IF req[g].op = "create" THEN GotoDestroy(g) ELSE Done(g)
    /\ UNCHANGED <<playerVars, registryVars, seatVars, gameVars, loop, strays, refused>>

EnterRoom(g) == LET p == req[g].p IN
    /\ At(g, "seated")
    /\ roomID' = [roomID EXCEPT ![p] = req[g].r]
    /\ status' = [status EXCEPT ![p] = "in_room"]
    /\ Done(g)
    /\ UNCHANGED <<registered, registryVars, seatVars, gameVars, loop, strays, refused>>

\* Mutant of Unseat: the count goes down although the player has no seat.
UnseatUnfound(g) == LET p == req[g].p  r == req[g].r IN
    /\ At(g, "unseat")
    /\ members' = [members EXCEPT ![r] = [s \in Slots |-> IF @[s] = p THEN None ELSE @[s]]]
    /\ playerCount' = [playerCount EXCEPT ![r] = @ - 1]
    /\ req' = [req EXCEPT ![g].pc = "unseated", ![g].last = playerCount'[r] = 0]
    /\ UNCHANGED <<playerVars, registryVars, gameVars, loop, strays, refused>>

\* One of the player's seats.
Unseat(g) == LET p == req[g].p  r == req[g].r IN
    /\ At(g, "unseat")
    /\ \E s \in Slots :
        /\ members[r][s] = p
        /\ members' = [members EXCEPT ![r][s] = None]
    /\ playerCount' = [playerCount EXCEPT ![r] = @ - 1]
    /\ req' = [req EXCEPT ![g].pc = "unseated", ![g].last = playerCount'[r] = 0]
    /\ UNCHANGED <<playerVars, registryVars, gameVars, loop, strays, refused>>

NotSeated(g) ==
    /\ At(g, "unseat") /\ req[g].p \notin Seated(req[g].r)
    /\ AfterRemoval(g)
    /\ UNCHANGED <<playerVars, registryVars, seatVars, gameVars, loop, strays, refused>>

\* Mutant of ExitRoom: the room that has become empty stays.
ExitRoomOnly(g) == LET p == req[g].p IN
    /\ At(g, "unseated")
    /\ roomID' = [roomID EXCEPT ![p] = None]
    /\ status' = [status EXCEPT ![p] = "lobby"]
    /\ Stray(IF roomID[p] # req[g].r THEN {p} ELSE {})
    /\ AfterRemoval(g)
    /\ UNCHANGED <<registered, registryVars, seatVars, gameVars, loop, refused>>

\* Mutant of ExitRoom: roomID is left behind.
ExitRoomKeepsId(g) == LET p == req[g].p IN
    /\ At(g, "unseated")
    /\ status' = [status EXCEPT ![p] = "lobby"]
    /\ Stray(IF roomID[p] # req[g].r THEN {p} ELSE {})
    /\ IF req[g].last THEN GotoDestroy(g) ELSE AfterRemoval(g)
    /\ UNCHANGED <<registered, roomID, registryVars, seatVars, gameVars, loop, refused>>

\* Race: the player's roomID has not been written yet, or was cleared already.
ExitRoom(g) == LET p == req[g].p IN
    /\ At(g, "unseated")
    /\ roomID' = [roomID EXCEPT ![p] = None]
    /\ status' = [status EXCEPT ![p] = "lobby"]
    /\ Stray(IF roomID[p] # req[g].r THEN {p} ELSE {})
    /\ IF req[g].last THEN GotoDestroy(g) ELSE AfterRemoval(g)
    /\ UNCHANGED <<registered, registryVars, seatVars, gameVars, loop, refused>>

\* Race: a player has been seated since the room was found empty.
Unregister(g) ==
    /\ At(g, "destroy")
    /\ rooms' = rooms \ {req[g].r}
    /\ Stray(Seated(req[g].r))
    /\ Goto(g, "destroyed")
    /\ UNCHANGED <<playerVars, born, seatVars, gameVars, loop, refused>>

CloseRoom(g) == LET r == req[g].r IN
    /\ At(g, "destroyed")
    /\ running' = [running EXCEPT ![r] = FALSE]
    /\ roomStatus' = [roomStatus EXCEPT ![r] = "ended"]
    /\ AfterRemoval(g)
    /\ UNCHANGED <<playerVars, registryVars, seatVars, loop, strays, refused>>

\* Race: the player has been seated since his room was looked up.
LoggedOut(g) ==
    /\ At(g, "logout")
    /\ registered' = registered \ {req[g].p}
    /\ status' = [status EXCEPT ![req[g].p] = "disconnected"]
    /\ Stray(IF IsSeated(req[g].p) THEN {req[g].p} ELSE {})
    /\ Done(g)
    /\ UNCHANGED <<roomID, registryVars, seatVars, gameVars, loop, refused>>

-----------------------------------------------------------------------------
(***************************************************************************)
(* httpReady(), allReady(), startGame()                                    *)
(***************************************************************************)
\* Race: the player has left the room since his status was tested.
Toggle(g) == LET p == req[g].p IN
    /\ At(g, "toggle")
    /\ status' = [status EXCEPT ![p] = IF @ = "in_room" THEN "ready" ELSE "in_room"]
    /\ Stray(IF status[p] \notin InRoom THEN {p} ELSE {})
    /\ Begin(g, "collect", "none", None, req[g].r)
    /\ UNCHANGED <<registered, roomID, registryVars, seatVars, gameVars, loop, refused>>

CollectMembers(g) == LET r == req[g].r IN
    /\ At(g, "collect")
    /\ IF playerCount[r] < MinRoomPlayers THEN Done(g)
       ELSE req' = [req EXCEPT ![g].pc = "check", ![g].todo = Seated(r)]
    /\ UNCHANGED <<playerVars, registryVars, seatVars, gameVars, loop, strays, refused>>

CheckReady(g) ==
    /\ At(g, "check")
    /\ \E p \in req[g].todo :
          IF status[p] # "ready" THEN Done(g)
          ELSE req' = [req EXCEPT ![g].pc = IF req[g].todo = {p} THEN "start" ELSE "check",
                                  ![g].todo = @ \ {p}]
    /\ UNCHANGED <<playerVars, registryVars, seatVars, gameVars, loop, strays, refused>>

CanStart(r) == roomStatus[r] = "waiting" /\ playerCount[r] >= MinRoomPlayers

StartGame(g) == LET r == req[g].r IN
    /\ At(g, "start") /\ CanStart(r)
    /\ roomStatus' = [roomStatus EXCEPT ![r] = "gaming"]
    /\ req' = [req EXCEPT ![g].pc = "place", ![g].todo = Seated(r)]
    /\ UNCHANGED <<playerVars, registryVars, seatVars, running, loop, strays, refused>>

\* httpReady() does not look at the result: the loop is started all the same.
StartRefused(g) ==
    /\ At(g, "start") /\ ~CanStart(req[g].r)
    /\ refused' = refused \cup {req[g].r}
    /\ Goto(g, "launch")
    /\ UNCHANGED <<playerVars, registryVars, seatVars, gameVars, loop, strays>>

PlacePlayer(g) ==
    /\ At(g, "place")
    /\ \E p \in req[g].todo :
        /\ status' = [status EXCEPT ![p] = "gaming"]
        /\ Stray(IF HasLeft(p, req[g].r) THEN {p} ELSE {})
        /\ req' = [req EXCEPT ![g].pc = IF req[g].todo = {p} THEN "launch" ELSE "place",
                              ![g].todo = @ \ {p}]
    /\ UNCHANGED <<registered, roomID, registryVars, seatVars, gameVars, loop, refused>>

Launch(g) ==
    /\ At(g, "launch")
    /\ \E l \in Loops :
        /\ loop[l].pc = "none"
        /\ loop' = [loop EXCEPT ![l] = [pc |-> "begin", r |-> req[g].r, todo |-> {}]]
    /\ Done(g)
    /\ UNCHANGED <<playerVars, registryVars, seatVars, gameVars, strays, refused>>

-----------------------------------------------------------------------------
(***************************************************************************)
(* gameLoop(), checkEnd(), endGame(), and the ways to die                  *)
(***************************************************************************)
LoopAt(l, pc) == loop[l].pc = pc
LoopGoto(l, pc) == loop' = [loop EXCEPT ![l].pc = pc]
LoopDone(l) == loop' = [loop EXCEPT ![l] = NoLoop]

LoopBegins(l) ==
    /\ LoopAt(l, "begin")
    /\ running' = [running EXCEPT ![loop[l].r] = TRUE]
    /\ LoopGoto(l, "top")
    /\ UNCHANGED <<playerVars, registryVars, seatVars, roomStatus, req, strays, refused>>

Tick(l) == LET r == loop[l].r IN
    /\ LoopAt(l, "top")
    /\ IF running[r] /\ roomStatus[r] = "gaming" THEN LoopGoto(l, "judge") ELSE LoopDone(l)
    /\ UNCHANGED <<playerVars, registryVars, seatVars, gameVars, req, strays, refused>>

Dies(p) ==
    /\ status[p] = "gaming"
    /\ status' = [status EXCEPT ![p] = "dead"]
    /\ UNCHANGED <<registered, roomID, registryVars, seatVars, gameVars, req, loop, strays, refused>>

Poison(l) == LoopAt(l, "judge") /\ \E p \in Seated(loop[l].r) : Dies(p)

Attack(p) ==
    /\ status[p] = "gaming" /\ roomID[p] \in rooms
    /\ \E q \in Seated(roomID[p]) \ {p} : Dies(q)

Alive(r) == {p \in Seated(r) : status[p] = "gaming"}

\* checkEnd() sees two players alive, or at most one of them, or the end of
\* GameMaxDuration.
GoOn(l) ==
    /\ LoopAt(l, "judge") /\ Cardinality(Alive(loop[l].r)) >= 2
    /\ LoopGoto(l, "top")
    /\ UNCHANGED <<playerVars, registryVars, seatVars, gameVars, req, strays, refused>>

Decide(l) ==
    /\ LoopAt(l, "judge")
    /\ LoopGoto(l, "end")
    /\ UNCHANGED <<playerVars, registryVars, seatVars, gameVars, req, strays, refused>>

\* Mutant of EndGame: only the living are collected.
EndGameLiving(l) == LET r == loop[l].r IN
    /\ LoopAt(l, "end")
    /\ roomStatus' = [roomStatus EXCEPT ![r] = "ended"]
    /\ running' = [running EXCEPT ![r] = FALSE]
    /\ loop' = [loop EXCEPT ![l].pc = "reset",
                            ![l].todo = {p \in Seated(r) : status[p] = "gaming"}]
    /\ UNCHANGED <<playerVars, registryVars, seatVars, req, strays, refused>>

EndGame(l) == LET r == loop[l].r IN
    /\ LoopAt(l, "end")
    /\ roomStatus' = [roomStatus EXCEPT ![r] = "ended"]
    /\ running' = [running EXCEPT ![r] = FALSE]
    /\ loop' = [loop EXCEPT ![l].pc = "reset", ![l].todo = Seated(r)]
    /\ UNCHANGED <<playerVars, registryVars, seatVars, req, strays, refused>>

ResetPlayer(l) ==
    /\ LoopAt(l, "reset")
    /\ \E p \in loop[l].todo :
        /\ status' = [status EXCEPT ![p] = "in_room"]
        /\ Stray(IF HasLeft(p, loop[l].r) THEN {p} ELSE {})
        /\ loop' = [loop EXCEPT ![l].todo = @ \ {p}]
    /\ UNCHANGED <<registered, roomID, registryVars, seatVars, gameVars, req, refused>>

ResetRoom(l) ==
    /\ LoopAt(l, "reset") /\ loop[l].todo = {}
    /\ roomStatus' = [roomStatus EXCEPT ![loop[l].r] = "waiting"]
    /\ LoopDone(l)
    /\ UNCHANGED <<playerVars, registryVars, seatVars, running, req, strays, refused>>

-----------------------------------------------------------------------------
Request(g) ==
    \/ \E p \in Players, r \in Rooms : CreateRoom(g, p, r) \/ JoinRoom(g, p, r)
    \/ \E p \in Players : LeaveRoom(g, p) \/ Ready(g, p) \/ Logout(g, p) \/ Drop(g, p)
    \/ Seat(g) \/ SeatRefused(g) \/ EnterRoom(g)
    \/ Unseat(g) \/ NotSeated(g) \/ ExitRoom(g) \/ Unregister(g) \/ CloseRoom(g) \/ LoggedOut(g)
    \/ Toggle(g) \/ CollectMembers(g) \/ CheckReady(g)
    \/ StartGame(g) \/ StartRefused(g) \/ PlacePlayer(g) \/ Launch(g)

GameLoop(l) ==
    \/ LoopBegins(l) \/ Tick(l) \/ Poison(l) \/ GoOn(l) \/ Decide(l)
    \/ EndGame(l) \/ ResetPlayer(l) \/ ResetRoom(l)

Next ==
    \/ \E p \in Players : Login(p) \/ Attack(p)
    \/ \E g \in Goroutines : Request(g)
    \/ \E l \in Loops : GameLoop(l)

Spec == Init /\ [][Next]_vars

-----------------------------------------------------------------------------
(***************************************************************************)
(* Properties.                                                             *)
(***************************************************************************)
\* playerCount is the number of seats taken in every room, with a leave, a
\* logout and a lost connection of one player removing him at once
\* (removePlayer(), room.go:183-198).
CountAgrees == \A r \in Rooms : playerCount[r] = Cardinality(Taken(r))

\* A room of the registry without members has somebody on the way to sit down
\* in it or to destroy it: no sequence of joins and departures leaves a dead
\* room in the list (http.go:174, room.go:206-210).
NoDeadRoom ==
    \A r \in rooms : Seated(r) = {} =>
        \E g \in Goroutines : /\ req[g].r = r
                              /\ \/ req[g].pc \in {"seat", "destroy"}
                                 \/ At(g, "unseated") /\ req[g].last

\* The races marked above are all there are: a player none of them has hit, and
\* who is not between the two halves of addPlayer() or removePlayer(), sits in
\* the room his roomID says, and only there; the room is registered; and he has
\* the status of a player in a room exactly then (room.go:146-211, http.go).
SeatsAgree ==
    \A p \in Players \ strays : ~Moving(p) =>
        /\ status[p] \in InRoom <=> roomID[p] # None
        /\ roomID[p] # None => roomID[p] \in rooms
        /\ \A r \in Rooms : p \in Seated(r) <=> roomID[p] = r

\* A loop that is at work for a game, or about to be.
Starting(r) == \/ \E g \in Goroutines : req[g].r = r /\ req[g].pc \in {"place", "launch"}
               \/ \E l \in Loops : loop[l].r = r /\ LoopAt(l, "begin")
LoopsOf(r) == {l \in Loops : loop[l].r = r}
Starters(r) == {g \in Goroutines : req[g].r = r /\ req[g].pc \in {"place", "launch"}}

\* A room in a game has a loop that runs or is being started; and as long as
\* startGame() has refused none of two concurrent READYs, it has one loop, and
\* its players are in a game only while that loop, or its start, is at work:
\* nobody is left playing in a room nothing moves any more (http.go:265-272,
\* game.go:425-464, 468-532).
GamesRun ==
    \A r \in Rooms :
        /\ roomStatus[r] = "gaming" =>
              \/ Starting(r)
              \/ running[r] /\ \E l \in LoopsOf(r) : loop[l].pc \in {"top", "judge", "end"}
        /\ r \notin refused =>
              /\ Cardinality(LoopsOf(r)) + Cardinality(Starters(r)) <= 1
              /\ (\E p \in Seated(r) \ strays : ~Moving(p) /\ status[p] \in {"gaming", "dead"})
                    => LoopsOf(r) # {} \/ Starters(r) # {}
=============================================================================
