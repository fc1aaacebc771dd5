--------------------------- MODULE GoLobby_proofs ---------------------------
(***************************************************************************)
(* What holds of the lobby of the Go server for any number of players,     *)
(* rooms, concurrent requests and game loops.                              *)
(***************************************************************************)
EXTENDS GoLobby, FiniteSetTheorems, TLAPS

-----------------------------------------------------------------------------
(***************************************************************************)
(* The inductive invariant.                                                *)
(***************************************************************************)
\* What a goroutine and a game loop hold on to at each step of their way.
Wired ==
    /\ \A g \in Goroutines :
        /\ req[g].pc \notin {"idle", "logout"} => req[g].r \in born
        /\ (\/ req[g].pc \in {"seat", "seated", "unseat", "unseated", "toggle", "logout"}
            \/ req[g].op = "logout") => req[g].p \in Players
        /\ req[g].pc = "destroyed" => req[g].r \notin rooms
        /\ req[g].todo \subseteq Players
    /\ \A l \in Loops : IF loop[l].pc = "none" THEN loop[l].r = None ELSE loop[l].r \in born

\* Nobody but strays sits in a room that is not registered.
DeadRooms == \A r \in Rooms \ rooms : Seated(r) \subseteq strays

\* NoDeadRoom, with what remains to be done of a createRoom() that finds its
\* room full.
RoomsAttended ==
    \A r \in rooms : Seated(r) = {} =>
        \E g \in Goroutines : /\ req[g].r = r
                              /\ \/ At(g, "seat") /\ req[g].op = "create"
                                 \/ At(g, "destroy")
                                 \/ At(g, "unseated") /\ req[g].last

\* The goroutines between the two halves of addPlayer() or removePlayer().
Movers(p) == {g \in Goroutines : req[g].p = p /\ req[g].pc \in {"seated", "unseated"}}

\* The places a player no race has hit can be in.
Out(p) ==
    Movers(p) = {} /\ roomID[p] = None /\ ~IsSeated(p) /\ status[p] \notin InRoom
GoingIn(p) ==
    /\ roomID[p] = None
    /\ \E g \in Goroutines : /\ Movers(p) = {g} /\ At(g, "seated")
                             /\ \A r \in Rooms : p \in Seated(r) <=> r = req[g].r
In(p) ==
    /\ Movers(p) = {} /\ roomID[p] # None /\ status[p] \in InRoom
    /\ \A r \in Rooms : p \in Seated(r) <=> r = roomID[p]
GoingOut(p) ==
    /\ ~IsSeated(p)
    /\ \E g \in Goroutines : /\ Movers(p) = {g} /\ At(g, "unseated")
                             /\ roomID[p] = req[g].r
\* Taken off his seat before his roomID was written.
Crossed(p) ==
    /\ ~IsSeated(p) /\ roomID[p] = None
    /\ \E g, h \in Goroutines : /\ Movers(p) = {g, h} /\ At(g, "seated") /\ At(h, "unseated")
                                /\ req[g].r = req[h].r

OneSeat(p) ==
    \A r \in Rooms, s, t \in Slots : members[r][s] = p /\ members[r][t] = p => s = t

Somewhere(p) == OneSeat(p) /\ (Out(p) \/ GoingIn(p) \/ In(p) \/ GoingOut(p) \/ Crossed(p))

Whereabouts == \A p \in Players \ strays : Somewhere(p)

\* The life of the games of room r, and that a player is in a game only while
\* its start or its loop has still to put him back.
GameMoves(r) ==
    roomStatus[r] = "gaming" =>
        \/ Starting(r)
        \/ running[r] /\ \E l \in LoopsOf(r) : loop[l].pc \in {"top", "judge", "end"}
OneLoop(r) ==
    r \notin refused =>
        /\ \A l, k \in LoopsOf(r) : l = k
        /\ \A g, h \in Starters(r) : g = h
        /\ LoopsOf(r) = {} \/ Starters(r) = {}
        /\ roomStatus[r] = "waiting" => LoopsOf(r) = {} /\ Starters(r) = {}
Endings(r) ==
    /\ r \in rooms /\ roomStatus[r] = "ended" => \E l \in LoopsOf(r) : LoopAt(l, "reset")
    /\ r \notin born => roomStatus[r] = "waiting"
Awaited(p, r) ==
    \/ Starters(r) # {}
    \/ \E l \in LoopsOf(r) : LoopAt(l, "reset") => p \in loop[l].todo
InGame(p, r) ==
    p \in Seated(r) /\ p \notin strays /\ Movers(p) = {} /\ status[p] \in {"gaming", "dead"}
PlayersAwaited(r) == r \notin refused => \A p \in Players : InGame(p, r) => Awaited(p, r)

Games == \A r \in Rooms : GameMoves(r) /\ OneLoop(r) /\ Endings(r) /\ PlayersAwaited(r)

IInv == /\ TypeOK /\ Wired /\ CountAgrees /\ DeadRooms /\ RoomsAttended /\ Whereabouts /\ Games

-----------------------------------------------------------------------------
(* Types, counts and local variables. *)

LEMMA SlotsFinite == IsFiniteSet(Slots) /\ Slots \subseteq Int
  BY GoLobbyAssumption, FS_Interval DEF Slots

\* The slots taken in a room are finitely many, at most as many as there are.
LEMMA TakenFinite ==
  ASSUME NEW r \in Rooms
  PROVE  IsFiniteSet(Taken(r)) /\ Cardinality(Taken(r)) \in Nat
  BY SlotsFinite, FS_Subset, FS_CardinalityType DEF Taken

LEMMA InitBasics == Init => TypeOK /\ CountAgrees /\ Wired
<1> SUFFICES ASSUME Init PROVE TypeOK /\ CountAgrees /\ Wired
  OBVIOUS
<1> USE GoLobbyAssumption DEF Init
<1>1. TypeOK
  <2>1. req \in [Goroutines -> RequestType]
    BY DEF NoRequest, Task, RequestType
  <2>2. loop \in [Loops -> LoopType]
    BY DEF NoLoop, LoopType
  <2> QED BY <2>1, <2>2 DEF TypeOK, Statuses, InRoom
<1>2. CountAgrees
  <2> SUFFICES ASSUME NEW r \in Rooms PROVE playerCount[r] = Cardinality(Taken(r))
    BY DEF CountAgrees
  <2>1. Taken(r) = {}
    BY DEF Taken
  <2> QED BY <2>1, FS_EmptySet
<1>3. Wired
  BY DEF Wired, NoRequest, Task, NoLoop
<1> QED BY <1>1, <1>2, <1>3


-----------------------------------------------------------------------------
(* Types and local variables: one step per action. *)

PCs == {"idle", "seat", "seated", "unseat", "unseated", "destroy", "destroyed", "logout",
        "toggle", "collect", "check", "start", "place", "launch"}
Ops == {"none", "create", "logout"}

LEMMA TaskTyped ==
  ASSUME NEW pc \in PCs, NEW op \in Ops, NEW p \in Players \cup {None}, NEW r \in Rooms \cup {None}
  PROVE  Task(pc, op, p, r) \in RequestType
  BY DEF Task, RequestType, PCs, Ops

LEMMA FieldsTyped ==
  ASSUME NEW q \in RequestType
  PROVE  /\ q.pc \in PCs /\ q.op \in Ops /\ q.p \in Players \cup {None}
         /\ q.r \in Rooms \cup {None} /\ q.last \in BOOLEAN /\ q.todo \subseteq Players
         /\ \A pc \in PCs : [q EXCEPT !.pc = pc] \in RequestType
         /\ \A op \in Ops : [q EXCEPT !.op = op] \in RequestType
         /\ \A b \in BOOLEAN : [q EXCEPT !.last = b] \in RequestType
         /\ \A S \in SUBSET Players : [q EXCEPT !.todo = S] \in RequestType
  BY DEF RequestType, PCs, Ops

LEMMA NoRequestTyped == NoRequest \in RequestType
  BY DEF NoRequest, Task, RequestType

LEMMA SeatedPlayers ==
  ASSUME TypeOK, NEW r \in Rooms
  PROVE  Seated(r) \subseteq Players
  BY DEF TypeOK, Seated, Taken

LEMMA RequestsTyped ==
  ASSUME TypeOK, Wired, NEW g \in Goroutines, Request(g)
  PROVE  req' \in [Goroutines -> RequestType]
<1> USE GoLobbyAssumption
<1> DEFINE T == [Goroutines -> RequestType]
           q == req[g]
<1>0. /\ req \in T /\ q \in RequestType /\ rooms \subseteq Rooms
      /\ roomID \in [Players -> Rooms \cup {None}]
  BY DEF TypeOK
<1>q. /\ q.pc \in PCs /\ q.op \in Ops /\ q.p \in Players \cup {None}
      /\ q.r \in Rooms \cup {None} /\ q.last \in BOOLEAN /\ q.todo \subseteq Players
  BY <1>0, FieldsTyped
<1>w. q.pc \notin {"idle", "logout"} => q.r \in Rooms
  BY DEF Wired, TypeOK
<1>p. /\ \A x \in {"seat", "seated", "unseat", "unseated", "destroy", "destroyed", "logout",
                   "toggle", "collect", "check", "start", "place", "launch"} : x \in PCs
      /\ \A x \in {"none", "create", "logout"} : x \in Ops
  BY DEF PCs, Ops
<1>s. ASSUME NEW x \in RequestType PROVE [req EXCEPT ![g] = x] \in T
  BY <1>0
<1>b. ASSUME NEW pc \in PCs, NEW op \in Ops, NEW p \in Players \cup {None},
             NEW r \in Rooms \cup {None}, Begin(g, pc, op, p, r)
      PROVE  req' \in T
  BY <1>b, <1>s, TaskTyped DEF Begin
<1>d. ASSUME Done(g) PROVE req' \in T
  BY <1>d, <1>s, NoRequestTyped DEF Done
<1>g. ASSUME NEW pc \in PCs, Goto(g, pc) PROVE req' \in T
  <2>1. [q EXCEPT !.pc = pc] \in RequestType
    BY <1>0, FieldsTyped
  <2> QED BY <1>g, <1>s, <2>1 DEF Goto
<1>1. ASSUME NEW p \in Players, NEW r \in Rooms, CreateRoom(g, p, r) \/ JoinRoom(g, p, r)
      PROVE  req' \in T
  BY <1>b, <1>p, <1>1 DEF CreateRoom, JoinRoom
<1>2. ASSUME NEW p \in Players, LeaveRoom(g, p) \/ Ready(g, p) \/ Drop(g, p)
      PROVE  req' \in T
  <2>1. roomID[p] \in Rooms \cup {None}
    BY <1>0
  <2> QED BY <1>b, <1>p, <1>2, <2>1 DEF LeaveRoom, Ready, Drop
<1>3. ASSUME NEW p \in Players, Logout(g, p)
      PROVE  req' \in T
  <2>1. roomID[p] \in Rooms \cup {None}
    BY <1>0
  <2> QED BY <1>b, <1>p, <1>3, <2>1 DEF Logout
<1>r. ASSUME AfterRemoval(g) PROVE req' \in T
  BY <1>r, <1>b, <1>d, <1>p, <1>q DEF AfterRemoval
<1>y. ASSUME GotoDestroy(g) PROVE req' \in T
  BY <1>y, <1>b, <1>p, <1>q DEF GotoDestroy
<1>4. CASE Seat(g)
  <2>1. [q EXCEPT !.pc = "seated"] \in RequestType
    BY <1>0, <1>p, FieldsTyped
  <2>2. [[q EXCEPT !.pc = "seated"] EXCEPT !.op = "none"] \in RequestType
    BY <2>1, <1>p, FieldsTyped
  <2>3. [q EXCEPT !.pc = "seated", !.op = "none"] \in RequestType
    BY <2>2
  <2>4. req' = [req EXCEPT ![g] = [q EXCEPT !.pc = "seated", !.op = "none"]]
    BY <1>4 DEF Seat
  <2> QED BY <1>s, <2>3, <2>4
<1>5. CASE SeatRefused(g)
  BY <1>5, <1>y, <1>d DEF SeatRefused
<1>6. CASE EnterRoom(g) \/ LoggedOut(g)
  BY <1>6, <1>d DEF EnterRoom, LoggedOut
<1>7. CASE Unseat(g)
  <2> DEFINE b == playerCount'[q.r] = 0
  <2>1. [q EXCEPT !.pc = "unseated"] \in RequestType
    BY <1>0, <1>p, FieldsTyped
  <2>2. [[q EXCEPT !.pc = "unseated"] EXCEPT !.last = b] \in RequestType
    <3>1. b \in BOOLEAN
      OBVIOUS
    <3> HIDE DEF b
    <3> QED BY <2>1, <3>1, FieldsTyped
  <2>3. req' = [req EXCEPT ![g] = [[q EXCEPT !.pc = "unseated"] EXCEPT !.last = b]]
    BY <1>7 DEF Unseat
  <2> QED BY <1>s, <2>2, <2>3
<1>8. CASE NotSeated(g) \/ CloseRoom(g)
  BY <1>8, <1>r DEF NotSeated, CloseRoom
<1>9. CASE ExitRoom(g)
  BY <1>9, <1>r, <1>y DEF ExitRoom
<1>10. CASE Unregister(g) \/ StartRefused(g)
  BY <1>10, <1>g, <1>p DEF Unregister, StartRefused
<1>11. CASE Toggle(g)
  BY <1>11, <1>b, <1>p, <1>q DEF Toggle
<1>t. ASSUME NEW pc \in PCs, NEW S \in SUBSET Players
      PROVE  [req EXCEPT ![g].pc = pc, ![g].todo = S] \in T
  <2>1. [q EXCEPT !.pc = pc] \in RequestType
    BY <1>0, FieldsTyped
  <2>2. [[q EXCEPT !.pc = pc] EXCEPT !.todo = S] \in RequestType
    BY <2>1, FieldsTyped
  <2> QED BY <1>s, <2>2
<1>12. CASE CollectMembers(g) \/ StartGame(g)
  <2>1. Seated(q.r) \in SUBSET Players
    BY <1>12, <1>w, SeatedPlayers DEF CollectMembers, StartGame, At
  <2>2. /\ [req EXCEPT ![g].pc = "check", ![g].todo = Seated(q.r)] \in T
        /\ [req EXCEPT ![g].pc = "place", ![g].todo = Seated(q.r)] \in T
    BY <1>t, <1>p, <2>1
  <2>3. \/ Done(g)
        \/ req' = [req EXCEPT ![g].pc = "check", ![g].todo = Seated(q.r)]
        \/ req' = [req EXCEPT ![g].pc = "place", ![g].todo = Seated(q.r)]
    BY <1>12 DEF CollectMembers, StartGame
  <2> QED BY <1>d, <2>2, <2>3, Zenon
<1>13. CASE CheckReady(g) \/ PlacePlayer(g)
  <2> DEFINE U(p, pc) == [req EXCEPT ![g].pc = pc, ![g].todo = @ \ {p}]
  <2>1. ASSUME NEW p \in q.todo, NEW pc \in PCs PROVE U(p, pc) \in T
    <3>1. q.todo \ {p} \in SUBSET Players
      BY <1>q
    <3>2. [req EXCEPT ![g].pc = pc, ![g].todo = q.todo \ {p}] \in T
      BY <1>t, <3>1
    <3> QED BY <3>2
  <2>2. CASE CheckReady(g)
    <3>1. PICK p \in q.todo :
             \/ Done(g)
             \/ req' = U(p, IF q.todo = {p} THEN "start" ELSE "check")
      BY <2>2 DEF CheckReady
    <3>2. (IF q.todo = {p} THEN "start" ELSE "check") \in PCs
      BY <1>p
    <3> HIDE DEF U
    <3> QED BY <1>d, <2>1, <3>1, <3>2
  <2>3. CASE PlacePlayer(g)
    <3>1. PICK p \in q.todo : req' = U(p, IF q.todo = {p} THEN "launch" ELSE "place")
      BY <2>3 DEF PlacePlayer
    <3>2. (IF q.todo = {p} THEN "launch" ELSE "place") \in PCs
      BY <1>p
    <3> HIDE DEF U
    <3> QED BY <2>1, <3>1, <3>2
  <2> QED BY <1>13, <2>2, <2>3
<1>14. CASE Launch(g)
  BY <1>14, <1>d DEF Launch
<1> QED BY <1>1, <1>2, <1>3, <1>4, <1>5, <1>6, <1>7, <1>8, <1>9, <1>10, <1>11, <1>12, <1>13, <1>14
     DEF Request

PlayerTypes == /\ registered \subseteq Players
               /\ status \in [Players -> Statuses] /\ roomID \in [Players -> Rooms \cup {None}]
               /\ strays \subseteq Players
RoomTypes == /\ rooms \subseteq born /\ born \subseteq Rooms
             /\ members \in [Rooms -> [Slots -> Players \cup {None}]]
             /\ playerCount \in [Rooms -> Int]
             /\ roomStatus \in [Rooms -> {"waiting", "gaming", "ended"}]
             /\ running \in [Rooms -> BOOLEAN] /\ refused \subseteq Rooms

\* Where a request is, what it holds on to is a room and, where it is needed, a
\* player.
LEMMA WiredRequest ==
  ASSUME TypeOK, Wired, NEW g \in Goroutines
  PROVE  /\ \A pc \in {"seat", "seated", "unseat", "unseated", "destroy", "destroyed", "toggle",
                       "collect", "check", "start", "place", "launch"} :
                At(g, pc) => req[g].r \in Rooms /\ req[g].r \in born
         /\ \A pc \in {"seat", "seated", "unseat", "unseated", "toggle", "logout"} :
                At(g, pc) => req[g].p \in Players
         /\ req[g].todo \subseteq Players
<1>1. born \subseteq Rooms
  BY DEF TypeOK
<1>2. req[g].pc \notin {"idle", "logout"} => req[g].r \in born
  BY DEF Wired
<1> QED BY <1>1, <1>2 DEF Wired, At

LEMMA RequestTypes ==
  ASSUME TypeOK, Wired, NEW g \in Goroutines, Request(g)
  PROVE  PlayerTypes' /\ RoomTypes'
<1> USE GoLobbyAssumption
<1> DEFINE q == req[g]
<1>0. PlayerTypes /\ RoomTypes
  <2>1. playerCount \in [Rooms -> Int]
    BY DEF TypeOK
  <2> QED BY <2>1 DEF TypeOK, PlayerTypes, RoomTypes
<1>w. /\ \A pc \in {"seat", "seated", "unseat", "unseated", "destroy", "destroyed", "toggle",
                    "collect", "check", "start", "place", "launch"} : At(g, pc) => q.r \in Rooms
      /\ \A pc \in {"seat", "seated", "unseat", "unseated", "toggle", "logout"} :
             At(g, pc) => q.p \in Players
      /\ q.todo \subseteq Players
  BY WiredRequest
<1>s. /\ "lobby" \in Statuses /\ "in_room" \in Statuses /\ "ready" \in Statuses
      /\ "gaming" \in Statuses /\ "disconnected" \in Statuses
  BY DEF Statuses, InRoom
<1>u. ASSUME UNCHANGED playerVars, UNCHANGED strays PROVE PlayerTypes'
  BY <1>0, <1>u DEF PlayerTypes, playerVars
<1>v. ASSUME UNCHANGED <<registryVars, seatVars, gameVars, refused>> PROVE RoomTypes'
  BY <1>0, <1>v DEF RoomTypes, registryVars, seatVars, gameVars
<1>1. ASSUME NEW p \in Players, NEW r \in Rooms, CreateRoom(g, p, r) \/ JoinRoom(g, p, r)
      PROVE  PlayerTypes' /\ RoomTypes'
  <2>1. PlayerTypes'
    BY <1>1, <1>u DEF CreateRoom, JoinRoom
  <2>2. RoomTypes'
    BY <1>0, <1>1 DEF CreateRoom, JoinRoom, RoomTypes, registryVars, seatVars, gameVars
  <2> QED BY <2>1, <2>2
<1>2. ASSUME NEW p \in Players, LeaveRoom(g, p) \/ Ready(g, p) \/ Drop(g, p) \/ Logout(g, p)
      PROVE  PlayerTypes' /\ RoomTypes'
  BY <1>2, <1>u, <1>v DEF LeaveRoom, Ready, Drop, Logout
<1>3. CASE SeatRefused(g) \/ NotSeated(g) \/ CollectMembers(g) \/ CheckReady(g) \/ Launch(g)
  BY <1>3, <1>u, <1>v DEF SeatRefused, NotSeated, CollectMembers, CheckReady, Launch
<1>4. CASE Seat(g)
  <2>1. q.p \in Players
    BY <1>4, <1>w DEF Seat
  <2>2. PlayerTypes'
    BY <1>0, <1>4, <2>1 DEF Seat, Stray, PlayerTypes, playerVars
  <2>3. /\ members' = [members EXCEPT ![q.r][FreeSlot(q.r)] = q.p]
        /\ playerCount' = [playerCount EXCEPT ![q.r] = @ + 1]
        /\ UNCHANGED <<registryVars, gameVars, refused>>
    BY <1>4 DEF Seat
  <2>4. members' \in [Rooms -> [Slots -> Players \cup {None}]]
    <3> DEFINE x == FreeSlot(q.r)
    <3>1. \A f \in [Slots -> Players \cup {None}] : [f EXCEPT ![x] = q.p] \in [Slots -> Players \cup {None}]
      BY <2>1
    <3>2. members' = [members EXCEPT ![q.r] = [members[q.r] EXCEPT ![x] = q.p]]
      BY <2>3
    <3> HIDE DEF x
    <3> QED BY <1>0, <3>1, <3>2 DEF RoomTypes
  <2>5. playerCount' \in [Rooms -> Int]
    <3>1. q.r \in Rooms
      BY <1>4, <1>w DEF Seat
    <3>2. playerCount[q.r] + 1 \in Int
      BY <1>0, <3>1 DEF RoomTypes
    <3> QED BY <1>0, <2>3, <3>2 DEF RoomTypes
  <2> QED BY <1>0, <2>2, <2>3, <2>4, <2>5 DEF RoomTypes, registryVars, gameVars
<1>5. CASE EnterRoom(g)
  <2>1. q.p \in Players /\ q.r \in Rooms
    BY <1>5, <1>w DEF EnterRoom
  <2> QED BY <1>0, <1>5, <1>s, <1>v, <2>1 DEF EnterRoom, PlayerTypes
<1>6. CASE Unseat(g)
  <2>1. PICK s \in Slots : members' = [members EXCEPT ![q.r][s] = None]
    BY <1>6 DEF Unseat
  <2>2. /\ playerCount' = [playerCount EXCEPT ![q.r] = @ - 1]
        /\ UNCHANGED <<playerVars, registryVars, gameVars, strays, refused>>
    BY <1>6 DEF Unseat
  <2>3. members' \in [Rooms -> [Slots -> Players \cup {None}]]
    <3>1. \A f \in [Slots -> Players \cup {None}] : [f EXCEPT ![s] = None] \in [Slots -> Players \cup {None}]
      OBVIOUS
    <3>2. members' = [members EXCEPT ![q.r] = [members[q.r] EXCEPT ![s] = None]]
      BY <2>1
    <3> QED BY <1>0, <3>1, <3>2 DEF RoomTypes
  <2>4. playerCount' \in [Rooms -> Int]
    <3>1. q.r \in Rooms
      BY <1>6, <1>w DEF Unseat
    <3>2. playerCount[q.r] - 1 \in Int
      BY <1>0, <3>1 DEF RoomTypes
    <3> QED BY <1>0, <2>2, <3>2 DEF RoomTypes
  <2> QED BY <1>0, <1>u, <2>2, <2>3, <2>4 DEF RoomTypes, registryVars, gameVars
<1>7. CASE ExitRoom(g)
  <2>1. q.p \in Players
    BY <1>7, <1>w DEF ExitRoom
  <2> QED BY <1>0, <1>7, <1>s, <1>v, <2>1 DEF ExitRoom, Stray, PlayerTypes
<1>8. CASE Unregister(g)
  <2>1. Seated(q.r) \subseteq Players
    BY <1>8, <1>w, SeatedPlayers DEF Unregister
  <2>2. PlayerTypes'
    BY <1>0, <1>8, <2>1 DEF Unregister, Stray, PlayerTypes, playerVars
  <2> QED BY <1>0, <1>8, <2>2 DEF Unregister, RoomTypes, seatVars, gameVars
<1>9. CASE CloseRoom(g)
  BY <1>0, <1>9, <1>u DEF CloseRoom, RoomTypes, registryVars, seatVars
<1>10. CASE LoggedOut(g)
  <2>1. q.p \in Players
    BY <1>10, <1>w DEF LoggedOut
  <2> QED BY <1>0, <1>10, <1>s, <1>v, <2>1 DEF LoggedOut, Stray, PlayerTypes
<1>11. CASE Toggle(g)
  <2>1. q.p \in Players
    BY <1>11, <1>w DEF Toggle
  <2> QED BY <1>0, <1>11, <1>s, <1>v, <2>1 DEF Toggle, Stray, PlayerTypes
<1>12. CASE StartGame(g)
  BY <1>0, <1>12, <1>u DEF StartGame, RoomTypes, registryVars, seatVars
<1>13. CASE StartRefused(g)
  <2>1. q.r \in Rooms
    BY <1>13, <1>w DEF StartRefused
  <2> QED BY <1>0, <1>13, <1>u, <2>1 DEF StartRefused, RoomTypes, registryVars, seatVars, gameVars
<1>14. CASE PlacePlayer(g)
  <2>1. PICK p \in q.todo : /\ status' = [status EXCEPT ![p] = "gaming"]
                            /\ Stray(IF HasLeft(p, q.r) THEN {p} ELSE {})
    BY <1>14 DEF PlacePlayer
  <2>2. PlayerTypes'
    BY <1>0, <1>14, <1>s, <1>w, <2>1 DEF PlacePlayer, Stray, PlayerTypes
  <2> QED BY <1>14, <1>v, <2>2 DEF PlacePlayer
<1> QED BY <1>1, <1>2, <1>3, <1>4, <1>5, <1>6, <1>7, <1>8, <1>9, <1>10, <1>11, <1>12, <1>13, <1>14
     DEF Request

LEMMA LoopsTyped ==
  ASSUME TypeOK, Wired, NEW l \in Loops, GameLoop(l)
  PROVE  loop' \in [Loops -> LoopType] /\ PlayerTypes' /\ RoomTypes'
<1> USE GoLobbyAssumption
<1> DEFINE k == loop[l]
           T == [Loops -> LoopType]
<1>0. PlayerTypes /\ RoomTypes /\ loop \in T /\ k \in LoopType
  <2>1. playerCount \in [Rooms -> Int]
    BY DEF TypeOK
  <2> QED BY <2>1 DEF TypeOK, PlayerTypes, RoomTypes
<1>r. k.pc # "none" => k.r \in Rooms
  BY DEF Wired, TypeOK
<1>t. k.todo \subseteq Players
  BY <1>0 DEF LoopType
<1>s. "in_room" \in Statuses /\ "dead" \in Statuses
  BY DEF Statuses, InRoom
<1>x. ASSUME NEW x \in LoopType PROVE [loop EXCEPT ![l] = x] \in T
  BY <1>0
<1>g. ASSUME NEW pc \in {"none", "begin", "top", "judge", "end", "reset"}, NEW S \in SUBSET Players
      PROVE  /\ [loop EXCEPT ![l].pc = pc] \in T /\ [loop EXCEPT ![l].todo = S] \in T
             /\ [loop EXCEPT ![l].pc = pc, ![l].todo = S] \in T
  <2>1. /\ [k EXCEPT !.pc = pc] \in LoopType /\ [k EXCEPT !.todo = S] \in LoopType
        /\ [[k EXCEPT !.pc = pc] EXCEPT !.todo = S] \in LoopType
    BY <1>0 DEF LoopType
  <2> QED BY <1>x, <2>1
<1>n. NoLoop \in LoopType
  BY DEF NoLoop, LoopType
<1>d. ASSUME LoopDone(l) PROVE loop' \in T
  BY <1>d, <1>n, <1>x DEF LoopDone
<1>p. /\ [loop EXCEPT ![l].pc = "top"] \in T /\ [loop EXCEPT ![l].pc = "judge"] \in T
      /\ [loop EXCEPT ![l].pc = "end"] \in T
  BY <1>g
<1>u. ASSUME UNCHANGED playerVars, UNCHANGED strays PROVE PlayerTypes'
  BY <1>0, <1>u DEF PlayerTypes, playerVars
<1>v. ASSUME UNCHANGED <<registryVars, seatVars, gameVars, refused>> PROVE RoomTypes'
  BY <1>0, <1>v DEF RoomTypes, registryVars, seatVars, gameVars
<1>1. CASE LoopBegins(l)
  <2>1. loop' \in T /\ PlayerTypes'
    BY <1>1, <1>p, <1>u DEF LoopBegins, LoopGoto
  <2> QED BY <1>0, <1>1, <2>1 DEF LoopBegins, RoomTypes, registryVars, seatVars
<1>2. CASE Tick(l) \/ GoOn(l) \/ Decide(l)
  <2>1. loop' \in T
    BY <1>2, <1>p, <1>d DEF Tick, GoOn, Decide, LoopGoto
  <2> QED BY <1>2, <1>u, <1>v, <2>1 DEF Tick, GoOn, Decide
<1>3. CASE Poison(l)
  <2>1. PICK p : Dies(p)
    BY <1>3 DEF Poison
  <2>2. PlayerTypes'
    BY <1>0, <1>s, <2>1 DEF Dies, PlayerTypes
  <2>3. loop' \in T
    BY <1>0, <2>1 DEF Dies
  <2> QED BY <1>v, <2>1, <2>2, <2>3 DEF Dies
<1>4. CASE EndGame(l)
  <2>1. Seated(k.r) \in SUBSET Players
    BY <1>4, <1>r, SeatedPlayers DEF EndGame, LoopAt
  <2>2. [loop EXCEPT ![l].pc = "reset", ![l].todo = Seated(k.r)] \in T
    BY <1>g, <2>1
  <2>3. loop' \in T
    BY <1>4, <2>2 DEF EndGame
  <2>4. RoomTypes'
    BY <1>0, <1>4 DEF EndGame, RoomTypes, registryVars, seatVars
  <2> QED BY <1>4, <1>u, <2>3, <2>4 DEF EndGame
<1>5. CASE ResetPlayer(l)
  <2>1. PICK p \in k.todo : /\ status' = [status EXCEPT ![p] = "in_room"]
                            /\ Stray(IF HasLeft(p, k.r) THEN {p} ELSE {})
                            /\ loop' = [loop EXCEPT ![l].todo = k.todo \ {p}]
    BY <1>5 DEF ResetPlayer
  <2>2. k.todo \ {p} \in SUBSET Players
    BY <1>t
  <2>3. [loop EXCEPT ![l].todo = k.todo \ {p}] \in T
    BY <1>g, <2>2
  <2>4. PlayerTypes'
    BY <1>0, <1>5, <1>s, <1>t, <2>1 DEF ResetPlayer, Stray, PlayerTypes
  <2> QED BY <1>5, <1>v, <2>1, <2>3, <2>4 DEF ResetPlayer
<1>6. CASE ResetRoom(l)
  <2>1. loop' \in T /\ PlayerTypes'
    BY <1>6, <1>d, <1>u DEF ResetRoom
  <2> QED BY <1>0, <1>6, <2>1 DEF ResetRoom, RoomTypes, registryVars, seatVars
<1> QED BY <1>1, <1>2, <1>3, <1>4, <1>5, <1>6 DEF GameLoop

\* A request and a loop write to their own records only.
LEMMA OwnRequest ==
  ASSUME TypeOK, NEW g \in Goroutines, Request(g), NEW h \in Goroutines, h # g
  PROVE  req'[h] = req[h]
<1>0. req \in [Goroutines -> RequestType]
  BY DEF TypeOK
<1> HIDE DEF TypeOK
<1>1. ASSUME NEW p \in Players, NEW r \in Rooms, CreateRoom(g, p, r) \/ JoinRoom(g, p, r)
      PROVE  req'[h] = req[h]
  BY <1>0, <1>1 DEF CreateRoom, JoinRoom, Begin
<1>2. ASSUME NEW p \in Players, LeaveRoom(g, p) \/ Ready(g, p) \/ Drop(g, p) \/ Logout(g, p)
      PROVE  req'[h] = req[h]
  BY <1>0, <1>2 DEF LeaveRoom, Ready, Drop, Logout, Begin
<1>3. CASE Seat(g) \/ SeatRefused(g) \/ EnterRoom(g)
  BY <1>0, <1>3 DEF Seat, SeatRefused, EnterRoom, GotoDestroy, Begin, Done
<1>4. CASE Unseat(g) \/ NotSeated(g) \/ ExitRoom(g)
  BY <1>0, <1>4 DEF Unseat, NotSeated, ExitRoom, GotoDestroy, AfterRemoval, Begin, Done
<1>5. CASE Unregister(g) \/ CloseRoom(g) \/ LoggedOut(g)
  BY <1>0, <1>5 DEF Unregister, CloseRoom, LoggedOut, AfterRemoval, Goto, Begin, Done
<1>6. CASE Toggle(g) \/ CollectMembers(g) \/ CheckReady(g)
  BY <1>0, <1>6 DEF Toggle, CollectMembers, CheckReady, Begin, Done
<1>7. CASE StartGame(g) \/ StartRefused(g) \/ PlacePlayer(g) \/ Launch(g)
  BY <1>0, <1>7 DEF StartGame, StartRefused, PlacePlayer, Launch, Goto, Done
<1> QED BY <1>1, <1>2, <1>3, <1>4, <1>5, <1>6, <1>7 DEF Request

LEMMA OwnLoop ==
  ASSUME TypeOK, NEW l \in Loops, GameLoop(l)
  PROVE  /\ req' = req /\ UNCHANGED <<registered, roomID, registryVars, seatVars, refused>>
         /\ \A k \in Loops : k # l => loop'[k] = loop[k]
<1>0. loop \in [Loops -> LoopType]
  BY DEF TypeOK
<1> HIDE DEF TypeOK
<1>1. CASE LoopBegins(l) \/ Tick(l)
  BY <1>0, <1>1 DEF LoopBegins, Tick, LoopGoto, LoopDone, playerVars, gameVars
<1>2. CASE Poison(l)
  BY <1>0, <1>2 DEF Poison, Dies
<1>3. CASE GoOn(l) \/ Decide(l) \/ EndGame(l)
  BY <1>0, <1>3 DEF GoOn, Decide, EndGame, LoopGoto, playerVars
<1>4. CASE ResetPlayer(l) \/ ResetRoom(l)
  BY <1>0, <1>4 DEF ResetPlayer, ResetRoom, LoopDone, playerVars
<1> QED BY <1>1, <1>2, <1>3, <1>4 DEF GameLoop

\* Ids are not reused, and what is destroyed stays so.
LEMMA Registry ==
  ASSUME TypeOK, NEW g \in Goroutines, Request(g)
  PROVE  born \subseteq born' /\ rooms' \cap born \subseteq rooms
<1>1. ASSUME NEW p \in Players, NEW r \in Rooms, CreateRoom(g, p, r) \/ JoinRoom(g, p, r)
      PROVE  born \subseteq born' /\ rooms' \cap born \subseteq rooms
  BY <1>1 DEF CreateRoom, JoinRoom, registryVars
<1>2. ASSUME NEW p \in Players, LeaveRoom(g, p) \/ Ready(g, p) \/ Drop(g, p) \/ Logout(g, p)
      PROVE  born \subseteq born' /\ rooms' \cap born \subseteq rooms
  BY <1>2 DEF LeaveRoom, Ready, Drop, Logout, registryVars
<1>3. CASE Seat(g) \/ SeatRefused(g) \/ EnterRoom(g) \/ Unseat(g) \/ NotSeated(g) \/ ExitRoom(g)
  BY <1>3 DEF Seat, SeatRefused, EnterRoom, Unseat, NotSeated, ExitRoom, registryVars
<1>4. CASE Unregister(g) \/ CloseRoom(g) \/ LoggedOut(g)
  BY <1>4 DEF Unregister, CloseRoom, LoggedOut, registryVars
<1>5. CASE Toggle(g) \/ CollectMembers(g) \/ CheckReady(g) \/ StartGame(g) \/ StartRefused(g)
           \/ PlacePlayer(g) \/ Launch(g)
  BY <1>5 DEF Toggle, CollectMembers, CheckReady, StartGame, StartRefused, PlacePlayer, Launch,
              registryVars
<1> QED BY <1>1, <1>2, <1>3, <1>4, <1>5 DEF Request

\* Wired, of one request.
HoldsOn(g) ==
    /\ req[g].pc \notin {"idle", "logout"} => req[g].r \in born
    /\ (\/ req[g].pc \in {"seat", "seated", "unseat", "unseated", "toggle", "logout"}
        \/ req[g].op = "logout") => req[g].p \in Players
    /\ req[g].pc = "destroyed" => req[g].r \notin rooms
    /\ req[g].todo \subseteq Players

LEMMA WiredSelf ==
  ASSUME TypeOK, Wired, NEW g \in Goroutines, Request(g)
  PROVE  HoldsOn(g)'
<1> USE GoLobbyAssumption
<1> DEFINE q == req[g]
<1>0. /\ req \in [Goroutines -> RequestType] /\ rooms \subseteq born /\ born \subseteq Rooms
      /\ q.op \in Ops
  BY FieldsTyped DEF TypeOK
<1>t. req'[g].todo \subseteq Players
  BY RequestsTyped, FieldsTyped
<1>w. HoldsOn(g)
  BY DEF Wired, HoldsOn
<1>b. born \subseteq born' /\ rooms' \cap born \subseteq rooms
  BY Registry
<1> HIDE DEF TypeOK, q
<1>d. ASSUME Done(g) PROVE HoldsOn(g)'
  BY <1>0, <1>d DEF Done, NoRequest, Task, HoldsOn
<1>1. ASSUME NEW p \in Players, NEW r \in Rooms, CreateRoom(g, p, r) \/ JoinRoom(g, p, r)
      PROVE  HoldsOn(g)'
  BY <1>0, <1>1 DEF CreateRoom, JoinRoom, Begin, Task, registryVars, HoldsOn
<1>2. ASSUME NEW p \in Players, LeaveRoom(g, p) \/ Ready(g, p) \/ Drop(g, p) \/ Logout(g, p)
      PROVE  HoldsOn(g)'
  BY <1>0, <1>b, <1>2 DEF LeaveRoom, Ready, Drop, Logout, Begin, Task, HoldsOn
<1>3. CASE Seat(g)
  <2>1. req'[g].pc = "seated" /\ req'[g].p = q.p /\ req'[g].r = q.r /\ q.pc = "seat"
    BY <1>0, <1>3 DEF Seat, At, q, RequestType
  <2> QED BY <1>b, <1>t, <1>w, <2>1 DEF HoldsOn, q
<1>y. ASSUME GotoDestroy(g), q.r \in born PROVE HoldsOn(g)'
  BY <1>0, <1>b, <1>w, <1>y DEF GotoDestroy, Begin, Task, HoldsOn, q
<1>r. ASSUME AfterRemoval(g) PROVE HoldsOn(g)'
  <2>1. CASE q.op = "logout"
    BY <1>0, <1>r, <1>w, <2>1 DEF AfterRemoval, Begin, Task, HoldsOn, q
  <2> QED BY <1>d, <1>r, <2>1 DEF AfterRemoval, q
<1>4. CASE SeatRefused(g) \/ ExitRoom(g)
  <2>1. q.r \in born
    BY <1>4, <1>w DEF SeatRefused, ExitRoom, At, HoldsOn, q
  <2> QED BY <1>4, <1>d, <1>r, <1>y, <2>1 DEF SeatRefused, ExitRoom
<1>5. CASE EnterRoom(g) \/ LoggedOut(g) \/ Launch(g)
  BY <1>5, <1>d DEF EnterRoom, LoggedOut, Launch
<1>6. CASE Unseat(g)
  <2>1. req'[g].pc = "unseated" /\ req'[g].p = q.p /\ req'[g].r = q.r /\ q.pc = "unseat"
    BY <1>0, <1>6 DEF Unseat, At, q, RequestType
  <2> QED BY <1>b, <1>t, <1>w, <2>1 DEF HoldsOn, q
<1>7. CASE NotSeated(g) \/ CloseRoom(g)
  BY <1>7, <1>r DEF NotSeated, CloseRoom
<1>8. CASE Unregister(g)
  <2>1. /\ req'[g].pc = "destroyed" /\ req'[g].p = q.p /\ req'[g].r = q.r /\ req'[g].op = q.op
        /\ q.pc = "destroy" /\ rooms' = rooms \ {q.r}
    BY <1>0, <1>8 DEF Unregister, Goto, At, q, RequestType
  <2> QED BY <1>b, <1>t, <1>w, <2>1 DEF HoldsOn, q
<1>9. CASE Toggle(g)
  <2>1. q.r \in born
    BY <1>9, <1>w DEF Toggle, At, HoldsOn, q
  <2> QED BY <1>0, <1>9, <1>b, <2>1 DEF Toggle, Begin, Task, HoldsOn, q
<1>10. CASE CollectMembers(g) \/ CheckReady(g) \/ StartGame(g) \/ PlacePlayer(g) \/ StartRefused(g)
  <2> SUFFICES ASSUME ~Done(g) PROVE HoldsOn(g)'
    BY <1>d
  <2>1. /\ req'[g].pc \in {"check", "start", "place", "launch"}
        /\ req'[g].p = q.p /\ req'[g].r = q.r /\ req'[g].op = q.op
        /\ q.pc \in {"collect", "check", "start", "place"}
    <3>1. CASE CollectMembers(g)
      BY <1>0, <3>1 DEF CollectMembers, At, q, RequestType
    <3>2. CASE CheckReady(g)
      BY <1>0, <3>2 DEF CheckReady, At, q, RequestType
    <3>3. CASE StartGame(g)
      BY <1>0, <3>3 DEF StartGame, At, q, RequestType
    <3>4. CASE PlacePlayer(g)
      BY <1>0, <3>4 DEF PlacePlayer, At, q, RequestType
    <3>5. CASE StartRefused(g)
      BY <1>0, <3>5 DEF StartRefused, Goto, At, q, RequestType
    <3> QED BY <1>10, <3>1, <3>2, <3>3, <3>4, <3>5
  <2> QED BY <1>b, <1>t, <1>w, <2>1 DEF HoldsOn, q
<1> QED BY <1>1, <1>2, <1>3, <1>4, <1>5, <1>6, <1>7, <1>8, <1>9, <1>10 DEF Request

LEMMA WiredLoop ==
  ASSUME TypeOK, Wired, NEW l \in Loops, GameLoop(l)
  PROVE  IF loop'[l].pc = "none" THEN loop'[l].r = None ELSE loop'[l].r \in born
<1>0. /\ loop \in [Loops -> LoopType]
      /\ IF loop[l].pc = "none" THEN loop[l].r = None ELSE loop[l].r \in born
  BY DEF TypeOK, Wired
<1> HIDE DEF TypeOK, Wired
<1>1. CASE LoopBegins(l) \/ Tick(l)
  BY <1>0, <1>1 DEF LoopBegins, Tick, LoopAt, LoopGoto, LoopDone, NoLoop, LoopType
<1>2. CASE Poison(l)
  BY <1>0, <1>2 DEF Poison, Dies
<1>3. CASE GoOn(l) \/ Decide(l)
  BY <1>0, <1>3 DEF GoOn, Decide, LoopAt, LoopGoto, LoopType
<1>4. CASE EndGame(l)
  BY <1>0, <1>4 DEF EndGame, LoopAt, LoopType
<1>5. CASE ResetPlayer(l)
  BY <1>0, <1>5 DEF ResetPlayer, LoopAt, LoopType
<1>6. CASE ResetRoom(l)
  BY <1>0, <1>6 DEF ResetRoom, LoopAt, LoopDone, NoLoop, LoopType
<1> QED BY <1>1, <1>2, <1>3, <1>4, <1>5, <1>6 DEF GameLoop

\* What a request does to the game loops.
LEMMA RequestLoops ==
  ASSUME TypeOK, NEW g \in Goroutines, Request(g)
  PROVE  \/ loop' = loop
         \/ /\ Launch(g)
            /\ \E l \in Loops : /\ loop[l].pc = "none"
                                /\ loop' = [loop EXCEPT ![l] = [pc |-> "begin", r |-> req[g].r, todo |-> {}]]
<1>1. ASSUME NEW p \in Players, NEW r \in Rooms, CreateRoom(g, p, r) \/ JoinRoom(g, p, r)
      PROVE  loop' = loop
  BY <1>1 DEF CreateRoom, JoinRoom
<1>2. ASSUME NEW p \in Players, LeaveRoom(g, p) \/ Ready(g, p) \/ Drop(g, p) \/ Logout(g, p)
      PROVE  loop' = loop
  BY <1>2 DEF LeaveRoom, Ready, Drop, Logout
<1>3. CASE Seat(g) \/ SeatRefused(g) \/ EnterRoom(g) \/ Unseat(g) \/ NotSeated(g) \/ ExitRoom(g)
  BY <1>3 DEF Seat, SeatRefused, EnterRoom, Unseat, NotSeated, ExitRoom
<1>4. CASE Unregister(g) \/ CloseRoom(g) \/ LoggedOut(g)
  BY <1>4 DEF Unregister, CloseRoom, LoggedOut
<1>5. CASE Toggle(g) \/ CollectMembers(g) \/ CheckReady(g) \/ StartGame(g) \/ StartRefused(g)
           \/ PlacePlayer(g)
  BY <1>5 DEF Toggle, CollectMembers, CheckReady, StartGame, StartRefused, PlacePlayer
<1>6. CASE Launch(g)
  BY <1>6 DEF Launch
<1> QED BY <1>1, <1>2, <1>3, <1>4, <1>5, <1>6 DEF Request

\* The steps that belong to nobody's request: no room, seat or game changes.
LEMMA PlayerSteps ==
  ASSUME TypeOK, NEW p \in Players, Login(p) \/ Attack(p)
  PROVE  /\ UNCHANGED <<roomID, registryVars, seatVars, gameVars, req, loop, strays, refused>>
         /\ PlayerTypes'
         /\ \/ \E x \in Players : Dies(x) /\ registered' = registered
            \/ status[p] = "none" /\ status' = [status EXCEPT ![p] = "lobby"]
<1>s. "lobby" \in Statuses /\ "dead" \in Statuses
  BY DEF Statuses, InRoom
<1>1. CASE Login(p)
  BY <1>1, <1>s DEF Login, TypeOK, PlayerTypes
<1>2. CASE Attack(p)
  <2>1. PICK x \in Seated(roomID[p]) : Dies(x)
    BY <1>2 DEF Attack
  <2>2. x \in Players
    <3>1. roomID[p] \in Rooms
      BY <1>2 DEF Attack, TypeOK
    <3> QED BY <2>1, <3>1, SeatedPlayers
  <2> QED BY <1>s, <2>1, <2>2 DEF Dies, TypeOK, PlayerTypes
<1> QED BY <1>1, <1>2

\* The record of a loop that begins.
LEMMA BornLoop ==
  ASSUME NEW r \in Rooms
  PROVE  [pc |-> "begin", r |-> r, todo |-> {}] \in LoopType
  BY DEF LoopType

LEMMA TypesKept ==
  ASSUME TypeOK, Wired, [Next]_vars
  PROVE  /\ PlayerTypes' /\ RoomTypes'
         /\ req' \in [Goroutines -> RequestType] /\ loop' \in [Loops -> LoopType]
<1> USE GoLobbyAssumption
<1>0. /\ req \in [Goroutines -> RequestType] /\ loop \in [Loops -> LoopType]
      /\ PlayerTypes /\ RoomTypes
  <2>1. playerCount \in [Rooms -> Int]
    BY DEF TypeOK
  <2> QED BY <2>1 DEF TypeOK, PlayerTypes, RoomTypes
<1>1. ASSUME NEW p \in Players, Login(p) \/ Attack(p)
      PROVE  /\ PlayerTypes' /\ RoomTypes'
             /\ req' \in [Goroutines -> RequestType] /\ loop' \in [Loops -> LoopType]
  BY <1>0, <1>1, PlayerSteps DEF RoomTypes, registryVars, seatVars, gameVars
<1>2. ASSUME NEW g \in Goroutines, Request(g)
      PROVE  /\ PlayerTypes' /\ RoomTypes'
             /\ req' \in [Goroutines -> RequestType] /\ loop' \in [Loops -> LoopType]
  <2>1. loop' \in [Loops -> LoopType]
    <3>1. CASE loop' = loop
      BY <1>0, <3>1
    <3>2. ASSUME Launch(g), NEW l \in Loops,
                 loop' = [loop EXCEPT ![l] = [pc |-> "begin", r |-> req[g].r, todo |-> {}]]
          PROVE  loop' \in [Loops -> LoopType]
      <4>1. req[g].r \in Rooms
        BY <3>2, WiredRequest DEF Launch
      <4>2. [pc |-> "begin", r |-> req[g].r, todo |-> {}] \in LoopType
        BY <4>1, BornLoop
      <4> QED BY <1>0, <3>2, <4>2
    <3> QED BY <1>2, <3>1, <3>2, RequestLoops
  <2> QED BY <1>2, <2>1, RequestsTyped, RequestTypes
<1>3. ASSUME NEW l \in Loops, GameLoop(l)
      PROVE  /\ PlayerTypes' /\ RoomTypes'
             /\ req' \in [Goroutines -> RequestType] /\ loop' \in [Loops -> LoopType]
  BY <1>0, <1>3, LoopsTyped, OwnLoop
<1>4. CASE UNCHANGED vars
  BY <1>0, <1>4 DEF vars, PlayerTypes, RoomTypes, playerVars, registryVars, seatVars, gameVars
<1> QED BY <1>1, <1>2, <1>3, <1>4 DEF Next

LEMMA WiredKept ==
  ASSUME TypeOK, Wired, [Next]_vars
  PROVE  Wired'
<1>0. loop \in [Loops -> LoopType] /\ rooms \subseteq born
  BY DEF TypeOK
<1>1. ASSUME NEW p \in Players, Login(p) \/ Attack(p) PROVE Wired'
  BY <1>1, PlayerSteps DEF Wired, registryVars
<1>2. ASSUME NEW g \in Goroutines, Request(g) PROVE Wired'
  <2>1. ASSUME NEW h \in Goroutines PROVE HoldsOn(h)'
    <3>1. CASE h = g
      BY <1>2, <3>1, WiredSelf
    <3>2. CASE h # g
      <4>1. req'[h] = req[h] /\ born \subseteq born' /\ rooms' \cap born \subseteq rooms
        BY <1>2, <3>2, OwnRequest, Registry
      <4> QED BY <4>1 DEF Wired, HoldsOn
    <3> QED BY <3>1, <3>2
  <2>2. ASSUME NEW l \in Loops
        PROVE  IF loop'[l].pc = "none" THEN loop'[l].r = None ELSE loop'[l].r \in born'
    <3>1. /\ born \subseteq born'
          /\ IF loop[l].pc = "none" THEN loop[l].r = None ELSE loop[l].r \in born
      BY <1>2, Registry DEF Wired
    <3>2. Launch(g) => req[g].r \in born
      BY WiredRequest DEF Launch
    <3>3. CASE loop' = loop
      BY <3>1, <3>3
    <3>4. ASSUME Launch(g), NEW k \in Loops,
                 loop' = [loop EXCEPT ![k] = [pc |-> "begin", r |-> req[g].r, todo |-> {}]]
          PROVE  IF loop'[l].pc = "none" THEN loop'[l].r = None ELSE loop'[l].r \in born'
      BY <1>0, <3>1, <3>2, <3>4
    <3> QED BY <1>2, <3>3, <3>4, RequestLoops
  <2> QED BY <2>1, <2>2 DEF Wired, HoldsOn
<1>3. ASSUME NEW l \in Loops, GameLoop(l) PROVE Wired'
  BY <1>3, OwnLoop, WiredLoop DEF Wired, registryVars
<1>4. CASE UNCHANGED vars
  BY <1>4 DEF vars, Wired, registryVars
<1> QED BY <1>1, <1>2, <1>3, <1>4 DEF Next

-----------------------------------------------------------------------------
(* Counts. *)

\* A room has at most MaxRoomPlayers seats taken.
LEMMA TakenBound ==
  ASSUME NEW r \in Rooms
  PROVE  Cardinality(Taken(r)) \in 0..MaxRoomPlayers
<1>1. IsFiniteSet(Slots) /\ Cardinality(Slots) = MaxRoomPlayers
  BY GoLobbyAssumption, FS_Interval DEF Slots
<1>2. Cardinality(Taken(r)) <= Cardinality(Slots)
  BY <1>1, FS_Subset DEF Taken
<1> QED BY <1>1, <1>2, TakenFinite, GoLobbyAssumption

\* Who writes to the seats.
LEMMA SeatSteps ==
  ASSUME TypeOK, Wired, [Next]_vars
  PROVE  \/ UNCHANGED seatVars
         \/ \E g \in Goroutines : Seat(g) \/ Unseat(g)
<1>1. ASSUME NEW p \in Players, Login(p) \/ Attack(p) PROVE UNCHANGED seatVars
  BY <1>1, PlayerSteps
<1>2. ASSUME NEW g \in Goroutines, Request(g) PROVE UNCHANGED seatVars \/ Seat(g) \/ Unseat(g)
  <2>1. ASSUME NEW p \in Players, NEW r \in Rooms, CreateRoom(g, p, r) \/ JoinRoom(g, p, r)
        PROVE  UNCHANGED seatVars
    BY <2>1 DEF CreateRoom, JoinRoom
  <2>2. ASSUME NEW p \in Players, LeaveRoom(g, p) \/ Ready(g, p) \/ Drop(g, p) \/ Logout(g, p)
        PROVE  UNCHANGED seatVars
    BY <2>2 DEF LeaveRoom, Ready, Drop, Logout
  <2>3. CASE SeatRefused(g) \/ EnterRoom(g) \/ NotSeated(g) \/ ExitRoom(g)
             \/ Unregister(g) \/ CloseRoom(g) \/ LoggedOut(g)
    BY <2>3 DEF SeatRefused, EnterRoom, NotSeated, ExitRoom, Unregister, CloseRoom, LoggedOut
  <2>4. CASE Toggle(g) \/ CollectMembers(g) \/ CheckReady(g) \/ StartGame(g) \/ StartRefused(g)
             \/ PlacePlayer(g) \/ Launch(g)
    BY <2>4 DEF Toggle, CollectMembers, CheckReady, StartGame, StartRefused, PlacePlayer, Launch
  <2> QED BY <1>2, <2>1, <2>2, <2>3, <2>4 DEF Request
<1>3. ASSUME NEW l \in Loops, GameLoop(l) PROVE UNCHANGED seatVars
  BY <1>3, OwnLoop
<1>4. CASE UNCHANGED vars
  BY <1>4 DEF vars
<1> QED BY <1>1, <1>2, <1>3, <1>4 DEF Next

\* What sitting down and standing up do: one free seat is taken, or one freed.
LEMMA SeatTaken ==
  ASSUME TypeOK, Wired, NEW g \in Goroutines, Seat(g)
  PROVE  \E r \in Rooms, p \in Players, s \in Slots :
            /\ r = req[g].r /\ p = req[g].p /\ members[r][s] = None
            /\ members' = [members EXCEPT ![r] = [members[r] EXCEPT ![s] = p]]
            /\ playerCount' = [playerCount EXCEPT ![r] = playerCount[r] + 1]
<1> DEFINE r == req[g].r  s == FreeSlot(r)
<1>1. \E t \in Slots : members[r][t] = None
  BY DEF Seat, HasPlace
<1>2. s \in Slots /\ members[r][s] = None
  BY <1>1 DEF FreeSlot
<1>3. req[g].p \in Players /\ r \in Rooms
  BY WiredRequest DEF Seat
<1>4. /\ members' = [members EXCEPT ![r] = [members[r] EXCEPT ![s] = req[g].p]]
      /\ playerCount' = [playerCount EXCEPT ![r] = playerCount[r] + 1]
  BY DEF Seat
<1> QED BY <1>2, <1>3, <1>4

LEMMA SeatFreed ==
  ASSUME TypeOK, Wired, NEW g \in Goroutines, Unseat(g)
  PROVE  \E r \in Rooms, p \in Players, s \in Slots :
            /\ r = req[g].r /\ p = req[g].p /\ members[r][s] = p
            /\ members' = [members EXCEPT ![r] = [members[r] EXCEPT ![s] = None]]
            /\ playerCount' = [playerCount EXCEPT ![r] = playerCount[r] - 1]
<1>1. req[g].p \in Players /\ req[g].r \in Rooms
  BY WiredRequest DEF Unseat
<1> QED BY <1>1 DEF Unseat

LEMMA CountKept ==
  ASSUME TypeOK, Wired, CountAgrees, [Next]_vars
  PROVE  CountAgrees'
<1> USE GoLobbyAssumption
<1>0. /\ members \in [Rooms -> [Slots -> Players \cup {None}]]
      /\ playerCount \in [Rooms -> 0..MaxRoomPlayers]
  BY DEF TypeOK
<1>1. CASE UNCHANGED seatVars
  BY <1>1 DEF CountAgrees, Taken, seatVars
<1>2. ASSUME NEW g \in Goroutines, Seat(g) PROVE CountAgrees'
  <2>1. PICK r \in Rooms, p \in Players, s \in Slots :
            /\ members[r][s] = None
            /\ members' = [members EXCEPT ![r] = [members[r] EXCEPT ![s] = p]]
            /\ playerCount' = [playerCount EXCEPT ![r] = playerCount[r] + 1]
    BY <1>2, SeatTaken
  <2>2. s \notin Taken(r) /\ Taken(r)' = Taken(r) \cup {s}
    BY <1>0, <2>1 DEF Taken
  <2>3. Cardinality(Taken(r)') = Cardinality(Taken(r)) + 1
    BY <2>2, TakenFinite, FS_AddElement
  <2>4. playerCount'[r] = Cardinality(Taken(r)')
    BY <1>0, <2>1, <2>3 DEF CountAgrees
  <2>5. ASSUME NEW x \in Rooms, x # r PROVE playerCount'[x] = Cardinality(Taken(x)')
    <3>1. Taken(x)' = Taken(x) /\ playerCount'[x] = playerCount[x]
      BY <1>0, <2>1, <2>5 DEF Taken
    <3> QED BY <3>1 DEF CountAgrees
  <2> QED BY <2>4, <2>5 DEF CountAgrees
<1>3. ASSUME NEW g \in Goroutines, Unseat(g) PROVE CountAgrees'
  <2>1. PICK r \in Rooms, p \in Players, s \in Slots :
            /\ members[r][s] = p
            /\ members' = [members EXCEPT ![r] = [members[r] EXCEPT ![s] = None]]
            /\ playerCount' = [playerCount EXCEPT ![r] = playerCount[r] - 1]
    BY <1>3, SeatFreed
  <2>2. s \in Taken(r) /\ Taken(r)' = Taken(r) \ {s}
    BY <1>0, <2>1 DEF Taken
  <2>3. Cardinality(Taken(r)') = Cardinality(Taken(r)) - 1
    BY <2>2, TakenFinite, FS_RemoveElement
  <2>4. playerCount'[r] = Cardinality(Taken(r)')
    BY <1>0, <2>1, <2>3 DEF CountAgrees
  <2>5. ASSUME NEW x \in Rooms, x # r PROVE playerCount'[x] = Cardinality(Taken(x)')
    <3>1. Taken(x)' = Taken(x) /\ playerCount'[x] = playerCount[x]
      BY <1>0, <2>1, <2>5 DEF Taken
    <3> QED BY <3>1 DEF CountAgrees
  <2> QED BY <2>4, <2>5 DEF CountAgrees
<1> QED BY <1>1, <1>2, <1>3, SeatSteps

LEMMA TypeKept ==
  ASSUME TypeOK, Wired, CountAgrees, [Next]_vars
  PROVE  TypeOK'
<1>1. /\ PlayerTypes' /\ RoomTypes'
      /\ req' \in [Goroutines -> RequestType] /\ loop' \in [Loops -> LoopType]
  BY TypesKept
<1>2. CountAgrees'
  BY CountKept
<1>3. \A r \in Rooms : Cardinality(Taken(r)') \in 0..MaxRoomPlayers
  <2> TAKE r \in Rooms
  <2>1. Taken(r)' \subseteq Slots
    BY DEF Taken
  <2>2. IsFiniteSet(Slots) /\ Cardinality(Slots) = MaxRoomPlayers
    BY GoLobbyAssumption, FS_Interval DEF Slots
  <2>3. /\ IsFiniteSet(Taken(r)') /\ Cardinality(Taken(r)') <= Cardinality(Slots)
    BY <2>1, <2>2, FS_Subset
  <2> QED BY <2>2, <2>3, FS_CardinalityType, GoLobbyAssumption
<1>4. playerCount' \in [Rooms -> 0..MaxRoomPlayers]
  <2>1. \A r \in Rooms : playerCount'[r] \in 0..MaxRoomPlayers
    BY <1>2, <1>3 DEF CountAgrees
  <2>2. playerCount' \in [Rooms -> Int]
    BY <1>1 DEF RoomTypes
  <2> QED BY <2>1, <2>2
<1> QED BY <1>1, <1>4 DEF TypeOK, PlayerTypes, RoomTypes

-----------------------------------------------------------------------------
(* Seats and the registry. *)

\* Who sits in a room after a seat was taken, or freed.
LEMMA SeatedAfterSeat ==
  ASSUME TypeOK, NEW r \in Rooms, NEW p \in Players, NEW s \in Slots,
         members[r][s] = None,
         members' = [members EXCEPT ![r] = [members[r] EXCEPT ![s] = p]]
  PROVE  /\ Seated(r)' = Seated(r) \cup {p}
         /\ \A x \in Rooms : x # r => Seated(x)' = Seated(x)
<1> USE GoLobbyAssumption
<1>0. members \in [Rooms -> [Slots -> Players \cup {None}]]
  BY DEF TypeOK
<1> HIDE DEF TypeOK
<1>1. \A t \in Slots : members'[r][t] = IF t = s THEN p ELSE members[r][t]
  BY <1>0
<1>2. Taken(r)' = Taken(r) \cup {s}
  BY <1>1 DEF Taken
<1>3. Seated(r)' = {members'[r][t] : t \in Taken(r)'}
  BY DEF Seated
<1>4. s \notin Taken(r)
  BY DEF Taken
<1>5. Seated(r)' = Seated(r) \cup {p}
  BY <1>1, <1>2, <1>3, <1>4 DEF Seated, Taken
<1>6. ASSUME NEW x \in Rooms, x # r PROVE Seated(x)' = Seated(x)
  BY <1>0, <1>6 DEF Seated, Taken
<1> QED BY <1>5, <1>6

LEMMA SeatedAfterUnseat ==
  ASSUME TypeOK, NEW r \in Rooms, NEW p \in Players, NEW s \in Slots,
         members[r][s] = p,
         members' = [members EXCEPT ![r] = [members[r] EXCEPT ![s] = None]]
  PROVE  /\ Seated(r)' \subseteq Seated(r) /\ Seated(r) \subseteq Seated(r)' \cup {p}
         /\ \A x \in Rooms : x # r => Seated(x)' = Seated(x)
         /\ OneSeat(p) => p \notin Seated(r)'
<1> USE GoLobbyAssumption
<1>0. members \in [Rooms -> [Slots -> Players \cup {None}]]
  BY DEF TypeOK
<1> HIDE DEF TypeOK
<1>1. \A t \in Slots : members'[r][t] = IF t = s THEN None ELSE members[r][t]
  BY <1>0
<1>2. Taken(r)' = Taken(r) \ {s} /\ Taken(r)' \subseteq Slots
  BY <1>1 DEF Taken
<1>3. Seated(r)' = {members'[r][t] : t \in Taken(r)'}
  BY DEF Seated
<1>4. Seated(r)' \subseteq Seated(r) /\ Seated(r) \subseteq Seated(r)' \cup {p}
  BY <1>1, <1>2, <1>3 DEF Seated, Taken
<1>5. OneSeat(p) => p \notin Seated(r)'
  BY <1>1, <1>2, <1>3 DEF OneSeat, Taken
<1>6. ASSUME NEW x \in Rooms, x # r PROVE Seated(x)' = Seated(x)
  BY <1>0, <1>6 DEF Seated, Taken
<1> QED BY <1>4, <1>5, <1>6

LEMMA SeatedSame ==
  ASSUME UNCHANGED seatVars, NEW r \in Rooms
  PROVE  Seated(r)' = Seated(r)
  BY DEF seatVars, Seated, Taken

\* Strays stay strays, and only destroyRoom() takes a room out of the registry.
LEMMA HistoryGrows ==
  ASSUME TypeOK, [Next]_vars
  PROVE  /\ strays \subseteq strays' /\ refused \subseteq refused'
         /\ rooms \subseteq rooms' \/ \E g \in Goroutines : Unregister(g)
<1> DEFINE G == /\ strays \subseteq strays' /\ refused \subseteq refused'
                /\ rooms \subseteq rooms' \/ \E g \in Goroutines : Unregister(g)
<1>1. ASSUME NEW p \in Players, Login(p) \/ Attack(p) PROVE G
  BY <1>1, PlayerSteps DEF registryVars
<1>2. ASSUME NEW g \in Goroutines, Request(g) PROVE G
  <2>1. ASSUME NEW p \in Players, NEW r \in Rooms, CreateRoom(g, p, r) \/ JoinRoom(g, p, r) PROVE G
    BY <2>1 DEF CreateRoom, JoinRoom, registryVars
  <2>2. ASSUME NEW p \in Players, LeaveRoom(g, p) \/ Ready(g, p) \/ Drop(g, p) \/ Logout(g, p) PROVE G
    BY <2>2 DEF LeaveRoom, Ready, Drop, Logout, registryVars
  <2>3. CASE Seat(g) \/ SeatRefused(g) \/ EnterRoom(g) \/ Unseat(g) \/ NotSeated(g) \/ ExitRoom(g)
    BY <2>3 DEF Seat, SeatRefused, EnterRoom, Unseat, NotSeated, ExitRoom, Stray, registryVars
  <2>4. CASE Unregister(g) \/ CloseRoom(g) \/ LoggedOut(g)
    BY <2>4 DEF Unregister, CloseRoom, LoggedOut, Stray, registryVars
  <2>5. CASE Toggle(g) \/ CollectMembers(g) \/ CheckReady(g) \/ StartGame(g) \/ StartRefused(g)
    BY <2>5 DEF Toggle, CollectMembers, CheckReady, StartGame, StartRefused, Stray, registryVars
  <2>6. CASE PlacePlayer(g) \/ Launch(g)
    BY <2>6 DEF PlacePlayer, Launch, Stray, registryVars
  <2> QED BY <1>2, <2>1, <2>2, <2>3, <2>4, <2>5, <2>6 DEF Request
<1>3. ASSUME NEW l \in Loops, GameLoop(l) PROVE G
  <2>1. UNCHANGED <<registryVars, refused>>
    BY <1>3, OwnLoop
  <2>2. strays \subseteq strays'
    BY <1>3 DEF GameLoop, LoopBegins, Tick, Poison, Dies, GoOn, Decide, EndGame, ResetPlayer, ResetRoom,
                Stray
  <2> QED BY <2>1, <2>2 DEF registryVars
<1>4. CASE UNCHANGED vars
  BY <1>4 DEF vars, registryVars
<1> QED BY <1>1, <1>2, <1>3, <1>4 DEF Next

LEMMA DeadRoomsKept ==
  ASSUME TypeOK, Wired, DeadRooms, [Next]_vars
  PROVE  DeadRooms'
<1>0. strays \subseteq strays'
  BY HistoryGrows
<1>1. ASSUME NEW g \in Goroutines, Seat(g) PROVE DeadRooms'
  <2>1. PICK r \in Rooms, p \in Players, s \in Slots :
            /\ r = req[g].r /\ p = req[g].p /\ members[r][s] = None
            /\ members' = [members EXCEPT ![r] = [members[r] EXCEPT ![s] = p]]
    BY <1>1, SeatTaken
  <2>2. /\ Seated(r)' = Seated(r) \cup {p}
        /\ \A x \in Rooms : x # r => Seated(x)' = Seated(x)
    BY <2>1, SeatedAfterSeat
  <2>3. rooms' = rooms /\ (r \notin rooms => p \in strays')
    BY <1>1, <2>1 DEF Seat, Stray, registryVars
  <2> QED BY <1>0, <2>2, <2>3 DEF DeadRooms
<1>2. ASSUME NEW g \in Goroutines, Unseat(g) PROVE DeadRooms'
  <2>1. PICK r \in Rooms, p \in Players, s \in Slots :
            /\ r = req[g].r /\ p = req[g].p /\ members[r][s] = p
            /\ members' = [members EXCEPT ![r] = [members[r] EXCEPT ![s] = None]]
            /\ playerCount' = [playerCount EXCEPT ![r] = playerCount[r] - 1]
    BY <1>2, SeatFreed
  <2>2. \A x \in Rooms : Seated(x)' \subseteq Seated(x)
    BY <2>1, SeatedAfterUnseat
  <2>3. rooms' = rooms
    BY <1>2 DEF Unseat, registryVars
  <2> QED BY <1>0, <2>2, <2>3 DEF DeadRooms
<1>3. ASSUME NEW g \in Goroutines, Unregister(g) PROVE DeadRooms'
  <2>1. \A x \in Rooms : Seated(x)' = Seated(x)
    BY <1>3, SeatedSame DEF Unregister
  <2>2. rooms' = rooms \ {req[g].r} /\ Seated(req[g].r) \subseteq strays'
    BY <1>3 DEF Unregister, Stray
  <2> QED BY <1>0, <2>1, <2>2 DEF DeadRooms
<1>4. CASE UNCHANGED seatVars /\ rooms \subseteq rooms'
  <2>1. \A x \in Rooms : Seated(x)' = Seated(x)
    BY <1>4, SeatedSame
  <2> QED BY <1>0, <1>4, <2>1 DEF DeadRooms
<1> QED BY <1>1, <1>2, <1>3, <1>4, SeatSteps, HistoryGrows

\* Goroutine g is about to sit down in the room it made, or to destroy the room.
Attends(g, r) ==
    /\ req[g].r = r
    /\ \/ At(g, "seat") /\ req[g].op = "create"
       \/ At(g, "destroy")
       \/ At(g, "unseated") /\ req[g].last

LEMMA AttendsOn ==
  ASSUME TypeOK, Wired, NEW g \in Goroutines, Request(g), NEW r \in rooms, Attends(g, r),
         r \in rooms', Seated(r)' = {}
  PROVE  Attends(g, r)'
<1>0. req \in [Goroutines -> RequestType] /\ r \in Rooms
  BY DEF TypeOK
<1>1. req[g].pc \in {"seat", "destroy", "unseated"}
  BY DEF Attends, At
<1>2. CASE Seat(g)
  <2>1. PICK x \in Rooms, p \in Players, s \in Slots :
            /\ x = req[g].r /\ members[x][s] = None
            /\ members' = [members EXCEPT ![x] = [members[x] EXCEPT ![s] = p]]
    BY <1>2, SeatTaken
  <2>2. p \in Seated(r)'
    BY <2>1, SeatedAfterSeat DEF Attends
  <2> QED BY <2>2
<1> HIDE DEF TypeOK
<1>3. CASE SeatRefused(g)
  BY <1>0, <1>3 DEF Attends, SeatRefused, GotoDestroy, Begin, Task, At
<1>4. CASE ExitRoom(g)
  BY <1>0, <1>4 DEF Attends, ExitRoom, GotoDestroy, Begin, Task, At
<1>5. CASE Unregister(g)
  BY <1>5 DEF Attends, Unregister
<1>6. CASE EnterRoom(g) \/ Unseat(g) \/ NotSeated(g) \/ CloseRoom(g) \/ LoggedOut(g)
  BY <1>1, <1>6 DEF EnterRoom, Unseat, NotSeated, CloseRoom, LoggedOut, At
<1>7. CASE Toggle(g) \/ CollectMembers(g) \/ CheckReady(g) \/ StartGame(g) \/ StartRefused(g)
           \/ PlacePlayer(g) \/ Launch(g)
  BY <1>1, <1>7 DEF Toggle, CollectMembers, CheckReady, StartGame, StartRefused, PlacePlayer, Launch, At
<1>8. ASSUME NEW p \in Players, NEW x \in Rooms, CreateRoom(g, p, x) \/ JoinRoom(g, p, x) PROVE FALSE
  BY <1>1, <1>8 DEF CreateRoom, JoinRoom, At
<1>9. ASSUME NEW p \in Players, LeaveRoom(g, p) \/ Ready(g, p) \/ Drop(g, p) \/ Logout(g, p) PROVE FALSE
  BY <1>1, <1>9 DEF LeaveRoom, Ready, Drop, Logout, At
<1> QED BY <1>2, <1>3, <1>4, <1>5, <1>6, <1>7, <1>8, <1>9 DEF Request

\* A room comes into the registry with its creator about to sit down.
LEMMA NewRoom ==
  ASSUME TypeOK, Wired, [Next]_vars, NEW r \in rooms', r \notin rooms
  PROVE  \E g \in Goroutines : Attends(g, r)'
<1>0. req \in [Goroutines -> RequestType]
  BY DEF TypeOK
<1>1. ASSUME NEW p \in Players, Login(p) \/ Attack(p) PROVE FALSE
  BY <1>1, PlayerSteps DEF registryVars
<1>2. ASSUME NEW g \in Goroutines, Request(g) PROVE \E h \in Goroutines : Attends(h, r)'
  <2>1. ASSUME NEW p \in Players, NEW x \in Rooms, CreateRoom(g, p, x) \/ JoinRoom(g, p, x)
        PROVE  \E h \in Goroutines : Attends(h, r)'
    <3>1. CreateRoom(g, p, x) /\ x = r
      BY <2>1 DEF CreateRoom, JoinRoom, registryVars
    <3> QED BY <1>0, <3>1 DEF CreateRoom, Begin, Task, Attends, At
  <2>2. ASSUME NEW p \in Players, LeaveRoom(g, p) \/ Ready(g, p) \/ Drop(g, p) \/ Logout(g, p)
        PROVE  FALSE
    BY <2>2 DEF LeaveRoom, Ready, Drop, Logout, registryVars
  <2>3. CASE Seat(g) \/ SeatRefused(g) \/ EnterRoom(g) \/ Unseat(g) \/ NotSeated(g) \/ ExitRoom(g)
    BY <2>3 DEF Seat, SeatRefused, EnterRoom, Unseat, NotSeated, ExitRoom, registryVars
  <2>4. CASE Unregister(g) \/ CloseRoom(g) \/ LoggedOut(g)
    BY <2>4 DEF Unregister, CloseRoom, LoggedOut, registryVars
  <2>5. CASE Toggle(g) \/ CollectMembers(g) \/ CheckReady(g) \/ StartGame(g) \/ StartRefused(g)
             \/ PlacePlayer(g) \/ Launch(g)
    BY <2>5 DEF Toggle, CollectMembers, CheckReady, StartGame, StartRefused, PlacePlayer, Launch,
                registryVars
  <2> QED BY <1>2, <2>1, <2>2, <2>3, <2>4, <2>5 DEF Request
<1>3. ASSUME NEW l \in Loops, GameLoop(l) PROVE FALSE
  BY <1>3, OwnLoop DEF registryVars
<1>4. CASE UNCHANGED vars
  BY <1>4 DEF vars, registryVars
<1> QED BY <1>1, <1>2, <1>3, <1>4 DEF Next

LEMMA RoomsAttendedKept ==
  ASSUME TypeOK, Wired, CountAgrees, RoomsAttended, [Next]_vars
  PROVE  RoomsAttended'
<1>0. /\ req \in [Goroutines -> RequestType] /\ rooms \subseteq Rooms
      /\ playerCount \in [Rooms -> 0..MaxRoomPlayers]
      /\ members \in [Rooms -> [Slots -> Players \cup {None}]]
  BY DEF TypeOK
<1>1. rooms' \subseteq Rooms
  BY TypesKept DEF RoomTypes
<1> SUFFICES ASSUME NEW r \in rooms', Seated(r)' = {}, r \in rooms
             PROVE  \E g \in Goroutines : Attends(g, r)'
  BY NewRoom DEF RoomsAttended, Attends
<1>2. CASE Seated(r) = {}
  <2>1. PICK h \in Goroutines : Attends(h, r)
    BY <1>2 DEF RoomsAttended, Attends
  <2>2. ASSUME NEW g \in Goroutines, Request(g) PROVE Attends(h, r)'
    <3>1. CASE g = h
      BY <2>1, <2>2, <3>1, AttendsOn
    <3>2. CASE g # h
      BY <2>1, <2>2, <3>2, OwnRequest DEF Attends, At
    <3> QED BY <3>1, <3>2
  <2>3. req' = req => Attends(h, r)'
    BY <2>1 DEF Attends, At
  <2>4. UNCHANGED vars => req' = req
    BY DEF vars
  <2> QED BY <2>2, <2>3, <2>4, PlayerSteps, OwnLoop DEF Next
<1>3. CASE Seated(r) # {}
  <2>1. PICK g \in Goroutines : Unseat(g)
    <3>1. ~UNCHANGED seatVars
      BY <1>0, <1>3, SeatedSame
    <3>2. ASSUME NEW g \in Goroutines, Seat(g) PROVE FALSE
      <4>1. PICK x \in Rooms, p \in Players, s \in Slots :
                /\ members[x][s] = None
                /\ members' = [members EXCEPT ![x] = [members[x] EXCEPT ![s] = p]]
        BY <3>2, SeatTaken
      <4>2. Seated(r) \subseteq Seated(r)'
        BY <1>0, <4>1, SeatedAfterSeat
      <4> QED BY <1>3, <4>2
    <3> QED BY <3>1, <3>2, SeatSteps
  <2>2. PICK x \in Rooms, p \in Players, s \in Slots :
            /\ x = req[g].r /\ p = req[g].p /\ members[x][s] = p
            /\ members' = [members EXCEPT ![x] = [members[x] EXCEPT ![s] = None]]
    BY <2>1, SeatFreed
  <2>3. x = r
    <3>1. r # x => Seated(r)' = Seated(r)
      BY <1>0, <2>2, SeatedAfterUnseat
    <3> QED BY <1>3, <3>1
  <2>4. playerCount'[r] = 0
    <3>1. Taken(r)' = {}
      BY DEF Seated
    <3>2. playerCount'[r] = Cardinality(Taken(r)')
      BY <1>0, CountKept DEF CountAgrees
    <3> QED BY <3>1, <3>2, FS_EmptySet
  <2>5. req'[g].r = r /\ req'[g].pc = "unseated" /\ req'[g].last
    <3>1. req' = [req EXCEPT ![g].pc = "unseated", ![g].last = (playerCount'[r] = 0)]
      BY <2>1, <2>2, <2>3 DEF Unseat
    <3> QED BY <1>0, <2>2, <2>3, <2>4, <3>1 DEF RequestType
  <2> QED BY <2>5 DEF Attends, At
<1> QED BY <1>2, <1>3

-----------------------------------------------------------------------------
(* The places of a player no race has hit. *)

IsMove(g) == Seat(g) \/ EnterRoom(g) \/ Unseat(g) \/ ExitRoom(g)

\* Only the four actions that move a player begin or end a move.
LEMMA OwnMove ==
  ASSUME TypeOK, NEW g \in Goroutines, Request(g), ~IsMove(g)
  PROVE  req[g].pc \notin {"seated", "unseated"} /\ req'[g].pc \notin {"seated", "unseated"}
<1>0. req \in [Goroutines -> RequestType]
  BY DEF TypeOK
<1> HIDE DEF TypeOK
<1> DEFINE G == req[g].pc \notin {"seated", "unseated"} /\ req'[g].pc \notin {"seated", "unseated"}
<1>1. ASSUME NEW p \in Players, NEW r \in Rooms, CreateRoom(g, p, r) \/ JoinRoom(g, p, r) PROVE G
  BY <1>0, <1>1 DEF CreateRoom, JoinRoom, Begin, Task, At
<1>2. ASSUME NEW p \in Players, LeaveRoom(g, p) \/ Ready(g, p) \/ Drop(g, p) \/ Logout(g, p) PROVE G
  BY <1>0, <1>2 DEF LeaveRoom, Ready, Drop, Logout, Begin, Task, At
<1>3. CASE SeatRefused(g) \/ NotSeated(g)
  BY <1>0, <1>3 DEF SeatRefused, NotSeated, GotoDestroy, AfterRemoval, Begin, Done, NoRequest, Task, At
<1>4. CASE Unregister(g) \/ CloseRoom(g) \/ LoggedOut(g)
  <2>1. CASE Unregister(g)
    BY <1>0, <2>1 DEF Unregister, Goto, At, RequestType
  <2>2. CASE CloseRoom(g) \/ LoggedOut(g)
    BY <1>0, <2>2 DEF CloseRoom, LoggedOut, AfterRemoval, Begin, Done, NoRequest, Task, At
  <2> QED BY <1>4, <2>1, <2>2
<1>5. CASE Toggle(g) \/ CollectMembers(g)
  BY <1>0, <1>5 DEF Toggle, CollectMembers, Begin, Done, NoRequest, Task, At, RequestType
<1>6. CASE CheckReady(g) \/ PlacePlayer(g)
  <2>1. CASE CheckReady(g)
    BY <1>0, <2>1 DEF CheckReady, Done, NoRequest, Task, At, RequestType
  <2>2. CASE PlacePlayer(g)
    BY <1>0, <2>2 DEF PlacePlayer, At, RequestType
  <2> QED BY <1>6, <2>1, <2>2
<1>7. CASE StartGame(g) \/ StartRefused(g) \/ Launch(g)
  BY <1>0, <1>7 DEF StartGame, StartRefused, Launch, Goto, Done, NoRequest, Task, At, RequestType
<1> QED BY <1>1, <1>2, <1>3, <1>4, <1>5, <1>6, <1>7 DEF Request, IsMove

\* What the four actions make of their request.
LEMMA MoveRecords ==
  ASSUME TypeOK, NEW g \in Goroutines
  PROVE  /\ Seat(g) => /\ req[g].pc = "seat" /\ req'[g].pc = "seated"
                       /\ req'[g].p = req[g].p /\ req'[g].r = req[g].r
         /\ EnterRoom(g) => req[g].pc = "seated" /\ req'[g].pc = "idle"
         /\ Unseat(g) => /\ req[g].pc = "unseat" /\ req'[g].pc = "unseated"
                         /\ req'[g].p = req[g].p /\ req'[g].r = req[g].r
         /\ ExitRoom(g) => req[g].pc = "unseated" /\ req'[g].pc \in {"idle", "logout", "destroy"}
<1>0. req \in [Goroutines -> RequestType]
  BY DEF TypeOK
<1> HIDE DEF TypeOK
<1>1. Seat(g) => /\ req[g].pc = "seat" /\ req'[g].pc = "seated"
                 /\ req'[g].p = req[g].p /\ req'[g].r = req[g].r
  BY <1>0 DEF Seat, At, RequestType
<1>2. EnterRoom(g) => req[g].pc = "seated" /\ req'[g].pc = "idle"
  BY <1>0 DEF EnterRoom, At, Done, NoRequest, Task
<1>3. Unseat(g) => /\ req[g].pc = "unseat" /\ req'[g].pc = "unseated"
                   /\ req'[g].p = req[g].p /\ req'[g].r = req[g].r
  BY <1>0 DEF Unseat, At, RequestType
<1>4. ExitRoom(g) => req[g].pc = "unseated" /\ req'[g].pc \in {"idle", "logout", "destroy"}
  BY <1>0 DEF ExitRoom, At, GotoDestroy, AfterRemoval, Begin, Done, NoRequest, Task
<1> QED BY <1>1, <1>2, <1>3, <1>4

\* The moves of a player change only by the four actions upon him.
LEMMA MoversSame ==
  ASSUME TypeOK, NEW g \in Goroutines, Request(g), NEW p, ~IsMove(g) \/ req[g].p # p
  PROVE  Movers(p)' = Movers(p) /\ \A h \in Movers(p) : req'[h] = req[h]
<1>1. g \notin Movers(p) /\ ~(req'[g].p = p /\ req'[g].pc \in {"seated", "unseated"})
  <2>1. CASE ~IsMove(g)
    BY <2>1, OwnMove DEF Movers
  <2>2. CASE IsMove(g)
    BY <2>2, MoveRecords DEF IsMove, Movers
  <2> QED BY <2>1, <2>2
<1>2. \A h \in Goroutines : h # g => req'[h] = req[h]
  BY OwnRequest
<1> QED BY <1>1, <1>2 DEF Movers

\* A player stays where he is when nothing about him changes.
LEMMA Stays ==
  ASSUME NEW p \in Players, Somewhere(p), OneSeat(p)',
         \A r \in Rooms : p \in Seated(r)' <=> p \in Seated(r),
         roomID'[p] = roomID[p],
         Movers(p)' = Movers(p), \A h \in Movers(p) : req'[h] = req[h],
         Movers(p) = {} => (status'[p] \in InRoom <=> status[p] \in InRoom)
  PROVE  Somewhere(p)'
<1>1. IsSeated(p)' <=> IsSeated(p)
  BY DEF IsSeated
<1>2. CASE Out(p)
  <2> Out(p)'
    BY <1>1, <1>2 DEF Out
  <2> QED BY DEF Somewhere
<1>3. CASE In(p)
  <2> In(p)'
    BY <1>3 DEF In
  <2> QED BY DEF Somewhere
<1>4. CASE GoingIn(p)
  <2>1. PICK g \in Goroutines : /\ Movers(p) = {g} /\ At(g, "seated")
                                /\ \A r \in Rooms : p \in Seated(r) <=> r = req[g].r
    BY <1>4 DEF GoingIn
  <2>2. At(g, "seated")' /\ req'[g] = req[g]
    BY <2>1 DEF At
  <2> GoingIn(p)'
    BY <1>4, <2>1, <2>2 DEF GoingIn
  <2> QED BY DEF Somewhere
<1>5. CASE GoingOut(p)
  <2>1. PICK g \in Goroutines : Movers(p) = {g} /\ At(g, "unseated") /\ roomID[p] = req[g].r
    BY <1>5 DEF GoingOut
  <2>2. At(g, "unseated")' /\ req'[g] = req[g]
    BY <2>1 DEF At
  <2> GoingOut(p)'
    BY <1>1, <1>5, <2>1, <2>2 DEF GoingOut
  <2> QED BY DEF Somewhere
<1>6. CASE Crossed(p)
  <2>1. PICK g \in Goroutines, h \in Goroutines :
            Movers(p) = {g, h} /\ At(g, "seated") /\ At(h, "unseated") /\ req[g].r = req[h].r
    BY <1>6 DEF Crossed
  <2>2. At(g, "seated")' /\ At(h, "unseated")' /\ req'[g] = req[g] /\ req'[h] = req[h]
    BY <2>1 DEF At
  <2> Crossed(p)'
    BY <1>1, <1>6, <2>1, <2>2 DEF Crossed
  <2> QED BY DEF Somewhere
<1> QED BY <1>2, <1>3, <1>4, <1>5, <1>6 DEF Somewhere

\* A player who is not moving sits where his roomID says, or nowhere.
LEMMA NotMoving ==
  ASSUME TypeOK, NEW p \in Players, Somewhere(p), Movers(p) = {}
  PROVE  \/ Out(p)
         \/ In(p) /\ IsSeated(p)
<1>1. Out(p) \/ In(p)
  BY DEF Somewhere, GoingIn, GoingOut, Crossed
<1>2. In(p) => IsSeated(p)
  <2>1. In(p) => roomID[p] \in Rooms
    BY DEF In, TypeOK
  <2> QED BY <2>1 DEF In, IsSeated
<1> QED BY <1>1, <1>2

\* A status written to a player who still belongs to the room, and is not moving,
\* was the status of a player in a room before.
LEMMA NotLeft ==
  ASSUME TypeOK, NEW p \in Players, Somewhere(p), Movers(p) = {}, NEW r \in Rooms, ~HasLeft(p, r)
  PROVE  status[p] \in InRoom
<1>1. CASE Out(p)
  BY <1>1, GoLobbyAssumption DEF Out, HasLeft, IsSeated
<1> QED BY <1>1, NotMoving DEF In

\* Whatever else happens to a player who is not moving and whom no race hits, he
\* keeps a status of a player in a room, or another.
LEMMA StatusOfRequest ==
  ASSUME TypeOK, Wired, NEW g \in Goroutines, Request(g),
         NEW p \in Players, p \notin strays', Somewhere(p), Movers(p) = {},
         ~IsMove(g) \/ req[g].p # p
  PROVE  status'[p] \in InRoom <=> status[p] \in InRoom
<1> DEFINE G == status'[p] \in InRoom <=> status[p] \in InRoom
<1>0. status \in [Players -> Statuses]
  BY DEF TypeOK
<1>i. "lobby" \notin InRoom /\ "disconnected" \notin InRoom /\ "in_room" \in InRoom
      /\ "ready" \in InRoom /\ "gaming" \in InRoom
  BY DEF InRoom
<1>1. ASSUME NEW x \in Players, NEW r \in Rooms, CreateRoom(g, x, r) \/ JoinRoom(g, x, r) PROVE G
  BY <1>1 DEF CreateRoom, JoinRoom, playerVars
<1>2. ASSUME NEW x \in Players, LeaveRoom(g, x) \/ Ready(g, x) \/ Drop(g, x) \/ Logout(g, x) PROVE G
  BY <1>2 DEF LeaveRoom, Ready, Drop, Logout, playerVars
<1>3. CASE Seat(g) \/ SeatRefused(g) \/ Unseat(g) \/ NotSeated(g) \/ Unregister(g) \/ CloseRoom(g)
  BY <1>3 DEF Seat, SeatRefused, Unseat, NotSeated, Unregister, CloseRoom, playerVars
<1>4. CASE EnterRoom(g) \/ ExitRoom(g)
  <2>1. req[g].p # p
    BY <1>4 DEF IsMove
  <2> QED BY <1>0, <1>4, <2>1 DEF EnterRoom, ExitRoom
<1>5. CASE LoggedOut(g)
  <2>1. CASE req[g].p = p
    <3>1. ~IsSeated(p)
      BY <1>5, <2>1 DEF LoggedOut, Stray
    <3>2. status[p] \notin InRoom
      BY <3>1, NotMoving DEF Out
    <3>3. status'[p] = "disconnected"
      BY <1>0, <1>5, <2>1 DEF LoggedOut
    <3> QED BY <1>i, <3>2, <3>3
  <2> QED BY <1>0, <1>5, <2>1 DEF LoggedOut
<1>6. CASE Toggle(g)
  <2>1. CASE req[g].p = p
    <3>1. status[p] \in InRoom
      BY <1>6, <2>1 DEF Toggle, Stray
    <3>2. status'[p] \in {"ready", "in_room"}
      BY <1>0, <1>6, <2>1 DEF Toggle
    <3> QED BY <1>i, <3>1, <3>2
  <2> QED BY <1>0, <1>6, <2>1 DEF Toggle
<1>7. CASE CollectMembers(g) \/ CheckReady(g) \/ StartGame(g) \/ StartRefused(g) \/ Launch(g)
  BY <1>7 DEF CollectMembers, CheckReady, StartGame, StartRefused, Launch, playerVars
<1>8. CASE PlacePlayer(g)
  <2>1. PICK x \in req[g].todo : /\ status' = [status EXCEPT ![x] = "gaming"]
                                 /\ Stray(IF HasLeft(x, req[g].r) THEN {x} ELSE {})
    BY <1>8 DEF PlacePlayer
  <2>2. CASE x = p
    <3>1. ~HasLeft(p, req[g].r) /\ req[g].r \in Rooms
      BY <1>8, <2>1, <2>2, WiredRequest DEF PlacePlayer, Stray
    <3>2. status[p] \in InRoom
      BY <3>1, NotLeft
    <3>3. status'[p] = "gaming"
      BY <1>0, <2>1, <2>2
    <3> QED BY <1>i, <3>2, <3>3
  <2> QED BY <1>0, <2>1, <2>2
<1> QED BY <1>1, <1>2, <1>3, <1>4, <1>5, <1>6, <1>7, <1>8 DEF Request

LEMMA StatusOfLoop ==
  ASSUME TypeOK, Wired, NEW l \in Loops, GameLoop(l),
         NEW p \in Players, p \notin strays', Somewhere(p), Movers(p) = {}
  PROVE  status'[p] \in InRoom <=> status[p] \in InRoom
<1>0. status \in [Players -> Statuses] /\ "in_room" \in InRoom /\ "gaming" \in InRoom /\ "dead" \in InRoom
  BY DEF TypeOK, InRoom
<1>1. CASE LoopBegins(l) \/ Tick(l) \/ GoOn(l) \/ Decide(l) \/ EndGame(l) \/ ResetRoom(l)
  BY <1>1 DEF LoopBegins, Tick, GoOn, Decide, EndGame, ResetRoom, playerVars
<1>2. CASE Poison(l)
  BY <1>0, <1>2 DEF Poison, Dies
<1>3. CASE ResetPlayer(l)
  <2>1. PICK x \in loop[l].todo : /\ status' = [status EXCEPT ![x] = "in_room"]
                                  /\ Stray(IF HasLeft(x, loop[l].r) THEN {x} ELSE {})
    BY <1>3 DEF ResetPlayer
  <2>2. CASE x = p
    <3>1. ~HasLeft(p, loop[l].r)
      BY <2>1, <2>2 DEF Stray
    <3>2. loop[l].r \in Rooms
      BY <1>3 DEF ResetPlayer, LoopAt, Wired, TypeOK
    <3>3. status[p] \in InRoom
      BY <3>1, <3>2, NotLeft
    <3> QED BY <1>0, <2>1, <2>2, <3>3
  <2> QED BY <1>0, <2>1, <2>2
<1> QED BY <1>1, <1>2, <1>3 DEF GameLoop

\* The four moves, of a player no race hits.
LEMMA SitsDown ==
  ASSUME TypeOK, Wired, NEW g \in Goroutines, Seat(g), NEW p \in Players, p = req[g].p,
         p \notin strays', Somewhere(p)
  PROVE  Somewhere(p)'
<1>1. ~IsSeated(p) /\ Movers(p) = {}
  BY DEF Seat, Stray, Moving, Movers
<1>2. Out(p)
  BY <1>1, NotMoving
<1>3. PICK r \in Rooms, x \in Players, s \in Slots :
            /\ r = req[g].r /\ x = req[g].p /\ members[r][s] = None
            /\ members' = [members EXCEPT ![r] = [members[r] EXCEPT ![s] = x]]
            /\ playerCount' = [playerCount EXCEPT ![r] = playerCount[r] + 1]
  BY SeatTaken
<1>4. /\ Seated(r)' = Seated(r) \cup {p}
      /\ \A y \in Rooms : y # r => Seated(y)' = Seated(y)
  BY <1>3, SeatedAfterSeat
<1>5. req'[g].pc = "seated" /\ req'[g].p = p /\ req'[g].r = r
  BY <1>3, MoveRecords
<1>6. \A y \in Rooms : p \in Seated(y)' <=> y = r
  BY <1>1, <1>3, <1>4 DEF IsSeated
<1>7. Movers(p)' = {g}
  <2>1. \A h \in Goroutines : h # g => req'[h] = req[h]
    BY OwnRequest DEF Request
  <2> QED BY <1>1, <1>5, <2>1 DEF Movers
<1>8. roomID'[p] = None
  BY <1>2 DEF Seat, Out, playerVars
<1>9. OneSeat(p)'
  <2>1. \A y \in Rooms, t \in Slots : members[y][t] # p
    BY <1>1, GoLobbyAssumption DEF IsSeated, Seated, Taken
  <2> QED BY <1>3, <2>1 DEF OneSeat, TypeOK
<1> QED BY <1>5, <1>6, <1>7, <1>8, <1>9 DEF Somewhere, GoingIn, At

LEMMA ComesIn ==
  ASSUME TypeOK, Wired, NEW g \in Goroutines, EnterRoom(g), NEW p \in Players, p = req[g].p,
         Somewhere(p)
  PROVE  Somewhere(p)'
<1> DEFINE r == req[g].r
<1>1. req[g].pc = "seated" /\ req'[g].pc = "idle" /\ r \in Rooms /\ r # None
  BY MoveRecords, WiredRequest, GoLobbyAssumption DEF EnterRoom
<1>2. g \in Movers(p)
  BY <1>1 DEF Movers
<1>3. Movers(p)' = Movers(p) \ {g} /\ \A h \in Goroutines : h # g => req'[h] = req[h]
  <2>1. \A h \in Goroutines : h # g => req'[h] = req[h]
    BY OwnRequest DEF Request
  <2> QED BY <1>1, <2>1 DEF Movers
<1>4. /\ \A y \in Rooms : Seated(y)' = Seated(y)
      /\ roomID'[p] = r /\ status'[p] = "in_room" /\ OneSeat(p)'
  <2>1. UNCHANGED seatVars
    BY DEF EnterRoom
  <2>2. roomID'[p] = r /\ status'[p] = "in_room"
    BY DEF EnterRoom, TypeOK
  <2>3. OneSeat(p)'
    BY <2>1 DEF Somewhere, OneSeat, seatVars
  <2> QED BY <2>1, <2>2, <2>3, SeatedSame
<1>5. CASE GoingIn(p)
  <2>1. Movers(p) = {g} /\ \A y \in Rooms : p \in Seated(y) <=> y = r
    BY <1>2, <1>5 DEF GoingIn
  <2>2. In(p)'
    BY <1>1, <1>3, <1>4, <2>1 DEF In, InRoom
  <2> QED BY <1>4, <2>2 DEF Somewhere
<1>6. CASE Crossed(p)
  <2>1. PICK h \in Goroutines : h # g /\ Movers(p) = {g, h} /\ At(h, "unseated") /\ req[h].r = r
    BY <1>1, <1>2, <1>6 DEF Crossed, At
  <2>2. ~IsSeated(p)'
    BY <1>4, <1>6 DEF Crossed, IsSeated
  <2>3. Movers(p)' = {h} /\ req'[h] = req[h] /\ At(h, "unseated")'
    BY <1>3, <2>1 DEF At
  <2>4. GoingOut(p)'
    BY <1>4, <2>1, <2>2, <2>3 DEF GoingOut
  <2> QED BY <1>4, <2>4 DEF Somewhere
<1> QED BY <1>1, <1>2, <1>5, <1>6 DEF Somewhere, Out, In, GoingOut, At

LEMMA StandsUp ==
  ASSUME TypeOK, Wired, NEW g \in Goroutines, Unseat(g), NEW p \in Players, p = req[g].p,
         Somewhere(p)
  PROVE  Somewhere(p)'
<1>1. PICK r \in Rooms, x \in Players, s \in Slots :
            /\ r = req[g].r /\ x = req[g].p /\ members[r][s] = x
            /\ members' = [members EXCEPT ![r] = [members[r] EXCEPT ![s] = None]]
            /\ playerCount' = [playerCount EXCEPT ![r] = playerCount[r] - 1]
  BY SeatFreed
<1>2. p \in Seated(r) /\ IsSeated(p)
  BY <1>1, GoLobbyAssumption DEF Seated, Taken, IsSeated
<1>3. /\ \A y \in Rooms : Seated(y)' \subseteq Seated(y)
      /\ p \notin Seated(r)'
  BY <1>1, SeatedAfterUnseat DEF Somewhere
<1>4. roomID'[p] = roomID[p]
  BY DEF Unseat, playerVars
<1>5. req[g].pc = "unseat" /\ req'[g].pc = "unseated" /\ req'[g].p = p /\ req'[g].r = r
  BY <1>1, MoveRecords
<1>6. g \notin Movers(p) /\ Movers(p)' = Movers(p) \cup {g} /\ \A h \in Goroutines : h # g => req'[h] = req[h]
  <2>1. \A h \in Goroutines : h # g => req'[h] = req[h]
    BY OwnRequest DEF Request
  <2> QED BY <1>5, <2>1 DEF Movers
<1>7. OneSeat(p)'
  BY <1>1, GoLobbyAssumption DEF Somewhere, OneSeat, TypeOK
<1>8. CASE In(p)
  <2>1. roomID[p] = r /\ Movers(p)' = {g}
    BY <1>2, <1>6, <1>8 DEF In
  <2>2. ~IsSeated(p)'
    BY <1>3, <1>8, <2>1 DEF In, IsSeated
  <2>3. GoingOut(p)'
    BY <1>4, <1>5, <2>1, <2>2 DEF GoingOut, At
  <2> QED BY <1>7, <2>3 DEF Somewhere
<1>9. CASE GoingIn(p)
  <2>1. PICK h \in Goroutines : /\ Movers(p) = {h} /\ At(h, "seated")
                                /\ \A y \in Rooms : p \in Seated(y) <=> y = req[h].r
    BY <1>9 DEF GoingIn
  <2>2. h # g /\ req[h].r = r /\ req'[h] = req[h] /\ Movers(p)' = {h, g}
    BY <1>2, <1>6, <2>1
  <2>3. ~IsSeated(p)'
    BY <1>3, <2>1, <2>2 DEF IsSeated
  <2>4. roomID'[p] = None
    BY <1>4, <1>9 DEF GoingIn
  <2>5. Crossed(p)'
    BY <1>5, <2>1, <2>2, <2>3, <2>4 DEF Crossed, At
  <2> QED BY <1>7, <2>5 DEF Somewhere
<1> QED BY <1>2, <1>8, <1>9 DEF Somewhere, Out, GoingOut, Crossed

LEMMA GoesOut ==
  ASSUME TypeOK, Wired, NEW g \in Goroutines, ExitRoom(g), NEW p \in Players, p = req[g].p,
         p \notin strays', Somewhere(p)
  PROVE  Somewhere(p)'
<1>1. /\ req[g].pc = "unseated" /\ req'[g].pc \notin {"seated", "unseated"}
      /\ req[g].r \in Rooms /\ roomID[p] = req[g].r /\ roomID[p] # None
  BY MoveRecords, WiredRequest, GoLobbyAssumption, ZenonT(60) DEF ExitRoom, Stray
<1>2. g \in Movers(p)
  BY <1>1 DEF Movers
<1>3. GoingOut(p) /\ Movers(p) = {g}
  BY <1>1, <1>2 DEF Somewhere, Out, GoingIn, In, GoingOut, Crossed
<1>4. Movers(p)' = {}
  <2>1. \A h \in Goroutines : h # g => req'[h] = req[h]
    BY OwnRequest DEF Request
  <2> QED BY <1>1, <1>3, <2>1 DEF Movers
<1>5. UNCHANGED seatVars /\ roomID'[p] = None /\ status'[p] = "lobby"
  BY DEF ExitRoom, TypeOK
<1>6. ~IsSeated(p)' /\ OneSeat(p)'
  <2>1. \A y \in Rooms : Seated(y)' = Seated(y)
    BY <1>5, SeatedSame
  <2> QED BY <1>3, <1>5, <2>1 DEF GoingOut, IsSeated, Somewhere, OneSeat, seatVars
<1> QED BY <1>4, <1>5, <1>6 DEF Somewhere, Out, InRoom

\* A request that does not move player p leaves his seats and his roomID alone.
LEMMA OthersSeats ==
  ASSUME TypeOK, Wired, NEW g \in Goroutines, Request(g), NEW p \in Players, Somewhere(p),
         ~IsMove(g) \/ req[g].p # p
  PROVE  /\ OneSeat(p)' /\ \A y \in Rooms : p \in Seated(y)' <=> p \in Seated(y)
         /\ roomID'[p] = roomID[p]
<1>1. roomID'[p] = roomID[p]
  <2>0. roomID \in [Players -> Rooms \cup {None}]
    BY DEF TypeOK
  <2>1. ASSUME NEW x \in Players, NEW r \in Rooms, CreateRoom(g, x, r) \/ JoinRoom(g, x, r)
        PROVE  roomID'[p] = roomID[p]
    BY <2>1 DEF CreateRoom, JoinRoom, playerVars
  <2>2. ASSUME NEW x \in Players, LeaveRoom(g, x) \/ Ready(g, x) \/ Drop(g, x) \/ Logout(g, x)
        PROVE  roomID'[p] = roomID[p]
    BY <2>2 DEF LeaveRoom, Ready, Drop, Logout, playerVars
  <2>3. CASE Seat(g) \/ SeatRefused(g) \/ Unseat(g) \/ NotSeated(g) \/ Unregister(g) \/ CloseRoom(g)
             \/ LoggedOut(g)
    BY <2>3 DEF Seat, SeatRefused, Unseat, NotSeated, Unregister, CloseRoom, LoggedOut, playerVars
  <2>4. CASE EnterRoom(g) \/ ExitRoom(g)
    <3>1. req[g].p # p
      BY <2>4 DEF IsMove
    <3> QED BY <2>0, <2>4, <3>1 DEF EnterRoom, ExitRoom
  <2>5. CASE Toggle(g) \/ CollectMembers(g) \/ CheckReady(g) \/ StartGame(g) \/ StartRefused(g)
             \/ PlacePlayer(g) \/ Launch(g)
    BY <2>5 DEF Toggle, CollectMembers, CheckReady, StartGame, StartRefused, PlacePlayer, Launch, playerVars
  <2> QED BY <2>1, <2>2, <2>3, <2>4, <2>5 DEF Request
<1>2. CASE Seat(g)
  <2>1. PICK r \in Rooms, x \in Players, s \in Slots :
            /\ r = req[g].r /\ x = req[g].p /\ members[r][s] = None
            /\ members' = [members EXCEPT ![r] = [members[r] EXCEPT ![s] = x]]
            /\ playerCount' = [playerCount EXCEPT ![r] = playerCount[r] + 1]
    BY <1>2, SeatTaken
  <2>2. x # p
    BY <1>2, <2>1 DEF IsMove
  <2>3. \A y \in Rooms : p \in Seated(y)' <=> p \in Seated(y)
    <3>1. /\ Seated(r)' = Seated(r) \cup {x}
          /\ \A y \in Rooms : y # r => Seated(y)' = Seated(y)
      BY <2>1, SeatedAfterSeat
    <3> QED BY <2>2, <3>1
  <2>4. OneSeat(p)'
    BY <2>1, <2>2 DEF Somewhere, OneSeat, TypeOK
  <2> QED BY <1>1, <2>3, <2>4
<1>3. CASE Unseat(g)
  <2>1. PICK r \in Rooms, x \in Players, s \in Slots :
            /\ r = req[g].r /\ x = req[g].p /\ members[r][s] = x
            /\ members' = [members EXCEPT ![r] = [members[r] EXCEPT ![s] = None]]
            /\ playerCount' = [playerCount EXCEPT ![r] = playerCount[r] - 1]
    BY <1>3, SeatFreed
  <2>2. x # p
    BY <1>3, <2>1 DEF IsMove
  <2>3. \A y \in Rooms : p \in Seated(y)' <=> p \in Seated(y)
    <3>1. /\ Seated(r)' \subseteq Seated(r) /\ Seated(r) \subseteq Seated(r)' \cup {x}
          /\ \A y \in Rooms : y # r => Seated(y)' = Seated(y)
      BY <2>1, SeatedAfterUnseat
    <3> QED BY <2>2, <3>1
  <2>4. OneSeat(p)'
    BY <2>1, <2>2, GoLobbyAssumption DEF Somewhere, OneSeat, TypeOK
  <2> QED BY <1>1, <2>3, <2>4
<1>4. CASE UNCHANGED seatVars
  BY <1>1, <1>4, SeatedSame DEF Somewhere, OneSeat, seatVars
<1>5. UNCHANGED seatVars \/ Seat(g) \/ Unseat(g)
  <2>1. ASSUME NEW x \in Players, NEW r \in Rooms, CreateRoom(g, x, r) \/ JoinRoom(g, x, r)
        PROVE  UNCHANGED seatVars
    BY <2>1 DEF CreateRoom, JoinRoom
  <2>2. ASSUME NEW x \in Players, LeaveRoom(g, x) \/ Ready(g, x) \/ Drop(g, x) \/ Logout(g, x)
        PROVE  UNCHANGED seatVars
    BY <2>2 DEF LeaveRoom, Ready, Drop, Logout
  <2>3. CASE SeatRefused(g) \/ EnterRoom(g) \/ NotSeated(g) \/ ExitRoom(g)
             \/ Unregister(g) \/ CloseRoom(g) \/ LoggedOut(g)
    BY <2>3 DEF SeatRefused, EnterRoom, NotSeated, ExitRoom, Unregister, CloseRoom, LoggedOut
  <2>4. CASE Toggle(g) \/ CollectMembers(g) \/ CheckReady(g) \/ StartGame(g) \/ StartRefused(g)
             \/ PlacePlayer(g) \/ Launch(g)
    BY <2>4 DEF Toggle, CollectMembers, CheckReady, StartGame, StartRefused, PlacePlayer, Launch
  <2> QED BY <2>1, <2>2, <2>3, <2>4 DEF Request
<1> QED BY <1>2, <1>3, <1>4, <1>5

LEMMA WhereaboutsKept ==
  ASSUME TypeOK, Wired, Whereabouts, [Next]_vars
  PROVE  Whereabouts'
<1> SUFFICES ASSUME NEW p \in Players, p \notin strays' PROVE Somewhere(p)'
  BY DEF Whereabouts
<1>1. Somewhere(p)
  BY HistoryGrows DEF Whereabouts
<1>0. status \in [Players -> Statuses]
  BY DEF TypeOK
<1>f. ASSUME UNCHANGED <<roomID, seatVars, req>>,
             Movers(p) = {} => (status'[p] \in InRoom <=> status[p] \in InRoom)
      PROVE  Somewhere(p)'
  <2>1. Movers(p)' = Movers(p) /\ \A h \in Movers(p) : req'[h] = req[h]
    BY <1>f DEF Movers
  <2>2. OneSeat(p)' /\ \A r \in Rooms : p \in Seated(r)' <=> p \in Seated(r)
    BY <1>1, <1>f, SeatedSame DEF Somewhere, OneSeat, seatVars
  <2> QED BY <1>1, <1>f, <2>1, <2>2, Stays
<1>2. ASSUME NEW x \in Players, Login(x) \/ Attack(x) PROVE Somewhere(p)'
  <2>1. status'[p] \in InRoom <=> status[p] \in InRoom
    BY <1>0, <1>2, PlayerSteps DEF Dies, InRoom
  <2> QED BY <1>2, <1>f, <2>1, PlayerSteps
<1>3. ASSUME NEW g \in Goroutines, Request(g) PROVE Somewhere(p)'
  <2>1. CASE IsMove(g) /\ req[g].p = p
    BY <1>1, <2>1, SitsDown, ComesIn, StandsUp, GoesOut DEF IsMove
  <2>2. CASE ~(IsMove(g) /\ req[g].p = p)
    <3>1. Movers(p)' = Movers(p) /\ \A h \in Movers(p) : req'[h] = req[h]
      BY <1>3, <2>2, MoversSame
    <3>2. /\ OneSeat(p)' /\ \A y \in Rooms : p \in Seated(y)' <=> p \in Seated(y)
          /\ roomID'[p] = roomID[p]
      BY <1>1, <1>3, <2>2, OthersSeats
    <3>3. Movers(p) = {} => (status'[p] \in InRoom <=> status[p] \in InRoom)
      BY <1>1, <1>3, <2>2, StatusOfRequest
    <3> QED BY <1>1, <3>1, <3>2, <3>3, Stays
  <2> QED BY <2>1, <2>2
<1>4. ASSUME NEW l \in Loops, GameLoop(l) PROVE Somewhere(p)'
  BY <1>1, <1>4, <1>f, OwnLoop, StatusOfLoop
<1>5. CASE UNCHANGED vars
  BY <1>5, <1>f DEF vars, playerVars
<1> QED BY <1>2, <1>3, <1>4, <1>5 DEF Next

-----------------------------------------------------------------------------
(* The life of a game. *)

IsStart(g) == StartGame(g) \/ StartRefused(g) \/ PlacePlayer(g) \/ Launch(g)

\* Only the four actions of startGame() and of the start of its loop make or end
\* a starter; the others leave games and loops alone, but for a room destroyed.
LEMMA NoStart ==
  ASSUME TypeOK, Wired, NEW g \in Goroutines, Request(g), ~IsStart(g)
  PROVE  /\ req[g].pc \notin {"place", "launch"} /\ req'[g].pc \notin {"place", "launch"}
         /\ loop' = loop /\ refused' = refused
         /\ UNCHANGED gameVars \/ CloseRoom(g)
<1>0. req \in [Goroutines -> RequestType]
  BY DEF TypeOK
<1> HIDE DEF TypeOK, Wired
<1> DEFINE P == req[g].pc \notin {"place", "launch"} /\ req'[g].pc \notin {"place", "launch"}
           G == /\ loop' = loop /\ refused' = refused
                /\ UNCHANGED gameVars \/ CloseRoom(g)
<1>1. ASSUME NEW p \in Players, NEW r \in Rooms, CreateRoom(g, p, r) \/ JoinRoom(g, p, r) PROVE P /\ G
  <2>1. P
    BY <1>0, <1>1 DEF CreateRoom, JoinRoom, Begin, Task, At
  <2> QED BY <1>1, <2>1 DEF CreateRoom, JoinRoom
<1>2. ASSUME NEW p \in Players, LeaveRoom(g, p) \/ Ready(g, p) \/ Drop(g, p) \/ Logout(g, p) PROVE P /\ G
  <2>1. P
    BY <1>0, <1>2 DEF LeaveRoom, Ready, Drop, Logout, Begin, Task, At
  <2> QED BY <1>2, <2>1 DEF LeaveRoom, Ready, Drop, Logout
<1>3. CASE IsMove(g)
  <2>1. P
    BY <1>3, MoveRecords DEF IsMove
  <2> QED BY <1>3, <2>1 DEF IsMove, Seat, EnterRoom, Unseat, ExitRoom
<1>4. CASE SeatRefused(g) \/ NotSeated(g)
  <2>1. P
    BY <1>0, <1>4 DEF SeatRefused, NotSeated, GotoDestroy, AfterRemoval, Begin, Done, NoRequest, Task, At
  <2> QED BY <1>4, <2>1 DEF SeatRefused, NotSeated
<1>5. CASE Unregister(g)
  <2>1. P
    BY <1>0, <1>5 DEF Unregister, Goto, At, RequestType
  <2> QED BY <1>5, <2>1 DEF Unregister
<1>6. CASE CloseRoom(g) \/ LoggedOut(g)
  <2>1. P
    BY <1>0, <1>6 DEF CloseRoom, LoggedOut, AfterRemoval, Begin, Done, NoRequest, Task, At
  <2> QED BY <1>6, <2>1 DEF CloseRoom, LoggedOut
<1>7. CASE Toggle(g) \/ CollectMembers(g)
  <2>1. P
    BY <1>0, <1>7 DEF Toggle, CollectMembers, Begin, Done, NoRequest, Task, At, RequestType
  <2> QED BY <1>7, <2>1 DEF Toggle, CollectMembers
<1>8. CASE CheckReady(g)
  <2>1. P
    BY <1>0, <1>8 DEF CheckReady, Done, NoRequest, Task, At, RequestType
  <2> QED BY <1>8, <2>1 DEF CheckReady
<1> QED BY <1>1, <1>2, <1>3, <1>4, <1>5, <1>6, <1>7, <1>8 DEF Request, IsMove, IsStart

LEMMA StartRecords ==
  ASSUME TypeOK, NEW g \in Goroutines
  PROVE  /\ StartGame(g) => req[g].pc = "start" /\ req'[g].pc = "place" /\ req'[g].r = req[g].r
         /\ StartRefused(g) => req[g].pc = "start" /\ req'[g].pc = "launch" /\ req'[g].r = req[g].r
         /\ PlacePlayer(g) => /\ req[g].pc = "place" /\ req'[g].pc \in {"place", "launch"}
                              /\ req'[g].r = req[g].r
         /\ Launch(g) => req[g].pc = "launch" /\ req'[g].pc = "idle"
<1>0. req \in [Goroutines -> RequestType]
  BY DEF TypeOK
<1> HIDE DEF TypeOK
<1>1. StartGame(g) => req[g].pc = "start" /\ req'[g].pc = "place" /\ req'[g].r = req[g].r
  BY <1>0 DEF StartGame, At, RequestType
<1>2. StartRefused(g) => req[g].pc = "start" /\ req'[g].pc = "launch" /\ req'[g].r = req[g].r
  BY <1>0 DEF StartRefused, Goto, At, RequestType
<1>3. PlacePlayer(g) => /\ req[g].pc = "place" /\ req'[g].pc \in {"place", "launch"}
                        /\ req'[g].r = req[g].r
  BY <1>0 DEF PlacePlayer, At, RequestType
<1>4. Launch(g) => req[g].pc = "launch" /\ req'[g].pc = "idle"
  BY <1>0 DEF Launch, Done, NoRequest, Task, At
<1> QED BY <1>1, <1>2, <1>3, <1>4

\* What a game loop does to its own record.
LEMMA LoopRecords ==
  ASSUME TypeOK, NEW l \in Loops
  PROVE  /\ LoopBegins(l) => loop[l].pc = "begin" /\ loop'[l].pc = "top" /\ loop'[l].r = loop[l].r
         /\ Tick(l) =>
               /\ loop[l].pc = "top"
               /\ \/ loop'[l].pc = "judge" /\ loop'[l].r = loop[l].r
                  \/ loop'[l].pc = "none" /\ loop'[l].r = None
                     /\ ~(running[loop[l].r] /\ roomStatus[loop[l].r] = "gaming")
         /\ GoOn(l) => loop[l].pc = "judge" /\ loop'[l].pc = "top" /\ loop'[l].r = loop[l].r
         /\ Decide(l) => loop[l].pc = "judge" /\ loop'[l].pc = "end" /\ loop'[l].r = loop[l].r
         /\ EndGame(l) => /\ loop[l].pc = "end" /\ loop'[l].pc = "reset" /\ loop'[l].r = loop[l].r
                          /\ loop'[l].todo = Seated(loop[l].r)
         /\ ResetPlayer(l) => loop[l].pc = "reset" /\ loop'[l].pc = "reset" /\ loop'[l].r = loop[l].r
         /\ ResetRoom(l) => loop[l].pc = "reset" /\ loop'[l].pc = "none" /\ loop'[l].r = None
<1>0. loop \in [Loops -> LoopType]
  BY DEF TypeOK
<1> HIDE DEF TypeOK
<1>1. LoopBegins(l) => loop[l].pc = "begin" /\ loop'[l].pc = "top" /\ loop'[l].r = loop[l].r
  BY <1>0 DEF LoopBegins, LoopAt, LoopGoto, LoopType
<1>2. Tick(l) => /\ loop[l].pc = "top"
                 /\ \/ loop'[l].pc = "judge" /\ loop'[l].r = loop[l].r
                    \/ loop'[l].pc = "none" /\ loop'[l].r = None
                       /\ ~(running[loop[l].r] /\ roomStatus[loop[l].r] = "gaming")
  BY <1>0 DEF Tick, LoopAt, LoopGoto, LoopDone, NoLoop, LoopType
<1>3. GoOn(l) => loop[l].pc = "judge" /\ loop'[l].pc = "top" /\ loop'[l].r = loop[l].r
  BY <1>0 DEF GoOn, LoopAt, LoopGoto, LoopType
<1>4. Decide(l) => loop[l].pc = "judge" /\ loop'[l].pc = "end" /\ loop'[l].r = loop[l].r
  BY <1>0 DEF Decide, LoopAt, LoopGoto, LoopType
<1>5. EndGame(l) => /\ loop[l].pc = "end" /\ loop'[l].pc = "reset" /\ loop'[l].r = loop[l].r
                    /\ loop'[l].todo = Seated(loop[l].r)
  BY <1>0 DEF EndGame, LoopAt, LoopType
<1>6. ResetPlayer(l) => loop[l].pc = "reset" /\ loop'[l].pc = "reset" /\ loop'[l].r = loop[l].r
  BY <1>0 DEF ResetPlayer, LoopAt, LoopType
<1>7. ResetRoom(l) => loop[l].pc = "reset" /\ loop'[l].pc = "none" /\ loop'[l].r = None
  BY <1>0 DEF ResetRoom, LoopAt, LoopDone, NoLoop, LoopType
<1> QED BY <1>1, <1>2, <1>3, <1>4, <1>5, <1>6, <1>7

\* A room whose game, loops and starters a step leaves alone.
RoomStill(r) ==
    /\ roomStatus'[r] = roomStatus[r] /\ running'[r] = running[r]
    /\ Starters(r)' = Starters(r) /\ LoopsOf(r)' = LoopsOf(r)
    /\ \A l \in LoopsOf(r) : loop'[l] = loop[l]

LEMMA StillGame ==
  ASSUME NEW r \in Rooms, RoomStill(r), refused \subseteq refused',
         born \subseteq born', rooms' \cap born \subseteq rooms,
         GameMoves(r), OneLoop(r), Endings(r)
  PROVE  GameMoves(r)' /\ OneLoop(r)' /\ Endings(r)'
<1>1. Starting(r) => Starting(r)'
  <2>1. Starting(r) <=> Starters(r) # {} \/ \E l \in LoopsOf(r) : LoopAt(l, "begin")
    BY DEF Starting, Starters, LoopsOf
  <2>2. Starting(r)' <=> Starters(r)' # {} \/ \E l \in LoopsOf(r)' : LoopAt(l, "begin")'
    BY DEF Starting, Starters, LoopsOf
  <2> QED BY <2>1, <2>2 DEF RoomStill, LoopAt
<1>2. GameMoves(r)'
  BY <1>1 DEF RoomStill, GameMoves
<1>3. OneLoop(r)'
  BY DEF RoomStill, OneLoop
<1>4. Endings(r)'
  BY DEF RoomStill, Endings, LoopAt
<1> QED BY <1>2, <1>3, <1>4

LEMMA StillAwaited ==
  ASSUME NEW r \in Rooms, RoomStill(r), NEW p, Awaited(p, r)
  PROVE  Awaited(p, r)'
  BY DEF RoomStill, Awaited, LoopAt

LEMMA RequestStill ==
  ASSUME TypeOK, Wired, NEW g \in Goroutines, Request(g), NEW x \in Rooms,
         (~IsStart(g) /\ ~CloseRoom(g)) \/ req[g].r # x
  PROVE  RoomStill(x)
<1> USE GoLobbyAssumption
<1>0. /\ loop \in [Loops -> LoopType] /\ running \in [Rooms -> BOOLEAN]
      /\ roomStatus \in [Rooms -> {"waiting", "gaming", "ended"}]
  BY DEF TypeOK
<1>o. \A h \in Goroutines : h # g => req'[h] = req[h]
  BY OwnRequest
<1>1. CASE ~IsStart(g)
  <2>1. Starters(x)' = Starters(x)
    BY <1>1, <1>o, NoStart DEF Starters
  <2>2. loop' = loop /\ (UNCHANGED gameVars \/ CloseRoom(g))
    BY <1>1, NoStart
  <2>3. roomStatus'[x] = roomStatus[x] /\ running'[x] = running[x]
    <3>1. CASE UNCHANGED gameVars
      BY <3>1 DEF gameVars
    <3>2. CASE CloseRoom(g)
      <4>1. req[g].r # x
        BY <3>2
      <4> QED BY <1>0, <3>2, <4>1 DEF CloseRoom
    <3> QED BY <2>2, <3>1, <3>2
  <2> QED BY <2>1, <2>2, <2>3 DEF RoomStill, LoopsOf
<1>2. CASE IsStart(g)
  <2>1. req[g].r # x
    BY <1>2
  <2>2. Starters(x)' = Starters(x)
    <3>1. g \notin Starters(x) /\ g \notin Starters(x)'
      BY <1>2, <2>1, StartRecords DEF IsStart, Starters
    <3> QED BY <1>o, <3>1 DEF Starters
  <2>3. roomStatus'[x] = roomStatus[x] /\ running'[x] = running[x]
    <3>1. CASE StartGame(g)
      BY <1>0, <2>1, <3>1 DEF StartGame
    <3> QED BY <1>2, <3>1 DEF IsStart, StartRefused, PlacePlayer, Launch, gameVars
  <2>4. LoopsOf(x)' = LoopsOf(x) /\ \A l \in LoopsOf(x) : loop'[l] = loop[l]
    <3>1. CASE loop' = loop
      BY <3>1 DEF LoopsOf
    <3>2. ASSUME NEW l \in Loops, loop[l].pc = "none",
                 loop' = [loop EXCEPT ![l] = [pc |-> "begin", r |-> req[g].r, todo |-> {}]]
          PROVE  LoopsOf(x)' = LoopsOf(x) /\ \A k \in LoopsOf(x) : loop'[k] = loop[k]
      <4>1. loop[l].r # x /\ loop'[l].r # x
        BY <1>0, <2>1, <3>2 DEF Wired
      <4>2. \A k \in Loops : k # l => loop'[k] = loop[k]
        BY <1>0, <3>2
      <4> QED BY <4>1, <4>2 DEF LoopsOf
    <3> QED BY <3>1, <3>2, RequestLoops
  <2> QED BY <2>2, <2>3, <2>4 DEF RoomStill
<1> QED BY <1>1, <1>2

LEMMA LoopStill ==
  ASSUME TypeOK, Wired, NEW l \in Loops, GameLoop(l), NEW x \in Rooms, Poison(l) \/ loop[l].r # x
  PROVE  RoomStill(x)
<1>0. /\ loop \in [Loops -> LoopType] /\ running \in [Rooms -> BOOLEAN]
      /\ roomStatus \in [Rooms -> {"waiting", "gaming", "ended"}] /\ None \notin Rooms
  BY GoLobbyAssumption DEF TypeOK
<1>1. Starters(x)' = Starters(x)
  BY OwnLoop DEF Starters
<1>2. CASE Poison(l)
  BY <1>1, <1>2 DEF Poison, Dies, RoomStill, LoopsOf, gameVars
<1>3. CASE ~Poison(l)
  <2>1. loop'[l].r # x /\ loop[l].r # x
    BY <1>0, <1>3, LoopRecords DEF GameLoop
  <2>2. LoopsOf(x)' = LoopsOf(x) /\ \A k \in LoopsOf(x) : loop'[k] = loop[k]
    BY <2>1, OwnLoop DEF LoopsOf
  <2>3. roomStatus'[x] = roomStatus[x] /\ running'[x] = running[x]
    <3>1. CASE LoopBegins(l) \/ EndGame(l) \/ ResetRoom(l)
      BY <1>0, <2>1, <3>1 DEF LoopBegins, EndGame, ResetRoom
    <3>2. CASE Tick(l) \/ GoOn(l) \/ Decide(l) \/ ResetPlayer(l)
      BY <3>2 DEF Tick, GoOn, Decide, ResetPlayer, gameVars
    <3> QED BY <1>3, <3>1, <3>2 DEF GameLoop
  <2> QED BY <1>1, <2>2, <2>3 DEF RoomStill
<1> QED BY <1>2, <1>3

\* The room of a destroyRoom(), of a startGame() and of the start of a loop.
LEMMA RequestGame ==
  ASSUME TypeOK, Wired, NEW g \in Goroutines, Request(g), NEW x \in Rooms, x = req[g].r,
         IsStart(g) \/ CloseRoom(g), GameMoves(x), OneLoop(x), Endings(x)
  PROVE  GameMoves(x)' /\ OneLoop(x)' /\ Endings(x)'
<1> USE GoLobbyAssumption
<1>0. /\ loop \in [Loops -> LoopType] /\ running \in [Rooms -> BOOLEAN]
      /\ roomStatus \in [Rooms -> {"waiting", "gaming", "ended"}] /\ rooms \subseteq born
  BY DEF TypeOK
<1>o. \A h \in Goroutines : h # g => req'[h] = req[h]
  BY OwnRequest
<1>b. x \in born
  BY WiredRequest DEF IsStart, StartGame, StartRefused, PlacePlayer, Launch, CloseRoom
<1>1. CASE CloseRoom(g)
  <2>1. Starters(x)' = Starters(x) /\ loop' = loop /\ refused' = refused
    <3>1. /\ req[g].pc \notin {"place", "launch"} /\ req'[g].pc \notin {"place", "launch"}
          /\ loop' = loop /\ refused' = refused
      <4>1. ~IsStart(g)
        BY <1>1, StartRecords DEF CloseRoom, At, IsStart
      <4> QED BY <4>1, NoStart
    <3> QED BY <1>o, <3>1 DEF Starters
  <2>2. roomStatus'[x] = "ended" /\ x \notin rooms' /\ x \in born'
    BY <1>0, <1>1, <1>b DEF CloseRoom, At, Wired, registryVars
  <2>3. GameMoves(x)'
    BY <2>2 DEF GameMoves
  <2>4. OneLoop(x)'
    BY <2>1, <2>2 DEF OneLoop, LoopsOf
  <2> QED BY <2>2, <2>3, <2>4 DEF Endings
<1>2. CASE StartGame(g)
  <2>1. roomStatus[x] = "waiting" /\ roomStatus'[x] = "gaming" /\ loop' = loop /\ refused' = refused
    BY <1>0, <1>2 DEF StartGame, CanStart
  <2>2. g \in Starters(x)' /\ Starters(x)' = Starters(x) \cup {g}
    <3>1. req'[g].pc = "place" /\ req'[g].r = x
      BY <1>2, StartRecords
    <3> QED BY <1>o, <3>1 DEF Starters
  <2>3. GameMoves(x)'
    BY <2>2 DEF GameMoves, Starting, Starters
  <2>4. OneLoop(x)'
    BY <2>1, <2>2 DEF OneLoop, LoopsOf
  <2>5. Endings(x)'
    BY <1>2, <1>b, <2>1 DEF Endings, StartGame, registryVars
  <2> QED BY <2>3, <2>4, <2>5
<1>3. CASE StartRefused(g)
  <2>1. UNCHANGED <<roomStatus, running, loop, rooms, born>> /\ x \in refused'
    BY <1>3 DEF StartRefused, gameVars, registryVars
  <2>2. req[g].pc = "start" /\ Starters(x) \subseteq Starters(x)'
    <3>1. req[g].pc = "start"
      BY <1>3, StartRecords
    <3> QED BY <1>o, <3>1 DEF Starters
  <2>3. GameMoves(x)'
    <3>1. Starting(x) => Starting(x)'
      <4>1. ASSUME NEW h \in Goroutines, req[h].r = x, req[h].pc \in {"place", "launch"}
            PROVE  req'[h].r = x /\ req'[h].pc \in {"place", "launch"}
        BY <1>o, <2>2, <4>1
      <4> QED BY <2>1, <4>1 DEF Starting, LoopAt
    <3> QED BY <2>1, <3>1 DEF GameMoves, LoopsOf
  <2>4. OneLoop(x)'
    BY <2>1 DEF OneLoop
  <2>5. Endings(x)'
    BY <2>1 DEF Endings, LoopsOf, LoopAt
  <2> QED BY <2>3, <2>4, <2>5
<1>4. CASE PlacePlayer(g)
  <2>1. UNCHANGED <<roomStatus, running, loop, rooms, born, refused>>
    BY <1>4 DEF PlacePlayer, gameVars, registryVars
  <2>2. Starters(x)' = Starters(x)
    <3>1. /\ req[g].pc = "place" /\ req'[g].pc \in {"place", "launch"} /\ req'[g].r = x
      BY <1>4, StartRecords
    <3> QED BY <1>o, <3>1 DEF Starters
  <2>3. RoomStill(x)
    BY <2>1, <2>2 DEF RoomStill, LoopsOf
  <2> QED BY <2>1, <2>3, StillGame
<1>5. CASE Launch(g)
  <2>1. UNCHANGED <<roomStatus, running, rooms, born, refused>>
    BY <1>5 DEF Launch, gameVars, registryVars
  <2>2. PICK l \in Loops : /\ loop[l].pc = "none"
                           /\ loop' = [loop EXCEPT ![l] = [pc |-> "begin", r |-> x, todo |-> {}]]
    BY <1>5 DEF Launch
  <2>3. /\ LoopsOf(x)' = LoopsOf(x) \cup {l} /\ loop'[l].r = x /\ loop'[l].pc = "begin"
        /\ \A k \in LoopsOf(x) : k # l /\ loop'[k] = loop[k]
    <3>1. loop[l].r # x
      BY <2>2 DEF Wired
    <3>2. \A k \in Loops : k # l => loop'[k] = loop[k]
      BY <1>0, <2>2
    <3>3. loop'[l].r = x /\ loop'[l].pc = "begin"
      BY <1>0, <2>2
    <3> QED BY <3>1, <3>2, <3>3 DEF LoopsOf
  <2>4. g \in Starters(x) /\ Starters(x)' = Starters(x) \ {g}
    <3>1. req[g].pc = "launch" /\ req'[g].pc = "idle"
      BY <1>5, StartRecords
    <3> QED BY <1>o, <3>1 DEF Starters
  <2>5. GameMoves(x)'
    <3>1. Starting(x)'
      BY <2>3 DEF Starting, LoopAt
    <3> QED BY <3>1 DEF GameMoves
  <2>6. OneLoop(x)'
    BY <2>1, <2>3, <2>4 DEF OneLoop
  <2>7. Endings(x)'
    BY <2>1, <2>3 DEF Endings, LoopAt
  <2> QED BY <2>5, <2>6, <2>7
<1> QED BY <1>1, <1>2, <1>3, <1>4, <1>5 DEF IsStart

\* The room of a game loop that steps.
LEMMA LoopGame ==
  ASSUME TypeOK, Wired, NEW l \in Loops, GameLoop(l), ~Poison(l), NEW x \in Rooms, x = loop[l].r,
         GameMoves(x), OneLoop(x), Endings(x)
  PROVE  GameMoves(x)' /\ OneLoop(x)' /\ Endings(x)'
<1> USE GoLobbyAssumption
<1>0. /\ loop \in [Loops -> LoopType] /\ running \in [Rooms -> BOOLEAN]
      /\ roomStatus \in [Rooms -> {"waiting", "gaming", "ended"}] /\ x # None
  BY DEF TypeOK
<1>o. /\ \A k \in Loops : k # l => loop'[k] = loop[k]
      /\ Starters(x)' = Starters(x) /\ l \in LoopsOf(x)
      /\ UNCHANGED <<rooms, born, refused, req>>
  BY OwnLoop DEF Starters, LoopsOf, registryVars
<1>s. ASSUME loop'[l].r = x PROVE LoopsOf(x)' = LoopsOf(x)
  BY <1>o, <1>s DEF LoopsOf
<1>d. ASSUME loop'[l].r = None PROVE LoopsOf(x)' = LoopsOf(x) \ {l}
  BY <1>0, <1>o, <1>d DEF LoopsOf
<1>e. ASSUME loop[l].pc # "reset", roomStatus' = roomStatus, LoopsOf(x) \ {l} \subseteq LoopsOf(x)'
      PROVE  Endings(x)'
  <2>1. ASSUME NEW k \in LoopsOf(x), loop[k].pc = "reset"
        PROVE  k \in LoopsOf(x)' /\ loop'[k].pc = "reset"
    <3>1. k # l /\ k \in Loops
      BY <1>e, <2>1 DEF LoopsOf
    <3> QED BY <1>e, <1>o, <2>1, <3>1
  <2> QED BY <1>e, <1>o, <2>1 DEF Endings, LoopAt
<1>1. CASE LoopBegins(l)
  <2>1. loop'[l].r = x /\ loop'[l].pc = "top" /\ loop[l].pc = "begin" /\ LoopsOf(x)' = LoopsOf(x)
    BY <1>1, <1>s, LoopRecords
  <2>2. running'[x] /\ roomStatus' = roomStatus
    BY <1>0, <1>1 DEF LoopBegins
  <2>3. GameMoves(x)'
    BY <1>o, <2>1, <2>2 DEF GameMoves
  <2>4. OneLoop(x)'
    BY <1>o, <2>1, <2>2 DEF OneLoop
  <2>5. Endings(x)'
    BY <1>e, <2>1, <2>2
  <2> QED BY <2>3, <2>4, <2>5
<1>2. CASE Tick(l)
  <2>0. UNCHANGED gameVars /\ loop[l].pc = "top"
    BY <1>2, LoopRecords DEF Tick
  <2>1. Starting(x) => Starting(x)'
    <3>1. ASSUME NEW k \in Loops, loop[k].r = x, loop[k].pc = "begin"
          PROVE  loop'[k].r = x /\ loop'[k].pc = "begin"
      BY <1>o, <2>0, <3>1
    <3> QED BY <1>o, <3>1 DEF Starting, LoopAt
  <2>2. CASE loop'[l].pc = "judge" /\ loop'[l].r = x
    <3>1. LoopsOf(x)' = LoopsOf(x)
      BY <1>s, <2>2
    <3>2. GameMoves(x)'
      BY <1>o, <2>0, <2>1, <2>2, <3>1 DEF GameMoves, gameVars
    <3>3. OneLoop(x)'
      BY <1>o, <2>0, <3>1 DEF OneLoop, gameVars
    <3>4. Endings(x)'
      BY <1>e, <2>0, <3>1 DEF gameVars
    <3> QED BY <3>2, <3>3, <3>4
  <2>3. CASE loop'[l].pc = "none" /\ loop'[l].r = None /\ ~(running[x] /\ roomStatus[x] = "gaming")
    <3>1. LoopsOf(x)' = LoopsOf(x) \ {l}
      BY <1>d, <2>3
    <3>2. GameMoves(x)'
      BY <2>0, <2>1, <2>3 DEF GameMoves, gameVars
    <3>3. OneLoop(x)'
      BY <1>o, <2>0, <3>1 DEF OneLoop, gameVars
    <3>4. Endings(x)'
      BY <1>e, <2>0, <3>1 DEF gameVars
    <3> QED BY <3>2, <3>3, <3>4
  <2> QED BY <1>2, <2>2, <2>3, LoopRecords
<1>3. CASE GoOn(l) \/ Decide(l)
  <2>1. UNCHANGED gameVars
    BY <1>3 DEF GoOn, Decide
  <2>2. loop[l].pc = "judge" /\ loop'[l].pc \in {"top", "end"} /\ loop'[l].r = x
    BY <1>3, LoopRecords
  <2>3. LoopsOf(x)' = LoopsOf(x)
    BY <1>s, <2>2
  <2>4. Starting(x) => Starting(x)'
    <3>1. ASSUME NEW k \in Loops, loop[k].r = x, loop[k].pc = "begin"
          PROVE  loop'[k].r = x /\ loop'[k].pc = "begin"
      BY <1>o, <2>2, <3>1
    <3> QED BY <1>o, <3>1 DEF Starting, LoopAt
  <2>5. GameMoves(x)'
    BY <1>o, <2>1, <2>2, <2>3, <2>4 DEF GameMoves, gameVars
  <2>6. OneLoop(x)'
    BY <1>o, <2>1, <2>3 DEF OneLoop, gameVars
  <2>7. Endings(x)'
    BY <1>e, <2>1, <2>2, <2>3 DEF gameVars
  <2> QED BY <2>5, <2>6, <2>7
<1>4. CASE EndGame(l)
  <2>1. loop'[l].pc = "reset" /\ loop'[l].r = x /\ LoopsOf(x)' = LoopsOf(x)
    BY <1>4, <1>s, LoopRecords
  <2>2. roomStatus'[x] = "ended"
    BY <1>0, <1>4 DEF EndGame
  <2>3. GameMoves(x)'
    BY <2>2 DEF GameMoves
  <2>4. OneLoop(x)'
    BY <1>o, <2>1, <2>2 DEF OneLoop
  <2>5. Endings(x)'
    <3>1. x \in born
      BY <1>4, LoopRecords DEF Wired
    <3> QED BY <1>o, <2>1, <3>1 DEF Endings, LoopAt
  <2> QED BY <2>3, <2>4, <2>5
<1>5. CASE ResetPlayer(l)
  <2>1. UNCHANGED gameVars
    BY <1>5 DEF ResetPlayer
  <2>2. loop[l].pc = "reset" /\ loop'[l].pc = "reset" /\ loop'[l].r = x /\ LoopsOf(x)' = LoopsOf(x)
    BY <1>5, <1>s, LoopRecords
  <2>3. \A k \in Loops : loop'[k].pc = loop[k].pc /\ (loop[k].r = x => loop'[k].r = x)
    BY <1>o, <2>2
  <2>4. GameMoves(x)'
    BY <1>o, <2>1, <2>2, <2>3 DEF GameMoves, Starting, LoopsOf, LoopAt, gameVars
  <2>5. OneLoop(x)'
    BY <1>o, <2>1, <2>2 DEF OneLoop, gameVars
  <2>6. Endings(x)'
    BY <1>o, <2>1, <2>2, <2>3 DEF Endings, LoopAt, LoopsOf, gameVars
  <2> QED BY <2>4, <2>5, <2>6
<1>6. CASE ResetRoom(l)
  <2>1. roomStatus'[x] = "waiting"
    BY <1>0, <1>6 DEF ResetRoom
  <2>2. LoopsOf(x)' = LoopsOf(x) \ {l}
    BY <1>6, <1>d, LoopRecords
  <2>3. OneLoop(x)'
    BY <1>o, <2>1, <2>2 DEF OneLoop
  <2> QED BY <2>1, <2>3 DEF GameMoves, Endings
<1> QED BY <1>1, <1>2, <1>3, <1>4, <1>5, <1>6 DEF GameLoop

\* Whoever is in a game after a step was so before, or is being placed in it.
LEMMA InGameBefore ==
  ASSUME TypeOK, Wired, Whereabouts, [Next]_vars, NEW p \in Players, NEW x \in Rooms, InGame(p, x)'
  PROVE  \/ InGame(p, x)
         \/ \E g \in Goroutines : PlacePlayer(g) /\ req[g].r = x
<1>0. /\ status \in [Players -> Statuses] /\ p \notin strays /\ Somewhere(p)
      /\ p \in Seated(x)' /\ Movers(p)' = {} /\ status'[p] \in {"gaming", "dead"} /\ p \notin strays'
  BY HistoryGrows DEF InGame, TypeOK, Whereabouts
<1> DEFINE G == InGame(p, x) \/ \E g \in Goroutines : PlacePlayer(g) /\ req[g].r = x
<1>f. ASSUME UNCHANGED <<seatVars, req>>, status[p] \in {"gaming", "dead"} PROVE G
  <2>1. Seated(x)' = Seated(x) /\ Movers(p)' = Movers(p)
    BY <1>f, SeatedSame DEF Movers
  <2> QED BY <1>0, <1>f, <2>1 DEF InGame
<1>1. ASSUME NEW y \in Players, Login(y) \/ Attack(y) PROVE G
  <2>1. status[p] \in {"gaming", "dead"}
    BY <1>0, <1>1, PlayerSteps DEF Dies
  <2> QED BY <1>1, <1>f, <2>1, PlayerSteps
<1>2. ASSUME NEW g \in Goroutines, Request(g) PROVE G
  <2>1. ~(IsMove(g) /\ req[g].p = p)
    <3>1. ASSUME Seat(g) \/ Unseat(g), req[g].p = p PROVE FALSE
      BY <1>0, <3>1, MoveRecords DEF Movers
    <3>2. ASSUME EnterRoom(g) \/ ExitRoom(g), req[g].p = p PROVE FALSE
      BY <1>0, <3>2 DEF EnterRoom, ExitRoom
    <3> QED BY <3>1, <3>2 DEF IsMove
  <2>2. p \in Seated(x) /\ Movers(p) = {}
    BY <1>0, <1>2, <2>1, MoversSame, OthersSeats
  <2>3. CASE PlacePlayer(g)
    <3>1. PICK y \in req[g].todo : /\ status' = [status EXCEPT ![y] = "gaming"]
                                   /\ Stray(IF HasLeft(y, req[g].r) THEN {y} ELSE {})
      BY <2>3 DEF PlacePlayer
    <3>2. CASE y = p
      <4>1. ~HasLeft(p, req[g].r) /\ req[g].r \in Rooms
        BY <1>0, <2>3, <3>1, <3>2, WiredRequest DEF PlacePlayer, Stray
      <4>2. In(p)
        BY <1>0, <2>2, NotMoving DEF Out, IsSeated
      <4>3. req[g].r = x
        BY <2>2, <4>1, <4>2 DEF In, HasLeft
      <4> QED BY <2>3, <4>3
    <3>3. CASE y # p
      <4>1. status[p] \in {"gaming", "dead"}
        BY <1>0, <3>1, <3>3
      <4> QED BY <1>0, <2>2, <4>1 DEF InGame
    <3> QED BY <3>2, <3>3
  <2>4. CASE ~PlacePlayer(g)
    <3>1. status[p] \in {"gaming", "dead"}
      <4>1. ASSUME NEW y \in Players, NEW r \in Rooms, CreateRoom(g, y, r) \/ JoinRoom(g, y, r)
            PROVE  status' = status
        BY <4>1 DEF CreateRoom, JoinRoom, playerVars
      <4>2. ASSUME NEW y \in Players, LeaveRoom(g, y) \/ Ready(g, y) \/ Drop(g, y) \/ Logout(g, y)
            PROVE  status' = status
        BY <4>2 DEF LeaveRoom, Ready, Drop, Logout, playerVars
      <4>3. CASE Seat(g) \/ SeatRefused(g) \/ Unseat(g) \/ NotSeated(g) \/ Unregister(g) \/ CloseRoom(g)
        BY <1>0, <4>3 DEF Seat, SeatRefused, Unseat, NotSeated, Unregister, CloseRoom, playerVars
      <4>4. CASE EnterRoom(g) \/ ExitRoom(g) \/ LoggedOut(g)
        BY <1>0, <4>4 DEF EnterRoom, ExitRoom, LoggedOut
      <4>5. CASE Toggle(g)
        BY <1>0, <4>5 DEF Toggle
      <4>6. CASE CollectMembers(g) \/ CheckReady(g) \/ StartGame(g) \/ StartRefused(g) \/ Launch(g)
        BY <1>0, <4>6 DEF CollectMembers, CheckReady, StartGame, StartRefused, Launch, playerVars
      <4> QED BY <1>0, <1>2, <2>4, <4>1, <4>2, <4>3, <4>4, <4>5, <4>6 DEF Request
    <3> QED BY <1>0, <2>2, <3>1 DEF InGame
  <2> QED BY <2>3, <2>4
<1>3. ASSUME NEW l \in Loops, GameLoop(l) PROVE G
  <2>1. status[p] \in {"gaming", "dead"}
    <3>1. CASE LoopBegins(l) \/ Tick(l) \/ GoOn(l) \/ Decide(l) \/ EndGame(l) \/ ResetRoom(l)
      BY <1>0, <3>1 DEF LoopBegins, Tick, GoOn, Decide, EndGame, ResetRoom, playerVars
    <3>2. CASE Poison(l) \/ ResetPlayer(l)
      BY <1>0, <3>2 DEF Poison, Dies, ResetPlayer
    <3> QED BY <1>3, <3>1, <3>2 DEF GameLoop
  <2> QED BY <1>3, <1>f, <2>1, OwnLoop
<1>4. CASE UNCHANGED vars
  BY <1>0, <1>4, <1>f DEF vars, playerVars
<1> QED BY <1>1, <1>2, <1>3, <1>4 DEF Next

\* The loop of a room looks after everybody who is in its game, to the end.
LEMMA LoopAwaits ==
  ASSUME TypeOK, Wired, DeadRooms, NEW l \in Loops, GameLoop(l), ~Poison(l),
         NEW x \in Rooms, x = loop[l].r, x \notin refused,
         GameMoves(x), OneLoop(x), Endings(x),
         NEW p \in Players, InGame(p, x), Awaited(p, x), InGame(p, x)'
  PROVE  Awaited(p, x)'
<1> USE GoLobbyAssumption
<1>0. loop \in [Loops -> LoopType] /\ x # None
  BY DEF TypeOK
<1>o. /\ \A k \in Loops : k # l => loop'[k] = loop[k]
      /\ Starters(x)' = Starters(x) /\ l \in LoopsOf(x)
  BY OwnLoop DEF Starters, LoopsOf
<1>1. /\ Starters(x) = {} /\ \A k \in LoopsOf(x) : k = l
      /\ loop[l].pc = "reset" => p \in loop[l].todo
      /\ roomStatus[x] # "waiting"
  BY <1>o DEF OneLoop, Awaited, LoopAt
<1>s. ASSUME loop'[l].r = x, loop'[l].pc = "reset" => p \in loop'[l].todo PROVE Awaited(p, x)'
  <2>1. l \in LoopsOf(x)'
    BY <1>s DEF LoopsOf
  <2> QED BY <1>s, <2>1 DEF Awaited, LoopAt
<1>2. CASE LoopBegins(l) \/ GoOn(l) \/ Decide(l)
  BY <1>2, <1>s, LoopRecords
<1>3. CASE Tick(l)
  <2>0. loop[l].pc = "top"
    BY <1>3, LoopRecords
  <2>1. CASE loop'[l].pc = "judge" /\ loop'[l].r = x
    BY <1>s, <2>1
  <2>2. CASE ~(running[x] /\ roomStatus[x] = "gaming")
    <3>1. CASE roomStatus[x] = "gaming"
      <4>1. ~Starting(x)
        <5>1. \A k \in Loops : loop[k].r = x => loop[k].pc # "begin"
          BY <1>1, <2>0 DEF LoopsOf
        <5> QED BY <1>1, <5>1 DEF Starting, Starters, LoopAt
      <4> QED BY <2>2, <3>1, <4>1 DEF GameMoves
    <3>2. CASE roomStatus[x] = "ended"
      <4>1. x \notin rooms
        BY <1>1, <2>0, <3>2 DEF Endings, LoopAt
      <4> QED BY <4>1 DEF DeadRooms, InGame
    <3> QED BY <1>1, <3>1, <3>2 DEF TypeOK
  <2> QED BY <1>3, <2>1, <2>2, LoopRecords
<1>4. CASE EndGame(l)
  <2>1. p \in Seated(x)
    BY DEF InGame
  <2> QED BY <1>4, <1>s, <2>1, LoopRecords
<1>5. CASE ResetPlayer(l)
  <2>1. PICK y \in loop[l].todo : /\ status' = [status EXCEPT ![y] = "in_room"]
                                  /\ loop' = [loop EXCEPT ![l].todo = loop[l].todo \ {y}]
    BY <1>5 DEF ResetPlayer
  <2>2. y # p
    BY <2>1 DEF InGame, TypeOK
  <2>3. loop[l].pc = "reset" /\ loop'[l].r = x /\ loop'[l].todo = loop[l].todo \ {y}
    BY <1>0, <1>5, <2>1, LoopRecords DEF LoopType
  <2> QED BY <1>1, <1>s, <2>2, <2>3
<1>6. CASE ResetRoom(l)
  <2>1. loop[l].pc = "reset" /\ loop[l].todo = {}
    BY <1>6 DEF ResetRoom, LoopAt
  <2> QED BY <1>1, <2>1
<1> QED BY <1>2, <1>3, <1>4, <1>5, <1>6 DEF GameLoop

\* So does the start of a game, until its loop begins.
LEMMA StartAwaits ==
  ASSUME TypeOK, Wired, NEW g \in Goroutines, Request(g), NEW x \in Rooms, x \notin refused',
         NEW p \in Players, Awaited(p, x)
  PROVE  Awaited(p, x)'
<1>0. loop \in [Loops -> LoopType]
  BY DEF TypeOK
<1>o. \A h \in Goroutines : h # g => req'[h] = req[h]
  BY OwnRequest
<1>1. CASE (~IsStart(g) /\ ~CloseRoom(g)) \/ req[g].r # x
  BY <1>1, RequestStill, StillAwaited
<1>2. CASE Launch(g) /\ req[g].r = x
  <2>1. PICK l \in Loops : loop' = [loop EXCEPT ![l] = [pc |-> "begin", r |-> x, todo |-> {}]]
    BY <1>2 DEF Launch
  <2>2. l \in LoopsOf(x)' /\ loop'[l].pc # "reset"
    BY <1>0, <2>1 DEF LoopsOf
  <2> QED BY <2>2 DEF Awaited, LoopAt
<1>3. CASE StartRefused(g) /\ req[g].r = x
  BY <1>3 DEF StartRefused
<1>4. CASE (StartGame(g) \/ PlacePlayer(g)) /\ req[g].r = x
  <2>1. req'[g].pc \in {"place", "launch"} /\ req'[g].r = x
    BY <1>4, StartRecords
  <2> QED BY <2>1 DEF Awaited, Starters
<1>5. CASE CloseRoom(g) /\ ~IsStart(g)
  <2>1. loop' = loop /\ Starters(x)' = Starters(x)
    BY <1>5, <1>o, NoStart DEF Starters
  <2> QED BY <2>1 DEF Awaited, LoopsOf, LoopAt
<1> QED BY <1>1, <1>2, <1>3, <1>4, <1>5 DEF IsStart

LEMMA AwaitedKept ==
  ASSUME TypeOK, Wired, DeadRooms, Whereabouts, Games, [Next]_vars,
         NEW x \in Rooms, x \notin refused', NEW p \in Players, InGame(p, x)'
  PROVE  Awaited(p, x)'
<1>1. CASE \E g \in Goroutines : PlacePlayer(g) /\ req[g].r = x
  <2>1. PICK g \in Goroutines : req'[g].pc \in {"place", "launch"} /\ req'[g].r = x
    BY <1>1, StartRecords
  <2> QED BY <2>1 DEF Awaited, Starters
<1>2. CASE InGame(p, x)
  <2>1. Awaited(p, x) /\ x \notin refused /\ GameMoves(x) /\ OneLoop(x) /\ Endings(x)
    BY <1>2, HistoryGrows DEF Games, PlayersAwaited
  <2>2. ASSUME NEW y \in Players, Login(y) \/ Attack(y) PROVE Awaited(p, x)'
    <3>1. req' = req /\ loop' = loop
      BY <2>2, PlayerSteps
    <3> QED BY <2>1, <3>1 DEF Awaited, Starters, LoopsOf, LoopAt
  <2>3. ASSUME NEW g \in Goroutines, Request(g) PROVE Awaited(p, x)'
    BY <2>1, <2>3, StartAwaits
  <2>4. ASSUME NEW l \in Loops, GameLoop(l) PROVE Awaited(p, x)'
    <3>1. CASE Poison(l) \/ loop[l].r # x
      BY <2>1, <2>4, <3>1, LoopStill, StillAwaited
    <3>2. CASE ~Poison(l) /\ loop[l].r = x
      BY <1>2, <2>1, <2>4, <3>2, LoopAwaits
    <3> QED BY <3>1, <3>2
  <2>5. CASE UNCHANGED vars
    BY <2>1, <2>5 DEF vars, Awaited, Starters, LoopsOf, LoopAt
  <2> QED BY <2>2, <2>3, <2>4, <2>5 DEF Next
<1> QED BY <1>1, <1>2, InGameBefore

LEMMA GamesKept ==
  ASSUME TypeOK, Wired, DeadRooms, Whereabouts, Games, [Next]_vars
  PROVE  Games'
<1> SUFFICES ASSUME NEW x \in Rooms
             PROVE  GameMoves(x)' /\ OneLoop(x)' /\ Endings(x)' /\ PlayersAwaited(x)'
  BY DEF Games
<1>1. GameMoves(x) /\ OneLoop(x) /\ Endings(x)
  BY DEF Games
<1>2. PlayersAwaited(x)'
  BY AwaitedKept DEF PlayersAwaited
<1>3. refused \subseteq refused'
  BY HistoryGrows
<1>f. ASSUME RoomStill(x), rooms' = rooms, born' = born PROVE GameMoves(x)' /\ OneLoop(x)' /\ Endings(x)'
  BY <1>1, <1>3, <1>f, StillGame
<1>4. ASSUME NEW y \in Players, Login(y) \/ Attack(y) PROVE GameMoves(x)' /\ OneLoop(x)' /\ Endings(x)'
  <2>1. RoomStill(x) /\ rooms' = rooms /\ born' = born
    BY <1>4, PlayerSteps DEF RoomStill, Starters, LoopsOf, gameVars, registryVars
  <2> QED BY <1>f, <2>1
<1>5. ASSUME NEW g \in Goroutines, Request(g) PROVE GameMoves(x)' /\ OneLoop(x)' /\ Endings(x)'
  <2>1. CASE (~IsStart(g) /\ ~CloseRoom(g)) \/ req[g].r # x
    BY <1>1, <1>3, <1>5, <2>1, RequestStill, Registry, StillGame
  <2>2. CASE (IsStart(g) \/ CloseRoom(g)) /\ req[g].r = x
    BY <1>1, <1>5, <2>2, RequestGame
  <2> QED BY <2>1, <2>2
<1>6. ASSUME NEW l \in Loops, GameLoop(l) PROVE GameMoves(x)' /\ OneLoop(x)' /\ Endings(x)'
  <2>1. CASE Poison(l) \/ loop[l].r # x
    <3>1. rooms' = rooms /\ born' = born
      BY <1>6, OwnLoop DEF registryVars
    <3> QED BY <1>6, <1>f, <2>1, <3>1, LoopStill
  <2>2. CASE ~Poison(l) /\ loop[l].r = x
    BY <1>1, <1>6, <2>2, LoopGame
  <2> QED BY <2>1, <2>2
<1>7. CASE UNCHANGED vars
  <2>1. RoomStill(x) /\ rooms' = rooms /\ born' = born
    BY <1>7 DEF vars, RoomStill, Starters, LoopsOf, gameVars, registryVars
  <2> QED BY <1>2, <1>f, <2>1
<1> QED BY <1>2, <1>4, <1>5, <1>6, <1>7 DEF Next

-----------------------------------------------------------------------------
(* The theorems. *)

LEMMA IInvInit == Init => IInv
<1> SUFFICES ASSUME Init PROVE IInv
  OBVIOUS
<1> USE GoLobbyAssumption
<1>1. TypeOK /\ CountAgrees /\ Wired
  BY InitBasics
<1>2. /\ \A r \in Rooms : Seated(r) = {} /\ LoopsOf(r) = {} /\ Starters(r) = {}
      /\ \A p \in Players : Movers(p) = {}
  BY DEF Init, Seated, Taken, LoopsOf, NoLoop, Starters, Movers, NoRequest, Task
<1>3. DeadRooms /\ RoomsAttended
  BY <1>2 DEF Init, DeadRooms, RoomsAttended
<1>4. Whereabouts
  <2> SUFFICES ASSUME NEW p \in Players PROVE OneSeat(p) /\ Out(p)
    BY DEF Whereabouts, Somewhere
  <2>1. OneSeat(p)
    BY DEF Init, OneSeat
  <2>2. Out(p)
    BY <1>2 DEF Init, Out, IsSeated, InRoom
  <2> QED BY <2>1, <2>2
<1>5. Games
  <2> SUFFICES ASSUME NEW r \in Rooms
               PROVE  GameMoves(r) /\ OneLoop(r) /\ Endings(r) /\ PlayersAwaited(r)
    BY DEF Games
  <2>1. roomStatus[r] = "waiting" /\ rooms = {}
    BY DEF Init
  <2> QED BY <1>2, <2>1 DEF GameMoves, OneLoop, Endings, PlayersAwaited, InGame
<1> QED BY <1>1, <1>3, <1>4, <1>5 DEF IInv

LEMMA IInvStep == IInv /\ [Next]_vars => IInv'
  BY TypeKept, WiredKept, CountKept, DeadRoomsKept, RoomsAttendedKept, WhereaboutsKept, GamesKept
     DEF IInv

LEMMA Inductive == Spec => []IInv
  BY IInvInit, IInvStep, PTL DEF Spec

\* Every variable of the lobby keeps its type, and no room counts less than none
\* or more than MaxRoomPlayers, whatever requests cross (room.go:146-211).
THEOREM TypeCorrect == Spec => []TypeOK
<1>1. IInv => TypeOK
  BY DEF IInv
<1> QED BY Inductive, <1>1, PTL

\* playerCount is the number of seats taken, in every room at all times, with a
\* leave, a logout and a lost connection of one player at once (room.go:183-198).
THEOREM CountsRight == Spec => []CountAgrees
<1>1. IInv => CountAgrees
  BY DEF IInv
<1> QED BY Inductive, <1>1, PTL

\* A registered room without members is about to be entered by its creator or
\* some other player, or to be destroyed (http.go:174, room.go:206-210).
THEOREM NoDeadRooms == Spec => []NoDeadRoom
<1>1. IInv => NoDeadRoom
  BY DEF IInv, RoomsAttended, NoDeadRoom, At
<1> QED BY Inductive, <1>1, PTL

\* The place of a player who is not between two halves of a request, in the words
\* of SeatsAgree.
LEMMA SomewhereAgrees ==
  ASSUME IInv, NEW p \in Players, p \notin strays, ~Moving(p)
  PROVE  /\ status[p] \in InRoom <=> roomID[p] # None
         /\ roomID[p] # None => roomID[p] \in rooms
         /\ \A r \in Rooms : p \in Seated(r) <=> roomID[p] = r
<1>1. Movers(p) = {}
  BY DEF Moving, Movers
<1>2. TypeOK /\ Somewhere(p) /\ DeadRooms
  BY DEF IInv, Whereabouts
<1>3. CASE Out(p)
  BY <1>3, GoLobbyAssumption DEF Out, IsSeated
<1>4. CASE In(p)
  <2>1. roomID[p] \in Rooms
    BY <1>2, <1>4 DEF In, TypeOK
  <2>2. roomID[p] \in rooms
    BY <1>2, <1>4, <2>1 DEF In, DeadRooms
  <2> QED BY <1>4, <2>2 DEF In
<1> QED BY <1>1, <1>2, <1>3, <1>4, NotMoving

\* A player whom none of the marked races has hit is where his roomID and his
\* status say (room.go:146-211, http.go).
THEOREM SeatsRight == Spec => []SeatsAgree
<1>1. IInv => SeatsAgree
  BY SomewhereAgrees DEF SeatsAgree
<1> QED BY Inductive, <1>1, PTL

\* A set whose elements are all the same one counts as one, if it has any.
LEMMA AtMostOne ==
  ASSUME NEW S, S # {}, \A x, y \in S : x = y
  PROVE  Cardinality(S) = 1
<1>1. PICK x \in S : S = {x}
  OBVIOUS
<1> QED BY <1>1, FS_Singleton

\* A room in a game has a loop, or the start of one; one of them only, unless a
\* startGame() of the room was refused; and nobody is in a game that no loop and
\* no start looks after (http.go:265-272, game.go:425-532).
THEOREM GamesLookedAfter == Spec => []GamesRun
<1>1. ASSUME IInv PROVE GamesRun
  <2> SUFFICES ASSUME NEW r \in Rooms
      PROVE  /\ roomStatus[r] = "gaming" =>
                  \/ Starting(r)
                  \/ running[r] /\ \E l \in LoopsOf(r) : loop[l].pc \in {"top", "judge", "end"}
             /\ r \notin refused =>
                  /\ Cardinality(LoopsOf(r)) + Cardinality(Starters(r)) <= 1
                  /\ (\E p \in Seated(r) \ strays : ~Moving(p) /\ status[p] \in {"gaming", "dead"})
                        => LoopsOf(r) # {} \/ Starters(r) # {}
    BY DEF GamesRun
  <2>0. GameMoves(r) /\ OneLoop(r) /\ PlayersAwaited(r)
    BY <1>1 DEF IInv, Games
  <2>1. roomStatus[r] = "gaming" =>
            \/ Starting(r)
            \/ running[r] /\ \E l \in LoopsOf(r) : loop[l].pc \in {"top", "judge", "end"}
    BY <2>0 DEF GameMoves
  <2>2. ASSUME r \notin refused PROVE Cardinality(LoopsOf(r)) + Cardinality(Starters(r)) <= 1
    <3>1. /\ \A x, y \in LoopsOf(r) : x = y
          /\ \A g, h \in Starters(r) : g = h
          /\ LoopsOf(r) = {} \/ Starters(r) = {}
      BY <2>0, <2>2 DEF OneLoop
    <3>2. Cardinality({}) = 0
      BY FS_EmptySet
    <3>3. LoopsOf(r) # {} => Cardinality(LoopsOf(r)) = 1
      <4>1. \A x, y \in LoopsOf(r) : x = y
        BY <3>1
      <4> QED BY <4>1, AtMostOne
    <3>4. Starters(r) # {} => Cardinality(Starters(r)) = 1
      <4>1. \A x, y \in Starters(r) : x = y
        BY <3>1
      <4> QED BY <4>1, AtMostOne
    <3>5. CASE LoopsOf(r) = {}
      BY <3>2, <3>4, <3>5
    <3>6. CASE Starters(r) = {}
      BY <3>2, <3>3, <3>6
    <3> QED BY <3>1, <3>5, <3>6
  <2>3. ASSUME r \notin refused, NEW p \in Seated(r) \ strays, ~Moving(p),
               status[p] \in {"gaming", "dead"}
        PROVE  LoopsOf(r) # {} \/ Starters(r) # {}
    <3>1. p \in Players
      BY <1>1, <2>3, SeatedPlayers DEF IInv
    <3>2. InGame(p, r)
      BY <2>3 DEF InGame, Moving, Movers
    <3> QED BY <2>0, <2>3, <3>1, <3>2 DEF PlayersAwaited, Awaited
  <2> QED BY <2>1, <2>2, <2>3
<1>2. IInv => GamesRun
  BY <1>1
<1> QED BY Inductive, <1>2, PTL
=============================================================================
