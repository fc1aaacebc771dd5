---------------------------- MODULE Rooms_proofs ----------------------------
(***************************************************************************)
(* What holds of the lobby and the rooms of the C server for any number of *)
(* players, users, rooms and game threads.                                 *)
(***************************************************************************)
EXTENDS Rooms, FiniteSetTheorems, TLAPS

-----------------------------------------------------------------------------
(* Types *)

\* The initial state has the types of TypeOK.
LEMMA InitTypeOK == Init => TypeOK
  BY RoomsAssumption DEF Init, TypeOK, Idle, NoGame, PlayerStatus, RoomStatus, WalHandle,
       MainPc, ThreadPc

\* A command of a client preserves the types.
LEMMA CommandTypeOK == TypeOK /\ Command => TypeOK'
<1> SUFFICES ASSUME TypeOK, NEW p \in Players,
                    \/ Connect(p)
                    \/ \E u \in Users : Login(p, u)
                    \/ \E r \in Rooms, n \in MinPlayers..MaxPlayers : CreateRoom(p, r, n)
                    \/ \E r \in Rooms : JoinRoom(p, r)
                    \/ \E cmd \in {"leave", "logout", "disconnect"} : Depart(p, cmd)
                    \/ Ready(p)
                    \/ Attack(p)
             PROVE  TypeOK'
  BY DEF Command
<1> USE DEF TypeOK, playerVars, roomVars, walVars, PlayerStatus, RoomStatus, WalHandle,
            MainPc, ThreadPc
<1>1. CASE Connect(p)
  BY <1>1 DEF Connect
<1>2. ASSUME NEW u \in Users, Login(p, u) PROVE TypeOK'
  BY <1>2 DEF Login, Unused
<1>3. ASSUME NEW r \in Rooms, NEW n \in MinPlayers..MaxPlayers, CreateRoom(p, r, n)
      PROVE TypeOK'
  BY <1>3, RoomsAssumption DEF CreateRoom, Seat
<1>4. ASSUME NEW r \in Rooms, JoinRoom(p, r) PROVE TypeOK'
  BY <1>4 DEF JoinRoom, HasSpace, Seat
<1>5. ASSUME NEW cmd \in {"leave", "logout", "disconnect"}, Depart(p, cmd) PROVE TypeOK'
  BY <1>5 DEF Depart
<1>6. CASE Ready(p)
  BY <1>6 DEF Ready
<1>7. CASE Attack(p)
  BY <1>7 DEF Attack
<1> QED BY <1>1, <1>2, <1>3, <1>4, <1>5, <1>6, <1>7

\* The number of players of a room, as room_remove_player() leaves it: the count
\* of a room somebody sits in is positive and agrees with the slots afterwards.
LEMMA CountAfterRemove ==
  ASSUME TypeOK, SlotsAgree, NEW r \in Rooms, NEW p \in members[r]
  PROVE  /\ player_count[r] - 1 \in Nat
         /\ player_count[r] - 1 = Cardinality(members[r] \ {p})
         /\ player_count[r] - 1 = 0 <=> members[r] \ {p} = {}
<1>1. members[r] \subseteq Players
  BY DEF TypeOK
<1>2. IsFiniteSet(members[r])
  BY <1>1, RoomsAssumption, FS_Subset
<1>3. IsFiniteSet(members[r] \ {p}) /\ Cardinality(members[r] \ {p}) = Cardinality(members[r]) - 1
  BY <1>2, FS_RemoveElement
<1>4. Cardinality(members[r] \ {p}) \in Nat
  BY <1>3, FS_CardinalityType
<1>5. Cardinality(members[r] \ {p}) = 0 <=> members[r] \ {p} = {}
  BY <1>3, FS_EmptySet
<1> QED BY <1>3, <1>4, <1>5 DEF SlotsAgree

\* The number of players of a room, as room_add_player() leaves it.
LEMMA CountAfterJoin ==
  ASSUME TypeOK, SlotsAgree, NEW r \in Rooms, NEW p \in Players, p \notin members[r]
  PROVE  player_count[r] + 1 = Cardinality(members[r] \cup {p})
<1>1. members[r] \subseteq Players
  BY DEF TypeOK
<1>2. IsFiniteSet(members[r])
  BY <1>1, RoomsAssumption, FS_Subset
<1>3. Cardinality(members[r] \cup {p}) = Cardinality(members[r]) + 1
  BY <1>2, FS_AddElement
<1> QED BY <1>3 DEF SlotsAgree

\* A step of the main thread inside a handler preserves the types.
LEMMA MainStepTypeOK == IInv /\ MainStep => TypeOK'
<1> SUFFICES ASSUME IInv, MainStep PROVE TypeOK'
  OBVIOUS
<1> USE DEF TypeOK, playerVars, roomVars, walVars, PlayerStatus, RoomStatus, WalHandle,
            MainPc, ThreadPc, At, Goto
<1>0. /\ TypeOK /\ SlotsAgree
      /\ ~MainIdle => main.p \in Players
      /\ main.pc \notin {"idle", "finish"} => main.r \in Rooms
      /\ At("remove") => main.p \in members[main.r]
  BY DEF IInv, MainLocals, SlotsAgree, MainIdle
<1>1. CASE Remove
  <2>1. player_count[main.r] - 1 \in Nat
    BY <1>0, <1>1, CountAfterRemove DEF Remove, Last
  <2> QED BY <1>0, <1>1, <2>1 DEF Remove, Last
<1>2. CASE Destroy
  BY <1>0, <1>2 DEF Destroy
<1>3. CASE Finish
  BY <1>0, <1>3 DEF Finish, StatusAfter, Idle, IInv, MainLocals, MainIdle
<1>4. CASE AllReady
  BY <1>0, <1>4 DEF AllReady, Idle
<1>5. CASE WalOpen
  BY <1>0, <1>5 DEF WalOpen
<1>6. CASE WalSet
  BY <1>0, <1>6 DEF WalSet, IInv, MainLocals
<1>7. CASE StartGame
  BY <1>0, <1>7 DEF StartGame
<1>8. CASE Launch
  BY <1>0, <1>8 DEF Launch
<1>9. ASSUME NEW t \in Threads, Spawn(t) PROVE TypeOK'
  BY <1>0, <1>9 DEF Spawn, Idle, NoGame
<1>10. ASSUME NEW v \in Players, Hit(v) PROVE TypeOK'
  BY <1>0, <1>10 DEF Hit
<1>11. CASE HitEnd
  BY <1>0, <1>11 DEF HitEnd, Idle
<1> QED
  BY <1>1, <1>2, <1>3, <1>4, <1>5, <1>6, <1>7, <1>8, <1>9, <1>10, <1>11 DEF MainStep

\* A step of a game thread preserves the types.
LEMMA ThreadStepTypeOK ==
  ASSUME TypeOK, NEW t \in Threads, ThreadStep(t)
  PROVE  TypeOK'
<1> USE DEF TypeOK, playerVars, roomVars, walVars, PlayerStatus, RoomStatus, WalHandle,
            MainPc, ThreadPc, On, Jump, Exit, NoGame
<1>0. ASSUME NEW pc \in ThreadPc \ {"none"}, thr[t].pc # "none",
             thr' = [thr EXCEPT ![t].pc = pc]
      PROVE  /\ thr' \in [Threads -> [pc : ThreadPc, r : Rooms \cup {None},
                                     ids : SUBSET Players]]
             /\ \A u \in Threads : thr'[u].pc # "none" => thr'[u].r \in Rooms
  BY <1>0
<1>1. CASE ThreadStart(t)
  BY <1>1, SMTT(60) DEF ThreadStart
<1>2. CASE LoopTest(t)
  <2>1. \/ Jump(t, "tick") /\ stale' = stale
        \/ Exit(t)
    BY <1>2 DEF LoopTest
  <2>2. CASE Jump(t, "tick") /\ stale' = stale
    BY <1>0, <1>2, <2>2, SMTT(60) DEF LoopTest
  <2>3. CASE Exit(t)
    BY <1>2, <2>3 DEF LoopTest
  <2> QED BY <2>1, <2>2, <2>3
<1>3. ASSUME NEW K \in SUBSET Players, Tick(t, K) PROVE TypeOK'
  BY <1>3 DEF Tick
<1>4. CASE CheckEnd(t)
  BY <1>0, <1>4 DEF CheckEnd
<1>5. CASE EndGame(t)
  <2>1. /\ phase' \in [Rooms -> RoomStatus]
        /\ running' \in [Rooms -> BOOLEAN]
    BY <1>5 DEF EndGame
  <2>2. /\ thr' \in [Threads -> [pc : ThreadPc, r : Rooms \cup {None},
                                ids : SUBSET Players]]
        /\ \A u \in Threads : thr'[u].pc # "none" => thr'[u].r \in Rooms
    BY <1>5 DEF EndGame
  <2> QED BY <1>5, <2>1, <2>2 DEF EndGame
<1>6. ASSUME NEW p \in Players, Reset(t, p) PROVE TypeOK'
  BY <1>6 DEF Reset
<1>7. CASE ReopenRoom(t)
  BY <1>0, <1>7 DEF ReopenRoom
<1>8. CASE CloseWal(t)
  <2>1. PICK pc \in {"unlock", "unlink"} : thr' = [thr EXCEPT ![t].pc = pc]
    BY <1>8 DEF CloseWal
  <2>2. /\ wal' \in [Rooms -> WalHandle]
        /\ thr' \in [Threads -> [pc : ThreadPc, r : Rooms \cup {None},
                                ids : SUBSET Players]]
        /\ \A u \in Threads : thr'[u].pc # "none" => thr'[u].r \in Rooms
    BY <1>0, <1>8, <2>1 DEF CloseWal
  <2> QED BY <1>8, <2>2 DEF CloseWal
<1>9. CASE UnlinkFiles(t)
  <2>1. ASSUME NEW h \in WalHandle \cup {None}
        PROVE  /\ Orphaned(h) \in WalHandle \cup {None}
               /\ h \in WalHandle => Orphaned(h) \in WalHandle
    BY DEF Orphaned
  <2>2. wal' \in [Rooms -> WalHandle]
    BY <1>9, <2>1 DEF UnlinkFiles
  <2>3. main' \in [pc : MainPc,
                   cmd : {"leave", "logout", "disconnect", "ready", "attack", None},
                   p : Players \cup {None}, r : Rooms \cup {None},
                   h : WalHandle \cup {None}]
    BY <1>9, <2>1 DEF UnlinkFiles
  <2>4. /\ thr' \in [Threads -> [pc : ThreadPc, r : Rooms \cup {None},
                                ids : SUBSET Players]]
        /\ \A u \in Threads : thr'[u].pc # "none" => thr'[u].r \in Rooms
    BY <1>0, <1>9 DEF UnlinkFiles
  <2> QED BY <1>9, <2>2, <2>3, <2>4 DEF UnlinkFiles
<1>10. CASE Unlock(t)
  BY <1>10 DEF Unlock, Released
<1> QED BY <1>1, <1>2, <1>3, <1>4, <1>5, <1>6, <1>7, <1>8, <1>9, <1>10 DEF ThreadStep

\* The clock preserves the types.
LEMMA ExpireTypeOK ==
  ASSUME TypeOK, NEW r \in Rooms, Expire(r)
  PROVE  TypeOK'
  BY DEF TypeOK, Expire, playerVars, roomVars, walVars

-----------------------------------------------------------------------------
(* Who changes what *)

\* Game threads and the clock leave the seats, the names and the rooms[] table
\* alone: only the main thread moves a player in or out of a room.
LEMMA ThreadsLeaveSeats ==
  ASSUME \/ \E t \in Threads : ThreadStep(t)
         \/ \E r \in Rooms : Expire(r)
  PROVE  UNCHANGED <<room_id, user, table, members, player_count, max_players>>
<1>1. ASSUME NEW r \in Rooms, Expire(r)
      PROVE UNCHANGED <<room_id, user, table, members, player_count, max_players>>
  BY <1>1 DEF Expire, playerVars, roomVars
<1>2. ASSUME NEW t \in Threads, ThreadStep(t)
      PROVE UNCHANGED <<room_id, user, table, members, player_count, max_players>>
  BY <1>2 DEF ThreadStep, ThreadStart, LoopTest, Tick, CheckEnd, EndGame, Reset, ReopenRoom,
              CloseWal, UnlinkFiles, Unlock, playerVars, roomVars
<1> QED BY <1>1, <1>2

\* Game threads and the clock leave the main thread where it is; all they may do
\* to its locals is to orphan the log file it holds.
LEMMA ThreadsLeaveMain ==
  ASSUME TypeOK,
         \/ \E t \in Threads : ThreadStep(t)
         \/ \E r \in Rooms : Expire(r)
  PROVE  /\ main'.pc = main.pc /\ main'.cmd = main.cmd
         /\ main'.p = main.p /\ main'.r = main.r
         /\ main.h \in WalHandle => main'.h \in WalHandle
<1> DEFINE Same == /\ main'.pc = main.pc /\ main'.cmd = main.cmd
                   /\ main'.p = main.p /\ main'.r = main.r
                   /\ main.h \in WalHandle => main'.h \in WalHandle
<1>1. ASSUME NEW r \in Rooms, Expire(r) PROVE Same
  BY <1>1 DEF Expire
<1>2. ASSUME NEW t \in Threads, UnlinkFiles(t) PROVE Same
  BY <1>2 DEF UnlinkFiles, Orphaned, WalHandle, TypeOK
<1>3. ASSUME NEW t \in Threads, ThreadStep(t), ~UnlinkFiles(t) PROVE main' = main
  BY <1>3 DEF ThreadStep, ThreadStart, LoopTest, Tick, CheckEnd, EndGame, Reset, ReopenRoom,
              CloseWal, Unlock
<1> QED BY <1>1, <1>2, <1>3

-----------------------------------------------------------------------------
(* One lemma per part of the inductive invariant *)

\* Every step preserves the types.
LEMMA TypeOKStep == IInv /\ [Next]_vars => TypeOK'
<1>1. ASSUME IInv, UNCHANGED vars PROVE TypeOK'
  BY <1>1 DEF IInv, TypeOK, vars, playerVars, roomVars, walVars
<1> QED BY <1>1, CommandTypeOK, MainStepTypeOK, ThreadStepTypeOK, ExpireTypeOK DEF IInv, Next

\* The only steps that change who sits where or which rooms exist are CREATE_ROOM,
\* JOIN_ROOM, room_remove_player() and room_destroy().
LEMMA SeatSteps ==
  ASSUME [Next]_vars
  PROVE  \/ UNCHANGED <<room_id, table, members, player_count, max_players>>
         \/ \E p \in Players, r \in Rooms, n \in MinPlayers..MaxPlayers : CreateRoom(p, r, n)
         \/ \E p \in Players, r \in Rooms : JoinRoom(p, r)
         \/ Remove
         \/ Destroy
<1> DEFINE Same == UNCHANGED <<room_id, table, members, player_count, max_players>>
<1>1. CASE UNCHANGED vars
  BY <1>1 DEF vars, playerVars, roomVars
<1>2. ASSUME NEW p \in Players,
             \/ Connect(p) \/ \E u \in Users : Login(p, u)
             \/ \E cmd \in {"leave", "logout", "disconnect"} : Depart(p, cmd)
             \/ Ready(p) \/ Attack(p)
      PROVE  Same
  BY <1>2 DEF Connect, Login, Depart, Ready, Attack, playerVars, roomVars
<1>3. ASSUME \/ Finish \/ AllReady \/ WalOpen \/ WalSet \/ StartGame \/ Launch
             \/ \E t \in Threads : Spawn(t)
             \/ \E v \in Players : Hit(v)
             \/ HitEnd
      PROVE  Same
  BY <1>3 DEF Finish, AllReady, WalOpen, WalSet, StartGame, Launch, Spawn, Hit, HitEnd,
              playerVars, roomVars
<1>4. CASE \/ \E t \in Threads : ThreadStep(t)
           \/ \E r \in Rooms : Expire(r)
  BY <1>4, ThreadsLeaveSeats
<1>5. CASE Command
  BY <1>2, <1>5 DEF Command
<1>6. CASE MainStep
  BY <1>3, <1>6 DEF MainStep
<1> QED BY <1>1, <1>4, <1>5, <1>6 DEF Next

\* Every step keeps seats, slots and counts in step.
LEMMA SlotsAgreeStep == IInv /\ [Next]_vars => SlotsAgree'
<1> SUFFICES ASSUME IInv, [Next]_vars PROVE SlotsAgree'
  OBVIOUS
<1>0. TypeOK /\ SlotsAgree /\ StatusAgrees /\ MainLocals
  BY DEF IInv
<1>a. None \notin Rooms
  BY RoomsAssumption
<1>1. CASE UNCHANGED <<room_id, table, members, player_count, max_players>>
  BY <1>0, <1>1 DEF SlotsAgree
<1>2. ASSUME NEW p \in Players, NEW r \in Rooms, NEW n \in MinPlayers..MaxPlayers,
             CreateRoom(p, r, n)
      PROVE  SlotsAgree'
  <2>1. /\ room_id' = [room_id EXCEPT ![p] = r]
        /\ members' = [members EXCEPT ![r] = {p}]
        /\ player_count' = [player_count EXCEPT ![r] = 1]
        /\ max_players' = [max_players EXCEPT ![r] = n]
        /\ table' = table \cup {r}
        /\ r \notin table
    BY <1>2 DEF CreateRoom, Seat
  <2>2. room_id[p] = None
    BY <1>0, <1>2 DEF CreateRoom, StatusAgrees
  <2>3. \A q \in Players : room_id[q] # r
    BY <1>0, <1>a, <2>1 DEF SlotsAgree
  <2>4. n \in Nat /\ 1 <= n /\ n <= MaxPlayers
    BY RoomsAssumption
  <2>5. Cardinality({p}) = 1
    BY FS_Singleton
  <2>6. \A q \in Players : room_id'[q] \in table' \cup {None}
    BY <1>0, <2>1 DEF SlotsAgree, TypeOK
  <2>7. ASSUME NEW q \in Players, NEW s \in Rooms
        PROVE  q \in members'[s] <=> room_id'[q] = s
    BY <1>0, <1>a, <2>1, <2>2, <2>3 DEF SlotsAgree, TypeOK
  <2>8. ASSUME NEW s \in Rooms
        PROVE  /\ player_count'[s] = Cardinality(members'[s])
               /\ player_count'[s] <= MaxPlayers
    BY <1>0, <2>1, <2>4, <2>5, RoomsAssumption DEF SlotsAgree, TypeOK
  <2>9. ASSUME NEW s \in table'
        PROVE  player_count'[s] <= max_players'[s]
    BY <1>0, <2>1, <2>4 DEF SlotsAgree, TypeOK
  <2> QED BY <2>6, <2>7, <2>8, <2>9 DEF SlotsAgree
<1>3. ASSUME NEW p \in Players, NEW r \in Rooms, JoinRoom(p, r) PROVE SlotsAgree'
  <2>1. /\ room_id' = [room_id EXCEPT ![p] = r]
        /\ members' = [members EXCEPT ![r] = @ \cup {p}]
        /\ player_count' = [player_count EXCEPT ![r] = @ + 1]
        /\ max_players' = max_players /\ table' = table
        /\ r \in table
        /\ player_count[r] < max_players[r]
        /\ Cardinality(members[r]) < MaxPlayers
    BY <1>3 DEF JoinRoom, HasSpace, Seat, roomVars
  <2>2. room_id[p] = None
    BY <1>0, <1>3 DEF JoinRoom, StatusAgrees
  <2>3. p \notin members[r]
    BY <1>0, <1>a, <2>2 DEF SlotsAgree
  <2>4. player_count[r] + 1 = Cardinality(members[r] \cup {p})
    BY <1>0, <2>3, CountAfterJoin
  <2>5. /\ player_count[r] + 1 <= max_players[r]
        /\ player_count[r] + 1 <= MaxPlayers
    BY <1>0, <2>1, RoomsAssumption DEF SlotsAgree, TypeOK
  <2>6. \A q \in Players : room_id'[q] \in table' \cup {None}
    BY <1>0, <2>1 DEF SlotsAgree, TypeOK
  <2>7. ASSUME NEW q \in Players, NEW s \in Rooms
        PROVE  q \in members'[s] <=> room_id'[q] = s
    BY <1>0, <1>a, <2>1, <2>2 DEF SlotsAgree, TypeOK
  <2>8. ASSUME NEW s \in Rooms
        PROVE  /\ player_count'[s] = Cardinality(members'[s])
               /\ player_count'[s] <= MaxPlayers
    BY <1>0, <2>1, <2>4, <2>5 DEF SlotsAgree, TypeOK
  <2>9. ASSUME NEW s \in table'
        PROVE  player_count'[s] <= max_players'[s]
    BY <1>0, <2>1, <2>5 DEF SlotsAgree, TypeOK
  <2> QED BY <2>6, <2>7, <2>8, <2>9 DEF SlotsAgree
<1>4. CASE Remove
  <2> DEFINE p == main.p  r == main.r
  <2>0. /\ p \in Players /\ r \in Rooms /\ r \in table
        /\ room_id[p] = r /\ p \in members[r]
    BY <1>0, <1>4 DEF Remove, At, MainLocals, MainIdle, SlotsAgree, TypeOK
  <2> HIDE DEF p, r
  <2>1. /\ room_id' = [room_id EXCEPT ![p] = None]
        /\ members' = [members EXCEPT ![r] = @ \ {p}]
        /\ player_count' = [player_count EXCEPT ![r] = @ - 1]
        /\ max_players' = max_players /\ table' = table
    BY <1>4 DEF Remove, p, r
  <2>2. /\ player_count[r] - 1 \in Nat
        /\ player_count[r] - 1 = Cardinality(members[r] \ {p})
    BY <1>0, <2>0, CountAfterRemove
  <2>3. /\ player_count[r] - 1 <= max_players[r]
        /\ player_count[r] - 1 <= MaxPlayers
    BY <1>0, <2>0, RoomsAssumption DEF SlotsAgree, TypeOK
  <2>6. \A q \in Players : room_id'[q] \in table' \cup {None}
    BY <1>0, <2>1 DEF SlotsAgree, TypeOK
  <2>7. ASSUME NEW q \in Players, NEW s \in Rooms
        PROVE  q \in members'[s] <=> room_id'[q] = s
    BY <1>0, <1>a, <2>0, <2>1 DEF SlotsAgree, TypeOK
  <2>8. ASSUME NEW s \in Rooms
        PROVE  /\ player_count'[s] = Cardinality(members'[s])
               /\ player_count'[s] <= MaxPlayers
    BY <1>0, <2>1, <2>2, <2>3 DEF SlotsAgree, TypeOK
  <2>9. ASSUME NEW s \in table'
        PROVE  player_count'[s] <= max_players'[s]
    BY <1>0, <2>1, <2>3 DEF SlotsAgree, TypeOK
  <2> QED BY <2>6, <2>7, <2>8, <2>9 DEF SlotsAgree
<1>5. CASE Destroy
  <2>1. /\ UNCHANGED <<room_id, members, player_count, max_players>>
        /\ table' = table \ {main.r}
    BY <1>5 DEF Destroy, playerVars
  <2>2. main.r \in Rooms /\ members[main.r] = {}
    BY <1>0, <1>5 DEF Destroy, At, MainLocals, TypeOK
  <2>3. \A q \in Players : room_id[q] # main.r
    BY <1>0, <2>2 DEF SlotsAgree
  <2> QED BY <1>0, <2>1, <2>3 DEF SlotsAgree
<1> QED BY <1>1, <1>2, <1>3, <1>4, <1>5, SeatSteps

\* The only steps of a game thread or the clock that change a status are a death
\* in a tick and the reset at the end of a game.
LEMMA ThreadStatusSteps ==
  ASSUME TypeOK, SlotsAgree, StatusAgrees,
         \/ \E t \in Threads : ThreadStep(t)
         \/ \E r \in Rooms : Expire(r)
  PROVE  \A p \in Players : \/ status'[p] = status[p]
                            \/ status'[p] = "dead" /\ status[p] = "gaming"
                            \/ status'[p] = "in_room"
<1> DEFINE Good == \A p \in Players : \/ status'[p] = status[p]
                                      \/ status'[p] = "dead" /\ status[p] = "gaming"
                                      \/ status'[p] = "in_room"
<1>1. ASSUME NEW r \in Rooms, Expire(r) PROVE Good
  BY <1>1 DEF Expire, playerVars
<1>2. ASSUME NEW t \in Threads, NEW K \in SUBSET Players, Tick(t, K) PROVE Good
  BY <1>2 DEF Tick
<1>3. ASSUME NEW t \in Threads, NEW p \in Players, Reset(t, p) PROVE Good
  BY <1>3 DEF Reset, TypeOK
<1>4. ASSUME NEW t \in Threads,
             \/ ThreadStart(t) \/ LoopTest(t) \/ CheckEnd(t) \/ EndGame(t)
             \/ ReopenRoom(t) \/ CloseWal(t) \/ UnlinkFiles(t) \/ Unlock(t)
      PROVE  Good
  BY <1>4 DEF ThreadStart, LoopTest, CheckEnd, EndGame, ReopenRoom, CloseWal, UnlinkFiles,
              Unlock, playerVars
<1> QED BY <1>1, <1>2, <1>3, <1>4 DEF ThreadStep

\* Every step keeps the statuses, the seats and the names in agreement.
LEMMA StatusAgreesStep == IInv /\ [Next]_vars => StatusAgrees'
<1> SUFFICES ASSUME IInv, [Next]_vars PROVE StatusAgrees'
  OBVIOUS
<1>0. TypeOK /\ SlotsAgree /\ StatusAgrees /\ MainLocals
  BY DEF IInv
<1>a. None \notin Rooms /\ None \notin Users
  BY RoomsAssumption
<1>1. CASE UNCHANGED vars
  BY <1>0, <1>1 DEF vars, playerVars, StatusAgrees
<1>2. CASE \/ \E t \in Threads : ThreadStep(t)
           \/ \E r \in Rooms : Expire(r)
  <2>1. UNCHANGED <<room_id, user>>
    BY <1>2, ThreadsLeaveSeats
  <2>2. \A p \in Players : \/ status'[p] = status[p]
                           \/ status'[p] = "dead" /\ status[p] = "gaming"
                           \/ status'[p] = "in_room"
    BY <1>0, <1>2, ThreadStatusSteps
  <2> QED BY <1>0, <2>1, <2>2 DEF StatusAgrees
<1>3. CASE Command
  <2> SUFFICES ASSUME NEW p \in Players,
                      \/ Connect(p)
                      \/ \E u \in Users : Login(p, u)
                      \/ \E r \in Rooms, n \in MinPlayers..MaxPlayers : CreateRoom(p, r, n)
                      \/ \E r \in Rooms : JoinRoom(p, r)
                      \/ \E cmd \in {"leave", "logout", "disconnect"} : Depart(p, cmd)
                      \/ Ready(p)
                      \/ Attack(p)
               PROVE  StatusAgrees'
    BY <1>3 DEF Command
  <2>1. CASE Connect(p)
    BY <1>0, <2>1 DEF Connect, StatusAgrees, TypeOK
  <2>2. ASSUME NEW u \in Users, Login(p, u) PROVE StatusAgrees'
    BY <1>0, <1>a, <2>2 DEF Login, Unused, StatusAgrees, TypeOK
  <2>3. ASSUME NEW r \in Rooms, Seat(p, r), user' = user, status[p] = "lobby"
        PROVE  StatusAgrees'
    BY <1>0, <1>a, <2>3 DEF Seat, StatusAgrees, TypeOK
  <2>4. ASSUME NEW r \in Rooms, NEW n \in MinPlayers..MaxPlayers, CreateRoom(p, r, n)
        PROVE  StatusAgrees'
    BY <2>3, <2>4 DEF CreateRoom
  <2>5. ASSUME NEW r \in Rooms, JoinRoom(p, r) PROVE StatusAgrees'
    BY <2>3, <2>5 DEF JoinRoom, HasSpace
  <2>6. CASE Attack(p) \/ \E cmd \in {"leave", "logout", "disconnect"} : Depart(p, cmd)
    BY <1>0, <2>6 DEF Attack, Depart, playerVars, StatusAgrees
  <2>7. CASE Ready(p)
    BY <1>0, <1>a, <2>7 DEF Ready, StatusAgrees, TypeOK
  <2> QED BY <2>1, <2>2, <2>4, <2>5, <2>6, <2>7
<1>4. CASE MainStep
  <2>1. CASE Remove
    <3>1. main.p \in Players /\ user[main.p] # None
      BY <1>0, <1>a, <2>1 DEF Remove, At, MainLocals, MainIdle, StatusAgrees, TypeOK
    <3> QED BY <1>0, <2>1, <3>1 DEF Remove, StatusAgrees, TypeOK
  <2>2. CASE Finish
    <3>1. /\ main.p \in Players /\ room_id[main.p] = None
          /\ main.cmd \in {"leave", "logout", "disconnect"}
      BY <1>0, <2>2 DEF Finish, At, MainLocals, MainIdle
    <3>2. CASE main.cmd = "leave"
      BY <1>0, <2>2, <3>1, <3>2 DEF Finish, StatusAfter, StatusAgrees, TypeOK
    <3>3. CASE main.cmd \in {"logout", "disconnect"}
      <4>1. PICK st \in {"connected", "disconnected"} : status' = [status EXCEPT ![main.p] = st]
        BY <2>2, <3>3 DEF Finish, StatusAfter
      <4>2. user' = [user EXCEPT ![main.p] = None] /\ room_id' = room_id
        BY <2>2, <3>3 DEF Finish, StatusAfter
      <4> QED BY <1>0, <3>1, <4>1, <4>2 DEF StatusAgrees, TypeOK
    <3> QED BY <3>1, <3>2, <3>3
  <2>3. CASE Launch
    <3>1. main.r \in Rooms
      BY <1>0, <2>3 DEF Launch, At, MainLocals, TypeOK
    <3>2. \A p \in Players : (status'[p] # status[p] => status'[p] = "gaming" /\ room_id[p] # None)
      BY <1>0, <1>a, <2>3, <3>1 DEF Launch, SlotsAgree
    <3> QED BY <1>0, <2>3, <3>2 DEF Launch, StatusAgrees
  <2>4. ASSUME NEW v \in Players, Hit(v) PROVE StatusAgrees'
    BY <1>0, <2>4 DEF Hit, StatusAgrees, TypeOK
  <2>5. CASE \/ Destroy \/ HitEnd \/ AllReady \/ WalOpen \/ WalSet \/ StartGame
             \/ \E t \in Threads : Spawn(t)
    <3>1. UNCHANGED <<status, room_id, user>>
      BY <2>5 DEF Destroy, HitEnd, AllReady, WalOpen, WalSet, StartGame, Spawn, playerVars
    <3> QED BY <1>0, <3>1 DEF StatusAgrees
  <2> QED BY <1>4, <2>1, <2>2, <2>3, <2>4, <2>5 DEF MainStep
<1> QED BY <1>1, <1>2, <1>3, <1>4 DEF Next

\* Every step keeps the names of the connections distinct.
LEMMA UsersDistinctStep == IInv /\ [Next]_vars => UsersDistinct'
<1> SUFFICES ASSUME IInv, [Next]_vars PROVE UsersDistinct'
  OBVIOUS
<1>0. TypeOK /\ UsersDistinct /\ MainLocals
  BY DEF IInv
<1>1. CASE user' = user
  BY <1>0, <1>1 DEF UsersDistinct
<1>2. ASSUME NEW p \in Players, NEW u \in Users, Login(p, u) PROVE UsersDistinct'
  BY <1>0, <1>2 DEF Login, Unused, UsersDistinct, TypeOK
<1>3. CASE Finish
  BY <1>0, <1>3 DEF Finish, UsersDistinct, TypeOK
<1>4. ASSUME Command, ~ \E p \in Players, u \in Users : Login(p, u) PROVE user' = user
  BY <1>4 DEF Command, Connect, CreateRoom, JoinRoom, Depart, Ready, Attack, playerVars
<1>5. ASSUME MainStep, ~Finish PROVE user' = user
  BY <1>5 DEF MainStep, Remove, Destroy, AllReady, WalOpen, WalSet, StartGame, Launch, Spawn,
              Hit, HitEnd, playerVars
<1>6. CASE UNCHANGED vars
  BY <1>1, <1>6 DEF vars, playerVars
<1> QED BY <1>1, <1>2, <1>3, <1>4, <1>5, <1>6, ThreadsLeaveSeats DEF Next

\* Every step keeps the rooms[] table free of empty rooms.
LEMMA NoEmptyRoomStep == IInv /\ [Next]_vars => NoEmptyRoom'
<1> SUFFICES ASSUME IInv, [Next]_vars, NEW s \in table', members'[s] = {}
             PROVE  main'.pc = "destroy" /\ main'.r = s
  BY DEF NoEmptyRoom
<1>0. TypeOK /\ SlotsAgree /\ NoEmptyRoom /\ MainLocals
  BY DEF IInv
<1>1. ASSUME UNCHANGED <<table, members>>, main.pc = "destroy" => main'.pc = main.pc /\ main'.r = main.r
      PROVE  main'.pc = "destroy" /\ main'.r = s
  BY <1>0, <1>1 DEF NoEmptyRoom
<1>2. CASE UNCHANGED vars
  BY <1>1, <1>2 DEF vars, roomVars
<1>3. CASE \/ \E t \in Threads : ThreadStep(t)
           \/ \E r \in Rooms : Expire(r)
  BY <1>0, <1>1, <1>3, ThreadsLeaveSeats, ThreadsLeaveMain
<1>4. ASSUME NEW p \in Players, NEW r \in Rooms, MainIdle, table' = table \/ table' = table \cup {r},
             \/ members' = [members EXCEPT ![r] = {p}]
             \/ members' = [members EXCEPT ![r] = @ \cup {p}]
      PROVE  FALSE
  <2>1. p \in members'[r] /\ \A q \in Rooms \ {r} : members'[q] = members[q]
    BY <1>0, <1>4 DEF TypeOK
  <2>2. s # r /\ s \in table
    BY <1>4, <2>1
  <2>3. members[s] = {}
    BY <1>0, <2>1, <2>2 DEF TypeOK
  <2> QED BY <1>0, <1>4, <2>2, <2>3 DEF NoEmptyRoom, MainIdle
<1>5. CASE Remove
  <2>1. /\ main.p \in members[main.r] /\ main.r \in Rooms
        /\ table' = table /\ members' = [members EXCEPT ![main.r] = @ \ {main.p}]
        /\ main.pc = "remove"
    BY <1>0, <1>5 DEF Remove, At, MainLocals, MainIdle, SlotsAgree, TypeOK, roomVars
  <2>2. s = main.r
    BY <1>0, <2>1 DEF NoEmptyRoom, TypeOK
  <2>3. player_count[main.r] - 1 = 0
    <3>1. members'[s] = members[main.r] \ {main.p}
      BY <1>0, <2>1, <2>2 DEF TypeOK
    <3> QED BY <1>0, <2>1, <3>1, CountAfterRemove
  <2> QED BY <1>0, <1>5, <2>2, <2>3 DEF Remove, Last, Goto, TypeOK
<1>6. CASE Destroy
  BY <1>0, <1>6 DEF Destroy, NoEmptyRoom
<1>7. ASSUME NEW p \in Players,
             \/ Connect(p) \/ \E u \in Users : Login(p, u)
             \/ \E cmd \in {"leave", "logout", "disconnect"} : Depart(p, cmd)
             \/ Ready(p) \/ Attack(p)
      PROVE  main'.pc = "destroy" /\ main'.r = s
  <2>1. MainIdle /\ UNCHANGED <<table, members>>
    BY <1>7 DEF Connect, Login, Depart, Ready, Attack, roomVars
  <2> QED BY <1>1, <2>1 DEF MainIdle
<1>8. ASSUME \/ Finish \/ AllReady \/ WalOpen \/ WalSet \/ StartGame \/ Launch
             \/ \E t \in Threads : Spawn(t)
             \/ \E v \in Players : Hit(v)
             \/ HitEnd
      PROVE  main'.pc = "destroy" /\ main'.r = s
  <2>1. main.pc # "destroy" /\ UNCHANGED <<table, members>>
    BY <1>8 DEF Finish, AllReady, WalOpen, WalSet, StartGame, Launch, Spawn, Hit,
              HitEnd, roomVars, At
  <2> QED BY <1>1, <2>1
<1>9. CASE Command
  BY <1>4, <1>7, <1>9 DEF Command, CreateRoom, JoinRoom
<1>10. CASE MainStep
  BY <1>5, <1>6, <1>8, <1>10 DEF MainStep
<1> QED BY <1>2, <1>3, <1>9, <1>10 DEF Next

\* Every step leaves the main thread at work on a registered room.
LEMMA MainLocalsStep == IInv /\ [Next]_vars => MainLocals'
<1> SUFFICES ASSUME IInv, [Next]_vars PROVE MainLocals'
  OBVIOUS
<1>0. TypeOK /\ SlotsAgree /\ StatusAgrees /\ MainLocals
  BY DEF IInv
<1>a. None \notin Rooms /\ None \notin Players
  BY RoomsAssumption
<1>1. CASE UNCHANGED vars
  BY <1>0, <1>1 DEF vars, playerVars, roomVars, MainLocals, MainIdle, At
<1>2. CASE \/ \E t \in Threads : ThreadStep(t)
           \/ \E r \in Rooms : Expire(r)
  BY <1>0, <1>2, ThreadsLeaveSeats, ThreadsLeaveMain DEF MainLocals, MainIdle, At
<1>3. ASSUME main' = main, MainIdle PROVE MainLocals'
  BY <1>3 DEF MainLocals, MainIdle, At
<1>4. ASSUME main' = Idle PROVE MainLocals'
  BY <1>4 DEF MainLocals, MainIdle, At, Idle
<1>5. CASE Command
  <2>1. ASSUME NEW p \in Players, NEW cmd \in {"leave", "logout", "disconnect"}, Depart(p, cmd)
        PROVE  MainLocals'
    <3>1. UNCHANGED <<room_id, table, members>>
      BY <2>1 DEF Depart, playerVars, roomVars
    <3>2. room_id[p] \in table \/ room_id[p] = None
      BY <1>0 DEF SlotsAgree
    <3>3. CASE room_id[p] \in table
      BY <2>1, <3>1, <3>3 DEF Depart, MainLocals, MainIdle, At
    <3>4. CASE room_id[p] \notin table
      BY <2>1, <3>1, <3>2, <3>4 DEF Depart, MainLocals, MainIdle, At
    <3> QED BY <3>3, <3>4
  <2>2. ASSUME NEW p \in Players, Ready(p) \/ Attack(p) PROVE MainLocals'
    BY <2>2 DEF Ready, Attack, roomVars, MainLocals, MainIdle, At
  <2>3. ASSUME NEW p \in Players,
               \/ Connect(p)
               \/ \E u \in Users : Login(p, u)
               \/ \E r \in Rooms, n \in MinPlayers..MaxPlayers : CreateRoom(p, r, n)
               \/ \E r \in Rooms : JoinRoom(p, r)
        PROVE  MainLocals'
    BY <1>3, <2>3 DEF Connect, Login, CreateRoom, JoinRoom
  <2> QED BY <1>5, <2>1, <2>2, <2>3 DEF Command
<1>6. CASE MainStep
  <2>1. CASE Remove
    <3>1. /\ main.p \in members[main.r] /\ main.p \in Players /\ main.r \in table
          /\ main.r \in Rooms /\ main.cmd \in {"leave", "logout", "disconnect"}
      BY <1>0, <2>1 DEF Remove, At, MainLocals, MainIdle, SlotsAgree, TypeOK
    <3>2. /\ room_id' = [room_id EXCEPT ![main.p] = None]
          /\ members' = [members EXCEPT ![main.r] = @ \ {main.p}]
          /\ table' = table
      BY <2>1 DEF Remove, roomVars
    <3>3. /\ main'.p = main.p /\ main'.r = main.r /\ main'.cmd = main.cmd
          /\ main'.pc = IF player_count[main.r] - 1 = 0 THEN "destroy" ELSE "finish"
      BY <1>0, <2>1 DEF Remove, Last, Goto, TypeOK
    <3>4. main'.pc = "destroy" => members'[main'.r] = {}
      BY <1>0, <3>1, <3>2, <3>3, CountAfterRemove DEF TypeOK
    <3>5. room_id'[main'.p] = None
      BY <1>0, <3>1, <3>2, <3>3 DEF TypeOK
    <3> QED BY <3>1, <3>2, <3>3, <3>4, <3>5 DEF MainLocals, MainIdle, At
  <2>2. CASE Destroy
    BY <1>0, <2>2 DEF Destroy, playerVars, MainLocals, MainIdle, At, Goto, TypeOK
  <2>3. CASE WalOpen
    BY <1>0, <2>3 DEF WalOpen, playerVars, roomVars, MainLocals, MainIdle, At, TypeOK, WalHandle
  <2>4. CASE WalSet
    BY <1>0, <2>4 DEF WalSet, playerVars, roomVars, MainLocals, MainIdle, At, TypeOK
  <2>5. CASE StartGame
    BY <1>0, <2>5 DEF StartGame, playerVars, MainLocals, MainIdle, At, Goto, TypeOK
  <2>6. CASE Launch
    BY <1>0, <2>6 DEF Launch, roomVars, MainLocals, MainIdle, At, Goto, TypeOK
  <2>7. CASE AllReady
    BY <1>0, <1>4, <2>7 DEF AllReady, playerVars, roomVars, MainLocals, MainIdle, At, TypeOK
  <2>8. CASE Finish \/ HitEnd \/ \E t \in Threads : Spawn(t)
    BY <1>4, <2>8 DEF Finish, HitEnd, Spawn
  <2>9. ASSUME NEW v \in Players, Hit(v) PROVE MainLocals'
    <3>1. UNCHANGED <<room_id, roomVars, main>>
      BY <2>9 DEF Hit
    <3> QED BY <1>0, <3>1 DEF roomVars, MainLocals, MainIdle, At
  <2> QED BY <1>6, <2>1, <2>2, <2>3, <2>4, <2>5, <2>6, <2>7, <2>8, <2>9 DEF MainStep
<1> QED BY <1>1, <1>2, <1>5, <1>6 DEF Next

-----------------------------------------------------------------------------
(* The invariant *)

\* The initial state satisfies every part.
LEMMA InitIInv == Init => IInv
<1> SUFFICES ASSUME Init PROVE IInv
  OBVIOUS
<1>1. TypeOK
  BY InitTypeOK
<1>2. SlotsAgree
  BY FS_EmptySet, RoomsAssumption DEF Init, SlotsAgree
<1>3. StatusAgrees /\ UsersDistinct /\ NoEmptyRoom
  BY DEF Init, StatusAgrees, UsersDistinct, NoEmptyRoom
<1>4. MainLocals
  BY DEF Init, MainLocals, MainIdle, At, Idle
<1> QED BY <1>1, <1>2, <1>3, <1>4 DEF IInv

\* The inductive invariant holds in every reachable state, for any number of
\* players, users, rooms and game threads.
THEOREM Invariant == Spec => []IInv
<1>1. IInv /\ [Next]_vars => IInv'
  BY TypeOKStep, SlotsAgreeStep, StatusAgreesStep, UsersDistinctStep, NoEmptyRoomStep,
     MainLocalsStep DEF IInv
<1> QED BY <1>1, InitIInv, PTL DEF Spec

\* room.c, player.c: every field keeps its type; player_count never goes below
\* zero and no handler runs on a missing player or room.
THEOREM TypeCorrect == Spec => []TypeOK
  BY Invariant, PTL DEF IInv

\* room_add_player(), room_remove_player() and room_destroy() keep room_id, the
\* slots and player_count in step, nobody sits in two rooms or in a freed one,
\* and no room is overfull.
THEOREM SlotsAlwaysAgree == Spec => []SlotsAgree
  BY Invariant, PTL DEF IInv

\* What handler_create_room() and handler_join_room() rely on when they test
\* the status alone: in the lobby, in no room.
THEOREM StatusAlwaysAgrees == Spec => []StatusAgrees
  BY Invariant, PTL DEF IInv

\* handler.c, room.c: between two lock sections of a command its player, its room
\* and what it has tested of them are still what the rest of the handler takes
\* them to be.
THEOREM LocalsAlwaysHold == Spec => []MainLocals
  BY Invariant, PTL DEF IInv

\* handler_login(): no user is logged in twice.
THEOREM UsersAlwaysDistinct == Spec => []UsersDistinct
  BY Invariant, PTL DEF IInv

\* room_remove_player() and room_destroy(): an empty room is gone when the command
\* that emptied it ends, so the rooms[] table does not fill up.
THEOREM EmptyRoomsGo == Spec => []NoEmptyRoom
  BY Invariant, PTL DEF IInv

-----------------------------------------------------------------------------
(* The lobby implements Seating *)

\* The cardinality Seating counts with is the one Rooms counts with.
LEMMA SameCardinality == ASSUME NEW S PROVE Lobby!Cardinality(S) = Cardinality(S)
  BY DEF Lobby!Cardinality, Cardinality

\* Taking a free seat in a room with room for one more is Sit.
LEMMA SeatSits ==
  ASSUME IInv, NEW p \in Players, NEW r \in Rooms, status[p] = "lobby", Seat(p, r),
         user' = user, Cardinality(members[r]) < MaxPlayers
  PROVE  Lobby!Sit(p, r)
<1>1. room_id[p] = None /\ user[p] # None
  BY DEF IInv, StatusAgrees
<1>2. Lobby!Occupants(r) = members[r]
  BY DEF IInv, TypeOK, SlotsAgree, Lobby!Occupants
<1>3. Lobby!Cardinality(Lobby!Occupants(r)) < MaxPlayers
  BY <1>2, SameCardinality
<1> QED BY <1>1, <1>3 DEF Lobby!Sit, Seat

\* Every step of the lobby is a step of Seating or leaves seats and names alone.
LEMMA LobbyStep ==
  ASSUME IInv, [Next]_vars
  PROVE  [Lobby!Next]_<<room_id, user>>
<1>0. TypeOK /\ SlotsAgree /\ StatusAgrees /\ MainLocals
  BY DEF IInv
<1>1. ASSUME NEW p \in Players, NEW u \in Users, Login(p, u) PROVE Lobby!SignIn(p, u)
  BY <1>0, <1>1 DEF Login, Unused, Lobby!SignIn, StatusAgrees
<1>2. ASSUME NEW p \in Players, NEW r \in Rooms, NEW n \in MinPlayers..MaxPlayers,
             CreateRoom(p, r, n)
      PROVE  Lobby!Sit(p, r)
  <2>1. members[r] = {}
    <3>1. \A q \in Players : room_id[q] # r
      BY <1>0, <1>2, RoomsAssumption DEF CreateRoom, SlotsAgree
    <3> QED BY <1>0, <3>1 DEF SlotsAgree, TypeOK
  <2>2. Cardinality(members[r]) < MaxPlayers
    BY <2>1, FS_EmptySet, RoomsAssumption
  <2> QED BY <1>2, <2>2, SeatSits DEF CreateRoom
<1>3. ASSUME NEW p \in Players, NEW r \in Rooms, JoinRoom(p, r) PROVE Lobby!Sit(p, r)
  BY <1>3, SeatSits DEF JoinRoom, HasSpace
<1>4. CASE Remove
  <2>1. main.p \in Players /\ room_id[main.p] = main.r /\ main.r \in Rooms
    BY <1>0, <1>4 DEF Remove, At, MainLocals, MainIdle, TypeOK
  <2>2. Lobby!Stand(main.p)
    BY <1>4, <2>1, RoomsAssumption DEF Remove, Lobby!Stand
  <2> QED BY <2>1, <2>2 DEF Lobby!Next
<1>5. CASE Finish
  <2>1. /\ main.p \in Players /\ room_id[main.p] = None
        /\ main.cmd \in {"leave", "logout", "disconnect"}
    BY <1>0, <1>5 DEF Finish, At, MainLocals, MainIdle
  <2>2. CASE main.cmd = "leave" \/ user[main.p] = None
    BY <1>0, <1>5, <2>1, <2>2 DEF Finish, TypeOK
  <2>3. CASE main.cmd # "leave" /\ user[main.p] # None
    <3>1. Lobby!SignOut(main.p)
      BY <1>5, <2>1, <2>3 DEF Finish, Lobby!SignOut
    <3> QED BY <2>1, <3>1 DEF Lobby!Next
  <2> QED BY <2>2, <2>3
<1>6. ASSUME \/ \E p \in Players :
                    \/ Connect(p) \/ Ready(p) \/ Attack(p)
                    \/ \E cmd \in {"leave", "logout", "disconnect"} : Depart(p, cmd)
             \/ Destroy \/ AllReady \/ WalOpen \/ WalSet \/ StartGame \/ Launch
             \/ \E t \in Threads : Spawn(t)
             \/ \E v \in Players : Hit(v)
             \/ HitEnd
      PROVE  UNCHANGED <<room_id, user>>
  BY <1>6 DEF Connect, Ready, Attack, Depart, Destroy, AllReady, WalOpen, WalSet, StartGame,
              Launch, Spawn, Hit, HitEnd, playerVars
<1>7. CASE \/ \E t \in Threads : ThreadStep(t)
           \/ \E r \in Rooms : Expire(r)
  BY <1>7, ThreadsLeaveSeats
<1>8. CASE UNCHANGED vars
  BY <1>8 DEF vars, playerVars
<1>9. CASE Command
  BY <1>1, <1>2, <1>3, <1>6, <1>9 DEF Command, Lobby!Next
<1>10. CASE MainStep
  BY <1>4, <1>5, <1>6, <1>10 DEF MainStep
<1> QED BY <1>7, <1>8, <1>9, <1>10 DEF Next

\* The handlers of the main thread, cut into steps and interleaved with any
\* number of game threads, implement the atomic Seating.
THEOREM LobbyImplementsSeating == Spec => LobbySpec
<1>1. Init => Lobby!Init
  BY DEF Init, Lobby!Init
<1>2. IInv /\ [Next]_vars => [Lobby!Next]_<<room_id, user>>
  BY LobbyStep
<1> QED BY <1>1, <1>2, Invariant, PTL DEF Spec, LobbySpec, Lobby!Spec

=============================================================================
