------------------------- MODULE GoRecovery_proofs -------------------------
(***************************************************************************)
(* What holds of the Go server's logs and recovery for any number of       *)
(* users, rooms, crashes and games at a time, however often a log is begun *)
(* anew.                                                                   *)
(***************************************************************************)
EXTENDS GoRecovery, FiniteSetTheorems, TLAPS

-----------------------------------------------------------------------------
(***************************************************************************)
(* Types.                                                                  *)
(***************************************************************************)
LogsTyped ==
    /\ files \subseteq RoomIds
    /\ disk \in [RoomIds -> LogType] /\ logged \in [RoomIds -> LogType]
LoopsTyped == loop \in [RoomIds -> LoopType]
PlayersTyped ==
    /\ status \in [Users -> {"off", "lobby", "in_room", "gaming", "dead"}]
    /\ roomID \in [Users -> RoomIds \cup {None}] /\ hp \in [Users -> {0, 1}]
    /\ id \in [Users -> Nat] /\ nextPlayerID \in Nat
SeatsTyped ==
    /\ rooms \subseteq RoomIds /\ seats \in [RoomIds -> [Users -> Nat]]
    /\ playerCount \in [RoomIds -> Int] /\ \A r \in RoomIds : playerCount[r] <= MaxRoomPlayers
    /\ nextRoomID \in 1..(MaxRoom + 1)
    /\ roomStatus \in [RoomIds -> {"waiting", "gaming", "ended"}]
WaitsTyped ==
    /\ isRecovery \in [RoomIds -> BOOLEAN] /\ expected \in [RoomIds -> Nat]
    /\ originalRoomID \in [RoomIds -> RoomIds \cup {None}]
    /\ wal \in [RoomIds -> {"none", "open", "held"}] /\ fresh \in [RoomIds -> BOOLEAN]
PendingTyped ==
    /\ pending \in [RoomIds -> [ids : [Users -> Nat], alive : SUBSET Users]]
    /\ recByUser \in [Users -> RoomIds \cup {None}]
    /\ recRoomByOrig \in [RoomIds -> RoomIds \cup {None}]
    /\ restore \in [Users -> [pc : {"none", "seed", "seat", "fields"}, r : RoomIds \cup {None}]]
HistoryTyped ==
    /\ crashes \in 0..MaxCrashes
    /\ strays \subseteq Users /\ absent \subseteq Users /\ missed \subseteq Users
    /\ overdue \subseteq RoomIds /\ finished \subseteq RoomIds /\ seedings \in [RoomIds -> Nat]
SideTyped ==
    /\ potion \in [Users -> [pc : {"drink", "log"}, r : RoomIds] \cup {NoPotion}]
    /\ extra \in [RoomIds -> [pc : {"none", "runs", "ends"}, todo : SUBSET Users]]
    /\ revived \subseteq Users

LEMMA Types ==
  TypeOK <=> /\ LogsTyped /\ LoopsTyped /\ PlayersTyped /\ SeatsTyped
             /\ WaitsTyped /\ PendingTyped /\ HistoryTyped /\ SideTyped
  BY DEF TypeOK, LogsTyped, LoopsTyped, PlayersTyped, SeatsTyped, WaitsTyped, PendingTyped,
         HistoryTyped, SideTyped

\* A room that was never made is in no one's way.
Unborn ==
    \A r \in RoomIds : r >= nextRoomID =>
        /\ r \notin rooms /\ loop[r].pc = "none" /\ originalRoomID[r] = None
        /\ playerCount[r] = 0

-----------------------------------------------------------------------------
(* What is written is a log, and what a loop holds is its state. *)

LEMMA LogsClosed ==
  ASSUME NEW l \in LogType, NEW u \in Users, NEW i \in Nat, NEW living \in BOOLEAN
  PROVE  /\ Marked(l) \in LogType /\ Joined(l, u, i, living) \in LogType
         /\ Killed(l, i) \in LogType /\ Ended(l) \in LogType /\ Healed(l, i) \in LogType
<1>1. Marked(l) \in LogType /\ Ended(l) \in LogType
  BY DEF LogType, Marked, Ended
<1>0. \A A, H \in SUBSET Users : [l EXCEPT !.alive = A, !.hollow = H] \in LogType
  BY DEF LogType
<1>2. Killed(l, i) \in LogType
  <2>1. {v \in l.alive : l.ids[v] # i} \in SUBSET Users /\ {v \in l.hollow : l.ids[v] # i} \in SUBSET Users
    BY DEF LogType
  <2> QED BY <1>0, <2>1, Zenon DEF Killed
<1>3. Healed(l, i) \in LogType
  <2>1. l.alive \cup {v \in l.hollow : l.ids[v] = i} \in SUBSET Users
        /\ {v \in l.hollow : l.ids[v] # i} \in SUBSET Users
    BY DEF LogType
  <2> QED BY <1>0, <2>1, Zenon DEF Healed
<1>4. Joined(l, u, i, living) \in LogType
  BY DEF LogType, Joined
<1> QED BY <1>1, <1>2, <1>3, <1>4

LEMMA NoLogTyped == NoLog \in LogType
  BY DEF NoLog, LogType, None

LEMMA WritesTyped ==
  ASSUME LogsTyped, NEW f \in RoomIds, NEW l \in LogType,
         Write(f, l) \/ WriteAndSync(f, l) \/ Sync(f)
  PROVE  disk' \in [RoomIds -> LogType] /\ logged' \in [RoomIds -> LogType]
<1>1. logged[f] \in LogType
  BY DEF LogsTyped
<1> QED BY <1>1 DEF LogsTyped, Write, WriteAndSync, Sync, Written

LoopPCs == {"none", "log", "top", "tick", "collect", "rewrite", "judge", "end", "reset"}

LEMMA LoopsClosed ==
  ASSUME LoopsTyped, NEW r \in RoomIds, NEW todo \in SUBSET Users, NEW pc \in LoopPCs
  PROVE  /\ With(r, pc, todo) => LoopsTyped'
         /\ Goto(r, pc) => LoopsTyped'
<1>1. [NoLoop EXCEPT !.pc = pc, !.todo = todo] \in LoopType
  BY DEF NoLoop, LoopType, LoopPCs
<1>2. [loop[r] EXCEPT !.pc = pc] \in LoopType
  <2>1. loop[r] \in LoopType
    BY DEF LoopsTyped
  <2> QED BY <2>1 DEF LoopType, LoopPCs
<1>3. With(r, pc, todo) => LoopsTyped'
  BY <1>1 DEF With, LoopsTyped
<1>4. Goto(r, pc) => LoopsTyped'
  BY <1>2 DEF Goto, LoopsTyped
<1> QED BY <1>3, <1>4

LEMMA MembersTyped == ASSUME NEW r \in RoomIds PROVE Members(r) \subseteq Users /\ Alive(r) \subseteq Users
  BY DEF Members, Alive

LEMMA FilesTyped == ASSUME WaitsTyped, NEW r \in RoomIds PROVE File(r) \in RoomIds
  BY DEF WaitsTyped, File, None

LEMMA NumbersTyped ==
  /\ MaxRoom \in Nat /\ MaxCrashes \in Nat /\ MinRoomPlayers \in Nat /\ MaxRoomPlayers \in Nat
  /\ MaxRoomPlayers >= 1 /\ None \notin RoomIds /\ RoomIds \subseteq Nat
  BY GoRecoveryAssumption DEF RoomIds, None

-----------------------------------------------------------------------------
(* What a game loop, a potion and the loops of a refused start leave alone. *)

LEMMA LoopLeaves ==
  ASSUME NEW r \in RoomIds, GameLoop(r)
  PROVE  UNCHANGED <<idVars, roomID, id, rooms, seats, playerCount, recVars, restore, potion, extra,
                     crashes, seedings>>
<1>1. CASE StartGame(r) \/ LogDone(r) \/ Tick(r) \/ Snapshot(r) \/ NoSnapshot(r) \/ Truncate(r)
  BY <1>1 DEF StartGame, LogDone, Tick, Snapshot, NoSnapshot, Truncate, playerVars, roomVars, sideVars,
              history
<1>2. CASE SnapshotDone(r) \/ CheckEnd(r) \/ EndGame(r) \/ CloseGame(r)
  BY <1>2 DEF SnapshotDone, CheckEnd, EndGame, CloseGame, playerVars, roomVars, sideVars, history
<1>3. ASSUME NEW u \in Users, LogPlayer(r, u) \/ Rewrite(r, u) \/ ResetPlayer(r, u) \/ Die(u, r)
      PROVE  UNCHANGED <<idVars, roomID, id, rooms, seats, playerCount, recVars, restore, potion, extra,
                         crashes, seedings>>
  BY <1>3 DEF LogPlayer, Rewrite, ResetPlayer, Die, playerVars, roomVars, sideVars, history
<1>4. ASSUME NEW u \in Users, Collect(r, u)
      PROVE  UNCHANGED <<idVars, roomID, id, rooms, seats, playerCount, recVars, restore, potion, extra,
                         crashes, seedings>>
  BY <1>4, Zenon DEF Collect, playerVars, roomVars, sideVars, history
<1> QED BY <1>1, <1>2, <1>3, <1>4 DEF GameLoop

LEMMA PotionFrame ==
  ASSUME NEW u \in Users, Potion(u)
  PROVE  UNCHANGED <<files, idVars, status, roomID, id, roomVars, waitVars, wal, fresh, loop, recVars,
                     restore, extra, revived, crashes, history>>
  BY DEF Potion, Drink, Heal, LogPotion, fileVars, playerVars

LEMMA ExtraFrame ==
  ASSUME NEW r \in RoomIds, ExtraLoops(r)
  PROVE  UNCHANGED <<idVars, roomID, id, rooms, seats, playerCount, waitVars, recVars, restore, potion,
                     revived, crashes, absent, missed, overdue, finished, seedings>>
  BY DEF ExtraLoops, RefusedStart, LoopStops, ExtraSnapshot, ExtraEnd, ExtraReset, ExtraClose,
         playerVars, roomVars, sideVars, history

LEMMA RefusedMoves ==
  ASSUME TypeOK, NEW r \in RoomIds, RefusedStart(r)
  PROVE  /\ UNCHANGED <<disk, playerVars, loop, roomStatus, fresh, strays>>
         /\ r \in rooms \/ roomStatus[r] = "ended"
         /\ r \in doubled'
         /\ files' = files \cup {r} /\ logged' = [logged EXCEPT ![r] = disk[r]]
         /\ \A s \in RoomIds \ {r} : wal'[s] = wal[s] /\ extra'[s] = extra[s]
         /\ extra'[r].todo = extra[r].todo
<1>1. extra'[r].pc # "none" /\ extra'[r].todo = extra[r].todo
  BY DEF RefusedStart, TypeOK
<1> QED BY <1>1 DEF RefusedStart, TypeOK, roomVars, history, doubled

\* The other steps are in a room of this run, and in its own file.
LEMMA ExtraMoves ==
  ASSUME TypeOK, NEW r \in RoomIds, ExtraLoops(r), ~RefusedStart(r)
  PROVE  /\ r \in doubled /\ originalRoomID[r] = None /\ doubled' = doubled
         /\ \A s \in RoomIds \ {r} : /\ loop'[s] = loop[s] /\ roomStatus'[s] = roomStatus[s]
                                     /\ wal'[s] = wal[s] /\ extra'[s] = extra[s]
                                     /\ logged'[s] = logged[s] /\ disk'[s] = disk[s]
                                     /\ s \in files' <=> s \in files
         /\ loop'[r] \in {loop[r], [loop[r] EXCEPT !.pc = "none"]}
         /\ roomStatus'[r] \in {roomStatus[r], "ended", "waiting"}
         /\ extra'[r].todo \subseteq extra[r].todo \cup Members(r)
<1>1. Extra(r)
  BY DEF ExtraLoops, LoopStops, ExtraSnapshot, ExtraEnd, ExtraReset, ExtraClose
<1>2. /\ loop' \in {loop, [loop EXCEPT ![r].pc = "none"]}
      /\ UNCHANGED roomStatus \/ roomStatus' = [roomStatus EXCEPT ![r] = "ended"]
           \/ roomStatus' = [roomStatus EXCEPT ![r] = "waiting"]
      /\ UNCHANGED wal \/ wal' = [wal EXCEPT ![r] = "none"]
  BY DEF ExtraLoops, LoopStops, ExtraSnapshot, ExtraEnd, ExtraReset, ExtraClose, Goto, roomVars
<1>3. UNCHANGED extra \/ extra' = [extra EXCEPT ![r] = [pc |-> "ends", todo |-> @.todo \cup Members(r)]]
  BY DEF ExtraLoops, LoopStops, ExtraSnapshot, ExtraEnd, ExtraReset, ExtraClose, sideVars
<1>4. /\ files' \in {files, files \cup {r}, files \ {r}}
      /\ UNCHANGED logged \/ \E l : logged' = [logged EXCEPT ![r] = l]
      /\ UNCHANGED disk \/ \E l : disk' = [disk EXCEPT ![r] = l]
  BY DEF ExtraLoops, LoopStops, ExtraSnapshot, ExtraEnd, ExtraReset, ExtraClose, fileVars, WriteAndSync,
         Written, Delete
<1>5. doubled' = doubled /\ \A s \in RoomIds \ {r} : extra'[s] = extra[s]
  <2>1. \A s \in RoomIds \ {r} : extra'[s] = extra[s]
    BY <1>3 DEF TypeOK
  <2>2. extra[r].pc # "none" /\ extra'[r].pc # "none"
    BY <1>1, <1>3 DEF Extra, doubled, TypeOK
  <2>3. \A s \in RoomIds : extra'[s].pc # "none" <=> extra[s].pc # "none"
    BY <2>1, <2>2
  <2> QED BY <2>1, <2>3 DEF doubled
<1>6. extra'[r].todo \subseteq extra[r].todo \cup Members(r)
  BY <1>3 DEF TypeOK
<1> QED BY <1>1, <1>2, <1>4, <1>5, <1>6 DEF Extra, TypeOK

-----------------------------------------------------------------------------
(* Each part of the type invariant is kept. *)

LEMMA InitTyped == Init => TypeOK /\ Unborn
<1> SUFFICES ASSUME Init PROVE TypeOK /\ Unborn
  OBVIOUS
<1> USE NumbersTyped DEF Init
<1>1. LogsTyped
  BY NoLogTyped DEF LogsTyped
<1>2. LoopsTyped
  BY DEF LoopsTyped, LoopType, NoLoop
<1>3. PlayersTyped
  BY DEF PlayersTyped, None
<1>6. SeatsTyped
  BY DEF SeatsTyped
<1>7. WaitsTyped
  BY DEF WaitsTyped
<1>4. PendingTyped /\ HistoryTyped /\ SideTyped
  <2>1. NoGame \in [ids : [Users -> Nat], alive : SUBSET Users]
    BY DEF NoGame, None
  <2> QED BY <2>1 DEF PendingTyped, HistoryTyped, SideTyped, NoExtra
<1>5. Unborn
  BY DEF Unborn, NoLoop
<1> QED BY <1>1, <1>2, <1>3, <1>4, <1>5, <1>6, <1>7, Types

\* Whoever is being put back has a room that was made in this run.
Born ==
    \A u \in Users : restore[u].pc # "none" =>
        restore[u].r \in RoomIds /\ restore[u].r < nextRoomID

LEMMA LogsKept == TypeOK /\ Next => LogsTyped'
<1> SUFFICES ASSUME TypeOK, LogsTyped, WaitsTyped, PlayersTyped, PendingTyped, Next
             PROVE  LogsTyped'
  BY Types
<1>1. CASE Restart
  BY <1>1, NoLogTyped DEF Restart, LogsTyped
<1>2. ASSUME NEW u \in Users, Connection(u) PROVE LogsTyped'
  <2>1. CASE Login(u) \/ CreateRoom(u) \/ (\E r \in RoomIds : JoinRoom(u, r)) \/ Rejoin(u)
                \/ SeatBack(u) \/ NoSeatBack(u) \/ FieldsBack(u)
    BY <2>1 DEF Login, CreateRoom, JoinRoom, Rejoin, SeatBack, NoSeatBack, FieldsBack, fileVars,
                LogsTyped
  <2>2. CASE Leave(u)
    <3>1. roomID[u] \in RoomIds \cup {None}
      BY DEF PlayersTyped
    <3>2. UNCHANGED files /\ (UNCHANGED <<disk, logged>> \/ Sync(File(roomID[u])))
      BY <2>2 DEF Leave, fileVars
    <3>3. logged' \in [RoomIds -> LogType] /\ disk' \in [RoomIds -> LogType]
      BY <3>2 DEF Sync, WriteAndSync, Written, LogsTyped
    <3> QED BY <3>2, <3>3 DEF LogsTyped
  <2>3. CASE Reopen(u)
    <3> DEFINE o == recByUser[u]
    <3>1. o \in RoomIds
      BY <2>3 DEF Reopen, Wanted, PendingTyped
    <3>2. Seed(pending[o]) \in LogType
          /\ \A part \in SUBSET pending[o].alive : [Seed(pending[o]) EXCEPT !.alive = part] \in LogType
      <4>1. pending[o] \in [ids : [Users -> Nat], alive : SUBSET Users]
        BY <3>1 DEF PendingTyped
      <4> QED BY <4>1 DEF Seed, LogType
    <3> QED BY <2>3, <3>1, <3>2, NoLogTyped DEF Reopen, LogsTyped
  <2>4. CASE Seeded(u)
    BY <2>4 DEF Seeded, Sync, WriteAndSync, Written, LogsTyped
  <2> QED BY <1>2, <2>1, <2>2, <2>3, <2>4 DEF Connection
<1>3. ASSUME NEW r \in RoomIds, GameLoop(r) PROVE LogsTyped'
  <2>0. File(r) \in RoomIds /\ logged[r] \in LogType /\ logged[File(r)] \in LogType
    BY FilesTyped DEF LogsTyped
  <2>1. CASE Tick(r) \/ Snapshot(r) \/ NoSnapshot(r) \/ CheckEnd(r)
                \/ (\E u \in Users : Collect(r, u) \/ ResetPlayer(r, u))
    <3>1. UNCHANGED fileVars
      BY <2>1, Zenon DEF Tick, Snapshot, NoSnapshot, CheckEnd, Collect, ResetPlayer
    <3> QED BY <3>1 DEF fileVars, LogsTyped
  <2>2. CASE StartGame(r)
    <3>1. Marked(logged[r]) \in LogType
      BY <2>0 DEF Marked, LogType
    <3> QED BY <2>2, <3>1 DEF StartGame, LogsTyped
  <2>3. ASSUME NEW u \in Users, LogPlayer(r, u) \/ Rewrite(r, u) \/ Die(u, r) PROVE LogsTyped'
    <3>1. \A f \in RoomIds :
             /\ Joined(logged[f], u, id[u], hp[u] > 0) \in LogType
             /\ Joined(logged[f], u, id[u], u \in loop[r].living) \in LogType
             /\ Killed(logged[f], id[u]) \in LogType
      <4>1. (hp[u] > 0) \in BOOLEAN /\ (u \in loop[r].living) \in BOOLEAN /\ id[u] \in Nat
        BY DEF PlayersTyped
      <4> QED BY <4>1, LogsClosed DEF LogsTyped
    <3>2. UNCHANGED files
      BY <2>3 DEF LogPlayer, Rewrite, Die
    <3>3. UNCHANGED <<disk, logged>> \/ \E f \in RoomIds, l \in LogType : Write(f, l)
      <4>1. CASE LogPlayer(r, u)
        BY <4>1, <3>1 DEF LogPlayer
      <4>2. CASE Rewrite(r, u)
        BY <4>2, <3>1, <2>0 DEF Rewrite
      <4>3. CASE Die(u, r)
        BY <4>3, <3>1, <2>0 DEF Die
      <4> QED BY <2>3, <4>1, <4>2, <4>3
    <3> QED BY <3>2, <3>3, WritesTyped DEF LogsTyped
  <2>4. CASE LogDone(r) \/ SnapshotDone(r)
    <3>1. UNCHANGED files
      BY <2>4 DEF LogDone, SnapshotDone
    <3>2. UNCHANGED <<disk, logged>> \/ \E f \in RoomIds : Sync(f)
      BY <2>0, <2>4 DEF LogDone, SnapshotDone
    <3> QED BY <3>1, <3>2, NoLogTyped, WritesTyped DEF LogsTyped
  <2>5. CASE Truncate(r)
    <3>1. Marked(NoLog) \in LogType
      BY NoLogTyped DEF Marked, LogType
    <3> QED BY <2>0, <2>5, <3>1, NoLogTyped DEF Truncate, LogsTyped
  <2>6. CASE EndGame(r)
    <3>1. Ended(logged[File(r)]) \in LogType
      BY <2>0 DEF Ended, LogType
    <3>2. UNCHANGED <<disk, logged>> \/ WriteAndSync(File(r), Ended(logged[File(r)]))
      BY <2>6 DEF EndGame
    <3>3. UNCHANGED files
      BY <2>6 DEF EndGame
    <3> QED BY <2>0, <3>1, <3>2, <3>3, WritesTyped DEF LogsTyped
  <2>7. CASE CloseGame(r)
    BY <2>0, <2>7, NoLogTyped DEF CloseGame, Delete, LogsTyped
  <2> QED BY <1>3, <2>1, <2>2, <2>3, <2>4, <2>5, <2>6, <2>7 DEF GameLoop
<1>4. ASSUME NEW u \in Users, Potion(u) PROVE LogsTyped'
  <2>1. CASE LogPotion(u)
    <3> DEFINE f == File(potion[u].r)
               l == Healed(logged[f], id[u])
    <3>1. UNCHANGED files /\ (UNCHANGED <<disk, logged>> \/ Write(f, l))
      BY <2>1 DEF LogPotion
    <3>2. CASE f \in files
      <4>1. f \in RoomIds /\ logged[f] \in LogType /\ id[u] \in Nat
        BY <3>2 DEF LogsTyped, PlayersTyped
      <4>2. l \in LogType
        BY <4>1, LogsClosed
      <4> HIDE DEF f, l
      <4> QED BY <3>1, <4>1, <4>2, WritesTyped DEF LogsTyped
    <3>3. CASE f \notin files
      BY <3>1, <3>3 DEF Write, Written, LogsTyped
    <3> QED BY <3>2, <3>3
  <2>2. CASE Drink(u) \/ Heal(u)
    BY <2>2 DEF Drink, Heal, fileVars, LogsTyped
  <2> QED BY <1>4, <2>1, <2>2 DEF Potion
<1>5. ASSUME NEW r \in RoomIds, ExtraLoops(r) PROVE LogsTyped'
  <2>1. CASE RefusedStart(r)
    BY <2>1 DEF RefusedStart, LogsTyped
  <2>2. CASE LoopStops(r) \/ (\E u \in Users : ExtraReset(r, u))
    BY <2>2 DEF LoopStops, ExtraReset, fileVars, LogsTyped
  <2>3. CASE ExtraSnapshot(r)
    <3>1. PICK over \in BOOLEAN, known \in SUBSET Users, living \in SUBSET Users :
            logged' = [logged EXCEPT ![r] =
                [records |-> over \/ known # {}, over |-> over, alive |-> living, hollow |-> known \ living,
                 ids |-> [u \in Users |-> IF u \in known THEN id[u] ELSE None]]]
      <4>1. PICK over \in BOOLEAN, known \in SUBSET {u \in Users : status[u] # "off"} :
              \E living \in SUBSET known :
                logged' = [logged EXCEPT ![r] =
                  [records |-> over \/ known # {}, over |-> over, alive |-> living, hollow |-> known \ living,
                   ids |-> [u \in Users |-> IF u \in known THEN id[u] ELSE None]]]
        BY <2>3, Zenon DEF ExtraSnapshot
      <4>2. known \in SUBSET Users /\ SUBSET known \subseteq SUBSET Users
        OBVIOUS
      <4> QED BY <4>1, <4>2, Zenon
    <3>2. [u \in Users |-> IF u \in known THEN id[u] ELSE None] \in [Users -> Nat]
      BY DEF PlayersTyped, None
    <3>3. (over \/ known # {}) \in BOOLEAN
      OBVIOUS
    <3>4. logged' \in [RoomIds -> LogType]
      BY <3>1, <3>2, <3>3 DEF LogsTyped, LogType
    <3> QED BY <2>3, <3>4 DEF ExtraSnapshot, LogsTyped
  <2>4. CASE ExtraEnd(r)
    <3>1. Ended(logged[r]) \in LogType
      BY DEF Ended, LogType, LogsTyped
    <3>2. UNCHANGED files /\ (UNCHANGED <<disk, logged>> \/ WriteAndSync(r, Ended(logged[r])))
      BY <2>4 DEF ExtraEnd
    <3> QED BY <3>1, <3>2, WritesTyped DEF LogsTyped
  <2>5. CASE ExtraClose(r)
    BY <2>5, NoLogTyped DEF ExtraClose, Delete, LogsTyped
  <2> QED BY <1>5, <2>1, <2>2, <2>3, <2>4, <2>5 DEF ExtraLoops
<1> QED BY <1>1, <1>2, <1>3, <1>4, <1>5 DEF Next

LEMMA LoopsKept == TypeOK /\ Next => LoopsTyped'
<1> SUFFICES ASSUME TypeOK, LoopsTyped, PendingTyped, Next PROVE LoopsTyped'
  BY Types
<1>1. CASE Restart
  <2>1. NoLoop \in LoopType
    BY DEF NoLoop, LoopType
  <2> QED BY <1>1, <2>1 DEF Restart, LoopsTyped
<1>2. ASSUME NEW u \in Users, Connection(u) PROVE LoopsTyped'
  <2>1. CASE Seeded(u)
    <3>1. CASE restore[u].r \in RoomIds
      BY <2>1, <3>1, LoopsClosed DEF Seeded, LoopPCs
    <3>2. CASE restore[u].r \notin RoomIds
      BY <2>1, <3>2 DEF Seeded, With, LoopsTyped
    <3> QED BY <3>1, <3>2
  <2>2. CASE UNCHANGED loop
    BY <2>2 DEF LoopsTyped
  <2> QED BY <1>2, <2>1, <2>2
        DEF Connection, Login, CreateRoom, JoinRoom, Leave, Rejoin, Reopen, SeatBack, NoSeatBack, FieldsBack
<1>3. ASSUME NEW r \in RoomIds, GameLoop(r) PROVE LoopsTyped'
  <2>0. Members(r) \in SUBSET Users /\ {} \in SUBSET Users /\ loop[r] \in LoopType
    BY MembersTyped DEF LoopsTyped
  <2>1. CASE \E pc \in LoopPCs : Goto(r, pc) \/ With(r, pc, {}) \/ With(r, pc, Members(r))
    BY <2>0, <2>1, LoopsClosed
  <2>2. CASE UNCHANGED loop
    BY <2>2 DEF LoopsTyped
  <2>3. CASE StartGame(r) \/ Snapshot(r) \/ SnapshotDone(r) \/ EndGame(r) \/ CloseGame(r)
    BY <2>1, <2>3 DEF StartGame, Snapshot, SnapshotDone, EndGame, CloseGame, LoopPCs
  <2>4. CASE LogDone(r) \/ Tick(r) \/ NoSnapshot(r) \/ CheckEnd(r)
    BY <2>1, <2>2, <2>4 DEF LogDone, Tick, NoSnapshot, CheckEnd, Verdict, LoopPCs
  <2>5. ASSUME NEW u \in Users, LogPlayer(r, u) \/ Rewrite(r, u) \/ ResetPlayer(r, u)
        PROVE  LoopsTyped'
    <3>1. loop' = [loop EXCEPT ![r] = [loop[r] EXCEPT !.todo = @ \ {u}]]
      BY <2>5 DEF LogPlayer, Rewrite, ResetPlayer
    <3>2. [loop[r] EXCEPT !.todo = @ \ {u}] \in LoopType
      BY <2>0 DEF LoopType
    <3> QED BY <3>1, <3>2 DEF LoopsTyped
  <2>6. ASSUME NEW u \in Users, Collect(r, u) PROVE LoopsTyped'
    <3> DEFINE l == [loop[r] EXCEPT !.todo = @ \ {u}, !.seen = @ \cup {u},
                                    !.living = IF hp[u] > 0 THEN @ \cup {u} ELSE @]
    <3>1. loop' = [loop EXCEPT ![r] = l]
      BY <2>6 DEF Collect, LoopsTyped
    <3>2. l \in LoopType
      BY <2>0 DEF LoopType
    <3> QED BY <3>1, <3>2 DEF LoopsTyped
  <2>7. CASE Truncate(r)
    <3> DEFINE l == [loop[r] EXCEPT !.pc = "rewrite", !.todo = loop[r].seen]
    <3>1. loop' = [loop EXCEPT ![r] = l]
      BY <2>7 DEF Truncate, LoopsTyped
    <3>2. l \in LoopType
      BY <2>0 DEF LoopType
    <3> QED BY <3>1, <3>2 DEF LoopsTyped
  <2>8. ASSUME NEW u \in Users, Die(u, r) PROVE LoopsTyped'
    BY <2>2, <2>8 DEF Die
  <2> QED BY <1>3, <2>3, <2>4, <2>5, <2>6, <2>7, <2>8 DEF GameLoop
<1>4. ASSUME NEW u \in Users, Potion(u) PROVE LoopsTyped'
  BY <1>4, PotionFrame DEF LoopsTyped
<1>5. ASSUME NEW r \in RoomIds, ExtraLoops(r) PROVE LoopsTyped'
  <2>1. UNCHANGED loop \/ Goto(r, "none")
    BY <1>5 DEF ExtraLoops, RefusedStart, LoopStops, ExtraSnapshot, ExtraEnd, ExtraReset, ExtraClose
  <2> QED BY <2>1, LoopsClosed DEF LoopPCs, LoopsTyped
<1> QED BY <1>1, <1>2, <1>3, <1>4, <1>5 DEF Next

LEMMA PlayersKept == TypeOK /\ Next => PlayersTyped'
<1> SUFFICES ASSUME TypeOK, PlayersTyped, SeatsTyped, PendingTyped, Next PROVE PlayersTyped'
  BY Types
<1>1. CASE Restart
  BY <1>1 DEF Restart, PlayersTyped, None
<1>2. ASSUME NEW u \in Users, Connection(u) PROVE PlayersTyped'
  <2>1. CASE Login(u) \/ Leave(u) \/ FieldsBack(u)
    <3>1. CASE Login(u)
      BY <3>1 DEF Login, PlayersTyped
    <3>2. CASE Leave(u)
      BY <3>2 DEF Leave, idVars, PlayersTyped
    <3>3. CASE FieldsBack(u)
      <4>1. restore[u].r \in RoomIds \cup {None}
        BY DEF PendingTyped
      <4> QED BY <3>3, <4>1 DEF FieldsBack, idVars, PlayersTyped
    <3> QED BY <2>1, <3>1, <3>2, <3>3
  <2>2. ASSUME NEW r \in RoomIds, JoinRoom(u, r) PROVE PlayersTyped'
    BY <2>2 DEF JoinRoom, Enter, idVars, PlayersTyped
  <2>3. CASE CreateRoom(u)
    BY <2>3 DEF CreateRoom, Enter, SeatsTyped, PlayersTyped, RoomIds
  <2>4. CASE Rejoin(u) \/ Reopen(u) \/ Seeded(u) \/ SeatBack(u) \/ NoSeatBack(u)
    BY <2>4 DEF Rejoin, Reopen, Seeded, SeatBack, NoSeatBack, playerVars, idVars, PlayersTyped
  <2> QED BY <1>2, <2>1, <2>2, <2>3, <2>4 DEF Connection
<1>3. ASSUME NEW r \in RoomIds, GameLoop(r) PROVE PlayersTyped'
  <2>1. CASE StartGame(r)
    BY <2>1 DEF StartGame, idVars, PlayersTyped
  <2>2. ASSUME NEW u \in Users, ResetPlayer(r, u) \/ Die(u, r) PROVE PlayersTyped'
    BY <2>2 DEF ResetPlayer, Die, idVars, PlayersTyped
  <2>3. CASE UNCHANGED <<playerVars, idVars>>
    BY <2>3 DEF playerVars, idVars, PlayersTyped
  <2> QED BY <1>3, <2>1, <2>2, <2>3, LoopLeaves, ZenonT(60)
          DEF GameLoop, LogPlayer, LogDone, Tick, Snapshot, NoSnapshot, Collect, Truncate, Rewrite,
              SnapshotDone, CheckEnd, EndGame, CloseGame
<1>4. ASSUME NEW u \in Users, Potion(u) PROVE PlayersTyped'
  <2>1. UNCHANGED hp \/ hp' = [hp EXCEPT ![u] = 1]
    BY <1>4 DEF Potion, Drink, Heal, LogPotion, playerVars
  <2> QED BY <1>4, <2>1, PotionFrame DEF idVars, PlayersTyped
<1>5. ASSUME NEW r \in RoomIds, ExtraLoops(r) PROVE PlayersTyped'
  <2>1. UNCHANGED <<status, hp>>
        \/ \E u \in Users : status' = [status EXCEPT ![u] = "in_room"] /\ hp' = [hp EXCEPT ![u] = 1]
    BY <1>5 DEF ExtraLoops, RefusedStart, LoopStops, ExtraSnapshot, ExtraEnd, ExtraReset, ExtraClose,
                playerVars
  <2> QED BY <1>5, <2>1, ExtraFrame DEF idVars, PlayersTyped
<1> QED BY <1>1, <1>2, <1>3, <1>4, <1>5 DEF Next

LEMMA SatDown ==
  ASSUME SeatsTyped, NEW u \in Users, NEW r \in RoomIds \cup {None}, SitDown(u, r),
         playerCount[r] < MaxRoomPlayers
  PROVE  /\ seats' \in [RoomIds -> [Users -> Nat]] /\ playerCount' \in [RoomIds -> Int]
         /\ \A s \in RoomIds : playerCount'[s] <= MaxRoomPlayers
<1>1. playerCount' \in [RoomIds -> Int] /\ \A s \in RoomIds : playerCount'[s] <= MaxRoomPlayers
  <2>1. playerCount' = [playerCount EXCEPT ![r] = playerCount[r] + 1]
    BY DEF SitDown
  <2>2. ASSUME NEW s \in RoomIds
        PROVE  playerCount'[s] = IF s = r THEN playerCount[s] + 1 ELSE playerCount[s]
    BY <2>1 DEF SeatsTyped
  <2>3. playerCount' = [s \in RoomIds |-> IF s = r THEN playerCount[s] + 1 ELSE playerCount[s]]
    BY <2>1 DEF SeatsTyped
  <2>4. ASSUME NEW s \in RoomIds PROVE playerCount[s] \in Int /\ playerCount[s] <= MaxRoomPlayers
    BY DEF SeatsTyped
  <2>5. \A s \in RoomIds : playerCount'[s] \in Int /\ playerCount'[s] <= MaxRoomPlayers
    BY <2>2, <2>4, NumbersTyped
  <2> QED BY <2>3, <2>5
<1>2. seats' \in [RoomIds -> [Users -> Nat]]
  <2>1. ASSUME r \in RoomIds PROVE [seats[r] EXCEPT ![u] = @ + 1] \in [Users -> Nat]
    BY <2>1 DEF SeatsTyped
  <2> QED BY <2>1 DEF SeatsTyped, SitDown
<1> QED BY <1>1, <1>2

LEMMA SeatsKept == TypeOK /\ Unborn /\ Next => SeatsTyped'
<1> SUFFICES ASSUME TypeOK, LogsTyped, SeatsTyped, PlayersTyped, PendingTyped, Unborn, Next
             PROVE  SeatsTyped'
  BY Types
<1> USE NumbersTyped
<1>1. CASE Restart
  <2>1. nextRoomID' \in 1..(MaxRoom + 1)
    BY <1>1 DEF Restart, LogsTyped, RoomIds
  <2>2. seats' \in [RoomIds -> [Users -> Nat]] /\ playerCount' \in [RoomIds -> Int]
        /\ \A r \in RoomIds : playerCount'[r] <= MaxRoomPlayers
    BY <1>1 DEF Restart
  <2>3. rooms' \subseteq RoomIds /\ roomStatus' \in [RoomIds -> {"waiting", "gaming", "ended"}]
    BY <1>1 DEF Restart
  <2> QED BY <2>1, <2>2, <2>3 DEF SeatsTyped
<1>2. ASSUME NEW u \in Users, Connection(u) PROVE SeatsTyped'
  <2>1. CASE Login(u) \/ Rejoin(u) \/ Seeded(u) \/ NoSeatBack(u) \/ FieldsBack(u)
    BY <2>1 DEF Login, Rejoin, Seeded, NoSeatBack, FieldsBack, roomVars, idVars, SeatsTyped
  <2>2. ASSUME NEW r \in RoomIds, JoinRoom(u, r) PROVE SeatsTyped'
    BY <2>2, SatDown DEF JoinRoom, Enter, HasSlot, idVars, SeatsTyped
  <2>3. CASE CreateRoom(u)
    <3>1. nextRoomID \in RoomIds /\ playerCount[nextRoomID] < MaxRoomPlayers
      BY <2>3 DEF CreateRoom, Unborn, SeatsTyped, RoomIds
    <3>2. nextRoomID' \in 1..(MaxRoom + 1) /\ rooms' \subseteq RoomIds
      BY <2>3, <3>1 DEF CreateRoom, SeatsTyped, RoomIds
    <3> QED BY <2>3, <3>1, <3>2, SatDown DEF CreateRoom, Enter, SeatsTyped
  <2>4. CASE Leave(u)
    <3> DEFINE r == roomID[u]
    <3>1. r \in RoomIds /\ seats[r][u] > 0 /\ seats[r] \in [Users -> Nat]
      BY <2>4 DEF Leave, Members, SeatsTyped
    <3>2. [seats[r] EXCEPT ![u] = @ - 1] \in [Users -> Nat]
      BY <3>1
    <3>3. seats' \in [RoomIds -> [Users -> Nat]]
      BY <2>4, <3>1, <3>2 DEF Leave, SeatsTyped
    <3>4. playerCount' \in [RoomIds -> Int] /\ \A s \in RoomIds : playerCount'[s] <= MaxRoomPlayers
      <4>1. playerCount' = [playerCount EXCEPT ![r] = playerCount[r] - 1]
        BY <2>4 DEF Leave
      <4>2. \A s \in RoomIds : playerCount[s] \in Int /\ playerCount[s] <= MaxRoomPlayers
        BY DEF SeatsTyped
      <4>5. playerCount[r] \in Int /\ playerCount[r] <= MaxRoomPlayers
        BY <3>1, <4>2
      <4> HIDE DEF r
      <4>3. playerCount[r] - 1 \in Int /\ playerCount[r] - 1 <= MaxRoomPlayers
        BY <4>5
      <4> QED BY <3>1, <4>1, <4>2, <4>3 DEF SeatsTyped
    <3>5. rooms' \subseteq RoomIds /\ roomStatus' \in [RoomIds -> {"waiting", "gaming", "ended"}]
          /\ nextRoomID' = nextRoomID
      BY <2>4, <3>1 DEF Leave, SeatsTyped, idVars
    <3> QED BY <3>3, <3>4, <3>5 DEF SeatsTyped
  <2>5. CASE Reopen(u)
    <3>1. nextRoomID \in RoomIds /\ nextRoomID + 1 \in 1..(MaxRoom + 1)
      BY <2>5 DEF Reopen, SeatsTyped, RoomIds
    <3> QED BY <2>5, <3>1 DEF Reopen, SeatsTyped
  <2>6. CASE SeatBack(u)
    <3>1. restore[u].r \in RoomIds \cup {None}
      BY DEF PendingTyped
    <3> QED BY <2>6, <3>1, SatDown DEF SeatBack, HasSlot, idVars, SeatsTyped
  <2> QED BY <1>2, <2>1, <2>2, <2>3, <2>4, <2>5, <2>6 DEF Connection
<1>3. ASSUME NEW r \in RoomIds, GameLoop(r) PROVE SeatsTyped'
  <2>1. UNCHANGED <<idVars, rooms, seats, playerCount>>
    BY <1>3, LoopLeaves
  <2>2. roomStatus' \in [RoomIds -> {"waiting", "gaming", "ended"}]
    <3>1. UNCHANGED roomStatus
          \/ \E s \in {"waiting", "gaming", "ended"} : roomStatus' = [roomStatus EXCEPT ![r] = s]
      BY <1>3, ZenonT(60)
      DEF GameLoop, StartGame, LogPlayer, LogDone, Die, Tick, Snapshot, NoSnapshot, Collect, Truncate,
          Rewrite, SnapshotDone, CheckEnd, EndGame, ResetPlayer, CloseGame, roomVars
    <3> QED BY <3>1 DEF SeatsTyped
  <2> QED BY <2>1, <2>2 DEF SeatsTyped, idVars
<1>4. ASSUME NEW u \in Users, Potion(u) PROVE SeatsTyped'
  BY <1>4, PotionFrame DEF roomVars, idVars, SeatsTyped
<1>5. ASSUME NEW r \in RoomIds, ExtraLoops(r) PROVE SeatsTyped'
  <2>1. roomStatus' \in [RoomIds -> {"waiting", "gaming", "ended"}]
    BY <1>5 DEF ExtraLoops, RefusedStart, LoopStops, ExtraSnapshot, ExtraEnd, ExtraReset, ExtraClose,
                roomVars, SeatsTyped
  <2> QED BY <1>5, <2>1, ExtraFrame DEF idVars, SeatsTyped
<1> QED BY <1>1, <1>2, <1>3, <1>4, <1>5 DEF Next

LEMMA WaitsKept == TypeOK /\ Next => WaitsTyped'
<1> SUFFICES ASSUME TypeOK, WaitsTyped, SeatsTyped, PendingTyped, Next PROVE WaitsTyped'
  BY Types
<1>1. CASE Restart
  BY <1>1 DEF Restart, WaitsTyped
<1>2. ASSUME NEW u \in Users, Connection(u) PROVE WaitsTyped'
  <2>1. CASE Leave(u)
    BY <2>1 DEF Leave, waitVars, WaitsTyped
  <2>2. CASE Reopen(u)
    <3>1. recByUser[u] \in RoomIds /\ pending[recByUser[u]].alive \subseteq Users
      BY <2>2 DEF Reopen, Wanted, PendingTyped
    <3>2. Cardinality(pending[recByUser[u]].alive) \in Nat
      BY <3>1, GoRecoveryAssumption, FS_Subset, FS_CardinalityType
    <3>3. /\ isRecovery' = [isRecovery EXCEPT ![nextRoomID] = TRUE]
          /\ expected' = [expected EXCEPT ![nextRoomID] = Cardinality(pending[recByUser[u]].alive)]
          /\ originalRoomID' = [originalRoomID EXCEPT ![nextRoomID] = recByUser[u]]
          /\ wal' = [wal EXCEPT ![nextRoomID] = "open"] /\ UNCHANGED fresh
      BY <2>2, Zenon DEF Reopen
    <3> QED BY <3>1, <3>2, <3>3 DEF WaitsTyped
  <2>3. CASE UNCHANGED <<waitVars, wal, fresh>>
    BY <2>3 DEF waitVars, WaitsTyped
  <2> QED BY <1>2, <2>1, <2>2, <2>3
          DEF Connection, Login, CreateRoom, JoinRoom, Rejoin, Seeded, SeatBack, NoSeatBack, FieldsBack
<1>3. ASSUME NEW r \in RoomIds, GameLoop(r) PROVE WaitsTyped'
  <2>1. CASE CheckEnd(r)
    <3>1. UNCHANGED <<originalRoomID, wal, fresh>>
      BY <2>1 DEF CheckEnd, NoLongerWaits, waitVars
    <3>2. UNCHANGED <<isRecovery, expected>> \/ NoLongerWaits(r)
      BY <2>1 DEF CheckEnd, waitVars
    <3>3. isRecovery' \in [RoomIds -> BOOLEAN] /\ expected' \in [RoomIds -> Nat]
      <4>1. CASE UNCHANGED <<isRecovery, expected>>
        BY <4>1 DEF WaitsTyped
      <4>2. CASE NoLongerWaits(r)
        BY <4>2 DEF NoLongerWaits, WaitsTyped
      <4> QED BY <3>2, <4>1, <4>2
    <3> QED BY <3>1, <3>3 DEF WaitsTyped
  <2>2. CASE CloseGame(r)
    BY <2>2 DEF CloseGame, NoLongerWaits, WaitsTyped
  <2>3. CASE StartGame(r) \/ Truncate(r)
    BY <2>3 DEF StartGame, Truncate, waitVars, WaitsTyped
  <2>4. CASE UNCHANGED <<waitVars, wal, fresh>>
    BY <2>4 DEF waitVars, WaitsTyped
  <2> QED BY <1>3, <2>1, <2>2, <2>3, <2>4, ZenonT(60)
          DEF GameLoop, LogPlayer, LogDone, Die, Tick, Snapshot, NoSnapshot, Collect, Rewrite,
              SnapshotDone, EndGame, ResetPlayer
<1>4. ASSUME NEW u \in Users, Potion(u) PROVE WaitsTyped'
  BY <1>4, PotionFrame DEF waitVars, WaitsTyped
<1>5. ASSUME NEW r \in RoomIds, ExtraLoops(r) PROVE WaitsTyped'
  <2>1. wal' \in [RoomIds -> {"none", "open", "held"}] /\ fresh' \in [RoomIds -> BOOLEAN]
    BY <1>5 DEF ExtraLoops, RefusedStart, LoopStops, ExtraSnapshot, ExtraEnd, ExtraReset, ExtraClose,
                WaitsTyped
  <2> QED BY <1>5, <2>1, ExtraFrame DEF waitVars, WaitsTyped
<1> QED BY <1>1, <1>2, <1>3, <1>4, <1>5 DEF Next

RestoreType == [pc : {"none", "seed", "seat", "fields"}, r : RoomIds \cup {None}]
GameType == [ids : [Users -> Nat], alive : SUBSET Users]

LEMMA NothingTyped == NoGame \in GameType /\ [pc |-> "none", r |-> None] \in RestoreType
  BY DEF NoGame, GameType, RestoreType, None

LEMMA Consumed ==
  ASSUME PendingTyped, NEW u \in Users, NEW o \in RoomIds \cup {None},
         NEW r \in RoomIds \cup {None}, Consume(u, o, r)
  PROVE  PendingTyped'
<1> USE NothingTyped
<1>1. recByUser' \in [Users -> RoomIds \cup {None}]
  BY DEF PendingTyped, Consume
<1>2. restore' \in [Users -> RestoreType]
  <2>1. [pc |-> "seat", r |-> r] \in RestoreType
    BY DEF RestoreType
  <2> QED BY <2>1 DEF PendingTyped, RestoreType, Consume
<1>3. pending' \in [RoomIds -> GameType]
  BY DEF PendingTyped, GameType, Consume
<1>4. recRoomByOrig' \in [RoomIds -> RoomIds \cup {None}]
  BY DEF PendingTyped, Consume
<1> QED BY <1>1, <1>2, <1>3, <1>4 DEF PendingTyped, RestoreType, GameType

LEMMA PendingKept == TypeOK /\ Next => PendingTyped'
<1> SUFFICES ASSUME TypeOK, PendingTyped, SeatsTyped, LogsTyped, Next PROVE PendingTyped'
  BY Types
<1> USE NothingTyped
<1>1. CASE Restart
  <2>1. \A f \in RoomIds : [ids |-> disk[f].ids, alive |-> disk[f].alive] \in GameType
    BY DEF LogsTyped, LogType, GameType
  <2>2. pending' \in [RoomIds -> GameType]
    BY <1>1, <2>1 DEF Restart
  <2>3. /\ recByUser' \in [Users -> RoomIds \cup {None}]
        /\ recRoomByOrig' \in [RoomIds -> RoomIds \cup {None}]
        /\ restore' \in [Users -> RestoreType]
    BY <1>1 DEF Restart
  <2> QED BY <2>2, <2>3 DEF PendingTyped, GameType, RestoreType
<1>2. ASSUME NEW u \in Users, Connection(u) PROVE PendingTyped'
  <2>0. restore[u].r \in RoomIds \cup {None} /\ recByUser[u] \in RoomIds \cup {None}
    BY DEF PendingTyped
  <2>1. CASE Login(u) \/ CreateRoom(u) \/ Leave(u) \/ (\E r \in RoomIds : JoinRoom(u, r))
    BY <2>1 DEF Login, CreateRoom, Leave, JoinRoom, recVars, PendingTyped
  <2>2. CASE Rejoin(u)
    <3>1. recByUser[u] \in RoomIds
      BY <2>2, <2>0 DEF Rejoin, Wanted
    <3>2. LiveRoom(recByUser[u]) \in RoomIds \cup {None}
      BY <3>1 DEF LiveRoom, PendingTyped
    <3> QED BY <2>2, <2>0, <3>2, Consumed DEF Rejoin
  <2>3. CASE Seeded(u)
    BY <2>3, <2>0, Consumed DEF Seeded
  <2>4. CASE Reopen(u)
    <3>1. [pc |-> "seed", r |-> nextRoomID] \in RestoreType
      BY <2>4 DEF Reopen, SeatsTyped, RestoreType, RoomIds
    <3> QED BY <2>4, <3>1 DEF Reopen, recVars, PendingTyped, RestoreType
  <2>5. CASE SeatBack(u)
    <3>1. [restore[u] EXCEPT !.pc = "fields"] \in RestoreType
      BY DEF PendingTyped, RestoreType
    <3> QED BY <2>5, <3>1 DEF SeatBack, recVars, PendingTyped, RestoreType
  <2>6. CASE NoSeatBack(u) \/ FieldsBack(u)
    BY <2>6 DEF NoSeatBack, FieldsBack, recVars, PendingTyped, RestoreType
  <2> QED BY <1>2, <2>1, <2>2, <2>3, <2>4, <2>5, <2>6 DEF Connection
<1>3. ASSUME NEW r \in RoomIds, GameLoop(r) PROVE PendingTyped'
  <2>1. UNCHANGED <<recVars, restore>>
    BY <1>3, LoopLeaves
  <2> QED BY <2>1 DEF recVars, PendingTyped
<1>4. ASSUME NEW u \in Users, Potion(u) PROVE PendingTyped'
  BY <1>4, PotionFrame DEF recVars, PendingTyped
<1>5. ASSUME NEW r \in RoomIds, ExtraLoops(r) PROVE PendingTyped'
  BY <1>5, ExtraFrame DEF recVars, PendingTyped
<1> QED BY <1>1, <1>2, <1>3, <1>4, <1>5 DEF Next

LEMMA HistoryKept == TypeOK /\ Next => HistoryTyped'
<1> SUFFICES ASSUME TypeOK, HistoryTyped, WaitsTyped, PendingTyped, Next PROVE HistoryTyped'
  BY Types
<1>1. CASE Restart
  <2>1. crashes' \in 0..MaxCrashes
    BY <1>1, NumbersTyped DEF Restart, HistoryTyped
  <2>2. /\ strays' = {} /\ absent' = {} /\ missed' = {} /\ overdue' = {}
        /\ finished' \subseteq finished /\ seedings' = [f \in RoomIds |-> 0]
    BY <1>1 DEF Restart
  <2> QED BY <2>1, <2>2 DEF HistoryTyped
<1>2. ASSUME NEW u \in Users, Connection(u) PROVE HistoryTyped'
  <2>1. CASE UNCHANGED <<crashes, history>>
    BY <2>1 DEF history, HistoryTyped
  <2>2. CASE CreateRoom(u) \/ (\E r \in RoomIds : JoinRoom(u, r)) \/ SeatBack(u)
    BY <2>2 DEF CreateRoom, JoinRoom, Enter, SeatBack, HistoryTyped
  <2>3. CASE FieldsBack(u)
    BY <2>3 DEF FieldsBack, HistoryTyped
  <2>4. CASE Reopen(u)
    <3>1. seedings' \in [RoomIds -> Nat]
      <4>1. seedings' = [seedings EXCEPT ![recByUser[u]] = seedings[recByUser[u]] + 1]
        BY <2>4 DEF Reopen
      <4>2. recByUser[u] \in RoomIds
        BY <2>4 DEF Reopen, Wanted, PendingTyped
      <4>3. seedings[recByUser[u]] + 1 \in Nat
        BY <4>2 DEF HistoryTyped
      <4> QED BY <4>1, <4>2, <4>3 DEF HistoryTyped
    <3>2. finished' \subseteq finished /\ UNCHANGED <<crashes, strays, absent, missed, overdue>>
      BY <2>4 DEF Reopen
    <3> QED BY <3>1, <3>2 DEF HistoryTyped
  <2> QED BY <1>2, <2>1, <2>2, <2>3, <2>4
          DEF Connection, Login, Leave, Rejoin, Seeded, NoSeatBack
<1>3. ASSUME NEW r \in RoomIds, GameLoop(r) PROVE HistoryTyped'
  <2>1. CASE UNCHANGED <<crashes, history>>
    BY <2>1 DEF history, HistoryTyped
  <2>2. CASE StartGame(r) \/ Truncate(r) \/ CheckEnd(r) \/ CloseGame(r)
    BY <2>2 DEF StartGame, Truncate, CheckEnd, CloseGame, HistoryTyped
  <2>3. CASE EndGame(r)
    BY <2>3, FilesTyped DEF EndGame, HistoryTyped
  <2>4. ASSUME NEW u \in Users, Rewrite(r, u) \/ ResetPlayer(r, u) PROVE HistoryTyped'
    BY <2>4 DEF Rewrite, ResetPlayer, HistoryTyped
  <2> QED BY <1>3, <2>1, <2>2, <2>3, <2>4, ZenonT(60)
          DEF GameLoop, LogPlayer, LogDone, Die, Tick, Snapshot, NoSnapshot, Collect, SnapshotDone
<1>4. ASSUME NEW u \in Users, Potion(u) PROVE HistoryTyped'
  BY <1>4, PotionFrame DEF history, HistoryTyped
<1>5. ASSUME NEW r \in RoomIds, ExtraLoops(r) PROVE HistoryTyped'
  <2>1. UNCHANGED strays \/ \E u \in Users : strays' = strays \cup {u}
    BY <1>5 DEF ExtraLoops, RefusedStart, LoopStops, ExtraSnapshot, ExtraEnd, ExtraReset, ExtraClose,
                history
  <2> QED BY <1>5, <2>1, ExtraFrame DEF HistoryTyped
<1> QED BY <1>1, <1>2, <1>3, <1>4, <1>5 DEF Next

LEMMA SideKept == TypeOK /\ Next => SideTyped'
<1> SUFFICES ASSUME TypeOK, SideTyped, SeatsTyped, Next PROVE SideTyped'
  BY Types
<1>1. CASE Restart
  BY <1>1 DEF Restart, SideTyped, NoExtra
<1>2. ASSUME NEW u \in Users, Connection(u) PROVE SideTyped'
  BY <1>2 DEF Connection, Login, CreateRoom, JoinRoom, Leave, Rejoin, Reopen, Seeded, SeatBack,
              NoSeatBack, FieldsBack, sideVars, SideTyped
<1>3. ASSUME NEW r \in RoomIds, GameLoop(r) PROVE SideTyped'
  <2>1. UNCHANGED <<potion, extra>>
    BY <1>3, LoopLeaves
  <2>2. revived' \subseteq revived \/ \E u \in Users : revived' = revived \cup {u}
    <3>1. CASE StartGame(r) \/ \E u \in Users : Die(u, r)
      BY <3>1 DEF StartGame, Die
    <3>2. UNCHANGED revived => revived' \subseteq revived
      OBVIOUS
    <3> QED BY <1>3, <3>1, <3>2, ZenonT(60)
        DEF GameLoop, LogPlayer, LogDone, Tick, Snapshot, NoSnapshot, Collect, Truncate, Rewrite,
            SnapshotDone, CheckEnd, EndGame, ResetPlayer, CloseGame, sideVars
  <2> QED BY <2>1, <2>2 DEF SideTyped
<1>4. ASSUME NEW u \in Users, Potion(u) PROVE SideTyped'
  <2>1. CASE Drink(u)
    <3>1. [pc |-> "drink", r |-> roomID[u]] \in [pc : {"drink", "log"}, r : RoomIds]
      BY <2>1 DEF Drink, SeatsTyped
    <3> QED BY <2>1, <3>1 DEF Drink, SideTyped
  <2>2. CASE Heal(u)
    <3>1. potion[u] \in [pc : {"drink", "log"}, r : RoomIds]
      BY <2>2 DEF Heal, SideTyped, NoPotion
    <3>2. [potion[u] EXCEPT !.pc = "log"] \in [pc : {"drink", "log"}, r : RoomIds]
      BY <3>1
    <3> QED BY <2>2, <3>2 DEF Heal, SideTyped
  <2>3. CASE LogPotion(u)
    BY <2>3 DEF LogPotion, SideTyped
  <2> QED BY <1>4, <2>1, <2>2, <2>3 DEF Potion
<1>5. ASSUME NEW r \in RoomIds, ExtraLoops(r) PROVE SideTyped'
  <2>1. CASE RefusedStart(r)
    <3>1. extra' = [extra EXCEPT ![r] = [@ EXCEPT !.pc = IF extra[r].pc = "none" THEN "runs" ELSE extra[r].pc]]
      BY <2>1 DEF RefusedStart
    <3> QED BY <1>5, <2>1, <3>1, ExtraFrame DEF SideTyped
  <2>2. CASE ~RefusedStart(r)
    <3>1. UNCHANGED extra \/ extra' = [extra EXCEPT ![r] = [pc |-> "ends", todo |-> extra[r].todo \cup Members(r)]]
      BY <1>5, <2>2 DEF ExtraLoops, LoopStops, ExtraSnapshot, ExtraEnd, ExtraReset, ExtraClose, sideVars
    <3> QED BY <1>5, <3>1, ExtraFrame, MembersTyped DEF SideTyped
  <2> QED BY <2>1, <2>2
<1> QED BY <1>1, <1>2, <1>3, <1>4, <1>5 DEF Next

-----------------------------------------------------------------------------
(* Rooms that were never made, and the theorem about types. *)

LEMMA UnbornKept == TypeOK /\ Unborn /\ Born /\ Next => Unborn' /\ Born'
<1> SUFFICES ASSUME TypeOK, SeatsTyped, LoopsTyped, WaitsTyped, PendingTyped, Unborn, Born, Next
             PROVE  Unborn' /\ Born'
  BY Types
<1> USE NumbersTyped
<1>0. nextRoomID \in Int /\ \A r \in RoomIds : r \in Int
  BY DEF SeatsTyped
<1>8. \A r \in RoomIds : r < nextRoomID => r < nextRoomID + 1
  BY <1>0
<1>9. \A r \in rooms : r \in RoomIds /\ r < nextRoomID
  <2> SUFFICES ASSUME NEW r \in rooms PROVE r \in RoomIds /\ r < nextRoomID
    OBVIOUS
  <2>1. r \in RoomIds /\ ~(r >= nextRoomID)
    BY DEF SeatsTyped, Unborn
  <2> QED BY <1>0, <2>1
<1>1. CASE Restart
  BY <1>1 DEF Restart, Unborn, Born, NoLoop
<1>2. ASSUME NEW u \in Users, Connection(u) PROVE Unborn' /\ Born'
  <2>1. CASE Login(u)
    BY <2>1 DEF Login, roomVars, waitVars, Unborn, Born
  <2>2. CASE CreateRoom(u)
    <3>1. UNCHANGED <<loop, originalRoomID, restore>> /\ nextRoomID' = nextRoomID + 1
          /\ rooms' = rooms \cup {nextRoomID}
          /\ playerCount' = [playerCount EXCEPT ![nextRoomID] = @ + 1]
      BY <2>2 DEF CreateRoom, Enter, SitDown, waitVars
    <3>2. Unborn'
      <4> SUFFICES ASSUME NEW r \in RoomIds, r >= nextRoomID + 1
                   PROVE  r \notin rooms' /\ playerCount'[r] = playerCount[r] /\ r >= nextRoomID
        BY <1>0, <3>1 DEF Unborn
      <4>1. r >= nextRoomID /\ r # nextRoomID
        BY <1>0
      <4>2. r \notin rooms
        BY <4>1 DEF Unborn
      <4> QED BY <3>1, <4>1, <4>2 DEF SeatsTyped
    <3>3. Born'
      BY <1>0, <1>8, <3>1 DEF Born
    <3> QED BY <3>2, <3>3
  <2>3. ASSUME NEW r \in RoomIds, JoinRoom(u, r) PROVE Unborn' /\ Born'
    <3>1. UNCHANGED <<loop, originalRoomID, restore, rooms, nextRoomID>> /\ r \in rooms
          /\ playerCount' = [playerCount EXCEPT ![r] = @ + 1]
      BY <2>3 DEF JoinRoom, Enter, SitDown, waitVars, idVars
    <3> QED BY <1>0, <3>1 DEF Unborn, Born, SeatsTyped
  <2>4. CASE Leave(u)
    <3>1. UNCHANGED <<loop, originalRoomID, restore, nextRoomID>> /\ roomID[u] \in rooms
          /\ rooms' \subseteq rooms
          /\ playerCount' = [playerCount EXCEPT ![roomID[u]] = @ - 1]
      BY <2>4 DEF Leave, waitVars, idVars
    <3> QED BY <1>0, <3>1 DEF Unborn, Born, SeatsTyped
  <2>5. CASE Rejoin(u)
    <3> DEFINE o == recByUser[u]
    <3>1. UNCHANGED <<loop, originalRoomID, rooms, playerCount, nextRoomID>>
          /\ LiveRoom(o) \in rooms /\ restore' = [restore EXCEPT ![u] = [pc |-> "seat", r |-> LiveRoom(o)]]
      BY <2>5 DEF Rejoin, HasLiveRoom, Consume, roomVars, waitVars, idVars
    <3>2. LiveRoom(o) \in RoomIds /\ LiveRoom(o) < nextRoomID
      BY <1>9, <3>1
    <3> QED BY <3>1, <3>2 DEF Unborn, Born, PendingTyped
  <2>6. CASE Reopen(u)
    <3>1. UNCHANGED <<loop, playerCount>> /\ nextRoomID' = nextRoomID + 1
          /\ rooms' = rooms \cup {nextRoomID} /\ nextRoomID \in RoomIds
          /\ originalRoomID' = [originalRoomID EXCEPT ![nextRoomID] = recByUser[u]]
          /\ restore' = [restore EXCEPT ![u] = [pc |-> "seed", r |-> nextRoomID]]
      BY <2>6 DEF Reopen, SeatsTyped, RoomIds
    <3>2. Unborn'
      <4> SUFFICES ASSUME NEW r \in RoomIds, r >= nextRoomID + 1
                   PROVE  /\ r \notin rooms' /\ originalRoomID'[r] = originalRoomID[r]
                          /\ r >= nextRoomID
        BY <1>0, <3>1 DEF Unborn
      <4>1. r >= nextRoomID /\ r # nextRoomID
        BY <1>0
      <4>2. r \notin rooms
        BY <4>1 DEF Unborn
      <4> QED BY <3>1, <4>1, <4>2 DEF WaitsTyped
    <3>3. Born'
      <4>1. \A v \in Users : v # u => restore'[v] = restore[v]
        BY <3>1 DEF PendingTyped
      <4>2. restore'[u].r = nextRoomID /\ nextRoomID < nextRoomID + 1
        BY <1>0, <3>1 DEF PendingTyped
      <4> QED BY <1>8, <3>1, <4>1, <4>2 DEF Born
    <3> QED BY <3>2, <3>3
  <2>7. CASE Seeded(u)
    <3>1. UNCHANGED <<originalRoomID, rooms, playerCount, nextRoomID>>
          /\ restore' = [restore EXCEPT ![u] = [pc |-> "seat", r |-> restore[u].r]]
          /\ loop' = [loop EXCEPT ![restore[u].r] = [NoLoop EXCEPT !.pc = "top", !.todo = {}]]
          /\ restore[u].pc = "seed"
      BY <2>7 DEF Seeded, With, Consume, RestoreAt, roomVars, waitVars, idVars
    <3>2. restore[u].r \in RoomIds /\ restore[u].r < nextRoomID
      BY <3>1 DEF Born
    <3>3. Born'
      BY <3>1, <3>2 DEF Born, PendingTyped
    <3>4. Unborn'
      BY <1>0, <3>1, <3>2 DEF Unborn, LoopsTyped
    <3> QED BY <3>3, <3>4
  <2>8. CASE SeatBack(u)
    <3>1. UNCHANGED <<loop, originalRoomID, rooms, nextRoomID>>
          /\ restore' = [restore EXCEPT ![u].pc = "fields"]
          /\ playerCount' = [playerCount EXCEPT ![restore[u].r] = @ + 1]
          /\ restore[u].pc = "seat"
      BY <2>8 DEF SeatBack, SitDown, RestoreAt, waitVars, idVars
    <3>2. restore[u].r \in RoomIds /\ restore[u].r < nextRoomID
      BY <3>1 DEF Born
    <3>3. Born'
      BY <3>1, <3>2 DEF Born, PendingTyped
    <3>4. Unborn'
      BY <1>0, <3>1, <3>2 DEF Unborn, SeatsTyped
    <3> QED BY <3>3, <3>4
  <2>9. CASE NoSeatBack(u) \/ FieldsBack(u)
    <3>1. UNCHANGED <<loop, originalRoomID, rooms, playerCount, nextRoomID>>
          /\ restore' = [restore EXCEPT ![u] = [pc |-> "none", r |-> None]]
      BY <2>9 DEF NoSeatBack, FieldsBack, roomVars, waitVars, idVars
    <3> QED BY <3>1 DEF Unborn, Born, PendingTyped
  <2> QED BY <1>2, <2>1, <2>2, <2>3, <2>4, <2>5, <2>6, <2>7, <2>8, <2>9 DEF Connection
<1>3. ASSUME NEW r \in RoomIds, GameLoop(r) PROVE Unborn' /\ Born'
  <2>1. UNCHANGED <<restore, nextRoomID, rooms, playerCount>>
    BY <1>3, LoopLeaves DEF idVars
  <2>2. \A s \in RoomIds \ {r} : loop'[s] = loop[s] /\ originalRoomID'[s] = originalRoomID[s]
    BY <1>3, ZenonT(60)
    DEF GameLoop, StartGame, LogPlayer, LogDone, Die, Tick, Snapshot, NoSnapshot, Collect, Truncate,
        Rewrite, SnapshotDone, CheckEnd, EndGame, ResetPlayer, CloseGame, With, Goto, Verdict,
        waitVars, LoopsTyped, WaitsTyped
  <2>3. (loop'[r] = loop[r] /\ originalRoomID'[r] = originalRoomID[r]) \/ r < nextRoomID
    <3>1. CASE StartGame(r)
      BY <1>9, <3>1 DEF StartGame
    <3>2. CASE loop[r].pc # "none"
      <4>1. ~(r >= nextRoomID)
        BY <3>2 DEF Unborn
      <4> QED BY <1>0, <4>1
    <3>3. ASSUME NEW u \in Users, Die(u, r)
          PROVE  loop'[r] = loop[r] /\ originalRoomID'[r] = originalRoomID[r]
      BY <3>3 DEF Die, waitVars
    <3>4. LogDone(r) \/ Tick(r) \/ Snapshot(r) \/ NoSnapshot(r) \/ Truncate(r) \/ SnapshotDone(r)
            \/ CheckEnd(r) \/ EndGame(r) \/ CloseGame(r) => loop[r].pc # "none"
      BY DEF LogDone, Tick, Snapshot, NoSnapshot, Truncate, SnapshotDone, CheckEnd, EndGame, CloseGame, At
    <3>5. \A u \in Users : LogPlayer(r, u) \/ Collect(r, u) \/ Rewrite(r, u) \/ ResetPlayer(r, u)
            => loop[r].pc # "none"
      BY DEF LogPlayer, Collect, Rewrite, ResetPlayer, At
    <3> QED BY <1>3, <3>1, <3>2, <3>3, <3>4, <3>5 DEF GameLoop
  <2> QED BY <1>0, <2>1, <2>2, <2>3 DEF Unborn, Born
<1>4. ASSUME NEW u \in Users, Potion(u) PROVE Unborn' /\ Born'
  BY <1>4, PotionFrame DEF idVars, roomVars, waitVars, Unborn, Born
<1>5. ASSUME NEW r \in RoomIds, ExtraLoops(r) PROVE Unborn' /\ Born'
  <2>1. \A s \in RoomIds : loop'[s].pc \in {loop[s].pc, "none"}
    <3>1. UNCHANGED loop \/ loop' = [loop EXCEPT ![r].pc = "none"]
      BY <1>5 DEF ExtraLoops, RefusedStart, LoopStops, ExtraSnapshot, ExtraEnd, ExtraReset, ExtraClose, Goto
    <3> QED BY <3>1 DEF LoopsTyped, LoopType
  <2> QED BY <1>5, <2>1, ExtraFrame DEF idVars, waitVars, Unborn, Born
<1> QED BY <1>1, <1>2, <1>3, <1>4, <1>5 DEF Next

LEMMA StutterBasics == TypeOK /\ Unborn /\ Born /\ UNCHANGED vars => TypeOK' /\ Unborn' /\ Born'
  BY DEF TypeOK, Unborn, Born, vars, fileVars, idVars, playerVars, waitVars, roomVars, recVars, sideVars, history

LEMMA BasicsInductive ==
  /\ Init => TypeOK /\ Unborn /\ Born
  /\ TypeOK /\ Unborn /\ Born /\ [Next]_vars => TypeOK' /\ Unborn' /\ Born'
<1>1. Init => Born
  BY DEF Init, Born
<1>2. TypeOK /\ Unborn /\ Born /\ Next => TypeOK'
  <2> SUFFICES ASSUME TypeOK, Unborn, Born, Next PROVE TypeOK'
    OBVIOUS
  <2>1. LogsTyped' /\ LoopsTyped' /\ PlayersTyped' /\ SeatsTyped'
        /\ WaitsTyped' /\ PendingTyped' /\ HistoryTyped' /\ SideTyped'
    BY LogsKept, LoopsKept, PlayersKept, SeatsKept, WaitsKept, PendingKept, HistoryKept, SideKept
  <2> QED BY <2>1 DEF TypeOK, LogsTyped, LoopsTyped, PlayersTyped, SeatsTyped, WaitsTyped, PendingTyped,
                      HistoryTyped, SideTyped
<1> QED BY <1>1, <1>2, InitTyped, UnbornKept, StutterBasics

\* Every variable keeps its type, and no room counts more players than its limit,
\* however many games run and crash side by side (recovery.go, snapshot.go, game.go).
THEOREM TypeCorrect == Spec => []TypeOK
<1>1. Spec => [](TypeOK /\ Unborn /\ Born)
  BY BasicsInductive, PTL DEF Spec
<1> QED BY <1>1, PTL

-----------------------------------------------------------------------------
(***************************************************************************)
(* Those who are expected back.                                            *)
(***************************************************************************)
\* Whoever comes back takes his own entry along, and the game's only when no
\* entry leads to it any more.
LEMMA ConsumeKeepsEntries ==
  ASSUME PendingTyped, EntriesLead, NEW u \in Users, NEW o, NEW r, Consume(u, o, r)
  PROVE  EntriesLead'
<1> SUFFICES ASSUME NEW v \in Users, recByUser'[v] # None
             PROVE  v \in pending'[recByUser'[v]].alive
  BY DEF EntriesLead
<1>1. v # u /\ recByUser'[v] = recByUser[v] /\ recByUser[v] \in RoomIds
  BY DEF Consume, PendingTyped
<1>2. v \in pending[recByUser[v]].alive
  BY <1>1 DEF EntriesLead
<1>3. CASE UNCHANGED pending
  BY <1>1, <1>2, <1>3
<1>4. CASE pending' = [pending EXCEPT ![o] = NoGame] /\ \A w \in pending[o].alive : recByUser'[w] = None
  <2>1. recByUser[v] # o
    BY <1>1, <1>2, <1>4
  <2> QED BY <1>1, <1>2, <1>4, <2>1 DEF PendingTyped
<1> QED BY <1>3, <1>4 DEF Consume

LEMMA EntriesKept == TypeOK /\ EntriesLead /\ Next => EntriesLead'
<1> SUFFICES ASSUME TypeOK, PendingTyped, EntriesLead, Next PROVE EntriesLead'
  BY Types
<1>1. CASE Restart
  <2> SUFFICES ASSUME NEW u \in Users, recByUser'[u] # None
               PROVE  u \in pending'[recByUser'[u]].alive
    BY DEF EntriesLead
  <2>1. recByUser'[u] \in {f \in files : Recoverable(f) /\ u \in disk[f].alive}
    BY <1>1 DEF Restart
  <2>2. recByUser'[u] \in RoomIds
    BY <2>1 DEF TypeOK
  <2> QED BY <1>1, <2>1, <2>2 DEF Restart
<1>2. ASSUME NEW u \in Users, Connection(u) PROVE EntriesLead'
  <2>1. CASE Rejoin(u)
    BY <2>1, ConsumeKeepsEntries DEF Rejoin
  <2>2. CASE Seeded(u)
    BY <2>2, ConsumeKeepsEntries DEF Seeded
  <2>3. CASE UNCHANGED recVars
    BY <2>3 DEF recVars, EntriesLead
  <2> QED BY <1>2, <2>1, <2>2, <2>3
          DEF Connection, Login, CreateRoom, JoinRoom, Leave, Reopen, SeatBack, NoSeatBack, FieldsBack
<1>3. ASSUME NEW r \in RoomIds, GameLoop(r) PROVE EntriesLead'
  <2>1. UNCHANGED recVars
    BY <1>3, LoopLeaves
  <2> QED BY <2>1 DEF recVars, EntriesLead
<1>4. ASSUME NEW u \in Users, Potion(u) PROVE EntriesLead'
  BY <1>4, PotionFrame DEF recVars, EntriesLead
<1>5. ASSUME NEW r \in RoomIds, ExtraLoops(r) PROVE EntriesLead'
  BY <1>5, ExtraFrame DEF recVars, EntriesLead
<1> QED BY <1>1, <1>2, <1>3, <1>4, <1>5 DEF Next

\* The recovery registry stays consistent: whoever of the others comes back first, to
\* whatever game, the entry of a player who is expected leads to a pending game he
\* survives in (recovery.go:148-195).  He may still find no seat, or no room left.
THEOREM EntriesHold == Spec => []EntriesLead
<1>1. Init => EntriesLead
  BY DEF Init, EntriesLead
<1>2. TypeOK /\ EntriesLead /\ [Next]_vars => EntriesLead'
  <2>1. EntriesLead /\ UNCHANGED vars => EntriesLead'
    BY DEF EntriesLead, vars, recVars
  <2> QED BY <2>1, EntriesKept
<1> QED BY <1>1, <1>2, TypeCorrect, PTL DEF Spec

-----------------------------------------------------------------------------
(***************************************************************************)
(* Games that are over.                                                    *)
(***************************************************************************)
\* The rooms of before the crash are gone, and their ids are not given again.
Gone(o) ==
    /\ o \notin rooms /\ loop[o].pc = "none" /\ originalRoomID[o] = None /\ o < nextRoomID
    /\ roomStatus[o] # "ended" /\ extra[o].pc = "none"
FromBefore ==
    /\ \A o \in RoomIds : pending[o].alive # {} => Gone(o)
    /\ \A r \in RoomIds : originalRoomID[r] # None => Gone(originalRoomID[r])

\* A recovered room never starts a game of its own before its log is deleted.
Recovered ==
    \A r \in RoomIds : originalRoomID[r] # None =>
        /\ roomStatus[r] # "waiting" /\ loop[r].pc # "log"
        /\ seedings[originalRoomID[r]] > 0

\* A log seeded once is one room's.
OneEach ==
    \A r, s \in RoomIds :
        /\ originalRoomID[r] # None /\ originalRoomID[s] = originalRoomID[r]
        /\ seedings[originalRoomID[r]] <= 1
        => r = s

Seeding ==
    /\ \A u, v \in Users : RestoreAt(u, "seed") /\ RestoreAt(v, "seed") => u = v
    /\ \A u \in Users : RestoreAt(u, "seed") =>
        /\ recByUser[u] # None /\ originalRoomID[restore[u].r] = recByUser[u]
        /\ loop[restore[u].r].pc = "none"
        /\ recByUser[u] \in finished => seedings[recByUser[u]] > 1

\* The log of a game that is over says so, or is gone, and no loop will write to it.
Over ==
    \A f \in finished \ doubled : seedings[f] <= 1 =>
        /\ f \in files => disk[f].over /\ logged[f].over
        /\ \A r \in RoomIds : File(r) = f => loop[r].pc \in {"none", "reset"}

IInv == /\ TypeOK /\ Unborn /\ Born /\ EntriesLead
        /\ FromBefore /\ Recovered /\ OneEach /\ Seeding /\ Over

LEMMA IInvInit == Init => IInv
<1> SUFFICES ASSUME Init PROVE IInv
  OBVIOUS
<1>1. EntriesLead /\ Over
  BY DEF Init, EntriesLead, Over
<1>2. FromBefore /\ Recovered /\ OneEach
  BY DEF Init, FromBefore, Recovered, OneEach, NoGame
<1>3. Seeding
  BY DEF Init, Seeding, RestoreAt
<1> QED BY <1>1, <1>2, <1>3, BasicsInductive DEF IInv

LEMMA IInvRestart == IInv /\ Restart => IInv'
<1> SUFFICES ASSUME IInv, TypeOK, LogsTyped, SeatsTyped, HistoryTyped, Over, Restart PROVE IInv'
  BY Types DEF IInv
<1>1. TypeOK' /\ Unborn' /\ Born' /\ EntriesLead'
  BY BasicsInductive, EntriesKept DEF IInv, Next
<1>2. Recovered' /\ OneEach' /\ Seeding'
  BY DEF Restart, Recovered, OneEach, Seeding, RestoreAt
<1>3. FromBefore'
  <2>1. ASSUME NEW o \in RoomIds, pending'[o].alive # {} PROVE Gone(o)'
    <3>1. o \in files
      BY <2>1 DEF Restart, NoGame, Recoverable
    <3>2. o < nextRoomID'
      <4>1. PICK n \in files \cup {0} : (\A f \in files : f <= n) /\ nextRoomID' = n + 1
        BY DEF Restart
      <4>2. o <= n /\ o \in Int /\ n \in Int
        BY <3>1, <4>1 DEF LogsTyped, RoomIds
      <4> QED BY <4>1, <4>2
    <3> QED BY <3>2 DEF Restart, Gone, NoLoop, NoExtra
  <2>2. \A r \in RoomIds : originalRoomID'[r] = None
    BY DEF Restart
  <2> QED BY <2>1, <2>2 DEF FromBefore
<1>4. Over'
  <2> SUFFICES ASSUME NEW f \in finished'
               PROVE  /\ f \notin files'
                      /\ \A r \in RoomIds : loop'[r].pc = "none"
    BY DEF Over
  <2>1. f \in finished \ doubled /\ ~(seedings[f] > 1) /\ seedings[f] \in Nat
    BY DEF Restart, HistoryTyped
  <2>2. f \in files => Dropped(f)
    BY <2>1 DEF Over, Dropped
  <2> QED BY <2>2 DEF Restart, NoLoop
<1> QED BY <1>1, <1>2, <1>3, <1>4 DEF IInv

-----------------------------------------------------------------------------
(* Frames: what the steps of a connection and of a game loop leave alone. *)

LEMMA LoopFrame ==
  ASSUME TypeOK, NEW r \in RoomIds, GameLoop(r)
  PROVE  /\ UNCHANGED <<rooms, nextRoomID, pending, recByUser, restore, seedings>>
         /\ \A s \in RoomIds \ {r} : /\ loop'[s] = loop[s] /\ roomStatus'[s] = roomStatus[s]
                                     /\ originalRoomID'[s] = originalRoomID[s]
         /\ originalRoomID'[r] \in {originalRoomID[r], None}
<1>1. UNCHANGED <<rooms, nextRoomID, pending, recByUser, restore, seedings>>
  BY LoopLeaves DEF recVars, idVars
<1>2. \A s \in RoomIds \ {r} : loop'[s] = loop[s] /\ roomStatus'[s] = roomStatus[s]
  BY ZenonT(60) DEF GameLoop, StartGame, LogPlayer, LogDone, Die, Tick, Snapshot, NoSnapshot, Collect, Truncate,
         Rewrite, SnapshotDone, CheckEnd, EndGame, ResetPlayer, CloseGame, roomVars, Goto, With,
         Verdict, TypeOK
<1>3. UNCHANGED originalRoomID \/ originalRoomID' = [originalRoomID EXCEPT ![r] = None]
  BY Zenon DEF GameLoop, StartGame, LogPlayer, LogDone, Die, Tick, Snapshot, NoSnapshot, Collect, Truncate,
         Rewrite, SnapshotDone, CheckEnd, EndGame, ResetPlayer, CloseGame, waitVars
<1> QED BY <1>1, <1>2, <1>3 DEF TypeOK

\* What the loop of room r does to the room.
LEMMA LoopMoves ==
  ASSUME TypeOK, NEW r \in RoomIds, GameLoop(r)
  PROVE  \/ StartGame(r)
         \/ CloseGame(r) /\ loop[r].pc = "reset"
         \/ (\E u \in Users : Die(u, r)) /\ UNCHANGED <<loop, roomStatus, originalRoomID>>
         \/ /\ loop[r].pc # "none" /\ UNCHANGED originalRoomID
            /\ loop'[r].pc = "log" => loop[r].pc = "log"
            /\ roomStatus'[r] \in {roomStatus[r], "ended"}
<1>1. CASE StartGame(r)
  BY <1>1
<1>2. CASE CloseGame(r)
  BY <1>2 DEF CloseGame, At
<1>3. CASE \E u \in Users : Die(u, r)
  BY <1>3 DEF Die, roomVars, waitVars
<1>4. CASE EndGame(r)
  <2>1. UNCHANGED originalRoomID /\ loop[r].pc = "end" /\ roomStatus'[r] = "ended"
    BY <1>4 DEF EndGame, At, waitVars, TypeOK
  <2>2. loop'[r].pc = "reset"
    BY <1>4 DEF EndGame, With, NoLoop, TypeOK
  <2> QED BY <2>1, <2>2
<1>5. CASE \E u \in Users : LogPlayer(r, u) \/ Collect(r, u) \/ Rewrite(r, u) \/ ResetPlayer(r, u)
  BY <1>5 DEF LogPlayer, Collect, Rewrite, ResetPlayer, At, roomVars, waitVars, TypeOK, LoopType
<1>6. CASE LogDone(r) \/ Tick(r) \/ Snapshot(r) \/ NoSnapshot(r) \/ Truncate(r) \/ SnapshotDone(r)
  <2>1. UNCHANGED <<originalRoomID, roomStatus>> /\ loop[r].pc # "none"
    BY <1>6 DEF LogDone, Tick, Snapshot, NoSnapshot, Truncate, SnapshotDone, At, roomVars, waitVars
  <2>2. CASE LogDone(r) \/ Tick(r) \/ NoSnapshot(r)
    BY <2>1, <2>2 DEF LogDone, Tick, NoSnapshot, Goto, TypeOK, LoopType
  <2>3. CASE Snapshot(r) \/ SnapshotDone(r)
    <3>1. \A pc, todo : With(r, pc, todo) => loop'[r].pc = pc
      BY DEF With, NoLoop, TypeOK
    <3>2. loop'[r].pc \in {"collect", "judge"}
      BY <2>3, <3>1 DEF Snapshot, SnapshotDone
    <3> QED BY <2>1, <3>2
  <2>4. CASE Truncate(r)
    BY <2>1, <2>4 DEF Truncate, TypeOK, LoopType
  <2> QED BY <1>6, <2>1, <2>2, <2>3, <2>4
<1>7. CASE CheckEnd(r)
  <2>1. UNCHANGED <<originalRoomID, roomStatus>> /\ loop[r].pc = "judge"
    BY <1>7 DEF CheckEnd, At, NoLongerWaits, roomVars, waitVars
  <2>2. loop'[r].pc \in {"top", "end"}
    BY <1>7 DEF CheckEnd, Goto, Verdict, TypeOK, LoopType
  <2> QED BY <2>1, <2>2
<1> QED BY <1>1, <1>2, <1>3, <1>4, <1>5, <1>6, <1>7 DEF GameLoop

LEMMA SideLeft == ASSUME NEW u \in Users, Connection(u) PROVE UNCHANGED sideVars
  BY DEF Connection, Login, CreateRoom, JoinRoom, Leave, Rejoin, Reopen, Seeded, SeatBack, NoSeatBack,
         FieldsBack

\* What a connection does to rooms, loops and logs, but for Reopen and Seeded.
LEMMA ConnectionFrame ==
  ASSUME TypeOK, Unborn, NEW u \in Users, Connection(u), ~Reopen(u)
  PROVE  /\ UNCHANGED <<originalRoomID, seedings, finished, files>>
         /\ nextRoomID' \in {nextRoomID, nextRoomID + 1}
         /\ rooms' \subseteq rooms \/ (rooms' = rooms \cup {nextRoomID} /\ nextRoomID' = nextRoomID + 1)
         /\ \A o \in RoomIds : pending'[o].alive # {} => pending[o].alive # {}
         /\ \A r \in RoomIds : /\ roomStatus'[r] \in {roomStatus[r], "ended"}
                               /\ r \notin rooms => roomStatus'[r] = roomStatus[r]
         /\ ~Seeded(u) => UNCHANGED loop
<1>1. UNCHANGED <<originalRoomID, seedings, finished, files>>
  BY DEF Connection, Login, CreateRoom, JoinRoom, Leave, Rejoin, Seeded, SeatBack, NoSeatBack,
         FieldsBack, fileVars, waitVars, history
<1>2. nextRoomID' \in {nextRoomID, nextRoomID + 1}
      /\ (rooms' \subseteq rooms \/ (rooms' = rooms \cup {nextRoomID} /\ nextRoomID' = nextRoomID + 1))
  BY DEF Connection, Login, CreateRoom, JoinRoom, Leave, Rejoin, Seeded, SeatBack, NoSeatBack,
         FieldsBack, roomVars, idVars
<1>3. \A o \in RoomIds : pending'[o].alive # {} => pending[o].alive # {}
  <2>1. CASE UNCHANGED pending
    BY <2>1
  <2>2. CASE \E o : pending' = [pending EXCEPT ![o] = NoGame]
    BY <2>2 DEF NoGame, TypeOK
  <2> QED BY <2>1, <2>2
          DEF Consume, Connection, Login, CreateRoom, JoinRoom, Leave, Rejoin, Seeded, SeatBack,
              NoSeatBack, FieldsBack, recVars
<1>4. \A r \in RoomIds : /\ roomStatus'[r] \in {roomStatus[r], "ended"}
                         /\ r \notin rooms => roomStatus'[r] = roomStatus[r]
  BY DEF Connection, Login, CreateRoom, JoinRoom, Leave, Rejoin, Seeded, SeatBack, NoSeatBack,
         FieldsBack, roomVars, TypeOK
<1>5. ~Seeded(u) => UNCHANGED loop
  BY DEF Connection, Login, CreateRoom, JoinRoom, Leave, Rejoin, SeatBack, NoSeatBack, FieldsBack
<1> QED BY <1>1, <1>2, <1>3, <1>4, <1>5

-----------------------------------------------------------------------------
(* Each part of the invariant is kept, but by a restart. *)

\* A seeding brings the loop of a recovered room to life, and of no other.
LEMMA SeededRoom ==
  ASSUME IInv, NEW u \in Users, Seeded(u)
  PROVE  /\ restore[u].r \in RoomIds /\ originalRoomID[restore[u].r] = recByUser[u]
         /\ recByUser[u] \in RoomIds /\ loop[restore[u].r].pc = "none"
         /\ loop' = [loop EXCEPT ![restore[u].r] = [NoLoop EXCEPT !.pc = "top", !.todo = {}]]
  BY DEF IInv, Seeded, Seeding, Born, RestoreAt, With, TypeOK

LEMMA GoneForGood ==
  ASSUME IInv, Next, ~Restart, NEW o \in RoomIds, Gone(o)
  PROVE  Gone(o)'
<1> USE NumbersTyped
<1>0. nextRoomID \in Int /\ o \in Int
  BY DEF IInv, TypeOK
<1>1. ASSUME NEW u \in Users, Connection(u) PROVE Gone(o)'
  <2>1. CASE Reopen(u)
    <3>1. /\ rooms' = rooms \cup {nextRoomID} /\ nextRoomID' = nextRoomID + 1 /\ UNCHANGED loop
          /\ originalRoomID' = [originalRoomID EXCEPT ![nextRoomID] = recByUser[u]]
          /\ roomStatus' = [roomStatus EXCEPT ![nextRoomID] = "gaming"] /\ UNCHANGED extra
      BY <2>1 DEF Reopen, sideVars
    <3>2. o # nextRoomID /\ o < nextRoomID + 1
      BY <1>0 DEF Gone
    <3> QED BY <3>1, <3>2 DEF Gone, IInv, TypeOK
  <2>2. CASE ~Reopen(u)
    <3>1. /\ originalRoomID'[o] = None /\ o \notin rooms' /\ o < nextRoomID'
          /\ roomStatus'[o] # "ended" /\ UNCHANGED extra
      BY <1>0, <1>1, <2>2, ConnectionFrame, SideLeft DEF IInv, Gone, sideVars
    <3>2. loop'[o].pc = "none"
      <4>1. CASE Seeded(u)
        <5>1. restore[u].r # o
          BY <4>1, SeededRoom DEF Gone
        <5> QED BY <4>1, <5>1, SeededRoom DEF Gone, IInv, TypeOK
      <4>2. CASE ~Seeded(u)
        BY <1>1, <2>2, <4>2, ConnectionFrame DEF IInv, Gone
      <4> QED BY <4>1, <4>2
    <3> QED BY <3>1, <3>2 DEF Gone
  <2> QED BY <2>1, <2>2
<1>2. ASSUME NEW r \in RoomIds, GameLoop(r) PROVE Gone(o)'
  <2>1. /\ UNCHANGED <<rooms, nextRoomID>> /\ originalRoomID'[o] = None
        /\ o # r => loop'[o] = loop[o] /\ roomStatus'[o] = roomStatus[o]
    BY <1>2, LoopFrame DEF IInv, Gone
  <2>2. o = r => UNCHANGED <<loop, roomStatus>>
    <3> SUFFICES ASSUME o = r PROVE UNCHANGED <<loop, roomStatus>>
      OBVIOUS
    <3>1. ~StartGame(r)
      BY DEF StartGame, Gone
    <3> QED BY <1>2, <3>1, LoopMoves DEF IInv, Gone
  <2>3. UNCHANGED extra
    BY <1>2, LoopLeaves
  <2> QED BY <2>1, <2>2, <2>3 DEF Gone
<1>3. ASSUME NEW u \in Users, Potion(u) PROVE Gone(o)'
  BY <1>3, PotionFrame DEF Gone, roomVars, waitVars, idVars
<1>4. ASSUME NEW r \in RoomIds, ExtraLoops(r) PROVE Gone(o)'
  <2>1. UNCHANGED <<rooms, nextRoomID, originalRoomID>>
    BY <1>4, ExtraFrame DEF waitVars, idVars
  <2>2. CASE RefusedStart(r)
    <3>1. o # r /\ UNCHANGED <<loop, roomStatus>> /\ extra'[o] = extra[o]
      BY <2>2, RefusedMoves DEF Gone, IInv
    <3> QED BY <2>1, <3>1 DEF Gone
  <2>3. CASE ~RefusedStart(r)
    <3>1. o # r
      BY <1>4, <2>3, ExtraMoves DEF Gone, doubled, IInv
    <3>2. loop'[o] = loop[o] /\ roomStatus'[o] = roomStatus[o] /\ extra'[o] = extra[o]
      BY <1>4, <2>3, <3>1, ExtraMoves DEF IInv
    <3> QED BY <2>1, <3>2 DEF Gone
  <2> QED BY <2>2, <2>3
<1> QED BY <1>1, <1>2, <1>3, <1>4 DEF Next

LEMMA FromBeforeKept == IInv /\ Next /\ ~Restart => FromBefore'
<1> SUFFICES ASSUME IInv, TypeOK, FromBefore, Next, ~Restart PROVE FromBefore'
  BY DEF IInv
<1>1. ASSUME NEW o \in RoomIds, pending'[o].alive # {} PROVE Gone(o)'
  <2>1. pending[o].alive # {}
    <3>1. ASSUME NEW u \in Users, Connection(u), ~Reopen(u) PROVE pending[o].alive # {}
      BY <1>1, <3>1, ConnectionFrame DEF IInv
    <3>2. ASSUME NEW u \in Users, Reopen(u) PROVE pending[o].alive # {}
      BY <1>1, <3>2 DEF Reopen, recVars
    <3>3. ASSUME NEW r \in RoomIds, GameLoop(r) PROVE pending[o].alive # {}
      BY <1>1, <3>3, LoopFrame
    <3>4. ASSUME NEW u \in Users, Potion(u) PROVE pending[o].alive # {}
      BY <1>1, <3>4, PotionFrame DEF recVars
    <3>5. ASSUME NEW r \in RoomIds, ExtraLoops(r) PROVE pending[o].alive # {}
      BY <1>1, <3>5, ExtraFrame DEF recVars
    <3> QED BY <3>1, <3>2, <3>3, <3>4, <3>5 DEF Next
  <2> QED BY <2>1, GoneForGood DEF FromBefore
<1>2. ASSUME NEW r \in RoomIds, originalRoomID'[r] # None PROVE Gone(originalRoomID[r])'
  <2>1. CASE originalRoomID'[r] = originalRoomID[r]
    <3>1. originalRoomID[r] \in RoomIds /\ Gone(originalRoomID[r])
      BY <1>2, <2>1 DEF FromBefore, TypeOK
    <3>2. PICK o \in RoomIds : o = originalRoomID[r] /\ Gone(o)
      BY <3>1
    <3>3. Gone(o)'
      BY <3>2, GoneForGood
    <3> QED BY <2>1, <3>2, <3>3 DEF Gone
  <2>2. ASSUME NEW u \in Users, Reopen(u), originalRoomID'[r] # originalRoomID[r]
        PROVE  Gone(originalRoomID[r])'
    <3>1. originalRoomID'[r] = recByUser[u] /\ recByUser[u] \in RoomIds
          /\ pending[recByUser[u]].alive # {}
      BY <2>2 DEF Reopen, Wanted, TypeOK
    <3>2. PICK o \in RoomIds : o = recByUser[u] /\ Gone(o)
      BY <3>1 DEF FromBefore
    <3>3. Gone(o)'
      BY <3>2, GoneForGood
    <3> QED BY <3>1, <3>2, <3>3 DEF Gone
  <2>3. ASSUME NEW u \in Users, Connection(u), ~Reopen(u) PROVE originalRoomID'[r] = originalRoomID[r]
    BY <2>3, ConnectionFrame DEF IInv
  <2>4. ASSUME NEW s \in RoomIds, GameLoop(s) PROVE originalRoomID'[r] = originalRoomID[r]
    BY <1>2, <2>4, LoopFrame
  <2>5. (\E u \in Users : Potion(u)) \/ (\E s \in RoomIds : ExtraLoops(s)) =>
          originalRoomID'[r] = originalRoomID[r]
    BY PotionFrame, ExtraFrame DEF waitVars
  <2> QED BY <2>1, <2>2, <2>3, <2>4, <2>5 DEF Next
<1> QED BY <1>1, <1>2 DEF FromBefore

LEMMA RecoveredKept == IInv /\ Next /\ ~Restart => Recovered'
<1> SUFFICES ASSUME IInv, TypeOK, Unborn, Recovered, Next, ~Restart,
                    NEW r \in RoomIds, originalRoomID'[r] # None
             PROVE  /\ roomStatus'[r] # "waiting" /\ loop'[r].pc # "log"
                    /\ seedings'[originalRoomID'[r]] > 0
  BY DEF IInv, Recovered
<1>1. ASSUME NEW u \in Users, Connection(u)
      PROVE  /\ roomStatus'[r] # "waiting" /\ loop'[r].pc # "log"
             /\ seedings'[originalRoomID'[r]] > 0
  <2>1. CASE Reopen(u)
    <3> DEFINE o == recByUser[u]
    <3>1. /\ UNCHANGED loop /\ roomStatus' = [roomStatus EXCEPT ![nextRoomID] = "gaming"]
          /\ originalRoomID' = [originalRoomID EXCEPT ![nextRoomID] = o]
          /\ seedings' = [seedings EXCEPT ![o] = seedings[o] + 1]
          /\ o \in RoomIds
      BY <2>1 DEF Reopen, Wanted, TypeOK
    <3>2. \A f \in RoomIds : seedings[f] \in Nat
      BY DEF TypeOK
    <3>3. seedings'[o] > 0 /\ \A f \in RoomIds : seedings[f] > 0 => seedings'[f] > 0
      BY <3>1, <3>2 DEF TypeOK
    <3>4. CASE r = nextRoomID
      <4>1. loop[r].pc = "none"
        BY <3>4, NumbersTyped DEF Unborn, TypeOK
      <4> QED BY <3>1, <3>3, <3>4, <4>1 DEF TypeOK
    <3>5. CASE r # nextRoomID
      <4>1. originalRoomID'[r] = originalRoomID[r] /\ roomStatus'[r] = roomStatus[r]
            /\ originalRoomID[r] \in RoomIds
        BY <3>1, <3>5 DEF TypeOK
      <4> QED BY <3>1, <3>3, <4>1 DEF Recovered
    <3> QED BY <3>4, <3>5
  <2>2. CASE ~Reopen(u)
    <3>1. /\ UNCHANGED <<originalRoomID, seedings>> /\ roomStatus'[r] \in {roomStatus[r], "ended"}
          /\ ~Seeded(u) => UNCHANGED loop
      <4>1. TypeOK /\ Unborn
        BY DEF IInv
      <4> QED BY <1>1, <2>2, <4>1, ConnectionFrame
    <3>2. Seeded(u) => loop'[r].pc \in {loop[r].pc, "top"}
      <4> SUFFICES ASSUME Seeded(u) PROVE loop'[r].pc \in {loop[r].pc, "top"}
        OBVIOUS
      <4> DEFINE l == [NoLoop EXCEPT !.pc = "top", !.todo = {}]
      <4>1. loop' = [loop EXCEPT ![restore[u].r] = l]
        BY SeededRoom
      <4>2. l.pc = "top"
        BY DEF NoLoop
      <4> QED BY <4>1, <4>2 DEF TypeOK
    <3> QED BY <3>1, <3>2 DEF Recovered
  <2> QED BY <2>1, <2>2
<1>2. ASSUME NEW s \in RoomIds, GameLoop(s)
      PROVE  /\ roomStatus'[r] # "waiting" /\ loop'[r].pc # "log"
             /\ seedings'[originalRoomID'[r]] > 0
  <2>1. originalRoomID'[r] = originalRoomID[r] /\ UNCHANGED seedings
        /\ (r # s => loop'[r] = loop[r] /\ roomStatus'[r] = roomStatus[r])
    BY <1>2, LoopFrame
  <2>2. CASE r = s
    <3>1. ~StartGame(r)
      BY <2>1 DEF StartGame, Recovered
    <3>2. ~CloseGame(r)
      BY <2>1, <2>2 DEF CloseGame, TypeOK
    <3> QED BY <1>2, <2>1, <2>2, <3>1, <3>2, LoopMoves DEF Recovered
  <2> QED BY <2>1, <2>2 DEF Recovered
<1>3. ASSUME NEW u \in Users, Potion(u)
      PROVE  /\ roomStatus'[r] # "waiting" /\ loop'[r].pc # "log"
             /\ seedings'[originalRoomID'[r]] > 0
  BY <1>3, PotionFrame DEF Recovered, roomVars, waitVars, history
<1>4. ASSUME NEW s \in RoomIds, ExtraLoops(s)
      PROVE  /\ roomStatus'[r] # "waiting" /\ loop'[r].pc # "log"
             /\ seedings'[originalRoomID'[r]] > 0
  <2>1. UNCHANGED <<originalRoomID, seedings>>
    BY <1>4, ExtraFrame DEF waitVars
  <2>2. loop'[r] = loop[r] /\ roomStatus'[r] = roomStatus[r]
    <3>1. CASE RefusedStart(s)
      BY <3>1, RefusedMoves
    <3>2. CASE ~RefusedStart(s)
      BY <1>4, <2>1, <3>2, ExtraMoves
    <3> QED BY <3>1, <3>2
  <2> QED BY <2>1, <2>2 DEF Recovered
<1> QED BY <1>1, <1>2, <1>3, <1>4 DEF Next

LEMMA OneEachKept == IInv /\ Next /\ ~Restart => OneEach'
<1> SUFFICES ASSUME IInv, TypeOK, Recovered, OneEach, Next, ~Restart, NEW r \in RoomIds, NEW s \in RoomIds,
                    originalRoomID'[r] # None, originalRoomID'[s] = originalRoomID'[r],
                    seedings'[originalRoomID'[r]] <= 1
             PROVE  r = s
  BY DEF IInv, OneEach
<1>1. ASSUME NEW u \in Users, Connection(u), ~Reopen(u) PROVE r = s
  BY <1>1, ConnectionFrame DEF IInv, OneEach
<1>2. ASSUME NEW u \in Users, Reopen(u) PROVE r = s
  <2> DEFINE o == recByUser[u]
  <2>1. /\ originalRoomID' = [originalRoomID EXCEPT ![nextRoomID] = o]
        /\ seedings' = [seedings EXCEPT ![o] = seedings[o] + 1]
        /\ o \in RoomIds /\ o # None
    BY <1>2, NumbersTyped DEF Reopen, Wanted, TypeOK
  <2>2. \A t \in RoomIds : originalRoomID[t] = o => seedings'[o] > 1
    <3> SUFFICES ASSUME NEW t \in RoomIds, originalRoomID[t] = o PROVE seedings'[o] > 1
      OBVIOUS
    <3>1. seedings[o] > 0 /\ seedings[o] \in Nat
      BY <2>1 DEF Recovered, TypeOK
    <3>2. seedings'[o] = seedings[o] + 1
      BY <2>1 DEF TypeOK
    <3> QED BY <3>1, <3>2
  <2>3. seedings'[o] \in Nat
    BY <2>1 DEF TypeOK
  <2>4. CASE originalRoomID'[r] = o
    <3>1. \A t \in RoomIds : originalRoomID[t] # o
      BY <2>2, <2>3, <2>4
    <3> QED BY <2>1, <2>4, <3>1 DEF TypeOK
  <2>5. CASE originalRoomID'[r] # o
    <3>1. originalRoomID'[r] = originalRoomID[r] /\ originalRoomID'[s] = originalRoomID[s]
          /\ originalRoomID[r] \in RoomIds
      BY <2>1, <2>5 DEF TypeOK
    <3>2. seedings'[originalRoomID[r]] = seedings[originalRoomID[r]]
      BY <2>1, <2>5, <3>1 DEF TypeOK
    <3> QED BY <3>1, <3>2 DEF OneEach
  <2> QED BY <2>4, <2>5
<1>3. ASSUME NEW t \in RoomIds, GameLoop(t) PROVE r = s
  BY <1>3, LoopFrame DEF OneEach
<1>4. (\E u \in Users : Potion(u)) \/ (\E t \in RoomIds : ExtraLoops(t)) => r = s
  <2>1. (\E u \in Users : Potion(u)) \/ (\E t \in RoomIds : ExtraLoops(t)) =>
          UNCHANGED <<originalRoomID, seedings>>
    BY PotionFrame, ExtraFrame DEF waitVars, history
  <2> QED BY <2>1 DEF OneEach
<1> QED BY <1>1, <1>2, <1>3, <1>4 DEF Next

LEMMA SeedingKept == IInv /\ Next /\ ~Restart => Seeding'
<1> SUFFICES ASSUME IInv, TypeOK, Unborn, Born, Recovered, OneEach, Seeding, Next, ~Restart
             PROVE  Seeding'
  BY DEF IInv
<1>1. ASSUME NEW u \in Users, Connection(u) PROVE Seeding'
  <2>1. CASE Reopen(u)
    <3> DEFINE o == recByUser[u]
    <3>1. /\ UNCHANGED <<loop, recByUser>> /\ finished' = finished \ {o}
          /\ originalRoomID' = [originalRoomID EXCEPT ![nextRoomID] = o]
          /\ restore' = [restore EXCEPT ![u] = [pc |-> "seed", r |-> nextRoomID]]
          /\ nextRoomID \in RoomIds /\ o # None
      BY <2>1 DEF Reopen, Wanted, recVars, TypeOK, RoomIds
    <3>2. \A v \in Users : RestoreAt(v, "seed")' => v = u
      BY <2>1, <3>1 DEF Reopen, Wanted, RecFree, RestoreAt, TypeOK
    <3>3. restore'[u].r = nextRoomID /\ originalRoomID'[nextRoomID] = o
      BY <3>1 DEF TypeOK
    <3>4. loop[nextRoomID].pc = "none"
      BY <3>1, NumbersTyped DEF Unborn
    <3> QED BY <3>1, <3>2, <3>3, <3>4 DEF Seeding
  <2>2. ASSUME NEW o, NEW r, Consume(u, o, r), UNCHANGED <<originalRoomID, finished, seedings>>,
               \A v \in Users : RestoreAt(v, "seed") /\ v # u => UNCHANGED loop
        PROVE  Seeding'
    <3>1. \A v \in Users : RestoreAt(v, "seed")' =>
             v # u /\ RestoreAt(v, "seed") /\ restore'[v] = restore[v] /\ recByUser'[v] = recByUser[v]
      BY <2>2 DEF Consume, RestoreAt, TypeOK
    <3> QED BY <2>2, <3>1 DEF Seeding
  <2>3. CASE Seeded(u)
    <3>1. UNCHANGED <<originalRoomID, finished, seedings>>
      BY <2>3 DEF Seeded, waitVars, history
    <3>2. \A v \in Users : RestoreAt(v, "seed") => v = u
      BY <2>3 DEF Seeded, Seeding
    <3> QED BY <2>2, <2>3, <3>1, <3>2 DEF Seeded
  <2>4. CASE Rejoin(u)
    <3>1. UNCHANGED <<originalRoomID, finished, seedings, loop>>
      BY <2>4 DEF Rejoin, waitVars, history
    <3> QED BY <2>2, <2>4, <3>1 DEF Rejoin
  <2>5. ASSUME UNCHANGED <<originalRoomID, finished, seedings, loop, recByUser>>,
               \A v \in Users : restore'[v] = restore[v] \/ restore'[v].pc # "seed"
        PROVE  Seeding'
    BY <2>5 DEF Seeding, RestoreAt
  <2>6. CASE SeatBack(u) \/ NoSeatBack(u) \/ FieldsBack(u)
    <3>1. UNCHANGED <<originalRoomID, finished, seedings, loop, recByUser>>
      BY <2>6 DEF SeatBack, NoSeatBack, FieldsBack, waitVars, history, recVars
    <3>2. \A v \in Users : restore'[v] = restore[v] \/ restore'[v].pc # "seed"
      BY <2>6 DEF SeatBack, NoSeatBack, FieldsBack, TypeOK
    <3> QED BY <2>5, <3>1, <3>2
  <2>7. CASE Login(u) \/ CreateRoom(u) \/ Leave(u) \/ \E r \in RoomIds : JoinRoom(u, r)
    <3>1. UNCHANGED <<originalRoomID, finished, seedings, loop, recByUser, restore>>
      BY <2>7 DEF Login, CreateRoom, Leave, JoinRoom, waitVars, history, recVars
    <3> QED BY <2>5, <3>1
  <2> QED BY <1>1, <2>1, <2>3, <2>4, <2>6, <2>7 DEF Connection
<1>2. ASSUME NEW r \in RoomIds, GameLoop(r) PROVE Seeding'
  <2>1. /\ UNCHANGED <<recByUser, restore, seedings>>
        /\ \A s \in RoomIds \ {r} : loop'[s] = loop[s] /\ originalRoomID'[s] = originalRoomID[s]
    BY <1>2, LoopFrame
  <2> SUFFICES ASSUME NEW u \in Users, RestoreAt(u, "seed")
               PROVE  /\ originalRoomID'[restore[u].r] = recByUser[u]
                      /\ loop'[restore[u].r].pc = "none"
                      /\ recByUser[u] \in finished' => seedings[recByUser[u]] > 1
    BY <2>1 DEF Seeding, RestoreAt
  <2> DEFINE s == restore[u].r
  <2>2. /\ s \in RoomIds /\ recByUser[u] \in RoomIds /\ originalRoomID[s] = recByUser[u]
        /\ recByUser[u] # None /\ loop[s].pc = "none"
        /\ recByUser[u] \in finished => seedings[recByUser[u]] > 1
    BY DEF Seeding, Born, RestoreAt, TypeOK
  <2>3. originalRoomID'[s] = recByUser[u] /\ loop'[s].pc = "none"
    <3>1. CASE r = s
      <4>1. ~StartGame(r)
        BY <2>2, <3>1 DEF StartGame, Recovered
      <4> QED BY <1>2, <2>2, <3>1, <4>1, LoopMoves
    <3> QED BY <2>1, <2>2, <3>1
  <2>4. recByUser[u] \in finished' => seedings[recByUser[u]] > 1
    <3>1. finished' \subseteq finished \/ (At(r, "end") /\ finished' = finished \cup {File(r)})
      BY <1>2, ZenonT(60) DEF GameLoop, StartGame, LogPlayer, LogDone, Die, Tick, Snapshot, NoSnapshot, Collect,
                  Truncate, Rewrite, SnapshotDone, CheckEnd, EndGame, ResetPlayer, CloseGame, history
    <3>2. At(r, "end") /\ File(r) = recByUser[u] => seedings[recByUser[u]] > 1
      <4> SUFFICES ASSUME At(r, "end"), File(r) = recByUser[u] PROVE seedings[recByUser[u]] > 1
        OBVIOUS
      <4>1. r # s /\ loop[r].pc # "none"
        BY <2>2 DEF At
      <4>2. originalRoomID[r] # None
        <5>1. loop[recByUser[u]].pc = "none"
          BY <2>2 DEF IInv, FromBefore, Gone
        <5> QED BY <4>1, <5>1 DEF File
      <4>3. originalRoomID[r] = recByUser[u]
        BY <4>2 DEF File
      <4> QED BY <2>2, <4>1, <4>3 DEF OneEach, TypeOK
    <3> QED BY <2>2, <3>1, <3>2
  <2> QED BY <2>3, <2>4
<1>3. ASSUME NEW u \in Users, Potion(u) PROVE Seeding'
  BY <1>3, PotionFrame DEF Seeding, RestoreAt, recVars, waitVars, history
<1>4. ASSUME NEW r \in RoomIds, ExtraLoops(r) PROVE Seeding'
  <2>1. UNCHANGED <<recByUser, restore, originalRoomID, finished, seedings>>
    BY <1>4, ExtraFrame DEF recVars, waitVars
  <2>2. \A u \in Users : RestoreAt(u, "seed") => loop'[restore[u].r].pc = "none"
    <3> SUFFICES ASSUME NEW u \in Users, RestoreAt(u, "seed") PROVE loop'[restore[u].r].pc = "none"
      OBVIOUS
    <3>1. restore[u].r \in RoomIds /\ loop[restore[u].r].pc = "none"
      BY DEF Seeding, Born, RestoreAt
    <3>2. CASE RefusedStart(r)
      BY <3>1, <3>2, RefusedMoves
    <3>3. CASE ~RefusedStart(r)
      <4> DEFINE s == restore[u].r
      <4>1. s # r => loop'[s] = loop[s]
        BY <1>4, <3>1, <3>3, ExtraMoves
      <4>2. loop'[r] \in {loop[r], [loop[r] EXCEPT !.pc = "none"]} /\ loop[r] \in LoopType
        BY <1>4, <3>3, ExtraMoves DEF TypeOK
      <4>3. loop[r].pc = "none" => loop'[r].pc = "none"
        BY <4>2 DEF LoopType
      <4> QED BY <3>1, <4>1, <4>3
    <3> QED BY <3>2, <3>3
  <2> QED BY <2>1, <2>2 DEF Seeding, RestoreAt
<1> QED BY <1>1, <1>2, <1>3, <1>4 DEF Next

\* What is written to the log of room r leaves the other logs alone.
LEMMA OneLog ==
  ASSUME TypeOK, NEW f \in RoomIds, NEW g \in RoomIds, f # g, NEW l,
         Write(g, l) \/ WriteAndSync(g, l) \/ Sync(g)
  PROVE  disk'[f] = disk[f] /\ logged'[f] = logged[f]
  BY DEF Write, WriteAndSync, Sync, Written, TypeOK

\* A sync keeps what says that a game is over.
LEMMA SyncKeepsOver ==
  ASSUME TypeOK, NEW f \in RoomIds, NEW g, disk[f].over, logged[f].over, Sync(g)
  PROVE  disk'[f].over /\ logged'[f].over
  BY DEF Sync, WriteAndSync, Written, TypeOK

LEMMA OverKeptByConnections ==
  ASSUME IInv, NEW u \in Users, Connection(u)
  PROVE  Over'
<1> USE NumbersTyped
<1>0. TypeOK /\ Over /\ doubled' = doubled
  BY SideLeft DEF IInv, sideVars, doubled
<1>1. CASE Login(u) \/ CreateRoom(u) \/ Rejoin(u) \/ SeatBack(u) \/ NoSeatBack(u) \/ FieldsBack(u)
           \/ \E r \in RoomIds : JoinRoom(u, r)
  <2>1. UNCHANGED <<files, disk, logged, finished, seedings, loop, originalRoomID>>
    BY <1>1 DEF Login, CreateRoom, Rejoin, SeatBack, NoSeatBack, FieldsBack, JoinRoom, fileVars, history,
                waitVars
  <2> QED BY <1>0, <2>1 DEF Over, File
<1>2. CASE Leave(u) \/ Seeded(u)
  <2> SUFFICES ASSUME NEW f \in finished', f \notin doubled, seedings'[f] <= 1
               PROVE  /\ f \in files' => disk'[f].over /\ logged'[f].over
                      /\ \A r \in RoomIds : File(r)' = f => loop'[r].pc \in {"none", "reset"}
    BY <1>0 DEF Over
  <2>1. UNCHANGED <<files, finished, seedings, originalRoomID>> /\ f \in RoomIds
    <3>1. UNCHANGED <<files, finished, seedings, originalRoomID>>
      <4>1. CASE Leave(u)
        BY <4>1 DEF Leave, fileVars, history, waitVars
      <4>2. CASE Seeded(u)
        BY <4>2 DEF Seeded, history, waitVars
      <4> QED BY <1>2, <4>1, <4>2
    <3>2. f \in RoomIds
      BY <1>0, <3>1 DEF TypeOK
    <3> QED BY <3>1, <3>2
  <2>2. UNCHANGED <<disk, logged>> \/ \E g : Sync(g)
    BY <1>2 DEF Leave, Seeded, fileVars
  <2>3. f \in files' => disk'[f].over /\ logged'[f].over
    BY <1>0, <2>1, <2>2, SyncKeepsOver DEF Over
  <2>4. ASSUME NEW r \in RoomIds, File(r)' = f PROVE loop'[r].pc \in {"none", "reset"}
    <3>1. File(r) = f /\ loop[r].pc \in {"none", "reset"}
      BY <1>0, <2>1, <2>4 DEF Over, File
    <3>2. CASE Leave(u)
      BY <3>1, <3>2 DEF Leave
    <3>3. CASE Seeded(u)
      <4>1. r # restore[u].r
        <5>1. RestoreAt(u, "seed")
          BY <3>3 DEF Seeded
        <5>2. ~(seedings[f] > 1)
          BY <1>0, <2>1 DEF TypeOK
        <5>3. originalRoomID[restore[u].r] = recByUser[u] /\ recByUser[u] # f /\ recByUser[u] # None
          BY <2>1, <5>1, <5>2 DEF IInv, Seeding
        <5> QED BY <3>1, <5>3 DEF File
      <4>2. loop'[r] = loop[r]
        BY <1>0, <3>3, <4>1, SeededRoom DEF TypeOK
      <4> QED BY <3>1, <4>2
    <3> QED BY <1>2, <3>2, <3>3
  <2> QED BY <2>3, <2>4
<1>3. CASE Reopen(u)
  <2> DEFINE o == recByUser[u]
  <2>1. /\ UNCHANGED loop /\ finished' = finished \ {o} /\ files' = files \cup {o}
        /\ originalRoomID' = [originalRoomID EXCEPT ![nextRoomID] = o]
        /\ seedings' = [seedings EXCEPT ![o] = @ + 1]
        /\ \A f \in RoomIds \ {o} : disk'[f] = disk[f] /\ logged'[f] = logged[f]
    <3>1. \E l : disk' = [disk EXCEPT ![o] = l]
      BY <1>3 DEF Reopen
    <3>2. logged' = [logged EXCEPT ![o] = Seed(pending[o])]
      BY <1>3 DEF Reopen
    <3>3. \A f \in RoomIds \ {o} : disk'[f] = disk[f] /\ logged'[f] = logged[f]
      BY <1>0, <3>1, <3>2 DEF TypeOK
    <3> QED BY <1>3, <3>3 DEF Reopen
  <2> SUFFICES ASSUME NEW f \in finished', f \notin doubled, seedings'[f] <= 1
               PROVE  /\ f \in files' => disk'[f].over /\ logged'[f].over
                      /\ \A r \in RoomIds : File(r)' = f => loop'[r].pc \in {"none", "reset"}
    BY <1>0 DEF Over
  <2>2. f \in finished /\ f # o /\ f \in RoomIds /\ seedings[f] <= 1
    BY <1>0, <2>1 DEF TypeOK
  <2>3. ASSUME NEW r \in RoomIds, File(r)' = f PROVE loop'[r].pc \in {"none", "reset"}
    <3>1. CASE r = nextRoomID
      BY <1>0, <2>1, <3>1 DEF IInv, Unborn, TypeOK
    <3>2. CASE r # nextRoomID
      BY <1>0, <2>1, <2>2, <2>3, <3>2 DEF Over, File, TypeOK
    <3> QED BY <3>1, <3>2
  <2> QED BY <1>0, <2>1, <2>2, <2>3 DEF Over
<1> QED BY <1>1, <1>2, <1>3 DEF Connection

LEMMA OverKeptByLoops ==
  ASSUME IInv, NEW r \in RoomIds, GameLoop(r)
  PROVE  Over'
<1> USE NumbersTyped
<1> DEFINE g == File(r)
<1>0. TypeOK /\ Over /\ FromBefore /\ OneEach /\ g \in RoomIds
  BY FilesTyped, Types DEF IInv
<1>1. /\ UNCHANGED seedings /\ doubled' = doubled
      /\ \A s \in RoomIds \ {r} : loop'[s] = loop[s] /\ originalRoomID'[s] = originalRoomID[s]
  BY <1>0, LoopFrame, LoopLeaves DEF doubled
<1>2. \A s \in RoomIds \ {r} : File(s)' = File(s)
  BY <1>1 DEF File
<1> SUFFICES ASSUME NEW f \in finished', f \notin doubled, seedings[f] <= 1
             PROVE  /\ f \in files' => disk'[f].over /\ logged'[f].over
                    /\ \A s \in RoomIds : File(s)' = f => loop'[s].pc \in {"none", "reset"}
  BY <1>1 DEF Over
\* It is enough that the step leaves f's log as it was, if it was over before.
<1>3. ASSUME f \in finished, f \in files' => f \in files /\ disk'[f] = disk[f] /\ logged'[f] = logged[f],
             File(r)' = f => loop'[r].pc \in {"none", "reset"}
      PROVE  /\ f \in files' => disk'[f].over /\ logged'[f].over
             /\ \A s \in RoomIds : File(s)' = f => loop'[s].pc \in {"none", "reset"}
  <2>1. ASSUME NEW s \in RoomIds, File(s)' = f PROVE loop'[s].pc \in {"none", "reset"}
    <3>1. CASE s = r
      BY <1>3, <2>1, <3>1
    <3>2. CASE s # r
      BY <1>0, <1>1, <1>2, <1>3, <2>1, <3>2 DEF Over
    <3> QED BY <3>1, <3>2
  <2> QED BY <1>0, <1>3, <2>1 DEF Over
<1>4. CASE StartGame(r)
  <2>1. originalRoomID[r] = None /\ g = r
    BY <1>4 DEF IInv, Recovered, StartGame, File
  <2>2. finished' = finished \ {r} /\ files' = files \cup {r} /\ UNCHANGED originalRoomID
        /\ \A h \in RoomIds \ {r} : disk'[h] = disk[h] /\ logged'[h] = logged[h]
    BY <1>0, <1>4 DEF StartGame, waitVars, TypeOK
  <2>3. f \in RoomIds \ {r} /\ File(r)' = r
    BY <1>0, <2>1, <2>2 DEF File, TypeOK
  <2> QED BY <1>3, <2>2, <2>3
<1>5. CASE LogDone(r) \/ Tick(r) \/ Snapshot(r) \/ NoSnapshot(r) \/ Truncate(r) \/ SnapshotDone(r)
           \/ CheckEnd(r) \/ \E u \in Users : LogPlayer(r, u) \/ Collect(r, u) \/ Rewrite(r, u)
  <2>1. UNCHANGED <<originalRoomID, finished>> /\ loop[r].pc \notin {"none", "reset"}
    BY <1>5, ZenonT(60) DEF LogDone, Tick, Snapshot, NoSnapshot, Truncate, SnapshotDone, CheckEnd, LogPlayer,
                Collect, Rewrite, At, NoLongerWaits, waitVars, history
  <2>2. f \in finished /\ f \in RoomIds /\ f # g /\ File(r)' = g
    BY <1>0, <2>1 DEF Over, File, TypeOK
  <2>3. files' \in {files, files \cup {g}}
    BY <1>5, Zenon DEF LogDone, Tick, Snapshot, NoSnapshot, Truncate, SnapshotDone, CheckEnd, LogPlayer,
                Collect, Rewrite, fileVars
  <2>4. disk'[f] = disk[f] /\ logged'[f] = logged[f]
    <3>1. CASE LogDone(r) \/ \E u \in Users : LogPlayer(r, u)
      <4>1. g = r
        BY <1>0, <3>1 DEF IInv, Recovered, File, LogDone, LogPlayer, At
      <4>2. UNCHANGED <<disk, logged>> \/ Sync(r) \/ \E l : Write(r, l)
        BY <3>1 DEF LogDone, LogPlayer
      <4> QED BY <1>0, <2>2, <4>1, <4>2, OneLog
    <3>2. CASE SnapshotDone(r) \/ \E u \in Users : Rewrite(r, u)
      <4>1. UNCHANGED <<disk, logged>> \/ Sync(g) \/ \E l : Write(g, l)
        BY <3>2 DEF SnapshotDone, Rewrite
      <4> QED BY <1>0, <2>2, <4>1, OneLog
    <3>3. CASE Truncate(r)
      <4>1. \E l : disk' = [disk EXCEPT ![g] = l]
        BY <3>3 DEF Truncate
      <4>2. logged' = [logged EXCEPT ![g] = Marked(NoLog)]
        BY <3>3 DEF Truncate
      <4> QED BY <1>0, <2>2, <4>1, <4>2 DEF TypeOK
    <3>4. CASE Tick(r) \/ Snapshot(r) \/ NoSnapshot(r) \/ CheckEnd(r) \/ \E u \in Users : Collect(r, u)
      <4>1. UNCHANGED fileVars
        BY <3>4, Zenon DEF Tick, Snapshot, NoSnapshot, CheckEnd, Collect
      <4> QED BY <4>1 DEF fileVars
    <3> QED BY <1>5, <3>1, <3>2, <3>3, <3>4
  <2> QED BY <1>3, <2>2, <2>3, <2>4
<1>6. ASSUME NEW u \in Users, Die(u, r)
      PROVE  /\ f \in files' => disk'[f].over /\ logged'[f].over
             /\ \A s \in RoomIds : File(s)' = f => loop'[s].pc \in {"none", "reset"}
  <2>1. UNCHANGED <<loop, files, finished, originalRoomID>>
    BY <1>6 DEF Die, waitVars, history
  <2>2. f \in finished /\ f \in RoomIds
    BY <1>0, <2>1 DEF TypeOK
  <2>3. CASE f # g
    <3>1. UNCHANGED <<disk, logged>> \/ \E l : Write(g, l)
      BY <1>6 DEF Die
    <3>2. disk'[f] = disk[f] /\ logged'[f] = logged[f]
      BY <1>0, <2>2, <2>3, <3>1, OneLog
    <3> QED BY <1>0, <2>1, <2>2, <3>2 DEF Over, File
  <2>4. CASE f = g /\ f \in files
    <3>1. disk[f].over /\ logged[f].over /\ logged[f] \in LogType
      BY <1>0, <2>2, <2>4 DEF Over, TypeOK
    <3>2. Killed(logged[f], id[u]).over
      BY <3>1 DEF Killed, LogType
    <3>3. UNCHANGED <<disk, logged>> \/ Write(f, Killed(logged[f], id[u]))
      BY <1>6, <2>4 DEF Die
    <3>4. disk'[f].over /\ logged'[f].over
      BY <1>0, <2>2, <3>1, <3>2, <3>3 DEF Write, Written, TypeOK
    <3> QED BY <1>0, <2>1, <2>2, <3>4 DEF Over, File
  <2>5. CASE f \notin files
    BY <1>0, <2>1, <2>2, <2>5 DEF Over, File
  <2> QED BY <2>3, <2>4, <2>5
<1>7. CASE EndGame(r)
  <2>1. UNCHANGED <<files, originalRoomID>> /\ loop[r].pc = "end" /\ File(r)' = g
    BY <1>7 DEF EndGame, At, waitVars, File
  <2>2. loop'[r].pc = "reset"
    BY <1>0, <1>7 DEF EndGame, With, NoLoop, TypeOK
  <2>3. CASE f # g
    <3>1. UNCHANGED <<disk, logged>> \/ \E l : WriteAndSync(g, l)
      BY <1>7 DEF EndGame
    <3>2. f \in finished /\ f \in RoomIds
      <4>1. finished' = finished \/ finished' = finished \cup {g}
        BY <1>7 DEF EndGame
      <4> QED BY <1>0, <2>3, <4>1 DEF TypeOK
    <3>3. disk'[f] = disk[f] /\ logged'[f] = logged[f]
      BY <1>0, <2>3, <3>1, <3>2, OneLog
    <3> QED BY <1>3, <2>1, <2>3, <3>2, <3>3
  <2>4. CASE f = g
    <3>1. wal[r] = "open" /\ WriteAndSync(g, Ended(logged[g]))
      <4>1. f \notin finished
        BY <1>0, <2>1, <2>4 DEF Over
      <4> QED BY <1>7, <4>1 DEF EndGame
    <3>2. Ended(logged[g]).over
      BY <1>0 DEF Ended, TypeOK, LogType
    <3>3. f \in files' => disk'[f].over /\ logged'[f].over
      BY <1>0, <2>1, <2>4, <3>1, <3>2 DEF WriteAndSync, Written, TypeOK
    <3>4. ASSUME NEW s \in RoomIds, s # r, File(s) = g PROVE loop[s].pc = "none"
      <4>1. CASE originalRoomID[s] = None
        <5>1. s = originalRoomID[r] /\ originalRoomID[r] # None
          BY <3>4, <4>1 DEF File
        <5> QED BY <1>0, <5>1 DEF FromBefore, Gone
      <4>2. CASE originalRoomID[s] # None
        <5>1. originalRoomID[s] = g
          BY <3>4, <4>2 DEF File
        <5>2. originalRoomID[r] # None
          BY <1>0, <2>1, <4>2, <5>1 DEF File, FromBefore, Gone
        <5>3. originalRoomID[r] = g
          BY <5>2 DEF File
        <5> QED BY <1>0, <2>4, <3>4, <5>1, <5>2, <5>3 DEF OneEach
      <4> QED BY <4>1, <4>2
    <3>5. ASSUME NEW s \in RoomIds, File(s)' = f PROVE loop'[s].pc \in {"none", "reset"}
      BY <1>1, <1>2, <2>2, <2>4, <3>4, <3>5
    <3> QED BY <3>3, <3>5
  <2> QED BY <2>3, <2>4
<1>8. ASSUME NEW u \in Users, ResetPlayer(r, u)
      PROVE  /\ f \in files' => disk'[f].over /\ logged'[f].over
             /\ \A s \in RoomIds : File(s)' = f => loop'[s].pc \in {"none", "reset"}
  <2>1. UNCHANGED <<files, disk, logged, finished, originalRoomID>>
    BY <1>8 DEF ResetPlayer, fileVars, waitVars
  <2>2. loop'[r].pc = "reset"
    BY <1>0, <1>8 DEF ResetPlayer, At, TypeOK, LoopType
  <2> QED BY <1>3, <2>1, <2>2
<1>9. CASE CloseGame(r)
  <2>1. finished' = finished /\ files' = files \ {g}
        /\ \A h \in RoomIds \ {g} : disk'[h] = disk[h] /\ logged'[h] = logged[h]
    BY <1>0, <1>9 DEF CloseGame, Delete, TypeOK
  <2>2. loop'[r].pc = "none" /\ f \in RoomIds
    BY <1>0, <1>9, <2>1 DEF CloseGame, With, NoLoop, TypeOK
  <2> QED BY <1>3, <2>1, <2>2
<1> QED BY <1>4, <1>5, <1>6, <1>7, <1>8, <1>9 DEF GameLoop

\* The record of a potion says nothing of the end of a game, and what a refused start
\* and its loops write is in the log of their own room.
LEMMA OverKeptBySides ==
  ASSUME IInv, (\E u \in Users : Potion(u)) \/ (\E r \in RoomIds : ExtraLoops(r))
  PROVE  Over'
<1>0. TypeOK /\ Over
  BY DEF IInv
<1>1. ASSUME NEW u \in Users, Potion(u) PROVE Over'
  <2>1. UNCHANGED <<files, loop, originalRoomID, finished, seedings>> /\ doubled' = doubled
    BY <1>1, PotionFrame DEF waitVars, history, doubled
  <2> SUFFICES ASSUME NEW f \in finished, f \notin doubled, seedings[f] <= 1, f \in files
               PROVE  disk'[f].over /\ logged'[f].over
    BY <1>0, <2>1 DEF Over, File
  <2>2. f \in RoomIds /\ disk[f].over /\ logged[f].over /\ logged[f] \in LogType
    BY <1>0 DEF Over, TypeOK
  <2> DEFINE g == File(potion[u].r)
  <2>3. UNCHANGED <<disk, logged>> \/ Write(g, Healed(logged[g], id[u]))
    BY <1>1 DEF Potion, Drink, Heal, LogPotion, fileVars
  <2>4. CASE g # f
    BY <1>0, <2>2, <2>3, <2>4 DEF Write, Written, TypeOK
  <2>5. CASE g = f
    <3>1. Healed(logged[f], id[u]).over
      BY <2>2, Zenon DEF Healed, LogType
    <3> QED BY <1>0, <2>2, <2>3, <2>5, <3>1 DEF Write, Written, TypeOK
  <2> QED BY <2>4, <2>5
<1>2. ASSUME NEW r \in RoomIds, ExtraLoops(r) PROVE Over'
  <2>1. UNCHANGED <<finished, seedings, originalRoomID>>
    BY <1>2, ExtraFrame DEF waitVars
  <2>2. /\ r \in doubled' /\ doubled \subseteq doubled'
        /\ \A f \in RoomIds \ {r} : /\ disk'[f] = disk[f] /\ logged'[f] = logged[f]
                                    /\ f \in files' <=> f \in files
        /\ \A s \in RoomIds \ {r} : loop'[s] = loop[s]
        /\ originalRoomID[r] # None => loop'[r] = loop[r]
    <3>1. CASE RefusedStart(r)
      <4>1. /\ UNCHANGED <<disk, loop>> /\ files' = files \cup {r} /\ r \in doubled'
            /\ logged' = [logged EXCEPT ![r] = disk[r]]
            /\ \A s \in RoomIds \ {r} : extra'[s] = extra[s]
        BY <1>0, <3>1, RefusedMoves
      <4>2. doubled \subseteq doubled'
        BY <4>1 DEF doubled
      <4> QED BY <1>0, <4>1, <4>2 DEF TypeOK
    <3>2. CASE ~RefusedStart(r)
      BY <1>0, <1>2, <3>2, ExtraMoves
    <3> QED BY <3>1, <3>2
  <2> SUFFICES ASSUME NEW f \in finished \ doubled', seedings[f] <= 1
               PROVE  /\ f \in files' => disk'[f].over /\ logged'[f].over
                      /\ \A s \in RoomIds : File(s) = f => loop'[s].pc \in {"none", "reset"}
    BY <2>1 DEF Over, File
  <2>3. f \in RoomIds \ {r} /\ f \in finished \ doubled
    BY <1>0, <2>2 DEF TypeOK
  <2>4. ASSUME NEW s \in RoomIds, File(s) = f PROVE loop'[s] = loop[s]
    <3>1. s = r => originalRoomID[r] # None
      BY <2>3, <2>4 DEF File
    <3> QED BY <2>2, <3>1
  <2> QED BY <1>0, <2>2, <2>3, <2>4 DEF Over
<1> QED BY <1>1, <1>2

LEMMA IInvKept == IInv /\ [Next]_vars => IInv'
<1> SUFFICES ASSUME IInv, [Next]_vars PROVE IInv'
  OBVIOUS
<1>1. CASE Restart
  BY <1>1, IInvRestart
<1>2. CASE Next /\ ~Restart
  <2>1. TypeOK' /\ Unborn' /\ Born' /\ EntriesLead'
    BY <1>2, BasicsInductive, EntriesKept DEF IInv
  <2>2. FromBefore' /\ Recovered' /\ OneEach' /\ Seeding'
    BY <1>2, FromBeforeKept, RecoveredKept, OneEachKept, SeedingKept
  <2>3. Over'
    BY <1>2, OverKeptByConnections, OverKeptByLoops, OverKeptBySides DEF Next
  <2> QED BY <2>1, <2>2, <2>3 DEF IInv
<1>3. CASE UNCHANGED vars
  <2>1. TypeOK' /\ Unborn' /\ Born' /\ EntriesLead'
    BY <1>3, StutterBasics DEF IInv, EntriesLead, vars, recVars
  <2>2. FromBefore' /\ Recovered' /\ OneEach' /\ Seeding' /\ Over'
    BY <1>3 DEF IInv, FromBefore, Gone, Recovered, OneEach, Seeding, RestoreAt, Over, File, vars, fileVars,
                idVars, roomVars, waitVars, recVars, sideVars, history, doubled
  <2> QED BY <2>1, <2>2 DEF IInv
<1> QED BY <1>1, <1>2, <1>3 DEF Next

\* A game that endGame() has ended is not recovered, wherever the crash comes and however
\* many others are going on, unless a player who came too late has taken it up again, or
\* a refused start has given its room a second loop, whose snapshots make the log again
\* (game.go:468-532, recovery.go:93-135).
THEOREM EndedForGood == Spec => []EndedStayEnded
<1>1. IInv => EndedStayEnded
  BY DEF IInv, Over, EndedStayEnded, Recoverable
<1> QED BY <1>1, IInvInit, IInvKept, PTL DEF Spec

-----------------------------------------------------------------------------
(***************************************************************************)
(* Those who are in a game.                                                *)
(***************************************************************************)
\* The seats taken in a room: a player may have several.
Taken(r) == {s \in Users \X Nat : s[2] \in 1..seats[r][s[1]]}
Counted == \A r \in RoomIds : IsFiniteSet(Taken(r)) /\ playerCount[r] = Cardinality(Taken(r))

\* Only a room there is plays, and not while its players are reset.
Playing ==
    /\ \A r \in RoomIds \ rooms : roomStatus[r] # "gaming"
    /\ \A r \in RoomIds : At(r, "reset") => roomStatus[r] # "gaming"

\* A player who was not put back too late has one seat at most, in the room he is said
\* to be in, or is being put back to.
PlacedAs(u) ==
    /\ roomID[u] # None => u \in Members(roomID[u])
    /\ \A r \in RoomIds :
          /\ seats[r][u] <= 1
          /\ u \in Members(r) => r = roomID[u] \/ (RestoreAt(u, "fields") /\ r = restore[u].r)
    /\ RestoreAt(u, "fields") => roomID[u] = None /\ u \in Members(restore[u].r)
    /\ status[u] \in {"in_room", "gaming", "dead"} => roomID[u] # None
GameOf(u) ==
    status[u] \in {"gaming", "dead"} =>
        /\ roomID[u] \in rooms /\ u \in Members(roomID[u])
        /\ \/ roomStatus[roomID[u]] = "gaming"
           \/ At(roomID[u], "reset") /\ u \in loop[roomID[u]].todo
           \/ roomID[u] \in doubled
Placed == \A u \in Users \ strays : PlacedAs(u) /\ GameOf(u)

PlacedInv == IInv /\ Counted /\ Playing /\ Placed

\* Who sits down in a room adds a seat to it.
LEMMA SeatAdded ==
  ASSUME TypeOK, Counted, NEW u \in Users, NEW r \in RoomIds, SitDown(u, r)
  PROVE  Counted'
<1> DEFINE s == <<u, seats[r][u] + 1>>
<1>0. seats[r][u] \in Nat /\ seats \in [RoomIds -> [Users -> Nat]] /\ playerCount \in [RoomIds -> Int]
  BY DEF TypeOK
<1>1. /\ seats'[r][u] = seats[r][u] + 1 /\ \A v \in Users \ {u} : seats'[r][v] = seats[r][v]
      /\ playerCount'[r] = playerCount[r] + 1
      /\ \A q \in RoomIds \ {r} : seats'[q] = seats[q] /\ playerCount'[q] = playerCount[q]
  BY <1>0 DEF SitDown
<1>2. s \notin Taken(r) /\ s \in Users \X Nat
  BY <1>0 DEF Taken
<1>3. Taken(r)' = Taken(r) \cup {s}
  <2>1. ASSUME NEW t \in Taken(r)' PROVE t \in Taken(r) \cup {s}
    <3>1. t \in Users \X Nat /\ t[2] \in 1..seats'[r][t[1]] /\ t = <<t[1], t[2]>>
      BY <2>1 DEF Taken
    <3>2. CASE t[1] # u
      <4>1. t[2] \in 1..seats[r][t[1]]
        BY <1>1, <3>1, <3>2
      <4> QED BY <3>1, <4>1 DEF Taken
    <3>3. CASE t[1] = u
      <4>1. t[2] \in 1..(seats[r][u] + 1)
        BY <1>1, <3>1, <3>3
      <4>2. t[2] \in 1..seats[r][u] \/ t = s
        BY <1>0, <3>1, <3>3, <4>1
      <4> QED BY <3>1, <3>3, <4>2 DEF Taken
    <3> QED BY <3>2, <3>3
  <2>2. ASSUME NEW t \in Taken(r) \cup {s} PROVE t \in Taken(r)'
    <3>1. CASE t = s
      BY <1>0, <1>1, <1>2, <3>1 DEF Taken
    <3>2. CASE t \in Taken(r)
      <4>1. t \in Users \X Nat /\ t[2] \in 1..seats[r][t[1]]
        BY <3>2 DEF Taken
      <4>2. t[2] \in 1..seats'[r][t[1]]
        BY <1>0, <1>1, <4>1
      <4> QED BY <4>1, <4>2 DEF Taken
    <3> QED BY <2>2, <3>1, <3>2
  <2> QED BY <2>1, <2>2
<1>4. \A q \in RoomIds \ {r} : Taken(q)' = Taken(q)
  BY <1>1 DEF Taken
<1>5. IsFiniteSet(Taken(r)) /\ playerCount[r] = Cardinality(Taken(r))
  BY DEF Counted
<1> HIDE DEF s
<1>6. IsFiniteSet(Taken(r) \cup {s}) /\ Cardinality(Taken(r) \cup {s}) = Cardinality(Taken(r)) + 1
  BY <1>2, <1>5, FS_AddElement
<1> QED BY <1>1, <1>3, <1>4, <1>5, <1>6 DEF Counted

\* Who leaves a room gives a seat back.
LEMMA SeatFreed ==
  ASSUME TypeOK, Counted, NEW u \in Users, NEW r \in RoomIds, u \in Members(r),
         seats' = [seats EXCEPT ![r][u] = @ - 1],
         playerCount' = [playerCount EXCEPT ![r] = @ - 1]
  PROVE  Counted'
<1> DEFINE s == <<u, seats[r][u]>>
<1>0. seats[r][u] \in Nat /\ seats[r][u] > 0
      /\ seats \in [RoomIds -> [Users -> Nat]] /\ playerCount \in [RoomIds -> Int]
  BY DEF TypeOK, Members
<1>1. /\ seats'[r][u] = seats[r][u] - 1 /\ \A v \in Users \ {u} : seats'[r][v] = seats[r][v]
      /\ playerCount'[r] = playerCount[r] - 1
      /\ \A q \in RoomIds \ {r} : seats'[q] = seats[q] /\ playerCount'[q] = playerCount[q]
  BY <1>0
<1>2. s \in Taken(r)
  BY <1>0 DEF Taken
<1>3. Taken(r)' = Taken(r) \ {s}
  <2>1. ASSUME NEW t \in Taken(r)' PROVE t \in Taken(r) \ {s}
    <3>1. t \in Users \X Nat /\ t[2] \in 1..seats'[r][t[1]]
      BY <2>1 DEF Taken
    <3>2. t[2] \in 1..seats[r][t[1]]
      BY <1>0, <1>1, <3>1
    <3>3. t # s
      BY <1>0, <1>1, <3>1
    <3> QED BY <3>1, <3>2, <3>3 DEF Taken
  <2>2. ASSUME NEW t \in Taken(r) \ {s} PROVE t \in Taken(r)'
    <3>1. t \in Users \X Nat /\ t[2] \in 1..seats[r][t[1]] /\ t = <<t[1], t[2]>>
      BY <2>2 DEF Taken
    <3>2. t[1] = u => t[2] # seats[r][u]
      BY <2>2, <3>1
    <3>3. t[2] \in 1..seats'[r][t[1]]
      BY <1>0, <1>1, <3>1, <3>2
    <3> QED BY <3>1, <3>3 DEF Taken
  <2> QED BY <2>1, <2>2
<1>4. \A q \in RoomIds \ {r} : Taken(q)' = Taken(q)
  BY <1>1 DEF Taken
<1>5. IsFiniteSet(Taken(r)) /\ playerCount[r] = Cardinality(Taken(r))
  BY DEF Counted
<1> HIDE DEF s
<1>6. IsFiniteSet(Taken(r) \ {s}) /\ Cardinality(Taken(r) \ {s}) = Cardinality(Taken(r)) - 1
  BY <1>2, <1>5, FS_RemoveElement
<1> QED BY <1>1, <1>3, <1>4, <1>5, <1>6 DEF Counted

\* A room that two players sit in is not empty when one of them leaves.
LEMMA OthersStay ==
  ASSUME TypeOK, Counted, NEW r \in RoomIds, NEW u \in Members(r), NEW v \in Members(r), u # v
  PROVE  playerCount[r] > 1
<1>1. {<<u, 1>>, <<v, 1>>} \subseteq Taken(r)
  BY DEF Members, Taken, TypeOK
<1>2. IsFiniteSet(Taken(r)) /\ playerCount[r] = Cardinality(Taken(r))
  BY DEF Counted
<1>3. Cardinality({<<u, 1>>, <<v, 1>>}) = 2
  <2>1. <<u, 1>> # <<v, 1>>
    OBVIOUS
  <2> HIDE <2>1
  <2>2. \A a, b : a # b => Cardinality({a, b}) = 2
    <3> SUFFICES ASSUME NEW a, NEW b, a # b PROVE Cardinality({a, b}) = 2
      OBVIOUS
    <3>1. IsFiniteSet({a}) /\ Cardinality({a}) = 1 /\ b \notin {a} /\ {a, b} = {a} \cup {b}
      BY FS_Singleton
    <3> QED BY <3>1, FS_AddElement
  <2> QED BY <2>1, <2>2
<1>4. Cardinality(Taken(r)) >= 2 /\ Cardinality(Taken(r)) \in Nat
  BY <1>1, <1>2, <1>3, FS_Subset, FS_CardinalityType
<1> QED BY <1>2, <1>4

LEMMA CountedKept == TypeOK /\ Born /\ Counted /\ Next => Counted'
<1> SUFFICES ASSUME TypeOK, Born, Counted, Next PROVE Counted'
  OBVIOUS
<1>1. CASE Restart
  <2>1. \A r \in RoomIds : Taken(r)' = {} /\ playerCount'[r] = 0
    BY <1>1 DEF Restart, Taken
  <2> QED BY <2>1, FS_EmptySet DEF Counted
<1>2. ASSUME NEW u \in Users, Connection(u) PROVE Counted'
  <2>1. CASE CreateRoom(u)
    <3>1. nextRoomID \in RoomIds /\ SitDown(u, nextRoomID)
      BY <2>1, NumbersTyped DEF CreateRoom, Enter, TypeOK, RoomIds
    <3> QED BY <3>1, SeatAdded
  <2>2. ASSUME NEW r \in RoomIds, JoinRoom(u, r) PROVE Counted'
    BY <2>2, SeatAdded DEF JoinRoom, Enter
  <2>3. CASE SeatBack(u)
    BY <2>3, SeatAdded DEF SeatBack, Born, RestoreAt
  <2>4. CASE Leave(u)
    <3>1. roomID[u] \in RoomIds
      BY <2>4 DEF Leave, TypeOK
    <3> QED BY <2>4, <3>1, SeatFreed DEF Leave
  <2>5. CASE UNCHANGED <<seats, playerCount>>
    BY <2>5 DEF Counted, Taken
  <2> QED BY <1>2, <2>1, <2>2, <2>3, <2>4, <2>5
          DEF Connection, Login, Rejoin, Reopen, Seeded, NoSeatBack, FieldsBack, roomVars
<1>3. ASSUME NEW r \in RoomIds, GameLoop(r) PROVE Counted'
  <2>1. UNCHANGED <<seats, playerCount>>
    BY <1>3, LoopLeaves
  <2> QED BY <2>1 DEF Counted, Taken
<1>4. ASSUME NEW u \in Users, Potion(u) PROVE Counted'
  BY <1>4, PotionFrame DEF Counted, Taken, roomVars
<1>5. ASSUME NEW r \in RoomIds, ExtraLoops(r) PROVE Counted'
  BY <1>5, ExtraFrame DEF Counted, Taken
<1> QED BY <1>1, <1>2, <1>3, <1>4, <1>5 DEF Next

LEMMA PlayingKept == TypeOK /\ Unborn /\ Born /\ Playing /\ Next => Playing'
<1> SUFFICES ASSUME TypeOK, Unborn, Born, Playing, Next PROVE Playing'
  OBVIOUS
<1> USE NumbersTyped
<1>1. CASE Restart
  BY <1>1 DEF Restart, Playing
<1>2. ASSUME NEW u \in Users, Connection(u) PROVE Playing'
  <2>1. CASE Reopen(u)
    <3> DEFINE r == nextRoomID
    <3>1. rooms' = rooms \cup {r} /\ roomStatus' = [roomStatus EXCEPT ![r] = "gaming"] /\ UNCHANGED loop
      BY <2>1 DEF Reopen
    <3>2. r \in RoomIds /\ ~At(r, "reset")
      <4>1. r \in RoomIds
        BY <2>1 DEF Reopen, TypeOK, RoomIds
      <4> QED BY <4>1 DEF Unborn, At
    <3> QED BY <3>1, <3>2 DEF Playing, At, TypeOK
  <2>2. CASE Seeded(u)
    <3>1. UNCHANGED <<rooms, roomStatus>> /\ loop' = [loop EXCEPT ![restore[u].r] = [NoLoop EXCEPT !.pc = "top", !.todo = {}]]
      BY <2>2 DEF Seeded, roomVars, With
    <3> QED BY <3>1 DEF Playing, At, TypeOK
  <2>3. CASE Leave(u)
    <3>0. roomID[u] \in RoomIds
      BY <2>3 DEF Leave, TypeOK
    <3>1. UNCHANGED loop /\ (UNCHANGED <<rooms, roomStatus>> \/
             \E r \in RoomIds : rooms' = rooms \ {r} /\ roomStatus' = [roomStatus EXCEPT ![r] = "ended"])
      BY <2>3, <3>0 DEF Leave
    <3>2. \A s \in RoomIds : \/ roomStatus'[s] = roomStatus[s] /\ (s \in rooms' <=> s \in rooms)
                             \/ roomStatus'[s] = "ended"
      BY <3>1 DEF TypeOK
    <3> QED BY <3>1, <3>2 DEF Playing, At
  <2>4. CASE UNCHANGED <<roomStatus, loop>> /\ rooms \subseteq rooms'
    BY <2>4 DEF Playing, At
  <2> QED BY <1>2, <2>1, <2>2, <2>3, <2>4
          DEF Connection, Login, CreateRoom, JoinRoom, Rejoin, SeatBack, NoSeatBack, FieldsBack, roomVars
<1>3. ASSUME NEW r \in RoomIds, GameLoop(r) PROVE Playing'
  <2>1. rooms' = rooms /\ \A s \in RoomIds \ {r} : loop'[s] = loop[s] /\ roomStatus'[s] = roomStatus[s]
    BY <1>3, LoopFrame
  <2>2. CASE StartGame(r)
    <3>1. r \in rooms /\ loop'[r].pc = "log"
      BY <2>2 DEF StartGame, With, NoLoop, TypeOK
    <3> QED BY <2>1, <3>1 DEF Playing, At
  <2>3. CASE roomStatus'[r] # "gaming"
    BY <2>1, <2>3 DEF Playing, At
  <2>4. CASE roomStatus'[r] = roomStatus[r] /\ (loop'[r].pc = "reset" => loop[r].pc = "reset")
    BY <2>1, <2>4 DEF Playing, At
  <2>5. CASE CloseGame(r) \/ EndGame(r)
    <3>1. roomStatus'[r] \in {"waiting", "ended"}
      BY <2>5 DEF CloseGame, EndGame, TypeOK
    <3> QED BY <2>3, <3>1
  <2>6. ASSUME NEW u \in Users, LogPlayer(r, u) \/ Collect(r, u) \/ Rewrite(r, u) \/ ResetPlayer(r, u) \/ Die(u, r)
        PROVE  Playing'
    <3>1. UNCHANGED roomStatus
      BY <2>6 DEF LogPlayer, Collect, Rewrite, ResetPlayer, Die, roomVars
    <3>2. loop'[r].pc = loop[r].pc
      BY <2>6 DEF LogPlayer, Collect, Rewrite, ResetPlayer, Die, TypeOK, LoopType
    <3> QED BY <2>4, <3>1, <3>2
  <2>7. CASE LogDone(r) \/ Tick(r) \/ Snapshot(r) \/ NoSnapshot(r) \/ Truncate(r) \/ SnapshotDone(r) \/ CheckEnd(r)
    <3>1. UNCHANGED roomStatus
      BY <2>7 DEF LogDone, Tick, Snapshot, NoSnapshot, Truncate, SnapshotDone, CheckEnd, roomVars
    <3>2. loop[r] \in LoopType
      BY DEF TypeOK
    <3>3. \A pc : Goto(r, pc) => loop'[r].pc = pc
      BY <3>2 DEF Goto, TypeOK, LoopType
    <3>4. \A pc, todo : With(r, pc, todo) => loop'[r].pc = pc
      BY DEF With, NoLoop, TypeOK
    <3>5. loop'[r].pc # "reset"
      <4>1. CASE Truncate(r)
        BY <3>2, <4>1 DEF Truncate, TypeOK, LoopType
      <4>2. CASE LogDone(r) \/ Tick(r) \/ NoSnapshot(r)
        BY <3>3, <4>2 DEF LogDone, Tick, NoSnapshot
      <4>3. CASE Snapshot(r) \/ SnapshotDone(r)
        BY <3>4, <4>3 DEF Snapshot, SnapshotDone
      <4>4. CASE CheckEnd(r)
        BY <3>3, <4>4 DEF CheckEnd, Verdict
      <4> QED BY <2>7, <4>1, <4>2, <4>3, <4>4
    <3> QED BY <2>4, <3>1, <3>5
  <2> QED BY <1>3, <2>2, <2>5, <2>6, <2>7 DEF GameLoop
<1>4. ASSUME NEW u \in Users, Potion(u) PROVE Playing'
  BY <1>4, PotionFrame DEF Playing, At, roomVars
<1>5. ASSUME NEW r \in RoomIds, ExtraLoops(r) PROVE Playing'
  <2>1. UNCHANGED rooms
    BY <1>5, ExtraFrame
  <2>2. CASE RefusedStart(r)
    BY <2>1, <2>2, RefusedMoves DEF Playing, At
  <2>3. CASE ~RefusedStart(r)
    <3>1. /\ \A s \in RoomIds \ {r} : loop'[s] = loop[s] /\ roomStatus'[s] = roomStatus[s]
          /\ roomStatus'[r] = roomStatus[r] \/ roomStatus'[r] # "gaming"
      BY <1>5, <2>3, ExtraMoves
    <3>2. loop'[r].pc = "reset" => loop[r].pc = "reset"
      <4>1. loop'[r] \in {loop[r], [loop[r] EXCEPT !.pc = "none"]} /\ loop[r] \in LoopType
        BY <1>5, <2>3, ExtraMoves DEF TypeOK
      <4> QED BY <4>1 DEF LoopType
    <3> QED BY <2>1, <3>1, <3>2 DEF Playing, At
  <2> QED BY <2>2, <2>3
<1> QED BY <1>1, <1>2, <1>3, <1>4, <1>5 DEF Next

-----------------------------------------------------------------------------
\* A connection touches its own player only, and marks no other a stray.
LEMMA OwnPlayer ==
  ASSUME TypeOK, NEW u \in Users, Connection(u)
  PROVE  /\ strays \subseteq strays' /\ strays' \subseteq strays \cup {u}
         /\ \A v \in Users \ {u} :
               /\ roomID'[v] = roomID[v] /\ status'[v] = status[v] /\ restore'[v] = restore[v]
               /\ \A r \in RoomIds : seats'[r][v] = seats[r][v]
<1>1. strays \subseteq strays' /\ strays' \subseteq strays \cup {u}
  BY DEF Connection, Login, CreateRoom, JoinRoom, Enter, Leave, Rejoin, Reopen, Seeded, SeatBack,
         NoSeatBack, FieldsBack, history
<1>2. UNCHANGED roomID \/ \E r : roomID' = [roomID EXCEPT ![u] = r]
  BY DEF Connection, Login, CreateRoom, JoinRoom, Enter, Leave, Rejoin, Reopen, Seeded, SeatBack,
         NoSeatBack, FieldsBack, playerVars
<1>3. UNCHANGED status \/ \E s : status' = [status EXCEPT ![u] = s]
  BY DEF Connection, Login, CreateRoom, JoinRoom, Enter, Leave, Rejoin, Reopen, Seeded, SeatBack,
         NoSeatBack, FieldsBack, playerVars
<1>4. UNCHANGED restore \/ \E s : restore' = [restore EXCEPT ![u] = s]
  BY DEF Connection, Login, CreateRoom, JoinRoom, Enter, Leave, Rejoin, Reopen, Seeded, SeatBack,
         NoSeatBack, FieldsBack, Consume
<1>5. UNCHANGED seats \/ \E r, n : seats' = [seats EXCEPT ![r][u] = n]
  BY DEF Connection, Login, CreateRoom, JoinRoom, Enter, Leave, Rejoin, Reopen, Seeded, SeatBack,
         NoSeatBack, FieldsBack, SitDown, roomVars
<1>6. \A v \in Users \ {u} : \A r \in RoomIds : seats'[r][v] = seats[r][v]
  <2>1. ASSUME NEW q, NEW n, seats' = [seats EXCEPT ![q][u] = n], NEW v \in Users \ {u}, NEW r \in RoomIds
        PROVE  seats'[r][v] = seats[r][v]
    <3>1. seats \in [RoomIds -> [Users -> Nat]]
      BY DEF TypeOK
    <3>2. CASE q = r
      BY <2>1, <3>1, <3>2
    <3>3. CASE q # r
      BY <2>1, <3>1, <3>3
    <3> QED BY <3>2, <3>3
  <2> QED BY <1>5, <2>1
<1> QED BY <1>1, <1>2, <1>3, <1>4, <1>6 DEF TypeOK

\* What a connection does leaves the rooms of the others' games as they are.
LEMMA OthersPlayOn ==
  ASSUME PlacedInv, NEW u \in Users, Connection(u), NEW v \in Users \ strays,
         v # u \/ UNCHANGED status, status[v] \in {"gaming", "dead"}
  PROVE  /\ roomID[v] \in rooms' /\ roomStatus'[roomID[v]] = roomStatus[roomID[v]]
         /\ At(roomID[v], "reset") => loop'[roomID[v]] = loop[roomID[v]]
<1> DEFINE r == roomID[v]
<1>0. TypeOK /\ IInv /\ Counted /\ r \in rooms /\ v \in Members(r) /\ r \in RoomIds
  BY DEF PlacedInv, IInv, Placed, GameOf, TypeOK
<1> HIDE DEF r
<1>1. CASE Leave(u)
  <2> DEFINE q == roomID[u]
  <2>1. q \in RoomIds /\ u \in Members(q) /\ UNCHANGED loop
    BY <1>0, <1>1 DEF Leave, TypeOK
  <2>2. playerCount'[q] = playerCount[q] - 1 /\ playerCount[q] \in Int
    BY <1>0, <1>1, <2>1 DEF Leave, TypeOK
  <2>3. q = r => playerCount[q] > 1
    <3>1. v # u
      BY <1>0, <1>1 DEF Leave, TypeOK
    <3> QED BY <1>0, <2>1, <3>1, OthersStay
  <2>4. \/ UNCHANGED <<rooms, roomStatus>>
        \/ /\ ~(playerCount'[q] > 0) /\ rooms' = rooms \ {q}
           /\ roomStatus' = [roomStatus EXCEPT ![q] = "ended"]
    <3>1. CASE playerCount'[q] > 0
      BY <1>1, <3>1 DEF Leave
    <3>2. CASE ~(playerCount'[q] > 0)
      BY <1>1, <3>2 DEF Leave
    <3> QED BY <3>1, <3>2
  <2> HIDE DEF q
  <2> QED BY <1>0, <2>1, <2>2, <2>3, <2>4 DEF TypeOK, r
<1>2. CASE Reopen(u)
  <2>1. r # nextRoomID
    BY <1>0, NumbersTyped DEF IInv, Unborn, TypeOK
  <2> QED BY <1>0, <1>2, <2>1 DEF Reopen, TypeOK, r
<1>3. CASE Seeded(u)
  <2>1. At(r, "reset") => loop'[r] = loop[r]
    BY <1>0, <1>3, SeededRoom DEF At, TypeOK
  <2> QED BY <1>0, <1>3, <2>1 DEF Seeded, roomVars, r
<1>4. CASE UNCHANGED <<roomStatus, loop>> /\ rooms \subseteq rooms'
  BY <1>0, <1>4 DEF r
<1> QED BY <1>1, <1>2, <1>3, <1>4
        DEF Connection, Login, CreateRoom, JoinRoom, Rejoin, SeatBack, NoSeatBack, FieldsBack, roomVars

LEMMA OthersPlaced ==
  ASSUME PlacedInv, NEW u \in Users, Connection(u), NEW v \in Users \ strays, v # u
  PROVE  PlacedAs(v)' /\ GameOf(v)'
<1>0. PlacedAs(v) /\ GameOf(v) /\ TypeOK
  BY DEF PlacedInv, Placed, IInv
<1>1. /\ roomID'[v] = roomID[v] /\ status'[v] = status[v] /\ restore'[v] = restore[v]
      /\ \A r \in RoomIds : seats'[r][v] = seats[r][v]
  BY <1>0, OwnPlayer
<1>2. \A r \in RoomIds : v \in Members(r)' <=> v \in Members(r)
  BY <1>1 DEF Members
<1>3. roomID[v] \in RoomIds \cup {None} /\ (RestoreAt(v, "fields") => restore[v].r \in RoomIds)
  BY <1>0 DEF TypeOK, PlacedInv, IInv, Born, RestoreAt
<1>4. PlacedAs(v)'
  BY <1>0, <1>1, <1>2, <1>3 DEF PlacedAs, RestoreAt
<1>5. GameOf(v)'
  <2> SUFFICES ASSUME status[v] \in {"gaming", "dead"}
               PROVE  /\ roomID'[v] \in rooms' /\ v \in Members(roomID[v])'
                      /\ \/ roomStatus'[roomID[v]] = "gaming"
                         \/ loop'[roomID[v]].pc = "reset" /\ v \in loop'[roomID[v]].todo
                         \/ roomID[v] \in doubled
    BY <1>1, SideLeft DEF GameOf, At, sideVars, doubled
  <2>1. roomID[v] \in RoomIds
    BY <1>0 DEF GameOf, TypeOK
  <2>2. /\ roomID[v] \in rooms' /\ roomStatus'[roomID[v]] = roomStatus[roomID[v]]
        /\ At(roomID[v], "reset") => loop'[roomID[v]] = loop[roomID[v]]
    BY OthersPlayOn
  <2>3. v \in Members(roomID[v])'
    BY <1>0, <1>1, <2>1 DEF GameOf, Members
  <2> QED BY <1>0, <1>1, <2>1, <2>2, <2>3 DEF GameOf, At
<1> QED BY <1>4, <1>5

\* The connection's own player is where he is said to be, unless it marks him a stray.
LEMMA SelfPlaced ==
  ASSUME PlacedInv, NEW u \in Users, Connection(u), u \notin strays'
  PROVE  PlacedAs(u)' /\ GameOf(u)'
<1> USE NumbersTyped
<1>0. PlacedAs(u) /\ GameOf(u) /\ TypeOK /\ IInv /\ u \notin strays
  BY OwnPlayer DEF PlacedInv, Placed, IInv
<1>1. /\ roomID \in [Users -> RoomIds \cup {None}] /\ seats \in [RoomIds -> [Users -> Nat]]
      /\ DOMAIN status = Users /\ DOMAIN restore = Users
      /\ RestoreAt(u, "fields") => restore[u].r \in RoomIds
  BY <1>0 DEF TypeOK, IInv, Born, RestoreAt
<1>7. \A q \in RoomIds :
         /\ seats[q][u] \in {0, 1} /\ (u \in Members(q) <=> seats[q][u] = 1)
         /\ seats[q][u] = 1 => q = roomID[u] \/ (RestoreAt(u, "fields") /\ q = restore[u].r)
  <2> SUFFICES ASSUME NEW q \in RoomIds
               PROVE  /\ seats[q][u] \in {0, 1} /\ (u \in Members(q) <=> seats[q][u] = 1)
                      /\ seats[q][u] = 1 => q = roomID[u] \/ (RestoreAt(u, "fields") /\ q = restore[u].r)
    OBVIOUS
  <2>1. seats[q][u] \in Nat
    BY <1>1
  <2>2. seats[q][u] <= 1
    BY <1>0 DEF PlacedAs
  <2>3. u \in Members(q) <=> seats[q][u] > 0
    BY DEF Members
  <2>4. u \in Members(q) => q = roomID[u] \/ (RestoreAt(u, "fields") /\ q = restore[u].r)
    BY <1>0 DEF PlacedAs
  <2> QED BY <2>1, <2>2, <2>3, <2>4
\* What it takes to be placed after the step.
<1>8. ASSUME NEW r \in RoomIds \cup {None}, \A q \in RoomIds : seats'[q][u] = IF q = r THEN 1 ELSE 0,
             \/ roomID'[u] = r /\ ~RestoreAt(u, "fields")'
             \/ /\ roomID'[u] = None /\ RestoreAt(u, "fields")' /\ restore'[u].r = r /\ r # None
                /\ status'[u] \notin {"in_room", "gaming", "dead"},
             status'[u] \in {"in_room", "gaming", "dead"} => r # None
      PROVE  PlacedAs(u)'
  <2>1. \A q \in RoomIds : u \in Members(q)' <=> q = r
    <3> SUFFICES ASSUME NEW q \in RoomIds PROVE seats'[q][u] > 0 <=> q = r
      BY DEF Members
    <3>1. seats'[q][u] = IF q = r THEN 1 ELSE 0
      BY <1>8
    <3> QED BY <3>1
  <2>2. roomID'[u] # None => u \in Members(roomID[u])'
    <3>1. roomID'[u] # None => roomID'[u] = r /\ r \in RoomIds
      BY <1>8
    <3> QED BY <2>1, <3>1 DEF Members
  <2>3. RestoreAt(u, "fields")' => u \in Members(restore[u].r)'
    <3>1. RestoreAt(u, "fields")' => restore'[u].r = r /\ r \in RoomIds
      BY <1>8
    <3> QED BY <2>1, <3>1 DEF Members
  <2>4. \A q \in RoomIds : seats'[q][u] <= 1
    <3> SUFFICES ASSUME NEW q \in RoomIds PROVE seats'[q][u] <= 1
      OBVIOUS
    <3>1. seats'[q][u] = IF q = r THEN 1 ELSE 0
      BY <1>8
    <3> QED BY <3>1
  <2>5. \A q \in RoomIds : u \in Members(q)' => q = roomID'[u] \/ (RestoreAt(u, "fields")' /\ q = restore'[u].r)
    BY <1>8, <2>1
  <2>6. /\ RestoreAt(u, "fields")' => roomID'[u] = None
        /\ status'[u] \in {"in_room", "gaming", "dead"} => roomID'[u] # None
    BY <1>8
  <2> QED BY <2>2, <2>3, <2>4, <2>5, <2>6, Zenon DEF PlacedAs, RestoreAt
<1>2. CASE (CreateRoom(u) \/ \E r \in RoomIds : JoinRoom(u, r))
  <2>1. PICK r \in RoomIds : Enter(u, r) /\ UNCHANGED restore
    BY <1>0, <1>2 DEF CreateRoom, JoinRoom, TypeOK, RoomIds
  <2>2. ~InAnyRoom(u) /\ restore[u].pc = "none"
    BY <1>0, <2>1 DEF Enter
  <2>3. \A q \in RoomIds : seats[q][u] = 0
    <3> SUFFICES ASSUME NEW q \in RoomIds PROVE seats[q][u] = 0
      OBVIOUS
    <3>1. u \notin Members(q)
      BY <2>2 DEF InAnyRoom
    <3>2. /\ seats[q][u] \in {0, 1} /\ (u \in Members(q) <=> seats[q][u] = 1)
      BY <1>7
    <3> QED BY <3>1, <3>2
  <2>4. \A q \in RoomIds : seats'[q][u] = IF q = r THEN 1 ELSE 0
    BY <1>1, <2>1, <2>3 DEF Enter, SitDown
  <2>5. roomID'[u] = r /\ status'[u] = "in_room" /\ restore'[u].pc = "none"
    BY <1>1, <2>1, <2>2 DEF Enter
  <2>6. PlacedAs(u)'
    BY <1>8, <2>4, <2>5 DEF RestoreAt
  <2> QED BY <2>5, <2>6 DEF GameOf
<1>3. CASE Leave(u)
  <2> DEFINE r == roomID[u]
  <2>1. r \in RoomIds /\ seats' = [seats EXCEPT ![r][u] = @ - 1] /\ UNCHANGED restore
        /\ roomID'[u] = None /\ status'[u] = "lobby"
    BY <1>0, <1>1, <1>3 DEF Leave, TypeOK
  <2>2. ~RestoreAt(u, "fields")
    BY <1>0, <2>1 DEF PlacedAs
  <2>3. \A q \in RoomIds : seats[q][u] = 0 \/ (q = r /\ seats[q][u] = 1)
    BY <1>7, <2>2
  <2>4. seats[r][u] = 1
    <3>1. u \in Members(r)
      BY <1>3 DEF Leave
    <3> QED BY <1>7, <2>1, <3>1
  <2>5. \A q \in RoomIds : seats'[q][u] = 0
    <3>1. seats'[r][u] = 0
      <4>1. seats'[r][u] = seats[r][u] - 1
        BY <1>1, <2>1
      <4> QED BY <2>4, <4>1
    <3>2. \A q \in RoomIds : q # r => seats'[q][u] = seats[q][u]
      BY <1>1, <2>1
    <3> QED BY <2>3, <3>1, <3>2
  <2>6. \A q \in RoomIds : q # None
    OBVIOUS
  <2>7. PlacedAs(u)'
    BY <1>8, <2>1, <2>2, <2>5, <2>6 DEF RestoreAt
  <2> QED BY <2>1, <2>7 DEF GameOf
<1>4. CASE SeatBack(u)
  <2> DEFINE r == restore[u].r
  <2>1. r \in RoomIds /\ ~InAnyRoom(u) /\ UNCHANGED <<roomID, status, rooms, roomStatus, loop>>
        /\ restore' = [restore EXCEPT ![u].pc = "fields"] /\ SitDown(u, r)
    BY <1>0, <1>4 DEF SeatBack, IInv, Born, RestoreAt, playerVars
  <2>2. restore'[u].pc = "fields" /\ restore'[u].r = r
    BY <1>0, <2>1 DEF TypeOK
  <2>3. \A q \in RoomIds : seats[q][u] = 0
    BY <1>7, <2>1 DEF InAnyRoom
  <2>4. \A q \in RoomIds : seats'[q][u] = IF q = r THEN 1 ELSE 0
    BY <1>1, <2>1, <2>3 DEF SitDown
  <2>5. roomID[u] = None
    <3>1. \A q \in RoomIds : u \notin Members(q)
      BY <1>7, <2>3
    <3>2. roomID[u] # None => u \in Members(roomID[u])
      BY <1>0 DEF PlacedAs
    <3> QED BY <1>1, <3>1, <3>2
  <2>6. status[u] \notin {"in_room", "gaming", "dead"}
    BY <1>0, <2>5 DEF PlacedAs
  <2>7. PlacedAs(u)'
    BY <1>8, <2>1, <2>2, <2>4, <2>5, <2>6 DEF RestoreAt
  <2> QED BY <2>1, <2>6, <2>7 DEF GameOf
<1>5. CASE FieldsBack(u)
  <2> DEFINE r == restore[u].r
  <2>1. /\ RestoreAt(u, "fields") /\ roomID'[u] = r /\ status'[u] = "gaming"
        /\ restore'[u].pc = "none" /\ UNCHANGED <<rooms, seats, roomStatus, loop>>
        /\ roomStatus[r] = "gaming"
    BY <1>0, <1>1, <1>5 DEF FieldsBack, roomVars
  <2>2. r \in RoomIds /\ u \in Members(r) /\ roomID[u] = None
    BY <1>0, <1>1, <2>1 DEF PlacedAs
  <2>3. r \in rooms
    BY <2>1, <2>2 DEF PlacedInv, Playing
  <2>4. PlacedAs(u)'
    BY <1>0, <2>1, <2>2 DEF PlacedAs, Members, RestoreAt
  <2>5. GameOf(u)'
    BY <2>1, <2>2, <2>3 DEF GameOf, Members
  <2> QED BY <2>4, <2>5
<1>6. CASE Login(u) \/ Rejoin(u) \/ Reopen(u) \/ Seeded(u) \/ NoSeatBack(u)
  <2>1. /\ UNCHANGED <<roomID, seats>>
        /\ UNCHANGED restore \/ (~RestoreAt(u, "fields") /\ ~RestoreAt(u, "fields")')
    <3>1. CASE Login(u)
      BY <3>1 DEF Login, roomVars
    <3>2. CASE Rejoin(u)
      BY <1>1, <3>2 DEF RestoreAt, Rejoin, Wanted, Consume, playerVars, roomVars
    <3>3. CASE Reopen(u)
      BY <1>1, <3>3 DEF RestoreAt, Reopen, Wanted, playerVars
    <3>4. CASE Seeded(u)
      BY <1>1, <3>4 DEF RestoreAt, Seeded, Consume, playerVars, roomVars
    <3>5. CASE NoSeatBack(u)
      BY <1>1, <3>5 DEF RestoreAt, NoSeatBack, playerVars, roomVars
    <3> QED BY <1>6, <3>1, <3>2, <3>3, <3>4, <3>5
  <2>2. status'[u] = status[u] \/ status'[u] = "lobby"
    BY <1>1, <1>6 DEF Login, Rejoin, Reopen, Seeded, NoSeatBack, playerVars
  <2>3. PlacedAs(u)'
    <3>1. \A q \in RoomIds : seats'[q] = seats[q]
      BY <2>1
    <3> QED BY <1>0, <2>1, <2>2, <3>1 DEF PlacedAs, Members, RestoreAt
  <2>4. GameOf(u)'
    <3> SUFFICES ASSUME status'[u] \in {"gaming", "dead"} PROVE  GameOf(u)'
      BY DEF GameOf
    <3>0. status[u] \in {"gaming", "dead"} /\ UNCHANGED status
      BY <1>1, <1>6, <2>2 DEF Login, Rejoin, Reopen, Seeded, NoSeatBack, playerVars
    <3>1. /\ roomID[u] \in rooms' /\ roomStatus'[roomID[u]] = roomStatus[roomID[u]]
          /\ At(roomID[u], "reset") => loop'[roomID[u]] = loop[roomID[u]]
      BY <1>0, <3>0, OthersPlayOn
    <3>2. doubled' = doubled
      BY SideLeft DEF sideVars, doubled
    <3> QED BY <1>0, <2>1, <3>0, <3>1, <3>2 DEF GameOf, At, Members
  <2> QED BY <2>3, <2>4
<1> QED BY <1>2, <1>3, <1>4, <1>5, <1>6 DEF Connection

LEMMA PlacedKeptByConnections == ASSUME PlacedInv, NEW u \in Users, Connection(u) PROVE Placed'
<1> SUFFICES ASSUME NEW v \in Users \ strays' PROVE PlacedAs(v)' /\ GameOf(v)'
  BY DEF Placed
<1>1. CASE v = u
  BY <1>1, SelfPlaced
<1>2. CASE v # u
  <2>1. v \in Users \ strays
    BY OwnPlayer DEF PlacedInv, IInv
  <2> QED BY <1>2, <2>1, OthersPlaced
<1> QED BY <1>1, <1>2

\* A step of a game loop, or a death, that leaves the status of everybody alone.
LEMMA PlayersLeftAlone ==
  ASSUME PlacedInv, NEW r \in RoomIds, GameLoop(r), NEW v \in Users \ strays,
         UNCHANGED <<roomID, seats, restore>>,
         status'[v] = status[v] \/ (status[v] = "gaming" /\ status'[v] = "dead"),
         roomID[v] = r /\ status[v] \in {"gaming", "dead"} =>
            \/ roomStatus'[r] = "gaming"
            \/ loop'[r].pc = "reset" /\ v \in loop'[r].todo
            \/ r \in doubled
  PROVE  PlacedAs(v)' /\ GameOf(v)'
<1>0. PlacedAs(v) /\ GameOf(v) /\ TypeOK
  BY DEF PlacedInv, Placed, IInv
<1>1. \A q : v \in Members(q)' <=> v \in Members(q)
  BY DEF Members
<1>2. PlacedAs(v)'
  BY <1>0, <1>1 DEF PlacedAs, Members, RestoreAt
<1>3. GameOf(v)'
  <2> SUFFICES ASSUME status[v] \in {"gaming", "dead"}
               PROVE  /\ roomID[v] \in rooms' /\ v \in Members(roomID[v])'
                      /\ \/ roomStatus'[roomID[v]] = "gaming"
                         \/ loop'[roomID[v]].pc = "reset" /\ v \in loop'[roomID[v]].todo
                         \/ roomID[v] \in doubled
    BY LoopLeaves DEF GameOf, At, doubled
  <2>1. roomID[v] \in RoomIds /\ v \in Members(roomID[v])' /\ rooms' = rooms
    BY <1>0, <1>1, LoopFrame DEF GameOf, TypeOK, Members
  <2>2. CASE roomID[v] = r
    BY <1>0, <2>1, <2>2 DEF GameOf
  <2>3. CASE roomID[v] # r
    <3>1. loop'[roomID[v]] = loop[roomID[v]] /\ roomStatus'[roomID[v]] = roomStatus[roomID[v]]
      BY <1>0, <2>1, <2>3, LoopFrame
    <3> QED BY <1>0, <2>1, <3>1 DEF GameOf, At
  <2> QED BY <2>2, <2>3
<1> QED BY <1>2, <1>3

LEMMA PlacedKeptByLoops == ASSUME PlacedInv, NEW r \in RoomIds, GameLoop(r) PROVE Placed'
<1> USE NumbersTyped
<1>1. /\ UNCHANGED <<roomID, seats, restore>> /\ strays \subseteq strays'
  <2>1. strays \subseteq strays'
    BY ZenonT(60) DEF GameLoop, StartGame, LogPlayer, LogDone, Die, Tick, Snapshot, NoSnapshot, Collect,
         Truncate, Rewrite, SnapshotDone, CheckEnd, EndGame, ResetPlayer, CloseGame, history
  <2> QED BY <2>1, LoopLeaves
<1> SUFFICES ASSUME NEW v \in Users \ strays' PROVE PlacedAs(v)' /\ GameOf(v)'
  BY DEF Placed
<1>0. /\ v \in Users \ strays /\ PlacedAs(v) /\ GameOf(v) /\ TypeOK /\ loop[r] \in LoopType
      /\ At(r, "reset") => roomStatus[r] # "gaming"
  BY <1>1 DEF PlacedInv, Placed, IInv, TypeOK, Playing
\* Who is in the game of r: it plays, or he is still to be reset, or it has other loops.
<1>2. ASSUME roomID[v] = r, status[v] \in {"gaming", "dead"}
      PROVE  /\ v \in Members(r)
             /\ roomStatus[r] = "gaming" \/ (At(r, "reset") /\ v \in loop[r].todo) \/ r \in doubled
  BY <1>0, <1>2 DEF GameOf
<1>3. CASE StartGame(r)
  <2>1. r \in rooms /\ roomStatus'[r] = "gaming"
    BY <1>0, <1>3 DEF StartGame, TypeOK
  <2>2. CASE v \in Members(r)
    <3>1. status[v] = "in_room" /\ status'[v] = "gaming"
      BY <1>3, <2>2 DEF StartGame
    <3>2. roomID[v] = r /\ ~RestoreAt(v, "fields")
      BY <1>0, <2>2, <3>1 DEF PlacedAs
    <3>3. PlacedAs(v)'
      BY <1>0, <1>1, <3>2 DEF PlacedAs, Members, RestoreAt
    <3>4. rooms' = rooms
      BY <1>0, LoopFrame
    <3>5. GameOf(v)'
      BY <1>1, <2>1, <2>2, <3>2, <3>4 DEF GameOf, Members
    <3> QED BY <3>3, <3>5
  <2>3. CASE v \notin Members(r)
    <3>1. status'[v] = status[v]
      BY <1>3, <2>3 DEF StartGame
    <3> QED BY <1>0, <1>1, <2>1, <3>1, PlayersLeftAlone
  <2> QED BY <2>2, <2>3
<1>4. ASSUME NEW u \in Users, ResetPlayer(r, u) PROVE PlacedAs(v)' /\ GameOf(v)'
  <2>1. /\ loop'[r].todo = loop[r].todo \ {u} /\ loop'[r].pc = loop[r].pc /\ UNCHANGED roomStatus
    BY <1>0, <1>4 DEF ResetPlayer, LoopType, TypeOK, roomVars
  <2>2. CASE v = u
    <3>1. roomID[v] # None /\ status'[v] = "in_room"
      BY <1>0, <1>4, <2>2 DEF ResetPlayer, TypeOK
    <3> QED BY <1>0, <1>1, <3>1 DEF PlacedAs, GameOf, Members, RestoreAt
  <2>3. CASE v # u
    <3>1. status'[v] = status[v]
      BY <1>0, <1>4, <2>3 DEF ResetPlayer, TypeOK
    <3> QED BY <1>0, <1>1, <1>2, <2>1, <2>3, <3>1, PlayersLeftAlone DEF At
  <2> QED BY <2>2, <2>3
<1>5. CASE EndGame(r)
  <2>1. UNCHANGED status /\ At(r, "end")
    BY <1>5 DEF EndGame, playerVars
  <2>2. loop'[r].pc = "reset" /\ loop'[r].todo = Members(r)
    BY <1>0, <1>5 DEF EndGame, With, NoLoop, TypeOK
  <2> QED BY <1>0, <1>1, <1>2, <2>1, <2>2, PlayersLeftAlone
<1>6. CASE CloseGame(r)
  <2>1. UNCHANGED status /\ At(r, "reset") /\ loop[r].todo = {}
    BY <1>6 DEF CloseGame, playerVars
  <2> QED BY <1>0, <1>1, <1>2, <2>1, PlayersLeftAlone
<1>7. ASSUME NEW u \in Users, Die(u, r) PROVE PlacedAs(v)' /\ GameOf(v)'
  <2>1. UNCHANGED <<loop, roomStatus>>
    BY <1>7 DEF Die, roomVars
  <2>2. status'[v] = status[v] \/ (status[v] = "gaming" /\ status'[v] = "dead")
    BY <1>0, <1>7 DEF Die, TypeOK
  <2> QED BY <1>0, <1>1, <1>2, <2>1, <2>2, PlayersLeftAlone DEF At
<1>8. CASE \/ LogDone(r) \/ Tick(r) \/ Snapshot(r) \/ NoSnapshot(r) \/ Truncate(r) \/ SnapshotDone(r)
           \/ CheckEnd(r) \/ \E u \in Users : LogPlayer(r, u) \/ Collect(r, u) \/ Rewrite(r, u)
  <2>1. UNCHANGED <<status, roomStatus>> /\ ~At(r, "reset")
    BY <1>8, ZenonT(60) DEF LogDone, Tick, Snapshot, NoSnapshot, Truncate, SnapshotDone, CheckEnd, LogPlayer, Collect,
                Rewrite, At, playerVars, roomVars
  <2> QED BY <1>0, <1>1, <1>2, <2>1, PlayersLeftAlone
<1> QED BY <1>3, <1>4, <1>5, <1>6, <1>7, <1>8 DEF GameLoop

\* A potion moves nobody, and the loops of a refused start reset whoever they collected.
LEMMA PlacedKeptBySides ==
  ASSUME PlacedInv, (\E u \in Users : Potion(u)) \/ (\E r \in RoomIds : ExtraLoops(r))
  PROVE  Placed'
<1>0. TypeOK
  BY DEF PlacedInv, IInv
<1>1. ASSUME NEW u \in Users, Potion(u) PROVE Placed'
  <2>1. UNCHANGED <<strays, status, roomID, rooms, seats, restore, roomStatus, loop>> /\ doubled' = doubled
    BY <1>1, PotionFrame DEF roomVars, history, doubled
  <2> QED BY <2>1 DEF PlacedInv, Placed, PlacedAs, GameOf, Members, RestoreAt, At
<1>2. ASSUME NEW r \in RoomIds, ExtraLoops(r) PROVE Placed'
  <2>1. UNCHANGED <<roomID, rooms, seats, restore>>
    BY <1>2, ExtraFrame
  <2>2. /\ UNCHANGED strays /\ UNCHANGED status
        \/ \E u \in Users : /\ status' = [status EXCEPT ![u] = "in_room"]
                            /\ strays' = IF roomID[u] # r THEN strays \cup {u} ELSE strays
    BY <1>2 DEF ExtraLoops, RefusedStart, LoopStops, ExtraSnapshot, ExtraEnd, ExtraReset, ExtraClose,
                playerVars, history
  <2>3. /\ r \in doubled' /\ doubled \subseteq doubled'
        /\ \A s \in RoomIds \ {r} : loop'[s] = loop[s] /\ roomStatus'[s] = roomStatus[s]
    <3>1. CASE RefusedStart(r)
      <4>1. /\ UNCHANGED <<loop, roomStatus>> /\ r \in doubled'
            /\ \A s \in RoomIds \ {r} : extra'[s] = extra[s]
        BY <1>0, <3>1, RefusedMoves
      <4> QED BY <4>1 DEF doubled
    <3>2. CASE ~RefusedStart(r)
      BY <1>0, <1>2, <3>2, ExtraMoves
    <3> QED BY <3>1, <3>2
  <2> SUFFICES ASSUME NEW v \in Users \ strays' PROVE PlacedAs(v)' /\ GameOf(v)'
    BY DEF Placed
  <2>4. v \in Users \ strays /\ PlacedAs(v) /\ GameOf(v)
    BY <2>2 DEF PlacedInv, Placed
  <2>5. \/ status'[v] = status[v]
        \/ status'[v] = "in_room" /\ roomID[v] = r
    BY <1>0, <2>2 DEF TypeOK
  <2>6. PlacedAs(v)'
    <3>1. status'[v] \in {"in_room", "gaming", "dead"} => roomID[v] # None
      BY <2>4, <2>5, NumbersTyped DEF PlacedAs
    <3> QED BY <2>1, <2>4, <3>1 DEF PlacedAs, Members, RestoreAt
  <2>7. GameOf(v)'
    <3> SUFFICES ASSUME status[v] \in {"gaming", "dead"}
                 PROVE  /\ roomID[v] \in rooms /\ v \in Members(roomID[v])'
                        /\ \/ roomStatus'[roomID[v]] = "gaming"
                           \/ At(roomID[v], "reset")' /\ v \in loop'[roomID[v]].todo
                           \/ roomID[v] \in doubled'
      BY <2>1, <2>5 DEF GameOf, At
    <3>1. roomID[v] \in RoomIds
      BY <1>0, <2>4 DEF GameOf, TypeOK
    <3> QED BY <2>1, <2>3, <2>4, <3>1 DEF GameOf, At, Members
  <2> QED BY <2>6, <2>7
<1> QED BY <1>1, <1>2

LEMMA PlacedInvKept == PlacedInv /\ [Next]_vars => PlacedInv'
<1> SUFFICES ASSUME PlacedInv, [Next]_vars PROVE PlacedInv'
  OBVIOUS
<1>1. IInv' /\ TypeOK /\ Unborn /\ Born /\ Counted /\ Playing
  BY IInvKept DEF PlacedInv, IInv
<1>2. CASE Next
  <2>1. Counted' /\ Playing'
    BY <1>1, <1>2, CountedKept, PlayingKept
  <2>2. Placed'
    <3>1. CASE Restart
      BY <3>1 DEF Restart, Placed, PlacedAs, GameOf, Members, RestoreAt
    <3> QED BY <1>2, <3>1, PlacedKeptByConnections, PlacedKeptByLoops, PlacedKeptBySides DEF Next
  <2> QED BY <1>1, <2>1, <2>2 DEF PlacedInv
<1>3. CASE UNCHANGED vars
  <2>1. Counted' /\ Playing'
    BY <1>1, <1>3 DEF Counted, Taken, Playing, At, vars, roomVars
  <2>2. Placed'
    BY <1>3 DEF PlacedInv, Placed, PlacedAs, GameOf, Members, RestoreAt, At, vars, playerVars, roomVars, history,
                 sideVars, doubled
  <2> QED BY <1>1, <2>1, <2>2 DEF PlacedInv
<1> QED BY <1>2, <1>3

LEMMA PlacedInvInit == Init => PlacedInv
<1> SUFFICES ASSUME Init PROVE PlacedInv
  OBVIOUS
<1>1. \A r \in RoomIds : Taken(r) = {} /\ playerCount[r] = 0
  BY DEF Init, Taken
<1>2. Counted
  BY <1>1, FS_EmptySet DEF Counted
<1>3. Playing /\ Placed
  BY DEF Init, Playing, Placed, PlacedAs, GameOf, Members, RestoreAt
<1> QED BY <1>2, <1>3, IInvInit DEF PlacedInv

\* Who is in a game sits in a room whose game is on or just ending, whoever else comes,
\* goes, or is put back into whatever game, and however many games there are, unless the
\* room has had a refused start: of what happens to a game here only that and the late
\* returns strand a player (recovery.go:196-236).  That joining, leaving and starting are
\* one step each is this module's abstraction: GoLobby has the races between their halves.
THEOREM EveryGamerHasAGame == Spec => []GamersHaveAGame
<1>1. PlacedInv => GamersHaveAGame
  BY DEF PlacedInv, Placed, GameOf, GamersHaveAGame
<1> QED BY <1>1, PlacedInvInit, PlacedInvKept, PTL DEF Spec

-----------------------------------------------------------------------------
(***************************************************************************)
(* What the log of a game says of its players.                             *)
(***************************************************************************)
\* Ids of today are given once; who fights has hit points, who is dead has none unless
\* he died with a potion in his hands.
Numbered ==
    /\ \A u \in Users : id[u] < nextPlayerID /\ (status[u] # "off" => id[u] # None)
    /\ \A u, v \in Users : id[u] = id[v] /\ id[u] # None => u = v
    /\ \A u \in Users : status[u] = "gaming" => hp[u] = 1
    /\ \A u \in Users \ revived : status[u] = "dead" => hp[u] = 0 /\ potion[u].pc = "none"
\* Who has not logged in sits nowhere, and nobody is to reset him.
Outside ==
    \A u \in Users : status[u] = "off" =>
        /\ roomID[u] = None /\ restore[u].pc = "none"
        /\ \A r \in RoomIds :
              u \notin Members(r) /\ (At(r, "reset") => u \notin loop[r].todo) /\ u \notin extra[r].todo

\* Nobody else is led to a room before its log is seeded.
SeededAlone ==
    /\ \A o \in RoomIds : recRoomByOrig[o] # None => recRoomByOrig[o] < nextRoomID
    /\ \A u \in Users : RestoreAt(u, "seed") =>
        /\ \A v \in Users \ {u} : restore[v].pc # "none" => restore[v].r # restore[u].r
        /\ Members(restore[u].r) = {} /\ roomStatus[restore[u].r] = "gaming"

\* The game of a room is on, and its log is its own.
Kept(r) == r \in rooms \ doubled /\ roomStatus[r] = "gaming" /\ wal[r] = "open" /\ seedings[File(r)] <= 1

Lives(u) == status[u] = "gaming" /\ hp[u] > 0
IsDead(u) == status[u] = "dead" /\ u \notin revived
InLog(u, f) == u \in logged[f].alive /\ logged[f].ids[u] = id[u]
\* Only he himself could be healed back.
DeadInLog(u, f) == u \notin logged[f].alive /\ (u \in logged[f].hollow => logged[f].ids[u] = id[u])
QuietPCs == {"top", "tick", "collect", "judge", "end"}
WritingPCs == {"log", "rewrite"}

\* The living are in it, under their ids of today, and the dead are not, but for those
\* who are still to be written.
TellsOf(r, u) ==
    /\ Lives(u) =>
        /\ loop[r].pc \in QuietPCs => InLog(u, File(r)) /\ u \in disk[File(r)].alive
        /\ loop[r].pc \in WritingPCs => u \in loop[r].todo \/ InLog(u, File(r))
    /\ IsDead(u) =>
        /\ loop[r].pc \in QuietPCs => DeadInLog(u, File(r))
        /\ loop[r].pc \in WritingPCs => u \in loop[r].todo \/ DeadInLog(u, File(r))
\* A snapshot passes over nobody who was there when it began.
Collected(r, u) == At(r, "collect") /\ status[u] \in {"gaming", "dead"} => u \in loop[r].todo \cup loop[r].seen
Tells(r) ==
    /\ File(r) \in files
    /\ \A u \in Members(r) \ (strays \cup absent) : (u \notin missed => TellsOf(r, u)) /\ Collected(r, u)
LogsTell == \A r \in RoomIds : Kept(r) => Tells(r)

KeptInv == PlacedInv /\ Outside /\ Numbered /\ SeededAlone /\ LogsTell

-----------------------------------------------------------------------------
LEMMA NumberedKept == TypeOK /\ Outside /\ Numbered /\ Next => Numbered'
<1> SUFFICES ASSUME TypeOK, Outside, Numbered, Next PROVE Numbered'
  OBVIOUS
<1>0. /\ id \in [Users -> Nat] /\ nextPlayerID \in Nat /\ DOMAIN status = Users /\ DOMAIN hp = Users
      /\ None = 0
  BY DEF TypeOK, None
<1>1. CASE Restart
  BY <1>1 DEF Restart, Numbered, None
<1>2. ASSUME NEW u \in Users, Login(u) PROVE Numbered'
  <2>1. /\ id' = [id EXCEPT ![u] = nextPlayerID] /\ nextPlayerID' = nextPlayerID + 1 /\ hp' = hp
        /\ status' = [status EXCEPT ![u] = "lobby"]
    BY <1>2 DEF Login
  <2>2. nextPlayerID # None
    <3>1. id[u] < nextPlayerID /\ id[u] \in Nat
      BY <1>0 DEF Numbered
    <3> QED BY <1>0, <3>1
  <2>3. \A v \in Users : v # u => id'[v] = id[v] /\ id[v] < nextPlayerID /\ id[v] \in Nat
    BY <1>0, <2>1 DEF Numbered
  <2>4. id'[u] = nextPlayerID
    BY <1>0, <2>1
  <2>5. \A v \in Users : id'[v] < nextPlayerID' /\ (status'[v] # "off" => id'[v] # None)
    <3> SUFFICES ASSUME NEW v \in Users
                 PROVE  id'[v] < nextPlayerID' /\ (status'[v] # "off" => id'[v] # None)
      OBVIOUS
    <3>1. CASE v = u
      BY <1>0, <2>1, <2>2, <2>4, <3>1
    <3>2. CASE v # u
      BY <1>0, <2>1, <2>3, <3>2 DEF Numbered
    <3> QED BY <3>1, <3>2
  <2>6. \A v, w \in Users : id'[v] = id'[w] /\ id'[v] # None => v = w
    <3> SUFFICES ASSUME NEW v \in Users, NEW w \in Users, id'[v] = id'[w], id'[v] # None PROVE v = w
      OBVIOUS
    <3>1. CASE v # u /\ w # u
      BY <2>3, <3>1 DEF Numbered
    <3>2. CASE v = u /\ w # u
      BY <1>0, <2>3, <2>4, <3>2
    <3>3. CASE v # u /\ w = u
      BY <1>0, <2>3, <2>4, <3>3
    <3> QED BY <3>1, <3>2, <3>3
  <2>7. /\ UNCHANGED <<potion, revived>>
        /\ \A v \in Users : /\ status'[v] = "dead" => status[v] = "dead"
                            /\ status'[v] = "gaming" => status[v] = "gaming"
    BY <1>0, <1>2, <2>1 DEF Login, sideVars
  <2> QED BY <2>1, <2>5, <2>6, <2>7 DEF Numbered
<1>3. ASSUME UNCHANGED <<id, nextPlayerID>>,
             \A v \in Users : /\ status'[v] # "off" => status[v] # "off"
                              /\ status'[v] = "gaming" => hp'[v] = 1
                              /\ status'[v] = "dead" /\ v \notin revived' =>
                                    hp'[v] = 0 /\ potion'[v].pc = "none"
      PROVE  Numbered'
  BY <1>3 DEF Numbered
<1>4. ASSUME NEW u \in Users, Connection(u), ~Login(u) PROVE Numbered'
  <2>0. UNCHANGED <<potion, revived>>
    BY <1>4, SideLeft DEF sideVars
  <2>1. CASE UNCHANGED <<playerVars, nextPlayerID>>
    BY <2>0, <2>1 DEF Numbered, playerVars
  <2>2. CASE Leave(u) \/ FieldsBack(u) \/ CreateRoom(u) \/ \E r \in RoomIds : JoinRoom(u, r)
    <3>1. UNCHANGED <<id, nextPlayerID>> /\ status[u] # "off"
      <4>1. CASE Leave(u)
        BY <1>0, <4>1 DEF Leave, Outside, idVars, TypeOK
      <4>2. CASE FieldsBack(u)
        BY <4>2 DEF FieldsBack, Outside, RestoreAt, idVars
      <4>3. CASE CreateRoom(u) \/ \E r \in RoomIds : JoinRoom(u, r)
        BY <4>3 DEF CreateRoom, JoinRoom, idVars
      <4> QED BY <2>2, <4>1, <4>2, <4>3
    <3>2. \/ \E s \in {"lobby", "in_room"} : status' = [status EXCEPT ![u] = s] /\ hp' = hp
          \/ status' = [status EXCEPT ![u] = "gaming"] /\ hp' = [hp EXCEPT ![u] = 1]
      BY <2>2 DEF Leave, FieldsBack, CreateRoom, JoinRoom, Enter
    <3>3. ASSUME NEW v \in Users
          PROVE  \/ status'[v] \in {"lobby", "in_room"} /\ v = u
                 \/ status'[v] = "gaming" /\ hp'[v] = 1 /\ v = u
                 \/ status'[v] = status[v] /\ hp'[v] = hp[v]
      BY <1>0, <3>2
    <3> QED BY <1>3, <2>0, <3>1, <3>3 DEF Numbered
  <2> QED BY <1>4, <2>0, <2>1, <2>2
          DEF Connection, Rejoin, Reopen, Seeded, SeatBack, NoSeatBack, idVars
<1>5. ASSUME NEW r \in RoomIds, GameLoop(r) PROVE Numbered'
  <2>1. CASE StartGame(r)
    <3>1. UNCHANGED <<id, nextPlayerID, potion>> /\ revived' = revived \ Members(r)
      BY <2>1 DEF StartGame, idVars
    <3>2. \A v \in Users : IF v \in Members(r)
            THEN status'[v] = "gaming" /\ hp'[v] = 1 /\ status[v] = "in_room"
            ELSE status'[v] = status[v] /\ hp'[v] = hp[v]
      BY <2>1 DEF StartGame
    <3>3. \A v \in Users : v \notin Members(r) => (v \in revived' <=> v \in revived)
      BY <3>1
    <3> QED BY <1>3, <3>1, <3>2, <3>3 DEF Numbered
  <2>2. ASSUME NEW u \in Users, ResetPlayer(r, u) \/ Die(u, r) PROVE Numbered'
    <3>1. UNCHANGED <<id, nextPlayerID, potion>> /\ status[u] # "off"
      BY <2>2 DEF ResetPlayer, Die, idVars, Outside, sideVars
    <3>2. \/ /\ status' = [status EXCEPT ![u] = "in_room"] /\ hp' = [hp EXCEPT ![u] = 1]
             /\ UNCHANGED revived
          \/ /\ status' = [status EXCEPT ![u] = "dead"] /\ hp' = [hp EXCEPT ![u] = 0]
             /\ revived' = IF potion[u].pc = "none" THEN revived ELSE revived \cup {u}
      BY <2>2 DEF ResetPlayer, Die, sideVars
    <3>3. ASSUME NEW v \in Users
          PROVE  \/ v = u /\ status'[v] = "in_room"
                 \/ v = u /\ status'[v] = "dead" /\ hp'[v] = 0 /\ (v \in revived' \/ potion[v].pc = "none")
                 \/ /\ status'[v] = status[v] /\ hp'[v] = hp[v]
                    /\ v \in revived => v \in revived'
      BY <1>0, <3>2
    <3> QED BY <1>3, <3>1, <3>3 DEF Numbered
  <2>3. CASE UNCHANGED <<playerVars, idVars, sideVars>>
    BY <2>3 DEF playerVars, idVars, sideVars, Numbered
  <2> QED BY <1>5, <2>1, <2>2, <2>3, Zenon
          DEF GameLoop, LogPlayer, LogDone, Tick, Snapshot, NoSnapshot, Collect, Truncate, Rewrite,
              SnapshotDone, CheckEnd, EndGame, CloseGame
<1>6. ASSUME NEW u \in Users, Potion(u) PROVE Numbered'
  <2>1. UNCHANGED <<status, id, nextPlayerID, revived>>
    BY <1>6, PotionFrame DEF idVars
  <2>2. \A v \in Users \ {u} : hp'[v] = hp[v] /\ potion'[v] = potion[v]
    BY <1>6 DEF Potion, Drink, Heal, LogPotion, playerVars, TypeOK
  <2>3. status[u] = "gaming" => hp'[u] = 1
    <3>1. hp' = hp \/ hp' = [hp EXCEPT ![u] = 1]
      BY <1>6 DEF Potion, Drink, Heal, LogPotion, playerVars
    <3> QED BY <1>0, <3>1 DEF Numbered
  <2>4. status[u] = "dead" => potion[u].pc # "none"
    BY <1>6 DEF Potion, Drink, Heal, LogPotion
  <2> QED BY <1>3, <2>1, <2>2, <2>3, <2>4 DEF Numbered
<1>7. ASSUME NEW r \in RoomIds, ExtraLoops(r) PROVE Numbered'
  <2>1. UNCHANGED <<id, nextPlayerID, potion, revived>>
    BY <1>7, ExtraFrame DEF idVars
  <2>2. CASE UNCHANGED <<status, hp>>
    BY <2>1, <2>2 DEF Numbered
  <2>3. ASSUME NEW u \in Users, ExtraReset(r, u) PROVE Numbered'
    <3>1. /\ status[u] # "off"
          /\ status' = [status EXCEPT ![u] = "in_room"] /\ hp' = [hp EXCEPT ![u] = 1]
      BY <2>3 DEF ExtraReset, Outside
    <3>2. /\ status'[u] = "in_room"
          /\ \A v \in Users \ {u} : status'[v] = status[v] /\ hp'[v] = hp[v]
      BY <1>0, <3>1
    <3> QED BY <1>3, <2>1, <3>1, <3>2 DEF Numbered
  <2> QED BY <1>7, <2>2, <2>3
          DEF ExtraLoops, RefusedStart, LoopStops, ExtraSnapshot, ExtraEnd, ExtraClose, playerVars
<1> QED BY <1>1, <1>2, <1>4, <1>5, <1>6, <1>7 DEF Next

LEMMA OutsideKept == TypeOK /\ Born /\ Outside /\ Next => Outside'
<1> SUFFICES ASSUME TypeOK, Born, Outside, Next PROVE Outside'
  OBVIOUS
<1>1. CASE Restart
  BY <1>1 DEF Restart, Outside, Members, At, NoLoop, NoExtra
<1>2. ASSUME NEW u \in Users, Connection(u) PROVE Outside'
  <2> SUFFICES ASSUME NEW v \in Users, status'[v] = "off"
               PROVE  /\ roomID'[v] = None /\ restore'[v].pc = "none"
                      /\ \A r \in RoomIds : /\ ~(seats'[r][v] > 0)
                                            /\ loop'[r].pc = "reset" => v \notin loop'[r].todo
                                            /\ v \notin extra'[r].todo
    BY Zenon DEF Outside, Members, At
  <2>1. v # u => status[v] = "off" /\ roomID'[v] = roomID[v] /\ restore'[v] = restore[v]
                 /\ \A r \in RoomIds : seats'[r][v] = seats[r][v]
    BY <1>2, OwnPlayer
  <2>2. v = u => status[v] = "off" /\ UNCHANGED <<roomID, seats, restore>>
    <3> SUFFICES ASSUME v = u PROVE status[v] = "off" /\ UNCHANGED <<roomID, seats, restore>>
      OBVIOUS
    <3>1. ~Login(u) /\ ~CreateRoom(u) /\ ~Leave(u) /\ ~FieldsBack(u) /\ ~(\E r \in RoomIds : JoinRoom(u, r))
      BY DEF Login, CreateRoom, Leave, FieldsBack, JoinRoom, Enter, TypeOK
    <3>2. CASE Rejoin(u) \/ Reopen(u)
      BY <3>2 DEF Rejoin, Reopen, Wanted, playerVars
    <3>3. CASE Seeded(u) \/ SeatBack(u) \/ NoSeatBack(u)
      BY <3>3 DEF Seeded, SeatBack, NoSeatBack, playerVars, RestoreAt, Outside
    <3> QED BY <1>2, <3>1, <3>2, <3>3 DEF Connection
  <2>3. status[v] = "off"
    BY <2>1, <2>2
  <2>4. /\ roomID[v] = None /\ restore[v].pc = "none"
        /\ \A r \in RoomIds : /\ ~(seats[r][v] > 0) /\ (loop[r].pc = "reset" => v \notin loop[r].todo)
                              /\ v \notin extra[r].todo
    BY <2>3 DEF Outside, Members, At, TypeOK
  <2>5. \A r \in RoomIds : loop'[r].pc = "reset" => loop'[r] = loop[r]
    <3>1. CASE UNCHANGED loop
      BY <3>1
    <3>2. CASE Seeded(u)
      BY <3>2 DEF Seeded, With, TypeOK
    <3> QED BY <1>2, <3>1, <3>2
            DEF Connection, Login, CreateRoom, Leave, JoinRoom, Rejoin, Reopen, SeatBack, NoSeatBack, FieldsBack
  <2>6. UNCHANGED extra
    BY <1>2, SideLeft DEF sideVars
  <2> QED BY <2>1, <2>2, <2>4, <2>5, <2>6
<1>3. ASSUME NEW r \in RoomIds, GameLoop(r) PROVE Outside'
  <2>1. UNCHANGED <<roomID, seats, restore, extra>> /\ \A v \in Users : status'[v] = "off" => status[v] = "off"
    <3>1. UNCHANGED <<roomID, seats, restore, extra>>
      BY <1>3, LoopLeaves
    <3>2. CASE StartGame(r)
      BY <3>1, <3>2 DEF StartGame
    <3>3. CASE UNCHANGED status \/ \E u \in Users, s \in {"in_room", "dead"} : status' = [status EXCEPT ![u] = s]
      BY <3>1, <3>3 DEF TypeOK
    <3> QED BY <1>3, <3>2, <3>3, Zenon
            DEF GameLoop, LogPlayer, LogDone, Die, Tick, Snapshot, NoSnapshot, Collect, Truncate,
                Rewrite, SnapshotDone, CheckEnd, EndGame, ResetPlayer, CloseGame, playerVars
  <2>2. \A s \in RoomIds \ {r} : loop'[s] = loop[s]
    BY <1>3, LoopFrame
  <2>3. loop'[r].pc = "reset" => loop'[r].todo = Members(r) \/ (loop[r].pc = "reset" /\ loop'[r].todo \subseteq loop[r].todo)
    <3> SUFFICES ASSUME loop'[r].pc = "reset"
                 PROVE  loop'[r].todo = Members(r) \/ (loop[r].pc = "reset" /\ loop'[r].todo \subseteq loop[r].todo)
      OBVIOUS
    <3>0. loop[r] \in LoopType /\ DOMAIN loop = RoomIds
      BY DEF TypeOK
    <3>1. \A pc, todo : With(r, pc, todo) => pc = "reset" /\ loop'[r].todo = todo
      BY <3>0 DEF With, NoLoop
    <3>2. \A pc : Goto(r, pc) => pc = "reset"
      BY <3>0 DEF Goto, LoopType
    <3>3. ~StartGame(r) /\ ~Snapshot(r) /\ ~SnapshotDone(r) /\ ~CloseGame(r)
      BY <3>1 DEF StartGame, Snapshot, SnapshotDone, CloseGame
    <3>4. ~LogDone(r) /\ ~Tick(r) /\ ~NoSnapshot(r) /\ ~CheckEnd(r)
      BY <3>2 DEF LogDone, Tick, NoSnapshot, CheckEnd, Verdict
    <3>5. ~Truncate(r)
      BY <3>0 DEF Truncate, LoopType
    <3>6. CASE EndGame(r)
      BY <3>1, <3>6 DEF EndGame
    <3>7. ASSUME NEW u \in Users, LogPlayer(r, u) \/ Collect(r, u) \/ Rewrite(r, u) \/ ResetPlayer(r, u) \/ Die(u, r)
          PROVE  loop[r].pc = "reset" /\ loop'[r].todo \subseteq loop[r].todo
      BY <3>0, <3>7 DEF LogPlayer, Collect, Rewrite, ResetPlayer, Die, LoopType
    <3> QED BY <1>3, <3>3, <3>4, <3>5, <3>6, <3>7 DEF GameLoop
  <2> QED BY <2>1, <2>2, <2>3 DEF Outside, Members, At
<1>4. ASSUME NEW u \in Users, Potion(u) PROVE Outside'
  BY <1>4, PotionFrame DEF Outside, Members, At, roomVars
<1>5. ASSUME NEW r \in RoomIds, ExtraLoops(r) PROVE Outside'
  <2>1. UNCHANGED <<roomID, seats, restore>>
    BY <1>5, ExtraFrame
  <2>2. UNCHANGED status \/ \E u \in Users : status' = [status EXCEPT ![u] = "in_room"]
    BY <1>5 DEF ExtraLoops, RefusedStart, LoopStops, ExtraSnapshot, ExtraEnd, ExtraReset, ExtraClose,
                playerVars
  <2>3. \A v \in Users : status'[v] = "off" => status[v] = "off"
    BY <2>2 DEF TypeOK
  <2>4. /\ \A s \in RoomIds \ {r} : extra'[s] = extra[s] /\ loop'[s] = loop[s]
        /\ extra'[r].todo \subseteq extra[r].todo \cup Members(r)
        /\ loop'[r] \in {loop[r], [loop[r] EXCEPT !.pc = "none"]}
    <3>1. CASE RefusedStart(r)
      BY <3>1, RefusedMoves
    <3>2. CASE ~RefusedStart(r)
      BY <1>5, <3>2, ExtraMoves
    <3> QED BY <3>1, <3>2
  <2>5. loop'[r].pc = "reset" => loop'[r] = loop[r]
    <3>1. loop[r] \in LoopType
      BY DEF TypeOK
    <3> QED BY <2>4, <3>1 DEF LoopType
  <2> QED BY <2>1, <2>3, <2>4, <2>5 DEF Outside, Members, At
<1> QED BY <1>1, <1>2, <1>3, <1>4, <1>5 DEF Next

\* A room that was never made is empty.
LEMMA UnbornEmpty ==
  ASSUME TypeOK, Unborn, Counted, NEW r \in RoomIds, r >= nextRoomID
  PROVE  Members(r) = {}
<1>1. IsFiniteSet(Taken(r)) /\ Cardinality(Taken(r)) = 0
  BY DEF Unborn, Counted
<1>2. Taken(r) = {}
  BY <1>1, FS_EmptySet
<1>3. \A u \in Users : seats[r][u] \in Nat
  BY DEF TypeOK
<1> SUFFICES ASSUME NEW u \in Users, seats[r][u] > 0 PROVE FALSE
  BY DEF Members
<1>4. <<u, 1>> \in Taken(r)
  BY <1>3 DEF Taken
<1> QED BY <1>2, <1>4

LEMMA SeededAloneKept == IInv /\ Counted /\ SeededAlone /\ Next => SeededAlone'
<1> SUFFICES ASSUME IInv, Counted, SeededAlone, Next PROVE SeededAlone'
  OBVIOUS
<1> USE NumbersTyped
<1>0. /\ TypeOK /\ Unborn /\ Born /\ Seeding /\ nextRoomID \in Int /\ (\A r \in RoomIds : r \in Int)
      /\ seats \in [RoomIds -> [Users -> Nat]] /\ DOMAIN restore = Users /\ DOMAIN roomStatus = RoomIds
  BY DEF IInv, TypeOK
<1>1. CASE Restart
  BY <1>1 DEF Restart, SeededAlone, RestoreAt
<1>2. ASSUME NEW c \in Users, Connection(c) PROVE SeededAlone'
  <2>1. \A o \in RoomIds : recRoomByOrig'[o] # None => recRoomByOrig'[o] < nextRoomID'
    <3>1. nextRoomID' \in {nextRoomID, nextRoomID + 1}
      <4>1. CASE Reopen(c)
        BY <4>1 DEF Reopen
      <4> QED BY <1>0, <1>2, <4>1, ConnectionFrame
    <3>2. CASE Rejoin(c) \/ Seeded(c)
      <4>1. PICK o, r : Consume(c, o, r) /\ r < nextRoomID
        <5>1. CASE Rejoin(c)
          <6>1. PICK o : Consume(c, o, LiveRoom(o)) /\ LiveRoom(o) \in rooms
            BY <5>1 DEF Rejoin, HasLiveRoom
          <6>2. \A q \in rooms : q < nextRoomID
            <7> SUFFICES ASSUME NEW q \in rooms PROVE q < nextRoomID
              OBVIOUS
            <7>1. q \in RoomIds /\ q \in Int /\ ~(q >= nextRoomID)
              BY <1>0 DEF TypeOK, Unborn
            <7> QED BY <1>0, <7>1
          <6> QED BY <6>1, <6>2
        <5>2. CASE Seeded(c)
          BY <1>0, <5>2 DEF Seeded, Born, RestoreAt
        <5> QED BY <3>2, <5>1, <5>2
      <4>2. \A q \in RoomIds : recRoomByOrig'[q] \in {recRoomByOrig[q], None, r}
        BY <1>0, <4>1 DEF Consume, TypeOK
      <4>4. UNCHANGED nextRoomID
        BY <3>2 DEF Rejoin, Seeded, idVars
      <4> QED BY <4>1, <4>2, <4>4 DEF SeededAlone
    <3>3. CASE UNCHANGED recVars
      <4> SUFFICES ASSUME NEW o \in RoomIds, recRoomByOrig[o] # None PROVE recRoomByOrig[o] < nextRoomID'
        BY <3>3 DEF recVars
      <4>1. recRoomByOrig[o] \in Int /\ recRoomByOrig[o] < nextRoomID
        BY <1>0 DEF TypeOK, SeededAlone
      <4> QED BY <1>0, <3>1, <4>1
    <3> QED BY <1>2, <3>2, <3>3
            DEF Connection, Login, CreateRoom, JoinRoom, Leave, Reopen, SeatBack, NoSeatBack, FieldsBack
  <2> SUFFICES ASSUME NEW u \in Users, restore'[u].pc = "seed"
               PROVE  /\ \A v \in Users \ {u} : restore'[v].pc # "none" => restore'[v].r # restore'[u].r
                      /\ \A v \in Users : ~(seats'[restore'[u].r][v] > 0)
                      /\ roomStatus'[restore'[u].r] = "gaming"
    BY <2>1 DEF SeededAlone, RestoreAt, Members
  <2>2. CASE Reopen(c)
    <3> DEFINE r == nextRoomID
    <3>1. /\ restore' = [restore EXCEPT ![c] = [pc |-> "seed", r |-> r]] /\ UNCHANGED seats
          /\ roomStatus' = [roomStatus EXCEPT ![r] = "gaming"] /\ r \in RoomIds /\ RecFree
      BY <1>0, <2>2 DEF Reopen, Wanted, TypeOK, RoomIds
    <3>2. u = c
      BY <1>0, <3>1 DEF RecFree, RestoreAt
    <3>3. \A v \in Users \ {u} : restore'[v].pc # "none" => restore'[v].r # r
      BY <1>0, <3>1, <3>2 DEF Born
    <3>4. \A v \in Users : ~(seats'[r][v] > 0)
      BY <1>0, <3>1, UnbornEmpty DEF Members
    <3> QED BY <1>0, <3>1, <3>2, <3>3, <3>4
  <2>3. CASE ~Reopen(c)
    <3> DEFINE r == restore[u].r
    <3>1. RestoreAt(u, "seed") /\ restore'[u] = restore[u] /\ ~Rejoin(c) /\ ~Seeded(c)
      <4>1. ~Rejoin(c)
        <5> SUFFICES ASSUME Rejoin(c) PROVE FALSE
          OBVIOUS
        <5>1. RecFree /\ \E x : restore' = [restore EXCEPT ![c] = [pc |-> "seat", r |-> x]]
          BY DEF Rejoin, Wanted, Consume
        <5> QED BY <1>0, <5>1 DEF RecFree, RestoreAt
      <4>2. ~Seeded(c)
        <5> SUFFICES ASSUME Seeded(c) PROVE FALSE
          OBVIOUS
        <5>1. RestoreAt(c, "seed") /\ \E x : restore' = [restore EXCEPT ![c] = [pc |-> "seat", r |-> x]]
          BY DEF Seeded, Consume
        <5>2. u # c /\ RestoreAt(u, "seed")
          BY <1>0, <5>1 DEF RestoreAt
        <5> QED BY <1>0, <5>1, <5>2 DEF Seeding
      <4>3. \/ UNCHANGED restore
            \/ restore' = [restore EXCEPT ![c].pc = "fields"]
            \/ restore' = [restore EXCEPT ![c] = [pc |-> "none", r |-> None]]
        BY <1>2, <2>3, <4>1, <4>2
           DEF Connection, Login, CreateRoom, JoinRoom, Leave, SeatBack, NoSeatBack, FieldsBack
      <4> QED BY <1>0, <4>1, <4>2, <4>3 DEF RestoreAt, TypeOK
    <3>2. /\ r \in RoomIds /\ r < nextRoomID /\ \A v \in Users : ~(seats[r][v] > 0)
          /\ roomStatus[r] = "gaming"
          /\ \A v \in Users \ {u} : restore[v].pc # "none" => restore[v].r # r
      BY <1>0, <3>1 DEF SeededAlone, Born, RestoreAt, Members
    <3>3. \A v \in Users \ {u} : restore'[v].pc # "none" => restore[v].pc # "none" /\ restore'[v].r = restore[v].r
      <4>1. \/ UNCHANGED restore
            \/ RestoreAt(c, "seat") /\ restore' = [restore EXCEPT ![c].pc = "fields"]
            \/ restore' = [restore EXCEPT ![c] = [pc |-> "none", r |-> None]]
        BY <1>2, <2>3, <3>1
           DEF Connection, Login, CreateRoom, JoinRoom, Leave, SeatBack, NoSeatBack, FieldsBack
      <4>2. CASE UNCHANGED restore
        BY <4>2
      <4>3. CASE RestoreAt(c, "seat") /\ restore' = [restore EXCEPT ![c].pc = "fields"]
        <5>1. \A v \in Users : restore'[v].r = restore[v].r /\ (v # c => restore'[v] = restore[v])
          BY <1>0, <4>3 DEF TypeOK
        <5> QED BY <4>3, <5>1 DEF RestoreAt
      <4>4. CASE restore' = [restore EXCEPT ![c] = [pc |-> "none", r |-> None]]
        BY <1>0, <4>4
      <4> QED BY <4>1, <4>2, <4>3, <4>4
    <3>4. roomStatus'[r] = "gaming"
      <4>1. CASE Leave(c)
        <5>1. roomID[c] # r
          BY <3>2, <4>1 DEF Leave, Members
        <5>2. roomStatus' = roomStatus \/ roomStatus' = [roomStatus EXCEPT ![roomID[c]] = "ended"]
          BY <4>1 DEF Leave
        <5> QED BY <1>0, <3>2, <5>1, <5>2
      <4> QED BY <1>2, <2>3, <3>1, <3>2, <4>1
              DEF Connection, Login, CreateRoom, JoinRoom, SeatBack, NoSeatBack, FieldsBack, roomVars
    <3>5. seats'[r] = seats[r]
      <4>1. CASE UNCHANGED seats
        BY <4>1
      <4>2. ASSUME NEW q, q # r, NEW n, seats' = [seats EXCEPT ![q][c] = n] PROVE seats'[r] = seats[r]
        BY <1>0, <3>2, <4>2
      <4>3. CASE CreateRoom(c)
        BY <1>0, <3>2, <4>2, <4>3 DEF CreateRoom, Enter, SitDown
      <4>4. ASSUME NEW q \in RoomIds, JoinRoom(c, q) PROVE seats'[r] = seats[r]
        BY <3>2, <4>2, <4>4 DEF JoinRoom, Enter, SitDown
      <4>5. CASE SeatBack(c)
        <5>1. c # u /\ restore[c].pc # "none"
          BY <3>1, <4>5 DEF SeatBack, RestoreAt
        <5> QED BY <3>2, <4>2, <4>5, <5>1 DEF SeatBack, SitDown
      <4>6. CASE Leave(c)
        <5>1. roomID[c] # r
          BY <3>2, <4>6 DEF Leave, Members
        <5> QED BY <4>2, <4>6, <5>1 DEF Leave
      <4> QED BY <1>2, <2>3, <3>1, <4>1, <4>3, <4>4, <4>5, <4>6
              DEF Connection, Login, NoSeatBack, FieldsBack, roomVars
    <3> QED BY <3>1, <3>2, <3>3, <3>4, <3>5
  <2> QED BY <2>2, <2>3
<1>3. ASSUME NEW r \in RoomIds, GameLoop(r) PROVE SeededAlone'
  <2>1. UNCHANGED <<recRoomByOrig, nextRoomID, restore, seats>>
    BY <1>3, LoopLeaves DEF recVars, idVars
  <2> SUFFICES ASSUME NEW u \in Users, RestoreAt(u, "seed")
               PROVE  roomStatus'[restore[u].r] = "gaming"
    BY <2>1 DEF SeededAlone, RestoreAt, Members
  <2> DEFINE s == restore[u].r
  <2>2. s \in RoomIds /\ roomStatus[s] = "gaming" /\ loop[s].pc = "none" /\ Members(s) = {}
    BY <1>0 DEF SeededAlone, Born, RestoreAt, Seeding
  <2>3. CASE r = s
    <3>1. ~StartGame(r) /\ ~CloseGame(r) /\ ~(\E v \in Users : Die(v, r))
      BY <2>2, <2>3 DEF StartGame, CloseGame, Die, At
    <3> QED BY <1>0, <1>3, <2>2, <2>3, <3>1, LoopMoves
  <2>4. CASE r # s
    BY <1>0, <1>3, <2>2, <2>4, LoopFrame
  <2> QED BY <2>3, <2>4
<1>4. ASSUME NEW u \in Users, Potion(u) PROVE SeededAlone'
  BY <1>4, PotionFrame DEF SeededAlone, RestoreAt, Members, recVars, idVars, roomVars
<1>5. ASSUME NEW r \in RoomIds, ExtraLoops(r) PROVE SeededAlone'
  <2>1. UNCHANGED <<recRoomByOrig, nextRoomID, restore, seats>>
    BY <1>5, ExtraFrame DEF recVars, idVars
  <2> SUFFICES ASSUME NEW u \in Users, RestoreAt(u, "seed")
               PROVE  roomStatus'[restore[u].r] = "gaming"
    BY <2>1 DEF SeededAlone, RestoreAt, Members
  <2> DEFINE s == restore[u].r
  <2>2. s \in RoomIds /\ roomStatus[s] = "gaming" /\ originalRoomID[s] # None
    BY <1>0 DEF SeededAlone, Born, RestoreAt, Seeding
  <2>3. CASE RefusedStart(r)
    BY <1>0, <2>2, <2>3, RefusedMoves
  <2>4. CASE ~RefusedStart(r)
    BY <1>0, <1>5, <2>2, <2>4, ExtraMoves
  <2> QED BY <2>3, <2>4
<1> QED BY <1>1, <1>2, <1>3, <1>4, <1>5 DEF Next

-----------------------------------------------------------------------------
(* What is written to a log, and for whom it changes nothing. *)

\* Who is in a room and was not put back too late is said to be there.
LEMMA OneRoom ==
  ASSUME PlacedInv, NEW u \in Users \ strays, status[u] \in {"in_room", "gaming", "dead"},
         NEW r \in RoomIds, u \in Members(r)
  PROVE  roomID[u] = r
  BY DEF PlacedInv, Placed, PlacedAs

\* A room that plays shares its log with rooms of before at most.
LEMMA OneWriter ==
  ASSUME IInv, NEW r \in RoomIds, r \in rooms, seedings[File(r)] <= 1,
         NEW s \in RoomIds \ {r}, File(s) = File(r)
  PROVE  loop[s].pc = "none" /\ s \notin rooms
<1>1. CASE originalRoomID[r] = None
  <2>1. originalRoomID[s] = r /\ originalRoomID[s] # None
    BY <1>1, NumbersTyped DEF File
  <2> QED BY <2>1 DEF IInv, FromBefore, Gone
<1>2. CASE originalRoomID[r] # None
  <2>1. File(r) = originalRoomID[r] /\ Gone(originalRoomID[r])
    BY <1>2 DEF File, IInv, FromBefore
  <2>2. CASE originalRoomID[s] = None
    BY <2>1, <2>2 DEF File, Gone
  <2>3. CASE originalRoomID[s] # None
    <3>1. originalRoomID[s] = originalRoomID[r]
      BY <2>1, <2>3 DEF File
    <3> QED BY <1>2, <2>1, <2>3, <3>1 DEF IInv, OneEach
  <2> QED BY <2>2, <2>3
<1> QED BY <1>1, <1>2

\* For u the log f stays as good as it was.
Harmless(u, f) ==
    /\ InLog(u, f) => InLog(u, f)'
    /\ IsDead(u)' /\ DeadInLog(u, f) => DeadInLog(u, f)'
    /\ InLog(u, f) /\ u \in disk[f].alive => u \in disk'[f].alive

LEMMA UntouchedHarmless ==
  ASSUME NEW u, NEW f, disk'[f] = disk[f], logged'[f] = logged[f], id'[u] = id[u]
  PROVE  Harmless(u, f)
  BY DEF Harmless, InLog, DeadInLog

LEMMA SyncHarmless ==
  ASSUME TypeOK, NEW u, NEW f \in RoomIds, NEW g, Sync(g), id'[u] = id[u]
  PROVE  Harmless(u, f)
<1>1. logged'[f] = logged[f] /\ disk'[f] \in {disk[f], logged[f]}
  BY DEF Sync, WriteAndSync, Written, TypeOK
<1> QED BY <1>1 DEF Harmless, InLog, DeadInLog

LEMMA WriteHarmless ==
  ASSUME TypeOK, NEW u, NEW f \in RoomIds, NEW g \in RoomIds, NEW l, Write(g, l), id'[u] = id[u],
         f = g => /\ InLog(u, f) => l.ids[u] = id[u] /\ u \in l.alive
                  /\ IsDead(u)' /\ DeadInLog(u, f) => u \notin l.alive /\ (u \in l.hollow => l.ids[u] = id[u])
  PROVE  Harmless(u, f)
<1>1. CASE f = g
  <2>1. logged'[f] \in {logged[f], l} /\ disk'[f] \in {disk[f], l}
    BY <1>1 DEF Write, Written, TypeOK
  <2> QED BY <1>1, <2>1 DEF Harmless, InLog, DeadInLog
<1>2. CASE f # g
  <2>1. logged'[f] = logged[f] /\ disk'[f] = disk[f]
    BY <1>2, OneLog
  <2> QED BY <2>1 DEF Harmless, InLog, DeadInLog
<1> QED BY <1>1, <1>2

\* What is written of w is harmless for the others.
LEMMA JoinedHarmless ==
  ASSUME TypeOK, NEW w \in Users, NEW u \in Users \ {w}, NEW f \in RoomIds, NEW g \in RoomIds,
         NEW i, NEW living \in BOOLEAN,
         Write(g, Joined(logged[g], w, i, living)), id'[u] = id[u]
  PROVE  Harmless(u, f)
<1> DEFINE l == Joined(logged[g], w, i, living)
<1>1. logged[g] \in LogType
  BY DEF TypeOK
<1>2. /\ l.ids[u] = logged[g].ids[u] /\ (u \in l.alive <=> u \in logged[g].alive)
      /\ u \in l.hollow <=> u \in logged[g].hollow
  BY <1>1 DEF Joined, LogType
<1> HIDE DEF l
<1> QED BY <1>2, WriteHarmless DEF InLog, DeadInLog, l

LEMMA KilledHarmless ==
  ASSUME TypeOK, NEW w \in Users, NEW u \in Users, NEW f \in RoomIds, NEW g \in RoomIds,
         id[u] # id[w], Write(g, Killed(logged[g], id[w])), id'[u] = id[u]
  PROVE  Harmless(u, f)
<1> DEFINE l == Killed(logged[g], id[w])
<1>1. logged[g] \in LogType
  BY DEF TypeOK
<1>2. l.ids = logged[g].ids /\ l.alive = {v \in logged[g].alive : logged[g].ids[v] # id[w]}
      /\ l.hollow \subseteq logged[g].hollow
  BY <1>1 DEF Killed, LogType
<1> HIDE DEF l
<1> QED BY <1>2, WriteHarmless DEF InLog, DeadInLog, l

\* A potion brings back to life nobody but him who drinks it.
LEMMA HealedHarmless ==
  ASSUME TypeOK, NEW w \in Users, NEW u \in Users, NEW f \in RoomIds, NEW g \in RoomIds,
         IsDead(u)' => id[u] # id[w], Write(g, Healed(logged[g], id[w])), id'[u] = id[u]
  PROVE  Harmless(u, f)
<1> DEFINE l == Healed(logged[g], id[w])
<1>1. logged[g] \in LogType
  BY DEF TypeOK
<1>2. /\ l.ids = logged[g].ids
      /\ l.alive = logged[g].alive \cup {v \in logged[g].hollow : logged[g].ids[v] = id[w]}
      /\ l.hollow \subseteq logged[g].hollow
  BY <1>1 DEF Healed, LogType
<1> HIDE DEF l
<1> QED BY <1>2, WriteHarmless DEF InLog, DeadInLog, l

\* It is enough that the step is harmless, brings nobody to life or to death, and leaves the
\* loop in the same part of its round.
LEMMA StillTells ==
  ASSUME NEW r, NEW u, NEW f, File(r) = f, File(r)' = f, TellsOf(r, u), Harmless(u, f),
         Lives(u)' => Lives(u), IsDead(u)' => IsDead(u),
         loop'[r].pc \in QuietPCs => loop[r].pc \in QuietPCs,
         loop'[r].pc \in WritingPCs => loop[r].pc \in WritingPCs,
         u \in loop[r].todo => u \in loop'[r].todo \/ loop'[r].pc \notin WritingPCs
  PROVE  TellsOf(r, u)'
<1>1. Lives(u)' /\ loop'[r].pc \in QuietPCs => InLog(u, f)' /\ u \in disk'[f].alive
  BY DEF TellsOf, Harmless, InLog
<1>2. Lives(u)' /\ loop'[r].pc \in WritingPCs => u \in loop'[r].todo \/ InLog(u, f)'
  BY DEF TellsOf, Harmless, InLog
<1>3. IsDead(u)' /\ loop'[r].pc \in QuietPCs => DeadInLog(u, f)'
  BY DEF TellsOf, Harmless
<1>4. IsDead(u)' /\ loop'[r].pc \in WritingPCs => u \in loop'[r].todo \/ DeadInLog(u, f)'
  BY DEF TellsOf, Harmless
<1> QED BY <1>1, <1>2, <1>3, <1>4 DEF TellsOf, InLog, DeadInLog

-----------------------------------------------------------------------------
(* The connections. *)

\* Who is in a game after the step of a connection, and no mark is on him, was there before.
LEMMA NothingForHim ==
  ASSUME PlacedInv, NEW c \in Users, Connection(c), NEW u \in Users, u \notin strays' \cup absent',
         status'[u] \in {"gaming", "dead"}
  PROVE  /\ u \notin strays \cup absent /\ status'[u] = status[u] /\ hp'[u] = hp[u] /\ id'[u] = id[u]
         /\ \A r \in RoomIds : u \in Members(r)' => u \in Members(r)
<1>0. TypeOK /\ strays \subseteq strays'
  BY OwnPlayer DEF PlacedInv, IInv
<1>1. absent \subseteq absent'
  BY DEF Connection, Login, CreateRoom, JoinRoom, Leave, Rejoin, Reopen, Seeded, SeatBack, NoSeatBack,
         FieldsBack, history
<1>2. CASE u # c
  <2>1. status'[u] = status[u] /\ \A r \in RoomIds : seats'[r][u] = seats[r][u]
    BY <1>0, <1>2, OwnPlayer
  <2>2. (UNCHANGED hp \/ hp' = [hp EXCEPT ![c] = 1]) /\ (UNCHANGED id \/ id' = [id EXCEPT ![c] = nextPlayerID])
    BY DEF Connection, Login, CreateRoom, JoinRoom, Enter, Leave, Rejoin, Reopen, Seeded, SeatBack, NoSeatBack,
           FieldsBack, playerVars
  <2>3. hp'[u] = hp[u] /\ id'[u] = id[u]
    BY <1>0, <1>2, <2>2 DEF TypeOK
  <2> QED BY <1>0, <1>1, <2>1, <2>3 DEF Members
<1>3. CASE u = c
  <2>1. ~Login(u) /\ ~CreateRoom(u) /\ ~Leave(u) /\ ~(\E r \in RoomIds : JoinRoom(u, r))
    BY <1>0 DEF Login, CreateRoom, Leave, JoinRoom, Enter, TypeOK
  <2>2. ~FieldsBack(u)
    BY DEF FieldsBack
  <2>3. ~SeatBack(u)
    <3> SUFFICES ASSUME SeatBack(u) PROVE FALSE
      OBVIOUS
    <3>1. status[u] \in {"gaming", "dead"} /\ ~InAnyRoom(u)
      BY DEF SeatBack, playerVars
    <3>2. GameOf(u)
      BY <1>0 DEF PlacedInv, Placed
    <3> QED BY <1>0, <3>1, <3>2 DEF GameOf, InAnyRoom, TypeOK
  <2>4. UNCHANGED <<playerVars, seats>>
    BY <1>3, <2>1, <2>2, <2>3 DEF Connection, Rejoin, Reopen, Seeded, NoSeatBack, roomVars
  <2> QED BY <1>0, <1>1, <2>4 DEF playerVars, Members
<1> QED BY <1>2, <1>3

\* A connection brings no game to life but the one it reopens.
LEMMA KeptBefore ==
  ASSUME PlacedInv, NEW c \in Users, Connection(c), NEW s \in RoomIds, Kept(s)',
         Reopen(c) => s # nextRoomID
  PROVE  /\ Kept(s) /\ File(s)' = File(s) /\ files \subseteq files'
         /\ Reopen(c) => recByUser[c] # File(s)
<1> USE NumbersTyped
<1>0. TypeOK /\ Unborn /\ IInv /\ Playing
  BY DEF PlacedInv, IInv
<1>d. doubled' = doubled
  BY SideLeft DEF sideVars, doubled
<1>1. CASE Reopen(c)
  <2> DEFINE o == recByUser[c]
  <2>1. /\ o \in RoomIds /\ o # None /\ pending[o].alive # {}
        /\ rooms' = rooms \cup {nextRoomID} /\ roomStatus' = [roomStatus EXCEPT ![nextRoomID] = "gaming"]
        /\ originalRoomID' = [originalRoomID EXCEPT ![nextRoomID] = o]
        /\ files' = files \cup {o} /\ wal' = [wal EXCEPT ![nextRoomID] = "open"]
        /\ seedings' = [seedings EXCEPT ![o] = @ + 1]
    BY <1>0, <1>1 DEF Reopen, Wanted, TypeOK
  <2>2. s \in rooms /\ roomStatus[s] = "gaming" /\ wal[s] = "open" /\ originalRoomID'[s] = originalRoomID[s]
    BY <1>0, <1>1, <2>1 DEF Kept, TypeOK
  <2>3. File(s)' = File(s) /\ File(s) \in RoomIds
    BY <1>0, <2>2, Types, FilesTyped DEF File
  <2>4. seedings'[File(s)] <= 1
    BY <2>3 DEF Kept
  <2>5. \A f \in RoomIds : seedings[f] \in Nat /\ seedings'[f] = IF f = o THEN seedings[f] + 1 ELSE seedings[f]
    BY <1>0, <2>1 DEF TypeOK
  <2>6. o # File(s)
    <3> SUFFICES ASSUME o = File(s) PROVE FALSE
      OBVIOUS
    <3>1. Gone(o)
      BY <1>0, <2>1 DEF IInv, FromBefore
    <3>2. originalRoomID[s] = o
      BY <2>2, <3>1 DEF File, Gone
    <3>3. seedings[o] > 0
      BY <1>0, <2>1, <3>2 DEF IInv, Recovered
    <3>4. seedings[o] \in Nat /\ seedings'[o] = seedings[o] + 1
      BY <2>1, <2>5
    <3>5. seedings'[o] <= 1
      BY <2>4
    <3> QED BY <3>3, <3>4, <3>5
  <2> QED BY <1>d, <2>1, <2>2, <2>3, <2>4, <2>5, <2>6 DEF Kept
<1>2. CASE ~Reopen(c)
  <2>1. /\ UNCHANGED <<originalRoomID, seedings, files>> /\ roomStatus'[s] \in {roomStatus[s], "ended"}
        /\ rooms' \subseteq rooms \/ rooms' = rooms \cup {nextRoomID}
    BY <1>0, <1>2, ConnectionFrame
  <2>2. roomStatus[s] = "gaming" /\ s \in rooms
    <3>1. roomStatus[s] = "gaming"
      BY <2>1 DEF Kept
    <3> QED BY <1>0, <3>1 DEF Playing
  <2>3. wal[s] = "open"
    <3>1. UNCHANGED wal \/ \E r \in RoomIds : wal' = [wal EXCEPT ![r] = "none"]
      BY <1>0, <1>2 DEF Connection, Login, CreateRoom, JoinRoom, Leave, Rejoin, Seeded, SeatBack, NoSeatBack,
                        FieldsBack, TypeOK
    <3> QED BY <1>0, <3>1 DEF Kept, TypeOK
  <2> QED BY <1>2, <1>d, <2>1, <2>2, <2>3 DEF Kept, File
<1> QED BY <1>1, <1>2

LEMMA LogsTellByConnections == ASSUME KeptInv, NEW c \in Users, Connection(c) PROVE LogsTell'
<1> USE NumbersTyped
<1>0. PlacedInv /\ IInv /\ TypeOK /\ Counted /\ Unborn /\ SeededAlone /\ LogsTell
  BY DEF KeptInv, PlacedInv, IInv
<1> SUFFICES ASSUME NEW s \in RoomIds, Kept(s)' PROVE Tells(s)'
  BY DEF LogsTell
<1>1. CASE Reopen(c) /\ s = nextRoomID
  <2>1. recByUser[c] \in RoomIds /\ recByUser[c] # None
    BY <1>0, <1>1 DEF Reopen, Wanted, TypeOK
  <2>2. File(s)' \in files'
    BY <1>0, <1>1, <2>1 DEF Reopen, File, TypeOK
  <2>3. loop'[s].pc = "none"
    BY <1>0, <1>1 DEF Reopen, Unborn, TypeOK
  <2> QED BY <2>2, <2>3 DEF Tells, TellsOf, Collected, At, QuietPCs, WritingPCs
<1>2. CASE ~(Reopen(c) /\ s = nextRoomID)
  <2>0. PICK f \in RoomIds : f = File(s)
    BY <1>0, FilesTyped, Types
  <2>1. /\ Kept(s) /\ File(s)' = f /\ files \subseteq files'
        /\ Reopen(c) => recByUser[c] # f
    BY <1>0, <1>2, <2>0, KeptBefore
  <2>2. Tells(s)
    BY <1>0, <2>1 DEF LogsTell
  <2>3. missed' = missed
    BY DEF Connection, Login, CreateRoom, JoinRoom, Leave, Rejoin, Reopen, Seeded, SeatBack, NoSeatBack,
           FieldsBack, history
  <2>4. f \in files'
    BY <2>0, <2>1, <2>2 DEF Tells
  <2>5. ASSUME NEW u \in Members(s)', u \notin strays' \cup absent', status'[u] \in {"gaming", "dead"}
        PROVE  (u \notin missed' => TellsOf(s, u)') /\ Collected(s, u)'
    <3>1. /\ u \in Users /\ u \in Members(s) /\ u \notin strays \cup absent
          /\ status'[u] = status[u] /\ hp'[u] = hp[u] /\ id'[u] = id[u]
      <4>1. u \in Users
        BY <2>5 DEF Members
      <4> QED BY <1>0, <2>5, <4>1, NothingForHim
    <3>2. loop'[s] = loop[s]
      <4>1. CASE Seeded(c)
        <5>1. restore[c].r # s
          BY <1>0, <3>1, <4>1 DEF Seeded, SeededAlone
        <5> QED BY <1>0, <4>1, <5>1, SeededRoom DEF TypeOK
      <4>2. CASE Reopen(c)
        BY <4>2 DEF Reopen
      <4> QED BY <1>0, <4>1, <4>2, ConnectionFrame
    <3>3. Harmless(u, f)
      <4>1. CASE Reopen(c)
        <5>1. \E l : disk' = [disk EXCEPT ![recByUser[c]] = l]
          BY <4>1 DEF Reopen
        <5>2. \E l : logged' = [logged EXCEPT ![recByUser[c]] = l]
          BY <4>1 DEF Reopen
        <5>3. disk'[f] = disk[f] /\ logged'[f] = logged[f]
          BY <1>0, <2>1, <2>2, <4>1, <5>1, <5>2 DEF TypeOK
        <5> QED BY <3>1, <5>3, UntouchedHarmless
      <4>2. CASE UNCHANGED <<disk, logged>>
        BY <3>1, <4>2, UntouchedHarmless
      <4>3. CASE \E g : Sync(g)
        BY <1>0, <2>2, <3>1, <4>3, SyncHarmless
      <4> QED BY <4>1, <4>2, <4>3
              DEF Connection, Login, CreateRoom, JoinRoom, Leave, Rejoin, Seeded, SeatBack, NoSeatBack,
                  FieldsBack, fileVars
    <3>4. u \notin missed => TellsOf(s, u)
      BY <2>2, <3>1 DEF Tells
    <3>5. Collected(s, u)
      BY <2>2, <3>1 DEF Tells
    <3>6. u \notin missed' => TellsOf(s, u)'
      <4>1. (Lives(u)' => Lives(u)) /\ (IsDead(u)' => IsDead(u))
        BY <3>1, SideLeft DEF Lives, IsDead, sideVars
      <4> QED BY <2>0, <2>1, <2>3, <3>1, <3>2, <3>3, <3>4, <4>1, StillTells
    <3>7. Collected(s, u)'
      BY <3>1, <3>2, <3>5 DEF Collected, At
    <3> QED BY <3>6, <3>7
  <2>6. ASSUME NEW u \in Members(s)', status'[u] \notin {"gaming", "dead"}
        PROVE  TellsOf(s, u)' /\ Collected(s, u)'
    BY <2>6 DEF TellsOf, Collected, Lives, IsDead
  <2> QED BY <2>0, <2>1, <2>4, <2>5, <2>6 DEF Tells
<1> QED BY <1>1, <1>2

-----------------------------------------------------------------------------
(* The game loops. *)

\* A loop writes to the log of its room only.
LEMMA LoopWrites ==
  ASSUME IInv, NEW r \in RoomIds, GameLoop(r), NEW f \in RoomIds, f # File(r)
  PROVE  disk'[f] = disk[f] /\ logged'[f] = logged[f] /\ (f \in files => f \in files')
<1>0. TypeOK /\ File(r) \in RoomIds
  BY Types, FilesTyped DEF IInv
<1>1. CASE StartGame(r) \/ LogDone(r) \/ \E u \in Users : LogPlayer(r, u)
  <2>1. File(r) = r
    BY <1>1 DEF StartGame, LogDone, LogPlayer, At, IInv, Recovered, File
  <2>2. CASE StartGame(r)
    BY <1>0, <2>1, <2>2 DEF StartGame, TypeOK
  <2>3. CASE LogDone(r) \/ \E u \in Users : LogPlayer(r, u)
    <3>1. UNCHANGED files /\ (UNCHANGED <<disk, logged>> \/ Sync(r) \/ \E l : Write(r, l))
      BY <2>3 DEF LogDone, LogPlayer
    <3> QED BY <1>0, <2>1, <3>1, OneLog
  <2> QED BY <1>1, <2>2, <2>3
<1>2. CASE Truncate(r) \/ CloseGame(r)
  BY <1>0, <1>2 DEF Truncate, CloseGame, Delete, TypeOK
<1>3. ASSUME UNCHANGED files,
             UNCHANGED <<disk, logged>> \/ Sync(File(r)) \/ \E l : Write(File(r), l) \/ WriteAndSync(File(r), l)
      PROVE  disk'[f] = disk[f] /\ logged'[f] = logged[f] /\ (f \in files => f \in files')
  BY <1>0, <1>3, OneLog
<1>4. CASE SnapshotDone(r) \/ EndGame(r) \/ \E u \in Users : Rewrite(r, u) \/ Die(u, r)
  BY <1>3, <1>4 DEF SnapshotDone, EndGame, Rewrite, Die
<1>5. CASE Tick(r) \/ Snapshot(r) \/ NoSnapshot(r) \/ CheckEnd(r) \/ \E u \in Users : Collect(r, u) \/ ResetPlayer(r, u)
  BY <1>5, Zenon DEF Tick, Snapshot, NoSnapshot, CheckEnd, Collect, ResetPlayer, fileVars
<1> QED BY <1>1, <1>2, <1>4, <1>5 DEF GameLoop

\* The players of the other rooms' games are not those of room r, and nothing is done to them.
LEMMA OthersUntouched ==
  ASSUME KeptInv, NEW r \in RoomIds, GameLoop(r), NEW s \in RoomIds \ {r},
         NEW u \in Members(s), u \notin strays' \cup absent', status'[u] \in {"gaming", "dead"}
  PROVE  /\ u \in Users /\ u \notin strays \cup absent /\ u \notin Members(r)
         /\ status'[u] = status[u] /\ hp'[u] = hp[u] /\ id'[u] = id[u]
         /\ u \in missed => u \in missed'
         /\ u \in revived => u \in revived'
<1>0. TypeOK /\ PlacedInv /\ u \in Users
  BY DEF KeptInv, PlacedInv, IInv, Members
<1>1. UNCHANGED <<id, seats>> /\ strays \subseteq strays'
  <2>1. UNCHANGED <<id, seats>>
    BY LoopLeaves
  <2>2. UNCHANGED strays \/ \E w \in Users : ResetPlayer(r, w)
    BY Zenon DEF GameLoop, StartGame, LogPlayer, LogDone, Die, Tick, Snapshot, NoSnapshot, Collect, Truncate,
           Rewrite, SnapshotDone, CheckEnd, EndGame, CloseGame, history
  <2> QED BY <2>1, <2>2 DEF ResetPlayer
<1>2. u \notin strays
  BY <1>1
<1>3. status[u] \in {"in_room", "gaming", "dead"} => u \notin Members(r)
  BY <1>0, <1>2, OneRoom
<1>4. CASE StartGame(r)
  <2>1. u \notin Members(r)
    BY <1>3, <1>4 DEF StartGame
  <2> QED BY <1>0, <1>1, <1>2, <1>4, <2>1 DEF StartGame
<1>5. ASSUME NEW w \in Users, Die(w, r) PROVE u # w
  <2>1. status[w] = "gaming" /\ w \in Members(r)
    BY <1>5 DEF Die
  <2> QED BY <1>3, <2>1
<1>6. ASSUME NEW w \in Users, ResetPlayer(r, w) PROVE u # w
  BY <1>0, <1>6 DEF ResetPlayer, TypeOK
<1>7. CASE \E w \in Users : Die(w, r) \/ ResetPlayer(r, w)
  <2>1. status'[u] = status[u] /\ hp'[u] = hp[u] /\ UNCHANGED <<absent, missed>>
    BY <1>0, <1>5, <1>6, <1>7 DEF Die, ResetPlayer, TypeOK, history
  <2>2. revived \subseteq revived'
    BY <1>7 DEF Die, ResetPlayer, sideVars
  <2> QED BY <1>0, <1>1, <1>2, <1>3, <2>1, <2>2
<1>8. CASE ~StartGame(r) /\ ~(\E w \in Users : Die(w, r) \/ ResetPlayer(r, w))
  <2>1. UNCHANGED <<status, hp, revived>>
    BY <1>8, Zenon
    DEF GameLoop, LogPlayer, LogDone, Tick, Snapshot, NoSnapshot, Collect, Truncate,
        Rewrite, SnapshotDone, CheckEnd, EndGame, CloseGame, playerVars, sideVars
  <2>2. u \notin Members(r)
    BY <1>3, <2>1
  <2>3. absent \subseteq absent' \cup Members(r) /\ missed \subseteq missed' \cup Members(r)
    <3>1. CASE Truncate(r)
      BY <3>1 DEF Truncate
    <3>2. ASSUME NEW w \in Users, Rewrite(r, w) PROVE absent' = absent /\ missed \subseteq missed' \cup Members(r)
      <4>1. CASE w \notin Members(r)
        BY <3>2, <4>1 DEF Rewrite
      <4>2. CASE w \in Members(r)
        BY <3>2, <4>2 DEF Rewrite
      <4> QED BY <4>1, <4>2
    <3>3. CASE UNCHANGED <<absent, missed>>
      BY <3>3
    <3>4. Truncate(r) \/ (\E w \in Users : Rewrite(r, w)) \/ UNCHANGED <<absent, missed>>
      BY <1>8, Zenon DEF GameLoop, LogPlayer, LogDone, Tick, Snapshot, NoSnapshot, Collect,
                         SnapshotDone, CheckEnd, EndGame, CloseGame, history
    <3> QED BY <3>1, <3>2, <3>3, <3>4
  <2> QED BY <1>0, <1>1, <1>2, <2>1, <2>2, <2>3
<1> QED BY <1>4, <1>7, <1>8

LEMMA LogsTellElsewhere ==
  ASSUME KeptInv, NEW r \in RoomIds, GameLoop(r), NEW s \in RoomIds \ {r}, Kept(s)'
  PROVE  Tells(s)'
<1>0. TypeOK /\ IInv /\ Numbered /\ LogsTell /\ PlacedInv
  BY DEF KeptInv, PlacedInv, IInv
<1>f. PICK f \in RoomIds : f = File(s)
  BY <1>0, FilesTyped, Types
<1>1. /\ File(s)' = f /\ loop'[s] = loop[s] /\ roomStatus'[s] = roomStatus[s]
      /\ UNCHANGED <<rooms, seedings>>
  BY <1>0, <1>f, LoopFrame DEF File
<1>2. UNCHANGED wal \/ \E x : wal' = [wal EXCEPT ![r] = x]
  BY Zenon DEF GameLoop, StartGame, LogPlayer, LogDone, Die, Tick, Snapshot, NoSnapshot, Collect, Truncate,
         Rewrite, SnapshotDone, CheckEnd, EndGame, ResetPlayer, CloseGame
<1>3. wal'[s] = wal[s] /\ UNCHANGED <<seats, extra>> /\ doubled' = doubled
  BY <1>0, <1>2, LoopLeaves DEF TypeOK, doubled
<1>4. Kept(s)
  BY <1>1, <1>3, <1>f DEF Kept
<1>5. Tells(s)
  BY <1>0, <1>4 DEF LogsTell
<1>6. File(r) = f => loop[r].pc = "none" /\ r \notin rooms
  <2>1. s \in rooms /\ seedings[File(s)] <= 1
    BY <1>4 DEF Kept
  <2> QED BY <1>0, <1>f, <2>1, OneWriter
<1>7. f \in files'
  <2>1. CASE f = File(r)
    <3>1. ~CloseGame(r)
      BY <1>6, <2>1 DEF CloseGame, At
    <3>2. files \subseteq files'
      BY <3>1, Zenon DEF GameLoop, StartGame, LogPlayer, LogDone, Die, Tick, Snapshot, NoSnapshot, Collect, Truncate,
                         Rewrite, SnapshotDone, CheckEnd, EndGame, ResetPlayer, fileVars
    <3> QED BY <1>5, <1>f, <3>2 DEF Tells
  <2>2. CASE f # File(r)
    BY <1>0, <1>5, <1>f, <2>2, LoopWrites DEF Tells
  <2> QED BY <2>1, <2>2
<1>8. ASSUME NEW u \in Members(s)', u \notin strays' \cup absent', status'[u] \in {"gaming", "dead"}
      PROVE  (u \notin missed' => TellsOf(s, u)') /\ Collected(s, u)'
  <2>1. /\ u \in Users /\ u \in Members(s) /\ u \notin strays \cup absent /\ u \notin Members(r)
        /\ status'[u] = status[u] /\ hp'[u] = hp[u] /\ id'[u] = id[u] /\ (u \in missed => u \in missed')
        /\ (u \in revived => u \in revived')
    <3>1. u \in Members(s)
      BY <1>3, <1>8 DEF Members
    <3> QED BY <1>8, <3>1, OthersUntouched
\* Whoever dies in a room of before has no record there.
  <2>2. Harmless(u, f)
    <3>1. CASE f = File(r)
      <4>1. PICK w \in Users : Die(w, r)
        BY <1>0, <1>6, <3>1, LoopMoves DEF StartGame, CloseGame
      <4>2. w \in Members(r) /\ status[w] = "gaming"
            /\ (UNCHANGED <<disk, logged>> \/ Write(f, Killed(logged[f], id[w])))
        BY <3>1, <4>1 DEF Die
      <4>3. id[u] # id[w]
        BY <1>0, <1>8, <2>1, <4>2 DEF Numbered
      <4> QED BY <1>0, <1>5, <2>1, <4>2, <4>3, UntouchedHarmless, KilledHarmless
    <3>2. CASE f # File(r)
      BY <1>0, <1>5, <2>1, <3>2, LoopWrites, UntouchedHarmless
    <3> QED BY <3>1, <3>2
  <2>3. (u \notin missed => TellsOf(s, u)) /\ Collected(s, u)
    BY <1>5, <2>1 DEF Tells
  <2>4. u \notin missed' => TellsOf(s, u)'
    <3>1. (Lives(u)' => Lives(u)) /\ (IsDead(u)' => IsDead(u))
      BY <2>1 DEF Lives, IsDead
    <3> QED BY <1>1, <1>f, <2>1, <2>2, <2>3, <3>1, StillTells
  <2>5. Collected(s, u)'
    BY <1>1, <2>1, <2>3 DEF Collected, At
  <2> QED BY <2>4, <2>5
<1>9. ASSUME NEW u \in Members(s)', status'[u] \notin {"gaming", "dead"}
      PROVE  TellsOf(s, u)' /\ Collected(s, u)'
  BY <1>9 DEF TellsOf, Collected, Lives, IsDead
<1> QED BY <1>1, <1>f, <1>7, <1>8, <1>9 DEF Tells

-----------------------------------------------------------------------------
\* What a loop does while the game of its room stays on.
LEMMA OwnRoomKept ==
  ASSUME KeptInv, NEW r \in RoomIds, GameLoop(r), Kept(r)', ~StartGame(r)
  PROVE  /\ Kept(r) /\ File(r)' = File(r) /\ File(r) \in RoomIds /\ Tells(r)
         /\ ~EndGame(r) /\ ~CloseGame(r) /\ (\A u \in Users : ~ResetPlayer(r, u))
         /\ UNCHANGED <<seats, strays>> /\ File(r) \in files'
<1>0. TypeOK /\ IInv /\ Playing /\ LogsTell
  BY DEF KeptInv, PlacedInv, IInv
<1>1. ~EndGame(r) /\ ~CloseGame(r)
  BY <1>0 DEF Kept, EndGame, CloseGame, TypeOK
<1>2. \A u \in Users : ~ResetPlayer(r, u)
  BY <1>0 DEF Kept, ResetPlayer, Playing, roomVars
<1>3. UNCHANGED <<rooms, roomStatus, seats, strays, seedings, originalRoomID>> /\ files \subseteq files'
      /\ doubled' = doubled
  <2>1. UNCHANGED <<rooms, seats, seedings, extra>>
    BY LoopLeaves
  <2>2. UNCHANGED <<roomStatus, strays, originalRoomID>> /\ (UNCHANGED files \/ Truncate(r))
    BY <1>1, <1>2, Zenon
    DEF GameLoop, LogPlayer, LogDone, Die, Tick, Snapshot, NoSnapshot, Collect, Truncate,
        Rewrite, SnapshotDone, CheckEnd, NoLongerWaits, roomVars, waitVars, history, fileVars
  <2> QED BY <2>1, <2>2 DEF Truncate, doubled
<1>4. wal[r] = "open"
  <2>1. CASE Truncate(r)
    BY <1>0, <2>1 DEF Truncate, Kept, TypeOK
  <2>2. CASE UNCHANGED wal
    BY <2>2 DEF Kept
  <2>3. Truncate(r) \/ UNCHANGED wal
    BY <1>1, <1>2, Zenon
    DEF GameLoop, LogPlayer, LogDone, Die, Tick, Snapshot, NoSnapshot, Collect, Rewrite, SnapshotDone, CheckEnd
  <2> QED BY <2>1, <2>2, <2>3
<1>5. Kept(r) /\ File(r)' = File(r)
  BY <1>3, <1>4 DEF Kept, File
<1>6. File(r) \in RoomIds /\ Tells(r)
  BY <1>0, <1>5, FilesTyped, Types DEF LogsTell
<1> QED BY <1>1, <1>2, <1>3, <1>5, <1>6 DEF Tells

\* The records of the start of a game are written to the room's own log.
LEMMA OwnFile ==
  ASSUME IInv, NEW r \in RoomIds, StartGame(r) \/ LogDone(r) \/ \E u \in Users : LogPlayer(r, u)
  PROVE  File(r) = r
  BY DEF StartGame, LogDone, LogPlayer, At, IInv, Recovered, File

LEMMA CollectMoves ==
  ASSUME LoopsTyped, NEW r \in RoomIds, NEW u \in Users, Collect(r, u)
  PROVE  /\ loop[r].pc = "collect" /\ loop'[r].pc = loop[r].pc /\ u \in loop[r].todo
         /\ loop'[r].todo = loop[r].todo \ {u} /\ loop'[r].seen = loop[r].seen \cup {u}
<1> DEFINE l == [loop[r] EXCEPT !.todo = @ \ {u}, !.seen = @ \cup {u},
                                !.living = IF hp[u] > 0 THEN @ \cup {u} ELSE @]
<1>1. loop' = [loop EXCEPT ![r] = l]
  BY DEF Collect, LoopsTyped
<1>2. l.pc = loop[r].pc /\ l.todo = loop[r].todo \ {u} /\ l.seen = loop[r].seen \cup {u}
  BY DEF LoopsTyped, LoopType
<1>3. loop'[r] = l
  BY <1>1 DEF LoopsTyped
<1> HIDE DEF l
<1> QED BY <1>2, <1>3 DEF Collect, At

LEMMA LogTellsWhenCalm ==
  ASSUME KeptInv, NEW r \in RoomIds, Kept(r)',
         Tick(r) \/ Snapshot(r) \/ NoSnapshot(r) \/ CheckEnd(r) \/ \E u \in Users : Collect(r, u)
  PROVE  Tells(r)'
<1>0. TypeOK /\ LoopsTyped /\ loop[r] \in LoopType /\ DOMAIN loop = RoomIds
  BY DEF KeptInv, PlacedInv, IInv, TypeOK, LoopsTyped
<1>1. GameLoop(r)
  BY DEF GameLoop
<1>2. UNCHANGED <<fileVars, playerVars, absent, missed, wal, revived>> /\ ~StartGame(r)
  <2>1. UNCHANGED <<fileVars, playerVars, absent, missed, wal, revived>>
    BY Zenon DEF Tick, Snapshot, NoSnapshot, CheckEnd, Collect, sideVars, history
  <2>2. ~StartGame(r)
    BY Zenon DEF Tick, Snapshot, NoSnapshot, CheckEnd, Collect, StartGame, Kept, roomVars
  <2> QED BY <2>1, <2>2
<1>3. Kept(r) /\ File(r)' = File(r) /\ Tells(r) /\ UNCHANGED <<seats, strays>> /\ File(r) \in files'
  BY <1>1, <1>2, OwnRoomKept
<1>f. PICK f \in RoomIds : f = File(r) /\ f = File(r)'
  BY <1>1, <1>2, OwnRoomKept
<1>4. /\ loop[r].pc \in QuietPCs /\ loop'[r].pc \in QuietPCs
      /\ loop'[r].pc = "collect" => \/ loop'[r].todo = Members(r)
                                    \/ /\ loop[r].pc = "collect"
                                       /\ loop'[r].todo \cup loop'[r].seen = loop[r].todo \cup loop[r].seen
  <2>1. CASE Tick(r) \/ NoSnapshot(r) \/ CheckEnd(r)
    <3>1. \E pc \in {"tick", "judge", "top", "end"} : Goto(r, pc)
      BY <1>3, <2>1 DEF Tick, NoSnapshot, CheckEnd, Verdict, Kept
    <3>2. loop'[r].pc \in {"tick", "judge", "top", "end"}
      BY <1>0, <3>1 DEF Goto, LoopType
    <3> QED BY <2>1, <3>2 DEF Tick, NoSnapshot, CheckEnd, At, QuietPCs
  <2>2. CASE Snapshot(r)
    BY <1>0, <2>2 DEF Snapshot, With, NoLoop, At, QuietPCs
  <2>3. ASSUME NEW u \in Users, Collect(r, u)
        PROVE  /\ loop[r].pc = "collect" /\ loop'[r].pc = "collect"
               /\ loop'[r].todo \cup loop'[r].seen = loop[r].todo \cup loop[r].seen
    <3>1. loop[r].pc = "collect" /\ loop'[r].pc = loop[r].pc /\ u \in loop[r].todo
          /\ loop'[r].todo = loop[r].todo \ {u} /\ loop'[r].seen = loop[r].seen \cup {u}
      BY <1>0, <2>3, CollectMoves
    <3> QED BY <3>1
  <2> QED BY <2>1, <2>2, <2>3 DEF QuietPCs
<1>5. ASSUME NEW u \in Members(r)', u \notin strays' \cup absent'
      PROVE  (u \notin missed' => TellsOf(r, u)') /\ Collected(r, u)'
  <2>1. u \in Members(r) \ (strays \cup absent)
    BY <1>2, <1>3, <1>5 DEF Members
  <2>2. (u \notin missed => TellsOf(r, u)) /\ Collected(r, u)
    BY <1>3, <2>1 DEF Tells
  <2>3. Harmless(u, f)
    BY <1>2, UntouchedHarmless DEF fileVars, playerVars
  <2>4. u \notin missed' => TellsOf(r, u)'
    <3>1. (Lives(u)' => Lives(u)) /\ (IsDead(u)' => IsDead(u))
      BY <1>2 DEF Lives, IsDead, playerVars
    <3>2. loop[r].pc \notin WritingPCs /\ loop'[r].pc \notin WritingPCs
      BY <1>4 DEF QuietPCs, WritingPCs
    <3> QED BY <1>2, <1>f, <1>4, <2>2, <2>3, <3>1, <3>2, StillTells
  <2>5. Collected(r, u)'
    BY <1>2, <1>4, <2>1, <2>2 DEF Collected, At, playerVars
  <2> QED BY <2>4, <2>5
<1> QED BY <1>3, <1>5 DEF Tells

\* The writer has written of everybody, and syncs.
LEMMA LogTellsWhenSynced ==
  ASSUME KeptInv, NEW r \in RoomIds, Kept(r)', LogDone(r) \/ SnapshotDone(r)
  PROVE  Tells(r)'
<1>0. TypeOK /\ IInv /\ loop[r] \in LoopType /\ DOMAIN loop = RoomIds
  BY DEF KeptInv, PlacedInv, IInv, TypeOK
<1>1. GameLoop(r)
  BY DEF GameLoop
<1>2. /\ UNCHANGED <<playerVars, absent, missed, revived>> /\ ~StartGame(r)
      /\ loop[r].pc \in WritingPCs /\ loop[r].todo = {}
  <2>1. /\ UNCHANGED <<playerVars, absent, missed, revived, roomStatus>>
        /\ loop[r].pc \in WritingPCs /\ loop[r].todo = {}
    BY DEF LogDone, SnapshotDone, At, sideVars, roomVars, history, WritingPCs
  <2>2. ~StartGame(r)
    BY <2>1 DEF StartGame, Kept
  <2> QED BY <2>1, <2>2
<1>3. Kept(r) /\ File(r)' = File(r) /\ File(r) \in RoomIds /\ Tells(r)
      /\ UNCHANGED <<seats, strays>> /\ File(r) \in files'
  BY <1>1, <1>2, OwnRoomKept
<1>f. PICK f \in RoomIds : f = File(r) /\ f = File(r)'
  BY <1>3
<1>4. Sync(f)
  <2>1. wal[r] = "open"
    BY <1>3 DEF Kept
  <2>2. LogDone(r) => f = r
    BY <1>0, <1>f, OwnFile
  <2> QED BY <1>f, <2>1, <2>2 DEF LogDone, SnapshotDone
<1>5. logged'[f] = logged[f] /\ disk'[f] = logged[f]
  BY <1>0, <1>4 DEF Sync, WriteAndSync, Written, TypeOK
<1>6. loop'[r].pc \in QuietPCs \ {"collect"}
  <2>1. CASE LogDone(r)
    BY <1>0, <2>1 DEF LogDone, Goto, LoopType, QuietPCs
  <2>2. CASE SnapshotDone(r)
    BY <1>0, <2>2 DEF SnapshotDone, With, NoLoop, QuietPCs
  <2> QED BY <2>1, <2>2
<1>7. ASSUME NEW u \in Members(r)', u \notin strays' \cup absent'
      PROVE  (u \notin missed' => TellsOf(r, u)') /\ Collected(r, u)'
  <2>1. u \in Members(r) \ (strays \cup absent)
    BY <1>2, <1>3, <1>7 DEF Members
  <2>2. u \notin missed => TellsOf(r, u)
    BY <1>3, <2>1 DEF Tells
  <2>3. u \notin missed' => TellsOf(r, u)'
    <3> SUFFICES ASSUME u \notin missed PROVE TellsOf(r, u)'
      BY <1>2
    <3>1. (Lives(u) => InLog(u, f)) /\ (IsDead(u) => DeadInLog(u, f))
      BY <1>2, <1>f, <2>2 DEF TellsOf
    <3>2. /\ (Lives(u)' <=> Lives(u)) /\ (IsDead(u)' <=> IsDead(u))
          /\ (InLog(u, f)' <=> InLog(u, f)) /\ (DeadInLog(u, f)' <=> DeadInLog(u, f))
      BY <1>2, <1>5 DEF Lives, IsDead, playerVars, InLog, DeadInLog
    <3>3. loop'[r].pc \notin WritingPCs /\ File(r)' = f
      BY <1>f, <1>6 DEF QuietPCs, WritingPCs
    <3> QED BY <1>5, <3>1, <3>2, <3>3 DEF TellsOf, InLog
  <2>4. Collected(r, u)'
    BY <1>6 DEF Collected, At
  <2> QED BY <2>3, <2>4
<1> QED BY <1>3, <1>7 DEF Tells

-----------------------------------------------------------------------------
\* A game begins: everybody is still to be written.
LEMMA LogTellsAtStart ==
  ASSUME KeptInv, NEW r \in RoomIds, StartGame(r)
  PROVE  Tells(r)'
<1>0. TypeOK /\ IInv
  BY DEF KeptInv, PlacedInv, IInv
<1>1. originalRoomID[r] = None /\ UNCHANGED <<seats, originalRoomID>> /\ r \in files'
  BY <1>0 DEF StartGame, IInv, Recovered, waitVars
<1>2. File(r)' \in files'
  BY <1>1 DEF File
<1>3. loop'[r].pc = "log" /\ loop'[r].todo = Members(r)'
  BY <1>0, <1>1 DEF StartGame, With, NoLoop, Members, TypeOK
<1> QED BY <1>2, <1>3 DEF Tells, TellsOf, Collected, At, QuietPCs, WritingPCs

\* Somebody's record is written, by startGame() or by a snapshot.
LEMMA LogTellsWhenWritten ==
  ASSUME KeptInv, NEW r \in RoomIds, Kept(r)', NEW w \in Users, LogPlayer(r, w) \/ Rewrite(r, w)
  PROVE  Tells(r)'
<1>0. TypeOK /\ IInv /\ Numbered /\ loop[r] \in LoopType /\ DOMAIN loop = RoomIds
  BY DEF KeptInv, PlacedInv, IInv, TypeOK
<1>1. GameLoop(r)
  BY DEF GameLoop
<1>2. UNCHANGED <<playerVars, absent, files, revived>> /\ ~StartGame(r) /\ loop[r].pc \in WritingPCs
  <2>1. UNCHANGED <<playerVars, absent, files, revived, roomStatus>> /\ loop[r].pc \in WritingPCs
    BY DEF LogPlayer, Rewrite, At, sideVars, roomVars, history, WritingPCs
  <2>2. ~StartGame(r)
    BY <2>1 DEF StartGame, Kept
  <2> QED BY <2>1, <2>2
<1>3. Kept(r) /\ File(r)' = File(r) /\ File(r) \in RoomIds /\ Tells(r)
      /\ UNCHANGED <<seats, strays>> /\ File(r) \in files'
  BY <1>1, <1>2, OwnRoomKept
<1>4. PICK f \in RoomIds : f = File(r) /\ f = File(r)'
  BY <1>3
<1>5. loop'[r].pc = loop[r].pc /\ loop'[r].todo = loop[r].todo \ {w}
  BY <1>0 DEF LogPlayer, Rewrite, LoopType
<1>6. PICK living \in BOOLEAN :
        /\ Write(f, Joined(logged[f], w, id[w], living))
        /\ LogPlayer(r, w) => living = (hp[w] > 0)
        /\ Rewrite(r, w) => living = (w \in loop[r].living)
  <2>1. wal[r] = "open"
    BY <1>3 DEF Kept
  <2>2. CASE LogPlayer(r, w)
    <3>1. f = r
      BY <1>0, <1>4, <2>2, OwnFile
    <3>2. Write(f, Joined(logged[f], w, id[w], hp[w] > 0)) /\ ~Rewrite(r, w)
      BY <2>1, <2>2, <3>1 DEF LogPlayer, Rewrite, At
    <3> WITNESS (hp[w] > 0) \in BOOLEAN
    <3> QED BY <2>2, <3>2
  <2>3. CASE Rewrite(r, w)
    <3>1. Write(f, Joined(logged[f], w, id[w], w \in loop[r].living)) /\ ~LogPlayer(r, w)
      BY <2>1, <2>3, <1>4 DEF LogPlayer, Rewrite, At
    <3> WITNESS (w \in loop[r].living) \in BOOLEAN
    <3> QED BY <2>3, <3>1
  <2> QED BY <2>2, <2>3
<1>7. ASSUME NEW u \in Members(r)', u \notin strays' \cup absent'
      PROVE  (u \notin missed' => TellsOf(r, u)') /\ Collected(r, u)'
  <2>1. u \in Members(r) \ (strays \cup absent) /\ u \in Users
    BY <1>2, <1>3, <1>7 DEF Members
  <2>2. u \notin missed => TellsOf(r, u)
    BY <1>3, <2>1 DEF Tells
  <2>3. /\ (Lives(u)' <=> Lives(u)) /\ (IsDead(u)' <=> IsDead(u))
        /\ status'[u] = status[u] /\ hp'[u] = hp[u] /\ id'[u] = id[u]
    BY <1>2 DEF Lives, IsDead, playerVars
  <2>4. ASSUME u # w, u \notin missed' PROVE TellsOf(r, u)'
    <3>1. u \notin missed
      <4>1. CASE LogPlayer(r, w)
        BY <2>4, <4>1 DEF LogPlayer, history
      <4>2. CASE Rewrite(r, w)
        BY <2>4, <4>2 DEF Rewrite
      <4> QED BY <4>1, <4>2
    <3>2. Harmless(u, f)
      BY <1>0, <1>6, <2>1, <2>3, <2>4, JoinedHarmless
    <3>3. u \in loop[r].todo => u \in loop'[r].todo
      BY <1>5, <2>4
    <3> QED BY <1>4, <1>5, <2>2, <2>3, <3>1, <3>2, <3>3, StillTells
  <2>5. ASSUME u = w, u \notin missed', status[u] \in {"gaming", "dead"} PROVE TellsOf(r, u)'
    <3>1. living = (hp[u] > 0)
      <4>1. CASE LogPlayer(r, w)
        BY <1>6, <2>5, <4>1
      <4>2. CASE Rewrite(r, w)
        <5>1. (u \in loop[r].living) = (hp[u] > 0)
          BY <2>1, <2>5, <4>2 DEF Rewrite
        <5> QED BY <1>6, <2>5, <4>2, <5>1
      <4> QED BY <4>1, <4>2
    <3>2. logged'[f] = Joined(logged[f], u, id[u], living) /\ logged[f] \in LogType
      BY <1>0, <1>3, <1>4, <1>6, <1>2, <2>5 DEF Write, Written, TypeOK
    <3>3. logged'[f].ids[u] = id[u] /\ (u \in logged'[f].alive <=> living)
      BY <2>1, <3>2 DEF Joined, LogType
    <3>4. Lives(u) => InLog(u, f)'
      BY <2>3, <3>1, <3>3 DEF InLog, Lives
    <3>5. IsDead(u) => DeadInLog(u, f)'
      <4> SUFFICES ASSUME IsDead(u) PROVE DeadInLog(u, f)'
        OBVIOUS
      <4>1. hp[u] = 0
        BY <1>0, <2>1 DEF Numbered, IsDead
      <4>2. ~(hp[u] > 0)
        BY <4>1
      <4>3. ~living
        BY <3>1, <4>2, Zenon
      <4> QED BY <2>3, <3>3, <4>3 DEF DeadInLog
    <3>6. loop'[r].pc \notin QuietPCs
      BY <1>2, <1>5 DEF QuietPCs, WritingPCs
    <3> QED BY <1>4, <2>3, <3>4, <3>5, <3>6 DEF TellsOf, InLog
  <2>6. status[u] \notin {"gaming", "dead"} => TellsOf(r, u)'
    BY <2>3 DEF TellsOf, Lives, IsDead
  <2>7. Collected(r, u)'
    BY <1>2, <1>5 DEF Collected, At, WritingPCs
  <2> QED BY <2>4, <2>5, <2>6, <2>7
<1> QED BY <1>3, <1>7 DEF Tells

\* A snapshot has passed over nobody, and now writes the log anew.
LEMMA LogTellsWhenTruncated ==
  ASSUME KeptInv, NEW r \in RoomIds, Kept(r)', Truncate(r)
  PROVE  Tells(r)'
<1>0. TypeOK /\ loop[r] \in LoopType /\ DOMAIN loop = RoomIds
  BY DEF KeptInv, PlacedInv, IInv, TypeOK
<1>1. GameLoop(r) /\ ~StartGame(r) /\ UNCHANGED playerVars /\ At(r, "collect") /\ loop[r].todo = {}
  <2>1. GameLoop(r) /\ UNCHANGED <<playerVars, roomVars>> /\ At(r, "collect") /\ loop[r].todo = {}
    BY DEF GameLoop, Truncate
  <2>2. ~StartGame(r)
    BY <2>1 DEF StartGame, Kept, roomVars
  <2> QED BY <2>1, <2>2
<1>2. File(r)' = File(r) /\ Tells(r) /\ UNCHANGED <<seats, strays>> /\ File(r) \in files'
  BY <1>1, OwnRoomKept
<1>3. loop'[r].pc = "rewrite" /\ loop'[r].todo = loop[r].seen
  BY <1>0 DEF Truncate, LoopType
<1>4. ASSUME NEW u \in Members(r)', u \notin strays' \cup absent', status'[u] \in {"gaming", "dead"}
      PROVE  u \in loop'[r].todo
  <2>1. u \in Members(r) /\ u \notin strays /\ status[u] \in {"gaming", "dead"}
    BY <1>1, <1>2, <1>4 DEF Members, playerVars
  <2>2. u \notin absent => u \in loop[r].seen
    BY <1>1, <1>2, <2>1 DEF Tells, Collected
  <2>3. u \in absent => u \in loop[r].seen
    BY <1>4 DEF Truncate
  <2> QED BY <1>3, <2>2, <2>3
<1>5. ASSUME NEW u \in Members(r)', u \notin strays' \cup absent'
      PROVE  TellsOf(r, u)' /\ Collected(r, u)'
  BY <1>3, <1>4, <1>5 DEF TellsOf, Lives, IsDead, Collected, At, QuietPCs, WritingPCs
<1> QED BY <1>2, <1>5 DEF Tells

\* Somebody dies.
LEMMA LogTellsOfTheDead ==
  ASSUME KeptInv, NEW r \in RoomIds, Kept(r)', NEW w \in Users, Die(w, r)
  PROVE  Tells(r)'
<1>0. TypeOK /\ Numbered
  BY DEF KeptInv, PlacedInv, IInv
<1>1. /\ GameLoop(r) /\ w \in Members(r) /\ status[w] = "gaming" /\ hp[w] > 0
      /\ status'[w] = "dead" /\ \A u \in Users \ {w} : status'[u] = status[u] /\ hp'[u] = hp[u]
      /\ UNCHANGED <<id, files, loop, absent, missed, roomStatus>> /\ revived \subseteq revived'
  BY <1>0 DEF GameLoop, Die, history, roomVars, TypeOK
<1>2. ~StartGame(r)
  <2>1. roomStatus'[r] = "gaming"
    BY DEF Kept
  <2> QED BY <1>1, <2>1 DEF StartGame
<1>3. Kept(r) /\ File(r)' = File(r) /\ File(r) \in RoomIds /\ Tells(r)
      /\ UNCHANGED <<seats, strays>> /\ File(r) \in files'
  BY <1>1, <1>2, OwnRoomKept
<1>4. PICK f \in RoomIds : f = File(r) /\ f = File(r)'
  BY <1>3
<1>5. Write(f, Killed(logged[f], id[w]))
  BY <1>3, <1>4 DEF Die, Kept
<1>6. ASSUME NEW u \in Members(r)', u \notin strays' \cup absent'
      PROVE  (u \notin missed' => TellsOf(r, u)') /\ Collected(r, u)'
  <2>1. u \in Members(r) \ (strays \cup absent) /\ u \in Users
    BY <1>1, <1>3, <1>6 DEF Members
  <2>2. (u \notin missed => TellsOf(r, u)) /\ Collected(r, u)
    BY <1>3, <2>1 DEF Tells
  <2>3. ASSUME u = w, u \notin missed' PROVE TellsOf(r, u)'
    <3>1. /\ loop[r].pc \in QuietPCs => InLog(u, f)
          /\ loop[r].pc \in WritingPCs => u \in loop[r].todo \/ InLog(u, f)
      BY <1>1, <1>4, <2>2, <2>3 DEF TellsOf, Lives
    <3>2. logged'[f] = Killed(logged[f], id[u]) /\ logged[f] \in LogType
      BY <1>0, <1>1, <1>3, <1>4, <1>5, <2>3 DEF Write, Written, TypeOK
    <3>3. InLog(u, f) => DeadInLog(u, f)'
      BY <3>2 DEF InLog, DeadInLog, Killed, LogType
    <3>4. status'[u] = "dead" /\ loop' = loop
      BY <1>1, <2>3
    <3> QED BY <1>4, <3>1, <3>3, <3>4 DEF TellsOf, Lives, IsDead
  <2>4. ASSUME u # w, u \notin missed' PROVE TellsOf(r, u)'
    <3>1. (IsDead(u)' => IsDead(u)) /\ (Lives(u)' => Lives(u)) /\ u \notin missed
      BY <1>1, <2>1, <2>4 DEF Lives, IsDead
    <3>2. id[u] # id[w]
      BY <1>0, <1>1, <2>1, <2>4 DEF Numbered
    <3>3. Harmless(u, f)
      BY <1>0, <1>1, <1>5, <2>1, <3>2, KilledHarmless
    <3> QED BY <1>1, <1>4, <2>2, <3>1, <3>3, StillTells
  <2>5. Collected(r, u)'
    <3>1. status'[u] \in {"gaming", "dead"} => status[u] \in {"gaming", "dead"}
      BY <1>1, <2>1
    <3> QED BY <1>1, <2>2, <3>1 DEF Collected, At
  <2> QED BY <2>3, <2>4, <2>5
<1> QED BY <1>3, <1>6 DEF Tells

LEMMA LogsTellByLoops == ASSUME KeptInv, NEW r \in RoomIds, GameLoop(r) PROVE LogsTell'
<1>1. ASSUME NEW s \in RoomIds \ {r}, Kept(s)' PROVE Tells(s)'
  BY <1>1, LogsTellElsewhere
<1>2. ASSUME Kept(r)' PROVE Tells(r)'
  <2>1. CASE StartGame(r)
    BY <2>1, LogTellsAtStart
  <2>2. CASE ~StartGame(r)
    <3>1. ~EndGame(r) /\ ~CloseGame(r) /\ (\A u \in Users : ~ResetPlayer(r, u))
      BY <1>2, <2>2, OwnRoomKept
    <3>2. CASE Tick(r) \/ Snapshot(r) \/ NoSnapshot(r) \/ CheckEnd(r) \/ \E u \in Users : Collect(r, u)
      BY <1>2, <3>2, LogTellsWhenCalm
    <3>3. CASE LogDone(r) \/ SnapshotDone(r)
      BY <1>2, <3>3, LogTellsWhenSynced
    <3>4. CASE \E u \in Users : LogPlayer(r, u) \/ Rewrite(r, u)
      BY <1>2, <3>4, LogTellsWhenWritten
    <3>5. CASE Truncate(r)
      BY <1>2, <3>5, LogTellsWhenTruncated
    <3>6. CASE \E u \in Users : Die(u, r)
      BY <1>2, <3>6, LogTellsOfTheDead
    <3> QED BY <2>2, <3>1, <3>2, <3>3, <3>4, <3>5, <3>6 DEF GameLoop
  <2> QED BY <2>1, <2>2
<1> QED BY <1>1, <1>2 DEF LogsTell

-----------------------------------------------------------------------------
(* The potions, and the loops of refused starts. *)

\* Who has a potion in his hands is not dead, or marked as revived.
LEMMA LogsTellByPotions == ASSUME KeptInv, NEW w \in Users, Potion(w) PROVE LogsTell'
<1> USE NumbersTyped
<1>0. TypeOK /\ IInv /\ Numbered /\ LogsTell
  BY DEF KeptInv, PlacedInv, IInv
<1>1. /\ UNCHANGED <<files, status, id, rooms, seats, roomStatus, originalRoomID, wal, loop, extra, revived>>
      /\ UNCHANGED <<strays, absent, missed, seedings>>
  BY PotionFrame DEF roomVars, waitVars, history
<1>2. \A u \in Users : IsDead(u) => id[u] # id[w]
  <2>1. potion[w].pc # "none" \/ status[w] = "gaming"
    BY DEF Potion, Drink, Heal, LogPotion
  <2>2. ~IsDead(w)
    BY <1>0, <2>1 DEF Numbered, IsDead
  <2> QED BY <1>0, <2>2 DEF Numbered, IsDead
<1>3. UNCHANGED <<disk, logged>> \/ \E g \in RoomIds : Write(g, Healed(logged[g], id[w]))
  <2>1. CASE LogPotion(w)
    <3>1. potion[w].r \in RoomIds
      BY <1>0, <2>1 DEF LogPotion, TypeOK, NoPotion
    <3>2. PICK g \in RoomIds : g = File(potion[w].r)
      BY <1>0, <3>1, FilesTyped, Types
    <3> QED BY <2>1, <3>2 DEF LogPotion
  <2> QED BY <2>1 DEF Potion, Drink, Heal, fileVars
<1> SUFFICES ASSUME NEW s \in RoomIds, Kept(s)' PROVE Tells(s)'
  BY DEF LogsTell
<1>4. PICK f \in RoomIds : f = File(s)
  BY <1>0, FilesTyped, Types
<1>5. Kept(s) /\ File(s)' = f
  BY <1>1, <1>4 DEF Kept, File, doubled
<1>6. Tells(s)
  BY <1>0, <1>5 DEF LogsTell
<1>7. ASSUME NEW u \in Members(s)', u \notin strays' \cup absent'
      PROVE  (u \notin missed' => TellsOf(s, u)') /\ Collected(s, u)'
  <2>1. u \in Users /\ u \in Members(s) \ (strays \cup absent)
    BY <1>1, <1>7 DEF Members
  <2>2. (u \notin missed => TellsOf(s, u)) /\ Collected(s, u)
    BY <1>6, <2>1 DEF Tells
  <2>3. Harmless(u, f)
    <3>1. CASE UNCHANGED <<disk, logged>>
      BY <1>1, <3>1, UntouchedHarmless
    <3>2. ASSUME NEW g \in RoomIds, Write(g, Healed(logged[g], id[w])) PROVE Harmless(u, f)
      <4>1. IsDead(u)' => id[u] # id[w]
        BY <1>1, <1>2, <2>1 DEF IsDead
      <4> QED BY <1>0, <1>1, <2>1, <3>2, <4>1, HealedHarmless
    <3> QED BY <1>3, <3>1, <3>2
  <2>4. (Lives(u)' => Lives(u)) /\ (IsDead(u)' => IsDead(u))
    <3>1. status[u] = "gaming" => hp[u] > 0
      BY <1>0, <2>1 DEF Numbered
    <3> QED BY <1>1, <3>1 DEF Lives, IsDead
  <2>5. u \notin missed' => TellsOf(s, u)'
    BY <1>1, <1>4, <1>5, <2>2, <2>3, <2>4, StillTells
  <2>6. Collected(s, u)'
    BY <1>1, <2>2 DEF Collected, At
  <2> QED BY <2>5, <2>6
<1> QED BY <1>1, <1>4, <1>5, <1>6, <1>7 DEF Tells

\* They write to the log of their room only, which nobody else's is.
LEMMA LogsTellByExtraLoops == ASSUME KeptInv, NEW r \in RoomIds, ExtraLoops(r) PROVE LogsTell'
<1> USE NumbersTyped
<1>0. TypeOK /\ IInv /\ LogsTell
  BY DEF KeptInv, PlacedInv, IInv
<1>1. /\ UNCHANGED <<id, rooms, seats, originalRoomID, absent, missed, seedings>>
      /\ UNCHANGED revived
  BY ExtraFrame DEF waitVars
<1>2. /\ r \in doubled' /\ (r \in rooms \/ roomStatus[r] = "ended" \/ extra[r].pc # "none")
      /\ \A s \in RoomIds \ {r} : /\ loop'[s] = loop[s] /\ roomStatus'[s] = roomStatus[s]
                                  /\ wal'[s] = wal[s] /\ extra'[s] = extra[s]
                                  /\ logged'[s] = logged[s] /\ disk'[s] = disk[s]
                                  /\ s \in files => s \in files'
  <2>1. CASE RefusedStart(r)
    BY <1>0, <2>1, RefusedMoves DEF TypeOK
  <2>2. CASE ~RefusedStart(r)
    BY <1>0, <2>2, ExtraMoves DEF doubled
  <2> QED BY <2>1, <2>2
<1>3. UNCHANGED <<status, hp, strays>> \/ \E w \in Users : ExtraReset(r, w)
  BY DEF ExtraLoops, RefusedStart, LoopStops, ExtraSnapshot, ExtraEnd, ExtraClose, playerVars, history
<1>4. /\ strays \subseteq strays'
      /\ \A u \in Users : status'[u] \in {"gaming", "dead"} => status'[u] = status[u] /\ hp'[u] = hp[u]
  BY <1>0, <1>3 DEF ExtraReset, TypeOK
<1> SUFFICES ASSUME NEW s \in RoomIds, Kept(s)' PROVE Tells(s)'
  BY DEF LogsTell
<1>5. s # r
  BY <1>2 DEF Kept
<1>6. PICK f \in RoomIds : f = File(s)
  BY <1>0, FilesTyped, Types
<1>7. Kept(s) /\ File(s)' = f
  <2>1. s \notin doubled
    BY <1>2, <1>5 DEF Kept, doubled
  <2> QED BY <1>1, <1>2, <1>5, <1>6, <2>1 DEF Kept, File
<1>8. f # r
  <2> SUFFICES ASSUME f = r PROVE FALSE
    OBVIOUS
  <2>1. originalRoomID[s] # None /\ originalRoomID[s] = r
    BY <1>5, <1>6 DEF File
  <2>2. Gone(r)
    BY <1>0, <2>1 DEF IInv, FromBefore
  <2> QED BY <1>2, <2>2 DEF Gone
<1>9. Tells(s)
  BY <1>0, <1>7 DEF LogsTell
<1>10. ASSUME NEW u \in Members(s)', u \notin strays' \cup absent'
       PROVE  (u \notin missed' => TellsOf(s, u)') /\ Collected(s, u)'
  <2>1. u \in Users /\ u \in Members(s) \ (strays \cup absent)
    BY <1>1, <1>4, <1>10 DEF Members
  <2>2. (u \notin missed => TellsOf(s, u)) /\ Collected(s, u)
    BY <1>9, <2>1 DEF Tells
  <2>3. Harmless(u, f)
    BY <1>1, <1>2, <1>8, UntouchedHarmless
  <2>4. (Lives(u)' => Lives(u)) /\ (IsDead(u)' => IsDead(u))
    BY <1>1, <1>4, <2>1 DEF Lives, IsDead
  <2>5. loop'[s] = loop[s]
    BY <1>2, <1>5
  <2>6. u \notin missed' => TellsOf(s, u)'
    BY <1>1, <1>6, <1>7, <2>2, <2>3, <2>4, <2>5, StillTells
  <2>7. Collected(s, u)'
    BY <1>4, <2>1, <2>2, <2>5 DEF Collected, At
  <2> QED BY <2>6, <2>7
<1>11. f \in files'
  BY <1>2, <1>6, <1>8, <1>9 DEF Tells
<1> QED BY <1>7, <1>10, <1>11 DEF Tells

LEMMA KeptInvKept == KeptInv /\ [Next]_vars => KeptInv'
<1> SUFFICES ASSUME KeptInv, [Next]_vars PROVE KeptInv'
  OBVIOUS
<1>0. PlacedInv /\ IInv /\ TypeOK /\ Born /\ Counted
  BY DEF KeptInv, PlacedInv, IInv
<1>1. PlacedInv'
  BY <1>0, PlacedInvKept
<1>2. CASE Next
  <2>1. Outside' /\ Numbered' /\ SeededAlone'
    BY <1>0, <1>2, OutsideKept, NumberedKept, SeededAloneKept DEF KeptInv
  <2>2. LogsTell'
    <3>1. CASE Restart
      BY <3>1 DEF Restart, LogsTell, Kept
    <3> QED BY <1>0, <1>2, <3>1, LogsTellByConnections, LogsTellByPotions, LogsTellByLoops, LogsTellByExtraLoops DEF Next
  <2> QED BY <1>1, <2>1, <2>2 DEF KeptInv
<1>3. CASE UNCHANGED vars
  <2>1. Outside' /\ Numbered' /\ SeededAlone'
    BY <1>3 DEF KeptInv, Outside, Numbered, SeededAlone, Members, At, RestoreAt, vars, playerVars, roomVars,
                idVars, recVars, sideVars
  <2>2. LogsTell'
    BY <1>3 DEF KeptInv, LogsTell, Kept, Tells, TellsOf, Collected, InLog, DeadInLog, Lives, IsDead, doubled, File,
                Members, At, vars, playerVars, roomVars, fileVars, waitVars, sideVars, history
  <2> QED BY <1>1, <2>1, <2>2 DEF KeptInv
<1> QED BY <1>2, <1>3

LEMMA KeptInvHolds == Spec => []KeptInv
<1>1. Init => KeptInv
  <2> SUFFICES ASSUME Init PROVE KeptInv
    OBVIOUS
  <2>1. PlacedInv
    BY PlacedInvInit
  <2>2. Outside /\ Numbered /\ SeededAlone
    BY NumbersTyped DEF Init, Outside, Numbered, SeededAlone, Members, At, RestoreAt, NoLoop, NoExtra, None
  <2>3. LogsTell
    BY DEF Init, LogsTell, Kept
  <2> QED BY <2>1, <2>2, <2>3 DEF KeptInv
<1> QED BY <1>1, KeptInvKept, PTL DEF Spec

\* Whoever lives in a game is alive in what a crash would leave of its log, whatever number
\* of games, players and crashes there is and whatever ids are given anew, but for the late
\* returns, the moment of a snapshot, what a snapshot missed, and rooms that have had a
\* refused start: two loops with two writers may lose anything there (room.go:285-317,
\* snapshot.go:78-141, http.go:267-272).
THEOREM LivingAreLogged == Spec => []LivingAreKept
<1>1. KeptInv => LivingAreKept
  <2> SUFFICES ASSUME KeptInv, NEW r \in rooms \ doubled, Quiet(r), seedings[File(r)] <= 1,
                      NEW u \in Alive(r), u \notin strays \cup absent \cup missed
               PROVE  u \in disk[File(r)].alive
    BY DEF LivingAreKept
  <2>1. r \in RoomIds
    BY DEF KeptInv, PlacedInv, IInv, TypeOK
  <2>2. Kept(r) /\ loop[r].pc \in QuietPCs
    BY DEF Quiet, Kept, QuietPCs
  <2>3. u \in Members(r) /\ Lives(u)
    BY DEF Alive, Lives
  <2>4. TellsOf(r, u)
    BY <2>1, <2>2, <2>3 DEF KeptInv, LogsTell, Tells
  <2> QED BY <2>2, <2>3, <2>4 DEF TellsOf
<1> QED BY <1>1, KeptInvHolds, PTL

\* Whoever has died in a game is dead in what a crash would leave of its log once that is
\* synced, with the same exceptions and but for those who died with a potion in their hands:
\* drunk after the death, it has the next snapshot write them alive (snapshot.go:95-141,
\* game.go:149, game.go:204-227, game.go:314).
THEOREM DeathsAreLogged == Spec => []DeathsAreKept
<1>1. KeptInv => DeathsAreKept
  <2> SUFFICES ASSUME KeptInv, NEW r \in rooms \ doubled, Quiet(r), seedings[File(r)] <= 1, disk[File(r)] = logged[File(r)],
                      NEW u \in Members(r) \ (strays \cup absent \cup missed \cup revived), status[u] = "dead"
               PROVE  u \notin disk[File(r)].alive
    BY DEF DeathsAreKept
  <2>1. r \in RoomIds
    BY DEF KeptInv, PlacedInv, IInv, TypeOK
  <2>2. Kept(r) /\ loop[r].pc \in QuietPCs
    BY DEF Quiet, Kept, QuietPCs
  <2>3. TellsOf(r, u)
    BY <2>1, <2>2 DEF KeptInv, LogsTell, Tells
  <2> QED BY <2>2, <2>3 DEF TellsOf, IsDead, DeadInLog
<1> QED BY <1>1, KeptInvHolds, PTL
=============================================================================
