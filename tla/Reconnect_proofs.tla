-------------------------- MODULE Reconnect_proofs --------------------------
(***************************************************************************)
(* What holds of the return to a recovered game for any number of users,   *)
(* rooms, logins and restarts.                                             *)
(***************************************************************************)
EXTENDS Reconnect, FiniteSetTheorems, SequenceTheorems, WellFoundedInduction, TLAPS

\* The room a user sits in: from the middle of his return on, main.r.
Place(u) == IF At("state") /\ u = main.u THEN main.r ELSE room[u]

\* Slots, count and rooms of the players agree in the middle of a login, too.
Seats == \A r \in RoomIds : /\ members[r] = {u \in Users : Place(u) = r}
                            /\ count[r] = Cardinality(members[r])

\* The locals of the main thread.  Rooms go only between commands, so the room
\* it has found stays.
MainLocals ==
    /\ main.pc \in {"find", "seat", "state", "launch", "cleanup"} => main.u \in Users
    /\ main.pc \in {"seat", "state", "launch", "cleanup"} => main.r \in table
    /\ main.pc \in {"find", "seat"} => st[main.u] = "lobby"
    /\ main.pc \in {"find", "seat", "state"} => room[main.u] = 0

\* Whom a status puts outside, and inside.
Whereabouts == \A u \in Users : /\ st[u] \in {"off", "lobby"} => room[u] = 0
                                /\ st[u] = "gaming" => room[u] # 0

\* A room that is not there, or not yet, has nobody and nothing.
NoGhosts ==
    /\ table \subseteq 1..made
    /\ \A r \in RoomIds \ table :
          members[r] = {} /\ thr[r].pc = "none" /\ expected[r] = 0

\* What the status of a room says of its thread, which collected members only.
Threads ==
    \A r \in RoomIds :
        /\ thr[r].ids \subseteq members[r]
        /\ thr[r].pc \in {"tick", "clear", "count", "end"} => status[r] = "gaming"
        /\ thr[r].pc \in {"reset", "files"} => status[r] = "ended"

\* One room and its one entry among those of all games, until the file is gone.
OnlyEntry(r) ==
    \E i \in DOMAIN mapping : mapping[i] = r /\ Ours = {i}

OneEntry ==
    ~destroyed /\ ~unmapped =>
        \/ table = {} /\ Ours = {}
        \/ \E r \in RoomIds : table = {r} /\ (offer = {} \/ OnlyEntry(r))

\* Enough players in the room: all have been back.
Reunion == \A r \in table : expected[r] > 0 /\ count[r] >= expected[r] => allBack

\* The file is there as long as the game is, unless all have been back.
Open == ~destroyed /\ ~unmapped /\ ~allBack => \A r \in table : status[r] = "gaming" => offer # {}

\* NobodyStranded in the middle of a login, too.
Played ==
    \A u \in Users \ late : st[u] = "gaming" =>
        \/ status[room[u]] = "gaming"
        \/ thr[room[u]].pc = "reset" /\ u \in thr[room[u]].ids

\* The file lags behind the table while a save goes on, or by those whom saves
\* that failed may cost their account.
Saved == At("save") \/ users \ usersFile.known \subseteq unsaved

IInv == /\ TypeOK /\ Seats /\ MainLocals /\ Whereabouts /\ NoGhosts /\ Threads
        /\ OneEntry /\ Reunion /\ Open /\ Played /\ Saved

-----------------------------------------------------------------------------
(***************************************************************************)
(* The map of all games.                                                   *)
(***************************************************************************)
Entries == RoomIds \cup {0}

LEMMA NoRoomZero == 0 \notin RoomIds
  BY ReconnectAssumption DEF RoomIds

\* The first of one is the one.
LEMMA MinOfOne ==
  ASSUME NEW i \in Nat
  PROVE  Min({i}) = i
  BY DEF Min

\* An entry more.
LEMMA EntryAdded ==
  ASSUME NEW m \in Seq(Entries), NEW n \in Seq(Entries), NEW e \in Entries, n = Append(m, e)
  PROVE  /\ Len(n) = Len(m) + 1 /\ DOMAIN n = 1..Len(m) + 1 /\ DOMAIN m = 1..Len(m)
         /\ n[Len(m) + 1] = e /\ \A j \in 1..Len(m) : n[j] = m[j]
  OBVIOUS

\* An entry less: the last one has moved to its place.
LEMMA EntryRemoved ==
  ASSUME NEW m \in Seq(Entries), NEW i \in DOMAIN m, NEW n, n = Without(m, i)
  PROVE  /\ n \in Seq(Entries) /\ Len(n) = Len(m) - 1
         /\ Len(m) \in Nat /\ i \in 1..Len(m) /\ DOMAIN n = 1..Len(m) - 1
         /\ \A j \in 1..Len(m) - 1 : n[j] = IF j = i THEN m[Len(m)] ELSE m[j]
<1> DEFINE moved == [m EXCEPT ![i] = Last(m)]
<1>1. Len(m) \in Nat /\ i \in 1..Len(m)
  OBVIOUS
<1>2. Last(m) = m[Len(m)] /\ Last(m) \in Entries
  BY <1>1 DEF Last
<1>3. moved \in Seq(Entries) /\ Len(moved) = Len(m)
  BY <1>1, <1>2
<1>4. \A j \in 1..Len(m) : moved[j] = IF j = i THEN m[Len(m)] ELSE m[j]
  BY <1>1, <1>2
<1>5. n = SubSeq(moved, 1, Len(moved) - 1)
  BY DEF Front, Without
<1> HIDE DEF moved
<1>6. n \in Seq(Entries) /\ Len(n) = Len(m) - 1 /\ \A j \in 1..Len(m) - 1 : n[j] = moved[j]
  <2>1. PICK k \in Int : k = Len(m) - 1
    BY <1>1
  <2>2. \A j \in 1..k : moved[j] \in Entries
    BY <1>1, <1>3, <2>1
  <2>3. /\ SubSeq(moved, 1, k) \in Seq(Entries)
        /\ Len(SubSeq(moved, 1, k)) = IF 1 <= k THEN k - 1 + 1 ELSE 0
        /\ \A j \in 1..k - 1 + 1 : SubSeq(moved, 1, k)[j] = moved[1 + j - 1]
    BY <2>2, SubSeqProperties
  <2>4. k \in Nat /\ n = SubSeq(moved, 1, k)
    <3>1. k \in Nat /\ k = Len(moved) - 1
      BY <1>1, <1>3, <2>1
    <3> QED BY <1>5, <3>1, Zenon
  <2>5. n \in Seq(Entries) /\ Len(n) = k
    <3>1. n \in Seq(Entries) /\ Len(n) = IF 1 <= k THEN k - 1 + 1 ELSE 0
      BY <2>3, <2>4, Zenon
    <3> QED BY <2>4, <3>1
  <2>6. ASSUME NEW j \in 1..k PROVE n[j] = moved[j]
    <3>1. j \in 1..k - 1 + 1 /\ 1 + j - 1 = j
      BY <2>4
    <3>2. SubSeq(moved, 1, k)[j] = moved[1 + j - 1]
      BY <2>3, <3>1, Zenon
    <3> QED BY <2>4, <3>1, <3>2, Zenon
  <2> QED BY <2>1, <2>5, <2>6
<1>7. DOMAIN n = 1..Len(m) - 1
  BY <1>6
<1>8. ASSUME NEW j \in 1..Len(m) - 1 PROVE n[j] = IF j = i THEN m[Len(m)] ELSE m[j]
  <2>1. j \in 1..Len(m)
    BY <1>1
  <2> QED BY <1>4, <1>6, <2>1, Zenon
<1> QED BY <1>1, <1>6, <1>7, <1>8, Zenon

\* The first entry of the game is one of the map.
LEMMA FirstOfOurs ==
  ASSUME mapping \in Seq(Entries), Ours # {}
  PROVE  Min(Ours) \in DOMAIN mapping
<1>1. Ours \subseteq DOMAIN mapping /\ Ours \subseteq Nat
  BY DEF Ours
<1>2. PICK n \in Ours : \A m \in Ours : ~ (<<m, n>> \in OpToRel(<, Nat))
  BY <1>1, NatLessThanWellFounded, WFMin
<1>3. ASSUME NEW m \in Ours PROVE n <= m
  <2>1. m \in Nat /\ n \in Nat
    BY <1>1
  <2>2. ~(m < n)
    BY <1>2, <2>1 DEF OpToRel
  <2> QED BY <2>1, <2>2
<1> QED BY <1>1, <1>2, <1>3 DEF Min

\* The map keeps its type and its size.
LEMMA MapType ==
  ASSUME mapping \in Seq(Entries), Len(mapping) <= MAX_RECOVERY_MAPPINGS,
         \/ \E e \in Entries : AddMapping(e)
         \/ \E i \in DOMAIN mapping : RemoveEntry(i)
  PROVE  mapping' \in Seq(Entries) /\ Len(mapping') <= MAX_RECOVERY_MAPPINGS
<1> USE ReconnectAssumption
<1>1. CASE \E e \in Entries : AddMapping(e)
  <2>1. PICK e \in Entries : AddMapping(e)
    BY <1>1
  <2>2. CASE MapFull
    BY <2>1, <2>2 DEF AddMapping
  <2>3. CASE ~MapFull
    <3>1. mapping' = Append(mapping, e) /\ Len(mapping) # MAX_RECOVERY_MAPPINGS
      BY <2>1, <2>3 DEF AddMapping, MapFull
    <3>2. Append(mapping, e) \in Seq(Entries) /\ Len(Append(mapping, e)) = Len(mapping) + 1
      BY <2>1
    <3> QED BY <3>1, <3>2
  <2> QED BY <2>2, <2>3
<1>2. CASE \E i \in DOMAIN mapping : RemoveEntry(i)
  <2>1. PICK i \in DOMAIN mapping : mapping' = Without(mapping, i)
    BY <1>2 DEF RemoveEntry
  <2>2. mapping' \in Seq(Entries) /\ Len(mapping') = Len(mapping) - 1 /\ Len(mapping) \in Nat
    <3>1. PICK n : n = mapping'
      OBVIOUS
    <3> QED BY <2>1, <3>1, EntryRemoved
  <2> QED BY <2>2
<1> QED BY <1>1, <1>2

\* What the other games do to the map leaves the entries of this one.
LEMMA OthersKeepOurs ==
  ASSUME TypeOK, OthersMap
  PROVE  /\ Ours = {} => Ours' = {}
         /\ \A r \in RoomIds : OnlyEntry(r) => OnlyEntry(r)'
<1>1. mapping \in Seq(Entries) /\ 0 \in Entries /\ Len(mapping) \in Nat
  BY DEF TypeOK, Entries
<1>2. CASE mapping' = Append(mapping, 0)
  <2>1. Append(mapping, 0) \in Seq(Entries)
    BY <1>1
  <2>2. PICK n \in Seq(Entries) : n = mapping'
    BY <1>2, <2>1
  <2>3. /\ DOMAIN mapping' = 1..Len(mapping) + 1 /\ DOMAIN mapping = 1..Len(mapping)
        /\ mapping'[Len(mapping) + 1] = 0
        /\ \A j \in 1..Len(mapping) : mapping'[j] = mapping[j]
    BY <1>1, <1>2, <2>2, EntryAdded
  <2>4. Ours' = Ours
    BY <1>1, <2>3 DEF Ours
  <2> QED BY <1>1, <2>3, <2>4 DEF OnlyEntry
<1>3. CASE \E i \in DOMAIN mapping \ Ours : RemoveEntry(i)
  <2>1. PICK i \in DOMAIN mapping : /\ mapping[i] = 0
                                  /\ mapping' = Without(mapping, i)
    BY <1>3 DEF RemoveEntry, Ours
  <2>2. PICK L \in Nat : L = Len(mapping)
    BY <1>1
  <2>3. /\ i \in 1..L /\ DOMAIN mapping = 1..L /\ DOMAIN mapping' = 1..L - 1
        /\ \A j \in 1..L - 1 : mapping'[j] = IF j = i THEN mapping[L] ELSE mapping[j]
    <3>1. PICK n : n = mapping'
      OBVIOUS
    <3>2. n = Without(mapping, i)
      BY <2>1, <3>1
    <3>3. /\ i \in 1..Len(mapping) /\ DOMAIN mapping = 1..Len(mapping)
          /\ DOMAIN n = 1..Len(mapping) - 1
          /\ \A j \in 1..Len(mapping) - 1 : n[j] = IF j = i THEN mapping[Len(mapping)] ELSE mapping[j]
      <4>1. DOMAIN mapping = 1..Len(mapping)
        BY <1>1
      <4> QED BY <1>1, <2>1, <3>2, <4>1, EntryRemoved
    <3>4. i \in 1..L /\ DOMAIN mapping = 1..L /\ DOMAIN n = 1..L - 1
      BY <2>2, <3>3, Zenon
    <3>5. \A j \in 1..L - 1 : n[j] = IF j = i THEN mapping[L] ELSE mapping[j]
      BY <2>2, <3>3, Zenon
    <3>6. DOMAIN mapping' = 1..L - 1
      BY <3>1, <3>4, Zenon
    <3> QED BY <3>1, <3>4, <3>5, <3>6, Zenon
  <2>4. Ours = {} => Ours' = {}
    BY <2>3 DEF Ours
  <2>5. ASSUME NEW r \in RoomIds, NEW o \in DOMAIN mapping, mapping[o] = r, Ours = {o}
        PROVE  OnlyEntry(r)'
    <3>1. o \in 1..L /\ o # i /\ r # 0 /\ \A j \in 1..L : j # o => mapping[j] = 0
      BY <2>1, <2>3, <2>5, NoRoomZero DEF Ours
    <3>2. CASE o = L
      <4>1. i \in 1..L - 1 /\ mapping'[i] = r
        BY <2>3, <2>5, <3>1, <3>2
      <4>2. \A j \in 1..L - 1 : j # i => mapping'[j] = 0
        BY <2>3, <3>1, <3>2
      <4> QED BY <2>3, <3>1, <4>1, <4>2 DEF OnlyEntry, Ours
    <3>3. CASE o # L
      <4>1. o \in 1..L - 1 /\ mapping'[o] = r
        BY <2>3, <2>5, <3>1, <3>3
      <4>2. \A j \in 1..L - 1 : j # o => mapping'[j] = 0
        BY <2>3, <3>1, <3>3
      <4> QED BY <2>3, <3>1, <4>1, <4>2 DEF OnlyEntry, Ours
    <3> QED BY <3>2, <3>3
  <2> QED BY <2>4, <2>5 DEF OnlyEntry
<1> QED BY <1>2, <1>3 DEF OthersMap, AddMapping

-----------------------------------------------------------------------------
(***************************************************************************)
(* What the steps leave alone.                                             *)
(***************************************************************************)
LEMMA StepThread ==
  ASSUME TypeOK, NEW r \in RoomIds, NEW pc \in {"tick", "clear", "count"} \cup Ending, Step(r, pc)
  PROVE  /\ thr' \in [RoomIds -> ThreadType]
         /\ thr'[r].pc = pc /\ thr'[r].ids = thr[r].ids
         /\ \A x \in RoomIds \ {r} : thr'[x] = thr[x]
<1>1. thr[r] \in ThreadType
  BY DEF TypeOK
<1>2. [thr[r] EXCEPT !.pc = pc] \in ThreadType
  BY <1>1 DEF ThreadType
<1>3. thr' = [thr EXCEPT ![r] = [thr[r] EXCEPT !.pc = pc]]
  BY DEF Step
<1> QED BY <1>1, <1>2, <1>3 DEF TypeOK, ThreadType

\* The threads leave the seats and the main thread alone.
LEMMA ThreadsFrame ==
  ASSUME NEW r \in RoomIds, Thread(r) \/ TimePasses(r) \/ TimeUp(r)
  PROVE  /\ UNCHANGED <<mapping, table, made, members, count, room, main, crashes>>
         /\ UNCHANGED <<histVars, storageVars>>
<1> USE DEF Thread, roomVars
<1>1. CASE CheckWait(r) \/ EndWait(r) \/ CountLiving(r)
  BY <1>1 DEF CheckWait, EndWait, CountLiving
<1>2. CASE EndGame(r) \/ ResetPlayers(r) \/ ResetRoom(r)
  BY <1>2 DEF EndGame, ResetPlayers, ResetRoom
<1>3. CASE TimePasses(r) \/ TimeUp(r)
  BY <1>3 DEF TimePasses, TimeUp
<1> QED BY <1>1, <1>2, <1>3

\* A step of a thread that neither ends the game nor touches a player.
LEMMA WaitingThread ==
  ASSUME TypeOK, NEW r \in RoomIds,
         CheckWait(r) \/ EndWait(r) \/ CountLiving(r) \/ TimeUp(r) \/ TimePasses(r)
  PROVE  /\ thr' \in [RoomIds -> ThreadType]
         /\ \A x \in RoomIds : thr'[x].ids = thr[x].ids
         /\ \A x \in RoomIds :
               \/ thr'[x].pc = thr[x].pc
               \/ {thr[x].pc, thr'[x].pc} \subseteq {"tick", "clear", "count", "end"}
         /\ UNCHANGED <<status, st, offer>>
<1> USE DEF roomVars, Ending
<1>1. CASE TimePasses(r)
  BY <1>1 DEF TimePasses, TypeOK
<1>2. CASE CheckWait(r)
  BY <1>2, StepThread DEF CheckWait
<1>3. CASE EndWait(r)
  BY <1>3, StepThread DEF EndWait
<1>4. CASE CountLiving(r)
  <2>1. PICK pc \in {"end", "tick"} : Step(r, pc)
    BY <1>4 DEF CountLiving
  <2> QED BY <1>4, <2>1, StepThread DEF CountLiving
<1>5. CASE TimeUp(r)
  BY <1>5, StepThread DEF TimeUp
<1> QED BY <1>1, <1>2, <1>3, <1>4, <1>5

\* Who leaves his room leaves his seat; the last one takes the room with him.
LEMMA Leaves ==
  ASSUME TypeOK, Seats, NEW u \in Users, Disconnect(u), room[u] # 0
  PROVE  LET r == room[u]
         IN  /\ r \in RoomIds /\ u \in members[r]
             /\ members' = [members EXCEPT ![r] = @ \ {u}]
             /\ count' = [count EXCEPT ![r] = @ - 1]
             /\ count[r] \in Nat \ {0} /\ count'[r] = Cardinality(members'[r])
             /\ \/ /\ members[r] = {u} /\ destroyed'
                   /\ table' = table \ {r}
                   /\ thr' = [thr EXCEPT ![r] = NoThread]
                   /\ expected' = [expected EXCEPT ![r] = 0]
                \/ /\ thr' = [thr EXCEPT ![r].ids = @ \ {u}]
                   /\ UNCHANGED <<table, destroyed, expected>>
<1> DEFINE r == room[u]
<1>0. RemovePlayer(u) /\ At("idle")
  BY DEF Disconnect
<1>1. r \in RoomIds
  BY DEF TypeOK
<1>2. u \in members[r] /\ count[r] = Cardinality(members[r])
  BY <1>0, <1>1 DEF Seats, Place, At
<1>3. IsFiniteSet(members[r])
  BY <1>1, StorageAssumption, FS_Subset DEF TypeOK
<1>4. /\ Cardinality(members[r] \ {u}) = Cardinality(members[r]) - 1
      /\ IsFiniteSet(members[r] \ {u})
  BY <1>2, <1>3, FS_RemoveElement
<1>5. Cardinality(members[r]) \in Nat /\ Cardinality(members[r] \ {u}) \in Nat
  BY <1>3, <1>4, FS_CardinalityType
<1>6. count[r] = 1 => members[r] = {u}
  <2> SUFFICES ASSUME count[r] = 1 PROVE members[r] = {u}
    OBVIOUS
  <2>1. Cardinality(members[r] \ {u}) = 0
    BY <1>2, <1>4
  <2>2. members[r] \ {u} = {}
    BY <1>4, <2>1, FS_EmptySet
  <2> QED BY <1>2, <2>2
<1>7. /\ members' = [members EXCEPT ![r] = @ \ {u}]
      /\ count' = [count EXCEPT ![r] = @ - 1]
  BY <1>0 DEF RemovePlayer
<1>8. count[r] \in Nat \ {0} /\ count'[r] = Cardinality(members'[r])
  BY <1>1, <1>2, <1>4, <1>5, <1>7 DEF TypeOK
<1> QED BY <1>0, <1>1, <1>2, <1>6, <1>7, <1>8 DEF RemovePlayer

\* Who has no room leaves none.
LEMMA LeavesNothing ==
  ASSUME NEW u \in Users, Disconnect(u), room[u] = 0
  PROVE  UNCHANGED <<members, count, table, thr, destroyed, expected>>
  BY DEF Disconnect

-----------------------------------------------------------------------------
(***************************************************************************)
(* Each part of the invariant is kept.                                     *)
(***************************************************************************)
LEMMA TypeKept == IInv /\ [Next]_vars => TypeOK'
<1> SUFFICES ASSUME IInv, [Next]_vars PROVE TypeOK'
  OBVIOUS
<1> USE StorageAssumption, ReconnectAssumption
    DEF At, Goto, Idle, NoThread, roomVars, histVars, storageVars, Whole, Torn
<1>0. TypeOK /\ Seats /\ MainLocals
  BY DEF IInv
<1>1. CASE FindRoom \/ NotRestored
  <2>1. main' \in MainType
    <3>1. CASE FindRoom
      <4>1. main' = [main EXCEPT !.pc = "seat", !.r = FindRecoveryRoom] /\ FindRecoveryRoom \in RoomIds
        BY <1>0, <3>1 DEF FindRoom, FindRecoveryRoom, TypeOK
      <4> QED BY <1>0, <4>1 DEF TypeOK, MainType
    <3>2. CASE NotRestored
      BY <3>2 DEF NotRestored, MainType
    <3> QED BY <1>1, <3>1, <3>2
  <2> QED BY <1>0, <1>1, <2>1 DEF FindRoom, NotRestored, TypeOK
<1>2. CASE CreateRoom
  <2>1. made' \in 0..MaxRooms /\ made' \in RoomIds
    BY <1>0, <1>2 DEF CreateRoom, TypeOK, RoomIds
  <2>2. Cardinality(offer) \in Nat
    BY <1>0, FS_Subset, FS_CardinalityType DEF TypeOK
  <2>3. expected' \in [RoomIds -> Nat] /\ status' \in [RoomIds -> {"gaming", "ended", "waiting"}]
    BY <1>0, <1>2, <2>1, <2>2 DEF CreateRoom, TypeOK
  <2>4. mapping' \in Seq(Entries) /\ Len(mapping') <= MAX_RECOVERY_MAPPINGS
    <3>1. \E e \in Entries : AddMapping(e)
      BY <1>2, <2>1 DEF CreateRoom, Entries
    <3> QED BY <1>0, <3>1, MapType DEF TypeOK, Entries
  <2>5. main' \in MainType
    <3>1. main' = [main EXCEPT !.pc = "seat", !.r = made']
      BY <1>2 DEF CreateRoom
    <3> QED BY <1>0, <2>1, <3>1 DEF TypeOK, MainType
  <2>6. unmapped' \in BOOLEAN
    BY <1>0, <1>2, Zenon DEF CreateRoom, TypeOK
  <2> QED BY <1>0, <1>2, <2>1, <2>3, <2>4, <2>5, <2>6 DEF CreateRoom, TypeOK, Entries
<1>3. CASE Seat
  <2>1. main.u \in Users /\ main.r \in RoomIds
    BY <1>0, <1>3 DEF Seat, TypeOK, MainLocals
  <2>2. main' \in MainType
    BY <1>0, <1>3 DEF Seat, TypeOK, MainType
  <2>3. members' \in [RoomIds -> SUBSET Users] /\ count' \in [RoomIds -> Nat] /\ allBack' \in BOOLEAN
    BY <1>0, <1>3, <2>1 DEF Seat, TypeOK
  <2> QED BY <1>0, <1>3, <2>2, <2>3 DEF Seat, TypeOK
<1>4. CASE RestoreState
  <2>1. main' \in MainType
    BY <1>0, <1>4 DEF RestoreState, TypeOK, MainType
  <2> QED BY <1>0, <1>4, <2>1 DEF RestoreState, TypeOK, MainLocals
<1>5. CASE Launch
  <2>1. main' \in MainType
    BY <1>0, <1>5 DEF Launch, TypeOK, MainType
  <2>2. thr' \in [RoomIds -> ThreadType]
    <3>1. [NoThread EXCEPT !.pc = "tick"] \in ThreadType
      BY DEF ThreadType
    <3> QED BY <1>0, <1>5, <3>1 DEF Launch, TypeOK
  <2> QED BY <1>0, <1>5, <2>1, <2>2 DEF Launch, TypeOK, MainLocals
<1>6. CASE Cleanup
  <2>1. mapping' \in Seq(Entries) /\ Len(mapping') <= MAX_RECOVERY_MAPPINGS
    <3>1. mapping \in Seq(Entries) /\ Len(mapping) <= MAX_RECOVERY_MAPPINGS
      BY <1>0 DEF TypeOK, Entries
    <3>2. CASE Ours # {} /\ RemoveEntry(Min(Ours))
      <4>1. Min(Ours) \in DOMAIN mapping
        BY <1>0, <3>2, FirstOfOurs DEF TypeOK, Entries
      <4> QED BY <3>1, <3>2, <4>1, MapType
    <3> QED BY <1>6, <3>1, <3>2 DEF Cleanup, RemoveMapping
  <2> QED BY <1>0, <1>6, <2>1 DEF Cleanup, TypeOK, MainType, Entries
<1>7. CASE Save
  <2>1. /\ main' \in MainType /\ users' = users
        /\ UNCHANGED <<offer, roomVars, thr, st, room, crashes, histVars>>
    BY <1>7 DEF Save, SaveDone, SaveBreaks, MainType
  <2>2. usersFile' \in [whole : BOOLEAN, known : SUBSET Users] /\ unsaved' \subseteq Users
    <3>1. usersFile' \in {[whole |-> TRUE, known |-> users], usersFile} /\ unsaved' \in {{}, users}
      BY <1>7 DEF Save, SaveDone, SaveBreaks
    <3>2. users \subseteq Users /\ usersFile \in [whole : BOOLEAN, known : SUBSET Users]
      BY <1>0 DEF TypeOK
    <3>3. [whole |-> TRUE, known |-> users] \in [whole : BOOLEAN, known : SUBSET Users]
      BY <3>2
    <3>4. CASE usersFile' = usersFile
      BY <3>1, <3>2, <3>4
    <3>5. CASE usersFile' = [whole |-> TRUE, known |-> users]
      <4>1. unsaved' \subseteq Users
        BY <3>1, <3>2
      <4> QED BY <3>3, <3>5, <4>1, Zenon
    <3> QED BY <3>1, <3>4, <3>5
  <2> QED BY <1>0, <2>1, <2>2 DEF TypeOK
<1>8. CASE Restart
  <2>1. usersFile' = usersFile /\ users' \in {usersFile.known, {}} /\ unsaved' = {}
    BY <1>8 DEF Restart, StorageLoad
  <2>2. thr' \in [RoomIds -> ThreadType]
    BY <1>8 DEF Restart, ThreadType
  <2>3. crashes' \in 0..MaxCrashes /\ made' \in 0..MaxRooms
    BY <1>0, <1>8 DEF Restart, TypeOK
  <2>4. /\ offer' \subseteq Users /\ table' \subseteq RoomIds /\ main' \in MainType
        /\ mapping' \in Seq(RoomIds \cup {0}) /\ Len(mapping') <= MAX_RECOVERY_MAPPINGS
    BY <1>8 DEF Restart, MainType
  <2>5. /\ status' \in [RoomIds -> {"gaming", "ended", "waiting"}]
        /\ members' \in [RoomIds -> SUBSET Users]
        /\ count' \in [RoomIds -> Nat] /\ expected' \in [RoomIds -> Nat]
        /\ waited' \in [RoomIds -> BOOLEAN] /\ running' \in [RoomIds -> BOOLEAN]
    BY <1>8 DEF Restart
  <2>6. /\ st' \in [Users -> {"off", "lobby", "gaming", "dead", "in_room"}]
        /\ room' \in [Users -> RoomIds \cup {0}]
        /\ destroyed' \in BOOLEAN /\ unmapped' \in BOOLEAN /\ allBack' \in BOOLEAN
        /\ late' \subseteq Users
    BY <1>8 DEF Restart
  <2>7. /\ users' \subseteq Users /\ usersFile' \in [whole : BOOLEAN, known : SUBSET Users]
        /\ unsaved' \subseteq Users
    BY <1>0, <2>1 DEF TypeOK
  <2> QED BY <2>2, <2>3, <2>4, <2>5, <2>6, <2>7 DEF TypeOK
<1>9. ASSUME NEW u \in Users, Login(u) \/ Register(u) \/ Die(u) PROVE TypeOK'
  <2>1. main' \in MainType
    <3>1. main' \in {main, Idle, [Idle EXCEPT !.pc = "find", !.u = u], [Idle EXCEPT !.pc = "save"]}
      BY <1>9 DEF Login, Register, Die
    <3>2. {Idle, [Idle EXCEPT !.pc = "find", !.u = u], [Idle EXCEPT !.pc = "save"]} \subseteq MainType
      <4>1. Idle \in MainType
        BY DEF MainType
      <4> QED BY <4>1 DEF MainType
    <3> QED BY <1>0, <3>1, <3>2 DEF TypeOK
  <2>2. st' \in [Users -> {"off", "lobby", "gaming", "dead", "in_room"}]
    BY <1>0, <1>9, ZenonT(60) DEF Login, Register, Die, TypeOK
  <2>3. /\ users' \subseteq Users /\ usersFile' \in [whole : BOOLEAN, known : SUBSET Users]
        /\ unsaved' \subseteq Users
    <3>1. \/ UNCHANGED storageVars
          \/ RegisterUser(u) /\ (SaveOpens \/ SaveRefused(u))
      BY <1>9 DEF Login, Register, Die
    <3>2. CASE UNCHANGED storageVars
      BY <1>0, <3>2 DEF TypeOK
    <3>3. CASE RegisterUser(u) /\ (SaveOpens \/ SaveRefused(u))
      <4>1. /\ users' = users \cup {u} /\ usersFile' \in {Torn, usersFile}
            /\ unsaved' \in {unsaved, unsaved \cup {u}}
        BY <3>3 DEF RegisterUser, SaveOpens, SaveRefused
      <4>2. /\ users \subseteq Users /\ usersFile \in [whole : BOOLEAN, known : SUBSET Users]
            /\ unsaved \subseteq Users
        BY <1>0 DEF TypeOK
      <4>3. Torn \in [whole : BOOLEAN, known : SUBSET Users]
        OBVIOUS
      <4> HIDE DEF Torn
      <4> QED BY <4>1, <4>2, <4>3
    <3> QED BY <3>1, <3>2, <3>3
  <2> QED BY <1>0, <1>9, <2>1, <2>2, <2>3 DEF Login, Register, Die, TypeOK
<1>10. ASSUME NEW u \in Users, Disconnect(u) PROVE TypeOK'
  <2>1. UNCHANGED <<offer, mapping, made, status, waited, running, main, crashes, unmapped, allBack,
                    storageVars>>
    BY <1>10 DEF Disconnect
  <2>2. /\ st' \in [Users -> {"off", "lobby", "gaming", "dead", "in_room"}]
        /\ room' \in [Users -> RoomIds \cup {0}] /\ late' \subseteq Users
    BY <1>0, <1>10 DEF Disconnect, TypeOK
  <2>3. CASE room[u] = 0
    BY <1>0, <1>10, <2>1, <2>2, <2>3, LeavesNothing DEF TypeOK
  <2>4. CASE room[u] # 0
    <3>0. PICK r : r = room[u]
      OBVIOUS
    <3>1. r \in RoomIds /\ thr[r] \in ThreadType
      BY <1>0, <2>4, <3>0 DEF TypeOK
    <3>2. NoThread \in ThreadType /\ [thr[r] EXCEPT !.ids = @ \ {u}] \in ThreadType
      BY <3>1 DEF ThreadType
    <3>3. /\ members' = [members EXCEPT ![r] = @ \ {u}]
          /\ count' = [count EXCEPT ![r] = @ - 1] /\ count[r] \in Nat \ {0}
          /\ \/ /\ destroyed' /\ table' = table \ {r}
                /\ thr' = [thr EXCEPT ![r] = NoThread]
                /\ expected' = [expected EXCEPT ![r] = 0]
             \/ /\ thr' = [thr EXCEPT ![r].ids = @ \ {u}]
                /\ UNCHANGED <<table, destroyed, expected>>
      BY <1>0, <1>10, <2>4, <3>0, Leaves
    <3> HIDE DEF NoThread
    <3>4. members' \in [RoomIds -> SUBSET Users] /\ count' \in [RoomIds -> Nat]
      <4>1. members[r] \ {u} \in SUBSET Users
        BY <1>0, <3>1 DEF TypeOK
      <4>2. count[r] - 1 \in Nat
        BY <3>3
      <4> QED BY <1>0, <3>1, <3>3, <4>1, <4>2 DEF TypeOK
    <3>5. table' \subseteq RoomIds /\ destroyed' \in BOOLEAN /\ expected' \in [RoomIds -> Nat]
      <4>1. table \subseteq RoomIds /\ destroyed \in BOOLEAN /\ expected \in [RoomIds -> Nat]
        BY <1>0 DEF TypeOK
      <4>2. CASE UNCHANGED <<table, destroyed, expected>>
        BY <4>1, <4>2
      <4>3. CASE destroyed' /\ table' = table \ {r} /\ expected' = [expected EXCEPT ![r] = 0]
        BY <3>1, <4>1, <4>3
      <4> QED BY <3>3, <4>2, <4>3
    <3>6. thr' \in [RoomIds -> ThreadType]
      BY <1>0, <3>1, <3>2, <3>3 DEF TypeOK
    <3> QED BY <1>0, <2>1, <2>2, <3>4, <3>5, <3>6 DEF TypeOK
  <2> QED BY <2>3, <2>4
<1>11. ASSUME NEW r \in RoomIds, Thread(r) \/ TimePasses(r) \/ TimeUp(r) PROVE TypeOK'
  <2>1. /\ UNCHANGED <<mapping, table, made, members, count, room, main, crashes>>
        /\ UNCHANGED <<histVars, storageVars>>
    BY <1>11, ThreadsFrame
  <2>2. /\ thr' \in [RoomIds -> ThreadType] /\ offer' \subseteq Users
        /\ status' \in [RoomIds -> {"gaming", "ended", "waiting"}]
        /\ st' \in [Users -> {"off", "lobby", "gaming", "dead", "in_room"}]
    <3>1. CASE CheckWait(r) \/ EndWait(r) \/ CountLiving(r) \/ TimeUp(r) \/ TimePasses(r)
      BY <1>0, <3>1, WaitingThread DEF TypeOK
    <3>2. CASE EndGame(r)
      BY <1>0, <3>2 DEF EndGame, TypeOK, ThreadType, Ending
    <3>3. CASE ResetPlayers(r)
      BY <1>0, <3>3, StepThread DEF ResetPlayers, TypeOK, Ending
    <3>4. CASE ResetRoom(r)
      BY <1>0, <3>4 DEF ResetRoom, RemoveFiles, TypeOK, ThreadType
    <3> QED BY <1>11, <3>1, <3>2, <3>3, <3>4 DEF Thread
  <2>3. /\ expected' \in [RoomIds -> Nat]
        /\ waited' \in [RoomIds -> BOOLEAN] /\ running' \in [RoomIds -> BOOLEAN]
    <3>1. CASE Thread(r)
      <4>1. /\ expected' = expected \/ expected' = [expected EXCEPT ![r] = 0]
            /\ running' = running \/ running' = [running EXCEPT ![r] = FALSE]
            /\ waited' = waited
        BY <3>1 DEF Thread, CheckWait, EndWait, CountLiving, EndGame, ResetPlayers, ResetRoom
      <4>2. expected' \in [RoomIds -> Nat]
        <5>1. expected \in [RoomIds -> Nat]
          BY <1>0 DEF TypeOK
        <5> QED BY <4>1, <5>1
      <4>3. running' \in [RoomIds -> BOOLEAN]
        BY <1>0, <4>1 DEF TypeOK
      <4> QED BY <1>0, <4>1, <4>2, <4>3 DEF TypeOK
    <3>2. CASE TimePasses(r) \/ TimeUp(r)
      BY <1>0, <3>2 DEF TimePasses, TimeUp, TypeOK
    <3> QED BY <1>11, <3>1, <3>2
  <2> QED BY <1>0, <2>1, <2>2, <2>3 DEF TypeOK
<1>12. CASE OthersMap
  <2>1. \/ \E e \in Entries : AddMapping(e)
        \/ \E i \in DOMAIN mapping : RemoveEntry(i)
    BY <1>12 DEF OthersMap, Entries
  <2>2. mapping' \in Seq(Entries) /\ Len(mapping') <= MAX_RECOVERY_MAPPINGS
    BY <1>0, <2>1, MapType DEF TypeOK, Entries
  <2> QED BY <1>0, <1>12, <2>2 DEF OthersMap, TypeOK, Entries
<1>13. CASE UNCHANGED vars
  BY <1>0, <1>13 DEF vars, TypeOK
<1> QED BY <1>1, <1>2, <1>3, <1>4, <1>5, <1>6, <1>7, <1>8, <1>9, <1>10, <1>11, <1>12, <1>13
        DEF Next, Handler

LEMMA SavedKept == IInv /\ [Next]_vars => Saved'
<1> SUFFICES ASSUME IInv, [Next]_vars PROVE Saved'
  OBVIOUS
<1> USE DEF Saved, At, Goto, Idle, storageVars
<1>0. Saved
  BY DEF IInv
<1>1. CASE FindRoom \/ CreateRoom \/ NotRestored \/ Seat \/ RestoreState \/ Launch \/ Cleanup
  BY <1>0, <1>1 DEF FindRoom, CreateRoom, NotRestored, Seat, RestoreState, Launch, Cleanup
<1>2. CASE Save
  BY <1>2 DEF Save, SaveDone, SaveBreaks, Whole
<1>3. CASE Restart
  BY <1>3 DEF Restart, StorageLoad
<1>4. ASSUME NEW u \in Users, Login(u) \/ Disconnect(u) \/ Die(u) PROVE Saved'
  BY <1>0, <1>4 DEF Login, Disconnect, Die
<1>5. ASSUME NEW u \in Users, Register(u) PROVE Saved'
  <2>1. CASE SaveOpens /\ main' = [Idle EXCEPT !.pc = "save"]
    BY <2>1
  <2>2. CASE SaveRefused(u) /\ UNCHANGED main
    BY <1>0, <1>5, <2>2 DEF Register, RegisterUser, SaveRefused
  <2> QED BY <1>5, <2>1, <2>2 DEF Register
<1>6. ASSUME NEW r \in RoomIds, Thread(r) \/ TimePasses(r) \/ TimeUp(r) PROVE Saved'
  BY <1>0, <1>6, ThreadsFrame
<1>7. CASE OthersMap
  BY <1>0, <1>7 DEF OthersMap
<1>8. CASE UNCHANGED vars
  BY <1>0, <1>8 DEF vars
<1> QED BY <1>1, <1>2, <1>3, <1>4, <1>5, <1>6, <1>7, <1>8 DEF Next, Handler

LEMMA SeatsStay ==
  ASSUME Seats, UNCHANGED <<members, count, room>>, ~At("state"), ~At("state")'
  PROVE  Seats'
  BY DEF Seats, Place

LEMMA SeatsKept == IInv /\ [Next]_vars => Seats'
<1> SUFFICES ASSUME IInv, [Next]_vars PROVE Seats'
  OBVIOUS
<1> USE DEF Seats, Place, At, Goto, roomVars
<1>0. TypeOK /\ Seats /\ MainLocals /\ Whereabouts
  BY DEF IInv
<1>1. CASE FindRoom \/ CreateRoom \/ NotRestored
  <2>1. main.pc = "find" /\ main'.pc # "state"
    <3>1. CASE FindRoom
      BY <1>0, <3>1 DEF FindRoom, TypeOK, MainType
    <3>2. CASE CreateRoom
      BY <1>0, <3>2 DEF CreateRoom, TypeOK, MainType
    <3>3. CASE NotRestored
      BY <3>3 DEF NotRestored, Idle
    <3> QED BY <1>1, <3>1, <3>2, <3>3
  <2> QED BY <1>0, <1>1, <2>1, SeatsStay DEF FindRoom, CreateRoom, NotRestored
<1>2. CASE Seat
  <2> DEFINE r == main.r  u == main.u
  <2>1. r \in RoomIds /\ u \in Users /\ room[u] = 0
    BY <1>0, <1>2 DEF Seat, MainLocals, TypeOK
  <2>2. u \notin members[r] /\ IsFiniteSet(members[r]) /\ count[r] = Cardinality(members[r])
    BY <1>0, <1>2, <2>1, StorageAssumption, FS_Subset, NoRoomZero DEF Seat, TypeOK
  <2>3. Cardinality(members[r] \cup {u}) = count[r] + 1
    <3>1. PICK S : S = members[r]
      OBVIOUS
    <3>2. Cardinality(S \cup {u}) = Cardinality(S) + 1
      BY <2>2, <3>1, FS_AddElement
    <3> QED BY <2>2, <3>1, <3>2
  <2>4. main' = [main EXCEPT !.pc = "state"] /\ main'.r = r /\ main'.u = u /\ main'.pc = "state"
    BY <1>0, <1>2 DEF Seat, TypeOK, MainType
  <2>5. ASSUME NEW x \in RoomIds
        PROVE  members'[x] = {v \in Users : Place(v)' = x} /\ count'[x] = Cardinality(members'[x])
    <3>1. members[x] = {v \in Users : room[v] = x} /\ count[x] = Cardinality(members[x])
      BY <1>0, <1>2 DEF Seat
    <3>2. CASE x = r
      BY <1>0, <1>2, <2>1, <2>3, <2>4, <3>1, <3>2, ZenonT(60) DEF Seat, TypeOK
    <3>3. CASE x # r
      BY <1>0, <1>2, <2>1, <2>4, <3>1, <3>3, NoRoomZero DEF Seat, TypeOK
    <3> QED BY <3>2, <3>3
  <2> QED BY <2>5
<1>3. CASE RestoreState
  BY <1>0, <1>3 DEF RestoreState, MainLocals, TypeOK, MainType
<1>4. CASE Launch \/ Cleanup \/ Save
  BY <1>0, <1>4 DEF Launch, Cleanup, Save, Idle, TypeOK, MainType
<1>5. CASE Restart
  <2>1. Cardinality({}) = 0
    BY FS_EmptySet
  <2> QED BY <1>5, <2>1, NoRoomZero DEF Restart, Idle
<1>6. ASSUME NEW u \in Users, Login(u) \/ Register(u) \/ Die(u) PROVE Seats'
  <2>1. CASE Login(u) \/ Register(u)
    <3>1. main.pc = "idle" /\ main'.pc \in {"idle", "find", "save"}
      <4>1. CASE Login(u)
        BY <4>1 DEF Login, Idle
      <4>2. CASE Register(u)
        BY <4>2 DEF Register, Idle
      <4> QED BY <2>1, <4>1, <4>2
    <3> QED BY <1>0, <2>1, <3>1, SeatsStay DEF Login, Register
  <2>2. CASE Die(u)
    BY <1>0, <2>2 DEF Die
  <2> QED BY <1>6, <2>1, <2>2
<1>7. ASSUME NEW u \in Users, Disconnect(u) PROVE Seats'
  <2>1. /\ At("idle") /\ main' = main
        /\ room' = [room EXCEPT ![u] = 0]
    BY <1>7 DEF Disconnect
  <2>2. CASE room[u] = 0
    <3>1. room' = room
      BY <1>0, <2>1, <2>2 DEF TypeOK
    <3> QED BY <1>0, <1>7, <2>1, <2>2, <3>1, LeavesNothing
  <2>3. CASE room[u] # 0
    <3>0. PICK r : r = room[u]
      OBVIOUS
    <3>1. /\ r \in RoomIds /\ u \in members[r]
          /\ members' = [members EXCEPT ![r] = @ \ {u}]
          /\ count' = [count EXCEPT ![r] = @ - 1] /\ count'[r] = Cardinality(members'[r])
      BY <1>0, <1>7, <2>3, <3>0, Leaves
    <3>2. ASSUME NEW x \in RoomIds
          PROVE  members'[x] = {v \in Users : room'[v] = x} /\ count'[x] = Cardinality(members'[x])
      <4>1. members[x] = {v \in Users : room[v] = x} /\ count[x] = Cardinality(members[x])
        BY <1>0, <2>1
      <4>2. members \in [RoomIds -> SUBSET Users] /\ count \in [RoomIds -> Nat]
            /\ room \in [Users -> RoomIds \cup {0}]
        BY <1>0 DEF TypeOK
      <4>3. CASE x = r
        BY <2>1, <3>1, <4>1, <4>2, <4>3, NoRoomZero
      <4>4. CASE x # r
        BY <2>1, <3>0, <3>1, <4>1, <4>2, <4>4, NoRoomZero
      <4> QED BY <4>3, <4>4
    <3> QED BY <2>1, <3>2
  <2> QED BY <2>2, <2>3
<1>8. ASSUME NEW r \in RoomIds, Thread(r) \/ TimePasses(r) \/ TimeUp(r) PROVE Seats'
  BY <1>0, <1>8, ThreadsFrame
<1>9. CASE OthersMap
  BY <1>0, <1>9 DEF OthersMap
<1>10. CASE UNCHANGED vars
  BY <1>0, <1>10 DEF vars
<1> QED BY <1>1, <1>2, <1>3, <1>4, <1>5, <1>6, <1>7, <1>8, <1>9, <1>10 DEF Next, Handler

LEMMA MainLocalsKept == IInv /\ [Next]_vars => MainLocals'
<1> SUFFICES ASSUME IInv, [Next]_vars PROVE MainLocals'
  OBVIOUS
<1> USE DEF MainLocals, At, Goto, Idle, roomVars
<1>0. TypeOK /\ MainLocals /\ Whereabouts /\ Seats /\ Threads
  BY DEF IInv
<1>1. CASE FindRoom \/ CreateRoom \/ NotRestored
  <2>1. CASE FindRoom
    <3>1. FindRecoveryRoom \in table /\ main.pc = "find"
      BY <1>0, <2>1, NoRoomZero DEF FindRoom, FindRecoveryRoom
    <3>2. main'.pc = "seat" /\ main'.u = main.u /\ main'.r = FindRecoveryRoom
      BY <1>0, <2>1 DEF FindRoom, TypeOK, MainType
    <3>3. UNCHANGED <<st, room, table>>
      BY <2>1 DEF FindRoom
    <3> QED BY <1>0, <3>1, <3>2, <3>3
  <2>2. CASE CreateRoom
    <3>1. main.pc = "find" /\ main'.pc = "seat" /\ main'.u = main.u /\ main'.r = made'
      BY <1>0, <2>2 DEF CreateRoom, TypeOK, MainType
    <3>2. UNCHANGED <<st, room>> /\ made' \in table'
      BY <2>2 DEF CreateRoom
    <3> QED BY <1>0, <3>1, <3>2
  <2>3. CASE NotRestored
    BY <2>3 DEF NotRestored
  <2> QED BY <1>1, <2>1, <2>2, <2>3
<1>2. CASE Seat \/ RestoreState
  BY <1>0, <1>2 DEF Seat, RestoreState, TypeOK, MainType
<1>3. CASE Launch \/ Cleanup \/ Save
  <2>1. CASE Launch
    BY <1>0, <2>1 DEF Launch, TypeOK, MainType
  <2>2. CASE Cleanup \/ Save
    BY <2>2 DEF Cleanup, Save
  <2> QED BY <1>3, <2>1, <2>2
<1>4. CASE Restart
  BY <1>4 DEF Restart
<1>5. ASSUME NEW u \in Users, Login(u) \/ Register(u) \/ Disconnect(u) PROVE MainLocals'
  <2>1. CASE Login(u)
    BY <1>0, <2>1 DEF Login, Whereabouts, TypeOK
  <2>2. CASE Register(u) \/ Disconnect(u)
    BY <2>2 DEF Register, Disconnect
  <2> QED BY <1>5, <2>1, <2>2
<1>6. ASSUME NEW u \in Users, Die(u) PROVE MainLocals'
  BY <1>0, <1>6 DEF Die, TypeOK
<1>7. ASSUME NEW r \in RoomIds, Thread(r) \/ TimePasses(r) \/ TimeUp(r) PROVE MainLocals'
  <2>1. UNCHANGED <<main, table, room>>
    BY <1>7, ThreadsFrame
  <2>2. CASE st' = st
    BY <1>0, <2>1, <2>2
  <2>3. CASE ResetPlayers(r)
    <3>1. ASSUME main.pc \in {"find", "seat"} PROVE st'[main.u] = st[main.u]
      <4>1. main.u \in Users /\ main.u \notin members[r]
        BY <1>0, <3>1, NoRoomZero DEF Seats, Place
      <4> QED BY <1>0, <2>3, <4>1 DEF ResetPlayers, Threads
    <3> QED BY <1>0, <2>1, <3>1
  <2> QED BY <1>7, <2>2, <2>3 DEF Thread, CheckWait, EndWait, CountLiving, EndGame, ResetRoom,
                                  TimePasses, TimeUp
<1>8. CASE OthersMap
  BY <1>0, <1>8 DEF OthersMap
<1>9. CASE UNCHANGED vars
  BY <1>0, <1>9 DEF vars
<1> QED BY <1>1, <1>2, <1>3, <1>4, <1>5, <1>6, <1>7, <1>8, <1>9 DEF Next, Handler

LEMMA WhereaboutsKept == IInv /\ [Next]_vars => Whereabouts'
<1> SUFFICES ASSUME IInv, [Next]_vars PROVE Whereabouts'
  OBVIOUS
<1> USE DEF Whereabouts, At
<1>0. TypeOK /\ MainLocals /\ Whereabouts
  BY DEF IInv
<1>1. CASE FindRoom \/ CreateRoom \/ NotRestored \/ Seat \/ Launch \/ Cleanup \/ Save
  BY <1>0, <1>1 DEF FindRoom, CreateRoom, NotRestored, Seat, Launch, Cleanup, Save
<1>2. CASE RestoreState
  BY <1>0, <1>2, NoRoomZero DEF RestoreState, MainLocals, TypeOK
<1>3. CASE Restart
  BY <1>3 DEF Restart
<1>4. ASSUME NEW u \in Users, Login(u) \/ Disconnect(u) \/ Register(u) \/ Die(u) PROVE Whereabouts'
  BY <1>0, <1>4 DEF Login, Disconnect, Register, Die, TypeOK
<1>5. ASSUME NEW r \in RoomIds, Thread(r) \/ TimePasses(r) \/ TimeUp(r) PROVE Whereabouts'
  <2>1. room' = room
    BY <1>5, ThreadsFrame
  <2>2. st' = st \/ st' = [u \in Users |-> IF u \in thr[r].ids THEN "in_room" ELSE st[u]]
    BY <1>5 DEF Thread, CheckWait, EndWait, CountLiving, EndGame, ResetPlayers, ResetRoom,
                TimePasses, TimeUp
  <2> QED BY <1>0, <2>1, <2>2
<1>6. CASE OthersMap
  BY <1>0, <1>6 DEF OthersMap
<1>7. CASE UNCHANGED vars
  BY <1>0, <1>7 DEF vars
<1> QED BY <1>1, <1>2, <1>3, <1>4, <1>5, <1>6, <1>7 DEF Next, Handler

LEMMA NoGhostsKept == IInv /\ [Next]_vars => NoGhosts'
<1> SUFFICES ASSUME IInv, [Next]_vars PROVE NoGhosts'
  OBVIOUS
<1> USE DEF NoGhosts, At, roomVars
<1>0. TypeOK /\ MainLocals /\ NoGhosts /\ Seats
  BY DEF IInv
<1>1. CASE FindRoom \/ NotRestored \/ RestoreState \/ Cleanup \/ Save
  BY <1>0, <1>1 DEF FindRoom, NotRestored, RestoreState, Cleanup, Save
<1>2. CASE CreateRoom
  <2>1. made' = made + 1 /\ table' = table \cup {made'} /\ UNCHANGED <<members, thr>>
    BY <1>2 DEF CreateRoom
  <2>2. table' \subseteq 1..made'
    BY <1>0, <2>1 DEF TypeOK
  <2> QED BY <1>0, <1>2, <2>1, <2>2 DEF CreateRoom, TypeOK
<1>3. CASE Seat \/ Launch
  <2>1. main.r \in table
    BY <1>0, <1>3 DEF Seat, Launch, MainLocals
  <2>2. UNCHANGED <<table, made, expected>>
    BY <1>3 DEF Seat, Launch
  <2>3. \A r \in RoomIds \ {main.r} : members'[r] = members[r] /\ thr'[r] = thr[r]
    BY <1>0, <1>3 DEF Seat, Launch, TypeOK
  <2> QED BY <1>0, <2>1, <2>2, <2>3
<1>4. CASE Restart
  BY <1>4 DEF Restart, NoThread
<1>5. ASSUME NEW u \in Users, Login(u) \/ Register(u) \/ Die(u) PROVE NoGhosts'
  BY <1>0, <1>5 DEF Login, Register, Die
<1>6. ASSUME NEW u \in Users, Disconnect(u) PROVE NoGhosts'
  <2>1. CASE room[u] = 0
    <3>1. made' = made
      BY <1>6 DEF Disconnect
    <3> QED BY <1>0, <1>6, <2>1, <3>1, LeavesNothing
  <2>2. CASE room[u] # 0
    <3>0. PICK r : r = room[u]
      OBVIOUS
    <3>1. /\ r \in RoomIds /\ members' = [members EXCEPT ![r] = @ \ {u}] /\ u \in members[r]
          /\ \/ /\ members[r] = {u} /\ table' = table \ {r}
                /\ thr' = [thr EXCEPT ![r] = NoThread]
                /\ expected' = [expected EXCEPT ![r] = 0]
             \/ /\ thr' = [thr EXCEPT ![r].ids = @ \ {u}]
                /\ UNCHANGED <<table, expected>>
      BY <1>0, <1>6, <2>2, <3>0, Leaves
    <3>2. r \in table
      BY <1>0, <3>1
    <3>3. \A x \in RoomIds \ {r} : /\ members'[x] = members[x] /\ thr'[x] = thr[x]
                                   /\ expected'[x] = expected[x]
                                   /\ x \in table' <=> x \in table
      BY <1>0, <3>1 DEF TypeOK
    <3>4. r \notin table' => members'[r] = {} /\ thr'[r].pc = "none" /\ expected'[r] = 0
      <4>1. CASE UNCHANGED table
        BY <3>2, <4>1
      <4>2. CASE /\ members[r] = {u} /\ thr' = [thr EXCEPT ![r] = NoThread]
                 /\ expected' = [expected EXCEPT ![r] = 0]
        <5>1. members'[r] = {}
          BY <1>0, <3>1, <4>2 DEF TypeOK
        <5>2. thr'[r] = NoThread /\ expected'[r] = 0
          BY <1>0, <3>1, <4>2 DEF TypeOK
        <5> QED BY <5>1, <5>2 DEF NoThread
      <4> QED BY <3>1, <4>1, <4>2
    <3>5. table' \subseteq table /\ made' = made
      BY <1>6, <3>1 DEF Disconnect
    <3> QED BY <1>0, <3>3, <3>4, <3>5
  <2> QED BY <2>1, <2>2
<1>7. ASSUME NEW r \in RoomIds, Thread(r) \/ TimePasses(r) \/ TimeUp(r) PROVE NoGhosts'
  <2>1. UNCHANGED <<table, made, members>> /\ r \in table
    BY <1>0, <1>7, ThreadsFrame
       DEF Thread, CheckWait, EndWait, CountLiving, EndGame, ResetPlayers, ResetRoom, TimePasses, TimeUp
  <2>2. \A x \in RoomIds \ {r} : thr'[x] = thr[x] /\ expected'[x] = expected[x]
    <3>1. CASE Thread(r)
      BY <1>0, <3>1 DEF Thread, CheckWait, EndWait, CountLiving, EndGame, ResetPlayers, ResetRoom,
                        Step, TypeOK
    <3>2. CASE TimePasses(r) \/ TimeUp(r)
      BY <1>0, <3>2 DEF TimePasses, TimeUp, Step, TypeOK
    <3> QED BY <1>7, <3>1, <3>2
  <2> QED BY <1>0, <2>1, <2>2
<1>8. CASE OthersMap
  BY <1>0, <1>8 DEF OthersMap
<1>9. CASE UNCHANGED vars
  BY <1>0, <1>9 DEF vars
<1> QED BY <1>1, <1>2, <1>3, <1>4, <1>5, <1>6, <1>7, <1>8, <1>9 DEF Next, Handler

\* CreateRoom takes a room that is not there yet.
LEMMA NewRoom ==
  ASSUME TypeOK, NoGhosts, CreateRoom
  PROVE  made' \in RoomIds \ table /\ made' = made + 1
<1>1. made \in 0..MaxRooms /\ table \subseteq 1..made
  BY DEF TypeOK, NoGhosts
<1>2. made' = made + 1 /\ made < MaxRooms
  BY DEF CreateRoom
<1>3. made' \in RoomIds /\ made' \notin 1..made
  BY <1>1, <1>2, ReconnectAssumption DEF RoomIds
<1> QED BY <1>1, <1>2, <1>3

LEMMA ThreadsKept == IInv /\ [Next]_vars => Threads'
<1> SUFFICES ASSUME IInv, [Next]_vars PROVE Threads'
  OBVIOUS
<1> USE DEF Threads, At, roomVars
<1>0. TypeOK /\ MainLocals /\ NoGhosts /\ Threads /\ Seats
  BY DEF IInv
<1>1. CASE FindRoom \/ NotRestored \/ RestoreState \/ Cleanup \/ Save
  BY <1>0, <1>1 DEF FindRoom, NotRestored, RestoreState, Cleanup, Save
<1>2. CASE CreateRoom
  <2>1. PICK n \in RoomIds \ table : n = made'
    BY <1>0, <1>2, NewRoom
  <2>2. UNCHANGED <<thr, members>> /\ status' = [status EXCEPT ![n] = "gaming"]
    BY <1>2, <2>1 DEF CreateRoom
  <2>3. thr[n].pc = "none"
    BY <1>0, <2>1 DEF NoGhosts
  <2> QED BY <1>0, <2>2, <2>3 DEF TypeOK
<1>3. CASE Seat
  <2>1. UNCHANGED <<thr, status>> /\ \A r \in RoomIds : members[r] \subseteq members'[r]
    BY <1>0, <1>3 DEF Seat, TypeOK
  <2> QED BY <1>0, <2>1
<1>4. CASE Launch
  BY <1>0, <1>4 DEF Launch, NoThread, TypeOK
<1>5. CASE Restart
  BY <1>5 DEF Restart, NoThread
<1>6. ASSUME NEW u \in Users, Login(u) \/ Register(u) \/ Die(u) PROVE Threads'
  BY <1>0, <1>6 DEF Login, Register, Die
<1>7. ASSUME NEW u \in Users, Disconnect(u) PROVE Threads'
  <2>0. status' = status
    BY <1>7 DEF Disconnect
  <2>1. CASE room[u] = 0
    BY <1>0, <1>7, <2>0, <2>1, LeavesNothing
  <2>2. CASE room[u] # 0
    <3>0. PICK r : r = room[u]
      OBVIOUS
    <3>1. /\ r \in RoomIds /\ members' = [members EXCEPT ![r] = @ \ {u}]
          /\ \/ thr' = [thr EXCEPT ![r] = NoThread]
             \/ thr' = [thr EXCEPT ![r].ids = @ \ {u}]
      BY <1>0, <1>7, <2>2, <3>0, Leaves
    <3>2. members'[r] = members[r] \ {u} /\ \A x \in RoomIds \ {r} : members'[x] = members[x]
      BY <1>0, <3>1 DEF TypeOK
    <3>3. \A x \in RoomIds \ {r} : thr'[x] = thr[x]
      BY <1>0, <3>1 DEF TypeOK
    <3>4. \/ thr'[r] = NoThread
          \/ thr'[r].pc = thr[r].pc /\ thr'[r].ids = thr[r].ids \ {u}
      BY <1>0, <3>1 DEF TypeOK, ThreadType
    <3> QED BY <1>0, <2>0, <3>2, <3>3, <3>4 DEF NoThread
  <2> QED BY <2>1, <2>2
<1>8. ASSUME NEW r \in RoomIds, Thread(r) \/ TimePasses(r) \/ TimeUp(r) PROVE Threads'
  <2>0. members' = members
    BY <1>8, ThreadsFrame
  <2>1. CASE CheckWait(r) \/ EndWait(r) \/ CountLiving(r) \/ TimeUp(r) \/ TimePasses(r)
    BY <1>0, <2>0, <2>1, WaitingThread
  <2>2. CASE EndGame(r)
    BY <1>0, <2>0, <2>2 DEF EndGame, TypeOK
  <2>3. CASE ResetPlayers(r)
    BY <1>0, <2>0, <2>3, StepThread DEF ResetPlayers, Ending
  <2>4. CASE ResetRoom(r)
    <3>1. thr' = [thr EXCEPT ![r] = NoThread] /\ status' = [status EXCEPT ![r] = "waiting"]
      BY <2>4 DEF ResetRoom
    <3> QED BY <1>0, <2>0, <3>1 DEF TypeOK, NoThread
  <2> QED BY <1>8, <2>1, <2>2, <2>3, <2>4 DEF Thread
<1>9. CASE OthersMap
  BY <1>0, <1>9 DEF OthersMap
<1>10. CASE UNCHANGED vars
  BY <1>0, <1>10 DEF vars
<1> QED BY <1>1, <1>2, <1>3, <1>4, <1>5, <1>6, <1>7, <1>8, <1>9, <1>10 DEF Next, Handler

LEMMA OneEntryKept == IInv /\ [Next]_vars => OneEntry'
<1> SUFFICES ASSUME IInv, [Next]_vars PROVE OneEntry'
  OBVIOUS
<1> USE DEF OneEntry, OnlyEntry, Ours, At, roomVars, histVars
<1>0. TypeOK /\ OneEntry /\ NoGhosts
  BY DEF IInv
<1>1. CASE FindRoom \/ NotRestored \/ Seat \/ RestoreState \/ Launch \/ Save
  BY <1>0, <1>1 DEF FindRoom, NotRestored, Seat, RestoreState, Launch, Save
<1>2. CASE CreateRoom
  <2> SUFFICES ASSUME ~destroyed, ~unmapped, ~MapFull PROVE OneEntry'
    BY <1>2 DEF CreateRoom
  <2>1. PICK n \in RoomIds \ table : n = made'
    BY <1>0, <1>2, NewRoom
  <2>2. table = {} /\ Ours = {}
    <3>1. ASSUME NEW r \in RoomIds, table = {r}, OnlyEntry(r) PROVE FALSE
      <4>1. PICK i \in DOMAIN mapping : mapping[i] = r /\ Ours = {i}
        BY <3>1 DEF OnlyEntry
      <4>2. Min(Ours) = i
        <5>1. i \in Nat
          BY <1>0, <4>1 DEF TypeOK
        <5> QED BY <4>1, <5>1, MinOfOne
      <4>3. FindRecoveryRoom = r
        BY <3>1, <4>1, <4>2 DEF FindRecoveryRoom
      <4> QED BY <1>2, <4>3, NoRoomZero DEF CreateRoom
    <3> QED BY <1>0, <1>2, <3>1 DEF CreateRoom
  <2>3. table' = {n}
    BY <1>2, <2>1, <2>2 DEF CreateRoom
  <2>4. OnlyEntry(n)'
    <3>1. mapping \in Seq(Entries) /\ n \in Entries
      BY <1>0 DEF TypeOK, Entries
    <3>2. mapping' = Append(mapping, n)
      BY <1>2, <2>1 DEF CreateRoom, AddMapping
    <3>3. PICK m \in Seq(Entries) : m = mapping'
      BY <3>1, <3>2
    <3>4. /\ DOMAIN mapping' = 1..Len(mapping) + 1 /\ DOMAIN mapping = 1..Len(mapping)
          /\ mapping'[Len(mapping) + 1] = n /\ Len(mapping) \in Nat
          /\ \A j \in 1..Len(mapping) : mapping'[j] = mapping[j]
      BY <3>1, <3>2, <3>3, EntryAdded
    <3>5. Ours' = {Len(mapping) + 1}
      BY <2>2, <3>4, NoRoomZero DEF Ours
    <3> QED BY <3>4, <3>5 DEF OnlyEntry
  <2> QED BY <2>1, <2>3, <2>4
<1>3. CASE Cleanup
  <2>1. UNCHANGED <<table, destroyed>> /\ ((offer' = {} /\ RemoveMapping) \/ UNCHANGED <<offer, mapping>>)
    BY <1>3 DEF Cleanup
  <2>2. Ours = {} => Ours' = {}
    BY <2>1 DEF RemoveMapping, Ours
  <2>3. \A r : UNCHANGED mapping => (OnlyEntry(r) => OnlyEntry(r)')
    BY DEF OnlyEntry, Ours
  <2>4. UNCHANGED unmapped
    BY <1>3 DEF Cleanup
  <2> QED BY <1>0, <2>1, <2>2, <2>3, <2>4
<1>4. CASE Restart
  BY <1>4 DEF Restart
<1>5. ASSUME NEW u \in Users, Login(u) \/ Register(u) \/ Die(u) PROVE OneEntry'
  BY <1>0, <1>5 DEF Login, Register, Die
<1>6. ASSUME NEW u \in Users, Disconnect(u) PROVE OneEntry'
  <2>1. UNCHANGED <<offer, mapping, unmapped>> /\ (destroyed' \/ UNCHANGED <<destroyed, table>>)
    BY <1>6 DEF Disconnect, RemovePlayer
  <2> QED BY <1>0, <2>1
<1>7. ASSUME NEW r \in RoomIds, Thread(r) \/ TimePasses(r) \/ TimeUp(r) PROVE OneEntry'
  <2>1. UNCHANGED <<table, mapping, destroyed, unmapped>>
    BY <1>7, ThreadsFrame
  <2>2. offer' = offer \/ offer' = {}
    BY <1>7 DEF Thread, CheckWait, EndWait, CountLiving, EndGame, ResetPlayers, ResetRoom,
                RemoveFiles, TimePasses, TimeUp
  <2> QED BY <1>0, <2>1, <2>2
<1>8. CASE OthersMap
  <2>1. UNCHANGED <<table, offer, destroyed, unmapped>>
    BY <1>8 DEF OthersMap
  <2> HIDE DEF OnlyEntry, Ours
  <2> QED BY <1>0, <1>8, <2>1, OthersKeepOurs
<1>9. CASE UNCHANGED vars
  BY <1>0, <1>9 DEF vars
<1> QED BY <1>1, <1>2, <1>3, <1>4, <1>5, <1>6, <1>7, <1>8, <1>9 DEF Next, Handler

LEMMA ReunionKept == IInv /\ [Next]_vars => Reunion'
<1> SUFFICES ASSUME IInv, [Next]_vars PROVE Reunion'
  OBVIOUS
<1> USE DEF Reunion, At, Goto, roomVars, histVars
<1>0. TypeOK /\ MainLocals /\ NoGhosts /\ Reunion /\ Seats
  BY DEF IInv
<1>1. CASE FindRoom \/ NotRestored \/ RestoreState \/ Launch \/ Cleanup \/ Save
  BY <1>0, <1>1 DEF FindRoom, NotRestored, RestoreState, Launch, Cleanup, Save
<1>2. CASE CreateRoom
  <2>1. PICK n \in RoomIds \ table : n = made'
    BY <1>0, <1>2, NewRoom
  <2>2. /\ UNCHANGED <<count, allBack>> /\ table' = table \cup {n}
        /\ expected' = [expected EXCEPT ![n] = Cardinality(offer)]
    BY <1>2, <2>1 DEF CreateRoom
  <2>3. count[n] = 0
    BY <1>0, <2>1, FS_EmptySet DEF NoGhosts, Seats
  <2>4. Cardinality(offer) \in Nat
    BY <1>0, StorageAssumption, FS_Subset, FS_CardinalityType DEF TypeOK
  <2>5. expected'[n] = Cardinality(offer) /\ \A r \in table : expected'[r] = expected[r]
    BY <1>0, <2>1, <2>2 DEF TypeOK
  <2> QED BY <1>0, <2>2, <2>3, <2>4, <2>5
<1>3. CASE Seat
  <2>1. /\ UNCHANGED <<table, expected>>
        /\ \A r \in table \ {main.r} : count'[r] = count[r]
        /\ allBack' = (allBack \/ count'[main.r] >= expected[main.r])
    BY <1>0, <1>3 DEF Seat, TypeOK
  <2> QED BY <1>0, <2>1
<1>4. CASE Restart
  BY <1>4 DEF Restart
<1>5. ASSUME NEW u \in Users, Login(u) \/ Register(u) \/ Die(u) PROVE Reunion'
  BY <1>0, <1>5 DEF Login, Register, Die
<1>6. ASSUME NEW u \in Users, Disconnect(u) PROVE Reunion'
  <2>0. allBack' = allBack
    BY <1>6 DEF Disconnect
  <2>1. CASE room[u] = 0
    BY <1>0, <1>6, <2>0, <2>1, LeavesNothing
  <2>2. CASE room[u] # 0
    <3>0. PICK r : r = room[u]
      OBVIOUS
    <3>1. /\ r \in RoomIds /\ count' = [count EXCEPT ![r] = @ - 1]
          /\ \/ table' = table \ {r} /\ expected' = [expected EXCEPT ![r] = 0]
             \/ UNCHANGED <<table, expected>>
      BY <1>0, <1>6, <2>2, <3>0, Leaves
    <3>2. ASSUME NEW x \in table', expected'[x] > 0, count'[x] >= expected'[x] PROVE allBack
      <4>1. x \in table /\ x \in RoomIds /\ expected'[x] = expected[x]
        BY <1>0, <3>1, <3>2 DEF TypeOK
      <4>2. count[x] >= count'[x] /\ count[x] \in Nat /\ count'[x] \in Int /\ expected[x] \in Nat
        BY <1>0, <3>1, <4>1 DEF TypeOK
      <4> QED BY <1>0, <3>2, <4>1, <4>2
    <3> QED BY <2>0, <3>2
  <2> QED BY <2>1, <2>2
<1>7. ASSUME NEW r \in RoomIds, Thread(r) \/ TimePasses(r) \/ TimeUp(r) PROVE Reunion'
  <2>1. UNCHANGED <<table, count, allBack>>
    BY <1>7, ThreadsFrame DEF histVars
  <2>2. expected' = expected \/ expected' = [expected EXCEPT ![r] = 0]
    BY <1>7 DEF Thread, CheckWait, EndWait, CountLiving, EndGame, ResetPlayers, ResetRoom,
                TimePasses, TimeUp
  <2>3. \A x \in table : expected'[x] \in {expected[x], 0}
    BY <1>0, <2>2 DEF TypeOK
  <2> QED BY <1>0, <2>1, <2>3
<1>8. CASE OthersMap
  BY <1>0, <1>8 DEF OthersMap
<1>9. CASE UNCHANGED vars
  BY <1>0, <1>9 DEF vars
<1> QED BY <1>1, <1>2, <1>3, <1>4, <1>5, <1>6, <1>7, <1>8, <1>9 DEF Next, Handler

LEMMA OpenKept == IInv /\ [Next]_vars => Open'
<1> SUFFICES ASSUME IInv, [Next]_vars PROVE Open'
  OBVIOUS
<1> USE DEF Open, At, roomVars, histVars
<1>0. TypeOK /\ MainLocals /\ NoGhosts /\ Reunion /\ OneEntry /\ Open
  BY DEF IInv
<1>1. CASE FindRoom \/ NotRestored \/ Seat \/ RestoreState \/ Launch \/ Save
  BY <1>0, <1>1 DEF FindRoom, NotRestored, Seat, RestoreState, Launch, Save
<1>2. CASE CreateRoom
  BY <1>2 DEF CreateRoom
<1>3. CASE Cleanup
  <2>1. AllReconnected(main.r) => allBack
    BY <1>0, <1>3 DEF Cleanup, AllReconnected, MainLocals, Reunion
  <2> QED BY <1>0, <1>3, <2>1 DEF Cleanup
<1>4. CASE Restart
  BY <1>4 DEF Restart
<1>5. ASSUME NEW u \in Users, Login(u) \/ Register(u) \/ Die(u) PROVE Open'
  BY <1>0, <1>5 DEF Login, Register, Die
<1>6. ASSUME NEW u \in Users, Disconnect(u) PROVE Open'
  <2>1. UNCHANGED <<offer, status, unmapped, allBack>> /\ (destroyed' \/ UNCHANGED <<destroyed, table>>)
    BY <1>6 DEF Disconnect, RemovePlayer
  <2> QED BY <1>0, <2>1
<1>7. ASSUME NEW r \in RoomIds, Thread(r) \/ TimePasses(r) \/ TimeUp(r) PROVE Open'
  <2>0. UNCHANGED <<table, destroyed, unmapped, allBack>>
    BY <1>7, ThreadsFrame
  <2>1. CASE CheckWait(r) \/ EndWait(r) \/ CountLiving(r) \/ TimeUp(r) \/ TimePasses(r)
    BY <1>0, <2>0, <2>1, WaitingThread
  <2>2. CASE EndGame(r)
    BY <1>0, <2>0, <2>2 DEF EndGame, TypeOK
  <2>3. CASE ResetPlayers(r)
    BY <1>0, <2>0, <2>3 DEF ResetPlayers
  <2>4. CASE ResetRoom(r)
    <3>1. r \in table
      BY <1>0, <2>4 DEF ResetRoom, NoGhosts
    <3>2. ~destroyed /\ ~unmapped => table = {r}
      BY <1>0, <3>1 DEF OneEntry
    <3>3. status'[r] = "waiting"
      BY <1>0, <2>4 DEF ResetRoom, TypeOK
    <3> QED BY <2>0, <3>2, <3>3
  <2> QED BY <1>7, <2>1, <2>2, <2>3, <2>4 DEF Thread
<1>8. CASE OthersMap
  BY <1>0, <1>8 DEF OthersMap
<1>9. CASE UNCHANGED vars
  BY <1>0, <1>9 DEF vars
<1> QED BY <1>1, <1>2, <1>3, <1>4, <1>5, <1>6, <1>7, <1>8, <1>9 DEF Next, Handler

LEMMA PlayedKept == IInv /\ [Next]_vars => Played'
<1> SUFFICES ASSUME IInv, [Next]_vars PROVE Played'
  OBVIOUS
<1> USE DEF Played, At, Goto, roomVars, histVars
<1>0. TypeOK /\ MainLocals /\ NoGhosts /\ Threads /\ Seats /\ Whereabouts /\ Played
  BY DEF IInv
<1>1. CASE FindRoom \/ NotRestored \/ Seat \/ Cleanup \/ Save
  BY <1>0, <1>1 DEF FindRoom, NotRestored, Seat, Cleanup, Save
<1>2. CASE CreateRoom
  <2>1. /\ UNCHANGED <<thr, st, room, late>>
        /\ \A r \in RoomIds : status[r] = "gaming" => status'[r] = "gaming"
    BY <1>0, <1>2 DEF CreateRoom, TypeOK
  <2>2. \A u \in Users : st[u] = "gaming" => room[u] \in RoomIds
    BY <1>0 DEF TypeOK, Whereabouts
  <2> QED BY <1>0, <2>1, <2>2
<1>3. CASE RestoreState
  <2>1. main.u \in Users /\ main.r \in RoomIds
    BY <1>0, <1>3 DEF RestoreState, MainLocals, TypeOK
  <2>2. /\ UNCHANGED <<thr, status>>
        /\ st' = [st EXCEPT ![main.u] = "gaming"] /\ room' = [room EXCEPT ![main.u] = main.r]
        /\ late \subseteq late' /\ (status[main.r] # "gaming" => main.u \in late')
    BY <1>3 DEF RestoreState
  <2>3. \A u \in Users \ {main.u} : st'[u] = st[u] /\ room'[u] = room[u]
    BY <1>0, <2>2 DEF TypeOK
  <2>4. room'[main.u] = main.r
    BY <1>0, <2>1, <2>2 DEF TypeOK
  <2> QED BY <1>0, <2>2, <2>3, <2>4
<1>4. CASE Launch
  <2>1. UNCHANGED <<st, room, late, status>>
    BY <1>4 DEF Launch
  <2>2. \A r \in RoomIds : status[r] # "gaming" => thr'[r] = thr[r]
    BY <1>0, <1>4 DEF Launch, TypeOK
  <2>3. \A u \in Users : st[u] = "gaming" => room[u] \in RoomIds
    BY <1>0 DEF TypeOK, Whereabouts
  <2> QED BY <1>0, <2>1, <2>2, <2>3
<1>5. CASE Restart
  BY <1>5 DEF Restart
<1>6. ASSUME NEW u \in Users, Login(u) \/ Register(u) \/ Die(u) PROVE Played'
  BY <1>0, <1>6 DEF Login, Register, Die, TypeOK
<1>7. ASSUME NEW u \in Users, Disconnect(u) PROVE Played'
  <2>1. /\ status' = status /\ late' = late \ {u} /\ At("idle")
        /\ st' = [st EXCEPT ![u] = "off"] /\ room' = [room EXCEPT ![u] = 0]
    BY <1>7 DEF Disconnect
  <2>2. ASSUME NEW v \in Users \ late', st'[v] = "gaming"
        PROVE  /\ v # u /\ v \notin late /\ st[v] = "gaming" /\ room'[v] = room[v]
               /\ room[v] \in RoomIds /\ v \in members[room[v]]
    <3>1. v # u /\ st[v] = "gaming" /\ room'[v] = room[v]
      BY <1>0, <2>1, <2>2 DEF TypeOK
    <3>2. room[v] \in RoomIds
      BY <1>0, <3>1 DEF TypeOK, Whereabouts
    <3> QED BY <1>0, <2>1, <3>1, <3>2 DEF Seats, Place
  <2>3. CASE room[u] = 0
    BY <1>0, <1>7, <2>1, <2>2, <2>3, LeavesNothing
  <2>4. CASE room[u] # 0
    <3>0. PICK r : r = room[u]
      OBVIOUS
    <3>1. /\ r \in RoomIds
          /\ \/ members[r] = {u} /\ thr' = [thr EXCEPT ![r] = NoThread]
             \/ thr' = [thr EXCEPT ![r].ids = @ \ {u}]
      BY <1>0, <1>7, <2>4, <3>0, Leaves
    <3>2. \A x \in RoomIds \ {r} : thr'[x] = thr[x]
      BY <1>0, <3>1 DEF TypeOK
    <3>3. \/ members[r] = {u}
          \/ thr'[r].pc = thr[r].pc /\ thr'[r].ids = thr[r].ids \ {u}
      BY <1>0, <3>1 DEF TypeOK, ThreadType
    <3> QED BY <1>0, <2>1, <2>2, <3>2, <3>3
  <2> QED BY <2>3, <2>4
<1>8. ASSUME NEW r \in RoomIds, Thread(r) \/ TimePasses(r) \/ TimeUp(r) PROVE Played'
  <2>0. UNCHANGED <<room, members, main, late>>
    BY <1>8, ThreadsFrame
  <2>1. \A u \in Users : st[u] = "gaming" => room[u] \in RoomIds /\ u \in members[room[u]]
    <3> SUFFICES ASSUME NEW u \in Users, st[u] = "gaming"
                 PROVE  room[u] \in RoomIds /\ u \in members[room[u]]
      OBVIOUS
    <3>1. room[u] \in RoomIds /\ room[u] # 0
      BY <1>0 DEF TypeOK, Whereabouts
    <3> QED BY <1>0, <3>1 DEF Seats, Place, MainLocals
  <2>2. CASE CheckWait(r) \/ EndWait(r) \/ CountLiving(r) \/ TimeUp(r) \/ TimePasses(r)
    BY <1>0, <2>0, <2>1, <2>2, WaitingThread
  <2>3. CASE EndGame(r)
    <3>1. /\ \A x \in RoomIds \ {r} : status'[x] = status[x] /\ thr'[x] = thr[x]
          /\ thr'[r].pc = "reset" /\ thr'[r].ids = members[r] /\ st' = st
      BY <1>0, <2>3 DEF EndGame, TypeOK
    <3> QED BY <1>0, <2>0, <2>1, <3>1
  <2>4. CASE ResetPlayers(r)
    <3>1. thr[r].pc = "reset" /\ status[r] # "gaming" /\ status' = status
      BY <1>0, <2>4 DEF ResetPlayers, Threads
    <3>2. \A x \in RoomIds \ {r} : thr'[x] = thr[x]
      BY <1>0, <2>4, StepThread DEF ResetPlayers, Ending
    <3>3. \A u \in Users : st'[u] = "gaming" => st[u] = "gaming" /\ u \notin thr[r].ids
      BY <2>4 DEF ResetPlayers
    <3> QED BY <1>0, <2>0, <2>1, <3>1, <3>2, <3>3
  <2>5. CASE ResetRoom(r)
    <3>1. /\ status[r] # "gaming" /\ thr[r].pc # "reset" /\ st' = st
          /\ \A x \in RoomIds \ {r} : status'[x] = status[x] /\ thr'[x] = thr[x]
      BY <1>0, <2>5 DEF ResetRoom, Threads, TypeOK
    <3> QED BY <1>0, <2>0, <2>1, <3>1
  <2> QED BY <1>8, <2>2, <2>3, <2>4, <2>5 DEF Thread
<1>9. CASE OthersMap
  BY <1>0, <1>9 DEF OthersMap
<1>10. CASE UNCHANGED vars
  BY <1>0, <1>10 DEF vars
<1> QED BY <1>1, <1>2, <1>3, <1>4, <1>5, <1>6, <1>7, <1>8, <1>9, <1>10 DEF Next, Handler

-----------------------------------------------------------------------------
LEMMA IInvInit == Init => IInv
<1> SUFFICES ASSUME Init PROVE IInv
  OBVIOUS
<1> USE StorageAssumption, ReconnectAssumption DEF Init, NoRooms
<1>1. TypeOK
  <2>1. 0 \in 0..MaxRooms /\ 0 \in 0..MaxCrashes
    OBVIOUS
  <2>2. main \in MainType /\ thr \in [RoomIds -> ThreadType]
    BY DEF MainType, ThreadType, Idle, NoThread
  <2>3. /\ users \subseteq Users /\ usersFile \in [whole : BOOLEAN, known : SUBSET Users]
        /\ unsaved \subseteq Users
    BY DEF StorageInit, Whole
  <2>4. /\ status \in [RoomIds -> {"gaming", "ended", "waiting"}]
        /\ members \in [RoomIds -> SUBSET Users]
        /\ count \in [RoomIds -> Nat] /\ expected \in [RoomIds -> Nat]
        /\ waited \in [RoomIds -> BOOLEAN] /\ running \in [RoomIds -> BOOLEAN]
    OBVIOUS
  <2>5. /\ st \in [Users -> {"off", "lobby", "gaming", "dead", "in_room"}]
        /\ room \in [Users -> RoomIds \cup {0}]
        /\ destroyed \in BOOLEAN /\ unmapped \in BOOLEAN /\ allBack \in BOOLEAN
        /\ late \subseteq Users
    OBVIOUS
  <2>6. /\ mapping \in Seq(RoomIds \cup {0}) /\ Len(mapping) <= MAX_RECOVERY_MAPPINGS
        /\ table \subseteq RoomIds /\ offer \subseteq Users
    OBVIOUS
  <2> QED BY <2>1, <2>2, <2>3, <2>4, <2>5, <2>6 DEF TypeOK
<1>2. Seats
  BY FS_EmptySet, NoRoomZero DEF Seats, Place, At, Idle
<1>3. MainLocals /\ Whereabouts
  BY DEF MainLocals, Whereabouts, Idle
<1>4. NoGhosts /\ Threads
  BY DEF NoGhosts, Threads, NoThread
<1>5. OneEntry /\ Reunion /\ Open
  BY DEF OneEntry, Ours, Reunion, Open
<1>6. Played /\ Saved
  BY DEF Played, Saved, StorageInit, Whole
<1> QED BY <1>1, <1>2, <1>3, <1>4, <1>5, <1>6 DEF IInv

LEMMA IInvStep == IInv /\ [Next]_vars => IInv'
  BY TypeKept, SeatsKept, MainLocalsKept, WhereaboutsKept, NoGhostsKept, ThreadsKept,
     OneEntryKept, ReunionKept, OpenKept, PlayedKept, SavedKept DEF IInv

LEMMA Inductive == Spec => []IInv
  BY IInvInit, IInvStep, PTL DEF Spec

\* Every variable keeps its type: no count of players falls below nought, and
\* the map of rooms names rooms (recovery.c:64-111, room.c:273-324).
THEOREM TypeCorrect == Spec => []TypeOK
<1>1. IInv => TypeOK
  BY DEF IInv
<1> QED BY Inductive, <1>1, PTL

\* Between commands the slots of a recovered room, its count and the rooms of its
\* players agree, whatever its thread does (recovery.c:1461-1535, room.c:273-324).
THEOREM SeatsRight == Spec => []SlotsAgree
<1>1. IInv => SlotsAgree
  BY DEF IInv, Seats, Place, SlotsAgree, At, TypeOK
<1> QED BY Inductive, <1>1, PTL

\* Those who come back meet in one room, whatever other games enter in the map and
\* remove from it, until a room of the game is destroyed or is made when the map
\* is full (recovery.c:64-111, 1419-1457).
THEOREM OneRoom == Spec => []OneRoomPerGame
<1>1. IInv => OneRoomPerGame
  <2> SUFFICES ASSUME IInv, ~destroyed, ~unmapped PROVE Cardinality(table) <= 1
    BY DEF OneRoomPerGame
  <2>1. CASE table = {}
    BY <2>1, FS_EmptySet
  <2>2. CASE \E r \in RoomIds : table = {r}
    <3>1. PICK r \in RoomIds : table = {r}
      BY <2>2
    <3>2. Cardinality({r}) = 1
      BY FS_Singleton
    <3> QED BY <3>1, <3>2
  <2> QED BY <2>1, <2>2 DEF IInv, OneEntry
<1> QED BY Inductive, <1>1, PTL

\* Who is missing from a game that goes on can come back, the 30 seconds over or
\* not, until all have been there at one time (handler.c:143-157): in the game's one
\* room, with the exceptions of OneRoom.
THEOREM WayBackOpen == Spec => []NobodyLockedOut
<1>1. IInv => NobodyLockedOut
  BY DEF IInv, Open, NobodyLockedOut
<1> QED BY Inductive, <1>1, PTL

\* Nobody plays in a game that is over, but who came back when it was ending
\* (room.c:454-508, recovery.c:1481-1535).
THEOREM NobodyLeftBehind == Spec => []NobodyStranded
<1>1. IInv => NobodyStranded
  BY DEF IInv, Played, NobodyStranded
<1> QED BY Inductive, <1>1, PTL

\* Between commands a restart that can read the file costs no account but those for
\* which a save has failed since the last that succeeded (storage.c:174-232, 328-413).
THEOREM AccountsKept == Spec => []AccountsSaved
<1>1. IInv => AccountsSaved
  BY DEF IInv, Saved, AccountsSaved
<1> QED BY Inductive, <1>1, PTL
=============================================================================
