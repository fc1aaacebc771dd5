---------------------------- MODULE Combat_proofs ----------------------------
(***************************************************************************)
(* Proofs about Combat: the inductive invariant, what follows from it, and *)
(* that the interleaved fight implements Match.                            *)
(***************************************************************************)
EXTENDS Combat, SequenceTheorems, TLAPS

\* A sequence without one of its elements is a sequence over the same set.
LEMMA WithoutType ==
  ASSUME NEW S, NEW s \in Seq(S), NEW i \in 1..Len(s)
  PROVE  Without(s, i) \in Seq(S)
<1>1. SubSeq(s, 1, i - 1) \in Seq(S)
  BY DEF Without
<1>2. SubSeq(s, i + 1, Len(s)) \in Seq(S)
  OBVIOUS
<1> QED BY <1>1, <1>2, ConcatProperties DEF Without

\* The item table of a new game is well formed and within its count.
LEMMA InitialItemsType ==
  ASSUME NEW type \in [Slots -> Types]
  PROVE  /\ InitialCount \in 0..MaxItems
         /\ InitialItems(type) \in [Slots -> [type : Types, cell : Cells] \cup {None}]
<1>1. Len(SpawnCells) \in Nat /\ MaxItems \in Nat
  BY CombatAssumption
<1>2. InitialCount \in 0..MaxItems /\ InitialCount <= Len(SpawnCells)
  BY <1>1 DEF InitialCount
<1>3. \A i \in Slots : i <= InitialCount => SpawnCells[i] \in Cells
  BY <1>1, <1>2, CombatAssumption DEF Slots
<1> QED BY <1>2, <1>3 DEF InitialItems

\* A blow takes at least one hit point.
LEMMA DamageType == ASSUME NEW power \in Nat PROVE Damage(power) \in Nat \ {0}
BY CombatAssumption DEF Damage

\* So does a tick in the poison.
LEMMA PoisonTickType == PoisonTick \in Nat \ {0}
<1>1. (PoisonDamage * TickMs) \in Nat
  BY CombatAssumption
<1>2. ((PoisonDamage * TickMs) \div 1000) \in Nat
  BY <1>1
<1> QED BY <1>2 DEF PoisonTick

-----------------------------------------------------------------------------
(* Types *)

LEMMA InitTypeOK == Init => TypeOK
<1>1. <<>> \in Seq(Types)
  OBVIOUS
<1> QED
  BY <1>1, CombatAssumption
  DEF Init, TypeOK, Idle, NoGame, MainPc, ThreadPc, Slots

\* The commands of the lobby preserve the types.
LEMMA LobbyTypeOK == IInv /\ Lobby => TypeOK'
<1> SUFFICES ASSUME IInv, Lobby PROVE TypeOK'
  OBVIOUS
<1> USE DEF TypeOK, bodyVars, mapVars, roomVars
<1>0. TypeOK
  BY DEF IInv
<1>1. ASSUME NEW p \in Players, Join(p) PROVE TypeOK'
  BY <1>0, <1>1 DEF Join
<1>2. ASSUME NEW p \in Players, Leave(p) PROVE TypeOK'
  BY <1>0, <1>2 DEF Leave
<1>3. CASE StartGame
  <2>1. <<>> \in Seq(Types)
    OBVIOUS
  <2>2. PICK type \in [Slots -> Types] : items' = InitialItems(type)
    BY <1>3 DEF StartGame
  <2>3. /\ items' \in [Slots -> [type : Types, cell : Cells] \cup {None}]
        /\ item_count' \in 0..MaxItems
    BY <1>3, <2>2, InitialItemsType DEF StartGame
  <2>4. pos' \in [Players -> Cells \cup {None}]
    BY <1>0, <1>3 DEF StartGame
  <2>5. thr' \in [pc : ThreadPc, winner : Players \cup {None}, ids : SUBSET Players]
    BY <1>3 DEF StartGame, NoGame, ThreadPc
  <2>6. inventory' \in [Players -> Seq(Types)]
    BY <1>0, <1>3, <2>1 DEF StartGame
  <2>7. buffed' \in [Players -> BOOLEAN] /\ shield' \in [Players -> BOOLEAN]
    BY <1>3, Zenon DEF StartGame
  <2>8. hp' \in [Players -> Int] /\ atk' \in [Players -> Nat]
    <3>1. MaxHp \in Int /\ BaseAtk \in Nat
      BY CombatAssumption
    <3> QED BY <1>0, <1>3, <3>1 DEF StartGame
  <2>9. status' \in [Players -> {"lobby", "in_room", "gaming", "dead"}]
    BY <1>0, <1>3 DEF StartGame
  <2>10. /\ phase' \in {"waiting", "gaming", "ended"} /\ expired' \in BOOLEAN
         /\ radius' \in Nat /\ members' = members /\ main' = main
    BY <1>3, CombatAssumption DEF StartGame
  <2> QED BY <1>0, <2>3, <2>4, <2>5, <2>6, <2>7, <2>8, <2>9, <2>10
<1> QED BY <1>1, <1>2, <1>3 DEF Lobby

\* The handlers of MOVE, USE_ITEM and ATTACK preserve the types.
LEMMA HandlersTypeOK == IInv /\ Handlers => TypeOK'
<1> SUFFICES ASSUME IInv, Handlers PROVE TypeOK'
  OBVIOUS
<1> USE DEF TypeOK, bodyVars, mapVars, roomVars, MainPc, At
<1>0. /\ TypeOK
      /\ ~MainIdle => main.p \in Players
      /\ At("move") => main.cell \in Cells
      /\ main.pc \in {"use", "add"} => main.item \in Types
      /\ At("wounded") => main.v \in Players
  BY DEF IInv, Locals
<1>16. ASSUME NEW p \in Players, Accept(p) PROVE TypeOK'
  BY <1>0, <1>16 DEF Accept, Idle
<1>17. CASE Refuse
  BY <1>0, <1>17 DEF Refuse, Idle
<1>1. ASSUME NEW c \in Cells, MoveBegin(c) PROVE TypeOK'
  BY <1>0, <1>1 DEF MoveBegin
<1>2. CASE UseBegin
  <2>1. PICK i \in 1..Len(inventory[main.p]) :
          /\ inventory' = [inventory EXCEPT ![main.p] = Without(@, i)]
          /\ main' = [main EXCEPT !.pc = "use", !.item = inventory[main.p][i]]
    BY <1>2 DEF UseBegin
  <2>2. main.p \in Players
    BY <1>0, <1>2 DEF UseBegin, MainIdle
  <2>3. inventory[main.p] \in Seq(Types) /\ inventory[main.p][i] \in Types
    BY <1>0, <2>2
  <2>4. Without(inventory[main.p], i) \in Seq(Types)
    BY <2>3, WithoutType
  <2>5. inventory' \in [Players -> Seq(Types)]
    BY <1>0, <2>1, <2>2, <2>4
  <2>6. main' \in [pc : MainPc, p : Players \cup {None}, cell : Cells \cup {None},
                   power : Nat, left : SUBSET Players, v : Players \cup {None},
                   item : Types \cup {None}]
    BY <1>0, <2>1, <2>3
  <2> QED BY <1>0, <1>2, <2>5, <2>6 DEF UseBegin
<1>3. CASE AttackBegin
  <2>1. /\ main' = [main EXCEPT !.pc = "strike", !.cell = pos[main.p], !.power = atk[main.p],
                                !.left = members \ {main.p}]
        /\ main.p \in Players
    BY <1>0, <1>3 DEF AttackBegin, MainIdle
  <2>2. main' \in [pc : MainPc, p : Players \cup {None}, cell : Cells \cup {None},
                   power : Nat, left : SUBSET Players, v : Players \cup {None},
                   item : Types \cup {None}]
    BY <1>0, <2>1
  <2> QED BY <1>0, <1>3, <2>2 DEF AttackBegin
<1>4. CASE MoveEnd
  BY <1>0, <1>4 DEF MoveEnd, MainIdle
<1>18. CASE Look
  <2>1. CASE HasRoom(main.p)
    <3>1. /\ main' = [main EXCEPT !.pc = "take", !.cell = pos[main.p]]
          /\ main.p \in Players
      BY <1>0, <1>18, <2>1 DEF Look, MainIdle
    <3> QED BY <1>0, <1>18, <3>1 DEF Look
  <2>2. CASE ~HasRoom(main.p)
    BY <1>0, <1>18, <2>2 DEF Look, Idle
  <2> QED BY <2>1, <2>2
<1>5. CASE TakeItem
  <2>1. PICK i \in 1..item_count :
          /\ LiesAt(i, main.cell)
          /\ items' = [items EXCEPT ![i] = None]
          /\ main' = [main EXCEPT !.pc = "add", !.item = items[i].type]
    BY <1>5 DEF TakeItem
  <2>2. i \in Slots
    BY <1>0, CombatAssumption DEF Slots
  <2>3. items[i] \in [type : Types, cell : Cells]
    BY <1>0, <2>1, <2>2 DEF LiesAt
  <2>4. items' \in [Slots -> [type : Types, cell : Cells] \cup {None}]
    BY <1>0, <2>1
  <2>5. main' \in [pc : MainPc, p : Players \cup {None}, cell : Cells \cup {None},
                   power : Nat, left : SUBSET Players, v : Players \cup {None},
                   item : Types \cup {None}]
    BY <1>0, <2>1, <2>3
  <2> QED BY <1>0, <1>5, <2>4, <2>5, SMTT(60) DEF TakeItem
<1>6. CASE TakeNothing
  BY <1>0, <1>6 DEF TakeNothing, Idle
<1>7. CASE AddItem
  <2>1. \A s \in Seq(Types) : Append(s, main.item) \in Seq(Types)
    BY <1>0, <1>7 DEF AddItem
  <2> QED BY <1>0, <1>7, <2>1 DEF AddItem, Idle
<1>8. CASE UseHealth
  <2>1. \A h \in Int : Healed(h) \in Int
    BY CombatAssumption DEF Healed
  <2> QED BY <1>0, <1>8, <2>1 DEF UseHealth, StatusKept, Idle
<1>9. CASE UseAttack
  <2>1. atk' \in [Players -> Nat]
    <3>1. BaseAtk + Buff \in Nat
      BY CombatAssumption
    <3> QED BY <1>0, <1>9, <3>1 DEF UseAttack, Stronger
  <2>2. buffed' \in [Players -> BOOLEAN]
    BY <1>0, <1>9 DEF UseAttack
  <2> QED BY <1>0, <1>9, <2>1, <2>2 DEF UseAttack, Idle
<1>10. CASE UseShield
  BY <1>0, <1>10 DEF UseShield, Idle
<1>11. ASSUME NEW v \in Players, StrikeMiss(v) PROVE TypeOK'
  BY <1>0, <1>11 DEF StrikeMiss
<1>12. ASSUME NEW v \in Players, StrikeShield(v) PROVE TypeOK'
  BY <1>0, <1>12 DEF StrikeShield
<1>13. ASSUME NEW v \in Players, StrikeHit(v) PROVE TypeOK'
  <2>1. Damage(main.power) \in Nat
    BY <1>0, DamageType
  <2>2. hp' \in [Players -> Int]
    <3>1. hp[v] - Damage(main.power) \in Int
      BY <1>0, <2>1
    <3> QED BY <1>0, <1>13, <3>1 DEF StrikeHit
  <2> QED BY <1>0, <1>13, <2>2 DEF StrikeHit
<1>14. CASE StrikeKill
  <2>1. /\ hp' \in [Players -> Int]
        /\ status' \in [Players -> {"lobby", "in_room", "gaming", "dead"}]
    BY <1>0, <1>14 DEF StrikeKill
  <2> QED BY <1>0, <1>14, <2>1 DEF StrikeKill
<1>15. CASE AttackEnd
  BY <1>0, <1>15 DEF AttackEnd, Idle
<1> QED
  BY <1>1, <1>2, <1>3, <1>4, <1>5, <1>6, <1>7, <1>8, <1>9, <1>10, <1>11, <1>12,
     <1>13, <1>14, <1>15, <1>16, <1>17, <1>18 DEF Handlers

\* The game thread preserves the types.
LEMMA GameThreadTypeOK == IInv /\ GameThread => TypeOK'
<1> SUFFICES ASSUME IInv, GameThread PROVE TypeOK'
  OBVIOUS
<1> USE DEF TypeOK, bodyVars, mapVars, roomVars, ThreadPc, On, Jump
<1>0. TypeOK
  BY DEF IInv
<1>1. ASSUME NEW K \in SUBSET Players, UpdateBuffs(K) PROVE TypeOK'
  BY <1>0, <1>1, CombatAssumption DEF UpdateBuffs
<1>2. CASE Poison
  <2>1. PICK r \in Shrunk :
          LET hit == Outside(r)  killed == {p \in hit : hp[p] <= PoisonTick} IN
          /\ radius' = r
          /\ hp' = [p \in Players |-> IF p \in killed THEN 0
                                      ELSE IF p \in hit THEN hp[p] - PoisonTick
                                      ELSE hp[p]]
          /\ status' = LeftDead(killed)
    BY <1>2 DEF Poison
  <2>2. radius' \in Nat
    BY <1>0, <2>1 DEF Shrunk
  <2>3. hp' \in [Players -> Int]
    BY <1>0, <2>1, PoisonTickType
  <2>4. status' \in [Players -> {"lobby", "in_room", "gaming", "dead"}]
    BY <1>0, <2>1 DEF LeftDead
  <2> QED BY <1>0, <1>2, <2>2, <2>3, <2>4 DEF Poison
<1>3. ASSUME NEW c \in Cells, NEW type \in Types, SpawnItem(c, type) PROVE TypeOK'
  <2>1. PICK i \in Slots :
          /\ items' = [items EXCEPT ![i] = [type |-> type, cell |-> c]]
          /\ item_count' = CountFor(i)
    BY <1>3 DEF SpawnItem
  <2>2. item_count' \in 0..MaxItems
    BY <1>0, <2>1, CombatAssumption DEF CountFor, Slots
  <2> QED BY <1>0, <1>3, <2>1, <2>2 DEF SpawnItem
<1>4. CASE SpawnNothing
  BY <1>0, <1>4 DEF SpawnNothing
<1>5. CASE CheckEnd
  BY <1>0, <1>5 DEF CheckEnd
<1>6. CASE EndGame
  BY <1>0, <1>6 DEF EndGame, Collected
<1>7. ASSUME NEW p \in Players, Reset(p) PROVE TypeOK'
  <2>1. <<>> \in Seq(Types)
    OBVIOUS
  <2>2. hp' \in [Players -> Int] /\ atk' \in [Players -> Nat]
    <3>1. MaxHp \in Int /\ BaseAtk \in Nat
      BY CombatAssumption
    <3> QED BY <1>0, <1>7, <3>1 DEF Reset, Rested
  <2>3. buffed' \in [Players -> BOOLEAN] /\ shield' \in [Players -> BOOLEAN]
    BY <1>0, <1>7 DEF Reset
  <2>4. /\ status' \in [Players -> {"lobby", "in_room", "gaming", "dead"}]
        /\ pos' \in [Players -> Cells \cup {None}]
    BY <1>0, <1>7 DEF Reset
  <2>5. inventory' \in [Players -> Seq(Types)]
    BY <1>0, <1>7, <2>1 DEF Reset
  <2> QED BY <1>0, <1>7, <2>2, <2>3, <2>4, <2>5 DEF Reset
<1>8. CASE ReopenRoom
  BY <1>0, <1>8, CombatAssumption DEF ReopenRoom, NoGame, Slots
<1> QED BY <1>1, <1>2, <1>3, <1>4, <1>5, <1>6, <1>7, <1>8 DEF GameThread

\* Every step preserves the types.
LEMMA TypeOKStep == IInv /\ [Next]_vars => TypeOK'
<1>1. ASSUME IInv, Expire PROVE TypeOK'
  BY <1>1 DEF IInv, TypeOK, Expire, bodyVars, mapVars
<1>2. ASSUME IInv, UNCHANGED vars PROVE TypeOK'
  BY <1>2 DEF IInv, TypeOK, vars, bodyVars, mapVars, roomVars
<1> QED BY <1>1, <1>2, LobbyTypeOK, HandlersTypeOK, GameThreadTypeOK DEF Next

-----------------------------------------------------------------------------
(* What most steps leave alone *)

\* Handlers that neither take nor give hit points.
QuietHandlers ==
    \/ \E p \in Players : Accept(p)
    \/ \E c \in Cells : MoveBegin(c)
    \/ Refuse \/ UseBegin \/ AttackBegin
    \/ MoveEnd \/ Look \/ TakeItem \/ TakeNothing \/ AddItem \/ UseAttack \/ UseShield
    \/ \E v \in Players : StrikeMiss(v) \/ StrikeShield(v)
    \/ AttackEnd

LEMMA QuietHandlersFrame ==
  ASSUME QuietHandlers
  PROVE  UNCHANGED <<status, hp, roomVars, thr>> /\ main.pc # "wounded"
BY DEF QuietHandlers, Accept, Refuse, MoveBegin, UseBegin, AttackBegin, MoveEnd, Look,
       TakeItem, TakeNothing, AddItem, UseAttack, UseShield, StrikeMiss, StrikeShield,
       AttackEnd, MainIdle, At, bodyVars

\* None of them leaves the main thread with a wounded victim.
LEMMA QuietHandlersMain ==
  ASSUME IInv, QuietHandlers
  PROVE  main'.pc # "wounded"
<1>0. main \in [pc : MainPc, p : Players \cup {None}, cell : Cells \cup {None},
                power : Nat, left : SUBSET Players, v : Players \cup {None},
                item : Types \cup {None}]
  BY DEF IInv, TypeOK
<1>1. CASE MoveEnd
  BY <1>0, <1>1 DEF MoveEnd
<1>6. CASE Look
  BY <1>0, <1>6 DEF Look, Idle
<1>7. ASSUME NEW c \in Cells, MoveBegin(c) PROVE main'.pc # "wounded"
  BY <1>0, <1>7 DEF MoveBegin
<1>8. CASE UseBegin
  <2>1. PICK i \in 1..Len(inventory[main.p]) :
          main' = [main EXCEPT !.pc = "use", !.item = inventory[main.p][i]]
    BY <1>8 DEF UseBegin
  <2> QED BY <1>0, <2>1
<1>9. CASE AttackBegin
  BY <1>0, <1>9 DEF AttackBegin
<1>4. CASE TakeItem
  <2>1. PICK i \in 1..item_count :
          main' = [main EXCEPT !.pc = "add", !.item = items[i].type]
    BY <1>4 DEF TakeItem
  <2> QED BY <1>0, <2>1
<1>5. CASE \/ Refuse \/ TakeNothing \/ AddItem \/ UseAttack \/ UseShield \/ AttackEnd
  BY <1>5 DEF Refuse, TakeNothing, AddItem, UseAttack, UseShield, AttackEnd, Idle
<1>2. CASE \E p \in Players : Accept(p)
  BY <1>2 DEF Accept, Idle
<1>3. ASSUME NEW v \in Players, StrikeMiss(v) \/ StrikeShield(v) PROVE main'.pc # "wounded"
  BY <1>0, <1>3 DEF StrikeMiss, StrikeShield, At
<1> QED BY <1>1, <1>2, <1>3, <1>4, <1>5, <1>6, <1>7, <1>8, <1>9 DEF QuietHandlers

\* Steps of the game thread and of the clock that change no player's health.
QuietThread ==
    \/ \E K \in SUBSET Players : UpdateBuffs(K)
    \/ \E c \in Cells, type \in Types : SpawnItem(c, type)
    \/ SpawnNothing \/ CheckEnd \/ EndGame \/ ReopenRoom \/ Expire

LEMMA QuietThreadFrame ==
  ASSUME QuietThread
  PROVE  UNCHANGED <<status, hp, members, main>>
BY DEF QuietThread, UpdateBuffs, SpawnItem, SpawnNothing, CheckEnd, EndGame, ReopenRoom,
       Expire, bodyVars, roomVars

\* Every step is one of these, or one of the few that matter to the fight.
LEMMA StepCases ==
  ASSUME [Next]_vars
  PROVE  \/ UNCHANGED vars
         \/ \E p \in Players : Join(p) \/ Leave(p) \/ Reset(p) \/ StrikeHit(p)
         \/ StartGame \/ QuietHandlers \/ UseHealth \/ StrikeKill
         \/ QuietThread \/ Poison
BY Zenon DEF Next, Lobby, Handlers, GameThread, QuietHandlers, QuietThread

\* The poison takes from the players of the room that are alive, and kills those
\* it leaves without hit points.
LEMMA PoisonEffect ==
  ASSUME TypeOK, Poison
  PROVE  /\ UNCHANGED <<roomVars, main>> /\ On("poison") /\ thr' = [thr EXCEPT !.pc = "items"]
         /\ \A p \in Players :
                \/ hp'[p] = hp[p] /\ status'[p] = status[p]
                \/ /\ p \in Alive
                   /\ \/ hp'[p] = 0 /\ status'[p] = "dead"
                      \/ hp'[p] > 0 /\ hp'[p] < hp[p] /\ status'[p] = status[p]
<1>1. PICK r \in Shrunk :
        LET hit == Outside(r)  killed == {p \in hit : hp[p] <= PoisonTick} IN
        /\ hp' = [p \in Players |-> IF p \in killed THEN 0
                                    ELSE IF p \in hit THEN hp[p] - PoisonTick
                                    ELSE hp[p]]
        /\ status' = LeftDead(killed)
  BY DEF Poison
<1> DEFINE hit == Outside(r)
           killed == {p \in hit : hp[p] <= PoisonTick}
<1>2. hit \subseteq Alive
  BY DEF Outside
<1>3. /\ hp' = [p \in Players |-> IF p \in killed THEN 0
                                  ELSE IF p \in hit THEN hp[p] - PoisonTick
                                  ELSE hp[p]]
      /\ status' = [p \in Players |-> IF p \in killed THEN "dead" ELSE status[p]]
  BY <1>1 DEF LeftDead
<1>4. ASSUME NEW p \in Players
      PROVE  \/ hp'[p] = hp[p] /\ status'[p] = status[p]
             \/ /\ p \in Alive
                /\ \/ hp'[p] = 0 /\ status'[p] = "dead"
                   \/ hp'[p] > 0 /\ hp'[p] < hp[p] /\ status'[p] = status[p]
  <2>1. hp[p] \in Int /\ PoisonTick \in Nat \ {0}
    BY PoisonTickType DEF TypeOK
  <2>2. CASE p \in killed
    BY <1>2, <1>3, <2>2
  <2>3. CASE p \in hit \ killed
    <3>1. hp'[p] = hp[p] - PoisonTick /\ hp[p] > PoisonTick /\ status'[p] = status[p]
      BY <1>3, <2>1, <2>3
    <3> QED BY <1>2, <2>1, <2>3, <3>1
  <2>4. CASE p \notin hit
    BY <1>3, <2>4
  <2> QED BY <2>2, <2>3, <2>4
<1> QED BY <1>4 DEF Poison, Jump

-----------------------------------------------------------------------------
(* One lemma per part of the inductive invariant *)

\* Every step leaves nobody fighting on without hit points.
LEMMA NoWalkingDeadStep == IInv /\ [Next]_vars => NoWalkingDead'
<1> SUFFICES ASSUME IInv, [Next]_vars PROVE NoWalkingDead'
  OBVIOUS
<1>0. /\ TypeOK /\ NoWalkingDead /\ Locals
      /\ hp \in [Players -> Int] /\ status \in [Players -> {"lobby", "in_room", "gaming", "dead"}]
      /\ main \in [pc : MainPc, p : Players \cup {None}, cell : Cells \cup {None},
                   power : Nat, left : SUBSET Players, v : Players \cup {None},
                   item : Types \cup {None}]
  BY DEF IInv, TypeOK
<1>a. MaxHp \in Nat \ {0} /\ Restore \in Nat
  BY CombatAssumption
<1>b. main.pc # "wounded" =>
          \A p \in members : p \in Players /\ status[p] = "gaming" => hp[p] > 0
  BY <1>0 DEF NoWalkingDead
<1>1. CASE UNCHANGED <<status, hp, members, main>>
  BY <1>0, <1>1 DEF NoWalkingDead
<1>2. CASE QuietHandlers
  <2>1. UNCHANGED <<status, hp, members>> /\ main.pc # "wounded"
    BY <1>2, QuietHandlersFrame DEF roomVars
  <2> QED BY <1>0, <2>1 DEF NoWalkingDead
<1>3. ASSUME NEW p \in Players, Join(p) \/ Leave(p) PROVE NoWalkingDead'
  <2>1. /\ hp' = hp /\ main.pc # "wounded"
        /\ members' \in {members \cup {p}, members \ {p}}
        /\ status' \in {[status EXCEPT ![p] = "in_room"], [status EXCEPT ![p] = "lobby"]}
    BY <1>3 DEF Join, Leave, MainIdle, bodyVars
  <2> QED BY <1>0, <1>b, <2>1 DEF NoWalkingDead
<1>4. CASE StartGame
  <2>1. /\ main.pc # "wounded" /\ members' = members
        /\ hp' = [p \in Players |-> IF p \in members THEN MaxHp ELSE hp[p]]
    BY <1>4 DEF StartGame, MainIdle
  <2> QED BY <1>0, <1>a, <2>1 DEF NoWalkingDead
<1>5. CASE UseHealth
  <2>1. /\ main.pc # "wounded" /\ members' = members /\ status' = status
        /\ main.p \in Players
        /\ hp' = [hp EXCEPT ![main.p] = Healed(@)]
    BY <1>0, <1>5 DEF UseHealth, At, roomVars, StatusKept, Locals, MainIdle
  <2>2. Healed(hp[main.p]) <= MaxHp /\ Healed(hp[main.p]) >= hp[main.p]
    BY <1>0, <1>a, <2>1 DEF Healed, NoWalkingDead
  <2> QED BY <1>0, <1>a, <1>b, <2>1, <2>2 DEF NoWalkingDead, Healed
<1>6. ASSUME NEW v \in Players, StrikeHit(v) PROVE NoWalkingDead'
  <2>1. /\ main.pc # "wounded" /\ members' = members /\ status' = status
        /\ hp' = [hp EXCEPT ![v] = @ - Damage(main.power)]
        /\ main'.pc = "wounded" /\ main'.v = v
    BY <1>0, <1>6 DEF StrikeHit, At, roomVars
  <2>2. Damage(main.power) \in Nat \ {0}
    BY <1>0, DamageType
  <2>3. hp[v] - Damage(main.power) <= MaxHp
    BY <1>0, <1>a, <2>2 DEF NoWalkingDead
  <2> QED BY <1>0, <1>b, <2>1, <2>3 DEF NoWalkingDead
<1>7. CASE StrikeKill
  <2>1. /\ members' = members /\ main.pc = "wounded" /\ main.v \in Players
        /\ hp' = [hp EXCEPT ![main.v] = IF hp[main.v] <= 0 THEN 0 ELSE @]
        /\ status' = [status EXCEPT ![main.v] = IF hp[main.v] <= 0 THEN "dead" ELSE @]
    BY <1>0, <1>7 DEF StrikeKill, At, roomVars, Locals, TypeOK
  <2>2. \A p \in Players : hp'[p] <= MaxHp
    BY <1>0, <1>a, <2>1 DEF NoWalkingDead
  <2>3. \A p \in members : status'[p] = "gaming" => hp'[p] > 0
    BY <1>0, <2>1 DEF NoWalkingDead, TypeOK
  <2> QED BY <1>0, <2>1, <2>2, <2>3 DEF NoWalkingDead
<1>8. CASE Poison
  <2>1. UNCHANGED <<members, main>>
    BY <1>0, <1>8, PoisonEffect DEF roomVars
  <2>2. ASSUME NEW p \in Players
        PROVE  \/ hp'[p] = hp[p] /\ status'[p] = status[p]
               \/ hp'[p] = 0 /\ status'[p] = "dead"
               \/ hp'[p] > 0 /\ hp'[p] < hp[p]
    BY <1>0, <1>8, PoisonEffect
  <2>3. ASSUME NEW p \in Players
        PROVE  /\ hp'[p] <= MaxHp
               /\ p \in members /\ status'[p] = "gaming" /\ hp'[p] <= 0
                      => main.pc = "wounded" /\ main.v = p
    <3>1. hp'[p] \in Int
      BY TypeOKStep DEF TypeOK
    <3> QED BY <1>0, <1>a, <2>2, <3>1 DEF NoWalkingDead
  <2> QED BY <2>1, <2>3 DEF NoWalkingDead
<1>9. ASSUME NEW p \in Players, Reset(p) PROVE NoWalkingDead'
  <2>1. /\ UNCHANGED <<members, main>>
        /\ hp' = [hp EXCEPT ![p] = MaxHp]
        /\ status' = [status EXCEPT ![p] = "in_room"]
    BY <1>9 DEF Reset, Rested, roomVars
  <2> QED BY <1>0, <1>a, <2>1 DEF NoWalkingDead
<1>10. UNCHANGED vars \/ QuietThread => UNCHANGED <<status, hp, members, main>>
  BY QuietThreadFrame DEF vars, bodyVars, roomVars
<1> QED
  BY <1>1, <1>2, <1>3, <1>4, <1>5, <1>6, <1>7, <1>8, <1>9, <1>10, StepCases

\* Every step keeps the statuses of the players in step with the room.
LEMMA StatusFollowsPhaseStep == IInv /\ [Next]_vars => StatusFollowsPhase'
<1> SUFFICES ASSUME IInv, [Next]_vars PROVE StatusFollowsPhase'
  OBVIOUS
<1>0. /\ TypeOK /\ StatusFollowsPhase /\ Locals
      /\ members \in SUBSET Players
      /\ status \in [Players -> {"lobby", "in_room", "gaming", "dead"}]
  BY DEF IInv, TypeOK
<1>1. CASE UNCHANGED <<status, members, phase>>
  BY <1>0, <1>1 DEF StatusFollowsPhase
<1>2. CASE QuietHandlers
  BY <1>1, <1>2, QuietHandlersFrame DEF roomVars
<1>3. ASSUME NEW p \in Players, Join(p) PROVE StatusFollowsPhase'
  BY <1>0, <1>3 DEF Join, StatusFollowsPhase
<1>4. ASSUME NEW p \in Players, Leave(p) PROVE StatusFollowsPhase'
  BY <1>0, <1>4 DEF Leave, StatusFollowsPhase
<1>5. CASE StartGame
  BY <1>0, <1>5 DEF StartGame, StatusFollowsPhase
<1>6. CASE UseHealth
  BY <1>1, <1>6 DEF UseHealth, StatusKept, roomVars
<1>7. ASSUME NEW v \in Players, StrikeHit(v) PROVE StatusFollowsPhase'
  BY <1>1, <1>7 DEF StrikeHit, roomVars
<1>8. CASE StrikeKill
  <2>1. /\ UNCHANGED <<members, phase>> /\ main.v \in members
        /\ status' = [status EXCEPT ![main.v] = IF hp[main.v] <= 0 THEN "dead" ELSE @]
        /\ status[main.v] = "in_room" => hp[main.v] = MaxHp
    BY <1>0, <1>8 DEF StrikeKill, At, roomVars, Locals
  <2>2. phase = "waiting" => status' = status
    BY <1>0, <2>1, CombatAssumption DEF StatusFollowsPhase
  <2> QED BY <1>0, <2>1, <2>2 DEF StatusFollowsPhase
<1>9. CASE Poison
  <2>1. UNCHANGED <<members, phase>> /\ phase = "gaming"
    BY <1>0, <1>9, PoisonEffect DEF roomVars, Locals, On, TypeOK
  <2>2. \A p \in Players : status'[p] = status[p] \/ status'[p] = "dead"
    BY <1>0, <1>9, PoisonEffect
  <2> QED BY <1>0, <2>1, <2>2 DEF StatusFollowsPhase
<1>10. ASSUME NEW p \in Players, Reset(p) PROVE StatusFollowsPhase'
  BY <1>0, <1>10 DEF Reset, roomVars, Locals, On, StatusFollowsPhase
<1>11. CASE QuietThread
  <2>1. UNCHANGED <<status, members>>
    BY <1>11, QuietThreadFrame
  <2>2. \/ phase' = phase \/ phase' = "ended"
        \/ phase' = "waiting" /\ On("reset") /\ thr.ids = {}
    BY <1>11 DEF QuietThread, UpdateBuffs, SpawnItem, SpawnNothing, CheckEnd, EndGame,
                 ReopenRoom, Expire, roomVars
  <2> QED BY <1>0, <2>1, <2>2 DEF StatusFollowsPhase, Locals
<1>12. UNCHANGED vars => UNCHANGED <<status, members, phase>>
  BY DEF vars, roomVars
<1> QED
  BY <1>1, <1>2, <1>3, <1>4, <1>5, <1>6, <1>7, <1>8, <1>9, <1>10, <1>11, <1>12, StepCases

\* Nobody comes back to life before the next game starts.
LEMMA AliveShrinks ==
  ASSUME IInv, [Next]_vars, ~StartGame
  PROVE  Alive' \subseteq Alive
<1>0. /\ TypeOK /\ NoWalkingDead /\ Locals
      /\ members \in SUBSET Players /\ hp \in [Players -> Int]
      /\ status \in [Players -> {"lobby", "in_room", "gaming", "dead"}]
      /\ main \in [pc : MainPc, p : Players \cup {None}, cell : Cells \cup {None},
                   power : Nat, left : SUBSET Players, v : Players \cup {None},
                   item : Types \cup {None}]
  BY DEF IInv, TypeOK
<1>1. CASE UNCHANGED <<status, hp, members>>
  BY <1>1 DEF Alive
<1>2. ASSUME NEW p \in Players, Join(p) \/ Leave(p) PROVE Alive' \subseteq Alive
  <2>1. /\ hp' = hp /\ members' \in {members \cup {p}, members \ {p}}
        /\ status' \in {[status EXCEPT ![p] = "in_room"], [status EXCEPT ![p] = "lobby"]}
    BY <1>2 DEF Join, Leave, bodyVars
  <2> QED BY <1>0, <2>1 DEF Alive
<1>3. CASE UseHealth
  <2>1. /\ status' = status /\ members' = members /\ main.p \in Players
        /\ hp' = [hp EXCEPT ![main.p] = Healed(@)] /\ main.pc # "wounded"
    BY <1>0, <1>3 DEF UseHealth, StatusKept, roomVars, Locals, MainIdle, At
  <2> QED BY <1>0, <2>1 DEF Alive, NoWalkingDead
<1>4. ASSUME NEW v \in Players, StrikeHit(v) PROVE Alive' \subseteq Alive
  <2>1. /\ status' = status /\ members' = members
        /\ hp' = [hp EXCEPT ![v] = @ - Damage(main.power)]
        /\ Damage(main.power) \in Nat \ {0}
    BY <1>0, <1>4, DamageType DEF StrikeHit, roomVars
  <2> QED BY <1>0, <2>1 DEF Alive
<1>5. CASE StrikeKill
  <2>1. /\ members' = members /\ main.v \in Players
        /\ hp' = [hp EXCEPT ![main.v] = IF hp[main.v] <= 0 THEN 0 ELSE @]
        /\ status' = [status EXCEPT ![main.v] = IF hp[main.v] <= 0 THEN "dead" ELSE @]
    BY <1>0, <1>5 DEF StrikeKill, At, roomVars, Locals
  <2> QED BY <1>0, <2>1 DEF Alive
<1>6. CASE Poison
  <2>1. members' = members
    BY <1>0, <1>6, PoisonEffect DEF roomVars
  <2>2. \A p \in Players : \/ hp'[p] = hp[p] /\ status'[p] = status[p]
                           \/ p \in Alive
    BY <1>0, <1>6, PoisonEffect
  <2> QED BY <1>0, <2>1, <2>2 DEF Alive
<1>7. ASSUME NEW p \in Players, Reset(p) PROVE Alive' \subseteq Alive
  <2>1. /\ members' = members
        /\ hp' = [hp EXCEPT ![p] = MaxHp]
        /\ status' = [status EXCEPT ![p] = "in_room"]
    BY <1>7 DEF Reset, Rested, roomVars
  <2> QED BY <1>0, <2>1 DEF Alive
<1>8. UNCHANGED vars \/ QuietThread \/ QuietHandlers => UNCHANGED <<status, hp, members>>
  BY QuietThreadFrame, QuietHandlersFrame DEF vars, bodyVars, roomVars
<1> QED BY <1>1, <1>2, <1>3, <1>4, <1>5, <1>6, <1>7, <1>8, StepCases

\* Every step leaves the verdict of game_check_end() standing.
LEMMA VerdictStandsStep == IInv /\ [Next]_vars => VerdictStands'
<1> SUFFICES ASSUME IInv, [Next]_vars PROVE VerdictStands'
  OBVIOUS
<1>0. /\ TypeOK /\ VerdictStands
      /\ thr \in [pc : ThreadPc, winner : Players \cup {None}, ids : SUBSET Players]
  BY DEF IInv, TypeOK
<1>1. CASE CheckEnd
  <2>1. UNCHANGED <<Alive, expired>>
    BY <1>1 DEF CheckEnd, Alive, bodyVars, roomVars
  <2>2. CASE expired
    BY <2>1, <2>2 DEF VerdictStands
  <2>3. CASE Alive = {}
    BY <2>1, <2>3 DEF VerdictStands
  <2>4. ASSUME NEW w \in Players, Outlived(w), thr' = [thr EXCEPT !.pc = "end", !.winner = w]
        PROVE  VerdictStands'
    BY <1>0, <2>1, <2>4 DEF VerdictStands, Outlived
  <2>5. CASE Jump("buffs")
    BY <1>0, <2>5 DEF VerdictStands, Jump, On
  <2> QED BY <1>1, <2>2, <2>3, <2>4, <2>5 DEF CheckEnd
<1>2. CASE StartGame
  BY <1>2 DEF StartGame, NoGame, VerdictStands, On
<1>3. CASE ~CheckEnd /\ ~StartGame
  <2>1. thr'.pc = "end" => thr' = thr
    <3>1. UNCHANGED vars \/ Expire \/ Lobby \/ Handlers => thr' = thr
      BY <1>3 DEF vars, Expire, Lobby, Join, Leave, Handlers, Accept, Refuse, MoveBegin, UseBegin,
                  AttackBegin, Look,
                  MoveEnd, TakeItem, TakeNothing, AddItem, UseHealth, UseAttack, UseShield,
                  StrikeMiss, StrikeShield, StrikeHit, StrikeKill, AttackEnd
    <3>2. CASE GameThread
      <4>1. \/ \E pc \in {"poison", "items", "check"} : Jump(pc)
            \/ thr' = [thr EXCEPT !.pc = "reset", !.ids = Collected]
            \/ On("reset") /\ \E p \in Players : thr' = [thr EXCEPT !.ids = @ \ {p}]
            \/ thr' = NoGame
        BY <1>3, <3>2 DEF GameThread, UpdateBuffs, Poison, SpawnItem, SpawnNothing, EndGame,
                    Reset, ReopenRoom
      <4>2. ASSUME NEW pc \in {"poison", "items", "check"}, Jump(pc) PROVE thr'.pc # "end"
        BY <1>0, <4>2 DEF Jump
      <4>3. thr' = [thr EXCEPT !.pc = "reset", !.ids = Collected] => thr'.pc # "end"
        BY <1>0
      <4>4. ASSUME On("reset"), NEW p \in Players, thr' = [thr EXCEPT !.ids = @ \ {p}]
            PROVE  thr'.pc # "end"
        BY <1>0, <4>4 DEF On
      <4> QED BY <4>1, <4>2, <4>3, <4>4 DEF NoGame
    <3> QED BY <3>1, <3>2 DEF Next
  <2>2. thr'.pc = "end" => expired' = expired \/ expired'
    <3>1. Expire => expired'
      BY DEF Expire
    <3>2. UNCHANGED vars \/ QuietHandlers => expired' = expired
      BY QuietHandlersFrame DEF vars, roomVars
    <3>3. ASSUME NEW p \in Players, Join(p) \/ Leave(p) \/ Reset(p) \/ StrikeHit(p)
          PROVE  expired' = expired
      BY <3>3 DEF Join, Leave, Reset, StrikeHit, roomVars
    <3>4. UseHealth \/ StrikeKill \/ Poison => expired' = expired
      BY DEF UseHealth, StrikeKill, Poison, roomVars
    <3>5. QuietThread /\ ~Expire => expired' = expired \/ expired'
      BY <1>3 DEF QuietThread, UpdateBuffs, SpawnItem, SpawnNothing, EndGame, ReopenRoom,
                  roomVars
    <3> QED BY <1>3, <3>1, <3>2, <3>3, <3>4, <3>5, StepCases
  <2>3. Alive' \subseteq Alive
    BY <1>3, AliveShrinks
  <2> QED BY <1>0, <2>1, <2>2, <2>3 DEF VerdictStands, On
<1> QED BY <1>1, <1>2, <1>3

\* Every step leaves the picker a place in his inventory.
LEMMA PlaceForItemStep == IInv /\ [Next]_vars => PlaceForItem'
<1> SUFFICES ASSUME IInv, [Next]_vars PROVE PlaceForItem'
  OBVIOUS
<1>0. /\ TypeOK /\ PlaceForItem /\ Locals
      /\ inventory \in [Players -> Seq(Types)]
      /\ main \in [pc : MainPc, p : Players \cup {None}, cell : Cells \cup {None},
                   power : Nat, left : SUBSET Players, v : Players \cup {None},
                   item : Types \cup {None}]
  BY DEF IInv, TypeOK
<1>1. CASE TakeItem
  <2>1. PICK i \in 1..item_count :
          /\ At("take")
          /\ main' = [main EXCEPT !.pc = "add", !.item = items[i].type]
          /\ inventory' = inventory
    BY <1>1 DEF TakeItem, bodyVars
  <2> QED BY <1>0, <2>1 DEF Locals, PlaceForItem
<1>2. ASSUME NEW p \in Players, Reset(p) PROVE PlaceForItem'
  <2>1. inventory' = [inventory EXCEPT ![p] = <<>>] /\ main' = main
    BY <1>2 DEF Reset
  <2>2. At("add") => main.p \in Players
    BY <1>0 DEF Locals, MainIdle, At
  <2>3. \A q \in Players : Len(inventory[q]) \in Nat /\ MaxInventory \in Nat
    BY <1>0, CombatAssumption
  <2>4. CASE p = main.p
    BY <1>0, <2>1, <2>2, <2>3, <2>4 DEF PlaceForItem, At
  <2>5. CASE p # main.p
    BY <1>0, <2>1, <2>2, <2>5 DEF PlaceForItem, At
  <2> QED BY <2>4, <2>5
<1>3. CASE main'.pc # "add"
  BY <1>3 DEF PlaceForItem, At
<1>4. CASE UNCHANGED <<main, inventory>>
  BY <1>0, <1>4 DEF PlaceForItem, At
<1>5. Lobby \/ Expire \/ UNCHANGED vars => UNCHANGED <<main, inventory>> \/ main'.pc # "add"
  BY DEF Lobby, Join, Leave, StartGame, MainIdle, Expire, vars, bodyVars
<1>6. ASSUME Handlers, ~TakeItem PROVE main'.pc # "add"
  <2>1. CASE QuietHandlers
    <3>1. CASE \E p \in Players : Accept(p)
      BY <3>1 DEF Accept, Idle
    <3>2. CASE \/ MoveEnd \/ AttackBegin \/ \E c \in Cells : MoveBegin(c)
      BY <1>0, <3>2 DEF MoveEnd, AttackBegin, MoveBegin
    <3>5. CASE Look
      BY <1>0, <3>5 DEF Look, Idle
    <3>6. CASE UseBegin
      <4>1. PICK i \in 1..Len(inventory[main.p]) :
              main' = [main EXCEPT !.pc = "use", !.item = inventory[main.p][i]]
        BY <3>6 DEF UseBegin
      <4> QED BY <1>0, <4>1
    <3>3. CASE \/ Refuse \/ TakeNothing \/ AddItem \/ UseAttack \/ UseShield \/ AttackEnd
      BY <3>3 DEF Refuse, TakeNothing, AddItem, UseAttack, UseShield, AttackEnd, Idle
    <3>4. ASSUME NEW v \in Players, StrikeMiss(v) \/ StrikeShield(v) PROVE main'.pc # "add"
      BY <1>0, <3>4 DEF StrikeMiss, StrikeShield, At
    <3> QED BY <1>6, <2>1, <3>1, <3>2, <3>3, <3>4, <3>5, <3>6 DEF QuietHandlers
  <2>2. ASSUME NEW v \in Players, StrikeHit(v) PROVE main'.pc # "add"
    BY <1>0, <2>2 DEF StrikeHit
  <2>3. CASE StrikeKill \/ UseHealth
    <3>1. CASE StrikeKill
      <4>1. main' = [main EXCEPT !.pc = "strike", !.v = None]
        BY <3>1 DEF StrikeKill
      <4> QED BY <1>0, <4>1
    <3>2. CASE UseHealth
      BY <3>2 DEF UseHealth, Idle
    <3> QED BY <2>3, <3>1, <3>2
  <2> QED BY <1>6, <2>1, <2>2, <2>3 DEF Handlers, QuietHandlers
<1>7. ASSUME GameThread, \A p \in Players : ~Reset(p) PROVE UNCHANGED <<main, inventory>>
  BY <1>7 DEF GameThread, UpdateBuffs, Poison, SpawnItem, SpawnNothing, CheckEnd, EndGame,
              ReopenRoom, bodyVars
<1> QED BY <1>1, <1>2, <1>3, <1>4, <1>5, <1>6, <1>7 DEF Next, GameThread

\* Every step keeps the items within the count.
LEMMA ItemsCountedStep == IInv /\ [Next]_vars => ItemsCounted'
<1> SUFFICES ASSUME IInv, [Next]_vars PROVE ItemsCounted'
  OBVIOUS
<1>0. /\ TypeOK /\ ItemsCounted
      /\ items \in [Slots -> [type : Types, cell : Cells] \cup {None}]
      /\ item_count \in Nat
  BY CombatAssumption DEF IInv, TypeOK
<1>1. CASE UNCHANGED <<items, item_count>>
  BY <1>0, <1>1 DEF ItemsCounted
<1>2. CASE StartGame
  <2>1. PICK type \in [Slots -> Types] : items' = InitialItems(type)
    BY <1>2 DEF StartGame
  <2>2. item_count' = InitialCount
    BY <1>2 DEF StartGame
  <2> QED BY <2>1, <2>2 DEF ItemsCounted, InitialItems
<1>3. CASE TakeItem
  <2>1. PICK i \in 1..item_count :
          /\ items' = [items EXCEPT ![i] = None]
          /\ item_count' = item_count
    BY <1>3 DEF TakeItem
  <2> QED BY <1>0, <2>1 DEF ItemsCounted
<1>4. ASSUME NEW c \in Cells, NEW type \in Types, SpawnItem(c, type) PROVE ItemsCounted'
  <2>1. PICK i \in Slots :
          /\ items' = [items EXCEPT ![i] = [type |-> type, cell |-> c]]
          /\ item_count' = CountFor(i)
    BY <1>4 DEF SpawnItem
  <2>2. item_count <= item_count' /\ i <= item_count' /\ item_count' \in Nat
    BY <1>0, <2>1, CombatAssumption DEF CountFor, Slots
  <2>3. ASSUME NEW j \in Slots, items'[j] # None PROVE j <= item_count'
    <3>1. j \in Nat
      BY CombatAssumption DEF Slots
    <3>2. CASE j = i
      BY <2>2, <3>2
    <3>3. CASE j # i
      BY <1>0, <2>1, <2>2, <2>3, <3>1, <3>3 DEF ItemsCounted
    <3> QED BY <3>2, <3>3
  <2> QED BY <2>3 DEF ItemsCounted
<1>5. CASE ReopenRoom
  BY <1>5 DEF ReopenRoom, ItemsCounted
<1>6. Lobby => StartGame \/ UNCHANGED <<items, item_count>>
  BY DEF Lobby, Join, Leave, mapVars
<1>7. Handlers => TakeItem \/ UNCHANGED <<items, item_count>>
  BY DEF Handlers, Accept, Refuse, MoveBegin, UseBegin, AttackBegin, MoveEnd, Look,
         TakeNothing, AddItem, UseHealth,
         UseAttack, UseShield, StrikeMiss, StrikeShield, StrikeHit, StrikeKill, AttackEnd,
         mapVars
<1>8. GameThread => \/ \E c \in Cells, type \in Types : SpawnItem(c, type)
                    \/ ReopenRoom \/ UNCHANGED <<items, item_count>>
  BY DEF GameThread, UpdateBuffs, Poison, SpawnNothing, CheckEnd, EndGame, Reset, mapVars
<1>9. Expire \/ UNCHANGED vars => UNCHANGED <<items, item_count>>
  BY DEF Expire, vars, mapVars
<1> QED BY <1>1, <1>2, <1>3, <1>4, <1>5, <1>6, <1>7, <1>8, <1>9 DEF Next

\* Every step keeps the strength of the attack and its expiry time together.
LEMMA OnePotionStep == IInv /\ [Next]_vars => OnePotion'
<1> SUFFICES ASSUME IInv, [Next]_vars PROVE OnePotion'
  OBVIOUS
<1>0. /\ OnePotion /\ Locals
      /\ atk \in [Players -> Nat] /\ buffed \in [Players -> BOOLEAN]
  BY DEF IInv, TypeOK
<1>1. CASE UNCHANGED <<atk, buffed>>
  BY <1>0, <1>1 DEF OnePotion
<1>2. CASE StartGame
  <2>1. ASSUME NEW p \in Players
        PROVE  /\ p \in members => atk'[p] = BaseAtk /\ ~buffed'[p]
               /\ p \notin members => atk'[p] = atk[p] /\ (buffed'[p] <=> buffed[p])
    BY <1>2, Zenon DEF StartGame
  <2> QED BY <1>0, <2>1 DEF OnePotion
<1>3. CASE UseAttack
  <2>1. /\ atk' = [atk EXCEPT ![main.p] = BaseAtk + Buff]
        /\ buffed' = [buffed EXCEPT ![main.p] = TRUE]
    BY <1>3 DEF UseAttack, Stronger
  <2> QED BY <1>0, <2>1 DEF OnePotion
<1>4. ASSUME NEW K \in SUBSET Players, UpdateBuffs(K) PROVE OnePotion'
  <2>1. ASSUME NEW p \in Players
        PROVE  /\ p \in K => atk'[p] = BaseAtk /\ ~buffed'[p]
               /\ p \notin K => atk'[p] = atk[p] /\ (buffed'[p] <=> buffed[p])
    BY <1>4, Zenon DEF UpdateBuffs
  <2> QED BY <1>0, <2>1 DEF OnePotion
<1>5. ASSUME NEW p \in Players, Reset(p) PROVE OnePotion'
  BY <1>0, <1>5 DEF Reset, OnePotion
<1>6. Lobby => StartGame \/ UNCHANGED <<atk, buffed>>
  BY DEF Lobby, Join, Leave, bodyVars
<1>7. Handlers => UseAttack \/ UNCHANGED <<atk, buffed>>
  BY DEF Handlers, Accept, Refuse, MoveBegin, UseBegin, AttackBegin, MoveEnd, Look,
         TakeItem, TakeNothing, AddItem,
         UseHealth, UseShield, StrikeMiss, StrikeShield, StrikeHit, StrikeKill, AttackEnd,
         bodyVars
<1>8. GameThread => \/ \E K \in SUBSET Players : UpdateBuffs(K)
                    \/ \E p \in Players : Reset(p)
                    \/ UNCHANGED <<atk, buffed>>
  BY DEF GameThread, Poison, SpawnItem, SpawnNothing, CheckEnd, EndGame, ReopenRoom, bodyVars
<1>9. Expire \/ UNCHANGED vars => UNCHANGED <<atk, buffed>>
  BY DEF Expire, vars, bodyVars
<1> QED BY <1>1, <1>2, <1>3, <1>4, <1>5, <1>6, <1>7, <1>8, <1>9 DEF Next

\* The locals of the main thread stay in order.
LEMMA MainLocalsStep ==
  ASSUME IInv, [Next]_vars
  PROVE  /\ main'.pc # "idle" => main'.p \in Players
         /\ main'.pc = "move" => main'.cell \in Cells
         /\ main'.pc \in {"use", "add"} => main'.item \in Types
         /\ main'.pc = "take" => Len(inventory'[main'.p]) < MaxInventory
<1> DEFINE Goal == /\ main'.pc # "idle" => main'.p \in Players
                   /\ main'.pc = "move" => main'.cell \in Cells
                   /\ main'.pc \in {"use", "add"} => main'.item \in Types
                   /\ main'.pc = "take" => Len(inventory'[main'.p]) < MaxInventory
<1> SUFFICES Goal
  OBVIOUS
<1>0. /\ main.pc # "idle" => main.p \in Players
      /\ main.pc = "move" => main.cell \in Cells
      /\ main.pc \in {"use", "add"} => main.item \in Types
      /\ main.pc = "take" => Len(inventory[main.p]) < MaxInventory
      /\ inventory \in [Players -> Seq(Types)]
      /\ items \in [Slots -> [type : Types, cell : Cells] \cup {None}]
      /\ item_count \in 0..MaxItems
      /\ main \in [pc : MainPc, p : Players \cup {None}, cell : Cells \cup {None},
                   power : Nat, left : SUBSET Players, v : Players \cup {None},
                   item : Types \cup {None}]
  BY DEF IInv, TypeOK, Locals, MainIdle, At
<1>1. CASE main' = Idle
  BY <1>1 DEF Idle
<1>2. CASE UNCHANGED <<main, inventory>>
  BY <1>0, <1>2
<1>3. ASSUME NEW p \in Players, Reset(p) PROVE Goal
  <2>1. inventory' = [inventory EXCEPT ![p] = <<>>] /\ main' = main
    BY <1>3 DEF Reset
  <2>2. \A q \in Players : Len(inventory[q]) \in Nat /\ MaxInventory \in Nat
    BY <1>0, CombatAssumption
  <2>3. CASE p = main.p
    BY <1>0, <2>1, <2>2, <2>3
  <2>4. CASE p # main.p
    BY <1>0, <2>1, <2>2, <2>4
  <2> QED BY <2>3, <2>4
<1>4. ASSUME NEW c \in Cells, MoveBegin(c) PROVE Goal
  BY <1>0, <1>4 DEF MoveBegin, At
<1>5. CASE UseBegin
  <2>1. PICK i \in 1..Len(inventory[main.p]) :
          main' = [main EXCEPT !.pc = "use", !.item = inventory[main.p][i]]
    BY <1>5 DEF UseBegin
  <2>2. main.p \in Players /\ inventory[main.p][i] \in Types
    BY <1>0, <1>5 DEF UseBegin, At
  <2> QED BY <1>0, <2>1, <2>2
<1>6. CASE AttackBegin
  BY <1>0, <1>6 DEF AttackBegin, At
<1>15. ASSUME NEW p \in Players, Accept(p) PROVE Goal
  BY <1>15 DEF Accept, Idle
<1>16. CASE MoveEnd
  BY <1>0, <1>16 DEF MoveEnd, At
<1>7. CASE Look
  <2>1. CASE HasRoom(main.p)
    <3>1. /\ main' = [main EXCEPT !.pc = "take", !.cell = pos[main.p]] /\ inventory' = inventory
          /\ main.pc = "look"
      BY <1>7, <2>1 DEF Look, At, bodyVars
    <3> QED BY <1>0, <2>1, <3>1 DEF HasRoom
  <2>2. CASE ~HasRoom(main.p)
    BY <1>1, <1>7, <2>2 DEF Look
  <2> QED BY <2>1, <2>2
<1>8. CASE TakeItem
  <2>1. PICK i \in 1..item_count :
          /\ main.pc = "take"
          /\ LiesAt(i, main.cell)
          /\ main' = [main EXCEPT !.pc = "add", !.item = items[i].type]
    BY <1>8 DEF TakeItem, At
  <2>2. i \in Slots
    BY <1>0, CombatAssumption DEF Slots
  <2>3. items[i].type \in Types
    BY <1>0, <2>1, <2>2 DEF LiesAt
  <2> QED BY <1>0, <2>1, <2>3
<1>9. ASSUME NEW v \in Players, StrikeMiss(v) \/ StrikeShield(v) \/ StrikeHit(v) PROVE Goal
  BY <1>0, <1>9 DEF StrikeMiss, StrikeShield, StrikeHit, At
<1>10. CASE StrikeKill
  <2>1. main' = [main EXCEPT !.pc = "strike", !.v = None] /\ main.pc = "wounded"
    BY <1>10 DEF StrikeKill, At
  <2> QED BY <1>0, <2>1
<1>11. Lobby \/ Expire \/ UNCHANGED vars
         => UNCHANGED <<main, inventory>> \/ (main' = main /\ main.pc = "idle")
  BY DEF Lobby, Join, Leave, StartGame, MainIdle, Expire, vars, bodyVars
<1>12. main' = main /\ main.pc = "idle" => Goal
  OBVIOUS
<1>13. Refuse \/ TakeNothing \/ AddItem \/ UseHealth \/ UseAttack \/ UseShield \/ AttackEnd
         => main' = Idle
  BY DEF Refuse, TakeNothing, AddItem, UseHealth, UseAttack, UseShield, AttackEnd
<1>14. GameThread => (\E p \in Players : Reset(p)) \/ UNCHANGED <<main, inventory>>
  BY DEF GameThread, UpdateBuffs, Poison, SpawnItem, SpawnNothing, CheckEnd, EndGame,
         ReopenRoom, bodyVars
<1> HIDE DEF Goal
<1> QED BY <1>1, <1>2, <1>3, <1>4, <1>5, <1>6, <1>7, <1>8, <1>9, <1>10, <1>11, <1>12, <1>13,
           <1>14, <1>15, <1>16 DEF Next, Handlers

\* A wounded victim is in the room, and unhurt if he has been put back meanwhile.
LEMMA WoundedStep ==
  ASSUME IInv, [Next]_vars, main'.pc = "wounded"
  PROVE  main'.v \in members' /\ (status'[main'.v] = "in_room" => hp'[main'.v] = MaxHp)
<1> DEFINE Unhurt == main'.v \in members' /\ (status'[main'.v] = "in_room" => hp'[main'.v] = MaxHp)
<1>0. /\ TypeOK
      /\ main.pc = "wounded" => /\ main.v \in members
                                /\ status[main.v] = "in_room" => hp[main.v] = MaxHp
      /\ members \in SUBSET Players
      /\ hp \in [Players -> Int]
      /\ status \in [Players -> {"lobby", "in_room", "gaming", "dead"}]
      /\ main \in [pc : MainPc, p : Players \cup {None}, cell : Cells \cup {None},
                   power : Nat, left : SUBSET Players, v : Players \cup {None},
                   item : Types \cup {None}]
  BY DEF IInv, TypeOK, Locals, At
<1>1. CASE UNCHANGED <<main, status, hp, members>>
  BY <1>0, <1>1
<1>2. ASSUME NEW v \in Players, StrikeHit(v) PROVE Unhurt
  <2>1. /\ main' = [main EXCEPT !.pc = "wounded", !.v = v, !.left = @ \ {v}]
        /\ v \in members /\ status[v] = "gaming"
        /\ UNCHANGED <<status, members>>
    BY <1>2 DEF StrikeHit, Struck, Alive, roomVars
  <2> QED BY <1>0, <2>1
<1>3. CASE Poison
  <2>1. /\ UNCHANGED <<main, members>>
        /\ \A p \in Players : \/ hp'[p] = hp[p] /\ status'[p] = status[p]
                              \/ p \in Alive /\ status'[p] \in {"dead", status[p]}
    BY <1>0, <1>3, PoisonEffect DEF roomVars
  <2>2. main.v \in Players /\ main.v \in members
    BY <1>0, <2>1
  <2>3. CASE hp'[main.v] = hp[main.v] /\ status'[main.v] = status[main.v]
    BY <1>0, <2>1, <2>3
  <2>4. CASE main.v \in Alive /\ status'[main.v] \in {"dead", status[main.v]}
    BY <2>1, <2>2, <2>4 DEF Alive
  <2> QED BY <2>1, <2>2, <2>3, <2>4
<1>4. ASSUME NEW p \in Players, Reset(p) PROVE Unhurt
  <2>1. /\ hp' = [hp EXCEPT ![p] = MaxHp] /\ status' = [status EXCEPT ![p] = "in_room"]
        /\ UNCHANGED <<main, members>>
    BY <1>4 DEF Reset, Rested, roomVars
  <2> QED BY <1>0, <2>1
<1>5. CASE QuietThread
  BY <1>1, <1>5, QuietThreadFrame
<1>6. ~QuietHandlers
  BY QuietHandlersMain
<1>7. ASSUME NEW p \in Players, Join(p) \/ Leave(p) PROVE main'.pc = "idle"
  BY <1>7 DEF Join, Leave, MainIdle
<1>8. StartGame => main'.pc = "idle"
  BY DEF StartGame, MainIdle
<1>9. ~UseHealth
  BY DEF UseHealth, Idle
<1>10. ~StrikeKill
  <2>1. SUFFICES ASSUME StrikeKill PROVE FALSE
    OBVIOUS
  <2>2. main' = [main EXCEPT !.pc = "strike", !.v = None]
    BY <2>1 DEF StrikeKill
  <2> QED BY <1>0, <2>2
<1>11. UNCHANGED vars => UNCHANGED <<main, status, hp, members>>
  BY DEF vars, bodyVars, roomVars
<1> HIDE DEF Unhurt
<1>12. Unhurt
  BY <1>1, <1>2, <1>3, <1>4, <1>5, <1>6, <1>7, <1>8, <1>9, <1>10, <1>11, StepCases DEF Unhurt
<1> QED BY <1>12 DEF Unhurt

\* Where the game thread can go in a step, and what the room's state becomes.
LEMMA ThreadStep ==
  ASSUME IInv, [Next]_vars
  PROVE  \/ thr' = thr /\ phase' = phase
         \/ thr'.pc \notin {"none", "reset"} /\ phase' = phase /\ ~On("none") /\ ~On("reset")
         \/ StartGame /\ thr'.pc = "buffs" /\ phase' = "gaming"
         \/ EndGame /\ thr'.pc = "reset" /\ thr'.ids = members /\ phase' = "ended"
         \/ On("reset") /\ thr'.pc = "reset" /\ phase' = phase
              /\ \E p \in Players : Reset(p) /\ thr'.ids = thr.ids \ {p}
         \/ ReopenRoom /\ thr' = NoGame /\ phase' = "waiting"
<1> DEFINE Same    == thr' = thr /\ phase' = phase
           Inside  == /\ thr'.pc \notin {"none", "reset"} /\ phase' = phase
                      /\ ~On("none") /\ ~On("reset")
           Resets  == /\ On("reset") /\ thr'.pc = "reset" /\ phase' = phase
                      /\ \E p \in Players : Reset(p) /\ thr'.ids = thr.ids \ {p}
<1>0. thr \in [pc : ThreadPc, winner : Players \cup {None}, ids : SUBSET Players]
  BY DEF IInv, TypeOK
<1>1. Lobby => StartGame \/ Same
  BY DEF Lobby, Join, Leave
<1>2. StartGame => thr'.pc = "buffs" /\ phase' = "gaming"
  BY DEF StartGame, NoGame
<1>3. Handlers => Same
  <2>1. QuietHandlers => Same
    BY QuietHandlersFrame DEF roomVars
  <2>2. UseHealth \/ StrikeKill => Same
    BY DEF UseHealth, StrikeKill, roomVars
  <2>3. ASSUME NEW v \in Players, StrikeHit(v) PROVE Same
    BY <2>3 DEF StrikeHit, roomVars
  <2> HIDE DEF Same
  <2> QED BY <2>1, <2>2, <2>3 DEF Handlers, QuietHandlers
<1>4. ASSUME NEW pc \in {"poison", "items", "check", "buffs"}, Jump(pc) PROVE thr'.pc = pc
  BY <1>0, <1>4 DEF Jump
<1>5. ASSUME NEW K \in SUBSET Players, UpdateBuffs(K) PROVE Inside
  <2>1. Jump("poison") /\ phase' = phase /\ On("buffs")
    BY <1>5 DEF UpdateBuffs, roomVars
  <2> QED BY <2>1, <1>4 DEF On
<1>6. Poison => Inside
  <2>1. Poison => Jump("items") /\ phase' = phase /\ On("poison")
    BY DEF Poison, roomVars
  <2> QED BY <2>1, <1>4 DEF On
<1>7. ASSUME NEW c \in Cells, NEW type \in Types, SpawnItem(c, type) PROVE Inside
  <2>1. Jump("check") /\ phase' = phase /\ On("items")
    BY <1>7 DEF SpawnItem, roomVars
  <2> QED BY <2>1, <1>4 DEF On
<1>8. SpawnNothing => Inside
  <2>1. SpawnNothing => Jump("check") /\ phase' = phase /\ On("items")
    BY DEF SpawnNothing, roomVars
  <2> QED BY <2>1, <1>4 DEF On
<1>9. CheckEnd => Inside
  <2>1. SUFFICES ASSUME CheckEnd PROVE Inside
    OBVIOUS
  <2>2. phase' = phase /\ On("check")
    BY <2>1 DEF CheckEnd, roomVars
  <2>3. Jump("end") => thr'.pc = "end"
    BY <1>0 DEF Jump
  <2>4. ASSUME NEW w \in Players, thr' = [thr EXCEPT !.pc = "end", !.winner = w]
        PROVE  thr'.pc = "end"
    BY <1>0, <2>4
  <2>5. Jump("buffs") => thr'.pc = "buffs"
    BY <1>4
  <2>6. \/ Jump("end") \/ Jump("buffs")
        \/ \E w \in Players : thr' = [thr EXCEPT !.pc = "end", !.winner = w]
    BY <2>1 DEF CheckEnd
  <2>7. thr'.pc \in {"end", "buffs"}
    BY <2>3, <2>4, <2>5, <2>6
  <2> QED BY <2>2, <2>7 DEF On
<1>10. EndGame => thr'.pc = "reset" /\ thr'.ids = members /\ phase' = "ended"
  BY <1>0 DEF EndGame, Collected
<1>11. ASSUME NEW p \in Players, Reset(p) PROVE Resets
  <2>1. thr' = [thr EXCEPT !.ids = @ \ {p}] /\ phase' = phase /\ thr.pc = "reset"
    BY <1>11 DEF Reset, roomVars, On
  <2>2. thr'.ids = thr.ids \ {p} /\ thr'.pc = "reset"
    BY <1>0, <2>1
  <2> QED BY <1>11, <2>1, <2>2 DEF On
<1>12. ReopenRoom => thr' = NoGame /\ phase' = "waiting"
  BY DEF ReopenRoom
<1>13. Expire \/ UNCHANGED vars => Same
  BY DEF Expire, vars, roomVars
<1> HIDE DEF Same, Inside, Resets
<1>14. \/ Same \/ Inside \/ Resets
       \/ StartGame /\ thr'.pc = "buffs" /\ phase' = "gaming"
       \/ EndGame /\ thr'.pc = "reset" /\ thr'.ids = members /\ phase' = "ended"
       \/ ReopenRoom /\ thr' = NoGame /\ phase' = "waiting"
  BY <1>1, <1>2, <1>3, <1>5, <1>6, <1>7, <1>8, <1>9, <1>10, <1>11, <1>12, <1>13
     DEF Next, GameThread
<1> QED BY <1>14 DEF Same, Inside, Resets

\* Room and game thread agree on where the game is.
LEMMA PhaseStep ==
  ASSUME IInv, [Next]_vars
  PROVE  /\ phase' = "waiting" <=> thr'.pc = "none"
         /\ phase' = "ended" <=> thr'.pc = "reset"
         /\ thr'.pc = "none" => thr' = NoGame
<1>0. /\ phase = "waiting" <=> thr.pc = "none"
      /\ phase = "ended" <=> thr.pc = "reset"
      /\ thr.pc = "none" => thr = NoGame
  BY DEF IInv, Locals, On
<1>1. CASE thr' = thr /\ phase' = phase
  BY <1>0, <1>1
<1>2. CASE ReopenRoom /\ thr' = NoGame /\ phase' = "waiting"
  BY <1>2 DEF NoGame
<1> QED BY <1>0, <1>1, <1>2, ThreadStep DEF On

\* Who is in the room is not in the lobby; at the end of a game he is still to be
\* put back, or he is IN_ROOM.
LEMMA MembersStep ==
  ASSUME IInv, [Next]_vars
  PROVE  \A p \in members' :
             /\ status'[p] # "lobby"
             /\ thr'.pc = "reset" /\ p \notin thr'.ids => status'[p] = "in_room"
<1> DEFINE Kept == \A p \in members' :
                       /\ status'[p] # "lobby"
                       /\ thr'.pc = "reset" /\ p \notin thr'.ids => status'[p] = "in_room"
<1>0. /\ TypeOK /\ Locals
      /\ \A p \in members :
             /\ status[p] # "lobby"
             /\ thr.pc = "reset" /\ p \notin thr.ids => status[p] = "in_room"
      /\ members \in SUBSET Players
      /\ status \in [Players -> {"lobby", "in_room", "gaming", "dead"}]
      /\ thr \in [pc : ThreadPc, winner : Players \cup {None}, ids : SUBSET Players]
  BY DEF IInv, TypeOK, Locals, On
<1>1. CASE UNCHANGED <<status, members, thr>>
  BY <1>0, <1>1
<1>2. ASSUME NEW p \in Players, Join(p) PROVE Kept
  BY <1>0, <1>2 DEF Join
<1>3. ASSUME NEW p \in Players, Leave(p) PROVE Kept
  BY <1>0, <1>3 DEF Leave
<1>4. CASE StartGame
  BY <1>0, <1>4 DEF StartGame, NoGame
<1>5. CASE StrikeKill
  <2>1. /\ main.v \in members /\ UNCHANGED <<members, thr>>
        /\ status' = [status EXCEPT ![main.v] = IF hp[main.v] <= 0 THEN "dead" ELSE @]
        /\ status[main.v] = "in_room" => hp[main.v] = MaxHp
    BY <1>0, <1>5 DEF StrikeKill, At, roomVars, Locals
  <2>2. status[main.v] = "in_room" => status' = status
    BY <1>0, <2>1, CombatAssumption
  <2> QED BY <1>0, <2>1, <2>2
<1>6. CASE Poison
  <2>1. /\ members' = members /\ thr' = [thr EXCEPT !.pc = "items"]
        /\ \A p \in Players : status'[p] \in {"dead", status[p]}
    BY <1>0, <1>6, PoisonEffect DEF roomVars
  <2>2. thr'.pc = "items"
    BY <1>0, <2>1
  <2> QED BY <1>0, <2>1, <2>2
<1>7. ASSUME NEW p \in Players, Reset(p) PROVE Kept
  <2>1. /\ members' = members /\ thr.pc = "reset"
        /\ thr' = [thr EXCEPT !.ids = @ \ {p}]
        /\ status' = [status EXCEPT ![p] = "in_room"]
    BY <1>7 DEF Reset, roomVars, On
  <2>2. thr'.pc = thr.pc /\ thr'.ids = thr.ids \ {p}
    BY <1>0, <2>1
  <2> QED BY <1>0, <2>1, <2>2
<1>8. CASE QuietThread
  <2>1. UNCHANGED <<status, members>>
    BY <1>8, QuietThreadFrame
  <2>2. CASE \E p \in Players : Reset(p)
    BY <1>7, <2>2
  <2>3. CASE StartGame
    BY <1>4, <2>3
  <2>4. \/ thr' = thr
        \/ thr'.pc \notin {"none", "reset"}
        \/ thr'.pc = "reset" /\ thr'.ids = members
        \/ thr'.pc = "none"
        \/ StartGame \/ \E p \in Players : Reset(p)
    BY ThreadStep DEF NoGame
  <2> QED BY <1>0, <2>1, <2>2, <2>3, <2>4
<1>9. UNCHANGED vars \/ QuietHandlers \/ UseHealth => UNCHANGED <<status, members, thr>>
  BY QuietHandlersFrame DEF vars, roomVars, UseHealth, StatusKept
<1>10. ASSUME NEW p \in Players, StrikeHit(p) PROVE UNCHANGED <<status, members, thr>>
  BY <1>10 DEF StrikeHit, roomVars
<1> HIDE DEF Kept
<1>11. Kept
  BY <1>1, <1>2, <1>3, <1>4, <1>5, <1>6, <1>7, <1>8, <1>9, <1>10, StepCases DEF Kept
<1> QED BY <1>11 DEF Kept

\* Every step leaves the locals of the two threads in order.
LEMMA LocalsStep == IInv /\ [Next]_vars => Locals'
BY MainLocalsStep, WoundedStep, PhaseStep, MembersStep DEF Locals, MainIdle, At, On

-----------------------------------------------------------------------------
(* The invariant and what follows from it *)

LEMMA InitIInv == Init => IInv
<1> SUFFICES ASSUME Init PROVE IInv
  OBVIOUS
<1>1. TypeOK
  BY InitTypeOK
<1>2. NoWalkingDead /\ StatusFollowsPhase
  BY CombatAssumption DEF Init, NoWalkingDead, StatusFollowsPhase
<1>3. VerdictStands /\ PlaceForItem
  BY DEF Init, VerdictStands, PlaceForItem, On, At, NoGame, Idle
<1>4. ItemsCounted /\ OnePotion
  BY DEF Init, ItemsCounted, OnePotion
<1>5. Locals
  BY DEF Init, Locals, MainIdle, On, At, NoGame, Idle
<1> QED BY <1>1, <1>2, <1>3, <1>4, <1>5 DEF IInv

\* The invariant is inductive.
LEMMA IInvStep == IInv /\ [Next]_vars => IInv'
BY TypeOKStep, NoWalkingDeadStep, StatusFollowsPhaseStep, VerdictStandsStep, PlaceForItemStep,
   ItemsCountedStep, OnePotionStep, LocalsStep DEF IInv

\* Everything the two threads rely on holds throughout every fight.
THEOREM FightInvariant == Spec => []IInv
BY InitIInv, IInvStep, PTL DEF Spec

\* Players, room, map and threads keep their shape; the safe zone never shrinks
\* below nothing.
THEOREM FightTypes == Spec => []TypeOK
<1>1. IInv => TypeOK
  BY DEF IInv
<1> QED BY <1>1, FightInvariant, PTL

\* game.c, room.c: what the handlers and the tick carry from one lock section to
\* the next stays right while the other thread works in between.
THEOREM LocalsStand == Spec => []Locals
<1>1. IInv => Locals
  BY DEF IInv
<1> QED BY <1>1, FightInvariant, PTL

\* Nobody fights on without hit points but the victim of the blow being told of.
THEOREM NobodyWalksDead == Spec => []NoWalkingDead
<1>1. IInv => NoWalkingDead
  BY DEF IInv
<1> QED BY <1>1, FightInvariant, PTL

\* The statuses of the players follow the state of their room, and a late blow
\* does not leave anybody DEAD in a room that waits.
THEOREM StatusAlwaysFollowsPhase == Spec => []StatusFollowsPhase
<1>1. IInv => StatusFollowsPhase
  BY DEF IInv
<1> QED BY <1>1, FightInvariant, PTL

\* What game_check_end() found is still so when room_end_game() announces it.
THEOREM VerdictAlwaysStands == Spec => []VerdictStands
<1>1. IInv => VerdictStands
  BY DEF IInv
<1> QED BY <1>1, FightInvariant, PTL

\* What is taken off the map finds a place in the inventory.
THEOREM ItemFindsPlace == Spec => []PlaceForItem
<1>1. IInv => PlaceForItem
  BY DEF IInv
<1> QED BY <1>1, FightInvariant, PTL

\* No item lies beyond the count of the table.
THEOREM ItemsAlwaysCounted == Spec => []ItemsCounted
<1>1. IInv => ItemsCounted
  BY DEF IInv
<1> QED BY <1>1, FightInvariant, PTL

\* Attack potions neither add up nor outlast their time.
THEOREM PotionsDoNotAddUp == Spec => []OnePotion
<1>1. IInv => OnePotion
  BY DEF IInv
<1> QED BY <1>1, FightInvariant, PTL

-----------------------------------------------------------------------------
(* The fight implements the game *)

LEMMA MatchInit == Init => Game!Init
BY DEF Init, Game!Init, Alive

\* Whatever leaves the room's state and the clock alone can only cost lives.
LEMMA LoseStep ==
  ASSUME IInv, [Next]_vars, ~StartGame, UNCHANGED <<phase, expired>>
  PROVE  [Game!Next]_<<phase, Alive, expired>>
<1>1. Alive' \subseteq Alive
  BY AliveShrinks
<1>2. Alive' = Alive \/ Game!Lose
  BY <1>1 DEF Game!Lose
<1> QED BY <1>2 DEF Game!Next

\* Nobody is alive when the last player has been put back.
LEMMA NobodyLeft == ASSUME IInv, ReopenRoom PROVE Alive = {}
<1>1. \A p \in members : status[p] = "in_room"
  BY DEF IInv, Locals, ReopenRoom, On
<1> QED BY <1>1 DEF Alive

LEMMA MatchStep == IInv /\ [Next]_vars => [Game!Next]_<<phase, Alive, expired>>
<1> SUFFICES ASSUME IInv, [Next]_vars PROVE [Game!Next]_<<phase, Alive, expired>>
  OBVIOUS
<1>1. CASE StartGame
  <2>1. Game!Begin
    <3>1. members \in SUBSET Players
      BY DEF IInv, TypeOK
    <3>2. members' = members
      BY <1>1 DEF StartGame
    <3>3. Alive' \in SUBSET Players
      BY <3>1, <3>2 DEF Alive
    <3> QED BY <1>1, <3>3 DEF StartGame, Game!Begin
  <2> QED BY <2>1 DEF Game!Next
<1>2. CASE EndGame
  <2>1. UNCHANGED <<Alive, expired>> /\ phase' = "ended"
    BY <1>2 DEF EndGame, Alive, bodyVars
  <2>2. phase = "gaming"
    BY <1>2 DEF IInv, TypeOK, Locals, EndGame, On
  <2>3. expired \/ \A p, q \in Alive : p = q
    BY <1>2 DEF IInv, VerdictStands, EndGame
  <2> QED BY <2>1, <2>2, <2>3 DEF Game!Conclude, Game!Next
<1>3. CASE ReopenRoom
  <2>1. Alive' = Alive
    BY <1>3 DEF ReopenRoom, Alive, bodyVars
  <2>2. phase = "ended"
    BY <1>3 DEF IInv, Locals, ReopenRoom, On
  <2>3. phase' = "waiting" /\ expired' = TRUE
    BY <1>3 DEF ReopenRoom
  <2>4. Alive = {}
    BY <1>3, NobodyLeft
  <2> QED BY <2>1, <2>2, <2>3, <2>4 DEF Game!Reopen, Game!Next
<1>4. CASE Expire
  <2>1. Alive' = Alive /\ phase' = phase /\ ~expired /\ expired' = TRUE
    BY <1>4 DEF Expire, Alive, bodyVars
  <2> QED BY <2>1 DEF Game!TimeUp, Game!Next
<1>5. CASE UNCHANGED <<phase, expired>> /\ ~StartGame
  BY <1>5, LoseStep
<1>6. UNCHANGED vars \/ QuietHandlers => UNCHANGED <<phase, expired>>
  BY QuietHandlersFrame DEF vars, roomVars
<1>7. ASSUME NEW p \in Players, Join(p) \/ Leave(p) \/ Reset(p) \/ StrikeHit(p)
      PROVE  UNCHANGED <<phase, expired>>
  BY <1>7 DEF Join, Leave, Reset, StrikeHit, roomVars
<1>8. UseHealth \/ StrikeKill \/ Poison => UNCHANGED <<phase, expired>>
  BY DEF UseHealth, StrikeKill, Poison, roomVars
<1>9. QuietThread => EndGame \/ ReopenRoom \/ Expire \/ UNCHANGED <<phase, expired>>
  BY DEF QuietThread, UpdateBuffs, SpawnItem, SpawnNothing, CheckEnd, roomVars
<1> QED BY <1>1, <1>2, <1>3, <1>4, <1>5, <1>6, <1>7, <1>8, <1>9, StepCases

\* A fight cut into its lock sections is a game as Match promises it.
THEOREM FightImplementsMatch == Spec => MatchSpec
BY FightInvariant, MatchInit, MatchStep, PTL DEF Spec, MatchSpec, Game!Spec
=============================================================================
