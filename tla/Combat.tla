------------------------------- MODULE Combat -------------------------------
(***************************************************************************)
(* The fight in one room of the C server (src/server/game.c with the end   *)
(* of a game in room.c and the inventory in player.c).                     *)
(*                                                                         *)
(* The main thread runs MOVE, ATTACK and USE_ITEM, one at a time; the game *)
(* thread runs its tick.  Both change the same players.  A step ends where *)
(* the code releases room->lock or player->lock: the broadcast of a blow   *)
(* before the victim's death is looked at, the log record between taking   *)
(* an item out of the inventory and its effect, and so on.                 *)
(*                                                                         *)
(* The loops of the tick hold room->lock from the first slot to the last   *)
(* and are one step each: what the main thread can do meanwhile, under     *)
(* player->lock alone, concerns one player, and comes before or after.     *)
(*                                                                         *)
(* The map is a set of cells with the relations the code asks of it.       *)
(* Cooldowns and intervals only delay what is possible anyway: they are    *)
(* left open.  The last player's departure, and a second game thread, are  *)
(* the subject of module Rooms.                                            *)
(***************************************************************************)
EXTENDS Integers, Sequences, FiniteSets

CONSTANTS
    Players,        \* who comes into the room
    Cells,          \* walkable cells of the map
    Beside,         \* pairs of cells one MOVE apart
    Near,           \* pairs of cells within ATTACK_RANGE
    Ring,           \* distance of a cell from the centre of the map
    SpawnCells,     \* the cells marked '$', in the order of the map
    Radius,         \* map_get_initial_poison_radius()
    MaxHp, BaseAtk, Def,                 \* INITIAL_HP, INITIAL_ATK, INITIAL_DEF
    Restore, Buff,                       \* HEALTH_RESTORE, ATK_BUFF_AMOUNT
    MaxItems, MaxInventory, MinPlayers,  \* MAX_MAP_ITEMS, MAX_INVENTORY, MIN_ROOM_PLAYERS
    PoisonDamage, TickMs,                \* POISON_DAMAGE, TICK_INTERVAL_MS
    None            \* -1, no item, the corner (0, 0) where nobody is placed in a game

ASSUME CombatAssumption ==
    /\ IsFiniteSet(Players)
    /\ Beside \subseteq Cells \X Cells /\ Near \subseteq (Cells \cup {None}) \X Cells
    /\ Ring \in [Cells -> Nat]
    /\ SpawnCells \in Seq(Cells)
    /\ Radius \in Nat \ {0} /\ MaxHp \in Nat \ {0}
    /\ BaseAtk \in Nat /\ Def \in Nat /\ Restore \in Nat /\ Buff \in Nat
    /\ MaxItems \in Nat /\ MaxInventory \in Nat /\ MinPlayers \in Nat
    /\ PoisonDamage \in Nat /\ TickMs \in Nat
    /\ None \notin Players \cup Cells

VARIABLES
    status, hp, pos, atk, buffed, shield, inventory,    \* the Player structures
    members, phase, expired,                            \* the Room structure
    radius, items, item_count,
    main,                                               \* main thread: pc and locals
    thr                                                 \* game thread: pc and locals

bodyVars == <<hp, pos, atk, buffed, shield, inventory>>
mapVars  == <<radius, items, item_count>>
roomVars == <<members, phase, expired>>
vars     == <<status, bodyVars, roomVars, mapVars, main, thr>>

Types   == {"health", "attack", "shield"}
Slots   == 1..MaxItems
Idle    == [pc |-> "idle", p |-> None, cell |-> None, power |-> 0, left |-> {}, v |-> None,
            item |-> None]
NoGame  == [pc |-> "none", winner |-> None, ids |-> {}]
MainPc  == {"idle", "accepted", "strike", "wounded", "use", "move", "look", "take", "add"}
ThreadPc == {"none", "buffs", "poison", "items", "check", "end", "reset"}

Init ==
    /\ status = [p \in Players |-> "lobby"]
    /\ hp = [p \in Players |-> MaxHp]
    /\ pos = [p \in Players |-> None]
    /\ atk = [p \in Players |-> BaseAtk]
    /\ buffed = [p \in Players |-> FALSE]
    /\ shield = [p \in Players |-> FALSE]
    /\ inventory = [p \in Players |-> <<>>]
    /\ members = {}
    /\ phase = "waiting" /\ expired = TRUE
    /\ radius = Radius
    /\ items = [i \in Slots |-> None]
    /\ item_count = 0
    /\ main = Idle /\ thr = NoGame

\* Who counts as alive: GAMING with hit points left.
Alive == {p \in members : status[p] = "gaming" /\ hp[p] > 0}

-----------------------------------------------------------------------------
(* The main thread: the room *)

MainIdle == main.pc = "idle"
At(pc)   == main.pc = pc

\* JOIN_ROOM of a room that is not in a game.
Join(p) ==
    /\ MainIdle
    /\ status[p] = "lobby" /\ p \notin members
    /\ phase # "gaming"
    /\ members' = members \cup {p}
    /\ status' = [status EXCEPT ![p] = "in_room"]
    /\ UNCHANGED <<bodyVars, phase, expired, mapVars, main, thr>>

\* LEAVE_ROOM or a lost connection, also in the middle of a game.
Leave(p) ==
    /\ MainIdle
    /\ p \in members /\ members # {p}
    /\ members' = members \ {p}
    /\ status' = [status EXCEPT ![p] = "lobby"]
    /\ UNCHANGED <<bodyVars, phase, expired, mapVars, main, thr>>

\* The item table of a new game: an item of a random type on each marked cell,
\* as far as the table goes.
InitialCount == IF Len(SpawnCells) < MaxItems THEN Len(SpawnCells) ELSE MaxItems
InitialItems(type) ==
    [i \in Slots |-> IF i <= InitialCount THEN [type |-> type[i], cell |-> SpawnCells[i]]
                                          ELSE None]

\* Everybody in the room has sent READY: room_start_game().
StartGame ==
    /\ MainIdle
    /\ thr = NoGame
    /\ phase = "waiting" /\ Cardinality(members) >= MinPlayers
    /\ \A p \in members : status[p] = "in_room"
    /\ phase' = "gaming" /\ expired' = FALSE
    /\ radius' = Radius
    /\ \E type \in [Slots -> Types] : items' = InitialItems(type)
    /\ item_count' = InitialCount
    /\ status' = [p \in Players |-> IF p \in members THEN "gaming" ELSE status[p]]
    /\ hp' = [p \in Players |-> IF p \in members THEN MaxHp ELSE hp[p]]
    /\ \E c \in [members -> Cells] :
           pos' = [p \in Players |-> IF p \in members THEN c[p] ELSE pos[p]]
    /\ atk' = [p \in Players |-> IF p \in members THEN BaseAtk ELSE atk[p]]
    /\ buffed' = [p \in Players |-> p \notin members /\ buffed[p]]
    /\ shield' = [p \in Players |-> p \notin members /\ shield[p]]
    /\ inventory' = [p \in Players |-> IF p \in members THEN <<>> ELSE inventory[p]]
    /\ thr' = [NoGame EXCEPT !.pc = "buffs"]
    /\ UNCHANGED <<members, main>>

-----------------------------------------------------------------------------
(* The main thread: a command of the game *)

\* handler_move(), handler_attack() and handler_use_item() look at the status once,
\* without a lock ...
Accept(p) ==
    /\ MainIdle
    /\ p \in members /\ status[p] = "gaming"
    /\ main' = [Idle EXCEPT !.pc = "accepted", !.p = p]
    /\ UNCHANGED <<status, bodyVars, roomVars, mapVars, thr>>

\* ... and may still refuse: too early, a wall, no such item.
Refuse ==
    /\ At("accepted")
    /\ main' = Idle
    /\ UNCHANGED <<status, bodyVars, roomVars, mapVars, thr>>

-----------------------------------------------------------------------------
(* The main thread: MOVE *)

\* The new position is computed and found walkable ...
MoveBegin(c) ==
    /\ At("accepted")
    /\ <<pos[main.p], c>> \in Beside
    /\ main' = [main EXCEPT !.pc = "move", !.cell = c]
    /\ UNCHANGED <<status, bodyVars, roomVars, mapVars, thr>>

\* ... and written.
MoveEnd ==
    /\ At("move")
    /\ pos' = [pos EXCEPT ![main.p] = main.cell]
    /\ main' = [main EXCEPT !.pc = "look"]
    /\ UNCHANGED <<status, hp, atk, buffed, shield, inventory, roomVars, mapVars, thr>>

\* game_check_item_pickup() reads where the player is and whether he can carry
\* more ...
HasRoomOffByOne(p) == Len(inventory[p]) <= MaxInventory                      \* mutant
HasRoom(p)         == Len(inventory[p]) < MaxInventory

Look ==
    /\ At("look")
    /\ main' = IF HasRoom(main.p) THEN [main EXCEPT !.pc = "take", !.cell = pos[main.p]]
                                  ELSE Idle
    /\ UNCHANGED <<status, bodyVars, roomVars, mapVars, thr>>

\* ... takes the first active item of the table that lies there ...
LiesAt(i, c) == items[i] # None /\ items[i].cell = c

TakeItem ==
    \E i \in 1..item_count :
        /\ At("take")
        /\ LiesAt(i, main.cell)
        /\ \A j \in 1..item_count : LiesAt(j, main.cell) => i <= j
        /\ items' = [items EXCEPT ![i] = None]
        /\ main' = [main EXCEPT !.pc = "add", !.item = items[i].type]
        /\ UNCHANGED <<status, bodyVars, roomVars, radius, item_count, thr>>

TakeNothing ==
    /\ At("take")
    /\ \A i \in 1..item_count : ~LiesAt(i, main.cell)
    /\ main' = Idle
    /\ UNCHANGED <<status, bodyVars, roomVars, mapVars, thr>>

\* ... and player_add_item() puts it into the inventory, or drops it if there is
\* no place.
AddItem ==
    /\ At("add")
    /\ inventory' = [inventory EXCEPT ![main.p] =
                        IF HasRoom(main.p) THEN Append(@, main.item) ELSE @]
    /\ main' = Idle
    /\ UNCHANGED <<status, hp, pos, atk, buffed, shield, roomVars, mapVars, thr>>

-----------------------------------------------------------------------------
(* The main thread: USE_ITEM *)

Without(s, i) == SubSeq(s, 1, i - 1) \o SubSeq(s, i + 1, Len(s))

\* The item leaves the inventory and is logged ...
UseBegin ==
    /\ At("accepted")
    /\ \E i \in 1..Len(inventory[main.p]) :
           /\ inventory' = [inventory EXCEPT ![main.p] = Without(@, i)]
           /\ main' = [main EXCEPT !.pc = "use", !.item = inventory[main.p][i]]
    /\ UNCHANGED <<status, hp, pos, atk, buffed, shield, roomVars, mapVars, thr>>

\* ... before it has its effect, whatever has become of the player.
Healed(h) == IF h + Restore > MaxHp THEN MaxHp ELSE h + Restore
Revived(p) == [status EXCEPT ![p] = IF @ = "dead" THEN "gaming" ELSE @]      \* mutant
StatusKept(p) == status
Stacked(p)   == atk[p] + Buff                                                \* mutant
Stronger(p)  == BaseAtk + Buff

UseHealth ==
    /\ At("use") /\ main.item = "health"
    /\ hp' = [hp EXCEPT ![main.p] = Healed(@)]
    /\ status' = StatusKept(main.p)
    /\ main' = Idle
    /\ UNCHANGED <<pos, atk, buffed, shield, inventory, roomVars, mapVars, thr>>

UseAttack ==
    /\ At("use") /\ main.item = "attack"
    /\ atk' = [atk EXCEPT ![main.p] = Stronger(main.p)]
    /\ buffed' = [buffed EXCEPT ![main.p] = TRUE]
    /\ main' = Idle
    /\ UNCHANGED <<status, hp, pos, shield, inventory, roomVars, mapVars, thr>>

UseShield ==
    /\ At("use") /\ main.item = "shield"
    /\ shield' = [shield EXCEPT ![main.p] = TRUE]
    /\ main' = Idle
    /\ UNCHANGED <<status, hp, pos, atk, buffed, inventory, roomVars, mapVars, thr>>

-----------------------------------------------------------------------------
(* The main thread: ATTACK *)

\* game_calc_damage()
Damage(power) == IF power > Def THEN power - Def ELSE 1

\* Position and strength of the attacker are read once (the corner of the map if
\* room_end_game() has just put him back); the slots of the room are then
\* visited in turn, the attacker's own is skipped.
AttackBegin ==
    /\ At("accepted")
    /\ main' = [main EXCEPT !.pc = "strike", !.cell = pos[main.p], !.power = atk[main.p],
                            !.left = members \ {main.p}]
    /\ UNCHANGED <<status, bodyVars, roomVars, mapVars, thr>>

Struck(v) == v \in Alive /\ <<main.cell, pos[v]>> \in Near

StrikeMiss(v) ==
    /\ At("strike") /\ v \in main.left
    /\ ~Struck(v)
    /\ main' = [main EXCEPT !.left = @ \ {v}]
    /\ UNCHANGED <<status, bodyVars, roomVars, mapVars, thr>>

StrikeShield(v) ==
    /\ At("strike") /\ v \in main.left
    /\ Struck(v) /\ shield[v]
    /\ shield' = [shield EXCEPT ![v] = FALSE]
    /\ main' = [main EXCEPT !.left = @ \ {v}]
    /\ UNCHANGED <<status, hp, pos, atk, buffed, inventory, roomVars, mapVars, thr>>

\* A blow that lands: both locks are released to broadcast the damage ...
StrikeHit(v) ==
    /\ At("strike") /\ v \in main.left
    /\ Struck(v) /\ ~shield[v]
    /\ hp' = [hp EXCEPT ![v] = @ - Damage(main.power)]
    /\ main' = [main EXCEPT !.pc = "wounded", !.v = v, !.left = @ \ {v}]
    /\ UNCHANGED <<status, pos, atk, buffed, shield, inventory, roomVars, mapVars, thr>>

\* ... and taken again to see whether he is dead.
StrikeKill ==
    LET dead == hp[main.v] <= 0 IN
    /\ At("wounded")
    /\ hp' = [hp EXCEPT ![main.v] = IF dead THEN 0 ELSE @]
    /\ status' = [status EXCEPT ![main.v] = IF dead THEN "dead" ELSE @]
    /\ main' = [main EXCEPT !.pc = "strike", !.v = None]
    /\ UNCHANGED <<pos, atk, buffed, shield, inventory, roomVars, mapVars, thr>>

AttackEnd ==
    /\ At("strike") /\ main.left = {}
    /\ main' = Idle
    /\ UNCHANGED <<status, bodyVars, roomVars, mapVars, thr>>

-----------------------------------------------------------------------------
(* The game thread *)

On(pc)   == thr.pc = pc
Jump(pc) == thr' = [thr EXCEPT !.pc = pc]

\* game_update_buffs() for every player of the room: some potions have worn off.
UpdateBuffs(K) ==
    /\ On("buffs")
    /\ K \subseteq {p \in members : buffed[p]}
    /\ atk' = [p \in Players |-> IF p \in K THEN BaseAtk ELSE atk[p]]
    /\ buffed' = [p \in Players |-> p \notin K /\ buffed[p]]
    /\ Jump("poison")
    /\ UNCHANGED <<status, hp, pos, shield, inventory, roomVars, mapVars, main>>

\* game_update_poison() may shrink the safe zone; then, under room->lock from the
\* first slot to the last, game_apply_poison_damage() takes hit points outside
\* it.  (Only this thread reads the radius.)
PoisonTick == LET d == (PoisonDamage * TickMs) \div 1000 IN IF d < 1 THEN 1 ELSE d
Outside(r) == {p \in Alive : Ring[pos[p]] > r}
LeftAlive(K) == status                                                       \* mutant
LeftDead(K)  == [p \in Players |-> IF p \in K THEN "dead" ELSE status[p]]

ShrunkPastOne == {radius, radius - 1}                                        \* mutant
Shrunk        == {radius} \cup {r \in {radius - 1} : radius > 1}

Poison ==
    \E r \in Shrunk :
        LET hit == Outside(r)  killed == {p \in hit : hp[p] <= PoisonTick} IN
        /\ On("poison")
        /\ radius' = r
        /\ hp' = [p \in Players |-> IF p \in killed THEN 0
                                    ELSE IF p \in hit THEN hp[p] - PoisonTick
                                    ELSE hp[p]]
        /\ status' = LeftDead(killed)
        /\ Jump("items")
        /\ UNCHANGED <<pos, atk, buffed, shield, inventory, roomVars, items, item_count, main>>

\* game_spawn_items(): the first free slot of the table, if it is time and there
\* is one.
CountKept(i)  == item_count                                                  \* mutant
CountFor(i)   == IF i > item_count THEN i ELSE item_count

SpawnItem(c, type) ==
    \E i \in Slots :
        /\ On("items")
        /\ items[i] = None /\ \A j \in 1..(i - 1) : items[j] # None
        /\ items' = [items EXCEPT ![i] = [type |-> type, cell |-> c]]
        /\ item_count' = CountFor(i)
        /\ Jump("check")
        /\ UNCHANGED <<status, bodyVars, roomVars, radius, main>>

SpawnNothing ==
    /\ On("items")
    /\ Jump("check")
    /\ UNCHANGED <<status, bodyVars, roomVars, mapVars, main>>

\* game_check_end(): time is up or nobody is alive, one player is alive and has
\* won, or the game goes on.
OutlivedByAll(w) == w \in Alive                                              \* mutant
Outlived(w)      == Alive = {w}

CheckEnd ==
    /\ On("check")
    /\ \/ /\ expired \/ Alive = {}
          /\ Jump("end")
       \/ \E w \in Players :
              /\ ~expired /\ Outlived(w)
              /\ thr' = [thr EXCEPT !.pc = "end", !.winner = w]
       \/ /\ ~expired /\ \E p, q \in Alive : p # q
          /\ Jump("buffs")
    /\ UNCHANGED <<status, bodyVars, roomVars, mapVars, main>>

\* room_end_game(): the room is ENDED and the winner announced ...
Collected == members

EndGame ==
    /\ On("end")
    /\ phase' = "ended"
    /\ thr' = [thr EXCEPT !.pc = "reset", !.ids = Collected]
    /\ UNCHANGED <<status, bodyVars, members, expired, mapVars, main>>

\* ... the players collected are put back, one after the other ...
NotRested(p)  == hp[p]                                                       \* mutant
Rested(p)     == MaxHp

Reset(p) ==
    /\ On("reset") /\ p \in thr.ids
    /\ status' = [status EXCEPT ![p] = "in_room"]
    /\ hp' = [hp EXCEPT ![p] = Rested(p)]
    /\ pos' = [pos EXCEPT ![p] = None]
    /\ shield' = [shield EXCEPT ![p] = FALSE]
    /\ atk' = [atk EXCEPT ![p] = BaseAtk]
    /\ buffed' = [buffed EXCEPT ![p] = FALSE]
    /\ inventory' = [inventory EXCEPT ![p] = <<>>]
    /\ thr' = [thr EXCEPT !.ids = @ \ {p}]
    /\ UNCHANGED <<roomVars, mapVars, main>>

\* ... and the room, its map cleared, waits for the next game.
ReopenRoom ==
    /\ On("reset") /\ thr.ids = {}
    /\ phase' = "waiting" /\ expired' = TRUE
    /\ radius' = Radius
    /\ items' = [i \in Slots |-> None]
    /\ item_count' = 0
    /\ thr' = NoGame
    /\ UNCHANGED <<status, bodyVars, members, main>>

\* GAME_MAX_DURATION has passed.
Expire ==
    /\ ~expired
    /\ expired' = TRUE
    /\ UNCHANGED <<status, bodyVars, members, phase, mapVars, main, thr>>

-----------------------------------------------------------------------------
Lobby ==
    \/ \E p \in Players : Join(p) \/ Leave(p)
    \/ StartGame

Handlers ==
    \/ \E p \in Players : Accept(p)
    \/ \E c \in Cells : MoveBegin(c)
    \/ Refuse \/ UseBegin \/ AttackBegin
    \/ MoveEnd \/ Look \/ TakeItem \/ TakeNothing \/ AddItem
    \/ UseHealth \/ UseAttack \/ UseShield
    \/ \E v \in Players : StrikeMiss(v) \/ StrikeShield(v) \/ StrikeHit(v)
    \/ StrikeKill \/ AttackEnd

GameThread ==
    \/ \E K \in SUBSET Players : UpdateBuffs(K)
    \/ Poison
    \/ \E c \in Cells, type \in Types : SpawnItem(c, type)
    \/ SpawnNothing
    \/ CheckEnd \/ EndGame
    \/ \E p \in Players : Reset(p)
    \/ ReopenRoom

Next == Lobby \/ Handlers \/ GameThread \/ Expire

Spec == Init /\ [][Next]_vars

-----------------------------------------------------------------------------
(* Properties *)

\* The shape of the state, the Player and Room structures of player.h and room.h:
\* the radius of the safe zone is never below zero, item_count never beyond the
\* table.
TypeOK ==
    /\ status \in [Players -> {"lobby", "in_room", "gaming", "dead"}]
    /\ hp \in [Players -> Int]
    /\ pos \in [Players -> Cells \cup {None}]
    /\ atk \in [Players -> Nat]
    /\ buffed \in [Players -> BOOLEAN]
    /\ shield \in [Players -> BOOLEAN]
    /\ inventory \in [Players -> Seq(Types)]
    /\ members \in SUBSET Players
    /\ phase \in {"waiting", "gaming", "ended"}
    /\ expired \in BOOLEAN
    /\ radius \in Nat
    /\ items \in [Slots -> [type : Types, cell : Cells] \cup {None}]
    /\ item_count \in 0..MaxItems
    /\ main \in [pc : MainPc, p : Players \cup {None}, cell : Cells \cup {None},
                 power : Nat, left : SUBSET Players, v : Players \cup {None},
                 item : Types \cup {None}]
    /\ thr \in [pc : ThreadPc, winner : Players \cup {None}, ids : SUBSET Players]

\* Nobody fights on without hit points: a player is GAMING with none left only
\* while game_handle_attack() broadcasts the very blow that took them, and no
\* potion or end of game can slip in and leave him so.  Nobody has more hit
\* points than he may.
NoWalkingDead ==
    \A p \in Players :
        /\ hp[p] <= MaxHp
        /\ p \in members /\ status[p] = "gaming" /\ hp[p] <= 0
               => main.pc = "wounded" /\ main.v = p

\* Players and room agree about the game: while it runs everybody in the room is
\* GAMING or DEAD; when the room waits again they are all IN_ROOM and can be
\* READY for the next game.  A blow in the air when room_end_game() puts its
\* victim back finds him with his hit points restored and does not kill him.
StatusFollowsPhase ==
    \A p \in members :
        /\ phase = "gaming" => status[p] \in {"gaming", "dead"}
        /\ phase = "waiting" => status[p] = "in_room"

\* The verdict of game_check_end() still stands when room_end_game() acts on it,
\* whatever the main thread did in between: nobody but the winner is alive,
\* unless time was up.
VerdictStands ==
    On("end") => expired \/ Alive \subseteq {thr.winner}

\* An item taken off the map always has a place in the inventory: the count
\* read under player->lock before the map was searched under room->lock still
\* holds when player_add_item() is called.
PlaceForItem == At("add") => Len(inventory[main.p]) < MaxInventory

\* Every item on the map lies within the first item_count slots, the only ones
\* the pick-up, the broadcast and the snapshot look at.
ItemsCounted == \A i \in Slots : items[i] # None => i <= item_count

\* Potions do not add up, and their strength does not outlast them: the attack
\* is raised, once, exactly while the expiry time is set.
OnePotion ==
    \A p \in Players : atk[p] = IF buffed[p] THEN BaseAtk + Buff ELSE BaseAtk

\* What the two threads rely on between their steps: the locals of the handler,
\* the state of the room at each position of the game thread, the players that
\* room_end_game() has still to put back, and that a victim who was put back
\* while the blow was broadcast has all his hit points.
Locals ==
    /\ ~MainIdle => main.p \in Players
    /\ At("move") => main.cell \in Cells
    /\ main.pc \in {"use", "add"} => main.item \in Types
    /\ At("take") => Len(inventory[main.p]) < MaxInventory
    /\ At("wounded") => /\ main.v \in members
                        /\ status[main.v] = "in_room" => hp[main.v] = MaxHp
    /\ phase = "waiting" <=> On("none")
    /\ phase = "ended" <=> On("reset")
    /\ On("none") => thr = NoGame
    /\ \A p \in members :
           /\ status[p] # "lobby"
           /\ On("reset") /\ p \notin thr.ids => status[p] = "in_room"

\* Taken together these facts are inductive.
IInv == /\ TypeOK /\ NoWalkingDead /\ StatusFollowsPhase /\ VerdictStands
        /\ PlaceForItem /\ ItemsCounted /\ OnePotion /\ Locals

\* The fight, cut into its lock sections and interleaved with the tick,
\* implements the game of Match.
Game == INSTANCE Match WITH alive <- Alive, late <- expired
MatchSpec == Game!Spec
=============================================================================
