-------------------------- MODULE WalReplay_proofs --------------------------
(***************************************************************************)
(* Facts about the operators of WalReplay, for every log, table of players *)
(* and table of items: what a search finds, what a selection keeps, what a *)
(* record leaves as it is and what types a replay stays in.                *)
(***************************************************************************)
EXTENDS WalReplay, FiniteSetTheorems, WellFoundedInduction, TLAPS

\* The least of some numbers.
LEMMA Least ==
    ASSUME NEW I, I \subseteq Nat, I # {}
    PROVE  Min(I) \in I /\ \A m \in I : Min(I) <= m
<1>1. PICK n \in I : \A m \in I : ~ (<<m, n>> \in OpToRel(<, Nat))
  BY NatLessThanWellFounded, WFMin
<1>2. \A m \in I : n <= m
  <2> SUFFICES ASSUME NEW m \in I PROVE n <= m
    OBVIOUS
  <2>1. m \in Nat /\ n \in Nat
    OBVIOUS
  <2>2. ~(m < n)
    BY <1>1, <2>1 DEF OpToRel
  <2> QED BY <2>1, <2>2
<1> QED BY <1>2 DEF Min

\* What holds at 0 and goes on holding holds up to n: induction over a set.
LEMMA Climb ==
    ASSUME NEW n \in Nat, NEW T, 0 \in T, \A k \in 0..n - 1 : k \in T => k + 1 \in T
    PROVE  0..n \subseteq T
<1> DEFINE I == {k \in 0..n : k \notin T}
<1> SUFFICES ASSUME I # {} PROVE FALSE
  OBVIOUS
<1>1. I \subseteq Nat
  OBVIOUS
<1>2. Min(I) \in I /\ \A m \in I : Min(I) <= m
  BY <1>1, Least
<1>3. PICK m \in I : \A k \in I : m <= k
  BY <1>2
<1>4. m # 0 /\ m - 1 \in 0..n - 1 /\ m \in 0..n
  OBVIOUS
<1>5. m - 1 \in T
  BY <1>3, <1>4
<1>6. (m - 1) + 1 \in T
  BY <1>4, <1>5
<1> QED BY <1>4, <1>6

\* The numbers up to n are n.
LEMMA Counting ==
    ASSUME NEW n \in Nat
    PROVE  IsFiniteSet(1..n) /\ Cardinality(1..n) = n
<1>1. 1 \in Int /\ n \in Int
  OBVIOUS
<1> QED BY <1>1, FS_Interval

-----------------------------------------------------------------------------
(* The searches. *)

\* find_player_index(): the first player with the id, 0 if there is none.
LEMMA FindPlayer ==
    ASSUME NEW s, Len(s.players) \in Nat, NEW pid
    PROVE  /\ FindPlayerIndex(s, pid) \in 0..Len(s.players)
           /\ FindPlayerIndex(s, pid) = 0 =>
                \A i \in 1..Len(s.players) : s.players[i].id # pid
           /\ FindPlayerIndex(s, pid) # 0 =>
                s.players[FindPlayerIndex(s, pid)].id = pid
<1> DEFINE I == {i \in 1..Len(s.players) : s.players[i].id = pid}
<1>2. FindPlayerIndex(s, pid) = IF I # {} THEN Min(I) ELSE 0
  BY DEF FindPlayerIndex, SelectInSeq
<1>3. I \subseteq Nat
  OBVIOUS
<1>4. I # {} => Min(I) \in I
  <2> HIDE DEF I
  <2> QED BY <1>3, Least
<1> QED BY <1>2, <1>4

\* The first entry of a user, 0 if there is none.
LEMMA FindUser ==
    ASSUME NEW s, Len(s.players) \in Nat, NEW u
    PROVE  /\ FindUserIndex(s, u) \in 0..Len(s.players)
           /\ FindUserIndex(s, u) = 0 =>
                \A i \in 1..Len(s.players) : s.players[i].user # u
           /\ FindUserIndex(s, u) # 0 =>
                s.players[FindUserIndex(s, u)].user = u
<1> DEFINE I == {i \in 1..Len(s.players) : s.players[i].user = u}
<1>2. FindUserIndex(s, u) = IF I # {} THEN Min(I) ELSE 0
  BY DEF FindUserIndex, SelectInSeq
<1>3. I \subseteq Nat
  OBVIOUS
<1>4. I # {} => Min(I) \in I
  <2> HIDE DEF I
  <2> QED BY <1>3, Least
<1> QED BY <1>2, <1>4

\* The first item of a table at a place, 0 if there is none.
LEMMA FindItem ==
    ASSUME NEW table, Len(table) \in Nat, NEW pos
    PROVE  /\ ItemAt(table, pos) \in 0..Len(table)
           /\ ItemAt(table, pos) = 0 =>
                \A i \in 1..Len(table) : ~(table[i].active /\ table[i].pos = pos)
           /\ ItemAt(table, pos) # 0 =>
                table[ItemAt(table, pos)].active /\ table[ItemAt(table, pos)].pos = pos
<1> DEFINE I == {i \in 1..Len(table) : table[i].active /\ table[i].pos = pos}
<1>2. ItemAt(table, pos) = IF I # {} THEN Min(I) ELSE 0
  BY DEF ItemAt, SelectInSeq
<1>3. I \subseteq Nat
  OBVIOUS
<1>4. I # {} => Min(I) \in I
  <2> HIDE DEF I
  <2> QED BY <1>3, Least
<1> QED BY <1>2, <1>4

-----------------------------------------------------------------------------
(* The selections. *)

\* What a step of Picked makes of what was picked before.
Step(s, Good, picked, i) == IF s[i] \in Good THEN Append(picked, s[i]) ELSE picked

\* The recursive function of Picked is what its equations say.
LEMMA PickedEquations ==
    ASSUME NEW s, Len(s) \in Nat, NEW Good
    PROVE  \E f : /\ f[0] = << >>
                  /\ \A i \in 1..Len(s) : f[i] = Step(s, Good, f[i - 1], i)
                  /\ Picked(s, Good) = f[Len(s)]
<1> DEFINE n == Len(s)
           Eq(g, k) == g = [i \in 0..k |-> IF i = 0 THEN << >>
                                           ELSE Step(s, Good, g[i - 1], i)]
           T == {k \in 0..n : \E g : Eq(g, k)}
<1>1. 0 \in T
  <2>1. Eq([i \in 0..0 |-> << >>], 0)
    OBVIOUS
  <2>2. 0 \in 0..n
    OBVIOUS
  <2> HIDE DEF Eq
  <2> QED BY <2>1, <2>2
<1>2. ASSUME NEW k \in 0..n - 1, k \in T PROVE k + 1 \in T
  <2>1. PICK g : Eq(g, k)
    BY <1>2
  <2> DEFINE h == [i \in 0..k + 1 |-> IF i = k + 1 THEN Step(s, Good, g[k], k + 1) ELSE g[i]]
  <2> HIDE DEF Eq
  <2>2. \A i \in 0..k : g[i] = IF i = 0 THEN << >> ELSE Step(s, Good, g[i - 1], i)
    BY <2>1 DEF Eq
  <2>3. \A i \in 0..k + 1 : h[i] = IF i = 0 THEN << >> ELSE Step(s, Good, h[i - 1], i)
    BY <2>2
  <2>4. Eq(h, k + 1)
    BY <2>3 DEF Eq
  <2>5. k + 1 \in 0..n
    OBVIOUS
  <2> HIDE DEF h
  <2> QED BY <2>4, <2>5
<1>3. n \in T
  <2> HIDE DEF T
  <2>1. n \in Nat /\ \A k \in 0..n - 1 : k \in T => k + 1 \in T
    BY <1>2
  <2> HIDE DEF n
  <2>2. 0..n \subseteq T
    BY <1>1, <2>1, Climb
  <2> QED BY <2>1, <2>2
<1> DEFINE f == CHOOSE g : Eq(g, n)
<1>4. Eq(f, n)
  BY <1>3
<1>5. Picked(s, Good) = f[n]
  BY DEF Picked, Step
<1> HIDE DEF f
<1>6. \A i \in 0..n : f[i] = IF i = 0 THEN << >> ELSE Step(s, Good, f[i - 1], i)
  BY <1>4
<1> QED BY <1>5, <1>6

\* The places "at" of s are those of the elements in the set, in order, and p has
\* what is there.
PickedFrom(s, Good, p, at) ==
    /\ at \in [1..Len(p) -> {j \in 1..Len(s) : s[j] \in Good}]
    /\ \A i \in 1..Len(p) : p[i] = s[at[i]]
    /\ \A i, j \in 1..Len(p) : i < j => at[i] < at[j]
    /\ \A j \in 1..Len(s) : s[j] \in Good => \E i \in 1..Len(p) : at[i] = j

\* What was picked are the elements of the sequence that are in the set, each once
\* and in order.
LEMMA PickedAt ==
    ASSUME NEW S, NEW s \in Seq(S), NEW Good
    PROVE  /\ Picked(s, Good) \in Seq(S)
           /\ \E at : PickedFrom(s, Good, Picked(s, Good), at)
<1> DEFINE n == Len(s)
           In(k) == {j \in 1..k : s[j] \in Good}
           Ok(p, at, k) == /\ p \in Seq(S)
                           /\ at \in [1..Len(p) -> In(k)]
                           /\ \A i \in 1..Len(p) : p[i] = s[at[i]]
                           /\ \A i, j \in 1..Len(p) : i < j => at[i] < at[j]
                           /\ \A j \in In(k) : \E i \in 1..Len(p) : at[i] = j
<1>1. PICK f : /\ f[0] = << >>
               /\ \A i \in 1..n : f[i] = Step(s, Good, f[i - 1], i)
               /\ Picked(s, Good) = f[n]
  BY PickedEquations
<1> DEFINE T == {k \in 0..n : \E at : Ok(f[k], at, k)}
<1>2. 0 \in T
  <2>1. Ok(<< >>, [i \in 1..0 |-> 0], 0)
    OBVIOUS
  <2>2. 0 \in 0..n
    OBVIOUS
  <2> HIDE DEF Ok
  <2> QED BY <1>1, <2>1, <2>2
<1>3. ASSUME NEW k \in 0..n - 1, k \in T PROVE k + 1 \in T
  <2> HIDE DEF Ok
  <2>1. PICK at : Ok(f[k], at, k)
    BY <1>3
  <2>2. k + 1 \in 1..n /\ k + 1 \in 0..n /\ (k + 1) - 1 = k
    OBVIOUS
  <2>3. f[k + 1] = Step(s, Good, f[k], k + 1)
    BY <1>1, <2>2
  <2>4. CASE s[k + 1] \notin Good
    <3>1. f[k + 1] = f[k]
      BY <2>3, <2>4 DEF Step
    <3>2. In(k + 1) = In(k)
      BY <2>4
    <3>3. Ok(f[k + 1], at, k + 1)
      BY <2>1, <3>1, <3>2 DEF Ok
    <3> QED BY <2>2, <3>3
  <2>5. CASE s[k + 1] \in Good
    <3> DEFINE m == Len(f[k])
               on == [i \in 1..m + 1 |-> IF i = m + 1 THEN k + 1 ELSE at[i]]
    <3>1. f[k + 1] = Append(f[k], s[k + 1])
      BY <2>3, <2>5 DEF Step
    <3>2. f[k] \in Seq(S) /\ m \in Nat /\ s[k + 1] \in S
      BY <2>1, <2>2 DEF Ok
    <3>3. /\ f[k + 1] \in Seq(S) /\ Len(f[k + 1]) = m + 1
          /\ f[k + 1][m + 1] = s[k + 1]
          /\ \A i \in 1..m : f[k + 1][i] = f[k][i]
      BY <3>1, <3>2
    <3>4. \A i \in 1..m : at[i] \in In(k)
      BY <2>1 DEF Ok
    <3>5. In(k + 1) = In(k) \cup {k + 1}
      BY <2>5
    <3>6. on \in [1..m + 1 -> In(k + 1)]
      BY <3>2, <3>4, <3>5
    <3>7. /\ \A i \in 1..m : f[k][i] = s[at[i]]
          /\ \A i, j \in 1..m : i < j => at[i] < at[j]
          /\ \A j \in In(k) : \E i \in 1..m : at[i] = j
      BY <2>1 DEF Ok
    <3>8. \A i \in 1..m : on[i] = at[i] /\ at[i] \in 1..k
      BY <3>2, <3>4
    <3>9. on[m + 1] = k + 1 /\ m + 1 \in 1..m + 1
      BY <3>2
    <3> HIDE DEF m, on, In
    <3>10. \A i \in 1..m + 1 : f[k + 1][i] = s[on[i]]
      BY <3>2, <3>3, <3>7, <3>8, <3>9
    <3>11. \A i, j \in 1..m + 1 : i < j => on[i] < on[j]
      <4> SUFFICES ASSUME NEW i \in 1..m + 1, NEW j \in 1..m + 1, i < j
                   PROVE  on[i] < on[j]
        OBVIOUS
      <4>1. i \in 1..m /\ on[i] = at[i] /\ at[i] \in 1..k
        BY <3>2, <3>8
      <4>2. CASE j = m + 1
        BY <4>1, <4>2, <3>9
      <4>3. CASE j # m + 1
        <5>1. j \in 1..m /\ on[j] = at[j]
          BY <4>3, <3>2, <3>8
        <5> QED BY <4>1, <5>1, <3>7
      <4> QED BY <4>2, <4>3
    <3>12. \A j \in In(k + 1) : \E i \in 1..m + 1 : on[i] = j
      BY <3>2, <3>5, <3>7, <3>8, <3>9
    <3>13. Ok(f[k + 1], on, k + 1)
      BY <3>3, <3>6, <3>10, <3>11, <3>12 DEF Ok
    <3> QED BY <2>2, <3>13
  <2> QED BY <2>4, <2>5
<1>4. n \in T
  <2> HIDE DEF T
  <2>1. n \in Nat /\ \A k \in 0..n - 1 : k \in T => k + 1 \in T
    BY <1>3
  <2> HIDE DEF n
  <2>2. 0..n \subseteq T
    BY <1>2, <2>1, Climb
  <2> QED BY <2>1, <2>2
<1>5. PICK at : Ok(f[n], at, n)
  BY <1>4
<1>6. f[n] \in Seq(S)
  BY <1>5
<1>7. PickedFrom(s, Good, f[n], at)
  BY <1>5 DEF PickedFrom
<1> QED BY <1>1, <1>6, <1>7

\* It is no longer than the sequence, has only elements of both and all of them.
LEMMA PickedBasics ==
    ASSUME NEW S, NEW s \in Seq(S), NEW Good
    PROVE  /\ Picked(s, Good) \in Seq(S)
           /\ Len(Picked(s, Good)) <= Len(s)
           /\ \A i \in 1..Len(Picked(s, Good)) : Picked(s, Good)[i] \in Good
           /\ \A i \in 1..Len(Picked(s, Good)) : \E j \in 1..Len(s) : s[j] = Picked(s, Good)[i]
           /\ \A j \in 1..Len(s) : s[j] \in Good =>
                \E i \in 1..Len(Picked(s, Good)) : Picked(s, Good)[i] = s[j]
<1> DEFINE p == Picked(s, Good)
<1>1. p \in Seq(S)
  BY PickedAt
<1>2. PICK at : PickedFrom(s, Good, p, at)
  BY PickedAt
<1> HIDE DEF p
<1>3. /\ at \in [1..Len(p) -> 1..Len(s)]
      /\ \A i, j \in 1..Len(p) : i < j => at[i] < at[j]
  BY <1>2 DEF PickedFrom
<1>4. Len(p) \in Nat /\ Len(s) \in Nat
  BY <1>1
<1>5. \A i, j \in 1..Len(p) : at[i] = at[j] => i = j
  <2> SUFFICES ASSUME NEW i \in 1..Len(p), NEW j \in 1..Len(p), i # j PROVE at[i] # at[j]
    OBVIOUS
  <2>1. at[i] \in 1..Len(s) /\ at[j] \in 1..Len(s)
    BY <1>3
  <2>2. i < j \/ j < i
    BY <1>4
  <2> QED BY <2>1, <2>2, <1>3
<1>6. at \in Injection(1..Len(p), 1..Len(s))
  BY <1>3, <1>5 DEF Injection, IsInjective
<1>7. /\ IsFiniteSet(1..Len(s)) /\ Cardinality(1..Len(s)) = Len(s)
      /\ Cardinality(1..Len(p)) = Len(p)
  BY <1>4, Counting
<1>8. Cardinality(1..Len(p)) <= Cardinality(1..Len(s))
  BY <1>6, <1>7, FS_Injection
<1>9. \A i \in 1..Len(p) : p[i] \in Good /\ at[i] \in 1..Len(s) /\ s[at[i]] = p[i]
  BY <1>2 DEF PickedFrom
<1>10. \A j \in 1..Len(s) : s[j] \in Good => \E i \in 1..Len(p) : p[i] = s[j]
  BY <1>2 DEF PickedFrom
<1>11. Len(p) <= Len(s)
  BY <1>7, <1>8
<1>12. /\ p \in Seq(S) /\ Len(p) <= Len(s)
       /\ \A i \in 1..Len(p) : p[i] \in Good
       /\ \A i \in 1..Len(p) : \E j \in 1..Len(s) : s[j] = p[i]
       /\ \A j \in 1..Len(s) : s[j] \in Good => \E i \in 1..Len(p) : p[i] = s[j]
  BY <1>1, <1>9, <1>10, <1>11
<1> QED BY <1>12 DEF p

\* The places of a sequence that has something of two sets.
Both(s, Good, More) == {i \in 1..Len(s) : s[i] \in Good /\ s[i] \in More}

\* As many of what was picked are in another set as there were in the sequence.
LEMMA PickedCount ==
    ASSUME NEW S, NEW s \in Seq(S), NEW Good, NEW More
    PROVE  Cardinality(Both(Picked(s, Good), Good, More)) = Cardinality(Both(s, Good, More))
<1> DEFINE p == Picked(s, Good)
           A == Both(p, Good, More)
           B == Both(s, Good, More)
<1>0. /\ \A i : i \in A <=> i \in 1..Len(p) /\ p[i] \in More
      /\ \A j : j \in B <=> j \in 1..Len(s) /\ s[j] \in Good /\ s[j] \in More
  <2>1. \A i \in 1..Len(p) : p[i] \in Good
    BY PickedBasics
  <2> HIDE DEF p
  <2> QED BY <2>1 DEF Both
<1>1. p \in Seq(S)
  BY PickedAt
<1>2. PICK at : PickedFrom(s, Good, p, at)
  BY PickedAt
<1> HIDE DEF p, A, B
<1> DEFINE on == [i \in A |-> at[i]]
<1>3. on \in [A -> B]
  BY <1>0, <1>2 DEF PickedFrom
<1>4. \A i, j \in A : i # j => on[i] # on[j]
  <2> SUFFICES ASSUME NEW i \in A, NEW j \in A, i # j PROVE at[i] # at[j]
    OBVIOUS
  <2>1. at[i] \in 1..Len(s) /\ at[j] \in 1..Len(s)
    BY <1>0, <1>2 DEF PickedFrom
  <2>2. i \in 1..Len(p) /\ j \in 1..Len(p) /\ (i < j \/ j < i)
    BY <1>0, <1>1
  <2> QED BY <1>2, <2>1, <2>2 DEF PickedFrom
<1>5. \A j \in B : \E i \in A : on[i] = j
  <2> SUFFICES ASSUME NEW j \in B PROVE \E i \in A : at[i] = j
    OBVIOUS
  <2>1. PICK i \in 1..Len(p) : at[i] = j
    BY <1>0, <1>2 DEF PickedFrom
  <2>2. p[i] = s[j]
    BY <1>2, <2>1 DEF PickedFrom
  <2>3. i \in A
    BY <1>0, <2>1, <2>2
  <2> QED BY <2>1, <2>3
<1>6. on \in Bijection(A, B)
  <2> HIDE DEF on
  <2>1. DOMAIN on = A
    BY <1>3
  <2>2. on \in Injection(A, B)
    BY <1>3, <1>4, <2>1 DEF Injection, IsInjective
  <2>3. on \in Surjection(A, B)
    BY <1>3, <1>5, <2>1 DEF Surjection
  <2> QED BY <2>2, <2>3 DEF Bijection
<1>7. IsFiniteSet(A)
  <2>1. IsFiniteSet(1..Len(p))
    BY <1>1, FS_Interval
  <2>2. A \subseteq 1..Len(p)
    BY <1>0
  <2> QED BY <2>1, <2>2, FS_Subset
<1>8. Cardinality(A) = Cardinality(B)
  <2>1. ExistsBijection(A, B)
    BY <1>6 DEF ExistsBijection
  <2> QED BY <1>7, <2>1, FS_Bijection
<1> QED BY <1>8 DEF p, A, B

-----------------------------------------------------------------------------
(* The types. *)

Places == Spots \cup {0}
Health == {h \in Int : h <= INITIAL_HP}
Inventory == [Slots -> {NONE} \cup ItemType]

\* A player of a replay, of a snapshot or of a .recovery file.
ReplayPlayer ==
    [id : Nat, user : Users, pos : Places, hp : Health, buff : BOOLEAN, shield : BOOLEAN,
     status : {"LOBBY", "GAMING", "DEAD"}, inv : Inventory, cnt : 0..MAX_INVENTORY]

\* A slot of a table of items: one that lies on the map is of some type.
MapItem == {i \in [pos : Places, type : {NONE} \cup ItemType, active : BOOLEAN] :
                i.active => i.type \in ItemType}

\* A state: the tables are never longer than the arrays of RecoveryState.
Replayed ==
    [players : {ps \in Seq(ReplayPlayer) : Len(ps) <= MAX_ROOM_PLAYERS},
     radius : 1..InitialRadius,
     items : {is \in Seq(MapItem) : Len(is) <= MAX_MAP_ITEMS}]

\* What the records say.
RecordOK(r) ==
    /\ r.t = "PLAYER_JOIN" => /\ r.pid \in Nat /\ r.user \in Users /\ r.pos \in Places
                              /\ r.hp \in Health /\ r.buff \in BOOLEAN
                              /\ r.shield \in BOOLEAN /\ r.inv \in Inventory
    /\ r.t = "MOVE" => r.pos \in Places
    /\ r.t = "DAMAGE" => r.hp \in Health /\ r.broken \in BOOLEAN
    /\ r.t = "PICKUP" => r.item \in ItemType
    /\ r.t = "USE_ITEM" => r.item \in ItemType /\ r.idx \in Slots
    /\ r.t = "ITEM_SPAWN" => r.item \in ItemType /\ r.pos \in Places
    /\ r.t = "POISON_SHRINK" => r.radius \in 1..InitialRadius

\* The numbers of the program.
LEMMA Numbers ==
    /\ MAX_ROOM_PLAYERS \in Nat /\ MAX_INVENTORY \in Nat /\ MAX_MAP_ITEMS \in Nat
    /\ MAX_ROOM_PLAYERS > 0 /\ MAX_INVENTORY > 0 /\ MAX_MAP_ITEMS > 0
    /\ INITIAL_HP \in Nat /\ INITIAL_HP > 0 /\ HEALTH_RESTORE \in Nat /\ HEALTH_RESTORE > 0
    /\ InitialRadius \in Nat /\ InitialRadius > 0
BY ReplayAssumption

\* A log that says nothing replays to a game without players.
LEMMA BlankReplayed == Blank \in Replayed
<1>1. << >> \in Seq(ReplayPlayer) /\ << >> \in Seq(MapItem) /\ Len(<< >>) = 0
  OBVIOUS
<1> QED BY <1>1, Numbers DEF Blank, Replayed

\* A carried item works on a player and leaves the rest of him.
LEMMA EffectType ==
    ASSUME NEW p \in ReplayPlayer, NEW item \in ItemType
    PROVE  /\ Effect(p, item) \in ReplayPlayer
           /\ Effect(p, item).id = p.id /\ Effect(p, item).user = p.user
           /\ Effect(p, item).pos = p.pos /\ Effect(p, item).status = p.status
           /\ Effect(p, item).inv = p.inv /\ Effect(p, item).cnt = p.cnt
           /\ Effect(p, item).shield = IF item = SHIELD THEN TRUE ELSE p.shield
           /\ Effect(p, item).hp = IF item = HEALTH THEN Smaller(p.hp + HEALTH_RESTORE, INITIAL_HP)
                                   ELSE p.hp
<1>1. CASE item = HEALTH
  <2>1. Smaller(p.hp + HEALTH_RESTORE, INITIAL_HP) \in Health
    BY Numbers DEF Smaller, Health, ReplayPlayer
  <2>2. Effect(p, item) = [p EXCEPT !.hp = Smaller(p.hp + HEALTH_RESTORE, INITIAL_HP)]
    BY <1>1 DEF Effect, HEALTH, ATTACK, SHIELD
  <2> HIDE DEF Health
  <2> QED BY <1>1, <2>1, <2>2 DEF ReplayPlayer, HEALTH, SHIELD
<1>2. CASE item = ATTACK
  <2>1. PICK b \in BOOLEAN : b = TRUE
    OBVIOUS
  <2>2. Effect(p, item) = [p EXCEPT !.buff = b]
    BY <1>2, <2>1 DEF Effect, HEALTH, ATTACK, SHIELD
  <2>3. Effect(p, item) \in ReplayPlayer
    BY <2>2 DEF ReplayPlayer
  <2> QED BY <1>2, <2>1, <2>2, <2>3 DEF ReplayPlayer, HEALTH, ATTACK, SHIELD
<1>3. CASE item = SHIELD
  <2>1. PICK b \in BOOLEAN : b = TRUE
    OBVIOUS
  <2>2. Effect(p, item) = [p EXCEPT !.shield = b]
    BY <1>3, <2>1 DEF Effect, HEALTH, ATTACK, SHIELD
  <2>3. Effect(p, item) \in ReplayPlayer
    BY <2>2 DEF ReplayPlayer
  <2>4. /\ Effect(p, item).id = p.id /\ Effect(p, item).user = p.user
        /\ Effect(p, item).pos = p.pos /\ Effect(p, item).status = p.status
        /\ Effect(p, item).inv = p.inv /\ Effect(p, item).cnt = p.cnt
        /\ Effect(p, item).hp = p.hp
    BY <2>2 DEF ReplayPlayer
  <2>5. Effect(p, item).shield = b
    BY <2>2 DEF ReplayPlayer
  <2>6. Effect(p, item).shield = TRUE
    BY <2>1, <2>5, Zenon
  <2>7. item # HEALTH /\ item = SHIELD
    BY <1>3 DEF HEALTH, SHIELD
  <2> QED BY <2>3, <2>4, <2>6, <2>7
<1> QED BY <1>1, <1>2, <1>3 DEF ItemType

\* What a record about one player makes of him.
PlayerRecords == {"MOVE", "DAMAGE", "PLAYER_DEATH", "PICKUP", "USE_ITEM"}

\* What an item taken out of a replayed inventory leaves.
Without(p, r) == IF r.idx <= p.cnt
                 THEN [p EXCEPT !.inv = Shifted(@, p.cnt, r.idx), !.cnt = @ - 1] ELSE p

Changed(p, r) ==
    CASE r.t = "MOVE" -> [p EXCEPT !.pos = r.pos]
      [] r.t = "DAMAGE" -> [p EXCEPT !.hp = r.hp, !.shield = @ /\ ~r.broken]
      [] r.t = "PLAYER_DEATH" -> [p EXCEPT !.hp = 0, !.status = "DEAD"]
      [] r.t = "PICKUP" -> IF p.cnt < MAX_INVENTORY
                           THEN [p EXCEPT !.inv[p.cnt + 1] = r.item, !.cnt = @ + 1] ELSE p
      [] r.t = "USE_ITEM" -> Effect(Without(p, r), r.item)

\* He stays a player, the one he was.
LEMMA WithoutType ==
    ASSUME NEW p \in ReplayPlayer, NEW r, RecordOK(r), r.t = "USE_ITEM"
    PROVE  /\ Without(p, r) \in ReplayPlayer
           /\ Without(p, r).id = p.id /\ Without(p, r).user = p.user
           /\ Without(p, r).pos = p.pos /\ Without(p, r).hp = p.hp
           /\ Without(p, r).shield = p.shield /\ Without(p, r).status = p.status
<1>1. r.idx \in Slots /\ p.inv \in Inventory /\ p.cnt \in 0..MAX_INVENTORY
  BY DEF RecordOK, ReplayPlayer
<1>2. CASE r.idx <= p.cnt
  <2>1. Shifted(p.inv, p.cnt, r.idx) \in Inventory
    BY <1>1, Numbers DEF Shifted, Inventory, Slots
  <2>2. p.cnt - 1 \in 0..MAX_INVENTORY
    BY <1>1, <1>2, Numbers DEF Slots
  <2> HIDE DEF Inventory
  <2> QED BY <1>2, <2>1, <2>2 DEF Without, ReplayPlayer
<1>3. CASE ~(r.idx <= p.cnt)
  BY <1>3 DEF Without
<1> QED BY <1>2, <1>3

\* A record about a player leaves his number and his name.
LEMMA ChangedType ==
    ASSUME NEW p \in ReplayPlayer, NEW r, RecordOK(r), r.t \in PlayerRecords
    PROVE  Changed(p, r) \in ReplayPlayer /\ Changed(p, r).id = p.id
             /\ Changed(p, r).user = p.user
<1>1. CASE r.t = "MOVE"
  BY <1>1 DEF Changed, RecordOK, ReplayPlayer
<1>2. CASE r.t = "DAMAGE"
  <2>1. r.hp \in Health /\ (p.shield /\ ~r.broken) \in BOOLEAN
    BY <1>2 DEF RecordOK
  <2>2. Changed(p, r) = [p EXCEPT !.hp = r.hp, !.shield = p.shield /\ ~r.broken]
    BY <1>2 DEF Changed
  <2> DEFINE broken == p.shield /\ ~r.broken
  <2> HIDE DEF broken
  <2>3. Changed(p, r) = [p EXCEPT !.hp = r.hp, !.shield = broken] /\ broken \in BOOLEAN
    BY <2>1, <2>2 DEF broken
  <2> QED BY <2>1, <2>3 DEF ReplayPlayer
<1>3. CASE r.t = "PLAYER_DEATH"
  <2>1. 0 \in Health
    BY Numbers DEF Health
  <2> QED BY <1>3, <2>1 DEF Changed, ReplayPlayer
<1>4. CASE r.t = "PICKUP"
  <2>1. CASE p.cnt < MAX_INVENTORY
    <3>1. p.inv \in Inventory /\ p.cnt \in 0..MAX_INVENTORY
      BY DEF ReplayPlayer
    <3>2. [p.inv EXCEPT ![p.cnt + 1] = r.item] \in Inventory
      BY <1>4, <3>1 DEF Inventory, RecordOK
    <3>3. p.cnt + 1 \in 0..MAX_INVENTORY
      BY <2>1, <3>1, Numbers
    <3>4. Changed(p, r) = [p EXCEPT !.inv = [p.inv EXCEPT ![p.cnt + 1] = r.item], !.cnt = p.cnt + 1]
      BY <1>4, <2>1 DEF Changed
    <3> HIDE DEF Inventory
    <3> QED BY <3>2, <3>3, <3>4 DEF ReplayPlayer
  <2>2. CASE ~(p.cnt < MAX_INVENTORY)
    BY <1>4, <2>2 DEF Changed
  <2> QED BY <2>1, <2>2
<1>5. CASE r.t = "USE_ITEM"
  <2>1. Changed(p, r) = Effect(Without(p, r), r.item)
    BY <1>5 DEF Changed
  <2>2. r.item \in ItemType
    BY <1>5 DEF RecordOK
  <2>3. Without(p, r) \in ReplayPlayer /\ Without(p, r).id = p.id /\ Without(p, r).user = p.user
    BY <1>5, WithoutType
  <2> DEFINE w == Without(p, r)
             i == r.item
  <2>4. w \in ReplayPlayer /\ i \in ItemType
    BY <2>2, <2>3
  <2> HIDE DEF w, i
  <2>5. /\ Effect(w, i) \in ReplayPlayer
        /\ Effect(w, i).id = w.id /\ Effect(w, i).user = w.user
    BY <2>4, EffectType
  <2> QED BY <2>1, <2>3, <2>5 DEF w, i
<1> QED BY <1>1, <1>2, <1>3, <1>4, <1>5 DEF PlayerRecords

\* One entry of a table of players replaced by another of the same user.
LEMMA ReplaceType ==
    ASSUME NEW s \in Replayed, NEW i \in 1..Len(s.players), NEW p \in ReplayPlayer
    PROVE  LET t == [s EXCEPT !.players[i] = p]
           IN  /\ t \in Replayed
               /\ t.radius = s.radius /\ t.items = s.items
               /\ Len(t.players) = Len(s.players)
               /\ \A j \in 1..Len(s.players) : t.players[j] = IF j = i THEN p ELSE s.players[j]
<1> DEFINE ps == [s.players EXCEPT ![i] = p]
<1>1. s.players \in Seq(ReplayPlayer) /\ Len(s.players) <= MAX_ROOM_PLAYERS
  BY DEF Replayed
<1>2. ps \in Seq(ReplayPlayer) /\ Len(ps) = Len(s.players)
  BY <1>1
<1>3. \A j \in 1..Len(s.players) : ps[j] = IF j = i THEN p ELSE s.players[j]
  BY <1>1
<1>4. [s EXCEPT !.players[i] = p] = [s EXCEPT !.players = ps]
  OBVIOUS
<1> HIDE DEF ps
<1>5. ps \in {qs \in Seq(ReplayPlayer) : Len(qs) <= MAX_ROOM_PLAYERS}
  BY <1>1, <1>2
<1>6. /\ [s EXCEPT !.players = ps] \in Replayed
      /\ [s EXCEPT !.players = ps].players = ps
      /\ [s EXCEPT !.players = ps].radius = s.radius
      /\ [s EXCEPT !.players = ps].items = s.items
  BY <1>5 DEF Replayed
<1> QED BY <1>2, <1>3, <1>4, <1>6

\* The items a record leaves: PICKUP takes one, ITEM_SPAWN adds one.
ItemsAfter(s, r) ==
    CASE r.t = "PICKUP" -> TakeFrom(s.items, ItemAt(s.items, r.pos))
      [] r.t = "ITEM_SPAWN" /\ Len(s.items) < MAX_MAP_ITEMS ->
            Append(s.items, [pos |-> r.pos, type |-> r.item, active |-> TRUE])
      [] OTHER -> s.items

\* A record leaves the item table within its limit.
LEMMA ItemsAfterType ==
    ASSUME NEW s \in Replayed, NEW r, RecordOK(r)
    PROVE  ItemsAfter(s, r) \in Seq(MapItem) /\ Len(ItemsAfter(s, r)) <= MAX_MAP_ITEMS
<1>1. s.items \in Seq(MapItem) /\ Len(s.items) <= MAX_MAP_ITEMS /\ Len(s.items) \in Nat
  BY DEF Replayed
<1>2. CASE r.t = "PICKUP"
  <2> DEFINE n == ItemAt(s.items, r.pos)
  <2>1. n \in 0..Len(s.items)
    BY <1>1, FindItem
  <2> HIDE DEF n
  <2>2. CASE n = 0
    BY <1>1, <1>2, <2>2 DEF ItemsAfter, TakeFrom, n
  <2>3. CASE n # 0
    <3>1. [s.items[n] EXCEPT !.active = FALSE] \in MapItem
      <4>1. s.items[n] \in MapItem
        BY <1>1, <2>1, <2>3
      <4>2. PICK b \in BOOLEAN : b = FALSE
        OBVIOUS
      <4>3. [s.items[n] EXCEPT !.active = b] \in MapItem
        BY <4>1, <4>2 DEF MapItem
      <4> QED BY <4>2, <4>3
    <3>2. ItemsAfter(s, r) = [s.items EXCEPT ![n] = [s.items[n] EXCEPT !.active = FALSE]]
      BY <1>2, <2>3 DEF ItemsAfter, TakeFrom, n
    <3> DEFINE it == [s.items[n] EXCEPT !.active = FALSE]
    <3>3. n \in 1..Len(s.items) /\ it \in MapItem
      BY <1>1, <2>1, <2>3, <3>1
    <3> HIDE DEF it
    <3>4. [s.items EXCEPT ![n] = it] \in Seq(MapItem) /\ Len([s.items EXCEPT ![n] = it]) = Len(s.items)
      BY <1>1, <3>3
    <3> QED BY <1>1, <3>2, <3>4 DEF it
  <2> QED BY <2>2, <2>3
<1>3. CASE r.t = "ITEM_SPAWN" /\ Len(s.items) < MAX_MAP_ITEMS
  <2> DEFINE it == [pos |-> r.pos, type |-> r.item, active |-> TRUE]
  <2>1. it \in MapItem
    BY <1>3 DEF RecordOK, MapItem
  <2>2. ItemsAfter(s, r) = Append(s.items, it)
    BY <1>3 DEF ItemsAfter
  <2> HIDE DEF it
  <2> QED BY <1>1, <1>3, <2>1, <2>2, Numbers
<1>4. CASE r.t # "PICKUP" /\ ~(r.t = "ITEM_SPAWN" /\ Len(s.items) < MAX_MAP_ITEMS)
  BY <1>1, <1>4 DEF ItemsAfter
<1> QED BY <1>2, <1>3, <1>4

\* A record about one player changes the first entry with his id, if there is one.
LEMMA ApplyToPlayer ==
    ASSUME NEW s \in Replayed, NEW r, RecordOK(r), r.t \in PlayerRecords
    PROVE  LET t == Apply(s, r)
           IN  /\ t \in Replayed
               /\ t.radius = s.radius /\ t.items = ItemsAfter(s, r)
               /\ Len(t.players) = Len(s.players)
               /\ \A j \in 1..Len(s.players) :
                    t.players[j] = IF j = FindPlayerIndex(s, r.pid)
                                   THEN Changed(s.players[j], r) ELSE s.players[j]
<1> DEFINE z == [s EXCEPT !.items = ItemsAfter(s, r)]
           i == FindPlayerIndex(s, r.pid)
<1>1. s.players \in Seq(ReplayPlayer) /\ Len(s.players) \in Nat
  BY DEF Replayed
<1>2. /\ z \in Replayed /\ z.players = s.players /\ z.radius = s.radius
      /\ z.items = ItemsAfter(s, r)
  <2>1. ItemsAfter(s, r) \in {is \in Seq(MapItem) : Len(is) <= MAX_MAP_ITEMS}
    BY ItemsAfterType
  <2> QED BY <2>1 DEF Replayed
<1>3. i \in 0..Len(s.players)
  BY <1>1, FindPlayer
<1>4. i = FindPlayerIndex(z, r.pid)
  BY <1>2 DEF FindPlayerIndex
<1>5. Apply(s, r) = IF i = 0 THEN z ELSE [z EXCEPT !.players[i] = Changed(s.players[i], r)]
  <2>1. r.t # "PICKUP" => z = s
    BY DEF Replayed, ItemsAfter, PlayerRecords
  <2>2. CASE r.t = "MOVE"
    BY <2>1, <2>2 DEF Apply, ParseMove, OnPlayer, Changed
  <2>3. CASE r.t = "DAMAGE"
    BY <2>1, <2>3 DEF Apply, ParseDamage, OnPlayer, Changed
  <2>4. CASE r.t = "PLAYER_DEATH"
    BY <2>1, <2>4 DEF Apply, ParsePlayerDeath, OnPlayer, Changed
  <2>5. CASE r.t = "PICKUP"
    BY <1>2, <1>4, <2>5 DEF Apply, ParsePickup, OnPlayer, Changed, ItemsAfter
  <2>6. CASE r.t = "USE_ITEM"
    BY <2>1, <2>6 DEF Apply, ParseUseItem, OnPlayer, Changed, Without
  <2> QED BY <2>2, <2>3, <2>4, <2>5, <2>6 DEF PlayerRecords
<1>6. CASE i = 0
  BY <1>2, <1>5, <1>6, <1>1
<1>7. CASE i # 0
  <2>1. i \in 1..Len(z.players)
    BY <1>2, <1>3, <1>7
  <2>2. Changed(s.players[i], r) \in ReplayPlayer
    BY <1>1, <1>2, <2>1, ChangedType
  <2> DEFINE p == Changed(s.players[i], r)
             t == [z EXCEPT !.players[i] = p]
  <2> HIDE DEF z, i, p
  <2>3. /\ t \in Replayed
        /\ t.radius = z.radius /\ t.items = z.items
        /\ Len(t.players) = Len(z.players)
        /\ \A j \in 1..Len(z.players) : t.players[j] = IF j = i THEN p ELSE z.players[j]
    BY <1>2, <2>1, <2>2, ReplaceType DEF p
  <2>4. Apply(s, r) = t
    BY <1>5, <1>7 DEF p
  <2> QED BY <2>3, <2>4, <1>2 DEF i, p
<1> QED BY <1>6, <1>7

\* What PLAYER_JOIN says of a player.
JoinedPlayer(r) ==
    [id |-> r.pid, user |-> r.user, pos |-> r.pos, hp |-> r.hp,
     buff |-> r.buff, shield |-> r.shield, status |-> "GAMING", inv |-> r.inv,
     cnt |-> Cardinality({k \in Slots : r.inv[k] # NONE})]

\* What a PLAYER_JOIN record makes is a player of the replay.
LEMMA JoinedType ==
    ASSUME NEW r, RecordOK(r), r.t = "PLAYER_JOIN"
    PROVE  JoinedPlayer(r) \in ReplayPlayer
<1> DEFINE used == {k \in Slots : r.inv[k] # NONE}
           c == Cardinality(used)
<1>1. IsFiniteSet(Slots) /\ Cardinality(Slots) = MAX_INVENTORY
  BY Numbers, Counting DEF Slots
<1>2. c \in 0..MAX_INVENTORY
  <2>1. used \subseteq Slots
    OBVIOUS
  <2> HIDE DEF used
  <2>2. IsFiniteSet(used) /\ Cardinality(used) <= Cardinality(Slots)
    BY <1>1, <2>1, FS_Subset
  <2>3. Cardinality(used) \in Nat
    BY <2>2, FS_CardinalityType
  <2> QED BY <1>1, <2>2, <2>3, Numbers
<1>3. /\ r.pid \in Nat /\ r.user \in Users /\ r.pos \in Places /\ r.hp \in Health
      /\ r.buff \in BOOLEAN /\ r.shield \in BOOLEAN /\ r.inv \in Inventory
  BY DEF RecordOK
<1>4. JoinedPlayer(r) = [id |-> r.pid, user |-> r.user, pos |-> r.pos, hp |-> r.hp,
                         buff |-> r.buff, shield |-> r.shield, status |-> "GAMING",
                         inv |-> r.inv, cnt |-> c]
  BY DEF JoinedPlayer
<1> HIDE DEF c
<1> QED BY <1>2, <1>3, <1>4 DEF ReplayPlayer

\* PLAYER_JOIN replaces the user's entry or adds one, if the table has room.
LEMMA ApplyJoin ==
    ASSUME NEW s \in Replayed, NEW r, RecordOK(r), r.t = "PLAYER_JOIN"
    PROVE  LET t == Apply(s, r)
               i == FindUserIndex(s, r.user)
           IN  /\ t \in Replayed /\ t.radius = s.radius /\ t.items = s.items
               /\ i # 0 => /\ Len(t.players) = Len(s.players)
                           /\ \A j \in 1..Len(s.players) :
                                t.players[j] = IF j = i THEN JoinedPlayer(r) ELSE s.players[j]
               /\ i = 0 /\ Len(s.players) < MAX_ROOM_PLAYERS =>
                    t.players = Append(s.players, JoinedPlayer(r))
               /\ i = 0 /\ ~(Len(s.players) < MAX_ROOM_PLAYERS) => t = s
<1> DEFINE i == FindUserIndex(s, r.user)
           p == JoinedPlayer(r)
<1>1. s.players \in Seq(ReplayPlayer) /\ Len(s.players) \in Nat
  BY DEF Replayed
<1>2. i \in 0..Len(s.players)
  BY <1>1, FindUser
<1>3. p \in ReplayPlayer
  BY JoinedType
<1>4. Apply(s, r) = CASE i # 0 -> [s EXCEPT !.players[i] = p]
                      [] i = 0 /\ Len(s.players) < MAX_ROOM_PLAYERS ->
                            [s EXCEPT !.players = Append(@, p)]
                      [] OTHER -> s
  BY DEF Apply, ParsePlayerJoin, JoinedPlayer
<1> HIDE DEF i, p
<1>5. CASE i # 0
  <2>1. i \in 1..Len(s.players)
    BY <1>2, <1>5
  <2> DEFINE t == [s EXCEPT !.players[i] = p]
  <2>2. /\ t \in Replayed
        /\ t.radius = s.radius /\ t.items = s.items
        /\ Len(t.players) = Len(s.players)
        /\ \A j \in 1..Len(s.players) : t.players[j] = IF j = i THEN p ELSE s.players[j]
    BY <1>3, <2>1, ReplaceType
  <2>3. Apply(s, r) = t
    BY <1>4, <1>5
  <2> HIDE DEF t
  <2> QED BY <1>5, <2>2, <2>3 DEF i, p
<1>6. CASE i = 0 /\ Len(s.players) < MAX_ROOM_PLAYERS
  <2> DEFINE ps == Append(s.players, p)
  <2>1. ps \in Seq(ReplayPlayer) /\ Len(ps) = Len(s.players) + 1
    BY <1>1, <1>3
  <2>2. ps \in {qs \in Seq(ReplayPlayer) : Len(qs) <= MAX_ROOM_PLAYERS}
    BY <1>1, <1>6, <2>1, Numbers
  <2>3. Apply(s, r) = [s EXCEPT !.players = ps]
    BY <1>4, <1>6
  <2> HIDE DEF ps
  <2>4. /\ Apply(s, r) \in Replayed /\ Apply(s, r).players = ps
        /\ Apply(s, r).radius = s.radius /\ Apply(s, r).items = s.items
    BY <2>2, <2>3 DEF Replayed
  <2> QED BY <1>6, <2>4 DEF i, p, ps
<1>7. CASE i = 0 /\ ~(Len(s.players) < MAX_ROOM_PLAYERS)
  BY <1>4, <1>7 DEF i
<1> QED BY <1>5, <1>6, <1>7

\* ITEM_SPAWN and POISON_SHRINK leave the players as they are, the other records
\* everything.
LEMMA ApplyToMap ==
    ASSUME NEW s \in Replayed, NEW r, RecordOK(r), r.t \notin PlayerRecords,
           r.t # "PLAYER_JOIN"
    PROVE  LET t == Apply(s, r)
           IN  /\ t \in Replayed
               /\ t.players = s.players /\ t.items = ItemsAfter(s, r)
               /\ t.radius = IF r.t = "POISON_SHRINK" THEN r.radius ELSE s.radius
<1>1. CASE r.t = "POISON_SHRINK"
  <2>1. Apply(s, r) = [s EXCEPT !.radius = r.radius]
    BY <1>1 DEF Apply, ParsePoisonShrink
  <2>2. r.radius \in 1..InitialRadius
    BY <1>1 DEF RecordOK
  <2>3. ItemsAfter(s, r) = s.items
    BY <1>1 DEF ItemsAfter
  <2> QED BY <1>1, <2>1, <2>2, <2>3 DEF Replayed
<1>2. CASE r.t = "ITEM_SPAWN"
  <2>1. Apply(s, r) = [s EXCEPT !.items = ItemsAfter(s, r)]
    BY <1>2 DEF Apply, ParseItemSpawn, ItemsAfter, Replayed
  <2>2. ItemsAfter(s, r) \in {is \in Seq(MapItem) : Len(is) <= MAX_MAP_ITEMS}
    BY ItemsAfterType
  <2> QED BY <1>2, <2>1, <2>2 DEF Replayed
<1>3. CASE r.t # "POISON_SHRINK" /\ r.t # "ITEM_SPAWN"
  <2>1. Apply(s, r) = s
    BY <1>3 DEF Apply, PlayerRecords
  <2>2. ItemsAfter(s, r) = s.items
    BY <1>3 DEF ItemsAfter, PlayerRecords
  <2> QED BY <1>3, <2>1, <2>2
<1> QED BY <1>1, <1>2, <1>3

\* Every record leaves a state, and only POISON_SHRINK another radius.
LEMMA ApplyType ==
    ASSUME NEW s \in Replayed, NEW r, RecordOK(r)
    PROVE  /\ Apply(s, r) \in Replayed
           /\ Apply(s, r).radius = IF r.t = "POISON_SHRINK" THEN r.radius ELSE s.radius
<1>1. CASE r.t \in PlayerRecords
  <2>1. Apply(s, r) \in Replayed /\ Apply(s, r).radius = s.radius
    BY <1>1, ApplyToPlayer
  <2> QED BY <1>1, <2>1 DEF PlayerRecords
<1>2. CASE r.t = "PLAYER_JOIN"
  <2>1. Apply(s, r) \in Replayed /\ Apply(s, r).radius = s.radius
    BY <1>2, ApplyJoin
  <2> QED BY <1>2, <2>1
<1>3. CASE r.t \notin PlayerRecords /\ r.t # "PLAYER_JOIN"
  BY <1>3, ApplyToMap
<1> QED BY <1>1, <1>2, <1>3

-----------------------------------------------------------------------------
(* The files. *)

LogType == [st : Replayed, any : BOOLEAN, ended : BOOLEAN]

\* An empty log is a log.
LEMMA EmptyLogType == EmptyLog \in LogType
BY BlankReplayed DEF EmptyLog, LogType

\* A record more: what the log replays to, and whether it says that the game has ended.
LEMMA FeedType ==
    ASSUME NEW l \in LogType, NEW r, RecordOK(r)
    PROVE  /\ Feed(l, r) \in LogType
           /\ Feed(l, r).st = Apply(l.st, r) /\ Feed(l, r).any = TRUE
           /\ Feed(l, r).ended = (l.ended \/ r.t = "GAME_END")
<1>1. Apply(l.st, r) \in Replayed
  BY ApplyType DEF LogType
<1>2. (l.ended \/ r.t = "GAME_END") \in BOOLEAN
  OBVIOUS
<1> DEFINE st == Apply(l.st, r)
           ended == l.ended \/ r.t = "GAME_END"
<1> HIDE DEF st, ended
<1>3. Feed(l, r) = [st |-> st, any |-> TRUE, ended |-> ended]
  BY DEF Feed, st, ended
<1>4. st \in Replayed /\ ended \in BOOLEAN
  BY <1>1, <1>2 DEF st, ended
<1>5. Feed(l, r) \in LogType
  BY <1>3, <1>4 DEF LogType
<1> QED BY <1>3, <1>5 DEF st, ended

\* The active items of a table are a table of active items.
LEMMA OnTheMapType ==
    ASSUME NEW is \in Seq(MapItem), Len(is) <= MAX_MAP_ITEMS
    PROVE  /\ OnTheMap(is) \in Seq(MapItem) /\ Len(OnTheMap(is)) <= MAX_MAP_ITEMS
           /\ \A i \in 1..Len(OnTheMap(is)) : OnTheMap(is)[i].active
<1> DEFINE good == {i \in ToSet(is) : i.active}
<1>1. OnTheMap(is) = Picked(is, good)
  BY DEF OnTheMap
<1>2. \A i \in good : i.active
  OBVIOUS
<1> HIDE DEF good
<1>3. /\ Picked(is, good) \in Seq(MapItem)
      /\ Len(Picked(is, good)) <= Len(is)
      /\ \A i \in 1..Len(Picked(is, good)) : Picked(is, good)[i] \in good
  BY PickedBasics
<1>4. Len(is) \in Nat /\ Len(Picked(is, good)) \in Nat
  BY <1>3
<1> QED BY <1>1, <1>2, <1>3, <1>4, Numbers

\* save_recovery_info() keeps the players and the radius.
LEMMA InfoType ==
    ASSUME NEW s \in Replayed
    PROVE  /\ SaveRecoveryInfo(s) \in Replayed
           /\ SaveRecoveryInfo(s).players = s.players
           /\ SaveRecoveryInfo(s).radius = s.radius
           /\ SaveRecoveryInfo(s).items = OnTheMap(s.items)
<1>1. OnTheMap(s.items) \in {is \in Seq(MapItem) : Len(is) <= MAX_MAP_ITEMS}
  BY OnTheMapType DEF Replayed
<1> QED BY <1>1 DEF SaveRecoveryInfo, Replayed

\* What recovery finds in the files.
LEMMA FromWalType ==
    ASSUME NEW l \in LogType, NEW has \in BOOLEAN, NEW sn \in Replayed
    PROVE  /\ FromWal(l, has, sn) \in Replayed
           /\ FromWal(l, has, sn).players = l.st.players
           /\ FromWal(l, has, sn).items = l.st.items
           /\ FromWal(l, has, sn).radius = IF has THEN sn.radius ELSE l.st.radius
BY DEF FromWal, LogType, Replayed

\* recovery_recover_room() leaves files and a .recovery file of those of the
\* players the files have.
LEMMA RecoverRoomType ==
    ASSUME NEW F, F \subseteq {"wal", "snap", "recovery"}, NEW l \in LogType,
           NEW sn \in Replayed
    PROVE  LET after == RecoverRoom(F, l, sn)
           IN  /\ after.files \subseteq {"wal", "snap", "recovery"}
               /\ after.info \in Replayed
<1> DEFINE s == IF HasPlayerData(F, l)
                THEN SaveRecoveryInfo(FromWal(l, "snap" \in F, sn)) ELSE SnapshotLoad(sn)
<1>1. s \in Replayed
  <2>1. FromWal(l, "snap" \in F, sn) \in Replayed
    <3>1. ("snap" \in F) \in BOOLEAN
      OBVIOUS
    <3> QED BY <3>1, FromWalType
  <2>2. SaveRecoveryInfo(FromWal(l, "snap" \in F, sn)) \in Replayed
    BY <2>1, InfoType
  <2>3. SnapshotLoad(sn) \in Replayed
    BY InfoType DEF SnapshotLoad
  <2> QED BY <2>2, <2>3
<1>2. NoInfo \in Replayed
  BY BlankReplayed DEF NoInfo
<1> HIDE DEF s
<1>3. RecoverRoom(F, l, sn) =
        IF ~HasPlayerData(F, l) /\ "snap" \notin F THEN [files |-> F \ {"recovery"}, info |-> NoInfo]
        ELSE IF Cardinality(Living(s)) <= 1
             THEN [files |-> (F \ {"recovery"}) \ {"wal", "snap"}, info |-> NoInfo]
        ELSE [files |-> (F \ {"recovery"}) \cup {"recovery"}, info |-> s]
  BY DEF RecoverRoom, s
<1>4. CASE ~HasPlayerData(F, l) /\ "snap" \notin F
  BY <1>2, <1>3, <1>4
<1>5. CASE ~(~HasPlayerData(F, l) /\ "snap" \notin F)
  <2>1. CASE Cardinality(Living(s)) <= 1
    BY <1>2, <1>3, <1>5, <2>1
  <2>2. CASE ~(Cardinality(Living(s)) <= 1)
    BY <1>1, <1>3, <1>5, <2>2
  <2> QED BY <2>1, <2>2
<1> QED BY <1>4, <1>5

=============================================================================
