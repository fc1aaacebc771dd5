------------------------------ MODULE MCCombat ------------------------------
(* Instances of Combat for TLC. *)
EXTENDS Combat, TLC

CONSTANTS p1, p2, p3

MCPlayers2 == {p1, p2}
MCPlayers3 == {p1, p2, p3}
Symmetry2  == Permutations(MCPlayers2)
Symmetry3  == Permutations(MCPlayers3)

\* A cell in the middle of the map and one at its edge, which the shrinking
\* safe zone leaves out; who stands on one is out of reach of the other, and the
\* edge is within reach of the corner.
MCCells      == {"centre", "edge"}
MCBeside     == {<<"centre", "edge">>, <<"edge", "centre">>}
MCNear       == {<<c, c>> : c \in MCCells} \cup {<<None, "edge">>}
MCRing       == [c \in MCCells |-> IF c = "edge" THEN 2 ELSE 0]
MCSpawnCells == <<"centre">>

\* Bounds: the items lie in the middle of the map and are all of one type, two of
\* them on the map or one there and one in an inventory; who leaves the room
\* leaves unhurt or dead, with nothing that the next game would take from him.
Held     == {p \in Players : inventory[p] # <<>>}
OnMap    == {i \in Slots : items[i] # None}
FewItems ==
    /\ \A i \in OnMap : items[i].cell = "centre"
    /\ Cardinality(OnMap) + 2 * Cardinality(Held) <= 3
    /\ Cardinality({items[i].type : i \in OnMap} \cup {inventory[p][1] : p \in Held}) <= 1
LeaveBare ==
    \A p \in members \ members' : ~shield[p] /\ ~buffed[p] /\ inventory[p] = <<>>
                               /\ hp[p] \in {0, MaxHp}

BoundedSpec == Init /\ [][Next /\ FewItems' /\ LeaveBare]_vars
=============================================================================
