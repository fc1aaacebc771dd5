---------------------------- MODULE MCDurability ----------------------------
(* Instances of Durability for TLC. *)
EXTENDS Durability, TLC

CONSTANTS u1, u2

MCUsers == {u1, u2}
MCSpots == {0, 2}
Symmetry == Permutations(MCUsers)

\* Bounds: the players start at the edge of the map, all items appear in its middle; the
\* first is a health pack or an attack potion, a later one a shield; only players connect;
\* and a recovered game is played on for the two last commands or events.
AtEdge == phase' = "starting" => \A u \in Users : pl'[u].pos = 2
FewItems ==
    \A i \in DOMAIN items : ~items[i].active /\ items'[i].active =>
        items'[i].pos = 0 /\ (phase = "running" <=> items'[i].type = SHIELD)
NoStrangers == main'.pc = "seat" => nextPid' <= nextPid + 1
SomePlayOn == main'.pc = "seat" /\ phase = "none" => ops + 2 = MaxOps

BoundedSpec == Init /\ [][Next /\ AtEdge /\ FewItems /\ NoStrangers /\ SomePlayOn]_vars
=============================================================================
