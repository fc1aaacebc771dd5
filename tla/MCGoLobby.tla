----------------------------- MODULE MCGoLobby -----------------------------
(* Instances of GoLobby for TLC. *)
EXTENDS GoLobby, TLC

CONSTANTS p1, p2, r1, r2, g1, g2, l1, l2

MCPlayers == {p1, p2}
MCRooms == {r1, r2}
MCGoroutines == {g1, g2}
MCLoops == {l1, l2}

\* Ids are only told apart, slots keep the order of the members.
Symmetry ==
    Permutations(MCPlayers) \cup Permutations(MCRooms)
      \cup Permutations(MCGoroutines) \cup Permutations(MCLoops)

\* Behaviours are followed up to the first race of the seats; those with two
\* rooms have one game loop at a time, and no startGame() refused.
Followed ==
    /\ strays = {}
    /\ born = MCRooms => refused = {} /\ Cardinality({l \in Loops : loop[l].pc # "none"}) <= 1
=============================================================================
