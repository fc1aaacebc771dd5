------------------------------ MODULE MCRooms ------------------------------
(* Instances of Rooms for TLC. *)
EXTENDS Rooms, TLC

CONSTANTS p1, p2, p3, u1, u2, u3, r1, r2, t1, t2

MCPlayers2 == {p1, p2}
MCPlayers3 == {p1, p2, p3}
MCUsers2   == {u1, u2}
MCUsers3   == {u1, u2, u3}
MCRooms1   == {r1}
MCRooms2   == {r1, r2}
MCThreads1 == {t1}
MCThreads2 == {t1, t2}

\* Players, users, rooms and threads are compared for equality only.
Symmetry3 ==
    Permutations(MCPlayers3) \cup Permutations(MCUsers3) \cup Permutations(MCRooms2)
Symmetry2 ==
    Permutations(MCPlayers2) \cup Permutations(MCUsers2)
        \cup Permutations(MCRooms2) \cup Permutations(MCThreads2)

\* The scheduling questions do not depend on which name a player has, nor on
\* whether his connection goes with him: each player has a name of his own and
\* leaves with LEAVE_ROOM or LOGOUT.
Name == (p1 :> u1) @@ (p2 :> u2) @@ (p3 :> u3)
StayConnected ==
    /\ main'.cmd # "disconnect"
    /\ \A p \in Players : user'[p] \in {None, Name[p]}

LiveSpec == Init /\ [][Next /\ StayConnected]_vars /\ Fairness
============================================================================
