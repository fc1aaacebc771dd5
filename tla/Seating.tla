------------------------------ MODULE Seating ------------------------------
(***************************************************************************)
(* What the lobby of the C server promises, whatever its threads do: a     *)
(* user is signed in over one connection, a connection sits in at most one *)
(* room, a room never holds more than its capacity, only signed-in         *)
(* connections sit, and nobody signs out while seated.  Sitting down,      *)
(* standing up, signing in and signing out are atomic.                     *)
(***************************************************************************)
EXTENDS Naturals, FiniteSets

CONSTANTS Players, Users, Rooms, Capacity, None

VARIABLES seat, name

Occupants(r) == {p \in Players : seat[p] = r}

Init ==
    /\ seat = [p \in Players |-> None]
    /\ name = [p \in Players |-> None]

SignIn(p, u) ==
    /\ name[p] = None /\ seat[p] = None
    /\ \A q \in Players : name[q] # u
    /\ name' = [name EXCEPT ![p] = u]
    /\ UNCHANGED seat

Sit(p, r) ==
    /\ name[p] # None /\ seat[p] = None
    /\ Cardinality(Occupants(r)) < Capacity
    /\ seat' = [seat EXCEPT ![p] = r]
    /\ UNCHANGED name

Stand(p) ==
    /\ seat[p] # None
    /\ seat' = [seat EXCEPT ![p] = None]
    /\ UNCHANGED name

SignOut(p) ==
    /\ name[p] # None /\ seat[p] = None
    /\ name' = [name EXCEPT ![p] = None]
    /\ UNCHANGED seat

Next ==
    \E p \in Players :
        \/ \E u \in Users : SignIn(p, u)
        \/ \E r \in Rooms : Sit(p, r)
        \/ Stand(p)
        \/ SignOut(p)

Spec == Init /\ [][Next]_<<seat, name>>
============================================================================
