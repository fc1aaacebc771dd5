---------------------------- MODULE MCGoRecovery ----------------------------
(* Instances of GoRecovery for TLC. *)
EXTENDS GoRecovery, TLC

CONSTANTS u1, u2

MCUsers == {u1, u2}

\* After a refused start, in the first game: not into a tick or a snapshot, nor with one
\* of its players or a record still to be written, until the crash.
FollowedExtra(r) ==
    /\ crashes = 0 /\ nextRoomID = 2 /\ potion = [u \in Users |-> NoPotion]
    /\ loop[r].pc \in {"none", "top", "reset"} /\ revived = {} /\ missed = {}
    /\ logged[r].hollow = {} /\ disk[r] = logged[r]

\* Behaviours are followed up to the first player who is put back too late or seated
\* twice, the second seeding of a log, and the second game at a time.  Potions are
\* drunk one at a time, and in the first game.
Followed ==
    /\ strays = {} /\ \A f \in RoomIds : seedings[f] <= 1
    /\ Cardinality({r \in RoomIds : loop[r].pc # "none"}) <= 1
    /\ \A u \in Users : potion[u].pc # "none" =>
        crashes = 0 /\ nextRoomID = 2 /\ \A v \in Users \ {u} : potion[v].pc = "none"
    /\ \A r \in doubled : FollowedExtra(r)

Symmetry == Permutations(MCUsers)
=============================================================================
