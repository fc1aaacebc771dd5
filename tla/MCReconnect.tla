---------------------------- MODULE MCReconnect ----------------------------
(* Instances of Reconnect for TLC. *)
EXTENDS Reconnect, TLC

CONSTANTS u1, u2, u3

MCUsers == {u1, u2, u3}

\* Saves are followed when the game has no room, and the entries of other games
\* before the crash, as long as no room of the game has been destroyed.
Followed ==
    /\ At("save") \/ unsaved # {} => made = 0
    /\ crashes > 0 \/ destroyed => Ours = DOMAIN mapping
=============================================================================
