------------------------------- MODULE Match -------------------------------
(***************************************************************************)
(* What a game of the C server promises its players: who has lost does not *)
(* come back before the next game, a game is concluded only when its time  *)
(* is up or at most one player is left, and the room opens for the next    *)
(* game only when nobody is left in the last one.                          *)
(***************************************************************************)
CONSTANT Players

VARIABLES phase, alive, late

Init ==
    /\ phase = "waiting"
    /\ alive = {}
    /\ late = TRUE

Begin ==
    /\ phase = "waiting"
    /\ phase' = "gaming"
    /\ alive' \in SUBSET Players
    /\ late' = FALSE

\* Struck down, poisoned or gone; also put back to the room when all is over.
Lose ==
    /\ alive' \in SUBSET alive
    /\ alive' # alive
    /\ UNCHANGED <<phase, late>>

Conclude ==
    /\ phase = "gaming"
    /\ late \/ \A p, q \in alive : p = q
    /\ phase' = "ended"
    /\ UNCHANGED <<alive, late>>

Reopen ==
    /\ phase = "ended"
    /\ alive = {}
    /\ phase' = "waiting"
    /\ late' = TRUE
    /\ UNCHANGED alive

TimeUp ==
    /\ ~late
    /\ late' = TRUE
    /\ UNCHANGED <<phase, alive>>

Next == Begin \/ Lose \/ Conclude \/ Reopen \/ TimeUp

Spec == Init /\ [][Next]_<<phase, alive, late>>
============================================================================
