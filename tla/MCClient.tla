------------------------------ MODULE MCClient ------------------------------
(* Instances of Client for TLC. *)
EXTENDS Client, TLC

\* Bound: what goes wrong goes wrong in one way.
OneMishap == Cardinality({<<h, v>> \in {<<"short", short>>, <<"left", leftGame>>,
                                        <<"overtaken", overtaken>>, <<"burst", burst>>} : v}) <= 1
=============================================================================
