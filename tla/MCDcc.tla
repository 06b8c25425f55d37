------------------------------- MODULE MCDcc -------------------------------
(* Files of no, one, two and three chunks, and two that change after        *)
(* stat(); resuming in front of, at and behind their ends.                  *)
EXTENDS Dcc
MCFiles == {[stat |-> n, actual |-> n] : n \in {0, 3, 5, 9}}
             \cup {[stat |-> 3, actual |-> 5], [stat |-> 5, actual |-> 3]}
=============================================================================
