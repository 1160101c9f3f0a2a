----------------------------- MODULE MCRaceRoom -----------------------------
(* Constants for model checking RaceRoom. *)
EXTENDS RaceRoom, TLC
CONSTANTS d1, d2, s1, s2, a, b
OneLap == {[id |-> a, stage |-> 1, lap |-> 1, valid |-> TRUE]}
\* The slots for connections are alike.
Symmetry == Permutations(Socket)
OneOut == <<1, 1>>
=============================================================================
