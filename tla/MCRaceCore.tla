----------------------------- MODULE MCRaceCore -----------------------------
(* Constants for model checking RaceCore. *)
EXTENDS RaceCore, TLC

CONSTANTS d1, d2, d3, a, b, c, e, u, v

\* Swapping drivers changes nothing a safety property sees.
Symmetry == Permutations(Driver)

\* One race: an abandoned lap 1, lap 1 twice under two ids, lap 2.
RaceLaps ==
  {[id |-> a, stage |-> 1, lap |-> 1, valid |-> FALSE],
   [id |-> b, stage |-> 1, lap |-> 1, valid |-> TRUE],
   [id |-> c, stage |-> 1, lap |-> 2, valid |-> TRUE]}

\* Every kind of report: those, one for the next stage, and one of an older
\* client that names no stage.
AllLaps ==
  RaceLaps \cup
  {[id |-> e, stage |-> 2, lap |-> 1, valid |-> TRUE],
   [id |-> u, stage |-> NoStage, lap |-> 1, valid |-> TRUE]}

\* One unstamped lap, and two.
OneLap == {[id |-> u, stage |-> NoStage, lap |-> 1, valid |-> TRUE]}
TwoLaps == OneLap \cup {[id |-> v, stage |-> NoStage, lap |-> 2, valid |-> TRUE]}

\* All of them.
EveryLap == AllLaps \cup TwoLaps

OneOut == <<1, 1>>
=============================================================================
