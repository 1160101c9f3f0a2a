----------------------------- MODULE LapLedger ------------------------------
(***************************************************************************)
(* What a room promises about lap reports, and all a client relies on: a   *)
(* report is credited once, a report acknowledged as accepted is credited  *)
(* for good, and only a driver who leaves takes its laps along.  RaceRoom  *)
(* implements it with a memory it may lose, a disk and sockets that close. *)
(***************************************************************************)
CONSTANTS
  Driver,   \* participants
  Report    \* lap reports, each with an id

VARIABLES
  credited,     \* the pairs <<driver, report>> on record
  acknowledged, \* the pairs some client was told are accepted
  departed      \* drivers who left for good

vars == <<credited, acknowledged, departed>>

Init ==
  /\ credited = {}
  /\ acknowledged = {}
  /\ departed = {}

LapsOf(ds) == ds \X Report

\* Drivers leave and reports are credited, possibly several in one write; a
\* report that is on record is acknowledged to whoever asked.
Commit ==
  \E left \in SUBSET (Driver \ departed), new \in SUBSET LapsOf(Driver \ departed) :
    /\ departed' = departed \cup left
    /\ credited' = (credited \cup new) \ LapsOf(left)
    /\ \A x, y \in credited' : x[1] = y[1] /\ x[2].id = y[2].id => x = y
    /\ \/ acknowledged' = acknowledged
       \/ \E x \in credited' : acknowledged' = acknowledged \cup {x}

Spec == Init /\ [][Commit]_vars
=============================================================================
