---------------------------- MODULE MCScenarios ----------------------------
(* The race core in four scenarios: in each, the drivers and the clock do    *)
(* what they like, and race control uses some of its commands.               *)
EXTENDS MCRaceCore

VARIABLE scenario

\* Lap reports of drivers, out of these.
Reports(laps) ==
  \E d \in Driver :
    \/ Telemetry(d)
    \/ \E l \in laps : RejectLap(d, l)
    \/ \E l \in laps, recovered \in BOOLEAN : CompleteLap(d, l, recovered)

\* At most one driver takes a seat.
Alone == Cardinality({d \in Driver : driver'[d].seat # "free"}) <= 1

\* Practice sessions and races of one driver, who may be retired or disqualified.
Counting ==
  /\ \/ Seats \/ Reports(AllLaps) \/ Time
     \/ ToLobby \/ ToTimed("practice") \/ ToRace
     \/ \E d \in Driver : Classify(d, "didNotFinish") \/ Penalise(d) \/ Revoke(d)
  /\ Alone

\* Events with races, stopped by red flags, abandoned and started again.
Repeating ==
  \/ Seats \/ Reports(TwoLaps) \/ Time
  \/ ToLobby \/ ToRace \/ BeginEvent
  \/ \E force \in BOOLEAN : Countdown(force)
  \/ RedFlag \/ GreenFlag

\* One race, from the out lap on, with red flags.
Racing ==
  \/ Seats \/ Reports(RaceLaps) \/ Time
  \/ ToLobby
  \/ \E phase \in {"outLap", "formationLap"} : ToStart(phase)
  \/ \E force \in BOOLEAN : Countdown(force)
  \/ RedFlag \/ GreenFlag

\* A practice or qualifying session, up to the grid.
Timing ==
  \/ Seats \/ Reports(OneLap) \/ Time
  \/ \E kind \in {"practice", "qualifying"} : ToTimed(kind)
  \/ ToGrid \/ RefuseFinish

\* What is counted and archived, over several stages.
RecordNext ==
  /\ UNCHANGED scenario
  /\ \/ scenario = "counting" /\ Counting
     \/ scenario = "repeating" /\ Repeating

RecordInit == scenario \in {"counting", "repeating"} /\ Init

RecordSpec == RecordInit /\ [][RecordNext]_<<scenario, vars>>

\* What a session waits for, under the fairness of FairSpec.
WaitNext ==
  /\ UNCHANGED scenario
  /\ \/ scenario = "racing" /\ Racing
     \/ scenario = "timing" /\ Timing

WaitInit == scenario \in {"racing", "timing"} /\ Init

WaitSpec == WaitInit /\ [][WaitNext]_<<scenario, vars>> /\ Fairness
=============================================================================
