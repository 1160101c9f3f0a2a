----------------------------- MODULE YellowFlags -----------------------------
(***************************************************************************)
(* The flags of cloudflare/src/race-core.ts: which zones are yellow        *)
(* (evaluateAutomaticYellow, applyFlag) and what flag is shown             *)
(* (refreshYellowFlag), while sessions start and end, drivers come and go  *)
(* and a red flag stops everything.                                        *)
(*                                                                         *)
(* A message says whether the car is in danger, fine, or in or near the    *)
(* pit lane; whether it has been so for long enough is left open.  Results *)
(* and clocks are RaceCore's: here sessions end when they please, and any  *)
(* drivers but one may be eliminated from a qualifying.                    *)
(***************************************************************************)
EXTENDS Naturals

CONSTANTS Car

VARIABLES
  session,   \* phase, flag, the switch of the automatic yellow, and the clock
             \* of a practice or qualifying: running, up, or closed for good
  manual,    \* the zones control has declared yellow
  car        \* by driver: automaticYellowActive, status, qualifyingEligible,
             \* connection and seat

flagVars == <<session, manual, car>>

Zone == {"course", "sector"}
Running == {"practice", "qualifying", "race"}
Phase == Running \cup {"lobby", "grid", "outLap", "formationLap", "countdown", "finished",
                      "suspended"}
Out == {"finished", "didNotFinish", "disqualified"}

NewCar == [yellow |-> FALSE, status |-> "onTrack", eligible |-> TRUE, connected |-> TRUE,
           present |-> TRUE]

FlagsInit ==
  /\ session = [phase |-> "lobby", before |-> "race", flag |-> "green", enabled |-> TRUE,
                clock |-> "running", overwritten |-> FALSE]
  /\ manual = {}
  /\ car = [c \in Car |-> NewCar]

\* yellowZones: those of control and those of cars in danger
Zones(m, cs) == m \cup {c \in Car : cs[c].present /\ cs[c].yellow}

\* refreshYellowFlag; "overwritten" is for the properties.
Refresh(s, m, cs) ==
  IF s.flag \in {"red", "chequered"} THEN s
  ELSE [s EXCEPT !.flag = IF Zones(m, cs) = {} THEN "green" ELSE "yellow",
                 !.overwritten = FALSE]

\* A flag set without looking at the zones.
SetFlag(s, flag) == [s EXCEPT !.flag = flag, !.overwritten = TRUE]

-----------------------------------------------------------------------------
(* Drivers *)

\* evaluateAutomaticYellow
Watched(c, place) ==
  /\ session.enabled /\ session.phase \in Running
  /\ session.phase = "qualifying" => car[c].eligible
  /\ place # "pit" /\ car[c].status \notin Out

InDanger(c, place) ==
  IF ~Watched(c, place) THEN {FALSE}
  ELSE IF place = "danger" THEN {car[c].yellow, TRUE} ELSE {car[c].yellow, FALSE}

\* updateTelemetry
DriveOn(c, place) ==
  /\ car[c].present
  /\ \E yellow \in InDanger(c, place) :
       car' = [car EXCEPT ![c].yellow = yellow, ![c].connected = TRUE]
  /\ session' = Refresh(session, manual, car')
  /\ UNCHANGED manual

\* updateTelemetry of a paused or invalid game: the yellow is left alone.
DrivePaused(c) ==
  /\ car[c].present
  /\ car' = [car EXCEPT ![c].connected = TRUE]
  /\ UNCHANGED <<session, manual>>

\* Whoever is connected is ready again, the disqualified too.
Ready(cs) == [c \in Car |-> IF cs[c].connected THEN [cs[c] EXCEPT !.status = "onTrack"] ELSE cs[c]]

\* eliminateFromCurrentQualifyingSession; one driver always stays.
Eliminated(cs) ==
  LET field == {c \in Car : cs[c].present /\ cs[c].eligible}
  IN  {[c \in Car |-> IF c \in out
                      THEN [cs[c] EXCEPT !.yellow = FALSE, !.status = "onTrack", !.eligible = FALSE]
                      ELSE cs[c]] : out \in (SUBSET field \ {field}) \cup {{}}}

\* completePracticeIfReady and completeQualifyingIfReady, if nobody is waited
\* for any more: the session is over, the qualifying goes on or to the grid.
Closed(s, cs) ==
  IF s.clock # "up" THEN {}
  ELSE IF s.phase = "practice" THEN {[s |-> [s EXCEPT !.clock = "closed"], cs |-> Ready(cs)]}
  ELSE IF s.phase = "qualifying"
  THEN {[s |-> SetFlag([s EXCEPT !.clock = "closed"], "green"), cs |-> Ready(es)] :
          es \in Eliminated(cs)}
       \cup {[s |-> SetFlag([s EXCEPT !.phase = "grid", !.clock = "running"], "green"),
              cs |-> Ready(cs)]}
  ELSE {}

\* tryCompleteRaceIfReady, if nobody is waited for any more
Ended(s) ==
  IF s.phase = "race" /\ s.flag = "chequered" THEN {[s EXCEPT !.phase = "finished"]} ELSE {}

\* Mutant: the flag is not looked at again when the car in danger goes.
GoneUnrefreshed(cs) ==
  \E w \in {[s |-> session, cs |-> cs]} \cup Closed(session, cs) :
    car' = w.cs /\ session' \in {w.s} \cup Ended(w.s)

\* What the ways to lose a driver have in common.
Gone(cs) ==
  \E w \in {[s |-> session, cs |-> cs]} \cup Closed(session, cs) :
    LET s == Refresh(w.s, manual, w.cs)
    IN  car' = w.cs /\ session' \in {s} \cup Ended(s)

\* Mutant: the yellow waits for the car's next message.
LoseConnectionOnly(c) ==
  /\ car[c].present /\ car[c].connected
  /\ Gone([car EXCEPT ![c].connected = FALSE])
  /\ UNCHANGED manual

\* disconnect
LoseConnection(c) ==
  /\ car[c].present /\ car[c].connected
  /\ Gone([car EXCEPT ![c].connected = FALSE, ![c].yellow = FALSE])
  /\ UNCHANGED manual

\* disconnectAndReleaseClient; the seats that beginEvent and
\* pruneLobbyReservations remove go the same way.
Release(c) ==
  /\ car[c].present
  /\ Gone([car EXCEPT ![c].present = FALSE, ![c].connected = FALSE, ![c].yellow = FALSE])
  /\ UNCHANGED manual

\* login of a driver who has a seat, perhaps over an older connection; a race
\* may have been waiting for nobody.
ComeBack(c) ==
  /\ car[c].present
  /\ \E out \in BOOLEAN :
       /\ out => session.flag = "chequered" /\ session.phase \in {"race", "finished"}
       /\ car' = [car EXCEPT ![c].connected = TRUE,
                             ![c].status = IF out THEN "didNotFinish" ELSE "onTrack"]
  /\ session' \in {session} \cup Ended(session)
  /\ UNCHANGED manual

\* login of somebody new
Join(c) ==
  /\ ~car[c].present
  /\ car' = [car EXCEPT ![c] = NewCar]
  /\ UNCHANGED <<session, manual>>

\* setReady, whatever the status was
PressReady(c) ==
  /\ car[c].present /\ session.phase \in {"lobby", "practice", "grid"}
  /\ car' = [car EXCEPT ![c].status = "onTrack"]
  /\ UNCHANGED <<session, manual>>

\* completeLap of the leader, who ends every yellow (clearYellowState), and of
\* the others under the chequered flag
TakeFlag(c) ==
  LET leads == session.flag # "chequered"
      s == [session EXCEPT !.flag = "chequered"]
  IN  /\ car[c].present /\ session.phase = "race" /\ car[c].status \notin Out
      /\ manual' = IF leads THEN {} ELSE manual
      /\ car' = [d \in Car |-> [car[d] EXCEPT !.yellow = IF leads THEN FALSE ELSE @,
                                            !.status = IF d = c THEN "finished" ELSE @]]
      /\ session' \in {s} \cup Ended(s)

-----------------------------------------------------------------------------
(* Control *)

\* applyParticipant
RetireCar(c, status) ==
  /\ car[c].present
  /\ car' = [car EXCEPT ![c].status = status, ![c].yellow = FALSE]
  /\ session' = Refresh(session, manual, car')
  /\ UNCHANGED manual

\* applyPenalty and resolveInvestigation with a disqualification
Disqualify(c) ==
  /\ car[c].present
  /\ car' = [car EXCEPT ![c].status = "disqualified"]
  /\ UNCHANGED <<session, manual>>

\* updatePenalty that revokes a disqualification
Reinstate(c) ==
  /\ car[c].present /\ car[c].status = "disqualified"
  /\ \E status \in {"finished", "onTrack"} : car' = [car EXCEPT ![c].status = status]
  /\ UNCHANGED <<session, manual>>

\* applyFlag("green"), for one sector or for all zones
Green(zones) ==
  /\ session' = Refresh(IF session.phase = "suspended"
                        THEN [session EXCEPT !.phase = session.before, !.flag = "green"]
                        ELSE session,
                        manual \ zones, car)
  /\ manual' = manual \ zones
  /\ UNCHANGED car

\* applyFlag("yellow")
Yellow(zone) ==
  /\ session.flag # "red"
  /\ manual' = manual \cup {zone}
  /\ session' = Refresh(session, manual', car)
  /\ UNCHANGED car

\* Mutant: a second red flag takes the suspension for a session.
RedAgain ==
  /\ session' = [session EXCEPT !.before = session.phase, !.phase = "suspended", !.flag = "red"]
  /\ UNCHANGED <<manual, car>>

\* applyFlag("red")
Red ==
  /\ session' = [session EXCEPT !.before = IF session.phase = "suspended" THEN @ ELSE session.phase,
                                !.phase = "suspended", !.flag = "red"]
  /\ UNCHANGED <<manual, car>>

\* clearYellowState and resetParticipant; a first qualifying is for those who
\* are there.
AllClear(phase) ==
  /\ manual' = {}
  /\ car' = [c \in Car |-> [car[c] EXCEPT !.yellow = FALSE, !.status = "onTrack",
                                           !.eligible = phase # "qualifying" \/ car[c].connected]]

\* Sessions that begin from nothing: resetCompetitiveState (applySession to the
\* lobby, beginEvent, a first practice or qualifying) and prepareRace.
BeginSession(phase) ==
  /\ session.phase = "countdown" => phase # "race"
  /\ session.phase = "outLap" => phase # "formationLap"
  /\ AllClear(phase)
  /\ session' = [session EXCEPT !.phase = phase, !.flag = "green", !.clock = "running",
                                !.overwritten = FALSE]

\* The race begins from the countdown, by the clock or by control, and the
\* formation lap from the out lap: the flag is green whatever the zones.
GoOn(from, to) ==
  /\ session.phase = from
  /\ session' = SetFlag([session EXCEPT !.phase = to], "green")
  /\ UNCHANGED <<manual, car>>

\* applySession("grid")
ToGrid ==
  /\ session' = SetFlag([session EXCEPT !.phase = "grid", !.clock = "running"], "green")
  /\ car' = Ready(car)
  /\ UNCHANGED manual

\* tick: the time of a practice or qualifying is up, and perhaps nobody is
\* waited for.
TimeIsUp ==
  /\ session.phase \in {"practice", "qualifying"} /\ session.clock = "running"
  /\ LET s == [session EXCEPT !.flag = "chequered", !.clock = "up"]
     IN  \E w \in {[s |-> s, cs |-> car]} \cup Closed(s, car) : session' = w.s /\ car' = w.cs
  /\ UNCHANGED manual

\* The last driver waited for has completed his lap, or his recovery lapses.
LastLapIn ==
  /\ \E w \in Closed(session, car) : session' = w.s /\ car' = w.cs
  /\ UNCHANGED manual

RaceIsOver ==
  /\ session' \in Ended(session)
  /\ UNCHANGED <<manual, car>>

\* tryStartNextPracticeSession and tryStartNextQualifyingSession; the
\* eliminated stay as they are.
NextSession ==
  /\ session.phase \in {"practice", "qualifying"} /\ session.clock = "closed"
  /\ session' = SetFlag([session EXCEPT !.clock = "running"], "green")
  /\ car' = [c \in Car |-> IF session.phase = "practice" \/ car[c].eligible
                           THEN [car[c] EXCEPT !.status = "onTrack"] ELSE car[c]]
  /\ UNCHANGED manual

\* applyRoomSettings
SwitchYellow(enabled) ==
  /\ session.phase = "lobby"
  /\ car' = IF enabled THEN car ELSE [c \in Car |-> [car[c] EXCEPT !.yellow = FALSE]]
  /\ session' = IF enabled THEN [session EXCEPT !.enabled = TRUE]
                ELSE Refresh([session EXCEPT !.enabled = FALSE], manual, car')
  /\ UNCHANGED manual

FlagsNext ==
  \/ \E c \in Car :
       \/ \E place \in {"fine", "danger", "pit"} : DriveOn(c, place)
       \/ DrivePaused(c) \/ LoseConnection(c) \/ Release(c) \/ ComeBack(c) \/ Join(c)
       \/ PressReady(c) \/ TakeFlag(c)
       \/ \E status \in {"didNotFinish", "disqualified"} : RetireCar(c, status)
       \/ Disqualify(c) \/ Reinstate(c)
  \/ \E zone \in Zone : Green({zone}) \/ Yellow(zone)
  \/ Green(Zone)
  \/ Red
  \/ \E phase \in Phase \ {"grid", "finished", "suspended"} : BeginSession(phase)
  \/ GoOn("countdown", "race") \/ GoOn("outLap", "formationLap")
  \/ ToGrid \/ TimeIsUp \/ LastLapIn \/ RaceIsOver \/ NextSession
  \/ \E enabled \in BOOLEAN : SwitchYellow(enabled)

FlagsSpec == FlagsInit /\ [][FlagsNext]_flagVars

-----------------------------------------------------------------------------
(* Properties *)

FlagsTypeOK ==
  /\ session \in [phase : Phase, before : Phase \ {"suspended"},
                  flag : {"green", "yellow", "red", "chequered"},
                  enabled : BOOLEAN, clock : {"running", "up", "closed"}, overwritten : BOOLEAN]
  /\ manual \subseteq Zone
  /\ car \in [Car -> [yellow : BOOLEAN, status : Out \cup {"onTrack"}, eligible : BOOLEAN,
                      connected : BOOLEAN, present : BOOLEAN]]

\* The flag agrees with the zones on the map and with the session: yellow as
\* long as any zone stands and no longer, whoever recovers, retires, is
\* disconnected or kicked; red as long as the session is suspended.  The starts
\* of sessions that write "green" over standing zones (race-core.ts:1370, 1413,
\* 1667, 3080, 3128, 3142, 3166) are excepted until the next look at the zones.
FlagShowsTheTrack ==
  /\ session.flag = "red" <=> session.phase = "suspended"
  /\ ~session.overwritten /\ session.flag \in {"green", "yellow"}
       => (session.flag = "yellow" <=> Zones(manual, car) # {})

\* The session that runs, or that a red flag has stopped
Underway == IF session.phase = "suspended" THEN session.before ELSE session.phase

\* No automatic yellow without a car that can end it: its driver has a seat, is
\* connected and not eliminated from the qualifying that goes on, and the
\* automatic yellow is switched on (disconnect, disconnectAndReleaseClient,
\* eliminateFromCurrentQualifyingSession, applyRoomSettings).
AutomaticYellowHasACar ==
  \A c \in Car : car[c].yellow =>
    /\ car[c].present /\ car[c].connected /\ session.enabled
    /\ Underway = "qualifying" => car[c].eligible

=============================================================================
