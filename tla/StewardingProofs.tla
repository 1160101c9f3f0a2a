-------------------------- MODULE StewardingProofs --------------------------
(***************************************************************************)
(* What holds of stewarding for any drivers, cars, clients and bounds: of  *)
(* the flags of YellowFlags, the rules of TrackRules and the               *)
(* investigations of Collisions, each by an inductive invariant of its     *)
(* own.  That of Penalties is in PenaltiesProofs; MCStewarding puts the    *)
(* four side by side.                                                      *)
(***************************************************************************)
EXTENDS MCStewarding, PenaltiesProofs, SequenceTheorems, WellFoundedInduction, TLAPS

-----------------------------------------------------------------------------
(* The flags                                                               *)

\* What a message, a departure or a close makes of the session and the cars is
\* again a session and the cars.
SessionType == [phase : Phase, before : Phase \ {"suspended"},
                flag : {"green", "yellow", "red", "chequered"},
                enabled : BOOLEAN, clock : {"running", "up", "closed"}, overwritten : BOOLEAN]
CarType == [yellow : BOOLEAN, status : Out \cup {"onTrack"}, eligible : BOOLEAN,
            connected : BOOLEAN, present : BOOLEAN]

\* A session whose flag is red exactly when it is suspended.
RedIsSuspended(s) == s.flag = "red" <=> s.phase = "suspended"

\* A session whose flag shows the zones of control and of these cars.
Shows(s, m, cs) ==
  ~s.overwritten /\ s.flag \in {"green", "yellow"} => (s.flag = "yellow" <=> Zones(m, cs) # {})

\* The session that runs or has been stopped.
StageOf(s) == IF s.phase = "suspended" THEN s.before ELSE s.phase

\* A car that is in danger can end it.
Ends(s, k) ==
  k.yellow => /\ k.present /\ k.connected /\ s.enabled
              /\ StageOf(s) = "qualifying" => k.eligible

\* What the zones, and those who could end them, can tell of a car.
Seen(k, l) ==
  /\ k.yellow = l.yellow /\ k.present = l.present /\ k.eligible = l.eligible
  /\ l.connected => k.connected

\* refreshYellowFlag returns a session, and changes no more than the flag.
LEMMA RefreshIsASession ==
  ASSUME NEW s \in SessionType, NEW m, NEW cs
  PROVE  /\ Refresh(s, m, cs) \in SessionType
         /\ Refresh(s, m, cs).phase = s.phase
         /\ Refresh(s, m, cs).before = s.before
         /\ Refresh(s, m, cs).enabled = s.enabled
         /\ Refresh(s, m, cs).flag = "red" <=> s.flag = "red"
         /\ Refresh(s, m, cs).flag = "chequered" <=> s.flag = "chequered"
BY DEF Refresh, SessionType

\* After refreshYellowFlag the flag shows the zones.
LEMMA RefreshShows ==
  ASSUME NEW s \in SessionType, NEW m, NEW cs
  PROVE  Shows(Refresh(s, m, cs), m, cs)
BY DEF Refresh, Shows, SessionType

\* Being ready again changes a status at most.
LEMMA ReadyCars ==
  ASSUME NEW cs \in [Car -> CarType]
  PROVE  /\ Ready(cs) \in [Car -> CarType]
         /\ \A c \in Car : Seen(Ready(cs)[c], cs[c])
BY DEF Ready, CarType, Out, Seen

\* The eliminated have no yellow, and the others are as they were.
LEMMA EliminatedCars ==
  ASSUME NEW cs \in [Car -> CarType], NEW es \in Eliminated(cs)
  PROVE  /\ es \in [Car -> CarType]
         /\ \A c \in Car : ~es[c].yellow \/ es[c] = cs[c]
<1>1. PICK out \in SUBSET Car :
        es = [c \in Car |->
                IF c \in out
                THEN [cs[c] EXCEPT !.yellow = FALSE, !.status = "onTrack", !.eligible = FALSE]
                ELSE cs[c]]
  BY DEF Eliminated
<1> QED
  BY <1>1 DEF CarType, Out

\* Closing a practice or qualifying leaves no zone unseen: its flag stands with
\* all the zones, or is to be looked at again.
LEMMA ClosedSession ==
  ASSUME NEW s \in SessionType, NEW cs \in [Car -> CarType], NEW w \in Closed(s, cs),
         RedIsSuspended(s), \A c \in Car : Ends(s, cs[c])
  PROVE  /\ w.s \in SessionType /\ w.cs \in [Car -> CarType]
         /\ RedIsSuspended(w.s) /\ w.s.enabled = s.enabled
         /\ \A c \in Car : Ends(w.s, w.cs[c])
         /\ \/ w.s.overwritten
            \/ /\ w.s.flag = s.flag /\ w.s.overwritten = s.overwritten
               /\ \A c \in Car : Seen(w.cs[c], cs[c])
<1> DEFINE quiet == [s EXCEPT !.clock = "closed"]
           toGrid == SetFlag([s EXCEPT !.phase = "grid", !.clock = "running"], "green")
<1> HIDE DEF quiet, toGrid
<1>1. \/ s.phase = "practice" /\ w = [s |-> quiet, cs |-> Ready(cs)]
      \/ /\ s.phase = "qualifying"
         /\ \E es \in Eliminated(cs) : w = [s |-> SetFlag(quiet, "green"), cs |-> Ready(es)]
      \/ s.phase = "qualifying" /\ w = [s |-> toGrid, cs |-> Ready(cs)]
  <2>1. CASE s.phase = "practice"
    BY <2>1 DEF quiet, Closed
  <2>2. CASE s.phase = "qualifying"
    BY <2>2 DEF quiet, toGrid, Closed
  <2> QED
    BY <2>1, <2>2 DEF Closed
<1>2. /\ quiet \in SessionType /\ quiet.phase = s.phase /\ quiet.enabled = s.enabled
      /\ quiet.before = s.before /\ quiet.flag = s.flag /\ quiet.overwritten = s.overwritten
  BY DEF quiet, SessionType
<1>3. CASE s.phase = "practice" /\ w = [s |-> quiet, cs |-> Ready(cs)]
  <2>1. w.s = quiet /\ w.cs = Ready(cs)
    BY <1>3
  <2>2. RedIsSuspended(quiet) /\ \A c \in Car : Ends(quiet, Ready(cs)[c])
    BY <1>2, ReadyCars DEF RedIsSuspended, Ends, StageOf, Seen
  <2> QED
    BY <1>2, <2>1, <2>2, ReadyCars
<1>4. ASSUME s.phase = "qualifying",
             NEW es \in Eliminated(cs), w = [s |-> SetFlag(quiet, "green"), cs |-> Ready(es)]
      PROVE  /\ w.s \in SessionType /\ w.cs \in [Car -> CarType]
             /\ RedIsSuspended(w.s) /\ w.s.enabled = s.enabled
             /\ \A c \in Car : Ends(w.s, w.cs[c])
             /\ w.s.overwritten
  <2>1. /\ w.s \in SessionType /\ w.s.phase = "qualifying" /\ w.s.flag = "green"
        /\ w.s.enabled = s.enabled /\ w.s.overwritten
    BY <1>2, <1>4 DEF SetFlag, SessionType
  <2>2. es \in [Car -> CarType] /\ \A c \in Car : ~es[c].yellow \/ es[c] = cs[c]
    BY EliminatedCars
  <2>3. w.cs \in [Car -> CarType] /\ \A c \in Car : Seen(w.cs[c], es[c])
    BY <1>4, <2>2, ReadyCars
  <2>4. \A c \in Car : Ends(w.s, w.cs[c])
    BY <1>4, <2>1, <2>2, <2>3 DEF Ends, StageOf, Seen
  <2> QED
    BY <2>1, <2>3, <2>4 DEF RedIsSuspended
<1>5. CASE s.phase = "qualifying" /\ w = [s |-> toGrid, cs |-> Ready(cs)]
  <2>1. /\ w.s \in SessionType /\ w.s.phase = "grid" /\ w.s.flag = "green"
        /\ w.s.enabled = s.enabled /\ w.s.overwritten /\ w.cs = Ready(cs)
    BY <1>5 DEF toGrid, SetFlag, SessionType, Phase, Running
  <2>2. \A c \in Car : Ends(w.s, w.cs[c])
    BY <2>1, ReadyCars DEF Ends, StageOf, Seen
  <2> QED
    BY <2>1, <2>2, ReadyCars DEF RedIsSuspended
<1> QED
  BY <1>1, <1>3, <1>4, <1>5

\* A race that ends keeps its chequered flag.
LEMMA EndedSession ==
  ASSUME NEW s \in SessionType, NEW r \in Ended(s)
  PROVE  /\ r \in SessionType /\ r.flag = "chequered" /\ r.phase = "finished"
         /\ s.phase = "race" /\ r.enabled = s.enabled
BY DEF Ended, SessionType, Phase, Running

-----------------------------------------------------------------------------
(* The inductive invariant, and that every step keeps it *)

FlagsInv ==
  /\ session \in SessionType /\ manual \subseteq Zone /\ car \in [Car -> CarType]
  /\ RedIsSuspended(session)
  /\ Shows(session, manual, car)
  /\ \A c \in Car : Ends(session, car[c])

\* Whatever a lost driver leaves behind, the session sees to it: what Gone makes
\* of cars each of which can end its danger.
LEMMA GoneKeepsFlags ==
  ASSUME FlagsInv, NEW cs \in [Car -> CarType], Gone(cs), UNCHANGED manual,
         \A c \in Car : Ends(session, cs[c])
  PROVE  FlagsInv'
<1>1. PICK w \in {[s |-> session, cs |-> cs]} \cup Closed(session, cs) :
        LET s == Refresh(w.s, manual, w.cs)
        IN  car' = w.cs /\ session' \in {s} \cup Ended(s)
  BY DEF Gone
<1>2. /\ w.s \in SessionType /\ w.cs \in [Car -> CarType]
      /\ RedIsSuspended(w.s)
      /\ \A c \in Car : Ends(w.s, w.cs[c])
  <2>1. CASE w = [s |-> session, cs |-> cs]
    BY <2>1 DEF FlagsInv
  <2>2. CASE w \in Closed(session, cs)
    BY <2>2, ClosedSession DEF FlagsInv
  <2> QED
    BY <2>1, <2>2
<1> DEFINE s == Refresh(w.s, manual, w.cs)
<1>3. s \in SessionType /\ s.phase = w.s.phase /\ s.before = w.s.before
      /\ s.enabled = w.s.enabled /\ (s.flag = "red" <=> w.s.flag = "red")
  BY <1>2, RefreshIsASession
<1>4. Shows(s, manual, w.cs)
  BY <1>2, RefreshShows
<1>5. \A c \in Car : Ends(s, w.cs[c])
  BY <1>2, <1>3 DEF Ends, StageOf
<1>6. car' = w.cs /\ manual' = manual /\ (session' = s \/ session' \in Ended(s))
  BY <1>1
<1> HIDE DEF s
<1>7. CASE session' = s
  BY <1>2, <1>3, <1>4, <1>5, <1>6, <1>7 DEF FlagsInv, RedIsSuspended
<1>8. CASE session' \in Ended(s)
  <2>1. /\ session' \in SessionType /\ session'.flag = "chequered"
        /\ session'.phase = "finished" /\ session'.enabled = s.enabled
    BY <1>3, <1>8, EndedSession
  <2> QED
    BY <1>2, <1>5, <1>6, <2>1 DEF FlagsInv, RedIsSuspended, Shows, Ends, StageOf
<1> QED
  BY <1>6, <1>7, <1>8

\* refreshYellowFlag after a change of zones or cars that leaves the phase alone.
LEMMA RefreshedKeepsFlags ==
  ASSUME NEW s \in SessionType, RedIsSuspended(s),
         session' = Refresh(s, manual', car'),
         manual' \subseteq Zone, car' \in [Car -> CarType],
         \A c \in Car : Ends(s, car'[c])
  PROVE  FlagsInv'
<1>1. /\ session' \in SessionType /\ session'.phase = s.phase /\ session'.before = s.before
      /\ session'.enabled = s.enabled /\ (session'.flag = "red" <=> s.flag = "red")
  BY RefreshIsASession
<1>2. Shows(session', manual', car')
  BY RefreshShows
<1> QED
  BY <1>1, <1>2 DEF FlagsInv, RedIsSuspended, Ends, StageOf

\* What neither the zones nor the flag can see.
LEMMA UnseenKeepsFlags ==
  ASSUME FlagsInv, session' = session, manual' = manual, car' \in [Car -> CarType],
         \A c \in Car : Seen(car'[c], car[c])
  PROVE  FlagsInv'
<1>1. Zones(manual', car') = Zones(manual, car)
  BY DEF Zones, Seen
<1>2. Shows(session', manual', car')
  BY <1>1 DEF FlagsInv, Shows
<1>3. \A c \in Car : Ends(session', car'[c])
  BY DEF FlagsInv, Ends, Seen
<1> QED
  BY <1>2, <1>3 DEF FlagsInv, RedIsSuspended

\* A session whose flag is not that of the zones, or stands with them.
LEMMA UncheckedKeepsFlags ==
  ASSUME FlagsInv, session' \in SessionType, RedIsSuspended(session'),
         \/ session'.overwritten
         \/ session'.flag \in {"red", "chequered"}
         \/ /\ session'.flag = session.flag /\ session'.overwritten = session.overwritten
            /\ \A c \in Car : Seen(car'[c], car[c])
         , UNCHANGED manual, car' \in [Car -> CarType],
         \A c \in Car : Ends(session', car'[c])
  PROVE  FlagsInv'
<1>1. CASE session'.overwritten \/ session'.flag \in {"red", "chequered"}
  BY <1>1 DEF FlagsInv, Shows
<1>2. CASE /\ session'.flag = session.flag /\ session'.overwritten = session.overwritten
           /\ \A c \in Car : Seen(car'[c], car[c])
  <2>1. Zones(manual', car') = Zones(manual, car)
    BY <1>2 DEF Zones, Seen
  <2> QED
    BY <1>2, <2>1 DEF FlagsInv, Shows
<1> QED
  BY <1>1, <1>2

\* The lobby before anybody drives.
LEMMA FlagsInitially == FlagsInit => FlagsInv
<1> SUFFICES ASSUME FlagsInit PROVE FlagsInv
  OBVIOUS
<1>1. Zones(manual, car) = {}
  BY DEF FlagsInit, NewCar, Zones
<1>2. /\ session \in SessionType /\ car \in [Car -> CarType] /\ manual \subseteq Zone
      /\ RedIsSuspended(session) /\ \A c \in Car : Ends(session, car[c])
  BY DEF FlagsInit, NewCar, SessionType, CarType, Phase, Running, RedIsSuspended, Ends
<1> QED
  BY <1>1, <1>2 DEF FlagsInv, Shows, FlagsInit

\* Everything a driver sends, and a driver who drops out, leaves or comes back.
LEMMA DriversKeepFlags ==
  ASSUME FlagsInv, NEW c \in Car,
         \/ \E place \in {"fine", "danger", "pit"} : DriveOn(c, place)
         \/ DrivePaused(c) \/ LoseConnection(c) \/ Release(c) \/ ComeBack(c) \/ Join(c)
         \/ PressReady(c) \/ TakeFlag(c)
         \/ \E status \in {"didNotFinish", "disqualified"} : RetireCar(c, status)
         \/ Disqualify(c) \/ Reinstate(c)
  PROVE  FlagsInv'
<1> USE DEF FlagsInv
<1>1. CASE \E place \in {"fine", "danger", "pit"} : DriveOn(c, place)
  <2>0. PICK place \in {"fine", "danger", "pit"} : DriveOn(c, place)
    BY <1>1
  <2>1. PICK yellow \in InDanger(c, place) :
          /\ car[c].present
          /\ car' = [car EXCEPT ![c].yellow = yellow, ![c].connected = TRUE]
          /\ session' = Refresh(session, manual, car') /\ UNCHANGED manual
    BY <2>0 DEF DriveOn
  <2>2. /\ yellow \in BOOLEAN /\ (yellow => session.enabled)
        /\ yellow /\ session.phase = "qualifying" => car[c].eligible
        /\ yellow => session.phase # "suspended"
    <3>1. car[c].yellow \in BOOLEAN
      BY DEF CarType
    <3> QED
      BY <2>1, <3>1 DEF InDanger, Watched, Running
  <2>3. car' \in [Car -> CarType] /\ \A d \in Car : Ends(session, car'[d])
    BY <2>1, <2>2 DEF CarType, Ends, StageOf
  <2> QED
    BY <2>1, <2>3, RefreshedKeepsFlags
<1>2. CASE DrivePaused(c)
  BY <1>2, UnseenKeepsFlags DEF DrivePaused, CarType, Seen
<1>3. CASE LoseConnection(c)
  <2> DEFINE cs == [car EXCEPT ![c].connected = FALSE, ![c].yellow = FALSE]
  <2>1. cs \in [Car -> CarType] /\ \A d \in Car : Ends(session, cs[d])
    BY DEF CarType, Ends
  <2> QED
    BY <1>3, <2>1, GoneKeepsFlags DEF LoseConnection
<1>4. CASE Release(c)
  <2> DEFINE cs == [car EXCEPT ![c].present = FALSE, ![c].connected = FALSE, ![c].yellow = FALSE]
  <2>1. cs \in [Car -> CarType] /\ \A d \in Car : Ends(session, cs[d])
    <3>1. cs = [car EXCEPT ![c] = [@ EXCEPT !.present = FALSE, !.connected = FALSE,
                                            !.yellow = FALSE]]
      BY DEF CarType
    <3> HIDE DEF cs
    <3>2. cs \in [Car -> CarType] /\ ~cs[c].yellow /\ \A d \in Car : d # c => cs[d] = car[d]
      BY <3>1 DEF CarType
    <3> QED
      BY <3>2 DEF Ends
  <2> QED
    BY <1>4, <2>1, GoneKeepsFlags DEF Release
<1>5. CASE ComeBack(c)
  <2>1. PICK out \in BOOLEAN :
          car' = [car EXCEPT ![c].connected = TRUE,
                             ![c].status = IF out THEN "didNotFinish" ELSE "onTrack"]
    BY <1>5 DEF ComeBack
  <2>2. car' \in [Car -> CarType]
    BY <2>1 DEF CarType, Out
  <2>3. \A d \in Car : Seen(car'[d], car[d])
    BY <2>1 DEF CarType, Seen
  <2>4. CASE session' = session
    BY <1>5, <2>2, <2>3, <2>4, UnseenKeepsFlags DEF ComeBack
  <2>5. CASE session' \in Ended(session)
    <3>1. /\ session' \in SessionType /\ session'.flag = "chequered"
          /\ session'.phase = "finished" /\ session'.enabled = session.enabled
      BY <2>5, EndedSession
    <3>2. \A d \in Car : Ends(session', car'[d])
      BY <2>3, <3>1 DEF Ends, StageOf, Seen
    <3>3. manual' \subseteq Zone
      BY <1>5 DEF ComeBack
    <3>4. RedIsSuspended(session') /\ Shows(session', manual', car')
      BY <3>1 DEF RedIsSuspended, Shows
    <3> QED
      BY <2>2, <3>1, <3>2, <3>3, <3>4, Zenon
  <2> QED
    BY <1>5, <2>4, <2>5 DEF ComeBack
<1>6. CASE TakeFlag(c)
  <2> DEFINE leads == session.flag # "chequered"
             s == [session EXCEPT !.flag = "chequered"]
  <2>1. s \in SessionType /\ RedIsSuspended(s) /\ s.enabled = session.enabled
    BY <1>6 DEF TakeFlag, SessionType, RedIsSuspended
  <2>2. session' = s \/ session' \in Ended(s)
    BY <1>6 DEF TakeFlag
  <2>3. s.flag = "chequered"
    BY DEF SessionType
  <2> HIDE DEF s
  <2>4. /\ session' \in SessionType /\ RedIsSuspended(session')
        /\ session'.enabled = session.enabled /\ session'.flag = "chequered"
        /\ session'.phase \in {"race", "finished"}
    BY <1>6, <2>1, <2>2, <2>3, EndedSession, ZenonT(60)
       DEF RedIsSuspended, TakeFlag, s, SessionType
  <2>5. /\ manual' \in {{}, manual}
        /\ car' = [d \in Car |-> [car[d] EXCEPT !.yellow = IF leads THEN FALSE ELSE @,
                                              !.status = IF d = c THEN "finished" ELSE @]]
    BY <1>6 DEF TakeFlag
  <2>6. car' \in [Car -> CarType]
        /\ \A d \in Car : /\ car'[d].yellow => car[d].yellow
                          /\ car'[d].present = car[d].present
                          /\ car'[d].connected = car[d].connected
    BY <2>5 DEF CarType, Out
  <2>7. manual' \subseteq Zone
    BY <2>5
  <2>8. Shows(session', manual', car')
    BY <2>4 DEF Shows
  <2>9. StageOf(session') # "qualifying"
    BY <2>4 DEF StageOf
  <2>10. \A d \in Car : Ends(session', car'[d])
    BY <2>4, <2>6, <2>9 DEF Ends
  <2> QED
    BY <2>4, <2>6, <2>7, <2>8, <2>10, Zenon
<1>7. CASE \E status \in {"didNotFinish", "disqualified"} : RetireCar(c, status)
  <2>1. car' \in [Car -> CarType] /\ \A d \in Car : Ends(session, car'[d])
    BY <1>7 DEF RetireCar, CarType, Out, Ends
  <2> QED
    BY <1>7, <2>1, RefreshedKeepsFlags DEF RetireCar
<1>8. CASE Disqualify(c)
  BY <1>8, UnseenKeepsFlags DEF Disqualify, CarType, Out, Seen
<1>9. CASE Reinstate(c) \/ PressReady(c)
  BY <1>9, UnseenKeepsFlags DEF Reinstate, PressReady, CarType, Out, Seen
<1>10. CASE Join(c)
  <2>1. /\ ~car[c].present /\ car' = [car EXCEPT ![c] = NewCar]
        /\ session' = session /\ manual' = manual
    BY <1>10 DEF Join
  <2>2. car' \in [Car -> CarType] /\ \A d \in Car : Ends(session, car'[d])
    BY <2>1 DEF NewCar, CarType, Out, Ends
  <2>3. Zones(manual', car') = Zones(manual, car)
    BY <2>1 DEF Zones, NewCar
  <2> QED
    BY <2>1, <2>2, <2>3 DEF RedIsSuspended, Shows, Ends, StageOf
<1> QED
  BY <1>1, <1>2, <1>3, <1>4, <1>5, <1>6, <1>7, <1>8, <1>9, <1>10

\* The flags, the marshals' zones and the switch of race control.
LEMMA ControlKeepsFlags ==
  ASSUME FlagsInv,
         \/ \E zone \in Zone : Green({zone}) \/ Yellow(zone)
         \/ Green(Zone)
         \/ Red
  PROVE  FlagsInv'
<1> USE DEF FlagsInv
<1>1. CASE \E zones \in SUBSET Zone : Green(zones)
  <2>1. PICK zones \in SUBSET Zone : Green(zones)
    BY <1>1
  <2> DEFINE s == IF session.phase = "suspended"
                  THEN [session EXCEPT !.phase = session.before, !.flag = "green"]
                  ELSE session
  <2>2. /\ s \in SessionType /\ RedIsSuspended(s) /\ s.enabled = session.enabled
        /\ StageOf(s) = StageOf(session)
    BY ZenonT(40) DEF SessionType, RedIsSuspended, Phase, Running, StageOf
  <2>3. session' = Refresh(s, manual', car') /\ manual' \subseteq Zone /\ car' = car
    BY <2>1 DEF Green
  <2> HIDE DEF s
  <2>4. \A d \in Car : Ends(s, car'[d])
    BY <2>2, <2>3 DEF Ends
  <2> QED
    BY <2>2, <2>3, <2>4, RefreshedKeepsFlags
<1>2. CASE \E zone \in Zone : Yellow(zone)
  BY <1>2, RefreshedKeepsFlags DEF Yellow
<1>3. CASE Red
  <2>1. /\ session' \in SessionType /\ RedIsSuspended(session')
        /\ session'.flag = "red" /\ session'.enabled = session.enabled
        /\ StageOf(session') = StageOf(session)
    BY <1>3 DEF Red, SessionType, RedIsSuspended, Phase, Running, StageOf
  <2>2. car' = car /\ \A d \in Car : Ends(session', car'[d])
    BY <1>3, <2>1 DEF Red, Ends
  <2> QED
    BY <1>3, <2>1, <2>2, UncheckedKeepsFlags DEF Red
<1> QED
  BY <1>1, <1>2, <1>3

\* Sessions that begin, start, end by time, laps or retirement, and the next one.
LEMMA SessionsKeepFlags ==
  ASSUME FlagsInv,
         \/ \E phase \in Phase \ {"grid", "finished", "suspended"} : BeginSession(phase)
         \/ GoOn("countdown", "race") \/ GoOn("outLap", "formationLap")
         \/ ToGrid \/ TimeIsUp \/ LastLapIn \/ RaceIsOver \/ NextSession
         \/ \E enabled \in BOOLEAN : SwitchYellow(enabled)
  PROVE  FlagsInv'
<1> USE DEF FlagsInv
<1>1. CASE \E phase \in Phase \ {"grid", "finished", "suspended"} : BeginSession(phase)
  <2>0. PICK phase \in Phase \ {"grid", "finished", "suspended"} : BeginSession(phase)
    BY <1>1
  <2>1. /\ session' \in SessionType /\ RedIsSuspended(session')
        /\ session'.flag = "green" /\ session'.enabled = session.enabled
    <3>1. session' = [session EXCEPT !.phase = phase, !.flag = "green", !.clock = "running",
                                     !.overwritten = FALSE]
      BY <2>0 DEF BeginSession
    <3> QED
      BY <3>1 DEF SessionType, RedIsSuspended
  <2>2. /\ car' \in [Car -> CarType] /\ manual' = {}
        /\ \A d \in Car : car'[d].yellow = FALSE
    <3>1. /\ manual' = {}
          /\ car' = [c \in Car |->
                       [car[c] EXCEPT !.yellow = FALSE, !.status = "onTrack",
                                      !.eligible = phase # "qualifying" \/ car[c].connected]]
      BY <2>0 DEF BeginSession, AllClear
    <3>2. \A c \in Car : (phase # "qualifying" \/ car[c].connected) \in BOOLEAN
      OBVIOUS
    <3> QED
      BY <3>1, <3>2 DEF CarType, Out
  <2>3. Zones(manual', car') = {}
    BY <2>2 DEF Zones
  <2> QED
    BY <2>1, <2>2, <2>3 DEF Shows, Ends
<1>2. CASE GoOn("countdown", "race") \/ GoOn("outLap", "formationLap") \/ ToGrid \/ NextSession
  <2>1. /\ session' \in SessionType /\ RedIsSuspended(session')
        /\ session'.overwritten /\ session'.enabled = session.enabled
        /\ StageOf(session') = "qualifying" => session.phase = "qualifying"
    <3>1. CASE GoOn("countdown", "race") \/ GoOn("outLap", "formationLap")
      BY <3>1 DEF GoOn, SetFlag, SessionType, RedIsSuspended, Phase, Running, StageOf
    <3>2. CASE ToGrid
      BY <3>2 DEF ToGrid, SetFlag, SessionType, RedIsSuspended, Phase, Running, StageOf
    <3>3. CASE NextSession
      BY <3>3 DEF NextSession, SetFlag, SessionType, RedIsSuspended, Phase, Running, StageOf
    <3> QED
      BY <1>2, <3>1, <3>2, <3>3
  <2>2. /\ car' \in [Car -> CarType] /\ manual' = manual
        /\ \A d \in Car : Seen(car'[d], car[d])
    <3>1. CASE GoOn("countdown", "race") \/ GoOn("outLap", "formationLap")
      BY <3>1 DEF GoOn, Seen
    <3>2. CASE ToGrid
      BY <3>2, ReadyCars DEF ToGrid
    <3>3. CASE NextSession
      BY <3>3 DEF NextSession, CarType, Out, Seen
    <3> QED
      BY <1>2, <3>1, <3>2, <3>3
  <2>3. \A d \in Car : Ends(session', car'[d])
    BY <2>1, <2>2 DEF Ends, Seen, StageOf
  <2> QED
    BY <2>1, <2>2, <2>3, UncheckedKeepsFlags
<1>3. CASE RaceIsOver
  <2>1. /\ session' \in SessionType /\ session'.flag = "chequered"
        /\ session'.phase = "finished" /\ session'.enabled = session.enabled
    BY <1>3, EndedSession DEF RaceIsOver
  <2>2. car' = car /\ \A d \in Car : Ends(session', car'[d])
    BY <1>3, <2>1 DEF RaceIsOver, Ends, StageOf
  <2> QED
    BY <1>3, <2>1, <2>2, UncheckedKeepsFlags DEF RaceIsOver, RedIsSuspended
<1>5. CASE LastLapIn
  <2>1. PICK w \in Closed(session, car) : session' = w.s /\ car' = w.cs
    BY <1>5 DEF LastLapIn
  <2>2. manual' = manual
    BY <1>5 DEF LastLapIn
  <2>3. /\ session' \in SessionType /\ car' \in [Car -> CarType]
        /\ RedIsSuspended(session')
        /\ \A c \in Car : Ends(session', car'[c])
        /\ \/ session'.overwritten
           \/ /\ session'.flag = session.flag /\ session'.overwritten = session.overwritten
              /\ \A c \in Car : Seen(car'[c], car[c])
    BY <2>1, ClosedSession
  <2> QED
    BY <2>2, <2>3, UncheckedKeepsFlags
<1>6. CASE TimeIsUp
  <2> DEFINE s == [session EXCEPT !.flag = "chequered", !.clock = "up"]
  <2>1. /\ s \in SessionType /\ RedIsSuspended(s) /\ s.flag = "chequered"
        /\ \A c \in Car : Ends(s, car[c])
    BY <1>6 DEF TimeIsUp, SessionType, RedIsSuspended, Ends, StageOf
  <2> HIDE DEF s
  <2>2. PICK w \in {[s |-> s, cs |-> car]} \cup Closed(s, car) : session' = w.s /\ car' = w.cs
    BY <1>6 DEF TimeIsUp, s
  <2>3. manual' = manual
    BY <1>6 DEF TimeIsUp
  <2>4. CASE w \in Closed(s, car)
    <3>1. /\ session' \in SessionType /\ car' \in [Car -> CarType]
          /\ RedIsSuspended(session')
          /\ \A c \in Car : Ends(session', car'[c])
          /\ session'.overwritten \/ session'.flag = "chequered"
      BY <2>1, <2>2, <2>4, ClosedSession
    <3> QED
      BY <2>3, <3>1, UncheckedKeepsFlags
  <2>5. CASE w = [s |-> s, cs |-> car]
    <3>1. session' = s /\ car' = car
      BY <2>2, <2>5
    <3> QED
      BY <2>1, <2>3, <3>1, UncheckedKeepsFlags
  <2> QED
    BY <2>2, <2>4, <2>5
<1>7. CASE \E enabled \in BOOLEAN : SwitchYellow(enabled)
  <2>1. PICK enabled \in BOOLEAN : SwitchYellow(enabled)
    BY <1>7
  <2>2. CASE enabled
    <3>1. /\ session' = [session EXCEPT !.enabled = TRUE] /\ car' = car /\ manual' = manual
      BY <2>1, <2>2 DEF SwitchYellow
    <3>2. /\ session' \in SessionType /\ session'.enabled
          /\ session'.phase = session.phase /\ session'.flag = session.flag
          /\ session'.before = session.before
          /\ session'.overwritten = session.overwritten
      BY <3>1 DEF SessionType
    <3> QED
      BY <3>1, <3>2 DEF RedIsSuspended, Shows, Ends, StageOf
  <2>3. CASE ~enabled
    <3> DEFINE s == [session EXCEPT !.enabled = FALSE]
    <3>1. s \in SessionType /\ RedIsSuspended(s)
      BY DEF SessionType, RedIsSuspended
    <3>2. session' = Refresh(s, manual', car') /\ manual' = manual
      BY <2>1, <2>3 DEF SwitchYellow
    <3>3. car' \in [Car -> CarType] /\ \A d \in Car : car'[d].yellow = FALSE
      BY <2>1, <2>3 DEF SwitchYellow, CarType
    <3> HIDE DEF s
    <3>4. \A d \in Car : Ends(s, car'[d])
      BY <3>3 DEF Ends
    <3> QED
      BY <3>1, <3>2, <3>3, <3>4, RefreshedKeepsFlags
  <2> QED
    BY <2>2, <2>3
<1> QED
  BY <1>1, <1>2, <1>3, <1>5, <1>6, <1>7

-----------------------------------------------------------------------------
(* The theorems *)

\* The flags always satisfy the inductive invariant.
THEOREM FlagsInvariant == FlagsSpec => []FlagsInv
<1>1. FlagsInit => FlagsInv
  BY FlagsInitially
<1>2. FlagsInv /\ [FlagsNext]_flagVars => FlagsInv'
  <2> SUFFICES ASSUME FlagsInv, [FlagsNext]_flagVars PROVE FlagsInv'
    OBVIOUS
  <2>1. CASE FlagsNext
    BY <2>1, DriversKeepFlags, ControlKeepsFlags, SessionsKeepFlags DEF FlagsNext
  <2>2. CASE UNCHANGED flagVars
    BY <2>2 DEF flagVars, FlagsInv, RedIsSuspended, Shows, Ends, StageOf, Zones
  <2> QED
    BY <2>1, <2>2
<1> QED
  BY <1>1, <1>2, PTL DEF FlagsSpec

\* Flags, phases, zones and cars keep to their types, for any set of cars.
THEOREM FlagsTypes == FlagsSpec => []FlagsTypeOK
<1>1. FlagsInv => FlagsTypeOK
  BY DEF FlagsInv, FlagsTypeOK, SessionType, CarType
<1> QED
  BY <1>1, FlagsInvariant, PTL

\* For any set of cars: the flag is red exactly while the session is suspended,
\* and yellow exactly while a zone stands, unless a session began over standing
\* zones and nobody has looked at them since (refreshYellowFlag).
THEOREM FlagsShowTheTrack == FlagsSpec => []FlagShowsTheTrack
<1>1. FlagsInv => FlagShowsTheTrack
  BY DEF FlagsInv, FlagShowsTheTrack, RedIsSuspended, Shows
<1> QED
  BY <1>1, FlagsInvariant, PTL

\* For any set of cars: no automatic yellow is left behind by a driver who has
\* gone or by switching it off (disconnect, disconnectAndReleaseClient,
\* applyRoomSettings).
THEOREM NoYellowLeftBehind == FlagsSpec => []AutomaticYellowHasACar
<1>1. FlagsInv => AutomaticYellowHasACar
  BY DEF FlagsInv, AutomaticYellowHasACar, Ends, StageOf, Underway
<1> QED
  BY <1>1, FlagsInvariant, PTL

-----------------------------------------------------------------------------
(* The rules of the track                                                  *)

StartType == [phase : {"lobby", "countdown", "race", "suspended"},
              before : {"lobby", "countdown", "race"}, sequence : BOOLEAN,
              lights : 0 .. Lights, mode : {"automatic", "warningsOnly", "disabled"}]
Runner == [inPit : BOOLEAN, status : {"onTrack", "disconnected", "out"},
           excursion : {"none", "wide", "rejoining"}, handled : BOOLEAN, warnings : Nat,
           over : BOOLEAN, speeding : BOOLEAN, cut : BOOLEAN, continuous : BOOLEAN,
           jumped : BOOLEAN]
Sanctions == [total : Nat, jumps : Nat, speedings : Nat, settled : BOOLEAN, again : BOOLEAN]

\* What the car remembers covers what was given to it: the penalty for the visit
\* and the cut corner of the excursion under way.
Covers(r, g) ==
  /\ r.warnings <= g.total
  /\ g.speedings <= 1 /\ (g.speedings = 1 /\ r.inPit => r.speeding)
  /\ g.settled => r.handled
  /\ ~g.again

\* A car and its sanctions, as one rule hands them to the next.
Ruled(w, m) ==
  /\ w \in [runner : Runner, given : Sanctions] /\ Covers(w.runner, w.given)
  /\ w.runner.inPit = (m.at = "pit")

RulesInv ==
  /\ start \in StartType /\ runner \in Runner /\ given \in Sanctions
  /\ Covers(runner, given) /\ given.total <= MaxSanction

\* A visit to the pit lane that begins has cost nothing yet.
LEMMA ArrivedRuled ==
  ASSUME RulesInv, NEW m \in Message
  PROVE  Ruled(Arrived(m), m)
<1>1. /\ Arrived(m).runner = [runner EXCEPT !.inPit = (m.at = "pit")]
      /\ Arrived(m).given = IF m.at = "pit" /\ ~runner.inPit THEN [given EXCEPT !.speedings = 0]
                            ELSE given
      /\ Arrived(m) = [runner |-> Arrived(m).runner, given |-> Arrived(m).given]
  BY DEF Arrived, With
<1>2. Arrived(m).runner \in Runner
  BY <1>1, Zenon DEF RulesInv, Runner
<1>3. Arrived(m).given \in Sanctions
  BY <1>1 DEF RulesInv, Sanctions
<1>4. Covers(Arrived(m).runner, Arrived(m).given) /\ Arrived(m).runner.inPit = (m.at = "pit")
  BY <1>1 DEF RulesInv, Covers, Runner, Sanctions
<1> QED
  BY <1>1, <1>2, <1>3, <1>4 DEF Ruled

\* Registering a cut corner is covered by the total.
LEMMA RegisterRuled ==
  ASSUME NEW m, NEW w, Ruled(w, m), NEW severe
  PROVE  Ruled(Register(w, severe), m)
<1> DEFINE warned(n) == [w EXCEPT !.runner.warnings = n, !.given.total = @ + 1]
<1>1. ASSUME NEW n \in Nat, n <= w.runner.warnings + 1
      PROVE  Ruled(warned(n), m)
  <2> DEFINE r == [w.runner EXCEPT !.warnings = n]
             g == [w.given EXCEPT !.total = @ + 1]
  <2>1. warned(n).runner = r
    BY Zenon DEF Ruled
  <2>2. warned(n).given = g
    BY Zenon DEF Ruled
  <2>3. w.runner \in Runner /\ w.given \in Sanctions
    BY DEF Ruled
  <2>4. r \in Runner
    BY <1>1, <2>3 DEF Runner
  <2>5. g \in Sanctions
    BY <1>1, <2>3 DEF Sanctions
  <2>6. r \in Runner /\ g \in Sanctions
    BY <2>4, <2>5
  <2>7. warned(n) \in [runner : Runner, given : Sanctions]
    BY <2>6, Zenon DEF Ruled
  <2>8. Covers(r, g) /\ r.inPit = (m.at = "pit")
    BY <1>1 DEF Ruled, Covers, Runner, Sanctions
  <2> HIDE DEF r, g
  <2> QED
    BY <2>1, <2>2, <2>7, <2>8 DEF Ruled
<1>2. w.runner.warnings \in Nat
  BY DEF Ruled, Runner
<1>3. Register(w, severe) \in {w, warned(0), warned(w.runner.warnings + 1)}
  BY DEF Register, Sanction, Ruled
<1>4. Ruled(warned(0), m) /\ Ruled(warned(w.runner.warnings + 1), m)
  <2> HIDE DEF warned
  <2> QED
    BY <1>1, <1>2
<1> QED
  BY <1>3, <1>4

\* A cut that settles an excursion is remembered.
LEMMA ShortcutRuled ==
  ASSUME NEW m \in Message, NEW w, Ruled(w, m)
  PROVE  Ruled(Shortcut(w, m), m)
<1> DEFINE v == [w EXCEPT !.runner.continuous = TRUE]
           p == [v EXCEPT !.runner.handled = @ \/ Excursion(w),
                          !.given.settled = @ \/ Excursion(w)]
           l == [v EXCEPT !.runner.cut = TRUE, !.runner.handled = TRUE,
                          !.given.settled = @ \/ Excursion(w)]
<1>0. Excursion(w) \in BOOLEAN
  BY DEF Excursion
<1>1. Ruled(v, m)
  BY DEF Ruled, Covers, Runner, Sanctions
<1>2. Ruled(p, m)
  BY <1>0 DEF Ruled, Covers, Runner, Sanctions
<1>3. Ruled(l, m)
  <2> DEFINE r == [w.runner EXCEPT !.continuous = TRUE, !.cut = TRUE, !.handled = TRUE]
             g == [w.given EXCEPT !.settled = @ \/ Excursion(w)]
  <2>1. l.runner = r
    BY Zenon DEF Ruled
  <2>2. l.given = g
    BY Zenon DEF Ruled
  <2>3. w.runner \in Runner /\ w.given \in Sanctions
    BY DEF Ruled
  <2>4. r \in Runner
    BY <1>0, <2>3 DEF Runner
  <2>5. g \in Sanctions
    BY <1>0, <2>3 DEF Sanctions
  <2>6. r \in Runner /\ g \in Sanctions
    BY <2>4, <2>5
  <2>7. l \in [runner : Runner, given : Sanctions]
    BY <2>6, Zenon DEF Ruled
  <2>8. Covers(r, g) /\ r.inPit = (m.at = "pit")
    BY <1>0 DEF Ruled, Covers, Runner, Sanctions
  <2> HIDE DEF r, g
  <2> QED
    BY <2>1, <2>2, <2>7, <2>8 DEF Ruled
<1>4. Shortcut(w, m) \in {v, Register(p, m.proof = "severe"), Register(l, TRUE)}
  BY DEF Shortcut
<1>5. Ruled(Register(p, m.proof = "severe"), m) /\ Ruled(Register(l, TRUE), m)
  <2> HIDE DEF p, l
  <2> QED
    BY <1>2, <1>3, RegisterRuled
<1> HIDE DEF v, p, l
<1> QED
  BY <1>1, <1>4, <1>5

\* A car back on its place is ruled as before.
LEMMA PlacedRuled ==
  ASSUME NEW m, NEW w, Ruled(w, m)
  PROVE  Ruled(Placed(w), m)
BY DEF Placed, Ruled, Covers, Runner, Sanctions

\* A penalty for a false start leaves the rest as it was.
LEMMA FalseStartRuled ==
  ASSUME NEW m, NEW w, Ruled(w, m)
  PROVE  Ruled(FalseStart(w, m), m)
<1> DEFINE x == [w EXCEPT !.runner.jumped = TRUE, !.given.total = @ + 1, !.given.jumps = @ + 1]
<1>1. FalseStart(w, m) = w \/ (~w.runner.jumped /\ FalseStart(w, m) = x)
  <2> HIDE DEF x
  <2>1. FalseStart(w, m) =
          IF /\ start.phase = "countdown" /\ start.sequence
             /\ ~w.runner.jumped /\ ~w.runner.inPit /\ w.runner.status = "onTrack"
             /\ m.fast /\ m.long
          THEN x ELSE w
    BY Zenon DEF FalseStart, Sanction, x
  <2> QED
    BY <2>1
<1>2. ASSUME ~w.runner.jumped
      PROVE  Ruled(x, m)
  <2> DEFINE r == [w.runner EXCEPT !.jumped = TRUE]
             g == [w.given EXCEPT !.total = @ + 1, !.jumps = @ + 1]
  <2>1. x.runner = r
    BY Zenon DEF Ruled
  <2>2. x.given = g
    BY Zenon DEF Ruled
  <2>3. w.runner \in Runner /\ w.given \in Sanctions
    BY DEF Ruled
  <2>4. r \in Runner
    BY <1>2, <2>3 DEF Runner
  <2>5. g \in Sanctions
    <3>1. PICK t, n : t = w.given.total + 1 /\ n = w.given.jumps + 1 /\ t \in Nat /\ n \in Nat
      BY <2>3 DEF Sanctions
    <3> QED
      BY <2>3, <3>1, Zenon DEF Sanctions
  <2>6. r \in Runner /\ g \in Sanctions
    BY <2>4, <2>5
  <2>7. x \in [runner : Runner, given : Sanctions]
    BY <2>6, Zenon DEF Ruled
  <2>8. Covers(r, g) /\ r.inPit = (m.at = "pit")
    BY <1>2 DEF Ruled, Covers, Runner, Sanctions
  <2> HIDE DEF r, g
  <2> QED
    BY <2>1, <2>2, <2>7, <2>8 DEF Ruled
<1> QED
  BY <1>1, <1>2

\* An excursion that ends takes what settled it along.
LEMMA BackOnTrackRuled ==
  ASSUME NEW m, NEW w, Ruled(w, m)
  PROVE  Ruled(BackOnTrack(w), m)
BY DEF BackOnTrack, Ruled, Covers, Runner, Sanctions

\* Coming back with a gain costs only what no cut has settled.
LEMMA TrackLimitsRuled ==
  ASSUME NEW m, NEW w, Ruled(w, m)
  PROVE  Ruled(TrackLimits(w, m), m)
<1> DEFINE b == BackOnTrack(w)
           o(e) == [w EXCEPT !.runner.excursion = e]
           a == [BackOnTrack(w) EXCEPT !.given.again = @ \/ w.given.settled]
<1>1. Ruled(b, m)
  BY BackOnTrackRuled
<1>2. \A e \in {"wide", "rejoining"} : Ruled(o(e), m)
  BY DEF Ruled, Covers, Runner, Sanctions
<1>3. ~w.runner.handled => Ruled(a, m)
  BY <1>1 DEF Ruled, Covers, Runner, Sanctions
<1>4. \/ TrackLimits(w, m) \in {b, w, o("wide"), o("rejoining")}
      \/ ~w.runner.handled /\ TrackLimits(w, m) = Register(a, m.gain = "severe")
  BY DEF TrackLimits
<1> QED
  BY <1>1, <1>2, <1>3, <1>4, RegisterRuled

\* The visit that is penalised is remembered until the car has left.
LEMMA PitSpeedRuled ==
  ASSUME NEW m, NEW w, Ruled(w, m)
  PROVE  Ruled(PitSpeed(w, m), m)
<1> DEFINE out == [w EXCEPT !.runner.over = FALSE, !.runner.speeding = @ /\ m.at = "pit"]
           slow == [w EXCEPT !.runner.over = FALSE]
           fast == [w EXCEPT !.runner.over = TRUE]
           told == [w EXCEPT !.runner.speeding = TRUE, !.given.total = @ + 1,
                             !.given.speedings = @ + 1]
<1>1. \/ PitSpeed(w, m) \in {w, out, slow, fast}
      \/ ~w.runner.speeding /\ m.at = "pit" /\ PitSpeed(w, m) = told
  <2> HIDE DEF out, slow, fast, told
  <2>1. PitSpeed(w, m) =
          IF m.at # "pit" \/ start.phase # "race" \/ w.runner.status # "onTrack" THEN out
          ELSE IF ~m.fast THEN slow
          ELSE IF w.runner.speeding THEN w
          ELSE IF ~(w.runner.over /\ m.long) THEN fast ELSE told
    BY Zenon DEF PitSpeed, Sanction, out, slow, fast, told
  <2> QED
    BY <2>1
<1>2. Ruled(slow, m) /\ Ruled(fast, m)
  BY DEF Ruled, Covers, Runner, Sanctions
<1>3. Ruled(out, m)
  <2> DEFINE r == [w.runner EXCEPT !.over = FALSE, !.speeding = @ /\ m.at = "pit"]
             g == w.given
  <2>1. out.runner = r
    BY Zenon DEF Ruled
  <2>2. out.given = g
    BY Zenon DEF Ruled
  <2>3. w.runner \in Runner /\ w.given \in Sanctions
    BY DEF Ruled
  <2>4. r \in Runner
    BY <2>3 DEF Runner
  <2>5. g \in Sanctions
    BY <2>3 DEF Sanctions
  <2>6. r \in Runner /\ g \in Sanctions
    BY <2>4, <2>5
  <2>7. out \in [runner : Runner, given : Sanctions]
    BY <2>6, Zenon DEF Ruled
  <2>8. Covers(r, g) /\ r.inPit = (m.at = "pit")
    BY DEF Ruled, Covers, Runner, Sanctions
  <2> HIDE DEF r, g
  <2> QED
    BY <2>1, <2>2, <2>7, <2>8 DEF Ruled
<1>4. ASSUME ~w.runner.speeding, m.at = "pit"
      PROVE  Ruled(told, m)
  <2> DEFINE r == [w.runner EXCEPT !.speeding = TRUE]
             g == [w.given EXCEPT !.total = @ + 1, !.speedings = @ + 1]
  <2>1. told.runner = r
    BY Zenon DEF Ruled
  <2>2. told.given = g
    BY Zenon DEF Ruled
  <2>3. w.runner \in Runner /\ w.given \in Sanctions
    BY DEF Ruled
  <2>4. r \in Runner
    BY <1>4, <2>3 DEF Runner
  <2>5. g \in Sanctions
    <3>1. PICK t, n : /\ t = w.given.total + 1 /\ n = w.given.speedings + 1
                      /\ t \in Nat /\ n \in Nat
      BY <2>3 DEF Sanctions
    <3> QED
      BY <2>3, <3>1, Zenon DEF Sanctions
  <2>6. r \in Runner /\ g \in Sanctions
    BY <2>4, <2>5
  <2>7. told \in [runner : Runner, given : Sanctions]
    BY <2>6, Zenon DEF Ruled
  <2>8. Covers(r, g) /\ r.inPit = (m.at = "pit")
    BY <1>4 DEF Ruled, Covers, Runner, Sanctions
  <2> HIDE DEF r, g
  <2> QED
    BY <2>1, <2>2, <2>7, <2>8 DEF Ruled
<1> QED
  BY <1>1, <1>2, <1>3, <1>4

\* A message goes through the rules one after the other.
LEMMA ObserveKeepsRules ==
  ASSUME RulesInv, NEW m \in Message, Observe(m) \/ ObservePaused(m)
  PROVE  RulesInv'
<1>1. CASE Observe(m)
  <2>1. PICK w :
           /\ w = PitSpeed(TrackLimits(FalseStart(Placed(Shortcut(Arrived(m), m)), m), m), m)
           /\ w.given.total <= MaxSanction /\ runner' = w.runner /\ given' = w.given
           /\ start' = start
    BY <1>1 DEF Observe
  <2>2. Ruled(w, m)
    BY <2>1, ArrivedRuled, ShortcutRuled, PlacedRuled, FalseStartRuled, TrackLimitsRuled,
       PitSpeedRuled
  <2> QED
    BY <2>1, <2>2 DEF RulesInv, Ruled
<1>2. CASE ObservePaused(m)
  <2>1. Ruled(Arrived(m), m) /\ Arrived(m).given.total = given.total
    BY ArrivedRuled DEF Arrived, With, RulesInv, Sanctions
  <2>2. /\ runner' = [Arrived(m).runner EXCEPT !.continuous = FALSE]
        /\ given' = Arrived(m).given /\ start' = start
    BY <1>2 DEF ObservePaused
  <2> QED
    BY <2>1, <2>2 DEF RulesInv, Ruled, Covers, Runner
<1> QED
  BY <1>1, <1>2

\* A phase entered anew.
LEMMA PhaseEntered ==
  ASSUME start \in StartType, NEW phase \in {"lobby", "countdown", "race"}
  PROVE  [start EXCEPT !.phase = phase, !.sequence = FALSE, !.lights = 0] \in StartType
<1>1. PICK lights : lights = 0 .. Lights /\ 0 \in lights
  BY RulesAssumption
<1> QED
  BY <1>1, Zenon DEF StartType

\* The car stands in the lobby with nothing to its name.
LEMMA RulesInvInit == RulesInit => RulesInv
BY RulesAssumption DEF RulesInit, RulesInv, StartType, Runner, Sanctions, Covers

\* A car that is reset has nothing to its name but the total.
LEMMA FreshCar ==
  ASSUME RulesInv
  PROVE  /\ Fresh(runner) \in Runner /\ NewStart \in Sanctions
         /\ Covers(Fresh(runner), NewStart)
         /\ NewStart.total = given.total /\ NewStart.again = FALSE
         /\ Fresh(runner).warnings = 0
<1>1. Fresh(runner) \in Runner
  BY Zenon DEF RulesInv, Fresh, Runner
<1>2. Fresh(runner).warnings = 0 /\ Fresh(runner).inPit = FALSE
  BY DEF RulesInv, Fresh, Runner
<1>3. NewStart \in Sanctions /\ NewStart.total = given.total /\ NewStart.again = given.again
  BY DEF RulesInv, NewStart, Sanctions
<1>4. NewStart.speedings = 0 /\ NewStart.settled = FALSE
  BY DEF RulesInv, NewStart, Sanctions
<1> QED
  BY <1>1, <1>2, <1>3, <1>4 DEF RulesInv, Covers, Sanctions

\* Every step.
LEMMA RulesStep == RulesInv /\ [RulesNext]_ruleVars => RulesInv'
<1> SUFFICES ASSUME RulesInv, [RulesNext]_ruleVars
             PROVE  RulesInv'
  OBVIOUS
<1>1. CASE \E m \in Message : Observe(m) \/ ObservePaused(m)
  BY <1>1, ObserveKeepsRules
<1>2. CASE LapDone \/ Lost \/ BackAgain \/ TakenOut
  BY <1>2 DEF RulesInv, Covers, Runner, LapDone, Lost, BackAgain, TakenOut
<1>3. CASE ReturnToLobby
  <2>1. /\ runner' \in Runner /\ runner'.warnings = 0 /\ Covers(runner', NewStart)
        /\ NewStart \in Sanctions /\ NewStart.again = FALSE /\ given.again = FALSE
    BY <1>3, FreshCar DEF ReturnToLobby, RulesInv, Covers, Sanctions
  <2>2. given' = [NewStart EXCEPT !.total = 0, !.again = given.again]
    BY <1>3 DEF ReturnToLobby
  <2>3. given' \in Sanctions /\ given'.total = 0 /\ Covers(runner', given')
    <3>1. given' \in Sanctions
      BY <2>1, <2>2 DEF Sanctions
    <3>2. /\ given'.total = 0 /\ given'.again = FALSE
          /\ given'.speedings = NewStart.speedings /\ given'.settled = NewStart.settled
      BY <2>1, <2>2 DEF Sanctions
    <3> QED
      BY <2>1, <3>1, <3>2 DEF Covers
  <2>4. start' \in StartType
    BY <1>3, PhaseEntered DEF ReturnToLobby, RulesInv
  <2> QED
    BY <2>1, <2>3, <2>4, RulesAssumption DEF RulesInv
<1>4. CASE \E mode \in {"automatic", "warningsOnly", "disabled"} : SetMode(mode)
  BY <1>4 DEF RulesInv, StartType, SetMode
<1>5. CASE BeginCountdown \/ RaceAtOnce
  <2>1. start' \in StartType
    BY <1>5, PhaseEntered DEF BeginCountdown, RaceAtOnce, RulesInv
  <2> QED
    BY <1>5, <2>1, FreshCar DEF BeginCountdown, RaceAtOnce, RulesInv
<1>6. CASE SequenceBegins \/ GoRacing \/ StopByRed \/ GreenAgain
  <2>1. start' \in StartType
    <3>1. CASE SequenceBegins
      BY <3>1 DEF SequenceBegins, RulesInv, StartType
    <3>2. CASE GoRacing
      BY <3>2, PhaseEntered DEF GoRacing, RulesInv
    <3>3. CASE StopByRed
      BY <3>3 DEF StopByRed, RulesInv, StartType
    <3>4. CASE GreenAgain
      BY <3>4 DEF GreenAgain, RulesInv, StartType
    <3> QED
      BY <1>6, <3>1, <3>2, <3>3, <3>4
  <2>2. UNCHANGED <<runner, given>>
    BY <1>6 DEF SequenceBegins, GoRacing, StopByRed, GreenAgain
  <2> QED
    BY <2>1, <2>2 DEF RulesInv, Covers
<1>7. CASE Light
  <2>1. start' \in StartType
    BY <1>7, RulesAssumption DEF Light, RulesInv, StartType
  <2>2. runner' \in Runner /\ given' \in Sanctions
    BY <1>7 DEF Light, RulesInv, Runner, Sanctions
  <2>3. Covers(runner', given') /\ given'.total = given.total
    BY <1>7 DEF Light, RulesInv, Covers, Runner, Sanctions
  <2> QED
    BY <2>1, <2>2, <2>3 DEF RulesInv
<1>8. CASE UNCHANGED ruleVars
  BY <1>8 DEF ruleVars, RulesInv, Covers
<1> QED
  BY <1>1, <1>2, <1>3, <1>4, <1>5, <1>6, <1>7, <1>8 DEF RulesNext

\* What the invariant is for.
LEMMA RulesInvProps ==
  RulesInv => RulesTypeOK /\ PitSpeedingOncePerVisit /\ ExcursionSettledOnce
BY RulesAssumption DEF RulesInv, RulesTypeOK, PitSpeedingOncePerVisit, ExcursionSettledOnce,
   StartType, Runner, Sanctions, Covers

-----------------------------------------------------------------------------
(* The investigations of collisions                                        *)

Report == [sequence : Nat, age : 0 .. Stale, connected : BOOLEAN, present : BOOLEAN,
           heard : Nat]
Watch == [phase : {"lobby", "running", "halted"}, enabled : BOOLEAN, quiet : [DriverPair -> Nat],
          forgotten : Nat]
Investigation == [pair : DriverPair, contact : Nat, news : BOOLEAN,
                  status : {"pending", "resolved"}, first : Nat, last : Nat, memory : Nat]

\* Contacts are of the past.
Timing ==
  /\ clock \in 1 .. MaxClock
  /\ contacts \in Seq(Nat) /\ Len(contacts) <= MaxContact
  /\ \A c \in DOMAIN contacts : contacts[c] \in 1 .. clock

\* What the server heard of a client it remembers, and not more than the client felt.
Clients ==
  /\ impact \in [Driver -> 0 .. Len(contacts)]
  /\ report \in [Driver -> Report]
  /\ \A d \in Driver : report[d].heard <= report[d].sequence /\ report[d].sequence <= impact[d]

\* As long as the detector remembers an investigation, its pair stays quiet until
\* the contact is out of its window.
Known(i, now, past, w) ==
  /\ i.contact \in DOMAIN past /\ i.news /\ i.first <= i.last
  /\ i.memory <= w.forgotten
  /\ i.memory = w.forgotten => past[i.contact] + Window <= now + w.quiet[i.pair]

Detector ==
  /\ watch \in Watch
  /\ investigations \in Seq(Investigation) /\ Len(investigations) <= Capacity
  /\ \A k \in DOMAIN investigations : Known(investigations[k], clock, contacts, watch)
  /\ OneInvestigationPerContact

CollisionsInv == Timing /\ Clients /\ Detector

\* The newest of some investigations is one of them.
LEMMA MaxIsThere ==
  ASSUME NEW n \in Nat, NEW S, S \subseteq 1..n, S # {}
  PROVE  Max(S) \in S /\ \A y \in S : Max(S) >= y
<1> DEFINE R == {ss \in Nat \X Nat : ss[1] < ss[2]}
           T == {n - k : k \in S}
<1>1. IsWellFoundedOn(OpToRel(<, Nat), Nat)
  BY NatLessThanWellFounded
<1>2. IsWellFoundedOn(R, Nat)
  BY <1>1 DEF OpToRel
<1>3. \A k \in S : k \in 1..n
  BY Zenon
<1>4. \A k \in 1..n : n - k \in Nat
  OBVIOUS
<1>5. T \subseteq Nat /\ T # {}
  BY <1>3, <1>4, Zenon
<1>6. PICK x \in T : \A y \in T : ~(<<y, x>> \in R)
  <2> HIDE DEF R, T
  <2> QED
    BY <1>2, <1>5, WFMin, Zenon
<1>7. PICK k \in S : x = n - k
  BY <1>6
<1>8. ASSUME NEW y \in S
      PROVE  k >= y
  <2>1. n - y \in T /\ n - y \in Nat /\ x \in Nat /\ y \in 1..n /\ k \in 1..n
    BY <1>3, <1>4, <1>7, Zenon
  <2>2. ~(n - y < x)
    <3>1. <<n - y, x>> \notin R
      BY <1>6, <2>1, Zenon
    <3>2. <<n - y, x>> \in Nat \X Nat
      BY <2>1, Zenon
    <3> QED
      BY <3>1, <3>2
  <2> QED
    BY <1>7, <2>1, <2>2
<1> QED
  BY <1>8 DEF Max

\* An unheard age is an age.
LEMMA StaleAge == Stale \in Nat /\ 0 \in 0 .. Stale /\ Stale \in 0 .. Stale
BY CollisionAssumption DEF Stale

\* What the inductive invariant says of the beginning.
LEMMA CollisionsInvInit == CollisionsInit => CollisionsInv
<1> SUFFICES ASSUME CollisionsInit
             PROVE  CollisionsInv
  OBVIOUS
<1>1. Timing
  BY CollisionAssumption DEF CollisionsInit, Timing
<1>2. Clients
  BY StaleAge DEF CollisionsInit, Clients, Report
<1>3. Detector
  BY CollisionAssumption DEF CollisionsInit, Detector, Watch, Unaware, OneInvestigationPerContact
<1> QED
  BY <1>1, <1>2, <1>3 DEF CollisionsInv

\* What leaves detector, contacts and clock alone.
LEMMA DetectorStays ==
  ASSUME Detector, UNCHANGED <<clock, contacts, watch, investigations>>
  PROVE  Detector'
BY DEF Detector, Known, OneInvestigationPerContact

\* A second passes: the older contacts are, the quieter it may be.
LEMMA TickKeeps ==
  ASSUME CollisionsInv, Tick
  PROVE  CollisionsInv'
<1>1. Timing'
  BY CollisionAssumption DEF CollisionsInv, Timing, Tick
<1>2. Clients'
  <2>1. report' \in [Driver -> Report]
    <3>1. \A d \in Driver : (IF report[d].age = Stale THEN report[d].age ELSE report[d].age + 1)
                              \in 0 .. Stale
      BY StaleAge DEF CollisionsInv, Clients, Report
    <3> QED
      BY <3>1 DEF CollisionsInv, Clients, Report, Tick
  <2>2. \A d \in Driver : /\ report'[d].heard = report[d].heard
                          /\ report'[d].sequence = report[d].sequence
    BY DEF CollisionsInv, Clients, Report, Tick
  <2> QED
    BY <2>1, <2>2 DEF CollisionsInv, Clients, Tick
<1>3. Detector'
  <2> DEFINE q == [pair \in DriverPair |->
                   IF watch.quiet[pair] = 0 THEN 0 ELSE watch.quiet[pair] - 1]
  <2>1. q \in [DriverPair -> Nat]
    BY DEF CollisionsInv, Detector, Watch
  <2>2. watch' = [watch EXCEPT !.quiet = q]
    BY DEF Tick
  <2>3. watch' \in Watch /\ watch'.quiet = q /\ watch'.forgotten = watch.forgotten
    <3> HIDE DEF q
    <3> QED
      BY <2>1, <2>2 DEF CollisionsInv, Detector, Watch
  <2>4. \A pair \in DriverPair : clock + watch.quiet[pair] <= clock' + watch'.quiet[pair]
    BY <2>3 DEF CollisionsInv, Detector, Timing, Watch, Tick
  <2>5. ASSUME NEW k \in DOMAIN investigations
        PROVE  Known(investigations[k], clock', contacts', watch')
    <3> DEFINE i == investigations[k]
    <3>1. i \in Investigation /\ Known(i, clock, contacts, watch)
      BY <2>5 DEF CollisionsInv, Detector
    <3>2. i' = i /\ contacts' = contacts /\ clock' \in Nat /\ clock \in Nat
      BY DEF Tick, CollisionsInv, Timing
    <3>3. /\ i.pair \in DriverPair /\ contacts[i.contact] \in Nat /\ watch.quiet[i.pair] \in Nat
          /\ watch'.quiet[i.pair] \in Nat
      <4>1. i.pair \in DriverPair /\ contacts[i.contact] \in Nat
        BY <3>1 DEF Investigation, Known, CollisionsInv, Timing
      <4>2. watch.quiet \in [DriverPair -> Nat] /\ watch'.quiet \in [DriverPair -> Nat]
        BY <2>3 DEF CollisionsInv, Detector, Watch
      <4> HIDE DEF q, i
      <4> QED
        BY <4>1, <4>2
    <3> HIDE DEF i
    <3>4. contacts[i.contact] + Window <= clock + watch.quiet[i.pair] =>
            contacts[i.contact] + Window <= clock' + watch'.quiet[i.pair]
      BY <2>4, <3>2, <3>3, CollisionAssumption
    <3>5. Known(i, clock', contacts', watch')
      BY <2>3, <3>1, <3>2, <3>4 DEF Known
    <3> QED
      BY <3>5 DEF i
  <2>6. UNCHANGED investigations
    BY DEF Tick
  <2> QED
    BY <2>3, <2>5, <2>6 DEF CollisionsInv, Detector, OneInvestigationPerContact
<1> QED
  BY <1>1, <1>2, <1>3 DEF CollisionsInv

\* A contact is numbered after those that were.
LEMMA TouchKeeps ==
  ASSUME CollisionsInv, NEW felt \in SUBSET Driver, Touch(felt)
  PROVE  CollisionsInv'
<1>1. /\ contacts' = Append(contacts, clock) /\ contacts \in Seq(Nat) /\ clock \in Nat
      /\ contacts' \in Seq(Nat) /\ Len(contacts') = Len(contacts) + 1
      /\ \A c \in DOMAIN contacts : c \in DOMAIN contacts' /\ contacts'[c] = contacts[c]
      /\ \A c \in DOMAIN contacts' : c \in DOMAIN contacts \/ contacts'[c] = clock
      /\ Len(contacts) \in Nat
  BY AppendProperties DEF Touch, CollisionsInv, Timing
<1>2. UNCHANGED <<clock, report, watch, investigations>>
  BY DEF Touch
<1>3. Timing'
  BY <1>1, <1>2, CollisionAssumption DEF CollisionsInv, Timing, Touch
<1>4. Clients'
  <2>1. impact' = [d \in Driver |-> IF d \in felt THEN Len(contacts') ELSE impact[d]]
    BY DEF Touch
  <2>2. \A d \in Driver : /\ impact[d] \in 0 .. Len(contacts)
                          /\ report[d].sequence \in Nat
    BY DEF CollisionsInv, Clients, Report
  <2>3. impact' \in [Driver -> 0 .. Len(contacts')]
    BY <1>1, <2>1, <2>2
  <2>4. \A d \in Driver : report[d].sequence <= impact[d] => report[d].sequence <= impact'[d]
    BY <1>1, <2>1, <2>2
  <2> QED
    BY <1>2, <2>3, <2>4 DEF CollisionsInv, Clients
<1>5. Detector'
  <2>1. ASSUME NEW k \in DOMAIN investigations
        PROVE  Known(investigations[k], clock', contacts', watch')
    <3>1. Known(investigations[k], clock, contacts, watch)
      BY DEF CollisionsInv, Detector
    <3> QED
      BY <1>1, <1>2, <3>1 DEF Known
  <2> QED
    BY <1>2, <2>1 DEF CollisionsInv, Detector, OneInvestigationPerContact
<1> QED
  BY <1>3, <1>4, <1>5 DEF CollisionsInv

\* A message is remembered as far as the client's contacts go.
LEMMA RememberKeeps ==
  ASSUME CollisionsInv, NEW d \in Driver, NEW age \in 0 .. Stale,
         Remember(d, impact[d], age), UNCHANGED <<contacts, impact>>
  PROVE  Clients'
<1> DEFINE s == IF impact[d] > report[d].sequence THEN impact[d] ELSE report[d].sequence
           h == IF impact[d] > report[d].heard THEN impact[d] ELSE report[d].heard
           r == [report[d] EXCEPT !.sequence = s, !.age = age, !.connected = TRUE, !.heard = h]
<1>1. /\ report[d] \in Report /\ impact[d] \in Nat /\ report[d].sequence \in Nat
      /\ report[d].heard \in Nat /\ report[d].heard <= report[d].sequence
      /\ report[d].sequence <= impact[d]
  BY DEF CollisionsInv, Clients, Report
<1>2. s \in Nat /\ h \in Nat /\ h <= s /\ s <= impact[d]
  BY <1>1
<1>3. report' = [report EXCEPT ![d] = r]
  BY DEF Remember
<1> HIDE DEF s, h
<1>4. r \in Report
  BY <1>1, <1>2, Zenon DEF Report
<1>5. r.sequence = s /\ r.heard = h
  BY <1>1 DEF Report
<1> HIDE DEF r
<1>6. /\ report' \in [Driver -> Report]
      /\ \A e \in Driver : report'[e] = IF e = d THEN r ELSE report[e]
  BY <1>3, <1>4 DEF CollisionsInv, Clients
<1> QED
  BY <1>2, <1>5, <1>6 DEF CollisionsInv, Clients

\* A replay that is final keeps its first and its last contact.
FinalStands ==
  \A k \in DOMAIN investigations \cap DOMAIN investigations' :
    ReplayIsFinal(investigations[k]) =>
      /\ investigations'[k].first = investigations[k].first
      /\ investigations'[k].last = investigations[k].last

\* Evidence is of a contact that happened no longer ago than it may have.
LEMMA EvidenceIsRecent ==
  ASSUME CollisionsInv, NEW d \in Driver, impact[d] > report[d].sequence, Evidence(d)
  PROVE  /\ impact[d] \in DOMAIN contacts /\ contacts[impact[d]] \in 1 .. clock
         /\ Age(impact[d]) \in Nat /\ Age(impact[d]) <= OldestImpact
         /\ impact[d] > report[d].heard
<1>1. /\ report[d].sequence \in Nat /\ report[d].heard \in Nat /\ impact[d] \in 0 .. Len(contacts)
      /\ report[d].heard <= report[d].sequence
  BY DEF CollisionsInv, Clients, Report
<1>2. impact[d] \in DOMAIN contacts
  BY <1>1 DEF CollisionsInv, Timing
<1>3. contacts[impact[d]] \in 1 .. clock /\ clock \in Nat
  BY <1>2 DEF CollisionsInv, Timing
<1> QED
  BY <1>1, <1>2, <1>3, CollisionAssumption DEF Evidence, Age

\* An investigation that can be widened is not final.
LEMMA WidenKeeps ==
  ASSUME CollisionsInv, NEW k \in DOMAIN investigations, NEW at \in 1 .. clock,
         clock - at <= OldestImpact, InWindow(investigations[k], at),
         investigations' = [investigations EXCEPT ![k] = Widen(@, at)],
         UNCHANGED <<clock, contacts, watch>>
  PROVE  Detector' /\ FinalStands
<1> DEFINE i == investigations[k]
           w == Widen(i, at)
<1>0. /\ i \in Investigation /\ Known(i, clock, contacts, watch) /\ clock \in Nat
      /\ investigations \in Seq(Investigation)
  BY DEF CollisionsInv, Detector, Timing
<1>1. i.first \in Nat /\ i.last \in Nat /\ i.first <= i.last
  BY <1>0 DEF Investigation, Known
<1>2. PICK f \in Nat, l \in Nat : f <= l /\ w = [i EXCEPT !.first = f, !.last = l]
  <2>1. PICK f, l : /\ f = (IF at < i.first THEN at ELSE i.first)
                    /\ l = (IF at > i.last THEN at ELSE i.last)
    OBVIOUS
  <2>2. f \in Nat /\ l \in Nat /\ f <= l
    BY <1>0, <1>1, <2>1
  <2>3. w = [i EXCEPT !.first = f, !.last = l]
    BY <2>1 DEF Widen
  <2> QED
    BY <2>2, <2>3
<1>3. w \in Investigation
  BY <1>0, <1>2, Zenon DEF Investigation
<1>4. /\ w.contact = i.contact /\ w.pair = i.pair /\ w.memory = i.memory /\ w.news = i.news
      /\ w.first <= w.last
  BY <1>0, <1>2 DEF Investigation
<1>5. ~ReplayIsFinal(i)
  BY <1>0, <1>1, CollisionAssumption, SMTT(30) DEF InWindow, ReplayIsFinal
<1>6. investigations' = [investigations EXCEPT ![k] = w]
  OBVIOUS
<1> HIDE DEF w
<1>7. /\ investigations' \in Seq(Investigation) /\ Len(investigations') = Len(investigations)
      /\ DOMAIN investigations' = DOMAIN investigations
      /\ \A j \in DOMAIN investigations :
           investigations'[j] = IF j = k THEN w ELSE investigations[j]
  BY <1>0, <1>3, <1>6, ExceptSeq
<1>8. ASSUME NEW j \in DOMAIN investigations
      PROVE  /\ Known(investigations'[j], clock', contacts', watch')
             /\ investigations'[j].contact = investigations[j].contact
             /\ investigations'[j].pair = investigations[j].pair
             /\ investigations'[j].memory = investigations[j].memory
  <2>1. Known(investigations[j], clock, contacts, watch)
    BY DEF CollisionsInv, Detector
  <2> QED
    BY <1>0, <1>4, <1>7, <2>1 DEF Known
<1>9. OneInvestigationPerContact'
  BY <1>7, <1>8 DEF OneInvestigationPerContact, CollisionsInv, Detector
<1>10. Detector'
  BY <1>7, <1>8, <1>9 DEF CollisionsInv, Detector
<1>11. FinalStands
  BY <1>5, <1>7 DEF FinalStands
<1> QED
  BY <1>10, <1>11

\* A pair that is not quiet has no investigation of a contact this recent.
LEMMA OpenKeeps ==
  ASSUME CollisionsInv, NEW pair \in DriverPair, NEW d \in Driver, NEW c \in DOMAIN contacts,
         contacts[c] \in 1 .. clock, Age(c) \in Nat, Age(c) <= OldestImpact,
         c > report[d].heard, watch.quiet[pair] = 0, Len(investigations) < Capacity,
         Open(pair, d, c), UNCHANGED <<clock, contacts>>
  PROVE  Detector' /\ FinalStands
<1> DEFINE i == [pair |-> pair, contact |-> c, news |-> c > report[d].heard,
                 status |-> "pending", first |-> contacts[c], last |-> contacts[c],
                 memory |-> watch.forgotten]
           n == Window - Age(c)
<1>1. /\ clock \in Nat /\ contacts[c] \in Nat /\ watch \in Watch /\ watch.forgotten \in Nat
      /\ watch.quiet \in [DriverPair -> Nat] /\ investigations \in Seq(Investigation) /\ c \in Nat
  BY DEF CollisionsInv, Timing, Detector, Watch
<1>2. n \in Nat /\ contacts[c] + Window = clock + n
  BY <1>1, CollisionAssumption, SMTT(30) DEF Age
<1>3. PICK news : news = (c > report[d].heard)
  OBVIOUS
<1>4. news = TRUE
  <2>1. news \in BOOLEAN /\ news
    BY <1>3, <1>1
  <2> QED
    BY <2>1
<1>5. i \in Investigation
  <2>1. i = [pair |-> pair, contact |-> c, news |-> TRUE, status |-> "pending",
             first |-> contacts[c], last |-> contacts[c], memory |-> watch.forgotten]
    BY <1>3, <1>4, Zenon
  <2> QED
    BY <1>1, <2>1, Zenon DEF Investigation
<1>6. investigations' = Append(investigations, i) /\ watch' = [watch EXCEPT !.quiet[pair] = n]
  BY DEF Open
<1>7. /\ i.pair = pair /\ i.contact = c /\ i.news /\ i.first <= i.last
      /\ i.memory = watch.forgotten
  <2>1. i.news
    BY <1>3, <1>4, Zenon
  <2>2. i.first <= i.last
    BY <1>1
  <2> QED
    BY <2>1, <2>2
<1> HIDE DEF i, n
<1>8. /\ investigations' \in Seq(Investigation)
      /\ Len(investigations') = Len(investigations) + 1
      /\ DOMAIN investigations' = DOMAIN investigations \cup {Len(investigations) + 1}
      /\ \A k \in DOMAIN investigations : investigations'[k] = investigations[k]
      /\ investigations'[Len(investigations) + 1] = i
      /\ Len(investigations) \in Nat
  BY <1>1, <1>5, <1>6, AppendProperties
<1>9. watch'.quiet = [watch.quiet EXCEPT ![pair] = n] /\ watch'.forgotten = watch.forgotten
  BY <1>1, <1>6, Zenon DEF Watch
<1>10. watch' \in Watch
  <2>1. [watch.quiet EXCEPT ![pair] = n] \in [DriverPair -> Nat]
    BY <1>1, <1>2
  <2>2. watch' = [watch EXCEPT !.quiet = [watch.quiet EXCEPT ![pair] = n]]
    BY <1>1, <1>6, Zenon DEF Watch
  <2> QED
    BY <1>1, <2>1, <2>2, Zenon DEF Watch
<1>11. Known(i, clock', contacts', watch')
  BY <1>1, <1>2, <1>7, <1>9 DEF Known
<1>12. ASSUME NEW k \in DOMAIN investigations
       PROVE  /\ Known(investigations[k], clock', contacts', watch')
              /\ investigations[k].memory = watch.forgotten /\ investigations[k].pair = pair =>
                   investigations[k].contact # c
  <2> PICK j : j = investigations[k]
    OBVIOUS
  <2>1. j \in Investigation /\ Known(j, clock, contacts, watch)
    BY <1>1 DEF CollisionsInv, Detector
  <2>2. j.pair \in DriverPair /\ contacts[j.contact] \in Nat /\ watch.quiet[j.pair] \in Nat
    <3>1. j.pair \in DriverPair
      BY <2>1 DEF Investigation
    <3>2. contacts[j.contact] \in Nat
      BY <2>1 DEF Known, CollisionsInv, Timing
    <3> QED
      BY <1>1, <3>1, <3>2
  <2>3. j.memory = watch.forgotten /\ j.pair = pair => contacts[j.contact] + Window <= clock
    BY <1>1, <2>1, <2>2, CollisionAssumption DEF Known
  <2>4. j.memory = watch.forgotten /\ j.pair = pair => j.contact # c
    BY <1>1, <2>3, CollisionAssumption DEF Age
  <2>5. watch.quiet[j.pair] <= watch'.quiet[j.pair] /\ watch'.quiet[j.pair] \in Nat
    BY <1>1, <1>2, <1>9, <2>2
  <2>6. Known(j, clock', contacts', watch')
    <3>1. contacts[j.contact] + Window <= clock + watch.quiet[j.pair] =>
            contacts[j.contact] + Window <= clock + watch'.quiet[j.pair]
      <4>1. PICK a, b, e : a = contacts[j.contact] /\ b = watch.quiet[j.pair]
                           /\ e = watch'.quiet[j.pair]
        OBVIOUS
      <4>2. a \in Nat /\ b \in Nat /\ e \in Nat /\ b <= e
        BY <2>2, <2>5, <4>1, Zenon
      <4>3. a + Window <= clock + b => a + Window <= clock + e
        BY <1>1, <4>2, CollisionAssumption
      <4> QED
        BY <4>1, <4>3, Zenon
    <3> QED
      BY <1>9, <2>1, <3>1 DEF Known
  <2> QED
    BY <2>4, <2>6
<1>13. OneInvestigationPerContact'
  <2> SUFFICES ASSUME NEW j \in DOMAIN investigations', NEW k \in DOMAIN investigations',
                      investigations'[j].contact = investigations'[k].contact,
                      investigations'[j].pair = investigations'[k].pair,
                      investigations'[j].memory = investigations'[k].memory
               PROVE  j = k
    BY DEF OneInvestigationPerContact
  <2>1. CASE j \in DOMAIN investigations /\ k \in DOMAIN investigations
    BY <1>8, <2>1 DEF CollisionsInv, Detector, OneInvestigationPerContact
  <2>2. CASE j \notin DOMAIN investigations /\ k \notin DOMAIN investigations
    BY <1>8, <2>2
  <2>3. CASE j \in DOMAIN investigations /\ k \notin DOMAIN investigations
    BY <1>7, <1>8, <1>12, <2>3
  <2>4. CASE j \notin DOMAIN investigations /\ k \in DOMAIN investigations
    BY <1>7, <1>8, <1>12, <2>4
  <2> QED
    BY <2>1, <2>2, <2>3, <2>4
<1>14. \A k \in DOMAIN investigations' : Known(investigations'[k], clock', contacts', watch')
  BY <1>8, <1>11, <1>12
<1>15. Len(investigations') <= Capacity
  BY <1>8, CollisionAssumption
<1>16. Detector'
  BY <1>8, <1>10, <1>13, <1>14, <1>15 DEF Detector
<1>17. FinalStands
  BY <1>8 DEF FinalStands
<1> QED
  BY <1>16, <1>17

\* Nothing is merged or opened.
LEMMA NoInvestigation ==
  ASSUME CollisionsInv, UNCHANGED <<clock, contacts, watch, investigations>>
  PROVE  Detector' /\ FinalStands
BY DetectorStays DEF CollisionsInv, FinalStands

\* A report joins the newest open investigation of its pair, or opens one.
LEMMA InvestigateKeeps ==
  ASSUME CollisionsInv, NEW d \in Driver, NEW other \in Driver \ {d},
         impact[d] > report[d].sequence, Evidence(d), Investigate(d, other),
         UNCHANGED <<clock, contacts>>
  PROVE  Detector' /\ FinalStands
<1> DEFINE c == impact[d]
           pair == {d, other}
           merge == Mergeable(pair, contacts[c])
<1>1. /\ c \in DOMAIN contacts /\ contacts[c] \in 1 .. clock /\ Age(c) \in Nat
      /\ Age(c) <= OldestImpact /\ c > report[d].heard
  BY EvidenceIsRecent
<1>2. pair \in DriverPair
  BY DEF DriverPair
<1>3. Len(investigations) \in Nat /\ DOMAIN investigations = 1 .. Len(investigations)
  BY DEF CollisionsInv, Detector
<1>4. CASE merge # {}
  <2>1. merge \subseteq 1 .. Len(investigations)
    BY <1>3 DEF Mergeable
  <2>2. Max(merge) \in merge
    <3> HIDE DEF merge
    <3> QED
      BY <1>3, <1>4, <2>1, MaxIsThere
  <2>3. PICK k : k = Max(merge)
    OBVIOUS
  <2>4. k \in DOMAIN investigations /\ InWindow(investigations[k], contacts[c])
    BY <2>2, <2>3 DEF Mergeable
  <2>5. /\ investigations' = [investigations EXCEPT ![k] = Widen(@, contacts[c])]
        /\ UNCHANGED watch
    BY <1>4, <2>3 DEF Investigate
  <2>6. clock - contacts[c] <= OldestImpact
    BY <1>1 DEF Age
  <2> HIDE DEF c, merge
  <2> QED
    BY <1>1, <2>4, <2>5, <2>6, WidenKeeps
<1>5. CASE merge = {} /\ (Len(investigations) >= Capacity \/ watch.quiet[pair] > 0)
  <2>1. UNCHANGED <<investigations, watch>>
    BY <1>5 DEF Investigate
  <2> QED
    BY <2>1, NoInvestigation
<1>6. CASE merge = {} /\ ~(Len(investigations) >= Capacity \/ watch.quiet[pair] > 0)
  <2>1. Open(pair, d, c)
    BY <1>6 DEF Investigate
  <2>2. watch.quiet[pair] \in Nat
    BY <1>2 DEF CollisionsInv, Detector, Watch
  <2>3. watch.quiet[pair] = 0 /\ Len(investigations) < Capacity
    BY <1>3, <1>6, <2>2, CollisionAssumption
  <2> HIDE DEF c, pair
  <2> QED
    BY <1>1, <1>2, <2>1, <2>3, OpenKeeps
<1> QED
  BY <1>4, <1>5, <1>6

\* A message, of a running game or a paused one.
LEMMA TelemetryKeeps ==
  ASSUME CollisionsInv, NEW d \in Driver, Telemetry(d) \/ PausedTelemetry(d)
  PROVE  CollisionsInv' /\ FinalStands
<1>1. UNCHANGED <<clock, contacts, impact>>
  BY DEF Telemetry, PausedTelemetry
<1>2. Timing'
  BY <1>1 DEF CollisionsInv, Timing
<1>3. Clients'
  BY <1>1, StaleAge, RememberKeeps DEF Telemetry, PausedTelemetry
<1>4. Detector' /\ FinalStands
  BY <1>1, InvestigateKeeps, NoInvestigation DEF Telemetry, PausedTelemetry
<1> QED
  BY <1>2, <1>3, <1>4 DEF CollisionsInv

\* Who is connected and what position the server has of whom.
LEMMA ClientsKeep ==
  ASSUME CollisionsInv, UNCHANGED <<clock, contacts, impact>>,
         report' \in [Driver -> Report],
         \A d \in Driver : /\ report'[d].heard = report[d].heard
                           /\ report'[d].sequence = report[d].sequence
  PROVE  Timing' /\ Clients'
BY DEF CollisionsInv, Timing, Clients

\* Who forgets the positions forgets nothing else.
LEMMA PositionsLost ==
  ASSUME CollisionsInv, LosePositions
  PROVE  /\ report' \in [Driver -> Report]
         /\ \A d \in Driver : /\ report'[d].heard = report[d].heard
                              /\ report'[d].sequence = report[d].sequence
BY StaleAge DEF CollisionsInv, Clients, Report, LosePositions

LEMMA SeatsKeep ==
  ASSUME CollisionsInv, NEW d \in Driver, Disconnect(d) \/ Resume(d) \/ Leave(d)
  PROVE  CollisionsInv' /\ FinalStands
<1>1. UNCHANGED <<clock, contacts, impact, watch, investigations>>
  BY DEF Disconnect, Resume, Leave
<1>2. /\ report' \in [Driver -> Report]
      /\ \A e \in Driver : /\ report'[e].heard = report[e].heard
                           /\ report'[e].sequence = report[e].sequence
  <2>1. CASE Disconnect(d)
    BY <2>1 DEF CollisionsInv, Clients, Report, Disconnect
  <2>2. CASE Resume(d)
    BY <2>2 DEF CollisionsInv, Clients, Report, Resume
  <2>3. CASE Leave(d)
    <3> DEFINE r == [report[d] EXCEPT !.present = FALSE, !.connected = FALSE, !.age = Stale]
    <3>1. report[d] \in Report
      BY DEF CollisionsInv, Clients
    <3>2. r \in Report /\ r.heard = report[d].heard /\ r.sequence = report[d].sequence
      BY <3>1, StaleAge, Zenon DEF Report
    <3>3. report' = [report EXCEPT ![d] = r]
      BY <2>3 DEF Leave
    <3> HIDE DEF r
    <3> QED
      BY <3>2, <3>3 DEF CollisionsInv, Clients
  <2> QED
    BY <2>1, <2>2, <2>3
<1> QED
  BY <1>1, <1>2, ClientsKeep, NoInvestigation DEF CollisionsInv

\* A verdict changes only the status.
LEMMA ResolveKeeps ==
  ASSUME CollisionsInv, NEW k \in DOMAIN investigations, NEW d \in Driver, Resolve(k, d)
  PROVE  CollisionsInv' /\ FinalStands
<1> DEFINE i == investigations[k]
           w == [i EXCEPT !.status = "resolved"]
<1>0. /\ i \in Investigation /\ Known(i, clock, contacts, watch)
      /\ investigations \in Seq(Investigation)
  BY DEF CollisionsInv, Detector
<1>1. /\ investigations' = [investigations EXCEPT ![k] = w]
      /\ UNCHANGED <<clock, contacts, impact, report, watch>>
  BY DEF Resolve
<1>2. w \in Investigation
  BY <1>0 DEF Investigation
<1>3. /\ w.contact = i.contact /\ w.pair = i.pair /\ w.memory = i.memory /\ w.news = i.news
      /\ w.first = i.first /\ w.last = i.last
  BY <1>0 DEF Investigation
<1> HIDE DEF w
<1>4. /\ investigations' \in Seq(Investigation) /\ Len(investigations') = Len(investigations)
      /\ DOMAIN investigations' = DOMAIN investigations
      /\ \A j \in DOMAIN investigations :
           investigations'[j] = IF j = k THEN w ELSE investigations[j]
  BY <1>0, <1>1, <1>2, ExceptSeq
<1>5. ASSUME NEW j \in DOMAIN investigations
      PROVE  /\ Known(investigations'[j], clock', contacts', watch')
             /\ investigations'[j].contact = investigations[j].contact
             /\ investigations'[j].pair = investigations[j].pair
             /\ investigations'[j].memory = investigations[j].memory
             /\ investigations'[j].first = investigations[j].first
             /\ investigations'[j].last = investigations[j].last
  <2>1. Known(investigations[j], clock, contacts, watch)
    BY DEF CollisionsInv, Detector
  <2> QED
    BY <1>0, <1>1, <1>3, <1>4, <2>1 DEF Known
<1>6. OneInvestigationPerContact'
  BY <1>4, <1>5 DEF OneInvestigationPerContact, CollisionsInv, Detector
<1>7. Detector'
  BY <1>1, <1>4, <1>5, <1>6 DEF CollisionsInv, Detector
<1>8. FinalStands
  BY <1>4, <1>5 DEF FinalStands
<1>9. Timing' /\ Clients'
  BY <1>1 DEF CollisionsInv, Timing, Clients
<1> QED
  BY <1>7, <1>8, <1>9 DEF CollisionsInv

\* The detector forgets: investigations it does not remember bind it no more.
LEMMA ForgetKeeps ==
  ASSUME CollisionsInv, UNCHANGED <<clock, contacts, investigations>>,
         watch' \in Watch, watch'.forgotten = watch.forgotten + 1
  PROVE  Detector' /\ FinalStands
<1>1. watch.forgotten \in Nat
  BY DEF CollisionsInv, Detector, Watch
<1>2. ASSUME NEW k \in DOMAIN investigations
      PROVE  Known(investigations[k], clock', contacts', watch')
  <2>1. Known(investigations[k], clock, contacts, watch)
    BY DEF CollisionsInv, Detector
  <2>2. investigations[k].memory \in Nat
    <3>1. investigations[k] \in Investigation
      BY DEF CollisionsInv, Detector
    <3> QED
      BY <3>1 DEF Investigation
  <2> QED
    BY <1>1, <2>1, <2>2 DEF Known
<1> QED
  BY <1>2 DEF CollisionsInv, Detector, OneInvestigationPerContact, FinalStands

\* The switch and the phase.
LEMMA WatchKeeps ==
  ASSUME CollisionsInv, UNCHANGED <<clock, contacts, investigations>>,
         watch' \in Watch, watch'.forgotten = watch.forgotten, watch'.quiet = watch.quiet
  PROVE  Detector' /\ FinalStands
<1>1. ASSUME NEW k \in DOMAIN investigations
      PROVE  Known(investigations[k], clock', contacts', watch')
  <2>1. Known(investigations[k], clock, contacts, watch)
    BY DEF CollisionsInv, Detector
  <2> QED
    BY <2>1 DEF Known
<1> QED
  BY <1>1 DEF CollisionsInv, Detector, OneInvestigationPerContact, FinalStands

\* Control changes the phase, the switch and what the detector remembers.
LEMMA ControlKeeps ==
  ASSUME CollisionsInv,
         SwitchOff \/ SwitchOn \/ Halt \/ Continue \/ ToLobby \/ StartRace \/ Reload
  PROVE  CollisionsInv' /\ FinalStands
<1>0. watch \in Watch /\ watch.forgotten \in Nat /\ Unaware \in [DriverPair -> Nat]
  BY DEF CollisionsInv, Detector, Watch, Unaware
<1>1. Timing' /\ Clients'
  <2>1. CASE SwitchOn \/ Halt \/ Continue
    BY <2>1 DEF SwitchOn, Halt, Continue, CollisionsInv, Timing, Clients
  <2>2. CASE SwitchOff \/ ToLobby \/ StartRace \/ Reload
    BY <2>2, PositionsLost, ClientsKeep DEF SwitchOff, ToLobby, StartRace, Reload
  <2> QED
    BY <2>1, <2>2
<1>2. CASE SwitchOff \/ Reload
  <2>1. PICK n : n = watch.forgotten + 1
    OBVIOUS
  <2>2. n \in Nat
    BY <1>0, <2>1
  <2>3. \/ watch' = [watch EXCEPT !.enabled = FALSE, !.quiet = Unaware, !.forgotten = n]
        \/ watch' = [watch EXCEPT !.quiet = Unaware, !.forgotten = n]
    BY <1>2, <2>1, Zenon DEF SwitchOff, Reload
  <2>4. watch' \in Watch /\ watch'.forgotten = watch.forgotten + 1
    BY <1>0, <2>1, <2>2, <2>3, Zenon DEF Watch
  <2> QED
    BY <1>1, <1>2, <2>4, ForgetKeeps DEF SwitchOff, Reload, CollisionsInv
<1>3. CASE SwitchOn \/ Halt \/ Continue \/ StartRace
  <2>1. watch' \in Watch /\ watch'.forgotten = watch.forgotten /\ watch'.quiet = watch.quiet
    BY <1>0, <1>3 DEF SwitchOn, Halt, Continue, StartRace, Watch
  <2> QED
    BY <1>1, <1>3, <2>1, WatchKeeps DEF SwitchOn, Halt, Continue, StartRace, CollisionsInv
<1>4. CASE ToLobby
  <2>1. watch' \in Watch /\ investigations' = << >>
    BY <1>0, <1>4 DEF ToLobby, Watch
  <2> QED
    BY <1>1, <2>1, CollisionAssumption
       DEF CollisionsInv, Detector, OneInvestigationPerContact, FinalStands
<1> QED
  BY <1>2, <1>3, <1>4

\* Every step.
LEMMA CollisionsStep ==
  ASSUME CollisionsInv, [CollisionsNext]_collisionVars
  PROVE  CollisionsInv' /\ FinalStands
<1>1. CASE Tick
  <2>1. UNCHANGED investigations
    BY <1>1 DEF Tick
  <2> QED
    BY <1>1, <2>1, TickKeeps DEF FinalStands
<1>2. CASE \E felt \in SUBSET Driver \ {{}} : Touch(felt)
  <2>1. UNCHANGED investigations
    BY <1>2 DEF Touch
  <2> QED
    BY <1>2, <2>1, TouchKeeps DEF FinalStands
<1>3. CASE \E d \in Driver : Telemetry(d) \/ PausedTelemetry(d)
  BY <1>3, TelemetryKeeps
<1>4. CASE \E d \in Driver : Disconnect(d) \/ Resume(d) \/ Leave(d)
  BY <1>4, SeatsKeep
<1>5. CASE \E k \in DOMAIN investigations, d \in Driver : Resolve(k, d)
  BY <1>5, ResolveKeeps
<1>6. CASE SwitchOff \/ SwitchOn \/ Halt \/ Continue \/ ToLobby \/ StartRace \/ Reload
  BY <1>6, ControlKeeps
<1>7. CASE UNCHANGED collisionVars
  <2>1. Timing' /\ Clients'
    BY <1>7 DEF collisionVars, CollisionsInv, Timing, Clients
  <2> QED
    BY <1>7, <2>1, NoInvestigation DEF collisionVars, CollisionsInv
<1> QED
  BY <1>1, <1>2, <1>3, <1>4, <1>5, <1>6, <1>7 DEF CollisionsNext

\* What the invariant is for.
LEMMA CollisionsInvProps ==
  CollisionsInv => CollisionsTypeOK /\ OneInvestigationPerContact /\ ToldImpactsOpenNothing
<1> SUFFICES ASSUME CollisionsInv
             PROVE  CollisionsTypeOK /\ OneInvestigationPerContact /\ ToldImpactsOpenNothing
  OBVIOUS
<1>1. CollisionsTypeOK
  BY DEF CollisionsInv, CollisionsTypeOK, Timing, Clients, Detector, Report, Watch
<1>2. ToldImpactsOpenNothing
  BY DEF CollisionsInv, ToldImpactsOpenNothing, Detector, Known
<1> QED
  BY <1>1, <1>2 DEF CollisionsInv, Detector

-----------------------------------------------------------------------------
(* The theorems of the rules                                               *)

\* The rules' memory of the car covers its sanctions at all times.
THEOREM RulesInvariant == RulesSpec => []RulesInv
<1>1. RulesInit => RulesInv
  BY RulesInvInit
<1>2. RulesInv /\ [RulesNext]_ruleVars => RulesInv'
  BY RulesStep
<1> QED
  BY <1>1, <1>2, PTL DEF RulesSpec

\* One visit to the pit lane costs one penalty for speeding at most, through red
\* flags, pauses and lost connections (evaluatePitSpeeding).
THEOREM OneSpeedingPerVisit == RulesSpec => []PitSpeedingOncePerVisit
<1>1. RulesInv => PitSpeedingOncePerVisit
  BY RulesInvProps
<1> QED
  BY <1>1, RulesInvariant, PTL

\* An excursion that a cut corner settled costs nothing more when the car is
\* back (evaluateShortcut, evaluateTrackLimits).
THEOREM SettledExcursionsAreFree == RulesSpec => []ExcursionSettledOnce
<1>1. RulesInv => ExcursionSettledOnce
  BY RulesInvProps
<1> QED
  BY <1>1, RulesInvariant, PTL

-----------------------------------------------------------------------------
(* The theorems of the investigations                                      *)

\* The detector remembers what it has opened for as long as it must.
THEOREM CollisionsInvariant == CollisionsSpec => []CollisionsInv
<1>1. CollisionsInit => CollisionsInv
  BY CollisionsInvInit
<1>2. CollisionsInv /\ [CollisionsNext]_collisionVars => CollisionsInv'
  BY CollisionsStep
<1> QED
  BY <1>1, <1>2, PTL DEF CollisionsSpec

\* For any drivers and any windows of which the oldest impact is the shorter: one
\* contact of a pair opens one investigation while the detector remembers it
\* (evaluateCollisionInvestigation).
THEOREM ContactsOpenOnce == CollisionsSpec => []OneInvestigationPerContact
<1>1. CollisionsInv => OneInvestigationPerContact
  BY CollisionsInvProps
<1> QED
  BY <1>1, CollisionsInvariant, PTL

\* What a client told while nobody listened opens nothing later
\* (lastReportedImpactSequence).
THEOREM OldNewsOpenNothing == CollisionsSpec => []ToldImpactsOpenNothing
<1>1. CollisionsInv => ToldImpactsOpenNothing
  BY CollisionsInvProps
<1> QED
  BY <1>1, CollisionsInvariant, PTL

\* A replay that is final keeps its contacts, whatever windows, as long as the
\* replay's is longer than those of the detection (tryMergeCollisionInvestigation,
\* collisionReplay).
THEOREM ReplaysStand == CollisionsSpec => FinalReplaysStand
<1>1. CollisionsInv /\ [CollisionsNext]_collisionVars =>
        [ \A k \in DOMAIN investigations \cap DOMAIN investigations' :
            ReplayIsFinal(investigations[k]) =>
              /\ investigations'[k].first = investigations[k].first
              /\ investigations'[k].last = investigations[k].last ]_collisionVars
  BY CollisionsStep DEF FinalStands
<1> QED
  BY <1>1, CollisionsInvariant, PTL DEF CollisionsSpec, FinalReplaysStand

-----------------------------------------------------------------------------
(* The parts together                                                      *)

\* Wherever the parts are, each keeps its types: MCStewarding is a behaviour of
\* each of them.
THEOREM StewardingTyped == Spec => []StewardingTypeOK
<1>1. Init => CollisionsInit /\ FlagsInit /\ RulesInit /\ PenaltiesInit
  BY DEF Init
<1>2. [Next]_vars => /\ [CollisionsNext]_collisionVars /\ [FlagsNext]_flagVars
                     /\ [RulesNext]_ruleVars /\ [PenaltiesNext]_penaltyVars
  BY Zenon DEF Next, vars
<1>3. Spec => CollisionsSpec /\ FlagsSpec /\ RulesSpec /\ PenaltiesSpec
  BY <1>1, <1>2, PTL DEF Spec, CollisionsSpec, FlagsSpec, RulesSpec, PenaltiesSpec
<1>4. CollisionsInv => CollisionsTypeOK
  BY CollisionsInvProps
<1>5. RulesInv => RulesTypeOK
  BY RulesInvProps
<1>6. CollisionsTypeOK /\ FlagsTypeOK /\ RulesTypeOK /\ PenaltiesTypeOK => StewardingTypeOK
  BY DEF StewardingTypeOK
<1> QED
  BY <1>3, <1>4, <1>5, <1>6, CollisionsInvariant, FlagsTypes, RulesInvariant, PenaltiesTyped, PTL
=============================================================================
