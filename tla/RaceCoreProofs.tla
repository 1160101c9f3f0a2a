--------------------------- MODULE RaceCoreProofs ---------------------------
(* Theorems about RaceCore, for every set of drivers, every set of lap     *)
(* reports and every bound.                                                *)
EXTENDS RaceCore, FiniteSetTheorems, TLAPS

Drivers == [Driver -> Participant]
Archive == [Stage -> Result]

-----------------------------------------------------------------------------
(* Types of the operators the actions are built from *)

LEMMA SeatTypes == FreeSeat \in Participant /\ GoneSeat \in Participant
BY DEF FreeSeat, GoneSeat, Participant, Status, Terminal, NoStage, Receipt

LEMMA PhaseNames ==
  /\ "lobby" \in Phase /\ "practice" \in Phase /\ "qualifying" \in Phase
  /\ "grid" \in Phase /\ "outLap" \in Phase /\ "formationLap" \in Phase
  /\ "countdown" \in Phase /\ "race" \in Phase /\ "suspended" \in Phase
  /\ "finished" \in Phase
BY DEF Phase

LEMMA StatusNames ==
  /\ "active" \in Status /\ "disconnected" \in Status /\ "finished" \in Status
  /\ "didNotFinish" \in Status /\ "disqualified" \in Status
BY DEF Status, Terminal

LEMMA Numbers == /\ 0 \in 0..3 /\ 1 \in 0..3 /\ 1 \in 1..3 /\ 0 \in Nat
                 /\ NoStage \in Stage \cup {NoStage}
OBVIOUS

LEMMA ArchivedType ==
  ASSUME NEW r \in Room, NEW ds \in Drivers, NEW ar \in Archive,
         NEW complete \in BOOLEAN
  PROVE  Archived(r, ds, ar, complete) \in Archive
<1> DEFINE entrant == [d \in Driver |-> IF ds[d].seat = "held" THEN ds[d].status
                                        ELSE ar[r.stage].entrant[d]]
           result == [phase |-> ResultPhase(r), complete |-> complete,
                      event |-> r.event, entrant |-> entrant]
<1>1. CASE r.stage = NoStage \/ ResultPhase(r) \notin ResultPhases
  BY <1>1 DEF Archived
<1>2. CASE r.stage # NoStage /\ ResultPhase(r) \in ResultPhases
  <2>1. r.stage \in Stage /\ r.event \in 0..MaxEvent
    BY <1>2, BoundAssumption DEF Room
  <2>2. ar[r.stage].entrant \in [Driver -> Status \cup {"absent"}]
    BY <2>1 DEF Archive, Result
  <2>3. entrant \in [Driver -> Status \cup {"absent"}]
    BY <2>2 DEF Drivers, Participant
  <2>4. result \in Result
    BY <1>2, <2>1, <2>3 DEF Result
  <2>5. Archived(r, ds, ar, complete) = [ar EXCEPT ![r.stage] = result]
    BY <1>2 DEF Archived
  <2> QED BY <2>1, <2>4, <2>5 DEF Archive
<1> QED BY <1>1, <1>2

LEMMA CompleteType ==
  ASSUME NEW r, NEW ds
  PROVE  ResultIsComplete(r, ds) \in BOOLEAN
BY DEF ResultIsComplete

LEMMA TimedRoomType ==
  ASSUME NEW r \in Room, NEW ds
  PROVE  TimedRoom(r, ds) \in Room
<1>1. [r EXCEPT !.clock = "none"] \in Room
  BY Zenon DEF Room
<1>2. [r EXCEPT !.clock = "none", !.flag = "green"] \in Room
  BY Zenon DEF Room
<1>3. [r EXCEPT !.phase = "grid", !.stage = NoStage, !.flag = "green",
                !.clock = "none", !.expired = FALSE, !.session = 0] \in Room
  BY PhaseNames, Numbers, Zenon DEF Room
<1> QED BY <1>1, <1>2, <1>3 DEF TimedRoom

LEMMA RaceRoomType ==
  ASSUME NEW r \in Room, NEW ds
  PROVE  RaceRoom(r, ds) \in Room
BY PhaseNames, Zenon DEF RaceRoom, Room

LEMMA SettledRoomType ==
  ASSUME NEW r \in Room, NEW ds
  PROVE  SettledRoom(r, ds) \in Room
BY TimedRoomType, RaceRoomType DEF SettledRoom

LEMMA TimedDriversType ==
  ASSUME NEW r, NEW ds \in Drivers, NEW cut
  PROVE  TimedDrivers(r, ds, cut) \in Drivers
<1>1. ASSUME NEW d \in Driver
      PROVE  [ds[d] EXCEPT !.status = Standing(ds[d]), !.finalLap = FALSE,
                           !.eligible = @ /\ d \notin cut] \in Participant
  <2>1. (ds[d].eligible /\ d \notin cut) \in BOOLEAN
    OBVIOUS
  <2>2. Standing(ds[d]) \in Status
    BY StatusNames DEF Standing
  <2>3. ds[d] \in Participant
    BY DEF Drivers
  <2> QED BY <2>1, <2>2, <2>3, Zenon DEF Participant
<1> QED BY <1>1 DEF TimedDrivers, Drivers

LEMMA TimedArchiveType ==
  ASSUME NEW r \in Room, NEW ds \in Drivers, NEW ar \in Archive
  PROVE  TimedArchive(r, ds, ar) \in Archive
BY ArchivedType DEF TimedArchive

LEMMA RaceArchiveType ==
  ASSUME NEW r \in Room, NEW ds \in Drivers, NEW ar \in Archive
  PROVE  RaceArchive(r, ds, ar) \in Archive
BY ArchivedType, RaceRoomType DEF RaceArchive

LEMMA SettledArchiveType ==
  ASSUME NEW r \in Room, NEW ds \in Drivers, NEW ar \in Archive
  PROVE  SettledArchive(r, ds, ar) \in Archive
BY TimedArchiveType, RaceArchiveType DEF SettledArchive

LEMMA SettleType ==
  ASSUME NEW r \in Room, NEW ds \in Drivers, archive \in Archive,
         Settle(r, ds, archive)
  PROVE  TypeOK'
BY SettledRoomType, TimedDriversType, SettledArchiveType
DEF Settle, TypeOK, Drivers, Archive

LEMMA ResetType ==
  ASSUME NEW p \in Participant
  PROVE  Reset(p) \in Participant
<1>1. Standing(p) \in Status
  BY StatusNames DEF Standing
<1> QED BY <1>1, Numbers, Zenon DEF Reset, Participant

LEMMA PreparedType ==
  ASSUME room \in Room, NEW p \in Participant
  PROVE  Prepared(p) \in Participant
<1>1. room.stage \in Stage \cup {NoStage}
  BY DEF Room
<1> QED BY <1>1, Numbers, Zenon DEF Prepared, Participant

LEMMA LapsedType ==
  ASSUME NEW p \in Participant
  PROVE  Lapsed(p) \in Participant
<1>1. ASSUME NEW out \in BOOLEAN
      PROVE  [p EXCEPT !.recovery = "none", !.finalLap = @ /\ p.connected,
                       !.status = IF out THEN "didNotFinish" ELSE @,
                       !.stopped = @ \/ out] \in Participant
  <2>1. (p.finalLap /\ p.connected) \in BOOLEAN /\ (p.stopped \/ out) \in BOOLEAN
    OBVIOUS
  <2>2. (IF out THEN "didNotFinish" ELSE p.status) \in Status
    BY StatusNames DEF Participant
  <2> QED BY <2>1, <2>2, Zenon DEF Participant
<1> QED BY <1>1 DEF Lapsed

LEMMA CreditedType ==
  ASSUME room \in Room, NEW p \in Participant, NEW e \in LapEvent
  PROVE  Credited(p, e) \in Participant
<1> DEFINE noted == [p EXCEPT !.lastLap = e.lap, !.lastValid = e.valid,
                     !.receipts = @ \cup {[event |-> e, stage |-> room.stage]},
                     !.recovery = "none", !.finalLap = FALSE]
<1>1. e \in [id : LapId, stage : Nat, lap : Nat \ {0}, valid : BOOLEAN]
  BY LapEventAssumption
<1>2. [event |-> e, stage |-> room.stage] \in Receipt
  BY DEF Receipt, Room
<1>3. p.receipts \cup {[event |-> e, stage |-> room.stage]} \in SUBSET Receipt
  BY <1>2 DEF Participant
<1>4. noted \in Participant
  BY <1>1, <1>3, Zenon DEF Participant
<1>5. [noted EXCEPT !.laps = @ + 1] \in Participant
  <2> HIDE DEF noted
  <2> QED BY <1>4 DEF Participant
<1> QED BY <1>4, <1>5 DEF Credited

LEMMA EachType ==
  ASSUME driver \in Drivers,
         NEW new, \A d \in Driver : new[d] \in Participant
  PROVE  Each(new) \in Drivers
BY DEF Each, Drivers

LEMMA ClearedType ==
  ASSUME driver \in Drivers
  PROVE  Cleared \in Drivers
<1>1. \A d \in Driver : [Reset(driver[d]) EXCEPT !.dsqRecord = FALSE] \in Participant
  <2>1. \A p \in Participant : [p EXCEPT !.dsqRecord = FALSE] \in Participant
    BY Zenon DEF Participant
  <2> QED BY <2>1, ResetType DEF Drivers
<1> QED BY <1>1, EachType DEF Cleared

LEMMA GriddedType ==
  ASSUME driver \in Drivers
  PROVE  Gridded \in Drivers
BY ResetType, EachType DEF Gridded, Drivers

LEMMA ContinuedType ==
  ASSUME driver \in Drivers
  PROVE  Continued \in Drivers
<1>1. ASSUME NEW p \in Participant
      PROVE  [p EXCEPT !.status = Standing(p), !.laps = 0, !.recovery = "none",
                       !.finalLap = FALSE] \in Participant
  <2>1. Standing(p) \in Status
    BY StatusNames DEF Standing
  <2> QED BY <2>1, Numbers, Zenon DEF Participant
<1> QED BY <1>1, EachType DEF Continued, Drivers

LEMMA PrunedType ==
  ASSUME NEW ds \in Drivers, NEW old
  PROVE  Pruned(ds, old) \in Drivers
BY SeatTypes DEF Pruned, Drivers

LEMMA NoClockType ==
  ASSUME NEW r \in Room
  PROVE  NoClock(r) \in Room
BY Numbers, Zenon DEF NoClock, Room

LEMMA OpenedType ==
  ASSUME NEW r \in Room, r.stages < MaxStage
  PROVE  Opened(r) \in Room
<1>1. r.stages + 1 \in Stage /\ r.stages + 1 \in 0..MaxStage
  BY BoundAssumption DEF Room, Stage
<1> QED BY <1>1, Zenon DEF Opened, Room

LEMMA ClosedType ==
  ASSUME room \in Room, driver \in Drivers, archive \in Archive
  PROVE  Closed \in Archive
BY ArchivedType, CompleteType DEF Closed

-----------------------------------------------------------------------------
(* Type correctness, action by action *)

LEMMA SeatsType ==
  ASSUME TypeOK, Seats
  PROVE  TypeOK'
<1> USE DEF TypeOK, Drivers, Archive
<1>1. PICK d \in Driver : Login(d) \/ Resume(d) \/ Disconnect(d) \/ Release(d) \/ SetReady(d)
  BY DEF Seats
<1>2. driver[d] \in Participant
  OBVIOUS
<1>3. CASE Login(d)
  <2>1. [FreeSeat EXCEPT !.seat = "held", !.status = "active", !.connected = TRUE]
          \in Participant
    BY SeatTypes, StatusNames, Zenon DEF Participant
  <2> QED BY <1>3, <2>1 DEF Login
<1>4. CASE Resume(d)
  <2> DEFINE late == /\ room.flag = "chequered"
                     /\ room.phase \in {"race", "finished"}
                     /\ driver[d].recovery # "open"
             seat == [driver[d] EXCEPT !.connected = TRUE,
                        !.status = IF late THEN "didNotFinish" ELSE "active",
                        !.stopped = @ \/ late]
             back == [driver EXCEPT ![d].connected = TRUE,
                        ![d].status = IF late THEN "didNotFinish" ELSE "active",
                        ![d].stopped = @ \/ late]
  <2>1. (IF late THEN "didNotFinish" ELSE "active") \in Status
    BY StatusNames
  <2>2. (driver[d].stopped \/ late) \in BOOLEAN
    OBVIOUS
  <2>3. seat \in Participant
    BY <1>2, <2>1, <2>2, Zenon DEF Participant
  <2>4. back = [driver EXCEPT ![d] = seat]
    OBVIOUS
  <2>5. back \in Drivers
    BY <2>3, <2>4
  <2> QED BY <1>4, <2>5, RaceRoomType, RaceArchiveType DEF Resume
<1>5. CASE Disconnect(d)
  <2> DEFINE status == IF driver[d].status \in Terminal
                       THEN driver[d].status ELSE "disconnected"
             recoverable == /\ RecoveryEnabled
                            /\ status = "disconnected"
                            /\ (IF room.phase = "suspended" THEN room.before
                                ELSE room.phase) \in ResultPhases
             seat == [driver[d] EXCEPT !.connected = FALSE, !.status = status,
                        !.recovery = IF recoverable THEN "open" ELSE "none",
                        !.finalLap = @ /\ recoverable]
             left == [driver EXCEPT ![d].connected = FALSE, ![d].status = status,
                        ![d].recovery = IF recoverable THEN "open" ELSE "none",
                        ![d].finalLap = @ /\ recoverable]
  <2>1. status \in Status
    BY <1>2, StatusNames DEF Participant
  <2>2. /\ (driver[d].finalLap /\ recoverable) \in BOOLEAN
        /\ (IF recoverable THEN "open" ELSE "none") \in {"none", "open", "lapsed"}
    OBVIOUS
  <2>3. seat \in Participant
    <3> HIDE DEF status, recoverable
    <3> QED BY <1>2, <2>1, <2>2, Zenon DEF Participant
  <2>4. left = [driver EXCEPT ![d] = seat]
    <3> HIDE DEF status, recoverable
    <3> QED OBVIOUS
  <2>5. left \in Drivers
    BY <2>3, <2>4
  <2> QED BY <1>5, <2>5, SettleType DEF Disconnect
<1>6. CASE Release(d)
  <2> DEFINE racing == room.phase = "race"
             seat == [driver[d] EXCEPT !.connected = FALSE,
                        !.status = IF @ \in Terminal THEN @
                                   ELSE IF racing THEN "didNotFinish" ELSE "disconnected",
                        !.stopped = @ \/ racing,
                        !.recovery = "none",
                        !.finalLap = FALSE]
             out == [driver EXCEPT ![d] = seat]
  <2>1. PICK cut :
          /\ room' = SettledRoom(room, out)
          /\ driver' = [TimedDrivers(room, out, cut) EXCEPT ![d] = GoneSeat]
          /\ archive' = Archived(room', TimedDrivers(room, out, cut),
                                 SettledArchive(room, out, archive),
                                 ResultIsComplete(room', TimedDrivers(room, out, cut)))
    BY <1>6 DEF Release
  <2>2. (IF driver[d].status \in Terminal THEN driver[d].status
         ELSE IF racing THEN "didNotFinish" ELSE "disconnected") \in Status
    BY <1>2, StatusNames DEF Participant
  <2>3. (driver[d].stopped \/ racing) \in BOOLEAN
    OBVIOUS
  <2>4. seat \in Participant
    <3> HIDE DEF racing
    <3> QED BY <1>2, <2>2, <2>3, Zenon DEF Participant
  <2>5. out \in Drivers
    <3> HIDE DEF seat
    <3> QED BY <2>4
  <2> HIDE DEF out
  <2>6. room' \in Room
    BY <2>1, SettledRoomType
  <2>7. TimedDrivers(room, out, cut) \in Drivers
    BY <2>5, TimedDriversType
  <2>8. driver' \in Drivers
    BY <2>1, <2>7, SeatTypes
  <2>9. archive' \in Archive
    BY <2>1, <2>5, <2>6, <2>7, SettledArchiveType, CompleteType, ArchivedType
  <2> QED BY <2>6, <2>8, <2>9
<1>7. CASE SetReady(d)
  <2>1. \A p \in Participant : [p EXCEPT !.status = "active"] \in Participant
    BY StatusNames, Zenon DEF Participant
  <2> QED BY <1>2, <1>7, <2>1 DEF SetReady
<1> QED BY <1>1, <1>3, <1>4, <1>5, <1>6, <1>7

LEMMA LapsType ==
  ASSUME TypeOK, Laps
  PROVE  TypeOK'
<1> USE DEF TypeOK, Drivers, Archive
<1>1. \A p \in Participant : [p EXCEPT !.status = "active"] \in Participant
  BY StatusNames, Zenon DEF Participant
<1>2. ASSUME NEW d \in Driver, Telemetry(d)
      PROVE  TypeOK'
  BY <1>1, <1>2, PreparedType DEF Telemetry
<1>3. ASSUME NEW d \in Driver, NEW e \in LapEvent, RejectLap(d, e)
      PROVE  TypeOK'
  BY <1>3, PreparedType DEF RejectLap
<1>4. ASSUME NEW d \in Driver, NEW e \in LapEvent, NEW recovered \in BOOLEAN,
             CompleteLap(d, e, recovered)
      PROVE  TypeOK'
  <2> DEFINE q == Credited(Prepared(driver[d]), e)
             done == Finishes(q, e)
             ds == [driver EXCEPT ![d] =
                      IF done THEN [q EXCEPT !.status = "finished", !.stopped = TRUE] ELSE q]
             r == IF done THEN [room EXCEPT !.flag = "chequered"] ELSE room
  <2>1. q \in Participant
    BY PreparedType, CreditedType
  <2>2. [q EXCEPT !.status = "finished", !.stopped = TRUE] \in Participant
    <3> HIDE DEF q
    <3> QED BY <2>1, StatusNames, Zenon DEF Participant
  <2>3. ds \in Drivers
    BY <2>1, <2>2
  <2>4. r \in Room
    BY Zenon DEF Room
  <2>5. Settle(r, ds, archive)
    BY <1>4 DEF CompleteLap
  <2> QED BY <2>3, <2>4, <2>5, SettleType
<1> QED BY <1>2, <1>3, <1>4 DEF Laps

LEMMA SessionsType ==
  ASSUME TypeOK, Sessions
  PROVE  TypeOK'
<1> USE DEF TypeOK, Drivers, Archive
<1>1. Closed \in Archive
  BY ClosedType
<1>2. NoClock(room) \in Room
  BY NoClockType
<1>3. ASSUME ToLobby
      PROVE  TypeOK'
  <2>1. [NoClock(room) EXCEPT !.phase = "lobby", !.flag = "green", !.stage = NoStage]
          \in Room
    BY <1>2, PhaseNames, Numbers, Zenon DEF Room
  <2> QED BY <1>1, <1>3, <2>1, ClearedType, PrunedType DEF ToLobby
<1>4. ASSUME NEW kind \in {"practice", "qualifying"}, ToTimed(kind)
      PROVE  TypeOK'
  <2>1. CASE NextSession(kind)
    <3>1. Opened(room) \in Room
      BY <1>4, OpenedType DEF ToTimed
    <3>2. room' = [Opened(room) EXCEPT !.session = Opened(room).session + 1,
                                       !.clock = "running", !.expired = FALSE]
      BY <1>4, <2>1 DEF ToTimed
    <3>3. Opened(room).session + 1 \in 0..3
      <4>1. Opened(room).session = room.session
        BY Zenon DEF Opened, Room
      <4>2. room.session < room.sessions
        BY <2>1 DEF NextSession
      <4> QED BY <4>1, <4>2 DEF Room
    <3>4. room' \in Room
      BY <3>1, <3>2, <3>3, Zenon DEF Room
    <3> QED BY <1>1, <1>4, <2>1, <3>4, ContinuedType DEF ToTimed
  <2>2. CASE ~NextSession(kind)
    <3>1. NoClock(room).stages < MaxStage
      <4>1. NoClock(room).stages = room.stages
        BY Zenon DEF NoClock, Room
      <4> QED BY <1>4, <4>1 DEF ToTimed
    <3>2. Opened(NoClock(room)) \in Room
      BY <1>2, <3>1, OpenedType
    <3>3. PracticeSessions \in 1..3 /\ QualifyingSessions \in 1..3
      BY BoundAssumption
    <3>4. (IF kind = "practice" THEN PracticeSessions ELSE QualifyingSessions) \in 1..3
      BY <3>3
    <3>5. kind \in Phase
      BY PhaseNames
    <3>6. room' \in Room
      <4>1. room' = [Opened(NoClock(room)) EXCEPT
                       !.phase = kind, !.session = 1, !.clock = "running",
                       !.sessions = IF kind = "practice" THEN PracticeSessions
                                    ELSE QualifyingSessions]
        BY <1>4, <2>2 DEF ToTimed
      <4> QED BY <3>2, <3>4, <3>5, <4>1, Numbers, Zenon DEF Room
    <3>7. driver' \in Drivers
      <4> DEFINE new == [d \in Driver |->
                          [Cleared[d] EXCEPT !.eligible = kind = "practice"
                                                          \/ driver[d].connected]]
      <4>1. driver' = Each(new)
        BY <1>4, <2>2 DEF ToTimed
      <4>2. ASSUME NEW d \in Driver
            PROVE  new[d] \in Participant
        <5>1. (kind = "practice" \/ driver[d].connected) \in BOOLEAN
          OBVIOUS
        <5>2. Cleared[d] \in Participant
          BY ClearedType
        <5> QED BY <5>1, <5>2, Zenon DEF Participant
      <4> QED BY <4>1, <4>2, EachType
    <3> QED BY <1>1, <1>4, <3>6, <3>7 DEF ToTimed
  <2> QED BY <2>1, <2>2
<1>5. ASSUME ToGrid
      PROVE  TypeOK'
  <2>1. [room EXCEPT !.phase = "grid", !.stage = NoStage, !.flag = "green",
                     !.clock = "none", !.expired = FALSE] \in Room
    BY PhaseNames, Numbers, Zenon DEF Room
  <2>2. \A p \in Participant :
          [p EXCEPT !.status = "active", !.finalLap = FALSE] \in Participant
    BY StatusNames, Zenon DEF Participant
  <2> DEFINE new == [d \in Driver |->
                      IF driver[d].connected
                      THEN [driver[d] EXCEPT !.status = "active", !.finalLap = FALSE]
                      ELSE driver[d]]
  <2>3. \A d \in Driver : new[d] \in Participant
    BY <2>2
  <2>4. Each(new) \in Drivers
    <3> HIDE DEF new
    <3> QED BY <2>3, EachType
  <2> QED BY <1>1, <1>5, <2>1, <2>4 DEF ToGrid
<1>6. ASSUME NEW phase, ToStart(phase)
      PROVE  TypeOK'
  <2>1. phase \in Phase
    BY <1>6, PhaseNames DEF ToStart
  <2>2. [room EXCEPT !.phase = phase, !.flag = "green", !.stage = NoStage] \in Room
    BY <2>1, Numbers, Zenon DEF Room
  <2>3. [NoClock(room) EXCEPT !.phase = phase, !.flag = "green", !.stage = NoStage]
          \in Room
    BY <1>2, <2>1, Numbers, Zenon DEF Room
  <2> QED BY <1>1, <1>6, <2>2, <2>3, GriddedType DEF ToStart
<1>7. ASSUME NEW force \in BOOLEAN, Countdown(force)
      PROVE  TypeOK'
  BY <1>6, <1>7 DEF Countdown
<1>8. ASSUME ToRace
      PROVE  TypeOK'
  <2>1. \A r \in Room : [r EXCEPT !.phase = "race"] \in Room
    BY PhaseNames, Zenon DEF Room
  <2>2. NoClock(room).stages = room.stages
    BY Zenon DEF NoClock, Room
  <2>3. Opened(room) \in Room /\ Opened(NoClock(room)) \in Room
    BY <1>2, <1>8, <2>2, OpenedType DEF ToRace
  <2> QED BY <1>1, <1>8, <2>1, <2>3, GriddedType DEF ToRace
<1>9. ASSUME RefuseFinish
      PROVE  TypeOK'
  <2>1. [room EXCEPT !.stage = NoStage] \in Room
    BY Numbers, Zenon DEF Room
  <2> QED BY <1>1, <1>9, <2>1 DEF RefuseFinish
<1>10. ASSUME BeginEvent
       PROVE  TypeOK'
  <2>1. NoClock(room).event = room.event
    BY Zenon DEF NoClock, Room
  <2>2. NoClock(room).event + 1 \in 1..MaxEvent
    BY <1>10, <2>1, BoundAssumption DEF BeginEvent, Room
  <2>3. [NoClock(room) EXCEPT !.phase = "lobby", !.flag = "green", !.stage = NoStage,
                              !.event = @ + 1] \in Room
    BY <1>2, <2>2, PhaseNames, Numbers, Zenon DEF Room
  <2> QED BY <1>1, <1>10, <2>3, ClearedType, PrunedType DEF BeginEvent
<1> QED BY <1>3, <1>4, <1>5, <1>6, <1>7, <1>8, <1>9, <1>10 DEF Sessions

LEMMA ControlType ==
  ASSUME TypeOK, Control
  PROVE  TypeOK'
<1> USE DEF TypeOK, Drivers, Archive
<1>1. ASSUME RedFlag
      PROVE  TypeOK'
  <2>1. room.phase \in Phase \ {"suspended"}
    BY <1>1 DEF RedFlag, Room
  <2>2. [room EXCEPT !.before = room.phase, !.phase = "suspended", !.flag = "red"] \in Room
    BY <2>1, PhaseNames, Zenon DEF Room
  <2> QED BY <1>1, <2>2 DEF RedFlag
<1>2. ASSUME GreenFlag
      PROVE  TypeOK'
  <2>1. room.before \in Phase
    BY DEF Room
  <2>2. [room EXCEPT !.phase = room.before, !.flag = "green"] \in Room
    BY <2>1, Zenon DEF Room
  <2> QED BY <1>2, <2>2 DEF GreenFlag
<1>3. ASSUME NEW d \in Driver, NEW status \in Status, Classify(d, status)
      PROVE  TypeOK'
  <2>1. \A p \in Participant : [p EXCEPT !.status = status, !.stopped = TRUE] \in Participant
    BY Zenon DEF Participant
  <2>2. driver' = [driver EXCEPT ![d] = [driver[d] EXCEPT !.status = status, !.stopped = TRUE]]
    BY <1>3 DEF Classify
  <2>3. driver' \in Drivers
    BY <2>1, <2>2, Zenon
  <2> QED BY <1>3, <2>3 DEF Classify
<1>4. ASSUME NEW d \in Driver, Penalise(d)
      PROVE  TypeOK'
  <2>1. \A p \in Participant :
          [p EXCEPT !.status = "disqualified", !.dsqRecord = TRUE] \in Participant
    BY StatusNames, Zenon DEF Participant
  <2>2. driver' = [driver EXCEPT ![d] = [driver[d] EXCEPT !.status = "disqualified",
                                                          !.dsqRecord = TRUE]]
    BY <1>4 DEF Penalise
  <2>3. driver' \in Drivers
    BY <2>1, <2>2, Zenon
  <2> QED BY <1>4, <2>3 DEF Penalise
<1>5. ASSUME NEW d \in Driver, Revoke(d)
      PROVE  TypeOK'
  <2>1. \A p \in Participant, s \in Status : [p EXCEPT !.status = s] \in Participant
    BY Zenon DEF Participant
  <2> QED BY <1>5, <2>1, StatusNames DEF Revoke
<1> QED BY <1>1, <1>2, <1>3, <1>4, <1>5, StatusNames DEF Control

LEMMA TimeType ==
  ASSUME TypeOK, Time
  PROVE  TypeOK'
<1> USE DEF TypeOK, Drivers, Archive
<1>1. ASSUME NEW d \in Driver, WindowLapses(d)
      PROVE  TypeOK'
  <2>1. \A p \in Participant : [p EXCEPT !.recovery = "lapsed"] \in Participant
    BY Zenon DEF Participant
  <2> QED BY <1>1, <2>1 DEF WindowLapses
<1>2. ASSUME TickLobby
      PROVE  TypeOK'
  BY <1>2, PrunedType DEF TickLobby
<1>3. ASSUME TickRecovery
      PROVE  TypeOK'
  <2> DEFINE new == [d \in Driver |-> Lapsed(driver[d])]
  <2>1. \A d \in Driver : new[d] \in Participant
    BY LapsedType
  <2>2. Each(new) \in Drivers
    <3> HIDE DEF new
    <3> QED BY <2>1, EachType
  <2>3. Settle(room, Each(new), archive)
    BY <1>3 DEF TickRecovery
  <2> QED BY <2>2, <2>3, SettleType
<1>4. ASSUME TickStart
      PROVE  TypeOK'
  <2>1. \A r \in Room : [r EXCEPT !.phase = "race"] \in Room
    BY PhaseNames, Zenon DEF Room
  <2> QED BY <1>4, <2>1, OpenedType DEF TickStart
<1>5. ASSUME TickExpiry
      PROVE  TypeOK'
  <2> DEFINE r == [room EXCEPT !.flag = "chequered", !.expired = TRUE]
             new(onLap) == [d \in Driver |-> [driver[d] EXCEPT !.finalLap = d \in onLap]]
  <2>1. PICK onLap : Settle(r, Each(new(onLap)), archive)
    BY <1>5 DEF TickExpiry
  <2>2. r \in Room
    BY Zenon DEF Room
  <2>3. \A p \in Participant, x \in BOOLEAN : [p EXCEPT !.finalLap = x] \in Participant
    BY Zenon DEF Participant
  <2>4. ASSUME NEW d \in Driver
        PROVE  new(onLap)[d] \in Participant
    <3>1. (d \in onLap) \in BOOLEAN /\ driver[d] \in Participant
      OBVIOUS
    <3> QED BY <2>3, <3>1, Zenon
  <2>5. Each(new(onLap)) \in Drivers
    <3> HIDE DEF new
    <3> QED BY <2>4, EachType
  <2> QED BY <2>1, <2>2, <2>5, SettleType
<1> QED BY <1>1, <1>2, <1>3, <1>4, <1>5 DEF Time, Tick

LEMMA InitType == Init => TypeOK
<1> SUFFICES ASSUME Init PROVE TypeOK
  OBVIOUS
<1>1. room \in Room
  BY BoundAssumption DEF Init, Room, Phase, NoStage, Stage
<1>2. driver \in [Driver -> Participant]
  BY SeatTypes DEF Init
<1>3. NoResult \in Result
  BY BoundAssumption DEF NoResult, Result
<1> QED BY <1>1, <1>2, <1>3 DEF TypeOK, Init

LEMMA StepType == TypeOK /\ [Next]_vars => TypeOK'
<1>1. TypeOK /\ UNCHANGED vars => TypeOK'
  BY DEF TypeOK, vars
<1> QED BY <1>1, SeatsType, LapsType, SessionsType, ControlType, TimeType DEF Next

\* Type correctness: no handler takes a field of the room, of a participant
\* or of the result history out of its range, for any number of drivers.
THEOREM TypeCorrect == Spec => []TypeOK
BY InitType, StepType, PTL DEF Spec

=============================================================================
