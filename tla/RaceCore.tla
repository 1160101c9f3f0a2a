------------------------------ MODULE RaceCore ------------------------------
(***************************************************************************)
(* The authoritative state machine of a race room: RaceCore in             *)
(* cloudflare/src/race-core.ts.  Drivers take, lose, resume and release    *)
(* seats; race control moves the room through its phases; clients report   *)
(* completed laps, which may be repeated, late or out of order; a clock    *)
(* tick expires sessions, lap-recovery windows and lobby seats.  Every     *)
(* handler ends in the same completion checks, and a stage that ends is    *)
(* archived.                                                               *)
(*                                                                         *)
(* Data no property tells apart is abstracted.  The five statuses of a     *)
(* driver who takes part (connected, ready, onTrack, inPitLane, inService) *)
(* are "active"; the flags green and yellow are "green"; lap times are     *)
(* left out, so which drivers qualifying eliminates is a choice; an        *)
(* instant is read only through the comparison the code makes with it.     *)
(* A run has minimumRequiredPitStops = 0.                                  *)
(***************************************************************************)
EXTENDS Naturals, FiniteSets

CONSTANTS
  Driver,           \* participant ids that login can hand out
  LapId,            \* event ids of lap reports
  LapEvent,         \* lap reports clients may send: [id, stage, lap, valid]
  TotalLaps,        \* totalRaceLaps
  PracticeSessions, \* practiceSessionCount of a practice command
  QualifyingSessions, \* qualifyingSessionCount of a qualifying command
  Elimination,      \* qualifyingEliminationCounts: session -> drivers out
  RecoveryEnabled,  \* disconnectedLapRecoveryEnabled
  SessionInput,     \* phases that race control may command
  ControlInput,     \* other commands that race control may issue
  MaxStage,         \* bound: result stages opened in a behaviour
  MaxEvent          \* bound: events prepared in a behaviour

ASSUME LapEventAssumption ==
  /\ IsFiniteSet(LapEvent)
  /\ LapEvent \subseteq [id : LapId, stage : Nat, lap : Nat \ {0}, valid : BOOLEAN]

\* resultHistory keeps its last 24 entries; no behaviour here drops one.
ASSUME BoundAssumption ==
  /\ MaxStage \in 0..24
  /\ MaxEvent \in Nat \ {0}
  /\ TotalLaps \in Nat \ {0}
  /\ PracticeSessions \in 1..3
  /\ QualifyingSessions \in 1..3
  /\ Elimination \in [1..2 -> Nat]
  /\ RecoveryEnabled \in BOOLEAN

VARIABLES
  room,    \* the fields of StoredRaceState that belong to nobody
  driver,  \* participants, by id
  archive  \* resultHistory, by stage id

vars == <<room, driver, archive>>

-----------------------------------------------------------------------------
(* State *)

NoStage == 0
Stage == 1..MaxStage

Phase == {"lobby", "practice", "qualifying", "grid", "outLap", "formationLap",
          "countdown", "race", "suspended", "finished"}
ResultPhases == {"practice", "qualifying", "race"}

Terminal == {"finished", "didNotFinish", "disqualified"}
Status == Terminal \cup {"active", "disconnected"}

Room ==
  [phase : Phase,
   before : Phase \ {"suspended"},       \* phaseBeforeSuspension
   flag : {"green", "red", "chequered"},
   stage : Stage \cup {NoStage},         \* activeResultStageId
   stages : 0..MaxStage,                 \* stage ids handed out so far
   event : 1..MaxEvent,                  \* eventId
   session : 0..3,                       \* practice/qualifyingSessionNumber
   sessions : 1..3,                      \* practice/qualifyingSessionCount
   clock : {"none", "running"},          \* practice/qualifyingEndsAt is set
   expired : BOOLEAN]                    \* practice/qualifyingTimeExpired

\* A lap report that was accepted, and the stage it was credited in.
Receipt == [event : LapEvent, stage : Stage \cup {NoStage}]

Participant ==
  [seat : {"free", "held", "gone"},      \* gone: removed, its token is useless
   status : Status,
   connected : BOOLEAN,                  \* isConnected
   laps : Nat,                           \* completedLaps
   lapStage : Stage \cup {NoStage},      \* lapValidationStageId
   lastLap : Nat,                        \* lastReportedLapNumber, 0 if null
   lastValid : BOOLEAN,                  \* lastReportedLapWasValid
   receipts : SUBSET Receipt,            \* lapReceiptStatuses
   recovery : {"none", "open", "lapsed"}, \* disconnectedLapRecoveryUntil
   stopped : BOOLEAN,                    \* finishedAt is set
   finalLap : BOOLEAN,                   \* practice/qualifyingFinalLapPending
   eligible : BOOLEAN,                   \* qualifyingEligible
   dsqRecord : BOOLEAN]                  \* penalties holds a disqualification

\* A driver of an archived result, or "absent".
Result ==
  [phase : ResultPhases \cup {"none"},   \* none: not in resultHistory
   complete : BOOLEAN,
   event : 0..MaxEvent,
   entrant : [Driver -> Status \cup {"absent"}]]

FreeSeat ==
  [seat |-> "free", status |-> "disconnected", connected |-> FALSE, laps |-> 0,
   lapStage |-> NoStage, lastLap |-> 0, lastValid |-> FALSE, receipts |-> {},
   recovery |-> "none", stopped |-> FALSE, finalLap |-> FALSE,
   eligible |-> TRUE, dsqRecord |-> FALSE]

GoneSeat == [FreeSeat EXCEPT !.seat = "gone"]

NoResult ==
  [phase |-> "none", complete |-> FALSE, event |-> 0,
   entrant |-> [d \in Driver |-> "absent"]]

Init ==
  /\ room = [phase |-> "lobby", before |-> "lobby", flag |-> "green",
             stage |-> NoStage, stages |-> 0, event |-> 1, session |-> 0,
             sessions |-> 1, clock |-> "none", expired |-> FALSE]
  /\ driver = [d \in Driver |-> FreeSeat]
  /\ archive = [s \in Stage |-> NoResult]

Held(ds) == {d \in Driver : ds[d].seat = "held"}

-----------------------------------------------------------------------------
(* Archiving a stage *)

\* The stage whose result the room is producing, seen through a red flag.
ResultPhase(r) ==
  IF r.phase = "finished" THEN "race"
  ELSE IF r.phase = "suspended" THEN r.before
  ELSE r.phase

ResultIsComplete(r, ds) ==
  LET nonePending == \A d \in Held(ds) : ~ds[d].finalLap
  IN  \/ r.phase = "finished"
      \/ r.phase = "practice" /\ r.expired /\ r.clock = "none" /\ nonePending
      \/ r.phase = "qualifying" /\ r.expired /\ nonePending

\* Mutant: the entry is overwritten, without those who left.
ArchivedAfresh(r, ds, ar, complete) ==
  IF r.stage = NoStage \/ ResultPhase(r) \notin ResultPhases THEN ar
  ELSE [ar EXCEPT ![r.stage] =
          [phase |-> ResultPhase(r), complete |-> complete, event |-> r.event,
           entrant |-> [d \in Driver |-> IF ds[d].seat = "held"
                                         THEN ds[d].status ELSE "absent"]]]

\* An entry that is archived again keeps the entrants who left since.
Archived(r, ds, ar, complete) ==
  IF r.stage = NoStage \/ ResultPhase(r) \notin ResultPhases THEN ar
  ELSE [ar EXCEPT ![r.stage] =
          [phase |-> ResultPhase(r), complete |-> complete, event |-> r.event,
           entrant |-> [d \in Driver |-> IF ds[d].seat = "held"
                                         THEN ds[d].status
                                         ELSE @.entrant[d]]]]

-----------------------------------------------------------------------------
(* The completion checks every handler ends in *)

\* Mutant: a driver who left before the flag is waited for.
AwaitedIfAway(p) == p.status \notin Terminal \/ p.recovery = "open"

\* Somebody may still cross the line, or still send the lap of a crossing.
Awaited(p) ==
  \/ p.connected /\ p.status \notin Terminal \cup {"disconnected"}
  \/ p.recovery = "open"

RaceDone(r, ds) ==
  /\ r.phase = "race"
  /\ r.flag = "chequered"
  /\ \A d \in Held(ds) : ~Awaited(ds[d])

TimedDone(r, ds) ==
  /\ r.phase \in {"practice", "qualifying"}
  /\ r.expired
  /\ r.clock = "running"
  /\ \A d \in Held(ds) : ~ds[d].finalLap /\ ds[d].recovery # "open"

Standing(p) == IF p.connected THEN "active" ELSE "disconnected"

\* qualifyingEliminationCounts bounded by the field, one driver always stays.
Cuts(r, ds) ==
  LET field == {d \in Held(ds) : ds[d].eligible}
      fewer(m, n) == IF m < n THEN m ELSE n
  IN  IF TimedDone(r, ds) /\ r.phase = "qualifying" /\ r.session < r.sessions
        /\ field # {}
      THEN {c \in SUBSET field :
              Cardinality(c) = fewer(Elimination[r.session], Cardinality(field) - 1)}
      ELSE {{}}

\* completePracticeIfReady, completeQualifyingIfReady: the state after both,
\* when the drivers in cut are eliminated.
TimedRoom(r, ds) ==
  IF ~TimedDone(r, ds) THEN r
  ELSE IF r.phase = "practice" THEN [r EXCEPT !.clock = "none"]
  ELSE IF r.session < r.sessions
  THEN [r EXCEPT !.clock = "none", !.flag = "green"]
  ELSE [r EXCEPT !.phase = "grid", !.stage = NoStage, !.flag = "green",
                 !.clock = "none", !.expired = FALSE, !.session = 0]

TimedDrivers(r, ds, cut) ==
  IF ~TimedDone(r, ds) THEN ds
  ELSE [d \in Driver |->
         IF d \in Held(ds) /\ (ds[d].connected \/ d \in cut)
         THEN [ds[d] EXCEPT !.status = Standing(ds[d]), !.finalLap = FALSE,
                            !.eligible = @ /\ d \notin cut]
         ELSE ds[d]]

TimedArchive(r, ds, ar) ==
  IF TimedDone(r, ds) THEN Archived(r, ds, ar, TRUE) ELSE ar

\* tryCompleteRaceIfReady
RaceRoom(r, ds) == IF RaceDone(r, ds) THEN [r EXCEPT !.phase = "finished"] ELSE r

\* Mutant: archived before the phase says finished.
RaceArchiveEarly(r, ds, ar) ==
  IF RaceDone(r, ds) THEN Archived(r, ds, ar, ResultIsComplete(r, ds)) ELSE ar

RaceArchive(r, ds, ar) ==
  IF RaceDone(r, ds) THEN Archived(RaceRoom(r, ds), ds, ar, TRUE) ELSE ar

\* All three checks; at most one of them applies, since they ask for
\* different phases and a finished qualifying opens the grid.
SettledRoom(r, ds) == RaceRoom(TimedRoom(r, ds), ds)
SettledArchive(r, ds, ar) == RaceArchive(r, ds, TimedArchive(r, ds, ar))

Settle(r, ds, ar) ==
  \E cut \in Cuts(r, ds) :
    /\ room' = SettledRoom(r, ds)
    /\ driver' = TimedDrivers(r, ds, cut)
    /\ archive' = SettledArchive(r, ds, ar)

-----------------------------------------------------------------------------
(* Seats *)

\* A new participant.  Multi-session qualifying admits nobody new.
Login(d) ==
  /\ driver[d].seat = "free"
  /\ ~(room.phase = "qualifying" /\ room.sessions > 1)
  /\ driver' = [driver EXCEPT ![d] = [FreeSeat EXCEPT !.seat = "held",
                                      !.status = "active", !.connected = TRUE]]
  /\ UNCHANGED <<room, archive>>

\* The participant comes back with its resume token.
Resume(d) ==
  LET late == /\ room.flag = "chequered"
              /\ room.phase \in {"race", "finished"}
              /\ driver[d].recovery # "open"
      back == [driver EXCEPT ![d].connected = TRUE,
                 ![d].status = IF late THEN "didNotFinish" ELSE "active",
                 ![d].stopped = @ \/ late]
  IN  /\ driver[d].seat = "held"
      /\ driver' = back
      /\ room' = RaceRoom(room, back)
      /\ archive' = RaceArchive(room, back, archive)

\* A driver who leaves during a stage may be given 30 s to send a lap.
Disconnect(d) ==
  LET status == IF driver[d].status \in Terminal
                THEN driver[d].status ELSE "disconnected"
      recoverable == /\ RecoveryEnabled
                     /\ status = "disconnected"
                     /\ (IF room.phase = "suspended" THEN room.before
                         ELSE room.phase) \in ResultPhases
      left == [driver EXCEPT ![d].connected = FALSE,
                 ![d].status = status,
                 ![d].recovery = IF recoverable THEN "open" ELSE "none",
                 ![d].finalLap = @ /\ recoverable]
  IN  /\ driver[d].seat = "held"
      /\ driver[d].connected
      /\ Settle(room, left, archive)

\* Mutant: the participant is forgotten before the stage is archived.
ReleaseForgets(d) ==
  /\ driver[d].seat = "held"
  /\ driver' = [driver EXCEPT ![d] = GoneSeat]
  /\ room' = SettledRoom(room, driver')
  /\ archive' = Archived(room', driver', SettledArchive(room, driver', archive),
                         ResultIsComplete(room', driver'))

\* disconnectAndReleaseClient: the driver leaves for good, or control puts
\* it out.  The result of the stage keeps it; the room forgets it.
Release(d) ==
  LET p == driver[d]
      racing == room.phase = "race"
      out == [driver EXCEPT ![d] =
                [p EXCEPT !.connected = FALSE,
                   !.status = IF @ \in Terminal THEN @
                              ELSE IF racing THEN "didNotFinish" ELSE "disconnected",
                   !.stopped = @ \/ racing,
                   !.recovery = "none",
                   !.finalLap = FALSE]]
  IN  /\ p.seat = "held"
      /\ \E cut \in Cuts(room, out) :
           LET r == SettledRoom(room, out)
               ds == TimedDrivers(room, out, cut)
           IN  /\ room' = r
               /\ driver' = [ds EXCEPT ![d] = GoneSeat]
               /\ archive' = Archived(r, ds, SettledArchive(room, out, archive),
                                      ResultIsComplete(r, ds))

\* setReady: whatever the driver was before, it takes part again.
SetReady(d) ==
  /\ driver[d].seat = "held"
  /\ driver[d].connected
  /\ room.phase \in {"lobby", "practice", "grid"}
  /\ driver' = [driver EXCEPT ![d].status = "active"]
  /\ UNCHANGED <<room, archive>>

-----------------------------------------------------------------------------
(* Laps *)

\* prepareLapValidation: lap numbers start afresh in a new stage.
Prepared(p) ==
  IF p.lapStage = room.stage THEN p
  ELSE [p EXCEPT !.lapStage = room.stage, !.lastLap = 0, !.lastValid = FALSE]

\* validateLap: the report belongs to this stage, and its number is new; an
\* abandoned invalid lap may reuse its number.
LapValid(p, e) ==
  /\ e.stage \in {NoStage, room.stage}
  /\ e.lap >= p.lastLap
  /\ e.lap = p.lastLap => ~p.lastValid

\* Mutant: receipts are looked up among those of the stage.
ReportedInStage(p, e) ==
  \E r \in p.receipts : r.event.id = e.id /\ r.stage = room.stage

Reported(p, e) == \E r \in p.receipts : r.event.id = e.id

\* Telemetry opens the validation window of the stage.
Telemetry(d) ==
  /\ driver[d].seat = "held"
  /\ driver[d].connected
  /\ driver' = [driver EXCEPT ![d] =
       LET p == Prepared(@)
       IN  IF p.status \in Terminal THEN p ELSE [p EXCEPT !.status = "active"]]
  /\ UNCHANGED <<room, archive>>

\* The checks of completeLap that come before the lap's own validation.
LapAdmitted(p, recovered) ==
  /\ recovered => RecoveryEnabled /\ p.recovery = "open"
  /\ p.status \notin Terminal \cup {"disconnected"}
  /\ room.phase \in ResultPhases
  /\ room.phase = "qualifying" => p.eligible
  /\ room.phase \in {"practice", "qualifying"} /\ room.expired
       => p.finalLap \/ recovered

\* The driver's record once e is accepted.
Credited(p, e) ==
  LET noted == [p EXCEPT !.lastLap = e.lap,
                  !.lastValid = e.valid,
                  !.receipts = @ \cup {[event |-> e, stage |-> room.stage]},
                  !.recovery = "none",
                  !.finalLap = FALSE]
  IN  IF e.valid THEN [noted EXCEPT !.laps = @ + 1] ELSE noted

\* In a race a valid lap finishes the driver under the chequered flag, and
\* the leader's last lap brings that flag out.
Finishes(p, e) ==
  /\ room.phase = "race"
  /\ e.valid
  /\ room.flag = "chequered" \/ p.laps >= TotalLaps

CompleteLap(d, e, recovered) ==
  LET p == Prepared(driver[d])
      q == Credited(p, e)
      done == Finishes(q, e)
      ds == [driver EXCEPT ![d] =
               IF done THEN [q EXCEPT !.status = "finished", !.stopped = TRUE] ELSE q]
      r == IF done THEN [room EXCEPT !.flag = "chequered"] ELSE room
  IN  /\ driver[d].seat = "held"
      /\ driver[d].connected
      /\ ~Reported(driver[d], e)
      /\ LapAdmitted(driver[d], recovered)
      /\ LapValid(p, e)
      /\ Settle(r, ds, archive)

\* A refused report has still opened the validation window.
RejectLap(d, e) ==
  /\ driver[d].seat = "held"
  /\ driver[d].connected
  /\ ~Reported(driver[d], e)
  /\ \E recovered \in BOOLEAN : LapAdmitted(driver[d], recovered)
  /\ ~LapValid(Prepared(driver[d]), e)
  /\ driver' = [driver EXCEPT ![d] = Prepared(@)]
  /\ UNCHANGED <<room, archive>>

-----------------------------------------------------------------------------
(* Phases *)

\* Mutant: the lap count survives the stage.
ResetKeepingLaps(p) ==
  [p EXCEPT !.status = Standing(p), !.recovery = "none", !.stopped = FALSE,
            !.finalLap = FALSE, !.eligible = TRUE]

\* resetParticipant.  Lap receipts outlive the stage they were given in.
Reset(p) ==
  [p EXCEPT !.status = Standing(p), !.laps = 0, !.recovery = "none",
            !.stopped = FALSE, !.finalLap = FALSE, !.eligible = TRUE]

\* The seats that are held take their new value, the others stay.
Each(new) == [d \in Driver |-> IF d \in Held(driver) THEN new[d] ELSE driver[d]]

\* resetCompetitiveState forgets the penalties, prepareRace keeps them.
Cleared == Each([d \in Driver |-> [Reset(driver[d]) EXCEPT !.dsqRecord = FALSE]])
Gridded == Each([d \in Driver |-> Reset(driver[d])])

\* resetForNextQualifyingSession, resetForNextPracticeSession
Continued ==
  Each([d \in Driver |->
         IF room.phase = "qualifying" /\ ~driver[d].eligible THEN driver[d]
         ELSE [driver[d] EXCEPT !.status = Standing(driver[d]), !.laps = 0,
                                !.recovery = "none", !.finalLap = FALSE]])

\* Mutant: only the phase tells that the race has been run.
EventOpenByPhase == room.phase # "finished"

\* An event that has a complete race result runs no further stage.
EventOpen ==
  \A s \in Stage : ~(/\ archive[s].phase = "race"
                     /\ archive[s].complete
                     /\ archive[s].event = room.event)

\* What every phase command does first: the running stage is archived.
Closed == Archived(room, driver, archive, ResultIsComplete(room, driver))

NoClock(r) == [r EXCEPT !.session = 0, !.sessions = 1, !.clock = "none",
                        !.expired = FALSE]

\* A stage id that was never used.
Opened(r) == [r EXCEPT !.stage = r.stages + 1, !.stages = r.stages + 1,
                       !.flag = "green"]

\* pruneLobbyReservations: seats whose driver left five minutes ago.
Pruned(ds, old) == [d \in Driver |-> IF d \in old THEN GoneSeat ELSE ds[d]]
Away(ds) == {d \in Held(ds) : ~ds[d].connected}

ToLobby ==
  /\ "lobby" \in SessionInput
  /\ room' = [NoClock(room) EXCEPT !.phase = "lobby", !.flag = "green",
                                   !.stage = NoStage]
  /\ \E old \in SUBSET Away(driver) : driver' = Pruned(Cleared, old)
  /\ archive' = Closed

\* tryStartNextPracticeSession, tryStartNextQualifyingSession
NextSession(kind) ==
  /\ room.phase = kind
  /\ room.session < room.sessions
  /\ room.expired
  /\ room.clock = "none"
  /\ \A d \in Held(driver) : ~driver[d].finalLap

ToTimed(kind) ==
  /\ kind \in SessionInput
  /\ EventOpen
  /\ room.stages < MaxStage
  /\ archive' = Closed
  /\ IF NextSession(kind)
     THEN /\ room' = [Opened(room) EXCEPT !.session = @ + 1,
                                          !.clock = "running", !.expired = FALSE]
          /\ driver' = Continued
     ELSE /\ room' = [Opened(NoClock(room)) EXCEPT
                        !.phase = kind, !.session = 1, !.clock = "running",
                        !.sessions = IF kind = "practice" THEN PracticeSessions
                                     ELSE QualifyingSessions]
          /\ driver' = Each([d \in Driver |->
                              [Cleared[d] EXCEPT !.eligible = kind = "practice"
                                                              \/ driver[d].connected]])

\* The grid is drawn from the drivers as they stand; nothing is reset.
ToGrid ==
  /\ "grid" \in SessionInput
  /\ EventOpen
  /\ archive' = Closed
  /\ room' = [room EXCEPT !.phase = "grid", !.stage = NoStage,
                          !.flag = "green", !.clock = "none", !.expired = FALSE]
  /\ driver' = Each([d \in Driver |->
                      IF driver[d].connected
                      THEN [driver[d] EXCEPT !.status = "active", !.finalLap = FALSE]
                      ELSE driver[d]])

\* outLap, formationLap and countdown lead to the start.  A formation lap
\* that follows the out lap does not prepare the race again.
ToStart(phase) ==
  LET prepared == phase = "formationLap" /\ room.phase = "outLap"
  IN  /\ phase \in SessionInput \cap {"outLap", "formationLap", "countdown"}
      /\ EventOpen
      /\ archive' = Closed
      /\ room' = IF prepared THEN [room EXCEPT !.phase = phase, !.flag = "green",
                                                !.stage = NoStage]
                 ELSE [NoClock(room) EXCEPT !.phase = phase, !.flag = "green",
                                            !.stage = NoStage]
      /\ driver' = IF prepared THEN driver ELSE Gridded

\* preRaceCheck, of the warnings the state shows; the others (telemetry, pit
\* lane, track identity, readiness) may or may not be raised.
PreRaceWarning(other) ==
  \/ other
  \/ room.phase \notin {"grid", "outLap", "formationLap"}
  \/ Held(driver) = {}
  \/ \E d \in Held(driver) : ~driver[d].connected

Countdown(force) ==
  /\ force \/ \E other \in BOOLEAN : ~PreRaceWarning(other)
  /\ ToStart("countdown")

\* A race that does not follow a countdown is prepared on the spot.
ToRace ==
  /\ "race" \in SessionInput
  /\ EventOpen
  /\ room.stages < MaxStage
  /\ archive' = Closed
  /\ IF room.phase = "countdown"
     THEN /\ room' = [Opened(room) EXCEPT !.phase = "race"]
          /\ UNCHANGED driver
     ELSE /\ room' = [Opened(NoClock(room)) EXCEPT !.phase = "race"]
          /\ driver' = Gridded

\* The phase finished cannot be commanded.  The command is refused after the
\* running stage was archived and its id dropped.
RefuseFinish ==
  /\ "finished" \in SessionInput
  /\ room.phase # "finished"
  /\ room.stage # NoStage
  /\ archive' = Closed
  /\ room' = [room EXCEPT !.stage = NoStage]
  /\ UNCHANGED driver

\* Mutant: a second red flag suspends the suspension.
RedFlagAgain ==
  /\ "red" \in ControlInput
  /\ room' = [room EXCEPT !.before = room.phase, !.phase = "suspended", !.flag = "red"]
  /\ UNCHANGED <<driver, archive>>

\* applyFlag: red suspends whatever is running, green resumes it; a
\* chequered flag does not survive the suspension.
RedFlag ==
  /\ "red" \in ControlInput
  /\ room.phase # "suspended"
  /\ room' = [room EXCEPT !.before = room.phase, !.phase = "suspended", !.flag = "red"]
  /\ UNCHANGED <<driver, archive>>

GreenFlag ==
  /\ room.phase = "suspended"
  /\ room' = [room EXCEPT !.phase = room.before, !.flag = "green"]
  /\ UNCHANGED <<driver, archive>>

\* applyParticipant
Classify(d, status) ==
  /\ status \in ControlInput \cap {"didNotFinish", "disqualified"}
  /\ driver[d].seat = "held"
  /\ driver' = [driver EXCEPT ![d].status = status, ![d].stopped = TRUE]
  /\ UNCHANGED <<room, archive>>

\* applyPenalty and resolveInvestigation with a disqualification
Penalise(d) ==
  /\ "penalty" \in ControlInput
  /\ driver[d].seat = "held"
  /\ driver' = [driver EXCEPT ![d].status = "disqualified", ![d].dsqRecord = TRUE]
  /\ UNCHANGED <<room, archive>>

\* updatePenalty with isRevoked
Revoke(d) ==
  /\ driver[d].seat = "held"
  /\ driver[d].dsqRecord
  /\ driver[d].status = "disqualified"
  /\ driver' = [driver EXCEPT ![d].status = IF @ = "disqualified" /\ driver[d].stopped
                                            THEN "finished" ELSE "active"]
  /\ UNCHANGED <<room, archive>>

\* beginEvent with a new id: offline seats go, connected drivers stay.
BeginEvent ==
  /\ "event" \in ControlInput
  /\ room.phase \in {"lobby", "finished"}
  /\ room.event < MaxEvent
  /\ archive' = Closed
  /\ driver' = Pruned(Cleared, Away(driver))
  /\ room' = [NoClock(room) EXCEPT !.phase = "lobby", !.flag = "green",
                                   !.stage = NoStage, !.event = @ + 1]

-----------------------------------------------------------------------------
(* Time.  tick runs these parts in this order; a part that is not due does *)
(* nothing, and two that are due in one call act as two steps in a row.    *)

\* The 30 s of a recovery window run out.
WindowLapses(d) ==
  /\ driver[d].recovery = "open"
  /\ driver' = [driver EXCEPT ![d].recovery = "lapsed"]
  /\ UNCHANGED <<room, archive>>

TickLobby ==
  /\ room.phase = "lobby"
  /\ \E old \in SUBSET Away(driver) \ {{}} : driver' = Pruned(driver, old)
  /\ UNCHANGED <<room, archive>>

\* Mutant: the final lap of a driver who did not come back stays pending.
LapsedStillPending(p) ==
  IF p.recovery = "lapsed" THEN [p EXCEPT !.recovery = "none"] ELSE p

\* expireDisconnectedLapRecoveries
Lapsed(p) ==
  LET phase == IF room.phase = "suspended" THEN room.before ELSE room.phase
      out == /\ ~p.connected
             /\ phase = "race"
             /\ room.flag = "chequered"
             /\ p.status = "disconnected"
  IN  IF p.recovery # "lapsed" THEN p
      ELSE [p EXCEPT !.recovery = "none",
                     !.finalLap = @ /\ p.connected,
                     !.status = IF out THEN "didNotFinish" ELSE @,
                     !.stopped = @ \/ out]

\* Mutant: no completion check after the windows are closed.
TickRecoveryUnchecked ==
  /\ \E d \in Held(driver) : driver[d].recovery = "lapsed"
  /\ driver' = Each([d \in Driver |-> Lapsed(driver[d])])
  /\ UNCHANGED <<room, archive>>

TickRecovery ==
  /\ \E d \in Held(driver) : driver[d].recovery = "lapsed"
  /\ Settle(room, Each([d \in Driver |-> Lapsed(driver[d])]), archive)

\* The five lights go out.
TickStart ==
  /\ room.phase = "countdown"
  /\ room.stages < MaxStage
  /\ room' = [Opened(room) EXCEPT !.phase = "race"]
  /\ UNCHANGED <<driver, archive>>

\* Time is up in practice or qualifying: a driver who is out on a lap may
\* finish it.  Whether its telemetry shows one is the choice of onLap.
TickExpiry ==
  /\ room.phase \in {"practice", "qualifying"}
  /\ ~room.expired
  /\ room.clock = "running"
  /\ \E onLap \in SUBSET {d \in Held(driver) :
                            /\ driver[d].connected
                            /\ driver[d].status \in {"active", "finished"}
                            /\ room.phase = "qualifying" => driver[d].eligible} :
       Settle([room EXCEPT !.flag = "chequered", !.expired = TRUE],
              Each([d \in Driver |-> [driver[d] EXCEPT !.finalLap = d \in onLap]]),
              archive)

-----------------------------------------------------------------------------
Seats ==
  \E d \in Driver : Login(d) \/ Resume(d) \/ Disconnect(d) \/ Release(d) \/ SetReady(d)

Laps ==
  \E d \in Driver :
    \/ Telemetry(d)
    \/ \E e \in LapEvent : RejectLap(d, e)
    \/ \E e \in LapEvent, recovered \in BOOLEAN : CompleteLap(d, e, recovered)

Sessions ==
  \/ ToLobby
  \/ \E kind \in {"practice", "qualifying"} : ToTimed(kind)
  \/ ToGrid
  \/ \E phase \in {"outLap", "formationLap"} : ToStart(phase)
  \/ \E force \in BOOLEAN : Countdown(force)
  \/ ToRace
  \/ RefuseFinish
  \/ BeginEvent

Control ==
  \/ RedFlag
  \/ GreenFlag
  \/ \E d \in Driver : \/ \E status \in {"didNotFinish", "disqualified"} : Classify(d, status)
                       \/ Penalise(d)
                       \/ Revoke(d)

Tick == TickLobby \/ TickRecovery \/ TickStart \/ TickExpiry

Time == Tick \/ \E d \in Driver : WindowLapses(d)

Next == Seats \/ Laps \/ Sessions \/ Control \/ Time

Spec == Init /\ [][Next]_vars

\* Wall-clock time passes, and the room's alarm is always set for the next
\* instant tick has to act on.
Fairness ==
  /\ \A d \in Driver : WF_vars(WindowLapses(d))
  /\ WF_vars(TickRecovery)
  /\ WF_vars(TickStart)
  /\ WF_vars(TickExpiry)

FairSpec == Spec /\ Fairness
-----------------------------------------------------------------------------
(* Correctness *)

\* Every variable has its type.
TypeOK ==
  /\ room \in Room
  /\ driver \in [Driver -> Participant]
  /\ archive \in [Stage -> Result]

\* A driver's lap count in the running stage is the number of valid reports
\* accepted from it in that stage, whatever was repeated, delayed, refused or
\* recovered on the way (completeLap, and the resets at every stage change).
LapsCredited ==
  \A d \in Held(driver) :
    room.stage # NoStage /\ driver[d].eligible
      => driver[d].laps = Cardinality({r \in driver[d].receipts :
                                         r.stage = room.stage /\ r.event.valid})

\* A report is credited at most once in its life, and no two valid laps of a
\* stage carry the same number (lapReceiptStatuses, validateLap).
EachLapOnce ==
  \A d \in Driver : \A r, q \in driver[d].receipts :
    \/ r = q
    \/ /\ r.event.id # q.event.id
       /\ r.stage # NoStage /\ r.stage = q.stage /\ r.event.valid /\ q.event.valid
            => r.event.lap # q.event.lap

\* When the race is over its classification is in the archive, complete
\* (tryCompleteRaceIfReady, archiveActiveResult).
FinishedRaceIsArchived ==
  room.phase = "finished" =>
    /\ room.stage # NoStage
    /\ archive[room.stage].phase = "race"
    /\ archive[room.stage].complete
    /\ \A d \in Held(driver) : driver[d].laps > 0 => archive[room.stage].entrant[d] # "absent"

\* An event has one complete race result, however often its race was
\* stopped, abandoned and started again (applySession, beginEvent).
OneRacePerEvent ==
  \A s, t \in Stage :
    /\ archive[s].phase = "race" /\ archive[s].complete
    /\ archive[t].phase = "race" /\ archive[t].complete
    /\ archive[s].event = archive[t].event
    => s = t

\* A race under the chequered flag is only open for somebody: a driver on
\* track, a driver whose lap may still be recovered, or a window the next
\* tick closes (every handler that can take the last one away re-checks).
RaceOpenForSomebody ==
  room.phase = "race" /\ room.flag = "chequered" =>
    \E d \in Held(driver) : Awaited(driver[d]) \/ driver[d].recovery = "lapsed"

\* A timed session that waits for a final lap waits for a driver who can
\* still bring it: one on track, or one whose lap may still be recovered.
PendingLapCanCome ==
  \A d \in Held(driver) :
    driver[d].finalLap /\ room.phase \in {"practice", "qualifying"} =>
      \/ driver[d].connected /\ driver[d].status \notin Terminal
      \/ ~driver[d].connected /\ driver[d].recovery # "none"

\* A driver with a lap who leaves for good while a stage runs stays in its result
\* (disconnectAndReleaseClient archives before it forgets the participant).
DepartedKeepResult ==
  [][\A d \in Driver :
       /\ driver[d].seat = "held" /\ driver'[d].seat = "gone"
       /\ room.stage # NoStage /\ driver[d].laps > 0
       => archive'[room.stage].entrant[d] # "absent"]_vars

\* A complete race result stays one, and keeps its entrants, through every
\* later departure, suspension and new stage (archiveActiveResult).
RaceResultStays ==
  [][\A s \in Stage :
       archive[s].phase = "race" /\ archive[s].complete =>
         /\ archive'[s].phase = "race" /\ archive'[s].complete
         /\ \A d \in Driver : archive[s].entrant[d] # "absent"
                            => archive'[s].entrant[d] # "absent"]_vars

\* A race whose drivers have all gone under the chequered flag ends by itself
\* (the alarm of every recovery window, and the checks of disconnect).
DesertedRaceEnds ==
  (/\ room.phase = "race" /\ room.flag = "chequered"
   /\ \A d \in Held(driver) : ~driver[d].connected)
  ~> (room.phase # "race" \/ \E d \in Held(driver) : driver[d].connected)

\* A practice or qualifying session whose time is up and whose drivers have
\* all gone is closed.
DesertedSessionCloses ==
  (/\ room.phase \in {"practice", "qualifying"} /\ room.expired
   /\ \A d \in Held(driver) : ~driver[d].connected)
  ~> (\/ room.clock = "none"
      \/ room.phase \notin {"practice", "qualifying"}
      \/ \E d \in Held(driver) : driver[d].connected)

-----------------------------------------------------------------------------
(* What documents and tests say, and the code does not do *)

\* A driver who comes back keeps the classification it had.
ResumeKeepsClassification ==
  [][\A d \in Driver :
       /\ driver[d].seat = "held" /\ ~driver[d].connected
       /\ driver'[d].connected
       /\ driver[d].status \in Terminal
       => driver'[d].status = driver[d].status]_vars

\* A practice session whose result is frozen credits no further lap.
FrozenPracticeTakesNoLap ==
  [][room.phase = "practice" /\ room.expired /\ room.clock = "none"
       => \A d \in Driver : driver'[d].laps <= driver[d].laps]_vars

=============================================================================
