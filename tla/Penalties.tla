----------------------------- MODULE Penalties -----------------------------
(***************************************************************************)
(* Penalties and pit services of one driver of a race: completePitService, *)
(* applyPenalty, updatePenalty, updatePenaltyServiceState,                 *)
(* updatePitServiceState and the conversions between kinds of penalty in   *)
(* cloudflare/src/race-core.ts.  A driver's penalties depend on the other  *)
(* drivers only through the flag and the end of the race, so the others    *)
(* are the actions RivalTakesFlag and RivalsFinish.                        *)
(*                                                                         *)
(* A second is the unit of time.  A telemetry message carries where the    *)
(* car is, whether it stands (at most 1 km/h) and whether its game is      *)
(* paused; any number of seconds may have passed since the one before.     *)
(* Penalties of one kind are alike, so they are counted: those to be       *)
(* served by kind, and those that adjust the result.  Every time penalty   *)
(* has the same seconds.  Warnings and grid drops are only records and are *)
(* left out.                                                               *)
(***************************************************************************)
EXTENDS Naturals, FiniteSets

CONSTANTS
  TotalLaps, MinimumStops, RecoveryEnabled,
  FinalLaps,       \* laps left in which a drive-through becomes seconds: 3
  LinesAllowed,    \* lines crossed before a drive-through is overdue: 2
  Seconds,         \* of a time penalty
  Client,          \* "reporting": names its visits, or "old"
  Visit,           \* visits to the service zone
  MaxPenalty,      \* bound: penalties control gives, by client
  MaxService,      \* bound: services a report may claim
  MaxGap           \* bound: seconds between two telemetry messages

VARIABLES
  race,       \* phase and flag
  entrant,    \* the ParticipantState's status and live service state
  penalties,  \* how many of state.penalties are open, by kind
  stops       \* pit services: counted, visits first seen, visits counted

penaltyVars == <<race, entrant, penalties, stops>>

ASSUME PenaltyAssumption ==
  /\ TotalLaps \in Nat \ {0}
  /\ MinimumStops \in Nat
  /\ FinalLaps \in Nat
  /\ LinesAllowed \in Nat
  /\ RecoveryEnabled \in BOOLEAN
  /\ Seconds \in Nat \ {0}
  /\ MaxPenalty \in [Client -> Nat]
  /\ MaxService \in Nat
  /\ MaxGap \in Nat

Terminal == {"finished", "didNotFinish", "disqualified"}

\* On the track, standing and pausing change nothing here, and outside the
\* service zone an invalid message is like any other.
Update ==
  {u \in [at : {"track", "lane", "zone"}, stands : BOOLEAN,
          game : {"running", "paused", "invalid"}] :
     /\ u.at = "track" => ~u.stands /\ u.game = "running"
     /\ u.at = "lane" => u.game # "invalid"}

\* resetLivePenaltyServiceState
Live == [active |-> FALSE, attempted |-> FALSE, elapsed |-> 0, required |-> 0,
         since |-> 0, through |-> FALSE, slow |-> FALSE, stopped |-> FALSE,
         paused |-> FALSE]

PenaltiesInit ==
  /\ race = [phase |-> "race", flag |-> "green"]
  /\ entrant = [status |-> "racing", connected |-> TRUE, recovery |-> FALSE,
                finishedAt |-> FALSE, laps |-> 0, at |-> "track", crossings |-> 0,
                service |-> Live]
  /\ penalties = [time |-> 0, driveThrough |-> 0, stopAndGo |-> 0, adjustment |-> 0,
                  disqualification |-> 0, automatic |-> 0, given |-> 0]
  /\ \E client \in Client :
       stops = [client |-> client, services |-> 0, seen |-> [v \in Visit |-> "no"],
                counted |-> {}]

-----------------------------------------------------------------------------
(* The penalties of the driver *)

Served == {"time", "driveThrough", "stopAndGo"}
Recorded == Served \cup {"adjustment", "disqualification", "automatic"}

\* To be served on the track: neither served nor revoked nor an adjustment.
Owes(ps, kind) == ps[kind] > 0

\* pendingTimePenaltySeconds
SecondsDue(ps) == Seconds * ps.time

\* markPendingPenaltiesServed
Serve(ps, kind) == [ps EXCEPT ![kind] = 0]

\* A time penalty that adjusts the result.
Adjust(ps) == [ps EXCEPT !.adjustment = @ + 1]

CanExecute(r, c) ==
  /\ r.phase = "race" /\ r.flag # "chequered"
  /\ c.status \notin Terminal \cup {"disconnected"}

RequiresPostRace(r, c) ==
  \/ r.phase = "finished"
  \/ r.phase = "race" /\ r.flag = "chequered"
  \/ c.status \in Terminal

\* What the handlers below change together: the car and its penalties.
Pair(c, ps) == [car |-> c, ps |-> ps]

\* createDriveThroughPenalty, and the push of its caller
GiveDriveThrough(r, w) ==
  IF \/ RequiresPostRace(r, w.car)
     \/ r.phase = "race" /\ TotalLaps - w.car.laps <= FinalLaps
  THEN [w EXCEPT !.ps = Adjust(@)]
  ELSE Pair([w.car EXCEPT !.crossings = 0], [w.ps EXCEPT !.driveThrough = @ + 1])

\* convertDriveThroughToTimeAdjustment
DriveThroughToSeconds(w) ==
  IF ~Owes(w.ps, "driveThrough") THEN w
  ELSE Pair([w.car EXCEPT !.service.through = FALSE, !.service.slow = FALSE],
            Adjust(Serve(w.ps, "driveThrough")))

TimeServiceVoid(w) ==
  Pair([w.car EXCEPT !.service.active = FALSE, !.service.attempted = FALSE,
          !.service.elapsed = 0, !.service.required = 0, !.service.since = 0],
       Serve(w.ps, "time"))

\* Mutant: the failed stop is forgiven near the end of the race.
TimeForgivenLate(r, w) ==
  IF ~Owes(w.ps, "time") THEN w
  ELSE IF Owes(w.ps, "driveThrough") \/ TotalLaps - w.car.laps <= FinalLaps
       THEN TimeServiceVoid(w)
       ELSE GiveDriveThrough(r, TimeServiceVoid(w))

\* convertTimePenaltyToDriveThrough: all of the seconds become one
\* drive-through, or the one there is already.
TimeToDriveThrough(r, w) ==
  IF ~Owes(w.ps, "time") THEN w
  ELSE IF Owes(w.ps, "driveThrough") THEN TimeServiceVoid(w)
       ELSE GiveDriveThrough(r, TimeServiceVoid(w))

TimeToResult(ps) == [Serve(ps, "time") EXCEPT !.adjustment = @ + ps.time]

StopAndGoToResult(ps) ==
  IF Owes(ps, "stopAndGo") THEN Adjust(Serve(ps, "stopAndGo")) ELSE ps

\* Mutant: a drive-through is left as it is.
SettleTimeAtFinish(w) ==
  Pair([w.car EXCEPT !.service = Live], StopAndGoToResult(TimeToResult(w.ps)))

\* finalizePendingPenaltiesAtFinish
SettleAtFinish(w) ==
  LET v == DriveThroughToSeconds(Pair([w.car EXCEPT !.service = Live], TimeToResult(w.ps)))
  IN  [v EXCEPT !.ps = StopAndGoToResult(@)]

-----------------------------------------------------------------------------
(* Serving penalties: updatePenaltyServiceState, in the order of its parts *)

InLane(at) == at \in {"lane", "zone"}

Entering(w, u) ==
  IF InLane(u.at) /\ ~InLane(w.car.at)
  THEN [w EXCEPT !.car.service.stopped = FALSE, !.car.service.paused = FALSE,
                 !.car.service.slow = FALSE,
                 !.car.service.through = Owes(w.ps, "driveThrough")]
  ELSE w

\* A pause is noted while the visit is watched: nobody reads it otherwise.
Transit(w, u, gap) ==
  LET watched == w.car.service.through /\ InLane(u.at)
  IN  [w EXCEPT
        !.car.service.paused = @ \/ (watched /\ u.game = "paused"),
        !.car.service.stopped = @ \/ (watched /\ u.stands /\ w.car.service.slow /\ gap >= 1),
        !.car.service.slow = IF watched THEN u.stands ELSE @]

Least(m, n) == IF m < n THEN m ELSE n

\* The seconds since the service was last brought up to date run on while it
\* is active, whatever the car does.
ClockRuns(w, gap) ==
  [w EXCEPT !.car.service.since = IF w.car.service.active
              THEN Least(@ + gap, w.car.service.required) ELSE 0]

\* A message from a car that stands in its box.
Stand(w, due) ==
  LET s == w.car.service
      began == [s EXCEPT !.active = TRUE, !.attempted = TRUE, !.elapsed = 0,
                         !.required = due, !.since = 0]
      stayed == [s EXCEPT !.elapsed = Least(s.required, s.elapsed + s.since), !.since = 0]
      now == IF s.active THEN stayed ELSE began
      done == [now EXCEPT !.active = FALSE, !.attempted = FALSE]
  IN  IF now.elapsed >= now.required
      THEN Pair([w.car EXCEPT !.service = done], Serve(w.ps, "time"))
      ELSE [w EXCEPT !.car.service = now]

TimeService(r, w, u) ==
  LET due == SecondsDue(w.ps)
      s == w.car.service
      voided ==
        \/ u.at = "zone" /\ u.game # "running" /\ (s.active \/ s.attempted)
        \/ u.at = "zone" /\ u.game = "running" /\ ~u.stands /\ s.active /\ s.elapsed > 0
        \/ u.at # "zone" /\ w.car.at = "zone" /\ s.attempted
  IN  CASE due > 0 /\ voided -> TimeToDriveThrough(r, w)
        [] due > 0 /\ u.at = "zone" /\ u.game = "running" /\ u.stands -> Stand(w, due)
        [] OTHER -> w

\* The drive-through was driven: without a stop, without a pause.
DroveThrough(w) ==
  /\ w.car.service.through /\ ~w.car.service.stopped /\ ~w.car.service.paused
  /\ Owes(w.ps, "driveThrough")

Leaving(r, w, u) ==
  LET v == IF w.car.service.attempted THEN TimeToDriveThrough(r, w) ELSE w
      served == IF DroveThrough(v)
                THEN Pair([v.car EXCEPT !.crossings = 0], Serve(v.ps, "driveThrough"))
                ELSE v
  IN  IF InLane(w.car.at) /\ ~InLane(u.at)
      THEN [served EXCEPT !.car.service.through = FALSE, !.car.service.slow = FALSE,
                          !.car.service.stopped = FALSE, !.car.service.paused = FALSE]
      ELSE w

UpdatePenaltyService(r, w, u, gap) ==
  IF CanExecute(r, w.car)
  THEN Leaving(r, TimeService(r, ClockRuns(Transit(Entering(w, u), u, gap), gap), u), u)
  ELSE [w EXCEPT !.car.service = Live]

\* updatePitServiceState: a visit is noted when it is first seen, and an old
\* client, which names no visits, has its next service counted here.
NotePitService(w, u, v, met) ==
  LET blocked == CanExecute(race, w.car) /\
                   (SecondsDue(w.ps) > 0 \/ w.car.service.active)
      first == IF w.car.finishedAt THEN "late" ELSE "early"
  IN  IF u.at # "zone" THEN stops
      ELSE IF stops.client = "old"
           THEN [stops EXCEPT !.services = IF met /\ ~blocked THEN @ + 1 ELSE @]
           ELSE [stops EXCEPT !.seen[v] = IF @ = "no" THEN first ELSE @]

Sample(u, v, met, gap) ==
  LET w == UpdatePenaltyService(race, Pair(entrant, penalties), u, gap)
  IN  /\ entrant.connected
      /\ met => stops.client = "old" /\ u.at = "zone" /\ stops.services < MinimumStops
      /\ gap > 0 => entrant.service.active \/ entrant.service.slow  \* bound: else unread
      /\ entrant' = [w.car EXCEPT !.at = u.at]
      /\ penalties' = w.ps
      /\ stops' = NotePitService(w, u, v, met)
      /\ UNCHANGED race

-----------------------------------------------------------------------------
(* The line and the end of the race *)

\* finishedAt is set: what was seen up to now was seen before it.
Finished(c, status) == [c EXCEPT !.status = status, !.finishedAt = TRUE]

SeenBefore == [v \in Visit |-> IF stops.seen[v] = "late" THEN "early" ELSE stops.seen[v]]

\* tryCompleteRaceIfReady; rivals: another driver is awaited.
Complete(r, c, rivals) ==
  IF /\ r.phase = "race" /\ r.flag = "chequered"
     /\ ~rivals /\ ~c.recovery
     /\ ~(c.connected /\ c.status \notin Terminal \cup {"disconnected"})
  THEN [r EXCEPT !.phase = "finished"] ELSE r

\* enforceMinimumPitStopsAtFinish
EnforceMinimumStops(w) ==
  IF MinimumStops = 0 \/ stops.services >= MinimumStops THEN w
  ELSE Pair([w.car EXCEPT !.status = "disqualified"],
            [w.ps EXCEPT !.automatic = @ + 1])

\* updateDriveThroughDeadline
Deadline(w) ==
  IF \/ ~Owes(w.ps, "driveThrough")
     \/ w.car.service.through \/ InLane(w.car.at) THEN w
  ELSE LET v == [w EXCEPT !.car.crossings = @ + 1]
       IN  IF v.car.crossings <= LinesAllowed THEN v ELSE DriveThroughToSeconds(v)

CanCross ==
  /\ entrant.connected /\ race.phase = "race"
  /\ entrant.status \notin Terminal \cup {"disconnected"}

\* completeLap, valid
CrossLine(rivals) ==
  LET c == [entrant EXCEPT !.laps = @ + 1, !.recovery = FALSE]
      leads == race.flag # "chequered" /\ c.laps >= TotalLaps
      r == IF leads THEN [race EXCEPT !.flag = "chequered"] ELSE race
      w == IF r.flag = "chequered"
           THEN EnforceMinimumStops(SettleAtFinish(Pair(Finished(c, "finished"), penalties)))
           ELSE Deadline(Pair(c, penalties))
  IN  /\ CanCross
      /\ entrant.laps < TotalLaps
      /\ entrant' = w.car
      /\ penalties' = w.ps
      /\ race' = Complete(r, w.car, rivals)
      /\ stops' = IF r.flag = "chequered" THEN [stops EXCEPT !.seen = SeenBefore] ELSE stops

\* completeLap, invalid
CrossLineInvalid ==
  LET w == Deadline(Pair([entrant EXCEPT !.recovery = FALSE], penalties))
  IN  /\ CanCross
      /\ entrant' = w.car
      /\ penalties' = w.ps
      /\ UNCHANGED <<race, stops>>

\* A rival completes the distance first.
RivalTakesFlag ==
  /\ race.phase = "race" /\ race.flag = "green"
  /\ race' = [race EXCEPT !.flag = "chequered"]
  /\ UNCHANGED <<entrant, penalties, stops>>

\* The last rival the race waits for finishes or leaves.
RivalsFinish ==
  /\ race' = Complete(race, entrant, FALSE)
  /\ race' # race
  /\ UNCHANGED <<entrant, penalties, stops>>

-----------------------------------------------------------------------------
(* Completed services reported by the client, possibly again or late *)

\* Mutant: a minimum reached late does not lift the disqualification.
KeepDisqualification(w, services) == w

\* revokeRecoveredMinimumPitStopDisqualification
LiftDisqualification(w, services) ==
  IF \/ MinimumStops = 0 \/ services < MinimumStops
     \/ ~Owes(w.ps, "automatic")
  THEN w
  ELSE Pair([w.car EXCEPT !.status =
               IF Owes(w.ps, "disqualification") \/ @ # "disqualified" THEN @
               ELSE IF w.car.finishedAt THEN "finished" ELSE "racing"],
            Serve(w.ps, "automatic"))

\* Mutant: a visit is not remembered once its service was counted.
CountsAnyReport(v, services, recovered) ==
  /\ services = stops.services + 1
  /\ \/ stops.seen[v] # "no"
     \/ recovered /\ RecoveryEnabled /\ entrant.recovery

\* completePitService: what it counts.
Counts(v, services, recovered) ==
  LET unseen == stops.seen[v] = "no"
      admitted == unseen /\ recovered
  IN  /\ v \notin stops.counted
      /\ services = stops.services + 1
      /\ unseen => recovered /\ RecoveryEnabled /\ entrant.recovery
      /\ ~(entrant.finishedAt /\ stops.seen[v] = "late")
      /\ entrant.status \in {"didNotFinish", "disconnected"} => admitted

\* completePitService.  A report whose event or visit was counted before is
\* acknowledged and changes nothing that is modelled.
ServiceReport(v, services, recovered) ==
  LET w == LiftDisqualification(Pair(entrant, penalties), services)
  IN  /\ entrant.connected /\ stops.client = "reporting"
      /\ race.phase \in {"race", "suspended", "finished"}
      /\ Counts(v, services, recovered)
      /\ stops' = [stops EXCEPT !.counted = @ \cup {v}, !.services = services]
      /\ entrant' = w.car
      /\ penalties' = w.ps
      /\ UNCHANGED race

-----------------------------------------------------------------------------
(* Race Control *)

\* applyPenalty, and resolveInvestigation with a penalty
ApplyPenalty(kind) ==
  LET given == [penalties EXCEPT !.given = @ + 1]
      w == CASE kind = "driveThrough" -> GiveDriveThrough(race, Pair(entrant, given))
             [] kind = "disqualification" ->
                  Pair([entrant EXCEPT !.status = "disqualified"],
                       [given EXCEPT !.disqualification = @ + 1])
             [] kind = "time" /\ RequiresPostRace(race, entrant) ->
                  Pair(entrant, Adjust(given))
             [] OTHER -> Pair(entrant, [given EXCEPT ![kind] = @ + 1])
  IN  /\ penalties.given < MaxPenalty[stops.client]
      /\ entrant' = w.car
      /\ penalties' = w.ps
      /\ UNCHANGED <<race, stops>>

\* updatePenalty, isRevoked.  It does not look for another disqualification.
RevokePenalty(kind) ==
  LET ps == [penalties EXCEPT ![kind] = @ - 1]
      c == IF kind \in {"disqualification", "automatic"} /\ entrant.status = "disqualified"
           THEN [entrant EXCEPT !.status = IF entrant.finishedAt THEN "finished" ELSE "racing"]
           ELSE entrant
      idle == ~Owes(ps, "time") /\ ~Owes(ps, "driveThrough")
  IN  /\ penalties[kind] > 0
      /\ entrant' = IF idle THEN [c EXCEPT !.service = Live] ELSE c
      /\ penalties' = ps
      /\ UNCHANGED <<race, stops>>

\* applyParticipant
Retire(status) ==
  /\ entrant' = Finished(entrant, status)
  /\ stops' = [stops EXCEPT !.seen = SeenBefore]
  /\ UNCHANGED <<race, penalties>>

\* applyFlag
RedFlag ==
  /\ race.phase = "race"
  /\ race' = [phase |-> "suspended", flag |-> "red"]
  /\ UNCHANGED <<entrant, penalties, stops>>

GreenFlag ==
  /\ race.phase = "suspended"
  /\ race' = [phase |-> "race", flag |-> "green"]
  /\ UNCHANGED <<entrant, penalties, stops>>

-----------------------------------------------------------------------------
(* The connection *)

DropOut(rivals) ==
  LET status == IF entrant.status \in Terminal THEN entrant.status ELSE "disconnected"
      c == [entrant EXCEPT !.connected = FALSE, !.status = status,
              !.recovery = /\ RecoveryEnabled /\ status = "disconnected"
                           /\ race.phase \in {"race", "suspended"}]
  IN  /\ entrant.connected
      /\ entrant' = c
      /\ race' = Complete(race, c, rivals)
      /\ UNCHANGED <<penalties, stops>>

Login(rivals) ==
  LET late == race.flag = "chequered" /\ ~entrant.recovery
      c == [entrant EXCEPT !.connected = TRUE,
              !.status = IF late THEN "didNotFinish" ELSE "racing",
              !.finishedAt = @ \/ late]
  IN  /\ entrant' = c
      /\ race' = Complete(race, c, rivals)
      /\ stops' = IF late /\ ~entrant.finishedAt
                  THEN [stops EXCEPT !.seen = SeenBefore] ELSE stops
      /\ UNCHANGED penalties

\* expireDisconnectedLapRecoveries
RecoveryLapses(rivals) ==
  LET lost == ~entrant.connected /\ race.flag = "chequered" /\ entrant.status = "disconnected"
      c == [entrant EXCEPT !.recovery = FALSE, !.finishedAt = @ \/ lost,
              !.status = IF lost THEN "didNotFinish" ELSE @]
  IN  /\ entrant.recovery
      /\ entrant' = c
      /\ race' = Complete(race, c, rivals)
      /\ stops' = IF lost /\ ~entrant.finishedAt
                  THEN [stops EXCEPT !.seen = SeenBefore] ELSE stops
      /\ UNCHANGED penalties

\* Whether rivals are awaited is asked under the chequered flag only.
Rivals == IF race.flag = "chequered" THEN BOOLEAN ELSE {TRUE}

Otherwise ==
  \/ \E rivals \in BOOLEAN : CrossLine(rivals)
  \/ \E rivals \in Rivals : DropOut(rivals) \/ Login(rivals) \/ RecoveryLapses(rivals)
  \/ CrossLineInvalid
  \/ RivalTakesFlag
  \/ RivalsFinish
  \/ \E v \in Visit, n \in 0..MaxService, recovered \in BOOLEAN :
       ServiceReport(v, n, recovered)
  \/ \E kind \in Served \cup {"disqualification"} : ApplyPenalty(kind)
  \/ \E kind \in Recorded : RevokePenalty(kind)
  \/ \E status \in {"didNotFinish", "disqualified"} : Retire(status)
  \/ RedFlag
  \/ GreenFlag

PenaltiesNext ==
  \/ \E u \in Update, v \in Visit, met \in BOOLEAN, gap \in 0..MaxGap :
       Sample(u, v, met, gap)
  \/ Otherwise

PenaltiesSpec == PenaltiesInit /\ [][PenaltiesNext]_penaltyVars

-----------------------------------------------------------------------------
(* Properties *)

\* The type invariant of the penalty state of race-core.ts.
PenaltiesTypeOK ==
  /\ race \in [phase : {"race", "suspended", "finished"}, flag : {"green", "red", "chequered"}]
  /\ entrant.status \in Terminal \cup {"racing", "disconnected"}
  /\ entrant.laps \in 0..TotalLaps
  /\ entrant.at \in {"track", "lane", "zone"}
  /\ entrant.crossings \in 0..(LinesAllowed + 1)
  /\ entrant.service.elapsed \in 0..entrant.service.required
  /\ entrant.service.since \in 0..entrant.service.required
  /\ penalties \in [Recorded \cup {"given"} -> Nat]
  /\ stops.seen \in [Visit -> {"no", "early", "late"}]
  /\ stops.counted \subseteq Visit
  /\ stops.services \in Nat

\* A sanction of the race is never lost: what is no longer due was revoked,
\* driven, stood for, or exchanged for a drive-through or for seconds of the
\* result.  (markPendingPenaltiesServed and its callers)
Driven == InLane(entrant.at) /\ ~InLane(entrant'.at) /\ entrant.service.through

Stood ==
  /\ entrant'.at = "zone"
  /\ entrant.service.active /\ ~entrant'.service.active
  /\ entrant'.service.elapsed = entrant'.service.required

Exchanged ==
  penalties'.driveThrough > 0 \/ penalties'.adjustment > penalties.adjustment

SanctionsAreNotLost ==
  [][\A kind \in Served :
       penalties[kind] > 0 /\ penalties'[kind] = 0 =>
         \/ RevokePenalty(kind)
         \/ Driven \/ (Stood /\ kind = "time")
         \/ Exchanged]_penaltyVars

\* However often and late a completed service is reported, it counts once.
EachVisitOnce ==
  stops.client = "reporting" => stops.services = Cardinality(stops.counted)

\* Nobody stays disqualified for missing stops the server has counted since.
DisqualificationForStopsIsTrue ==
  stops.client = "reporting" /\ Owes(penalties, "automatic")
    => stops.services < MinimumStops

\* Who takes the flag has nothing left to serve: what was due is part of the
\* result from that step on.  (finalizePendingPenaltiesAtFinish)
FlagSettlesEverything ==
  [][entrant'.laps > entrant.laps /\ race'.flag = "chequered"
       => \A kind \in Served : ~Owes(penalties', kind)]_penaltyVars
=============================================================================
