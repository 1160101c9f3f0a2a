-------------------------- MODULE PenaltiesProofs ---------------------------
(***************************************************************************)
(* For every length of the race, minimum of stops, set of visits and bound *)
(* of Penalties: a visit counts once, nobody is disqualified for stops     *)
(* that were made, no sanction is lost, and who takes the flag has nothing *)
(* left to serve.                                                          *)
(*                                                                         *)
(* The handlers pass a pair of car and penalties through one function      *)
(* after the other, so there is a lemma for each function: it keeps Well,  *)
(* and what it does to the counts.                                         *)
(***************************************************************************)
EXTENDS Penalties, FiniteSetTheorems, TLAPS

PenaltyCounts == [Recorded \cup {"given"} -> Nat]

Service ==
  [active : BOOLEAN, attempted : BOOLEAN, elapsed : Nat, required : Nat, since : Nat,
   through : BOOLEAN, slow : BOOLEAN, stopped : BOOLEAN, paused : BOOLEAN]

Entrant ==
  [status : Terminal \cup {"racing", "disconnected"}, connected : BOOLEAN,
   recovery : BOOLEAN, finishedAt : BOOLEAN, laps : 0..TotalLaps,
   at : {"track", "lane", "zone"}, crossings : 0..(LinesAllowed + 1), service : Service]

PairType == [car : Entrant, ps : PenaltyCounts]

\* A stop is never longer than required, and a drive-through that is still to
\* be served is not overdue.
Well(w) ==
  /\ w \in PairType
  /\ w.car.service.elapsed <= w.car.service.required
  /\ w.car.service.since <= w.car.service.required
  /\ w.ps["driveThrough"] > 0 => w.car.crossings <= LinesAllowed

\* A stop is never longer than required.
Timed(w) ==
  /\ w \in PairType
  /\ w.car.service.elapsed <= w.car.service.required
  /\ w.car.service.since <= w.car.service.required

\* No lap is driven, and no disqualification for missing stops given or lifted.
SameRecord(w, v) ==
  /\ v.ps["automatic"] = w.ps["automatic"]
  /\ v.car.laps = w.car.laps

-----------------------------------------------------------------------------
(* The counts *)

\* Serving a kind of penalty leaves none of it and the others as they are.
LEMMA ServeCounts ==
  ASSUME NEW ps \in PenaltyCounts, NEW kind \in Recorded
  PROVE  /\ Serve(ps, kind) \in PenaltyCounts
         /\ Serve(ps, kind)[kind] = 0
         /\ \A k \in Recorded : k # kind => Serve(ps, kind)[k] = ps[k]
BY DEF PenaltyCounts, Serve, Recorded, Served

\* One more adjustment of the result, and nothing else.
LEMMA AdjustCounts ==
  ASSUME NEW ps \in PenaltyCounts
  PROVE  /\ Adjust(ps) \in PenaltyCounts
         /\ Adjust(ps)["adjustment"] = ps["adjustment"] + 1
         /\ \A k \in Recorded : k # "adjustment" => Adjust(ps)[k] = ps[k]
BY DEF PenaltyCounts, Adjust, Recorded, Served

\* All time penalties adjust the result, and nothing else changes.
LEMMA TimeToResultCounts ==
  ASSUME NEW ps \in PenaltyCounts
  PROVE  /\ TimeToResult(ps) \in PenaltyCounts
         /\ TimeToResult(ps)["time"] = 0
         /\ TimeToResult(ps)["adjustment"] = ps["adjustment"] + ps["time"]
         /\ \A k \in Recorded : k \notin {"time", "adjustment"} => TimeToResult(ps)[k] = ps[k]
<1> DEFINE q == Serve(ps, "time")
<1>1. q \in PenaltyCounts /\ q["time"] = 0 /\ \A k \in Recorded : k # "time" => q[k] = ps[k]
  BY ServeCounts DEF Recorded, Served
<1>2. ps["time"] \in Nat /\ ps.time = ps["time"] /\ q["adjustment"] \in Nat
  BY <1>1 DEF PenaltyCounts, Recorded, Served
<1>3. TimeToResult(ps) = [q EXCEPT !.adjustment = @ + ps.time]
  BY DEF TimeToResult
<1> HIDE DEF q
<1>4. TimeToResult(ps) \in PenaltyCounts
  BY <1>1, <1>2, <1>3 DEF PenaltyCounts, Recorded, Served
<1> QED BY <1>1, <1>2, <1>3, <1>4 DEF PenaltyCounts, Recorded, Served

\* All stop-and-goes become one adjustment of the result.
LEMMA StopAndGoToResultCounts ==
  ASSUME NEW ps \in PenaltyCounts
  PROVE  /\ StopAndGoToResult(ps) \in PenaltyCounts
         /\ StopAndGoToResult(ps)["stopAndGo"] = 0
         /\ StopAndGoToResult(ps)["adjustment"] =
              IF ps["stopAndGo"] > 0 THEN ps["adjustment"] + 1 ELSE ps["adjustment"]
         /\ \A k \in Recorded :
              k \notin {"stopAndGo", "adjustment"} => StopAndGoToResult(ps)[k] = ps[k]
<1>1. CASE ps["stopAndGo"] > 0
  <2> DEFINE q == Serve(ps, "stopAndGo")
  <2>1. /\ q \in PenaltyCounts /\ q["stopAndGo"] = 0
        /\ \A k \in Recorded : k # "stopAndGo" => q[k] = ps[k]
    BY ServeCounts DEF Recorded, Served
  <2>2. StopAndGoToResult(ps) = Adjust(q)
    BY <1>1 DEF StopAndGoToResult, Owes
  <2> HIDE DEF q
  <2> QED BY <1>1, <2>1, <2>2, AdjustCounts DEF Recorded, Served
<1>2. CASE ~(ps["stopAndGo"] > 0)
  BY <1>2 DEF StopAndGoToResult, Owes, PenaltyCounts, Recorded, Served
<1> QED BY <1>1, <1>2

-----------------------------------------------------------------------------
(* Penalties exchanged for others *)

\* A drive-through is due or has become seconds of the result.
LEMMA GiveDriveThroughWell ==
  ASSUME NEW r, NEW w, Well(w)
  PROVE  LET v == GiveDriveThrough(r, w)
         IN  /\ Well(v) /\ SameRecord(w, v)
             /\ v.ps["driveThrough"] > 0 \/ v.ps["adjustment"] > w.ps["adjustment"]
             /\ v.ps["adjustment"] >= w.ps["adjustment"]
             /\ v.ps["driveThrough"] >= w.ps["driveThrough"]
             /\ v.ps["time"] = w.ps["time"] /\ v.ps["stopAndGo"] = w.ps["stopAndGo"]
<1> USE DEF Well, SameRecord
<1>0. w \in PairType /\ w.ps \in PenaltyCounts /\ w.car \in Entrant
  BY DEF PairType
<1>a. \A k \in Recorded : w.ps[k] \in Nat
  BY <1>0 DEF PenaltyCounts
<1>1. CASE GiveDriveThrough(r, w) = [w EXCEPT !.ps = Adjust(@)]
  <2>1. /\ GiveDriveThrough(r, w).ps = Adjust(w.ps) /\ GiveDriveThrough(r, w).car = w.car
        /\ GiveDriveThrough(r, w) \in PairType
    BY <1>0, <1>1, AdjustCounts DEF PairType
  <2> QED BY <1>0, <1>a, <2>1, AdjustCounts DEF Recorded, Served
<1>2. CASE GiveDriveThrough(r, w) =
             Pair([w.car EXCEPT !.crossings = 0], [w.ps EXCEPT !.driveThrough = @ + 1])
  <2> DEFINE c == [w.car EXCEPT !.crossings = 0]
             q == [w.ps EXCEPT !.driveThrough = @ + 1]
  <2>1. c \in Entrant /\ c.crossings = 0 /\ c.service = w.car.service /\ c.laps = w.car.laps
    BY <1>0, PenaltyAssumption DEF Entrant
  <2>2. /\ q \in PenaltyCounts /\ q["driveThrough"] = w.ps["driveThrough"] + 1
        /\ \A k \in Recorded : k # "driveThrough" => q[k] = w.ps[k]
    BY <1>0 DEF PenaltyCounts, Recorded, Served
  <2>3. GiveDriveThrough(r, w) = [car |-> c, ps |-> q]
    BY <1>2 DEF Pair
  <2> HIDE DEF c, q
  <2> QED BY <1>0, <1>a, <2>1, <2>2, <2>3, PenaltyAssumption DEF PairType, Recorded, Served
<1> QED BY <1>1, <1>2 DEF GiveDriveThrough

\* No drive-through is left: they are one adjustment of the result.
LEMMA DriveThroughToSecondsWell ==
  ASSUME NEW w, Timed(w)
  PROVE  LET v == DriveThroughToSeconds(w)
         IN  /\ Well(v) /\ SameRecord(w, v)
             /\ v.ps["driveThrough"] = 0
             /\ v.ps["adjustment"] >= w.ps["adjustment"]
             /\ w.ps["driveThrough"] > 0 => v.ps["adjustment"] > w.ps["adjustment"]
             /\ v.ps["time"] = w.ps["time"] /\ v.ps["stopAndGo"] = w.ps["stopAndGo"]
<1> USE DEF Well, Timed, SameRecord
<1>0. w \in PairType /\ w.ps \in PenaltyCounts /\ w.car \in Entrant
  BY DEF PairType
<1>a. \A k \in Recorded : w.ps[k] \in Nat
  BY <1>0 DEF PenaltyCounts
<1>1. CASE w.ps["driveThrough"] > 0
  <2> DEFINE c == [w.car EXCEPT !.service.through = FALSE, !.service.slow = FALSE]
             p == Serve(w.ps, "driveThrough")
             q == Adjust(p)
  <2>1. /\ c \in Entrant /\ c.crossings = w.car.crossings /\ c.laps = w.car.laps
        /\ c.service.elapsed = w.car.service.elapsed
        /\ c.service.since = w.car.service.since
        /\ c.service.required = w.car.service.required
    BY <1>0 DEF Entrant, Service
  <2>2. /\ p \in PenaltyCounts /\ p["driveThrough"] = 0
        /\ \A k \in Recorded : k # "driveThrough" => p[k] = w.ps[k]
    BY <1>0, ServeCounts DEF Recorded, Served
  <2> HIDE DEF p
  <2>3. /\ q \in PenaltyCounts /\ q["adjustment"] = p["adjustment"] + 1
        /\ \A k \in Recorded : k # "adjustment" => q[k] = p[k]
    BY <2>2, AdjustCounts
  <2>4. DriveThroughToSeconds(w) = [car |-> c, ps |-> q]
    BY <1>1 DEF DriveThroughToSeconds, Owes, Pair, p
  <2> HIDE DEF c, q
  <2> QED BY <1>0, <1>a, <2>1, <2>2, <2>3, <2>4 DEF PairType, Recorded, Served
<1>2. CASE ~(w.ps["driveThrough"] > 0)
  BY <1>0, <1>a, <1>2 DEF DriveThroughToSeconds, Owes, Recorded, Served
<1> QED BY <1>1, <1>2

\* The stop is void, and no time penalty is left.
LEMMA TimeServiceVoidWell ==
  ASSUME NEW w, Well(w)
  PROVE  LET v == TimeServiceVoid(w)
         IN  /\ Well(v) /\ SameRecord(w, v)
             /\ v.ps["time"] = 0
             /\ \A k \in Recorded : k # "time" => v.ps[k] = w.ps[k]
             /\ v.car.at = w.car.at
             /\ v.car.service.through = w.car.service.through
<1> USE DEF Well, SameRecord
<1>0. w \in PairType /\ w.ps \in PenaltyCounts /\ w.car \in Entrant
  BY DEF PairType
<1> DEFINE c == [w.car EXCEPT !.service.active = FALSE, !.service.attempted = FALSE,
                   !.service.elapsed = 0, !.service.required = 0, !.service.since = 0]
           q == Serve(w.ps, "time")
<1>1. /\ c \in Entrant /\ c.crossings = w.car.crossings /\ c.at = w.car.at
      /\ c.laps = w.car.laps /\ c.service.through = w.car.service.through
      /\ c.service.elapsed = 0 /\ c.service.since = 0 /\ c.service.required = 0
  BY <1>0 DEF Entrant, Service
<1>2. /\ q \in PenaltyCounts /\ q["time"] = 0
      /\ \A k \in Recorded : k # "time" => q[k] = w.ps[k]
  BY <1>0, ServeCounts DEF Recorded, Served
<1>3. TimeServiceVoid(w) = [car |-> c, ps |-> q]
  BY DEF TimeServiceVoid, Pair
<1> HIDE DEF c, q
<1> QED BY <1>0, <1>1, <1>2, <1>3 DEF PairType, Recorded, Served

\* Time penalties become the drive-through there is, a new one, or seconds of
\* the result.
LEMMA TimeToDriveThroughWell ==
  ASSUME NEW r, NEW w, Well(w)
  PROVE  LET v == TimeToDriveThrough(r, w)
         IN  /\ Well(v) /\ SameRecord(w, v)
             /\ w.ps["time"] > 0 =>
                  v.ps["driveThrough"] > 0 \/ v.ps["adjustment"] > w.ps["adjustment"]
             /\ v.ps["adjustment"] >= w.ps["adjustment"]
             /\ v.ps["driveThrough"] >= w.ps["driveThrough"]
             /\ v.ps["stopAndGo"] = w.ps["stopAndGo"]
             /\ v.ps["time"] \in {0, w.ps["time"]}
             /\ v.car.at = w.car.at
             /\ v.car.service.through = w.car.service.through
<1> DEFINE void == TimeServiceVoid(w)
<1>0. w \in PairType /\ w.ps \in PenaltyCounts /\ w.car \in Entrant
  BY DEF PairType, Well
<1>a. \A k \in Recorded : w.ps[k] \in Nat
  BY <1>0 DEF PenaltyCounts
<1>1. /\ Well(void) /\ SameRecord(w, void) /\ void.ps["time"] = 0
      /\ \A k \in Recorded : k # "time" => void.ps[k] = w.ps[k]
      /\ void.car.at = w.car.at /\ void.car.service.through = w.car.service.through
  BY TimeServiceVoidWell
<1>2. CASE ~(w.ps["time"] > 0)
  BY <1>a, <1>2 DEF TimeToDriveThrough, Owes, SameRecord, Recorded, Served
<1>3. CASE w.ps["time"] > 0 /\ w.ps["driveThrough"] > 0
  <2>1. TimeToDriveThrough(r, w) = void
    BY <1>3 DEF TimeToDriveThrough, Owes
  <2> HIDE DEF void
  <2> QED BY <1>a, <1>1, <1>3, <2>1 DEF Recorded, Served
<1>4. CASE w.ps["time"] > 0 /\ ~(w.ps["driveThrough"] > 0)
  <2>1. TimeToDriveThrough(r, w) = GiveDriveThrough(r, void)
    BY <1>4 DEF TimeToDriveThrough, Owes
  <2> HIDE DEF void
  <2> DEFINE v == GiveDriveThrough(r, void)
  <2>2. /\ Well(v) /\ SameRecord(void, v)
        /\ v.ps["driveThrough"] > 0 \/ v.ps["adjustment"] > void.ps["adjustment"]
        /\ v.ps["adjustment"] >= void.ps["adjustment"]
        /\ v.ps["driveThrough"] >= void.ps["driveThrough"]
        /\ v.ps["time"] = void.ps["time"] /\ v.ps["stopAndGo"] = void.ps["stopAndGo"]
    BY <1>1, GiveDriveThroughWell
  <2>3. v.car.at = void.car.at /\ v.car.service.through = void.car.service.through
    BY <1>1 DEF GiveDriveThrough, Well, PairType, Entrant, Service, Pair
  <2> HIDE DEF v
  <2> QED BY <1>a, <1>1, <2>1, <2>2, <2>3 DEF SameRecord, Recorded, Served, v
<1> QED BY <1>2, <1>3, <1>4

\* Nothing is left to serve, and what was is part of the result.
LEMMA SettleAtFinishWell ==
  ASSUME NEW w, Well(w)
  PROVE  LET v == SettleAtFinish(w)
         IN  /\ Well(v) /\ SameRecord(w, v)
             /\ \A kind \in Served : v.ps[kind] = 0
             /\ \A kind \in Served :
                  w.ps[kind] > 0 => v.ps["adjustment"] > w.ps["adjustment"]
<1>0. w \in PairType /\ w.ps \in PenaltyCounts /\ w.car \in Entrant
  BY DEF PairType, Well
<1>a. \A k \in Recorded : w.ps[k] \in Nat
  BY <1>0 DEF PenaltyCounts
<1> DEFINE c == [w.car EXCEPT !.service = Live]
           p == TimeToResult(w.ps)
           u == Pair(c, p)
           v == DriveThroughToSeconds(u)
           q == StopAndGoToResult(v.ps)
<1>1. /\ c \in Entrant /\ c.crossings = w.car.crossings /\ c.laps = w.car.laps
      /\ c.service.elapsed = 0 /\ c.service.since = 0 /\ c.service.required = 0
  BY <1>0 DEF Entrant, Service, Live
<1>2. /\ p \in PenaltyCounts /\ p["time"] = 0 /\ p["adjustment"] = w.ps["adjustment"] + w.ps["time"]
      /\ \A k \in Recorded : k \notin {"time", "adjustment"} => p[k] = w.ps[k]
  BY <1>0, TimeToResultCounts
<1> HIDE DEF c, p
<1>3. /\ Well(u) /\ SameRecord(w, u) /\ u.ps = p /\ u.car = c
  BY <1>0, <1>1, <1>2 DEF Well, PairType, Pair, SameRecord, Recorded, Served, PenaltyCounts
<1> HIDE DEF u
<1>4. /\ Well(v) /\ SameRecord(u, v) /\ v.ps["driveThrough"] = 0
      /\ v.ps["adjustment"] >= u.ps["adjustment"]
      /\ u.ps["driveThrough"] > 0 => v.ps["adjustment"] > u.ps["adjustment"]
      /\ v.ps["time"] = u.ps["time"] /\ v.ps["stopAndGo"] = u.ps["stopAndGo"]
  BY <1>3, DriveThroughToSecondsWell DEF Well, Timed
<1>5. SettleAtFinish(w) = [v EXCEPT !.ps = q]
  BY DEF SettleAtFinish, c, p, u
<1> HIDE DEF v
<1>6. v \in PairType /\ v.ps \in PenaltyCounts
  BY <1>4 DEF Well, PairType
<1>7. /\ q \in PenaltyCounts /\ q["stopAndGo"] = 0
      /\ q["adjustment"] = IF v.ps["stopAndGo"] > 0 THEN v.ps["adjustment"] + 1
                           ELSE v.ps["adjustment"]
      /\ \A k \in Recorded : k \notin {"stopAndGo", "adjustment"} => q[k] = v.ps[k]
  BY <1>6, StopAndGoToResultCounts
<1> HIDE DEF q
<1>8. SettleAtFinish(w).ps = q /\ SettleAtFinish(w).car = v.car /\ SettleAtFinish(w) \in PairType
  BY <1>5, <1>6, <1>7 DEF PairType
<1>9. /\ v.ps["adjustment"] \in Nat /\ v.ps["stopAndGo"] = w.ps["stopAndGo"]
      /\ v.ps["time"] = 0 /\ v.ps["driveThrough"] = 0 /\ u.ps["adjustment"] >= w.ps["adjustment"]
      /\ w.ps["driveThrough"] = u.ps["driveThrough"]
      /\ u.ps["adjustment"] = w.ps["adjustment"] + w.ps["time"]
  BY <1>a, <1>2, <1>3, <1>4, <1>6 DEF PenaltyCounts, Recorded, Served
<1>10. Well(SettleAtFinish(w)) /\ SameRecord(w, SettleAtFinish(w))
  BY <1>3, <1>4, <1>7, <1>8, <1>9 DEF Well, SameRecord, Recorded, Served
<1>11. \A kind \in Served : q[kind] = 0
  BY <1>4, <1>7, <1>9 DEF Recorded, Served
<1>12. \A kind \in Served : w.ps[kind] > 0 => q["adjustment"] > w.ps["adjustment"]
  BY <1>a, <1>4, <1>7, <1>9 DEF Recorded, Served
<1> QED BY <1>1, <1>3, <1>4, <1>8, <1>10, <1>11, <1>12

-----------------------------------------------------------------------------
(* Telemetry *)

\* What entering, driving along and the clock do: the counts stay, and a
\* drive-through is watched as long as the car is in the lane.
Along(w, v) ==
  /\ Well(v) /\ v.ps = w.ps /\ v.car.at = w.car.at /\ v.car.laps = w.car.laps
  /\ v.car.service.active = w.car.service.active
  /\ InLane(w.car.at) => v.car.service.through = w.car.service.through

\* A stop that was under way is complete.
StoodIn(w, v) ==
  /\ w.car.service.active /\ ~v.car.service.active
  /\ v.car.service.elapsed = v.car.service.required

\* Entering the lane begins to watch a drive-through.
LEMMA EnteringAlong ==
  ASSUME NEW w, Well(w), NEW u
  PROVE  Along(w, Entering(w, u))
<1> USE DEF Well, Along
<1>0. w \in PairType /\ w.car \in Entrant
  BY DEF PairType
<1>1. CASE InLane(u.at) /\ ~InLane(w.car.at)
  <2> DEFINE b == Owes(w.ps, "driveThrough")
             v == [w EXCEPT !.car.service.stopped = FALSE, !.car.service.paused = FALSE,
                     !.car.service.slow = FALSE, !.car.service.through = b]
  <2>1. Entering(w, u) = v
    BY <1>1 DEF Entering
  <2>2. b \in BOOLEAN
    BY DEF Owes
  <2> HIDE DEF b
  <2>3. /\ v \in PairType /\ v.ps = w.ps /\ v.car.at = w.car.at /\ v.car.laps = w.car.laps
        /\ v.car.crossings = w.car.crossings
        /\ v.car.service.active = w.car.service.active
        /\ v.car.service.elapsed = w.car.service.elapsed
        /\ v.car.service.since = w.car.service.since
        /\ v.car.service.required = w.car.service.required
    BY <1>0, <2>2, ZenonT(60) DEF PairType, Entrant, Service
  <2> HIDE DEF v
  <2> QED BY <1>1, <2>1, <2>3
<1>2. CASE ~(InLane(u.at) /\ ~InLane(w.car.at))
  BY <1>2 DEF Entering
<1> QED BY <1>1, <1>2

\* Driving along it notes stops and pauses.
LEMMA TransitAlong ==
  ASSUME NEW w, Well(w), NEW u \in Update, NEW gap \in Nat
  PROVE  Along(w, Transit(w, u, gap))
<1> USE DEF Well, Along
<1>0. w \in PairType /\ w.car \in Entrant
  BY DEF PairType
<1> DEFINE watched == w.car.service.through /\ InLane(u.at)
           a == w.car.service.paused \/ (watched /\ u.game = "paused")
           b == w.car.service.stopped \/ (watched /\ u.stands /\ w.car.service.slow /\ gap >= 1)
           d == IF watched THEN u.stands ELSE w.car.service.slow
           v == [w EXCEPT !.car.service.paused = a, !.car.service.stopped = b,
                   !.car.service.slow = d]
<1>1. Transit(w, u, gap) = v
  BY <1>0 DEF Transit, PairType, Entrant, Service
<1>2. a \in BOOLEAN /\ b \in BOOLEAN /\ d \in BOOLEAN
  BY <1>0 DEF Entrant, Service, Update, InLane
<1> HIDE DEF a, b, d
<1>3. /\ v \in PairType /\ v.ps = w.ps /\ v.car.at = w.car.at /\ v.car.laps = w.car.laps
      /\ v.car.crossings = w.car.crossings
      /\ v.car.service.active = w.car.service.active
      /\ v.car.service.through = w.car.service.through
      /\ v.car.service.elapsed = w.car.service.elapsed
      /\ v.car.service.since = w.car.service.since
      /\ v.car.service.required = w.car.service.required
  BY <1>0, <1>2 DEF PairType, Entrant, Service
<1> HIDE DEF v
<1> QED BY <1>1, <1>3

\* The seconds of a stop run, up to what is required.
LEMMA ClockRunsAlong ==
  ASSUME NEW w, Well(w), NEW gap \in Nat
  PROVE  Along(w, ClockRuns(w, gap))
<1> USE DEF Well, Along
<1>0. w \in PairType /\ w.car \in Entrant
  BY DEF PairType
<1> DEFINE n == IF w.car.service.active
                THEN Least(w.car.service.since + gap, w.car.service.required) ELSE 0
           v == [w EXCEPT !.car.service.since = n]
<1>1. ClockRuns(w, gap) = v
  BY <1>0 DEF ClockRuns, PairType, Entrant, Service
<1>2. n \in Nat /\ n <= w.car.service.required
  BY <1>0 DEF Entrant, Service, Least
<1> HIDE DEF n
<1>3. /\ v \in PairType /\ v.ps = w.ps /\ v.car.at = w.car.at /\ v.car.laps = w.car.laps
      /\ v.car.crossings = w.car.crossings
      /\ v.car.service.active = w.car.service.active
      /\ v.car.service.through = w.car.service.through
      /\ v.car.service.elapsed = w.car.service.elapsed
      /\ v.car.service.since = n
      /\ v.car.service.required = w.car.service.required
  BY <1>0, <1>2 DEF PairType, Entrant, Service
<1> HIDE DEF v
<1> QED BY <1>1, <1>2, <1>3

\* The time penalties are served when a stop that was under way is complete.
LEMMA StandWell ==
  ASSUME NEW w, Well(w), NEW due \in Nat \ {0}
  PROVE  LET v == Stand(w, due)
         IN  /\ Well(v) /\ SameRecord(w, v)
             /\ \A k \in Recorded : k # "time" => v.ps[k] = w.ps[k]
             /\ v.car.at = w.car.at /\ v.car.service.through = w.car.service.through
             /\ v.ps["time"] # w.ps["time"] => StoodIn(w, v)
<1> USE DEF Well, SameRecord, StoodIn
<1>0. w \in PairType /\ w.car \in Entrant /\ w.ps \in PenaltyCounts /\ w.car.service \in Service
  BY DEF PairType, Entrant
<1> DEFINE s == w.car.service
           began == [s EXCEPT !.active = TRUE, !.attempted = TRUE, !.elapsed = 0,
                              !.required = due, !.since = 0]
           stayed == [s EXCEPT !.elapsed = Least(s.required, s.elapsed + s.since), !.since = 0]
           now == IF s.active THEN stayed ELSE began
           done == [now EXCEPT !.active = FALSE, !.attempted = FALSE]
           q == Serve(w.ps, "time")
<1>1. /\ now \in Service /\ now.through = s.through /\ now.elapsed <= now.required /\ now.since = 0
      /\ now.elapsed >= now.required => s.active
  <2>1. CASE s.active
    <3>1. Least(s.required, s.elapsed + s.since) \in Nat
          /\ Least(s.required, s.elapsed + s.since) <= s.required
      BY <1>0 DEF Least, Service
    <3>2. /\ stayed \in Service /\ stayed.elapsed <= stayed.required /\ stayed.since = 0
          /\ stayed.through = s.through
      BY <1>0, <3>1 DEF Service
    <3> QED BY <2>1, <3>2
  <2>2. CASE ~s.active
    <3>1. /\ began \in Service /\ began.elapsed = 0 /\ began.required = due /\ began.since = 0
          /\ began.through = s.through
      BY <1>0 DEF Service
    <3> QED BY <2>2, <3>1
  <2> QED BY <2>1, <2>2
<1> HIDE DEF now
<1>2. /\ done \in Service /\ ~done.active /\ done.elapsed = now.elapsed
      /\ done.required = now.required /\ done.since = 0 /\ done.through = s.through
  BY <1>1 DEF Service
<1> HIDE DEF done
<1>3. /\ q \in PenaltyCounts /\ q["time"] = 0
      /\ \A k \in Recorded : k # "time" => q[k] = w.ps[k]
  BY <1>0, ServeCounts DEF Recorded, Served
<1> HIDE DEF q
<1>4. CASE now.elapsed >= now.required
  <2> DEFINE c == [w.car EXCEPT !.service = done]
  <2>1. Stand(w, due) = [car |-> c, ps |-> q]
    BY <1>4 DEF Stand, Pair, now, done, q
  <2>2. /\ c \in Entrant /\ c.service = done /\ c.crossings = w.car.crossings
        /\ c.laps = w.car.laps /\ c.at = w.car.at
    BY <1>0, <1>2 DEF Entrant
  <2>3. done.elapsed = done.required
    BY <1>1, <1>2, <1>4 DEF Service
  <2> HIDE DEF c
  <2> DEFINE v == Stand(w, due)
  <2>4. v.car = c /\ v.ps = q /\ v \in PairType
    BY <1>3, <2>1, <2>2 DEF PairType
  <2> HIDE DEF v
  <2>5. "driveThrough" \in Recorded /\ "automatic" \in Recorded
    BY DEF Recorded, Served
  <2>6. v.ps["driveThrough"] = w.ps["driveThrough"] /\ v.ps["automatic"] = w.ps["automatic"]
    BY <1>3, <2>4, <2>5
  <2>7. /\ v.car.service = done /\ v.car.crossings = w.car.crossings
        /\ v.car.laps = w.car.laps /\ v.car.at = w.car.at
    BY <2>2, <2>4
  <2>8. done.elapsed <= done.required /\ done.since <= done.required
    BY <1>2, <2>3 DEF Service
  <2>9. Well(v) /\ SameRecord(w, v)
    BY <2>4, <2>6, <2>7, <2>8
  <2>10. s.active
    BY <1>1, <1>4
  <2> QED BY <1>2, <1>3, <2>3, <2>4, <2>7, <2>9, <2>10 DEF v
<1>5. CASE ~(now.elapsed >= now.required)
  <2> DEFINE v == [w EXCEPT !.car.service = now]
  <2>1. Stand(w, due) = v
    BY <1>5 DEF Stand, now
  <2>2. /\ v \in PairType /\ v.ps = w.ps /\ v.car.service = now
        /\ v.car.crossings = w.car.crossings /\ v.car.laps = w.car.laps
        /\ v.car.at = w.car.at
    BY <1>0, <1>1 DEF PairType, Entrant
  <2> HIDE DEF v
  <2>3. Well(v) /\ SameRecord(w, v)
    BY <1>1, <2>2 DEF Service
  <2>4. v.car.service.through = w.car.service.through
    BY <1>1, <2>2
  <2> QED BY <2>1, <2>2, <2>3, <2>4
<1> QED BY <1>4, <1>5

\* What a message does to the time penalties: nothing, or the stop is complete,
\* or they are exchanged.
LEMMA TimeServiceWell ==
  ASSUME NEW r, NEW w, Well(w), NEW u \in Update
  PROVE  LET v == TimeService(r, w, u)
         IN  /\ Well(v) /\ SameRecord(w, v)
             /\ v.car.at = w.car.at /\ v.car.service.through = w.car.service.through
             /\ v.ps["stopAndGo"] = w.ps["stopAndGo"]
             /\ v.ps["driveThrough"] >= w.ps["driveThrough"]
             /\ v.ps["adjustment"] >= w.ps["adjustment"]
             /\ w.ps["time"] > 0 /\ v.ps["time"] = 0 =>
                  \/ u.at = "zone" /\ StoodIn(w, v)
                  \/ v.ps["driveThrough"] > 0
                  \/ v.ps["adjustment"] > w.ps["adjustment"]
<1> DEFINE v == TimeService(r, w, u)
           due == SecondsDue(w.ps)
<1>0. w.ps \in PenaltyCounts /\ \A k \in Recorded : w.ps[k] \in Nat
  BY DEF Well, PairType, PenaltyCounts
<1>1. due \in Nat
  BY <1>0, PenaltyAssumption DEF SecondsDue, Recorded, Served
<1>2. \/ v = TimeToDriveThrough(r, w)
      \/ u.at = "zone" /\ due > 0 /\ v = Stand(w, due)
      \/ v = w
  BY DEF TimeService
<1> HIDE DEF v, due
<1>3. CASE v = TimeToDriveThrough(r, w)
  BY <1>3, TimeToDriveThroughWell DEF v
<1>4. CASE u.at = "zone" /\ due > 0 /\ v = Stand(w, due)
  <2>1. due \in Nat \ {0}
    BY <1>1, <1>4
  <2>2. /\ Well(v) /\ SameRecord(w, v)
        /\ \A k \in Recorded : k # "time" => v.ps[k] = w.ps[k]
        /\ v.car.at = w.car.at /\ v.car.service.through = w.car.service.through
        /\ v.ps["time"] # w.ps["time"] => StoodIn(w, v)
    BY <1>4, <2>1, StandWell
  <2> QED BY <1>0, <1>4, <2>2 DEF Recorded, Served, v
<1>5. CASE v = w
  <2>1. SameRecord(w, w)
    BY DEF SameRecord
  <2> QED BY <1>0, <1>5, <2>1 DEF Recorded, Served, v
<1> QED BY <1>2, <1>3, <1>4, <1>5

\* The car leaves the lane and had been watched since it entered.
DrovenIn(w, u) == InLane(w.car.at) /\ ~InLane(u.at) /\ w.car.service.through

\* Leaving the lane serves the drive-through that was driven, and exchanges a
\* stop that was begun only.
LEMMA LeavingWell ==
  ASSUME NEW r, NEW w, Well(w), NEW u \in Update
  PROVE  LET v == Leaving(r, w, u)
         IN  /\ Well(v) /\ SameRecord(w, v)
             /\ InLane(u.at) => v = w
             /\ v.ps["stopAndGo"] = w.ps["stopAndGo"]
             /\ v.ps["adjustment"] >= w.ps["adjustment"]
             /\ w.ps["time"] > 0 /\ v.ps["time"] = 0 =>
                  \/ DrovenIn(w, u)
                  \/ v.ps["driveThrough"] > 0
                  \/ v.ps["adjustment"] > w.ps["adjustment"]
             /\ w.ps["driveThrough"] > 0 /\ v.ps["driveThrough"] = 0 => DrovenIn(w, u)
<1> DEFINE x == Leaving(r, w, u)
           v == IF w.car.service.attempted THEN TimeToDriveThrough(r, w) ELSE w
           served == IF DroveThrough(v)
                     THEN Pair([v.car EXCEPT !.crossings = 0], Serve(v.ps, "driveThrough"))
                     ELSE v
           rest == [served EXCEPT !.car.service.through = FALSE, !.car.service.slow = FALSE,
                      !.car.service.stopped = FALSE, !.car.service.paused = FALSE]
<1>a. w.ps \in PenaltyCounts /\ \A k \in Recorded : w.ps[k] \in Nat
  BY DEF Well, PairType, PenaltyCounts
<1>1. CASE ~(InLane(w.car.at) /\ ~InLane(u.at))
  <2>1. x = w
    BY <1>1 DEF Leaving
  <2>2. SameRecord(w, w)
    BY DEF SameRecord
  <2> HIDE DEF x
  <2> QED BY <1>a, <2>1, <2>2, SMTT(30) DEF Recorded, Served, x
<1>2. CASE InLane(w.car.at) /\ ~InLane(u.at)
  <2>1. /\ Well(v) /\ SameRecord(w, v)
        /\ w.ps["time"] > 0 /\ v.ps["time"] = 0 =>
             v.ps["driveThrough"] > 0 \/ v.ps["adjustment"] > w.ps["adjustment"]
        /\ v.ps["adjustment"] >= w.ps["adjustment"]
        /\ v.ps["driveThrough"] >= w.ps["driveThrough"]
        /\ v.ps["stopAndGo"] = w.ps["stopAndGo"]
        /\ v.car.service.through = w.car.service.through
    <3>1. CASE w.car.service.attempted
      BY <1>a, <3>1, TimeToDriveThroughWell
    <3>2. CASE ~w.car.service.attempted
      BY <1>a, <3>2 DEF SameRecord, Recorded, Served
    <3> QED BY <3>1, <3>2
  <2> HIDE DEF v
  <2>2. v \in PairType /\ v.ps \in PenaltyCounts /\ v.car \in Entrant
    BY <2>1 DEF Well, PairType
  <2>b. \A k \in Recorded : v.ps[k] \in Nat
    BY <2>2 DEF PenaltyCounts
  <2>3. /\ Well(served) /\ SameRecord(v, served)
        /\ \A k \in Recorded : k # "driveThrough" => served.ps[k] = v.ps[k]
        /\ served.ps["driveThrough"] = v.ps["driveThrough"] \/ v.car.service.through
    <3>1. CASE DroveThrough(v)
      <4> DEFINE c == [v.car EXCEPT !.crossings = 0]
                 q == Serve(v.ps, "driveThrough")
      <4>1. /\ c \in Entrant /\ c.crossings = 0 /\ c.service = v.car.service
            /\ c.laps = v.car.laps
        BY <2>2, PenaltyAssumption DEF Entrant
      <4>2. /\ q \in PenaltyCounts /\ q["driveThrough"] = 0
            /\ \A k \in Recorded : k # "driveThrough" => q[k] = v.ps[k]
        BY <2>2, ServeCounts DEF Recorded, Served
      <4>3. served = [car |-> c, ps |-> q]
        BY <3>1 DEF Pair
      <4>4. v.car.service.through
        BY <3>1 DEF DroveThrough
      <4> HIDE DEF c, q, served
      <4>5. Well(served) /\ SameRecord(v, served)
        BY <2>1, <4>1, <4>2, <4>3 DEF Well, SameRecord, PairType, Recorded, Served
      <4> QED BY <4>2, <4>3, <4>4, <4>5
    <3>2. CASE ~DroveThrough(v)
      BY <2>1, <3>2 DEF SameRecord
    <3> QED BY <3>1, <3>2
  <2> HIDE DEF served
  <2>4. served \in PairType /\ served.car \in Entrant
    BY <2>3 DEF Well, PairType
  <2>5. /\ rest \in PairType /\ rest.ps = served.ps
        /\ rest.car.crossings = served.car.crossings /\ rest.car.laps = served.car.laps
        /\ rest.car.service.elapsed = served.car.service.elapsed
        /\ rest.car.service.since = served.car.service.since
        /\ rest.car.service.required = served.car.service.required
    BY <2>4, ZenonT(60) DEF PairType, Entrant, Service
  <2>6. x = rest
    BY <1>2 DEF Leaving, served, v
  <2> HIDE DEF x, rest
  <2>7. Well(x) /\ SameRecord(w, x)
    BY <2>1, <2>3, <2>5, <2>6 DEF Well, SameRecord
  <2>8. /\ x.ps["stopAndGo"] = v.ps["stopAndGo"] /\ x.ps["time"] = v.ps["time"]
        /\ x.ps["adjustment"] = v.ps["adjustment"]
        /\ x.ps["driveThrough"] = v.ps["driveThrough"] \/ v.car.service.through
    BY <2>3, <2>5, <2>6 DEF Recorded, Served
  <2>9. /\ w.ps["adjustment"] \in Nat /\ v.ps["adjustment"] \in Nat
        /\ w.ps["driveThrough"] \in Nat /\ v.ps["driveThrough"] \in Nat
    BY <1>a, <2>b DEF Recorded, Served
  <2>10. /\ v.car.service.through => DrovenIn(w, u)
    BY <1>2, <2>1 DEF DrovenIn
  <2> QED BY <1>2, <2>1, <2>7, <2>8, <2>9, <2>10 DEF x
<1> QED BY <1>1, <1>2

\* A telemetry message: what it leaves undue was driven, stood for or exchanged.
LEMMA UpdatePenaltyServiceWell ==
  ASSUME NEW r, NEW w, Well(w), NEW u \in Update, NEW gap \in Nat
  PROVE  LET v == UpdatePenaltyService(r, w, u, gap)
         IN  /\ Well(v) /\ SameRecord(w, v)
             /\ \A kind \in Served : w.ps[kind] > 0 /\ v.ps[kind] = 0 =>
                  \/ DrovenIn(w, u)
                  \/ kind = "time" /\ u.at = "zone" /\ StoodIn(w, v)
                  \/ v.ps["driveThrough"] > 0
                  \/ v.ps["adjustment"] > w.ps["adjustment"]
<1> DEFINE e == Entering(w, u)
           t == Transit(e, u, gap)
           k == ClockRuns(t, gap)
           s == TimeService(r, k, u)
           x == Leaving(r, s, u)
           v == UpdatePenaltyService(r, w, u, gap)
<1>0. w \in PairType /\ w.car \in Entrant /\ \A n \in Recorded : w.ps[n] \in Nat
  BY DEF Well, PairType, PenaltyCounts
<1>1. CASE ~CanExecute(r, w.car)
  <2> DEFINE y == [w EXCEPT !.car.service = Live]
  <2>1. v = y
    BY <1>1 DEF UpdatePenaltyService
  <2>2. /\ y \in PairType /\ y.ps = w.ps /\ y.car.crossings = w.car.crossings
        /\ y.car.laps = w.car.laps /\ y.car.service = Live
    BY <1>0 DEF PairType, Entrant, Service, Live
  <2> HIDE DEF y, v
  <2>3. Well(v) /\ SameRecord(w, v)
    BY <2>1, <2>2 DEF Well, SameRecord, Live
  <2> QED BY <2>1, <2>2, <2>3 DEF v
<1>2. CASE CanExecute(r, w.car)
  <2>1. v = x
    BY <1>2 DEF UpdatePenaltyService
  <2>2. Along(w, e)
    BY EnteringAlong
  <2> HIDE DEF e, v
  <2>3. Along(e, t)
    BY <2>2, TransitAlong DEF Along
  <2> HIDE DEF t
  <2>4. Along(t, k)
    BY <2>3, ClockRunsAlong DEF Along
  <2> HIDE DEF k
  <2>5. Along(w, k)
    BY <2>2, <2>3, <2>4 DEF Along
  <2>6. /\ Well(s) /\ SameRecord(k, s)
        /\ s.car.at = k.car.at /\ s.car.service.through = k.car.service.through
        /\ s.ps["stopAndGo"] = k.ps["stopAndGo"]
        /\ s.ps["driveThrough"] >= k.ps["driveThrough"]
        /\ s.ps["adjustment"] >= k.ps["adjustment"]
        /\ k.ps["time"] > 0 /\ s.ps["time"] = 0 =>
             \/ u.at = "zone" /\ StoodIn(k, s)
             \/ s.ps["driveThrough"] > 0
             \/ s.ps["adjustment"] > k.ps["adjustment"]
    BY <2>5, TimeServiceWell DEF Along
  <2> HIDE DEF s
  <2>7. /\ Well(x) /\ SameRecord(s, x)
        /\ InLane(u.at) => x = s
        /\ x.ps["stopAndGo"] = s.ps["stopAndGo"]
        /\ x.ps["adjustment"] >= s.ps["adjustment"]
        /\ s.ps["time"] > 0 /\ x.ps["time"] = 0 =>
             \/ DrovenIn(s, u)
             \/ x.ps["driveThrough"] > 0
             \/ x.ps["adjustment"] > s.ps["adjustment"]
        /\ s.ps["driveThrough"] > 0 /\ x.ps["driveThrough"] = 0 => DrovenIn(s, u)
    BY <2>6, LeavingWell
  <2> HIDE DEF x
  <2>8. Well(x) /\ SameRecord(w, x)
    BY <2>5, <2>6, <2>7 DEF Along, SameRecord
  <2>9. DrovenIn(s, u) => DrovenIn(w, u)
    BY <2>5, <2>6 DEF Along, DrovenIn
  <2>10. u.at = "zone" /\ StoodIn(k, s) => StoodIn(w, x)
    BY <2>5, <2>7 DEF Along, StoodIn, InLane
  <2>11. /\ \A n \in Recorded : s.ps[n] \in Nat /\ x.ps[n] \in Nat
    BY <2>6, <2>7 DEF Well, PairType, PenaltyCounts
  <2>12. k.ps = w.ps
    BY <2>5 DEF Along
  <2>13. /\ w.ps["time"] \in Nat /\ s.ps["time"] \in Nat /\ x.ps["time"] \in Nat
         /\ w.ps["driveThrough"] \in Nat /\ s.ps["driveThrough"] \in Nat
         /\ x.ps["driveThrough"] \in Nat
         /\ w.ps["adjustment"] \in Nat /\ s.ps["adjustment"] \in Nat
         /\ x.ps["adjustment"] \in Nat
    BY <1>0, <2>11 DEF Recorded, Served
  <2>14. w.ps["driveThrough"] > 0 /\ x.ps["driveThrough"] = 0 => DrovenIn(w, u)
    BY <2>6, <2>7, <2>9, <2>12, <2>13
  <2>15. w.ps["time"] > 0 /\ x.ps["time"] = 0 =>
           \/ DrovenIn(w, u)
           \/ u.at = "zone" /\ StoodIn(w, x)
           \/ x.ps["driveThrough"] > 0
           \/ x.ps["adjustment"] > w.ps["adjustment"]
    BY <2>6, <2>7, <2>9, <2>10, <2>12, <2>13
  <2>16. w.ps["stopAndGo"] > 0 => x.ps["stopAndGo"] # 0
    BY <1>0, <2>6, <2>7, <2>12 DEF Recorded, Served
  <2> QED BY <2>1, <2>8, <2>14, <2>15, <2>16 DEF Served, v
<1> QED BY <1>1, <1>2
-----------------------------------------------------------------------------
(* The line, and reports of services *)

\* A drive-through that is overdue has become seconds of the result.
LEMMA DeadlineWell ==
  ASSUME NEW w, Well(w)
  PROVE  LET v == Deadline(w)
         IN  /\ Well(v) /\ SameRecord(w, v)
             /\ w.ps["driveThrough"] > 0 /\ v.ps["driveThrough"] = 0 =>
                  v.ps["adjustment"] > w.ps["adjustment"]
             /\ v.ps["time"] = w.ps["time"] /\ v.ps["stopAndGo"] = w.ps["stopAndGo"]
<1> DEFINE n == [w EXCEPT !.car.crossings = @ + 1]
           v == Deadline(w)
<1>0. w \in PairType /\ w.car \in Entrant /\ w.ps["driveThrough"] \in Nat
  BY DEF Well, PairType, PenaltyCounts, Recorded, Served
<1>1. \/ v = w
      \/ /\ w.ps["driveThrough"] > 0
         /\ v = IF n.car.crossings <= LinesAllowed THEN n ELSE DriveThroughToSeconds(n)
  BY DEF Deadline, Owes
<1>2. SameRecord(w, w)
  BY DEF SameRecord
<1> HIDE DEF v
<1>3. CASE v = w
  BY <1>0, <1>2, <1>3 DEF v
<1>4. CASE /\ w.ps["driveThrough"] > 0
           /\ v = IF n.car.crossings <= LinesAllowed THEN n ELSE DriveThroughToSeconds(n)
  <2>1. w.car.crossings \in 0..LinesAllowed
    BY <1>0, <1>4, PenaltyAssumption DEF Well, Entrant
  <2>2. w.car.crossings + 1 \in 0..(LinesAllowed + 1)
    BY <2>1, PenaltyAssumption
  <2>3. /\ n \in PairType /\ n.ps = w.ps /\ n.car.laps = w.car.laps
        /\ n.car.service = w.car.service
    BY <1>0, <2>2 DEF PairType, Entrant
  <2> HIDE DEF n
  <2>4. Timed(n) /\ SameRecord(w, n)
    BY <2>3 DEF Well, Timed, SameRecord
  <2>5. CASE n.car.crossings <= LinesAllowed
    BY <1>4, <2>3, <2>4, <2>5 DEF Well, Timed, v
  <2>6. CASE ~(n.car.crossings <= LinesAllowed)
    <3>1. v = DriveThroughToSeconds(n)
      BY <1>4, <2>6
    <3>2. /\ Well(v) /\ SameRecord(n, v)
          /\ n.ps["driveThrough"] > 0 => v.ps["adjustment"] > n.ps["adjustment"]
          /\ v.ps["time"] = n.ps["time"] /\ v.ps["stopAndGo"] = n.ps["stopAndGo"]
      BY <2>4, <3>1, DriveThroughToSecondsWell
    <3> QED BY <2>3, <2>4, <3>2 DEF SameRecord, v
  <2> QED BY <2>5, <2>6
<1> QED BY <1>1, <1>3, <1>4

\* A disqualification for missing stops is given to who misses them.
LEMMA EnforceMinimumStopsWell ==
  ASSUME NEW w, Well(w)
  PROVE  LET v == EnforceMinimumStops(w)
         IN  /\ Well(v) /\ v.car.laps = w.car.laps
             /\ \A k \in Recorded : k # "automatic" => v.ps[k] = w.ps[k]
             /\ \/ v.ps["automatic"] = w.ps["automatic"]
                \/ (MinimumStops # 0 /\ ~(stops.services >= MinimumStops))
<1> DEFINE c == [w.car EXCEPT !.status = "disqualified"]
           q == [w.ps EXCEPT !.automatic = @ + 1]
<1>0. w \in PairType /\ w.car \in Entrant /\ w.ps \in PenaltyCounts
  BY DEF Well, PairType
<1>1. CASE MinimumStops = 0 \/ stops.services >= MinimumStops
  BY <1>1 DEF EnforceMinimumStops
<1>2. CASE ~(MinimumStops = 0 \/ stops.services >= MinimumStops)
  <2>1. /\ c \in Entrant /\ c.laps = w.car.laps /\ c.crossings = w.car.crossings
        /\ c.service = w.car.service
    BY <1>0 DEF Entrant, Terminal
  <2>2. q \in PenaltyCounts /\ \A k \in Recorded : k # "automatic" => q[k] = w.ps[k]
    BY <1>0 DEF PenaltyCounts, Recorded, Served
  <2>3. EnforceMinimumStops(w) = [car |-> c, ps |-> q]
    BY <1>2 DEF EnforceMinimumStops, Pair
  <2> HIDE DEF c, q
  <2> QED BY <1>2, <2>1, <2>2, <2>3 DEF Well, PairType, Recorded, Served
<1> QED BY <1>1, <1>2

\* The minimum, once reached, lifts the disqualification for missing it.
LEMMA LiftDisqualificationWell ==
  ASSUME NEW w, Well(w), NEW services \in Nat
  PROVE  LET v == LiftDisqualification(w, services)
         IN  /\ Well(v) /\ v.car.laps = w.car.laps
             /\ \A k \in Recorded : k # "automatic" => v.ps[k] = w.ps[k]
             /\ v.ps["automatic"] > 0 =>
                  /\ w.ps["automatic"] > 0
                  /\ MinimumStops = 0 \/ services < MinimumStops
<1>0. w \in PairType /\ w.car \in Entrant /\ w.ps \in PenaltyCounts
  BY DEF Well, PairType
<1> DEFINE status == IF Owes(w.ps, "disqualification") \/ w.car.status # "disqualified"
                     THEN w.car.status
                     ELSE IF w.car.finishedAt THEN "finished" ELSE "racing"
           c == [w.car EXCEPT !.status = status]
           q == Serve(w.ps, "automatic")
           unmet == \/ MinimumStops = 0 \/ services < MinimumStops
                    \/ ~Owes(w.ps, "automatic")
<1>1. CASE unmet
  <2>1. LiftDisqualification(w, services) = w
    BY <1>1 DEF LiftDisqualification
  <2> QED BY <1>1, <2>1 DEF Owes
<1>2. CASE ~unmet
  <2>1. status \in Terminal \cup {"racing", "disconnected"}
    BY <1>0 DEF Entrant, Terminal
  <2> HIDE DEF status
  <2>2. /\ c \in Entrant /\ c.laps = w.car.laps /\ c.crossings = w.car.crossings
        /\ c.service = w.car.service
    BY <1>0, <2>1 DEF Entrant
  <2>3. /\ q \in PenaltyCounts /\ q["automatic"] = 0
        /\ \A k \in Recorded : k # "automatic" => q[k] = w.ps[k]
    BY <1>0, ServeCounts DEF Recorded, Served
  <2>4. LiftDisqualification(w, services) = [car |-> c, ps |-> q]
    BY <1>2 DEF LiftDisqualification, Pair, status
  <2> HIDE DEF c, q
  <2> QED BY <2>2, <2>3, <2>4 DEF Well, PairType, Recorded, Served
<1> QED BY <1>1, <1>2
-----------------------------------------------------------------------------
(* The inductive invariant *)

Stops == [client : Client, services : Nat, seen : [Visit -> {"no", "early", "late"}],
          counted : SUBSET Visit]

RaceType == [phase : {"race", "suspended", "finished"}, flag : {"green", "red", "chequered"}]

PenaltiesInv ==
  /\ race \in RaceType
  /\ Well(Pair(entrant, penalties))
  /\ stops \in Stops
  /\ IsFiniteSet(stops.counted)
  /\ EachVisitOnce
  /\ DisqualificationForStopsIsTrue

\* What the two action properties say of one step.
Settled ==
  entrant'.laps > entrant.laps /\ race'.flag = "chequered"
    => \A kind \in Served : ~Owes(penalties', kind)

Kept ==
  \A kind \in Served :
    penalties[kind] > 0 /\ penalties'[kind] = 0 =>
      \/ RevokePenalty(kind)
      \/ Driven \/ (Stood /\ kind = "time")
      \/ Exchanged

Step == PenaltiesInv' /\ Settled /\ Kept

\* The state the invariant is about, its parts typed.
LEMMA Parts ==
  ASSUME PenaltiesInv
  PROVE  /\ entrant \in Entrant /\ penalties \in PenaltyCounts
         /\ \A k \in Recorded : penalties[k] \in Nat
         /\ Pair(entrant, penalties).car = entrant /\ Pair(entrant, penalties).ps = penalties
BY DEF PenaltiesInv, Well, PairType, Pair, PenaltyCounts

\* The types are part of the invariant.
LEMMA TypeFollows == PenaltiesInv => PenaltiesTypeOK
<1> SUFFICES ASSUME PenaltiesInv PROVE PenaltiesTypeOK
  OBVIOUS
<1>1. /\ entrant \in Entrant /\ penalties \in PenaltyCounts
      /\ entrant.service.elapsed <= entrant.service.required
      /\ entrant.service.since <= entrant.service.required
      /\ race \in RaceType /\ stops \in Stops
  BY Parts DEF PenaltiesInv, Well
<1>2. entrant.service \in Service
  BY <1>1 DEF Entrant
<1>3. /\ entrant.service.elapsed \in 0..entrant.service.required
      /\ entrant.service.since \in 0..entrant.service.required
  BY <1>1, <1>2 DEF Service
<1> QED BY <1>1, <1>3 DEF PenaltiesTypeOK, RaceType, Stops, Entrant, PenaltyCounts

\* A step that counts no service: the invariant is about the pair.
LEMMA PairStep ==
  ASSUME PenaltiesInv, race' \in RaceType, Well(Pair(entrant', penalties')),
         stops' \in Stops, stops'.client = stops.client, stops'.counted = stops.counted,
         stops.client = "reporting" => stops'.services = stops.services,
         penalties'["automatic"] > 0 =>
           penalties["automatic"] > 0 \/ (MinimumStops # 0 /\ ~(stops.services >= MinimumStops))
  PROVE  PenaltiesInv'
<1>1. stops.services \in Nat /\ stops'.services \in Nat
  BY DEF PenaltiesInv, Stops
<1>2. EachVisitOnce'
  BY DEF PenaltiesInv, EachVisitOnce
<1>3. DisqualificationForStopsIsTrue'
  BY <1>1, PenaltyAssumption DEF PenaltiesInv, DisqualificationForStopsIsTrue, Owes
<1> QED BY <1>2, <1>3 DEF PenaltiesInv

\* What was seen before the finish still is.
LEMMA SeenBeforeStops ==
  ASSUME PenaltiesInv
  PROVE  /\ [stops EXCEPT !.seen = SeenBefore] \in Stops
         /\ [stops EXCEPT !.seen = SeenBefore].client = stops.client
         /\ [stops EXCEPT !.seen = SeenBefore].counted = stops.counted
         /\ [stops EXCEPT !.seen = SeenBefore].services = stops.services
<1>1. stops \in Stops
  BY DEF PenaltiesInv
<1>2. SeenBefore \in [Visit -> {"no", "early", "late"}]
  BY <1>1 DEF SeenBefore, Stops
<1> QED BY <1>1, <1>2 DEF Stops

\* The flag stays when the race is complete.
LEMMA CompleteRace ==
  ASSUME NEW r \in RaceType, NEW c, NEW rivals
  PROVE  Complete(r, c, rivals) \in RaceType /\ Complete(r, c, rivals).flag = r.flag
BY DEF Complete, RaceType

\* The driver's status, connection and recovery are no part of the invariant.
LEMMA CarStep ==
  ASSUME PenaltiesInv, race' \in RaceType, entrant' \in Entrant,
         entrant'.crossings = entrant.crossings, entrant'.laps = entrant.laps,
         entrant'.service = entrant.service, penalties' = penalties,
         stops' \in {stops, [stops EXCEPT !.seen = SeenBefore]}
  PROVE  Step
<1>1. penalties \in PenaltyCounts /\ \A k \in Recorded : penalties[k] \in Nat
  BY Parts
<1>2. Well(Pair(entrant', penalties'))
  BY <1>1 DEF PenaltiesInv, Well, Pair, PairType
<1>3. stops' \in Stops /\ stops'.client = stops.client /\ stops'.counted = stops.counted
      /\ stops'.services = stops.services
  BY SeenBeforeStops DEF PenaltiesInv
<1>4. PenaltiesInv'
  BY <1>2, <1>3, PairStep
<1>5. Settled
  BY Parts, PenaltyAssumption DEF Settled, Entrant
<1>6. Kept
  BY <1>1 DEF Kept, Recorded, Served
<1> QED BY <1>4, <1>5, <1>6 DEF Step

\* A race begins with nothing due and nothing counted.
LEMMA InvInit == PenaltiesInit => PenaltiesInv
<1> SUFFICES ASSUME PenaltiesInit PROVE PenaltiesInv
  OBVIOUS
<1>1. race \in RaceType
  BY DEF PenaltiesInit, RaceType
<1>2. /\ entrant \in Entrant /\ entrant.service = Live /\ entrant.crossings = 0
      /\ penalties \in PenaltyCounts
  BY PenaltyAssumption
     DEF PenaltiesInit, Entrant, Service, Live, Terminal, PenaltyCounts, Recorded, Served
<1>3. Well(Pair(entrant, penalties))
  BY <1>2, PenaltyAssumption DEF Well, Pair, PairType, Live
<1>4. stops \in Stops /\ stops.services = 0 /\ stops.counted = {}
  BY DEF PenaltiesInit, Stops
<1>5. IsFiniteSet(stops.counted) /\ Cardinality(stops.counted) = 0
  BY <1>4, FS_EmptySet
<1>6. penalties["automatic"] = 0
  BY DEF PenaltiesInit
<1> QED BY <1>1, <1>3, <1>4, <1>5, <1>6
        DEF PenaltiesInv, EachVisitOnce, DisqualificationForStopsIsTrue, Owes
-----------------------------------------------------------------------------
(* The steps *)

\* A telemetry message.
LEMMA SampleStep ==
  ASSUME PenaltiesInv, NEW u \in Update, NEW v \in Visit, NEW met \in BOOLEAN,
         NEW gap \in 0..MaxGap, Sample(u, v, met, gap)
  PROVE  Step
<1> DEFINE old == Pair(entrant, penalties)
           w == UpdatePenaltyService(race, old, u, gap)
<1>0. /\ entrant \in Entrant /\ \A k \in Recorded : penalties[k] \in Nat
      /\ old.car = entrant /\ old.ps = penalties /\ Well(old)
  BY Parts DEF PenaltiesInv
<1>1. gap \in Nat
  BY PenaltyAssumption
<1> HIDE DEF old
<1>2. /\ Well(w) /\ SameRecord(old, w)
      /\ \A kind \in Served : old.ps[kind] > 0 /\ w.ps[kind] = 0 =>
           \/ DrovenIn(old, u)
           \/ kind = "time" /\ u.at = "zone" /\ StoodIn(old, w)
           \/ w.ps["driveThrough"] > 0
           \/ w.ps["adjustment"] > old.ps["adjustment"]
  BY <1>0, <1>1, UpdatePenaltyServiceWell
<1>3. /\ entrant' = [w.car EXCEPT !.at = u.at] /\ penalties' = w.ps
      /\ stops' = NotePitService(w, u, v, met) /\ race' = race
  BY DEF Sample, old
<1> HIDE DEF w
<1>4. w.car \in Entrant /\ w.ps \in PenaltyCounts
  BY <1>2 DEF Well, PairType
<1>5. u.at \in {"track", "lane", "zone"}
  BY DEF Update
<1>6. /\ entrant' \in Entrant /\ entrant'.service = w.car.service /\ entrant'.at = u.at
      /\ entrant'.crossings = w.car.crossings /\ entrant'.laps = w.car.laps
  BY <1>3, <1>4, <1>5 DEF Entrant
<1>7. Well(Pair(entrant', penalties'))
  BY <1>2, <1>3, <1>4, <1>6 DEF Well, Pair, PairType
<1>8. /\ stops' \in Stops /\ stops'.client = stops.client /\ stops'.counted = stops.counted
      /\ stops.client = "reporting" => stops'.services = stops.services
  <2>1. stops \in Stops
    BY DEF PenaltiesInv
  <2> QED BY <1>3, <2>1 DEF NotePitService, Stops
<1>9. race' \in RaceType
  BY <1>3 DEF PenaltiesInv
<1>10. penalties'["automatic"] = penalties["automatic"] /\ entrant'.laps = entrant.laps
  BY <1>0, <1>2, <1>3, <1>6 DEF SameRecord
<1>11. PenaltiesInv'
  BY <1>7, <1>8, <1>9, <1>10, PairStep
<1>12. Settled
  BY <1>0, <1>10, PenaltyAssumption DEF Settled, Entrant
<1>13. Kept
  <2>1. DrovenIn(old, u) => Driven
    BY <1>0, <1>6 DEF DrovenIn, Driven
  <2>2. u.at = "zone" /\ StoodIn(old, w) => Stood
    BY <1>0, <1>6 DEF StoodIn, Stood
  <2> QED BY <1>0, <1>2, <1>3, <2>1, <2>2 DEF Kept, Exchanged
<1> QED BY <1>11, <1>12, <1>13 DEF Step

\* A valid lap: the race goes on, or the flag settles what is due.
LEMMA CrossLineStep ==
  ASSUME PenaltiesInv, NEW rivals \in BOOLEAN, CrossLine(rivals)
  PROVE  Step
<1> DEFINE c == [entrant EXCEPT !.laps = @ + 1, !.recovery = FALSE]
           leads == race.flag # "chequered" /\ c.laps >= TotalLaps
           r == IF leads THEN [race EXCEPT !.flag = "chequered"] ELSE race
           f == Pair(Finished(c, "finished"), penalties)
           g == SettleAtFinish(f)
           d == Pair(c, penalties)
           w == IF r.flag = "chequered" THEN EnforceMinimumStops(g) ELSE Deadline(d)
<1>0. /\ entrant \in Entrant /\ penalties \in PenaltyCounts
      /\ \A k \in Recorded : penalties[k] \in Nat
      /\ Well(Pair(entrant, penalties)) /\ race \in RaceType
  BY Parts DEF PenaltiesInv
<1>1. entrant.laps < TotalLaps /\ entrant' = w.car /\ penalties' = w.ps
      /\ race' = Complete(r, w.car, rivals)
      /\ stops' \in {stops, [stops EXCEPT !.seen = SeenBefore]}
  BY DEF CrossLine
<1>2. /\ c \in Entrant /\ c.crossings = entrant.crossings /\ c.service = entrant.service
  <2>1. entrant.laps + 1 \in 0..TotalLaps
    BY <1>0, <1>1, PenaltyAssumption DEF Entrant
  <2> QED BY <1>0, <2>1 DEF Entrant
<1>3. r \in RaceType
  BY <1>0 DEF RaceType
<1> HIDE DEF c, r
<1>4. Well(f) /\ f.ps = penalties
  BY <1>0, <1>2 DEF Well, Pair, PairType, Finished, Entrant, Terminal
<1>5. Well(d) /\ d.ps = penalties
  BY <1>0, <1>2 DEF Well, Pair, PairType, Entrant
<1> HIDE DEF f, d
<1>6. race' \in RaceType /\ race'.flag = r.flag
  BY <1>1, <1>3, CompleteRace
<1>7. /\ Well(w)
      /\ w.ps["automatic"] > 0 =>
           penalties["automatic"] > 0 \/ (MinimumStops # 0 /\ ~(stops.services >= MinimumStops))
      /\ r.flag = "chequered" => \A kind \in Served : w.ps[kind] = 0
      /\ \A kind \in Served :
           penalties[kind] > 0 /\ w.ps[kind] = 0 => w.ps["adjustment"] > penalties["adjustment"]
  <2>1. CASE r.flag = "chequered"
    <3>1. /\ Well(g) /\ SameRecord(f, g) /\ \A kind \in Served : g.ps[kind] = 0
          /\ \A kind \in Served :
               penalties[kind] > 0 => g.ps["adjustment"] > penalties["adjustment"]
      BY <1>4, SettleAtFinishWell
    <3> HIDE DEF g
    <3>2. /\ Well(w)
          /\ \A k \in Recorded : k # "automatic" => w.ps[k] = g.ps[k]
          /\ \/ w.ps["automatic"] = g.ps["automatic"]
             \/ (MinimumStops # 0 /\ ~(stops.services >= MinimumStops))
      BY <2>1, <3>1, EnforceMinimumStopsWell
    <3> HIDE DEF w
    <3>3. g.ps["automatic"] = penalties["automatic"]
      BY <1>4, <3>1 DEF SameRecord
    <3>4. \A kind \in Served : w.ps[kind] = 0
      BY <3>1, <3>2 DEF Recorded, Served
    <3>5. w.ps["adjustment"] = g.ps["adjustment"]
      BY <3>2 DEF Recorded, Served
    <3> QED BY <3>1, <3>2, <3>3, <3>4, <3>5
  <2>2. CASE ~(r.flag = "chequered")
    <3>1. w = Deadline(d)
      BY <2>2
    <3>2. /\ Well(w) /\ SameRecord(d, w)
          /\ d.ps["driveThrough"] > 0 /\ w.ps["driveThrough"] = 0 =>
               w.ps["adjustment"] > d.ps["adjustment"]
          /\ w.ps["time"] = d.ps["time"] /\ w.ps["stopAndGo"] = d.ps["stopAndGo"]
      BY <1>5, <3>1, DeadlineWell
    <3> HIDE DEF w
    <3> QED BY <1>0, <1>5, <2>2, <3>2 DEF SameRecord, Recorded, Served
  <2> QED BY <2>1, <2>2
<1> HIDE DEF w
<1>8. Well(Pair(entrant', penalties'))
  BY <1>1, <1>7 DEF Well, Pair, PairType
<1>9. stops' \in Stops /\ stops'.client = stops.client /\ stops'.counted = stops.counted
      /\ stops'.services = stops.services
  BY <1>1, SeenBeforeStops DEF PenaltiesInv
<1>10. PenaltiesInv'
  BY <1>1, <1>6, <1>7, <1>8, <1>9, PairStep
<1>11. Settled
  BY <1>1, <1>6, <1>7 DEF Settled, Owes
<1>12. Kept
  BY <1>1, <1>7 DEF Kept, Exchanged
<1> QED BY <1>10, <1>11, <1>12 DEF Step

\* An invalid lap counts as a line crossed.
LEMMA CrossLineInvalidStep ==
  ASSUME PenaltiesInv, CrossLineInvalid
  PROVE  Step
<1> DEFINE c == [entrant EXCEPT !.recovery = FALSE]
           d == Pair(c, penalties)
           w == Deadline(d)
<1>0. /\ entrant \in Entrant /\ penalties \in PenaltyCounts
      /\ \A k \in Recorded : penalties[k] \in Nat
      /\ Well(Pair(entrant, penalties)) /\ race \in RaceType /\ stops \in Stops
  BY Parts DEF PenaltiesInv
<1>1. entrant' = w.car /\ penalties' = w.ps /\ race' = race /\ stops' = stops
  BY DEF CrossLineInvalid
<1>2. /\ c \in Entrant /\ c.crossings = entrant.crossings /\ c.service = entrant.service
      /\ c.laps = entrant.laps
  BY <1>0 DEF Entrant
<1> HIDE DEF c
<1>3. Well(d) /\ d.ps = penalties /\ d.car = c
  BY <1>0, <1>2 DEF Well, Pair, PairType
<1> HIDE DEF d
<1>4. /\ Well(w) /\ SameRecord(d, w)
      /\ d.ps["driveThrough"] > 0 /\ w.ps["driveThrough"] = 0 =>
           w.ps["adjustment"] > d.ps["adjustment"]
      /\ w.ps["time"] = d.ps["time"] /\ w.ps["stopAndGo"] = d.ps["stopAndGo"]
  BY <1>3, DeadlineWell
<1> HIDE DEF w
<1>5. Well(Pair(entrant', penalties'))
  BY <1>1, <1>4 DEF Well, Pair, PairType
<1>6. penalties'["automatic"] = penalties["automatic"] /\ entrant'.laps = entrant.laps
  BY <1>1, <1>2, <1>3, <1>4 DEF SameRecord
<1>7. PenaltiesInv'
  BY <1>0, <1>1, <1>5, <1>6, PairStep
<1>8. Settled
  BY <1>0, <1>6, PenaltyAssumption DEF Settled, Entrant
<1>9. Kept
  BY <1>0, <1>1, <1>3, <1>4 DEF Kept, Exchanged, Recorded, Served
<1> QED BY <1>7, <1>8, <1>9 DEF Step
\* A visit is counted only if it was not, so the count is the number of visits.
LEMMA ServiceReportStep ==
  ASSUME PenaltiesInv, NEW v \in Visit, NEW services \in 0..MaxService,
         NEW recovered \in BOOLEAN, ServiceReport(v, services, recovered)
  PROVE  Step
<1> DEFINE old == Pair(entrant, penalties)
           w == LiftDisqualification(old, services)
<1>0. /\ entrant \in Entrant /\ \A k \in Recorded : penalties[k] \in Nat
      /\ old.car = entrant /\ old.ps = penalties /\ Well(old)
      /\ race \in RaceType /\ stops \in Stops
  BY Parts DEF PenaltiesInv
<1>1. services \in Nat
  BY PenaltyAssumption
<1>2. /\ race' = race /\ entrant' = w.car /\ penalties' = w.ps
      /\ stops' = [stops EXCEPT !.counted = @ \cup {v}, !.services = services]
      /\ v \notin stops.counted /\ services = stops.services + 1
      /\ stops.client = "reporting"
  BY DEF ServiceReport, Counts
<1> HIDE DEF old
<1>3. /\ Well(w) /\ w.car.laps = old.car.laps
      /\ \A k \in Recorded : k # "automatic" => w.ps[k] = old.ps[k]
      /\ w.ps["automatic"] > 0 => MinimumStops = 0 \/ services < MinimumStops
      /\ w.ps["automatic"] > 0 => old.ps["automatic"] > 0
  BY <1>0, <1>1, LiftDisqualificationWell
<1> HIDE DEF w
<1>4. Well(Pair(entrant', penalties'))
  BY <1>2, <1>3 DEF Well, Pair, PairType
<1>5. /\ stops' \in Stops /\ stops'.counted = stops.counted \cup {v}
      /\ stops'.services = services /\ stops'.client = stops.client
  BY <1>0, <1>1, <1>2 DEF Stops
<1>6. /\ IsFiniteSet(stops'.counted)
      /\ Cardinality(stops'.counted) = Cardinality(stops.counted) + 1
  <2>1. IsFiniteSet(stops.counted)
    BY DEF PenaltiesInv
  <2>2. /\ IsFiniteSet(stops.counted \cup {v})
        /\ Cardinality(stops.counted \cup {v}) = Cardinality(stops.counted) + 1
    BY <1>2, <2>1, FS_AddElement
  <2> QED BY <1>5, <2>2
<1>7. EachVisitOnce'
  BY <1>2, <1>5, <1>6 DEF PenaltiesInv, EachVisitOnce
<1>8. DisqualificationForStopsIsTrue'
  <2>1. ~(penalties["automatic"] > 0 /\ MinimumStops = 0)
    BY <1>0, <1>2 DEF PenaltiesInv, DisqualificationForStopsIsTrue, Owes, Stops
  <2> QED BY <1>0, <1>2, <1>3, <1>5, <2>1 DEF DisqualificationForStopsIsTrue, Owes
<1>9. PenaltiesInv'
  BY <1>0, <1>2, <1>4, <1>5, <1>6, <1>7, <1>8 DEF PenaltiesInv
<1>10. Settled
  BY <1>0, <1>2, <1>3, PenaltyAssumption DEF Settled, Entrant
<1>11. Kept
  BY <1>0, <1>2, <1>3 DEF Kept, Recorded, Served
<1> QED BY <1>9, <1>10, <1>11 DEF Step

\* Race control gives a penalty: none is fewer after it.
LEMMA ApplyPenaltyStep ==
  ASSUME PenaltiesInv, NEW kind \in Served \cup {"disqualification"}, ApplyPenalty(kind)
  PROVE  Step
<1> DEFINE given == [penalties EXCEPT !.given = @ + 1]
           old == Pair(entrant, given)
           v == Pair(entrant', penalties')
<1>0. /\ entrant \in Entrant /\ penalties \in PenaltyCounts
      /\ \A k \in Recorded : penalties[k] \in Nat
      /\ Well(Pair(entrant, penalties)) /\ race \in RaceType /\ stops \in Stops
  BY Parts DEF PenaltiesInv
<1>1. given \in PenaltyCounts /\ \A k \in Recorded : given[k] = penalties[k]
  BY <1>0 DEF PenaltyCounts, Recorded, Served
<1>2. race' = race /\ stops' = stops
  BY DEF ApplyPenalty
<1>3. \/ /\ entrant' = GiveDriveThrough(race, old).car
         /\ penalties' = GiveDriveThrough(race, old).ps
      \/ /\ entrant' = [entrant EXCEPT !.status = "disqualified"]
         /\ penalties' = [given EXCEPT !.disqualification = @ + 1]
      \/ entrant' = entrant /\ penalties' = Adjust(given)
      \/ /\ entrant' = entrant /\ kind \in {"time", "stopAndGo"}
         /\ penalties' = [given EXCEPT ![kind] = @ + 1]
  BY DEF ApplyPenalty, Pair, Served
<1> HIDE DEF given
<1>4. Well(old) /\ old.ps = given /\ old.car = entrant
  BY <1>0, <1>1 DEF Well, Pair, PairType, Recorded, Served
<1> HIDE DEF old
<1>5. /\ Well(v) /\ entrant'.laps = entrant.laps
      /\ penalties'["automatic"] = penalties["automatic"]
      /\ \A k \in Served : penalties'[k] >= penalties[k]
  <2>1. CASE /\ entrant' = GiveDriveThrough(race, old).car
             /\ penalties' = GiveDriveThrough(race, old).ps
    <3> DEFINE g == GiveDriveThrough(race, old)
    <3>1. /\ Well(g) /\ SameRecord(old, g) /\ g.ps["driveThrough"] >= old.ps["driveThrough"]
          /\ g.ps["time"] = old.ps["time"] /\ g.ps["stopAndGo"] = old.ps["stopAndGo"]
      BY <1>4, GiveDriveThroughWell
    <3> HIDE DEF g
    <3>2. entrant' = g.car /\ penalties' = g.ps
      BY <2>1 DEF g
    <3>3. Well(v)
      BY <3>1, <3>2 DEF Well, Pair, PairType
    <3> QED BY <1>0, <1>1, <1>4, <3>1, <3>2, <3>3 DEF SameRecord, Recorded, Served
  <2>2. CASE /\ entrant' = [entrant EXCEPT !.status = "disqualified"]
             /\ penalties' = [given EXCEPT !.disqualification = @ + 1]
    <3>1. /\ entrant' \in Entrant /\ entrant'.laps = entrant.laps
          /\ entrant'.crossings = entrant.crossings /\ entrant'.service = entrant.service
      BY <1>0, <2>2 DEF Entrant, Terminal
    <3>2. /\ penalties' \in PenaltyCounts
          /\ \A k \in Recorded \ {"disqualification"} : penalties'[k] = penalties[k]
      BY <1>1, <2>2 DEF PenaltyCounts, Recorded, Served
    <3>3. Well(v)
      BY <1>0, <3>1, <3>2 DEF Well, Pair, PairType, Recorded, Served
    <3> QED BY <1>0, <3>1, <3>2, <3>3 DEF Recorded, Served
  <2>3. CASE entrant' = entrant /\ penalties' = Adjust(given)
    <3>1. /\ penalties' \in PenaltyCounts
          /\ \A k \in Recorded : k # "adjustment" => penalties'[k] = penalties[k]
      BY <1>1, <2>3, AdjustCounts
    <3>2. Well(v)
      BY <1>0, <2>3, <3>1 DEF Well, Pair, PairType, Recorded, Served
    <3> QED BY <1>0, <2>3, <3>1, <3>2 DEF Recorded, Served
  <2>4. CASE /\ entrant' = entrant /\ kind \in {"time", "stopAndGo"}
             /\ penalties' = [given EXCEPT ![kind] = @ + 1]
    <3>1. /\ penalties' \in PenaltyCounts /\ penalties'[kind] = penalties[kind] + 1
          /\ \A k \in Recorded : k # kind => penalties'[k] = penalties[k]
      BY <1>1, <2>4 DEF PenaltyCounts, Recorded, Served
    <3>2. Well(v)
      BY <1>0, <2>4, <3>1 DEF Well, Pair, PairType, Recorded, Served
    <3> QED BY <1>0, <2>4, <3>1, <3>2 DEF Recorded, Served
  <2> QED BY <1>3, <2>1, <2>2, <2>3, <2>4
<1>6. PenaltiesInv'
  BY <1>0, <1>2, <1>5, PairStep
<1>7. Settled
  BY <1>0, <1>5, PenaltyAssumption DEF Settled, Entrant
<1>8. Kept
  BY <1>0, <1>5 DEF Kept, Recorded, Served
<1> QED BY <1>6, <1>7, <1>8 DEF Step

\* Race control takes one back.
LEMMA RevokePenaltyStep ==
  ASSUME PenaltiesInv, NEW kind \in Recorded, RevokePenalty(kind)
  PROVE  Step
<1>0. /\ entrant \in Entrant /\ penalties \in PenaltyCounts
      /\ \A k \in Recorded : penalties[k] \in Nat
      /\ Well(Pair(entrant, penalties)) /\ race \in RaceType /\ stops \in Stops
      /\ entrant.service.elapsed <= entrant.service.required
      /\ entrant.service.since <= entrant.service.required
  BY Parts DEF PenaltiesInv, Well
<1>1. /\ race' = race /\ stops' = stops /\ penalties[kind] > 0
      /\ penalties' = [penalties EXCEPT ![kind] = @ - 1]
  BY DEF RevokePenalty
<1>2. /\ penalties' \in PenaltyCounts /\ penalties'[kind] = penalties[kind] - 1
      /\ \A k \in Recorded : k # kind => penalties'[k] = penalties[k]
  <2>1. penalties[kind] - 1 \in Nat
    BY <1>0, <1>1
  <2> QED BY <1>0, <1>1, <2>1 DEF PenaltyCounts
<1>3. /\ entrant' \in Entrant /\ entrant'.laps = entrant.laps
      /\ entrant'.crossings = entrant.crossings
      /\ entrant'.service \in {entrant.service, Live}
  <2> DEFINE status == IF entrant.finishedAt THEN "finished" ELSE "racing"
             c == IF kind \in {"disqualification", "automatic"} /\ entrant.status = "disqualified"
                  THEN [entrant EXCEPT !.status = status] ELSE entrant
  <2>1. entrant' \in {c, [c EXCEPT !.service = Live]}
    BY DEF RevokePenalty
  <2>2. status \in Terminal \cup {"racing", "disconnected"}
    BY DEF Terminal
  <2> HIDE DEF status
  <2>3. /\ c \in Entrant /\ c.laps = entrant.laps /\ c.crossings = entrant.crossings
        /\ c.service = entrant.service
    BY <1>0, <2>2 DEF Entrant
  <2> HIDE DEF c
  <2>4. Live \in Service
    BY DEF Live, Service
  <2>5. /\ [c EXCEPT !.service = Live] \in Entrant
        /\ [c EXCEPT !.service = Live].laps = c.laps
        /\ [c EXCEPT !.service = Live].crossings = c.crossings
        /\ [c EXCEPT !.service = Live].service = Live
    BY <2>3, <2>4 DEF Entrant
  <2> QED BY <2>1, <2>3, <2>5
<1>4. Well(Pair(entrant', penalties'))
  <2>1. entrant'.service.elapsed <= entrant'.service.required
        /\ entrant'.service.since <= entrant'.service.required
    BY <1>0, <1>3 DEF Live
  <2>2. penalties'["driveThrough"] > 0 => penalties["driveThrough"] > 0
    BY <1>0, <1>2 DEF Recorded, Served
  <2> QED BY <1>0, <1>2, <1>3, <2>1, <2>2 DEF Well, Pair, PairType
<1>5. penalties'["automatic"] > 0 => penalties["automatic"] > 0
  BY <1>0, <1>2 DEF Recorded, Served
<1>6. PenaltiesInv'
  BY <1>0, <1>1, <1>4, <1>5, PairStep
<1>7. Settled
  BY <1>0, <1>3, PenaltyAssumption DEF Settled, Entrant
<1>8. Kept
  BY <1>0, <1>2 DEF Kept, Recorded, Served
<1> QED BY <1>6, <1>7, <1>8 DEF Step

\* The actions that neither drive nor sanction: the car's status, connection
\* and recovery, and the race.
LEMMA OtherStep ==
  ASSUME PenaltiesInv,
         \/ \E rivals \in Rivals : DropOut(rivals) \/ Login(rivals) \/ RecoveryLapses(rivals)
         \/ RivalTakesFlag \/ RivalsFinish \/ RedFlag \/ GreenFlag
         \/ \E status \in {"didNotFinish", "disqualified"} : Retire(status)
  PROVE  Step
<1>0. /\ entrant \in Entrant /\ race \in RaceType /\ stops \in Stops
  BY Parts DEF PenaltiesInv
<1>1. CASE RivalTakesFlag \/ RivalsFinish \/ RedFlag \/ GreenFlag
  <2>1. entrant' = entrant /\ penalties' = penalties /\ stops' = stops
    BY <1>1 DEF RivalTakesFlag, RivalsFinish, RedFlag, GreenFlag
  <2>2. CASE RivalsFinish
    BY <1>0, <2>1, <2>2, CompleteRace, CarStep DEF RivalsFinish
  <2>3. CASE RivalTakesFlag \/ RedFlag \/ GreenFlag
    <3>1. race' \in RaceType
      BY <1>0, <2>3 DEF RivalTakesFlag, RedFlag, GreenFlag, RaceType
    <3> QED BY <1>0, <2>1, <3>1, CarStep
  <2> QED BY <1>1, <2>2, <2>3
<1>2. CASE \E status \in {"didNotFinish", "disqualified"} : Retire(status)
  <2>1. PICK status \in {"didNotFinish", "disqualified"} : Retire(status)
    BY <1>2
  <2>2. /\ entrant' \in Entrant /\ entrant'.crossings = entrant.crossings
        /\ entrant'.laps = entrant.laps /\ entrant'.service = entrant.service
    BY <1>0, <2>1 DEF Retire, Finished, Entrant, Terminal
  <2> QED BY <1>0, <2>1, <2>2, CarStep DEF Retire
<1>3. CASE \E rivals \in Rivals : DropOut(rivals) \/ Login(rivals) \/ RecoveryLapses(rivals)
  <2>1. PICK rivals \in Rivals : DropOut(rivals) \/ Login(rivals) \/ RecoveryLapses(rivals)
    BY <1>3
  <2>2. CASE DropOut(rivals)
    <3> DEFINE status == IF entrant.status \in Terminal THEN entrant.status ELSE "disconnected"
               recovery == /\ RecoveryEnabled /\ status = "disconnected"
                           /\ race.phase \in {"race", "suspended"}
               c == [entrant EXCEPT !.connected = FALSE, !.status = status, !.recovery = recovery]
    <3>1. entrant' = c /\ race' = Complete(race, c, rivals) /\ penalties' = penalties
          /\ stops' = stops
      BY <2>2 DEF DropOut
    <3>2. status \in Terminal \cup {"racing", "disconnected"} /\ recovery \in BOOLEAN
      BY PenaltyAssumption
    <3> HIDE DEF status, recovery
    <3>3. /\ c \in Entrant /\ c.crossings = entrant.crossings
          /\ c.laps = entrant.laps /\ c.service = entrant.service
      BY <1>0, <3>2 DEF Entrant
    <3> HIDE DEF c
    <3> QED BY <1>0, <3>1, <3>3, CompleteRace, CarStep
  <2>3. CASE Login(rivals)
    <3> DEFINE late == race.flag = "chequered" /\ ~entrant.recovery
               status == IF late THEN "didNotFinish" ELSE "racing"
               finishedAt == entrant.finishedAt \/ late
               c == [entrant EXCEPT !.connected = TRUE, !.status = status,
                       !.finishedAt = finishedAt]
    <3>1. entrant' = c /\ race' = Complete(race, c, rivals) /\ penalties' = penalties
          /\ stops' \in {stops, [stops EXCEPT !.seen = SeenBefore]}
      BY <2>3 DEF Login
    <3>2. status \in Terminal \cup {"racing", "disconnected"} /\ finishedAt \in BOOLEAN
      BY <1>0 DEF Entrant, Terminal
    <3> HIDE DEF status, finishedAt
    <3>3. /\ c \in Entrant /\ c.crossings = entrant.crossings
          /\ c.laps = entrant.laps /\ c.service = entrant.service
      BY <1>0, <3>2 DEF Entrant
    <3> HIDE DEF c
    <3> QED BY <1>0, <3>1, <3>3, CompleteRace, CarStep
  <2>4. CASE RecoveryLapses(rivals)
    <3> DEFINE lost == /\ ~entrant.connected /\ race.flag = "chequered"
                       /\ entrant.status = "disconnected"
               finishedAt == entrant.finishedAt \/ lost
               status == IF lost THEN "didNotFinish" ELSE entrant.status
               c == [entrant EXCEPT !.recovery = FALSE, !.finishedAt = finishedAt,
                       !.status = status]
    <3>1. entrant' = c /\ race' = Complete(race, c, rivals) /\ penalties' = penalties
          /\ stops' \in {stops, [stops EXCEPT !.seen = SeenBefore]}
      BY <2>4 DEF RecoveryLapses
    <3>2. status \in Terminal \cup {"racing", "disconnected"} /\ finishedAt \in BOOLEAN
      BY <1>0 DEF Entrant, Terminal
    <3> HIDE DEF status, finishedAt
    <3>3. /\ c \in Entrant /\ c.crossings = entrant.crossings
          /\ c.laps = entrant.laps /\ c.service = entrant.service
      BY <1>0, <3>2 DEF Entrant
    <3> HIDE DEF c
    <3> QED BY <1>0, <3>1, <3>3, CompleteRace, CarStep
  <2> QED BY <2>1, <2>2, <2>3, <2>4
<1> QED BY <1>1, <1>2, <1>3

\* Every step.
LEMMA NextStep ==
  ASSUME PenaltiesInv, PenaltiesNext
  PROVE  Step
<1>1. CASE \E u \in Update, v \in Visit, met \in BOOLEAN, gap \in 0..MaxGap :
             Sample(u, v, met, gap)
  BY <1>1, SampleStep
<1>2. CASE \E rivals \in BOOLEAN : CrossLine(rivals)
  BY <1>2, CrossLineStep
<1>3. CASE CrossLineInvalid
  BY <1>3, CrossLineInvalidStep
<1>4. CASE \E v \in Visit, n \in 0..MaxService, recovered \in BOOLEAN :
             ServiceReport(v, n, recovered)
  BY <1>4, ServiceReportStep
<1>5. CASE \E kind \in Served \cup {"disqualification"} : ApplyPenalty(kind)
  BY <1>5, ApplyPenaltyStep
<1>6. CASE \E kind \in Recorded : RevokePenalty(kind)
  BY <1>6, RevokePenaltyStep
<1>7. CASE \/ \E rivals \in Rivals : DropOut(rivals) \/ Login(rivals) \/ RecoveryLapses(rivals)
           \/ RivalTakesFlag \/ RivalsFinish \/ RedFlag \/ GreenFlag
           \/ \E status \in {"didNotFinish", "disqualified"} : Retire(status)
  BY <1>7, OtherStep
<1> QED BY <1>1, <1>2, <1>3, <1>4, <1>5, <1>6, <1>7 DEF PenaltiesNext, Otherwise

\* The invariant is about the variables only.
LEMMA StutterInv == PenaltiesInv /\ UNCHANGED penaltyVars => PenaltiesInv'
BY DEF PenaltiesInv, penaltyVars, EachVisitOnce, DisqualificationForStopsIsTrue

-----------------------------------------------------------------------------
(* The theorems *)

\* The penalties and services stay well: by induction over the steps of
\* race-core.ts above.
THEOREM PenaltiesInductive == PenaltiesSpec => []PenaltiesInv
<1>1. PenaltiesInv /\ [PenaltiesNext]_penaltyVars => PenaltiesInv'
  BY NextStep, StutterInv DEF Step
<1> QED BY <1>1, InvInit, PTL DEF PenaltiesSpec

\* The state of a driver's penalties, their live service and the pit services
\* always has the shape ParticipantState and PenaltyState give it.
THEOREM PenaltiesTyped == PenaltiesSpec => []PenaltiesTypeOK
BY PenaltiesInductive, TypeFollows, PTL

\* However many visits there are and however often and late a service is
\* reported, completePitService counts every visit once.
THEOREM VisitsCountOnce == PenaltiesSpec => []EachVisitOnce
<1>1. PenaltiesInv => EachVisitOnce
  BY DEF PenaltiesInv
<1> QED BY <1>1, PenaltiesInductive, PTL

\* Whatever minimum is set, nobody stays disqualified for missing stops that
\* completePitService has counted since.
THEOREM DisqualifiedOnlyForMissingStops == PenaltiesSpec => []DisqualificationForStopsIsTrue
<1>1. PenaltiesInv => DisqualificationForStopsIsTrue
  BY DEF PenaltiesInv
<1> QED BY <1>1, PenaltiesInductive, PTL

\* However many penalties are due when the flag is taken,
\* finalizePendingPenaltiesAtFinish leaves none of them to be served.
THEOREM FlagLeavesNothingDue == PenaltiesSpec => FlagSettlesEverything
<1>1. PenaltiesInv /\ [PenaltiesNext]_penaltyVars => [Settled]_penaltyVars
  BY NextStep DEF Step
<1> QED BY <1>1, PenaltiesInductive, PTL DEF PenaltiesSpec, FlagSettlesEverything, Settled

\* However many penalties and however long the race, what is no longer due was
\* revoked, driven, stood for or exchanged: none is lost between the handlers.
THEOREM NoSanctionIsLost == PenaltiesSpec => SanctionsAreNotLost
<1>1. PenaltiesInv /\ [PenaltiesNext]_penaltyVars => [Kept]_penaltyVars
  BY NextStep DEF Step
<1> QED BY <1>1, PenaltiesInductive, PTL DEF PenaltiesSpec, SanctionsAreNotLost, Kept
=============================================================================
