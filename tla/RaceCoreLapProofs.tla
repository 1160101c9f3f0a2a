------------------------- MODULE RaceCoreLapProofs -------------------------
(* Laps are counted right: EachLapOnce and LapsCredited, for every set of  *)
(* drivers, every set of lap reports and every bound.                      *)
(*                                                                         *)
(* Neither is inductive.  A lap number is new only because the last one    *)
(* accepted in the stage bounds those before it; a stage starts with no    *)
(* receipt of its own only because no receipt is of a later stage; and a   *)
(* race that follows a countdown starts with no laps only because nothing  *)
(* is counted on the grid.  Counted says these together.                   *)
EXTENDS RaceCoreProofs

Blank(p) == p.receipts = {} /\ p.laps = 0

CreditedIn(p, s) == {x \in p.receipts : x.stage = s /\ x.event.valid}

OnGrid(r) ==
  \/ r.phase = "countdown"
  \/ r.phase = "suspended" /\ r.before = "countdown"

Once(p) ==
  \A x, y \in p.receipts :
    \/ x = y
    \/ /\ x.event.id # y.event.id
       /\ x.stage # NoStage /\ x.stage = y.stage /\ x.event.valid /\ y.event.valid
            => x.event.lap # y.event.lap

\* The numbers of the stage being validated are bounded by the last one.
Bounded(p) ==
  \A x \in p.receipts :
    x.stage # NoStage /\ x.stage = p.lapStage /\ x.event.valid
      => x.event.lap <= p.lastLap /\ (x.event.lap = p.lastLap => p.lastValid)

\* No receipt is of a stage to come, or of one not yet validated in.
Dated(r, p) ==
  \A x \in p.receipts :
    /\ x.stage <= r.stages
    /\ r.stage # NoStage /\ p.lapStage # r.stage => x.stage # r.stage

Tally(r, p) ==
  r.stage # NoStage /\ p.eligible => p.laps = Cardinality(CreditedIn(p, r.stage))

Numbered(r, p) ==
  /\ p.seat # "held" => Blank(p)
  /\ IsFiniteSet(p.receipts)
  /\ Once(p)
  /\ Bounded(p)
  /\ Dated(r, p)
  /\ Tally(r, p)

Counted(r, ds) ==
  /\ r.stage \in {NoStage, r.stages}
  /\ OnGrid(r) => \A d \in Driver : ds[d].laps = 0
  /\ \A d \in Driver : Numbered(r, ds[d])

LapInv == TypeOK /\ Counted(room, driver)

-----------------------------------------------------------------------------
(* What a step may do to a participant who crosses no line *)

Alike(p, q) ==
  /\ q.seat = p.seat
  /\ q.receipts = p.receipts
  /\ q.lapStage = p.lapStage
  /\ q.lastLap = p.lastLap
  /\ q.lastValid = p.lastValid

Kept(p, q) == Alike(p, q) /\ q.laps = p.laps /\ (q.eligible => p.eligible)

Fresh(p, q) == Alike(p, q) /\ (q.eligible => q.laps = 0)

LEMMA BlankNumbered ==
  ASSUME NEW r, NEW p, Blank(p)
  PROVE  Numbered(r, p)
<1>1. IsFiniteSet(p.receipts)
  BY FS_EmptySet DEF Blank
<1>2. Once(p) /\ Bounded(p) /\ Dated(r, p)
  BY DEF Once, Bounded, Dated, Blank
<1>3. CreditedIn(p, r.stage) = {}
  BY DEF CreditedIn, Blank
<1>4. Tally(r, p)
  BY <1>3, FS_EmptySet DEF Tally, Blank
<1> QED BY <1>1, <1>2, <1>4 DEF Numbered

\* The stage goes on, or is closed.
LEMMA KeptNumbered ==
  ASSUME NEW r, NEW p, NEW s, NEW q, Numbered(r, p), Kept(p, q),
         s.stages = r.stages, s.stage \in {r.stage, NoStage}
  PROVE  Numbered(s, q)
<1>1. (q.seat # "held" => Blank(q)) /\ IsFiniteSet(q.receipts)
  BY DEF Numbered, Blank, Kept, Alike
<1>2. Once(q) /\ Bounded(q)
  BY DEF Numbered, Once, Bounded, Kept, Alike
<1>3. Dated(s, q)
  BY DEF Numbered, Dated, Kept, Alike
<1>4. Tally(s, q)
  BY DEF Numbered, Tally, CreditedIn, Kept, Alike
<1> QED BY <1>1, <1>2, <1>3, <1>4 DEF Numbered

\* The stage is closed, and laps may be reset.
LEMMA ClosedNumbered ==
  ASSUME NEW r, NEW p, NEW s, NEW q, Numbered(r, p), Alike(p, q),
         q.laps \in {p.laps, 0}, s.stages = r.stages, s.stage = NoStage
  PROVE  Numbered(s, q)
<1>1. (q.seat # "held" => Blank(q)) /\ IsFiniteSet(q.receipts)
  BY DEF Numbered, Blank, Alike
<1>2. Once(q) /\ Bounded(q)
  BY DEF Numbered, Once, Bounded, Alike
<1>3. Dated(s, q) /\ Tally(s, q)
  BY DEF Numbered, Dated, Tally, Alike
<1> QED BY <1>1, <1>2, <1>3 DEF Numbered

\* A stage is opened under an id that no receipt has.
LEMMA OpenedNumbered ==
  ASSUME NEW r \in Room, NEW p \in Participant, NEW s, NEW q, Numbered(r, p),
         Fresh(p, q), q.laps \in {p.laps, 0},
         s.stages = r.stages + 1, s.stage = r.stages + 1
  PROVE  Numbered(s, q)
<1>1. (q.seat # "held" => Blank(q)) /\ IsFiniteSet(q.receipts)
  BY DEF Numbered, Blank, Fresh, Alike
<1>2. Once(q) /\ Bounded(q)
  BY DEF Numbered, Once, Bounded, Fresh, Alike
<1>3. r.stages \in Nat
  BY BoundAssumption DEF Room
<1>4. \A x \in p.receipts : x.stage \in Nat /\ x.stage <= r.stages
  BY BoundAssumption DEF Numbered, Dated, Participant, Receipt, Stage, NoStage
<1>5. q.receipts = p.receipts
  BY DEF Fresh, Alike
<1>6. \A x \in q.receipts : x.stage <= s.stages /\ x.stage # s.stage
  BY <1>3, <1>4, <1>5
<1>7. Dated(s, q)
  BY <1>6 DEF Dated
<1>8. CreditedIn(q, s.stage) = {}
  BY <1>6 DEF CreditedIn
<1>9. Tally(s, q)
  BY <1>8, FS_EmptySet DEF Tally, Fresh
<1> QED BY <1>1, <1>2, <1>7, <1>9 DEF Numbered

-----------------------------------------------------------------------------
(* What a step may do to the room *)

LEMMA CountedKept ==
  ASSUME NEW r, NEW ds, NEW s, NEW es, Counted(r, ds),
         s.stages = r.stages, s.stage \in {r.stage, NoStage},
         OnGrid(s) => OnGrid(r),
         \A d \in Driver : Kept(ds[d], es[d]) \/ Blank(es[d])
  PROVE  Counted(s, es)
<1>1. s.stage \in {NoStage, s.stages}
  BY DEF Counted
<1>2. OnGrid(s) => \A d \in Driver : es[d].laps = 0
  BY DEF Counted, Kept, Blank
<1>3. \A d \in Driver : Numbered(s, es[d])
  BY KeptNumbered, BlankNumbered DEF Counted
<1> QED BY <1>1, <1>2, <1>3 DEF Counted

LEMMA CountedClosed ==
  ASSUME NEW r, NEW ds, NEW s, NEW es, Counted(r, ds),
         s.stages = r.stages, s.stage = NoStage,
         OnGrid(s) => \A d \in Driver : es[d].laps = 0,
         \A d \in Driver : \/ Alike(ds[d], es[d]) /\ es[d].laps \in {ds[d].laps, 0}
                           \/ Blank(es[d])
  PROVE  Counted(s, es)
<1>1. \A d \in Driver : Numbered(s, es[d])
  BY ClosedNumbered, BlankNumbered DEF Counted
<1> QED BY <1>1 DEF Counted

LEMMA CountedOpened ==
  ASSUME NEW r \in Room, NEW ds \in Drivers, NEW s, NEW es, Counted(r, ds),
         s.stages = r.stages + 1, s.stage = r.stages + 1, ~OnGrid(s),
         \A d \in Driver : Fresh(ds[d], es[d]) /\ es[d].laps \in {ds[d].laps, 0}
  PROVE  Counted(s, es)
<1>1. ASSUME NEW d \in Driver
      PROVE  Numbered(s, es[d])
  BY OpenedNumbered DEF Counted, Drivers
<1> QED BY <1>1 DEF Counted

LEMMA CountedUpdate ==
  ASSUME NEW r, NEW ds \in Drivers, NEW d \in Driver, NEW q, Counted(r, ds),
         Kept(ds[d], q) \/ Blank(q)
  PROVE  Counted(r, [ds EXCEPT ![d] = q])
<1> DEFINE es == [ds EXCEPT ![d] = q]
<1>1. es[d] = q /\ \A c \in Driver : c # d => es[c] = ds[c]
  BY DEF Drivers
<1>2. \A c \in Driver : Kept(ds[c], es[c]) \/ Blank(es[c])
  BY <1>1 DEF Kept, Alike
<1> HIDE DEF es
<1>3. Counted(r, es)
  BY <1>2, CountedKept
<1> QED BY <1>3 DEF es

-----------------------------------------------------------------------------
(* The completion checks *)

LEMMA SettledStage ==
  ASSUME NEW r \in Room, NEW ds
  PROVE  LET s == SettledRoom(r, ds)
         IN  /\ s.stages = r.stages
             /\ s.stage \in {r.stage, NoStage}
             /\ OnGrid(s) => OnGrid(r)
<1> DEFINE t == TimedRoom(r, ds)
<1>1. /\ t.stages = r.stages
      /\ t.stage \in {r.stage, NoStage}
      /\ t.before = r.before
      /\ t.phase \in {r.phase, "grid"}
  <2>1. CASE ~TimedDone(r, ds)
    BY <2>1 DEF TimedRoom
  <2>2. /\ [r EXCEPT !.clock = "none"].stages = r.stages
        /\ [r EXCEPT !.clock = "none"].stage = r.stage
        /\ [r EXCEPT !.clock = "none"].before = r.before
        /\ [r EXCEPT !.clock = "none"].phase = r.phase
    BY Zenon DEF Room
  <2>3. /\ [r EXCEPT !.clock = "none", !.flag = "green"].stages = r.stages
        /\ [r EXCEPT !.clock = "none", !.flag = "green"].stage = r.stage
        /\ [r EXCEPT !.clock = "none", !.flag = "green"].before = r.before
        /\ [r EXCEPT !.clock = "none", !.flag = "green"].phase = r.phase
    BY Zenon DEF Room
  <2>4. LET g == [r EXCEPT !.phase = "grid", !.stage = NoStage, !.flag = "green",
                           !.clock = "none", !.expired = FALSE, !.session = 0]
        IN  g.stages = r.stages /\ g.stage = NoStage /\ g.before = r.before
              /\ g.phase = "grid"
    BY Zenon DEF Room
  <2> QED BY <2>1, <2>2, <2>3, <2>4 DEF TimedRoom
<1>2. t \in Room
  BY TimedRoomType
<1> HIDE DEF t
<1>3. LET s == RaceRoom(t, ds)
      IN  /\ s.stages = t.stages /\ s.stage = t.stage /\ s.before = t.before
          /\ s.phase \in {t.phase, "finished"}
  BY <1>2 DEF RaceRoom, Room
<1> QED BY <1>1, <1>3 DEF SettledRoom, OnGrid, t

LEMMA TimedKept ==
  ASSUME NEW r, NEW ds \in Drivers, NEW cut, NEW d \in Driver
  PROVE  Kept(ds[d], TimedDrivers(r, ds, cut)[d])
<1> DEFINE q == [ds[d] EXCEPT !.status = Standing(ds[d]), !.finalLap = FALSE,
                              !.eligible = @ /\ d \notin cut]
<1>1. ds[d] \in Participant
  BY DEF Drivers
<1>2. Alike(ds[d], q) /\ q.laps = ds[d].laps
  BY <1>1, Zenon DEF Alike, Participant
<1>3. q.eligible = (ds[d].eligible /\ d \notin cut)
  BY <1>1, Zenon DEF Participant
<1>4. Kept(ds[d], q)
  BY <1>2, <1>3 DEF Kept
<1>5. Kept(ds[d], ds[d])
  BY DEF Kept, Alike
<1>6. TimedDrivers(r, ds, cut)[d] \in {ds[d], q}
  <2> HIDE DEF q
  <2> QED BY DEF TimedDrivers, q
<1> HIDE DEF q
<1> QED BY <1>4, <1>5, <1>6

LEMMA SettledCounted ==
  ASSUME NEW r \in Room, NEW ds \in Drivers, NEW cut, Counted(r, ds)
  PROVE  Counted(SettledRoom(r, ds), TimedDrivers(r, ds, cut))
BY SettledStage, TimedKept, CountedKept

LEMMA SettleCounted ==
  ASSUME NEW r \in Room, NEW ds \in Drivers, Counted(r, ds), Settle(r, ds, archive)
  PROVE  Counted(room, driver)'
BY SettledCounted DEF Settle

LEMMA RaceRoomCounted ==
  ASSUME NEW r \in Room, NEW ds \in Drivers, Counted(r, ds)
  PROVE  Counted(RaceRoom(r, ds), ds)
<1>1. LET s == RaceRoom(r, ds)
      IN  /\ s.stages = r.stages /\ s.stage = r.stage /\ s.before = r.before
          /\ s.phase \in {r.phase, "finished"}
  BY DEF RaceRoom, Room
<1>2. \A d \in Driver : Kept(ds[d], ds[d])
  BY DEF Kept, Alike
<1> QED BY <1>1, <1>2, CountedKept DEF OnGrid

-----------------------------------------------------------------------------
(* Seats *)

LEMMA SeatsCounted ==
  ASSUME LapInv, Seats
  PROVE  Counted(room, driver)'
<1> USE DEF Drivers
<1>1. PICK d \in Driver : Login(d) \/ Resume(d) \/ Disconnect(d) \/ Release(d) \/ SetReady(d)
  BY DEF Seats
<1>2. room \in Room /\ driver \in Drivers /\ driver[d] \in Participant
  BY DEF LapInv, TypeOK
<1>3. Counted(room, driver)
  BY DEF LapInv
<1>4. CASE Login(d)
  <2>1. Blank([FreeSeat EXCEPT !.seat = "held", !.status = "active", !.connected = TRUE])
    BY DEF Blank, FreeSeat
  <2> QED BY <1>2, <1>3, <1>4, <2>1, CountedUpdate DEF Login
<1>5. CASE Resume(d)
  <2> DEFINE late == /\ room.flag = "chequered"
                     /\ room.phase \in {"race", "finished"}
                     /\ driver[d].recovery # "open"
             seat == [driver[d] EXCEPT !.connected = TRUE,
                        !.status = IF late THEN "didNotFinish" ELSE "active",
                        !.stopped = @ \/ late]
             back == [driver EXCEPT ![d].connected = TRUE,
                        ![d].status = IF late THEN "didNotFinish" ELSE "active",
                        ![d].stopped = @ \/ late]
  <2>1. Kept(driver[d], seat)
    BY <1>2, Zenon DEF Kept, Alike, Participant
  <2>2. back = [driver EXCEPT ![d] = seat]
    BY <1>2
  <2> HIDE DEF seat
  <2>3. Counted(room, back)
    BY <1>2, <1>3, <2>1, <2>2, CountedUpdate
  <2>4. back \in Drivers
    BY <1>2, <1>5, SeatsType DEF LapInv, TypeOK, Seats, Resume
  <2>5. room' = RaceRoom(room, back) /\ driver' = back
    BY <1>5 DEF Resume
  <2> HIDE DEF back
  <2> QED BY <1>2, <2>3, <2>4, <2>5, RaceRoomCounted
<1>6. CASE Disconnect(d)
  <2> DEFINE status == IF driver[d].status \in Terminal
                       THEN driver[d].status ELSE "disconnected"
             recoverable == /\ RecoveryEnabled
                            /\ status = "disconnected"
                            /\ (IF room.phase = "suspended" THEN room.before
                                ELSE room.phase) \in ResultPhases
             seat == [driver[d] EXCEPT !.connected = FALSE, !.status = status,
                        !.recovery = IF recoverable THEN "open" ELSE "none",
                        !.finalLap = @ /\ recoverable]
             left == [driver EXCEPT ![d].connected = FALSE, ![d].status = status,
                        ![d].recovery = IF recoverable THEN "open" ELSE "none",
                        ![d].finalLap = @ /\ recoverable]
  <2>1. left = [driver EXCEPT ![d] = seat]
    <3> HIDE DEF status, recoverable
    <3> QED BY <1>2
  <2>2. Kept(driver[d], seat)
    <3> HIDE DEF status, recoverable
    <3> QED BY <1>2, Zenon DEF Kept, Alike, Participant
  <2>3. seat \in Participant
    <3>1. status \in Status
      BY <1>2, StatusNames DEF Participant
    <3>2. /\ (driver[d].finalLap /\ recoverable) \in BOOLEAN
          /\ (IF recoverable THEN "open" ELSE "none") \in {"none", "open", "lapsed"}
      OBVIOUS
    <3> HIDE DEF status, recoverable
    <3> QED BY <1>2, <3>1, <3>2, Zenon DEF Participant
  <2>4. Settle(room, left, archive)
    BY <1>6 DEF Disconnect
  <2> HIDE DEF seat, left
  <2>5. left \in Drivers /\ Counted(room, left)
    BY <1>2, <1>3, <2>1, <2>2, <2>3, CountedUpdate
  <2> QED BY <1>2, <2>4, <2>5, SettleCounted
<1>7. CASE Release(d)
  <2> DEFINE racing == room.phase = "race"
             seat == [driver[d] EXCEPT !.connected = FALSE,
                        !.status = IF @ \in Terminal THEN @
                                   ELSE IF racing THEN "didNotFinish" ELSE "disconnected",
                        !.stopped = @ \/ racing,
                        !.recovery = "none",
                        !.finalLap = FALSE]
             out == [driver EXCEPT ![d] = seat]
  <2>1. PICK cut :
          /\ room' = SettledRoom(room, out)
          /\ driver' = [TimedDrivers(room, out, cut) EXCEPT ![d] = GoneSeat]
    BY <1>7 DEF Release
  <2>2. Kept(driver[d], seat)
    <3> HIDE DEF racing
    <3> QED BY <1>2, Zenon DEF Kept, Alike, Participant
  <2>3. seat \in Participant
    <3>1. (IF driver[d].status \in Terminal THEN driver[d].status
           ELSE IF racing THEN "didNotFinish" ELSE "disconnected") \in Status
      BY <1>2, StatusNames DEF Participant
    <3>2. (driver[d].stopped \/ racing) \in BOOLEAN
      OBVIOUS
    <3> HIDE DEF racing
    <3> QED BY <1>2, <3>1, <3>2, Zenon DEF Participant
  <2> HIDE DEF seat
  <2>4. out \in Drivers /\ Counted(room, out)
    BY <1>2, <1>3, <2>2, <2>3, CountedUpdate
  <2> HIDE DEF out
  <2>5. Counted(room', TimedDrivers(room, out, cut))
    BY <1>2, <2>1, <2>4, SettledCounted
  <2>6. TimedDrivers(room, out, cut) \in Drivers
    BY <2>4, TimedDriversType
  <2>7. Blank(GoneSeat)
    BY DEF Blank, GoneSeat, FreeSeat
  <2> QED BY <2>1, <2>5, <2>6, <2>7, CountedUpdate
<1>8. CASE SetReady(d)
  <2>1. Kept(driver[d], [driver[d] EXCEPT !.status = "active"])
    BY <1>2, Zenon DEF Kept, Alike, Participant
  <2> QED BY <1>2, <1>3, <1>8, <2>1, CountedUpdate DEF SetReady
<1> QED BY <1>1, <1>4, <1>5, <1>6, <1>7, <1>8

-----------------------------------------------------------------------------
(* Laps *)

LEMMA PreparedNumbered ==
  ASSUME room \in Room, NEW p \in Participant, Numbered(room, p)
  PROVE  /\ Numbered(room, Prepared(p))
         /\ Prepared(p).lapStage = room.stage
         /\ Prepared(p).laps = p.laps
         /\ Prepared(p).receipts = p.receipts
         /\ Prepared(p).seat = p.seat
<1> DEFINE q == [p EXCEPT !.lapStage = room.stage, !.lastLap = 0, !.lastValid = FALSE]
<1>1. CASE p.lapStage = room.stage
  BY <1>1 DEF Prepared
<1>2. CASE p.lapStage # room.stage
  <2>1. /\ q.seat = p.seat /\ q.receipts = p.receipts /\ q.laps = p.laps
        /\ q.eligible = p.eligible /\ q.lapStage = room.stage
    BY Zenon DEF Participant
  <2>2. Prepared(p) = q
    BY <1>2 DEF Prepared
  <2> HIDE DEF q
  <2>3. (q.seat # "held" => Blank(q)) /\ IsFiniteSet(q.receipts)
    BY <2>1 DEF Numbered, Blank
  <2>4. Once(q)
    BY <2>1 DEF Numbered, Once
  <2>5. Bounded(q)
    BY <1>2, <2>1 DEF Numbered, Bounded, Dated
  <2>6. Dated(room, q)
    BY <2>1 DEF Numbered, Dated
  <2>7. Tally(room, q)
    BY <2>1 DEF Numbered, Tally, CreditedIn
  <2> QED BY <2>1, <2>2, <2>3, <2>4, <2>5, <2>6, <2>7 DEF Numbered
<1> QED BY <1>1, <1>2

LEMMA CreditedNumbered ==
  ASSUME room \in Room, room.stage \in {NoStage, room.stages},
         NEW p \in Participant, NEW e \in LapEvent,
         Numbered(room, p), p.seat = "held", p.lapStage = room.stage,
         LapValid(p, e), ~Reported(p, e)
  PROVE  Numbered(room, Credited(p, e))
<1> DEFINE new == [event |-> e, stage |-> room.stage]
           q == Credited(p, e)
           noted == [p EXCEPT !.lastLap = e.lap, !.lastValid = e.valid,
                       !.receipts = @ \cup {new}, !.recovery = "none", !.finalLap = FALSE]
<1>1. e.lap \in Nat /\ e.valid \in BOOLEAN /\ e \in [id : LapId, stage : Nat, lap : Nat \ {0}, valid : BOOLEAN]
  BY LapEventAssumption
<1>2. /\ q.seat = p.seat /\ q.lapStage = p.lapStage /\ q.eligible = p.eligible
      /\ q.lastLap = e.lap /\ q.lastValid = e.valid
      /\ q.receipts = p.receipts \cup {new}
      /\ q.laps = IF e.valid THEN p.laps + 1 ELSE p.laps
  <2>1. /\ noted.seat = p.seat /\ noted.lapStage = p.lapStage
        /\ noted.eligible = p.eligible /\ noted.laps = p.laps
        /\ noted.lastLap = e.lap /\ noted.lastValid = e.valid
        /\ noted.receipts = p.receipts \cup {new}
    BY Zenon DEF Participant
  <2>2. noted \in Participant
    <3>1. p.receipts \cup {new} \in SUBSET Receipt
      BY DEF Participant, Receipt, Room
    <3> HIDE DEF new
    <3> QED BY <1>1, <3>1, Zenon DEF Participant
  <2>3. q = IF e.valid THEN [noted EXCEPT !.laps = @ + 1] ELSE noted
    BY DEF Credited
  <2> HIDE DEF noted, q, new
  <2>4. LET n == [noted EXCEPT !.laps = @ + 1]
        IN  /\ n.seat = noted.seat /\ n.lapStage = noted.lapStage
            /\ n.eligible = noted.eligible /\ n.laps = noted.laps + 1
            /\ n.lastLap = noted.lastLap /\ n.lastValid = noted.lastValid
            /\ n.receipts = noted.receipts
    BY <2>2 DEF Participant
  <2> QED BY <2>1, <2>3, <2>4
<1>3. new.event = e /\ new.stage = room.stage
  OBVIOUS
<1> HIDE DEF q, new, noted
<1>4. \A x \in p.receipts : x.event.id # e.id /\ x # new
  BY <1>3 DEF Reported
<1>5. \A x \in p.receipts : x.event.lap \in Nat
  BY LapEventAssumption DEF Participant, Receipt
<1>6. p.lastLap \in Nat /\ p.laps \in Nat /\ room.stages \in Nat /\ room.stage \in Nat
  BY BoundAssumption DEF Participant, Room, Stage, NoStage
<1>7. ASSUME NEW x \in p.receipts, x.stage # NoStage, x.stage = room.stage, x.event.valid
      PROVE  x.event.lap < e.lap
  <2>1. x.event.lap <= p.lastLap /\ (x.event.lap = p.lastLap => p.lastValid)
    BY <1>7 DEF Numbered, Bounded
  <2>2. e.lap >= p.lastLap /\ (e.lap = p.lastLap => ~p.lastValid)
    BY DEF LapValid
  <2> QED BY <1>1, <1>5, <1>6, <2>1, <2>2
<1>8. (q.seat # "held" => Blank(q)) /\ IsFiniteSet(q.receipts)
  BY <1>2, FS_AddElement DEF Numbered
<1>9. Once(q)
  <2>1. ASSUME NEW x \in p.receipts
        PROVE  /\ x.event.id # new.event.id
               /\ x.stage # NoStage /\ x.stage = new.stage /\ x.event.valid
                    => x.event.lap # new.event.lap
    BY <1>1, <1>3, <1>4, <1>5, <1>7
  <2>2. Once(p)
    BY DEF Numbered
  <2> QED BY <1>2, <2>1, <2>2 DEF Once
<1>10. Bounded(q)
  <2>1. ASSUME NEW x \in q.receipts, x.stage # NoStage, x.stage = q.lapStage, x.event.valid
        PROVE  x.event.lap <= q.lastLap /\ (x.event.lap = q.lastLap => q.lastValid)
    <3>1. CASE x = new
      BY <1>1, <1>2, <1>3, <2>1, <3>1
    <3>2. CASE x \in p.receipts
      <4>1. x.event.lap < e.lap
        BY <1>2, <1>7, <2>1, <3>2
      <4> QED BY <1>1, <1>2, <1>5, <3>2, <4>1
    <3> QED BY <1>2, <3>1, <3>2
  <2> QED BY <2>1 DEF Bounded
<1>11. Dated(room, q)
  <2>1. new.stage <= room.stages
    BY <1>3, <1>6 DEF NoStage
  <2> QED BY <1>2, <2>1 DEF Numbered, Dated
<1>12. Tally(room, q)
  <2> SUFFICES ASSUME room.stage # NoStage, q.eligible
               PROVE  q.laps = Cardinality(CreditedIn(q, room.stage))
    BY DEF Tally
  <2>1. p.laps = Cardinality(CreditedIn(p, room.stage))
    BY <1>2 DEF Numbered, Tally
  <2>2. CASE ~e.valid
    <3>1. CreditedIn(q, room.stage) = CreditedIn(p, room.stage)
      BY <1>2, <1>3, <2>2 DEF CreditedIn
    <3> QED BY <1>2, <2>1, <2>2, <3>1
  <2>3. CASE e.valid
    <3>1. CreditedIn(q, room.stage) = CreditedIn(p, room.stage) \cup {new}
      BY <1>2, <1>3, <2>3 DEF CreditedIn
    <3>2. new \notin CreditedIn(p, room.stage)
      BY <1>4 DEF CreditedIn
    <3>3. IsFiniteSet(CreditedIn(p, room.stage))
      BY FS_Subset DEF Numbered, CreditedIn
    <3>4. Cardinality(CreditedIn(p, room.stage) \cup {new})
            = Cardinality(CreditedIn(p, room.stage)) + 1
      BY <3>2, <3>3, FS_AddElement
    <3> QED BY <1>2, <2>1, <2>3, <3>1, <3>4
  <2> QED BY <2>2, <2>3
<1>13. Numbered(room, q)
  BY <1>8, <1>9, <1>10, <1>11, <1>12 DEF Numbered
<1> QED BY <1>13 DEF q

LEMMA CountedReplaced ==
  ASSUME NEW r, NEW ds \in Drivers, NEW d \in Driver, NEW q, Counted(r, ds),
         Numbered(r, q), OnGrid(r) => q.laps = 0
  PROVE  Counted(r, [ds EXCEPT ![d] = q])
<1> DEFINE es == [ds EXCEPT ![d] = q]
<1>1. es[d] = q /\ \A c \in Driver : c # d => es[c] = ds[c]
  BY DEF Drivers
<1> HIDE DEF es
<1>2. Counted(r, es)
  BY <1>1 DEF Counted
<1> QED BY <1>2 DEF es

LEMMA LapsCounted ==
  ASSUME LapInv, Laps
  PROVE  Counted(room, driver)'
<1>1. room \in Room /\ driver \in Drivers /\ \A d \in Driver : driver[d] \in Participant
  BY DEF LapInv, TypeOK, Drivers
<1>2. Counted(room, driver)
  BY DEF LapInv
<1>3. ASSUME NEW d \in Driver
      PROVE  LET p == Prepared(driver[d])
             IN  /\ p \in Participant
                 /\ Numbered(room, p)
                 /\ OnGrid(room) => p.laps = 0
                 /\ p.lapStage = room.stage
                 /\ p.seat = driver[d].seat /\ p.receipts = driver[d].receipts
  BY <1>1, <1>2, PreparedNumbered, PreparedType DEF Counted
<1>4. ASSUME NEW d \in Driver, Telemetry(d)
      PROVE  Counted(room, driver)'
  <2> DEFINE p == Prepared(driver[d])
             active == [p EXCEPT !.status = "active"]
             q == IF p.status \in Terminal THEN p ELSE active
  <2>1. /\ p \in Participant /\ Numbered(room, p)
        /\ OnGrid(room) => p.laps = 0
    BY <1>3
  <2>2. driver' = [driver EXCEPT ![d] = q] /\ room' = room
    BY <1>4 DEF Telemetry
  <2> HIDE DEF p
  <2>3. Kept(p, active)
    BY <2>1, Zenon DEF Kept, Alike, Participant
  <2>4. Kept(p, q)
    BY <2>3 DEF Kept, Alike
  <2> HIDE DEF q
  <2>5. Numbered(room, q) /\ q.laps = p.laps
    <3>1. room.stages = room.stages /\ room.stage \in {room.stage, NoStage}
      OBVIOUS
    <3>2. q.laps = p.laps
      BY <2>4 DEF Kept
    <3> QED BY <2>1, <2>4, <3>1, <3>2, KeptNumbered
  <2> QED BY <1>1, <1>2, <2>1, <2>2, <2>5, CountedReplaced
<1>5. ASSUME NEW d \in Driver, NEW e \in LapEvent, RejectLap(d, e)
      PROVE  Counted(room, driver)'
  <2>1. driver' = [driver EXCEPT ![d] = Prepared(driver[d])] /\ room' = room
    BY <1>5 DEF RejectLap
  <2> QED BY <1>1, <1>2, <1>3, <2>1, CountedReplaced
<1>6. ASSUME NEW d \in Driver, NEW e \in LapEvent, NEW recovered \in BOOLEAN,
             CompleteLap(d, e, recovered)
      PROVE  Counted(room, driver)'
  <2> DEFINE p == Prepared(driver[d])
             q == Credited(p, e)
             done == Finishes(q, e)
             finished == [q EXCEPT !.status = "finished", !.stopped = TRUE]
             x == IF done THEN finished ELSE q
             r == IF done THEN [room EXCEPT !.flag = "chequered"] ELSE room
  <2>1. /\ driver[d].seat = "held" /\ ~Reported(driver[d], e)
        /\ LapAdmitted(driver[d], recovered) /\ LapValid(p, e)
        /\ Settle(r, [driver EXCEPT ![d] = x], archive)
    BY <1>6 DEF CompleteLap
  <2>2. ~OnGrid(room)
    BY <2>1 DEF LapAdmitted, OnGrid, ResultPhases
  <2>3. /\ p \in Participant /\ Numbered(room, p) /\ p.lapStage = room.stage
        /\ p.seat = "held" /\ ~Reported(p, e)
    BY <1>3, <2>1 DEF Reported
  <2> HIDE DEF p
  <2>4. q \in Participant /\ Numbered(room, q)
    BY <1>1, <1>2, <2>1, <2>3, CreditedType, CreditedNumbered DEF Counted
  <2> HIDE DEF q, done
  <2>5. Kept(q, finished) /\ finished \in Participant
    <3>1. Kept(q, finished)
      BY <2>4, Zenon DEF Kept, Alike, Participant
    <3>2. finished \in Participant
      BY <2>4, StatusNames, Zenon DEF Participant
    <3> QED BY <3>1, <3>2
  <2>6. Kept(q, x) /\ x \in Participant
    BY <2>4, <2>5 DEF Kept, Alike
  <2>7. Numbered(room, x)
    <3>1. room.stages = room.stages /\ room.stage \in {room.stage, NoStage}
      OBVIOUS
    <3> HIDE DEF x
    <3> QED BY <2>4, <2>6, <3>1, KeptNumbered
  <2>8. /\ r \in Room /\ r.stages = room.stages /\ r.stage = room.stage
        /\ OnGrid(r) => OnGrid(room)
    <3>1. \A f \in {"chequered"} :
            LET s == [room EXCEPT !.flag = f]
            IN  /\ s \in Room /\ s.stages = room.stages /\ s.stage = room.stage
                /\ s.phase = room.phase /\ s.before = room.before
      BY <1>1 DEF Room
    <3> QED BY <1>1, <3>1 DEF OnGrid
  <2> HIDE DEF x, r
  <2>9. [driver EXCEPT ![d] = x] \in Drivers
    BY <1>1, <2>6 DEF Drivers
  <2>10. Counted(room, [driver EXCEPT ![d] = x])
    BY <1>1, <1>2, <2>2, <2>7, CountedReplaced
  <2>11. Counted(r, [driver EXCEPT ![d] = x])
    <3>1. \A c \in Driver : Kept([driver EXCEPT ![d] = x][c], [driver EXCEPT ![d] = x][c])
      BY DEF Kept, Alike
    <3> QED BY <2>8, <2>10, <3>1, CountedKept
  <2> QED BY <2>1, <2>8, <2>9, <2>11, SettleCounted
<1> QED BY <1>4, <1>5, <1>6 DEF Laps

-----------------------------------------------------------------------------
(* Phases *)

LEMMA ResetAlike ==
  ASSUME NEW p \in Participant
  PROVE  Alike(p, Reset(p)) /\ Reset(p).laps = 0
BY Zenon DEF Reset, Alike, Participant

LEMMA EachSeat ==
  ASSUME NEW new, NEW d \in Driver, Counted(room, driver)
  PROVE  \/ Each(new)[d] = new[d] /\ driver[d].seat = "held"
         \/ Each(new)[d] = driver[d] /\ Blank(driver[d])
BY DEF Each, Held, Counted, Numbered

LEMMA GriddedFresh ==
  ASSUME driver \in Drivers, Counted(room, driver), NEW d \in Driver
  PROVE  Fresh(driver[d], Gridded[d]) /\ Gridded[d].laps = 0
<1> DEFINE new == [c \in Driver |-> Reset(driver[c])]
<1>1. Alike(driver[d], new[d]) /\ new[d].laps = 0
  BY ResetAlike DEF Drivers
<1>2. Gridded = Each(new)
  BY DEF Gridded
<1> HIDE DEF new
<1> QED BY <1>1, <1>2, EachSeat DEF Fresh, Alike, Blank

LEMMA ClearedFresh ==
  ASSUME driver \in Drivers, Counted(room, driver), NEW d \in Driver
  PROVE  Fresh(driver[d], Cleared[d]) /\ Cleared[d].laps = 0
<1> DEFINE new == [c \in Driver |-> [Reset(driver[c]) EXCEPT !.dsqRecord = FALSE]]
<1>1. Alike(driver[d], new[d]) /\ new[d].laps = 0
  <2>1. driver[d] \in Participant
    BY DEF Drivers
  <2>2. Reset(driver[d]) \in Participant
    BY <2>1, ResetType
  <2>3. ASSUME NEW q \in Participant
        PROVE  LET u == [q EXCEPT !.dsqRecord = FALSE]
               IN  Alike(q, u) /\ u.laps = q.laps
    BY <2>3 DEF Alike, Participant
  <2> QED BY <2>1, <2>2, <2>3, ResetAlike DEF Alike
<1>2. Cleared = Each(new)
  BY DEF Cleared
<1> HIDE DEF new
<1> QED BY <1>1, <1>2, EachSeat DEF Fresh, Alike, Blank

LEMMA ContinuedFresh ==
  ASSUME driver \in Drivers, Counted(room, driver), NEW d \in Driver
  PROVE  Fresh(driver[d], Continued[d]) /\ Continued[d].laps \in {driver[d].laps, 0}
<1> DEFINE reset(p) == [p EXCEPT !.status = Standing(p), !.laps = 0,
                                 !.recovery = "none", !.finalLap = FALSE]
           new == [c \in Driver |->
                    IF room.phase = "qualifying" /\ ~driver[c].eligible THEN driver[c]
                    ELSE reset(driver[c])]
<1>1. driver[d] \in Participant
  BY DEF Drivers
<1>2. Alike(driver[d], reset(driver[d])) /\ reset(driver[d]).laps = 0
  BY <1>1, Zenon DEF Alike, Participant
<1> HIDE DEF reset
<1>3. /\ Alike(driver[d], new[d]) /\ new[d].laps \in {driver[d].laps, 0}
      /\ new[d].eligible => new[d].laps = 0
  BY <1>2 DEF Alike
<1>4. Continued = Each(new)
  BY DEF Continued, reset
<1> HIDE DEF new
<1> QED BY <1>3, <1>4, EachSeat DEF Fresh, Alike, Blank

LEMMA PrunedSeat ==
  ASSUME NEW ds, NEW old, NEW d \in Driver
  PROVE  Pruned(ds, old)[d] = ds[d] \/ Blank(Pruned(ds, old)[d])
BY DEF Pruned, Blank, GoneSeat, FreeSeat

LEMMA NoClockStage ==
  ASSUME NEW r \in Room
  PROVE  NoClock(r) \in Room /\ NoClock(r).stages = r.stages
BY NoClockType, Zenon DEF NoClock, Room

LEMMA OpenedStage ==
  ASSUME NEW r \in Room
  PROVE  Opened(r).stage = r.stages + 1 /\ Opened(r).stages = r.stages + 1
BY Zenon DEF Opened, Room

LEMMA SessionsCounted ==
  ASSUME LapInv, Sessions
  PROVE  Counted(room, driver)'
<1>1. room \in Room /\ driver \in Drivers /\ \A d \in Driver : driver[d] \in Participant
  BY DEF LapInv, TypeOK, Drivers
<1>2. Counted(room, driver)
  BY DEF LapInv
<1>3. NoClock(room) \in Room /\ NoClock(room).stages = room.stages
  BY <1>1, NoClockStage
<1>4. \A d \in Driver : Fresh(driver[d], Cleared[d]) /\ Cleared[d].laps = 0
  BY <1>1, <1>2, ClearedFresh
<1>5. \A d \in Driver : Fresh(driver[d], Gridded[d]) /\ Gridded[d].laps = 0
  BY <1>1, <1>2, GriddedFresh
<1>6. ASSUME NEW old
      PROVE  \A d \in Driver : \/ /\ Alike(driver[d], Pruned(Cleared, old)[d])
                                  /\ Pruned(Cleared, old)[d].laps \in {driver[d].laps, 0}
                               \/ Blank(Pruned(Cleared, old)[d])
  <2>1. \A d \in Driver : Alike(driver[d], Cleared[d]) /\ Cleared[d].laps \in {driver[d].laps, 0}
    BY <1>4 DEF Fresh
  <2> QED BY <2>1, PrunedSeat
<1>7. ASSUME ToLobby
      PROVE  Counted(room, driver)'
  <2>1. room'.stages = room.stages /\ room'.stage = NoStage /\ room'.phase = "lobby"
    <3>1. room' = [NoClock(room) EXCEPT !.phase = "lobby", !.flag = "green",
                                        !.stage = NoStage]
      BY <1>7 DEF ToLobby
    <3> QED BY <1>3, <3>1, Zenon DEF Room
  <2>2. PICK old : driver' = Pruned(Cleared, old)
    BY <1>7 DEF ToLobby
  <2>3. ~OnGrid(room')
    BY <2>1 DEF OnGrid
  <2> QED BY <1>2, <1>6, <2>1, <2>2, <2>3, CountedClosed
<1>8. ASSUME NEW kind \in {"practice", "qualifying"}, ToTimed(kind)
      PROVE  Counted(room, driver)'
  <2>1. CASE NextSession(kind)
    <3>1. room' = [Opened(room) EXCEPT !.session = Opened(room).session + 1,
                                       !.clock = "running", !.expired = FALSE]
      BY <1>8, <2>1 DEF ToTimed
    <3>2. Opened(room) \in Room
      BY <1>1, <1>8, OpenedType DEF ToTimed
    <3>3. /\ room'.stages = room.stages + 1 /\ room'.stage = room.stages + 1
          /\ room'.phase = Opened(room).phase
      <4>1. /\ room'.stages = Opened(room).stages /\ room'.stage = Opened(room).stage
            /\ room'.phase = Opened(room).phase
        BY <3>1, <3>2, Zenon DEF Room
      <4> QED BY <1>1, <4>1, OpenedStage
    <3>4. Opened(room).phase = kind
      <4>1. Opened(room).phase = room.phase
        BY <1>1, Zenon DEF Opened, Room
      <4> QED BY <2>1, <4>1 DEF NextSession
    <3>5. ~OnGrid(room')
      BY <3>3, <3>4 DEF OnGrid
    <3>6. driver' = Continued
      BY <1>8, <2>1 DEF ToTimed
    <3> QED BY <1>1, <1>2, <3>3, <3>5, <3>6, ContinuedFresh, CountedOpened
  <2>2. CASE ~NextSession(kind)
    <3> DEFINE r == Opened(NoClock(room))
               new == [d \in Driver |->
                        [Cleared[d] EXCEPT !.eligible = kind = "practice"
                                                        \/ driver[d].connected]]
    <3>1. /\ room' = [r EXCEPT !.phase = kind, !.session = 1, !.clock = "running",
                         !.sessions = IF kind = "practice" THEN PracticeSessions
                                      ELSE QualifyingSessions]
          /\ driver' = Each(new)
      BY <1>8, <2>2 DEF ToTimed
    <3>2. r \in Room
      BY <1>3, <1>8, OpenedType DEF ToTimed
    <3>3. r.stages = room.stages + 1 /\ r.stage = room.stages + 1
      BY <1>3, OpenedStage
    <3>4. ASSUME NEW d \in Driver
          PROVE  Alike(driver[d], new[d]) /\ new[d].laps = 0
      <4>1. Cleared[d] \in Participant
        BY <1>1, ClearedType DEF Drivers
      <4>2. Alike(Cleared[d], new[d]) /\ new[d].laps = Cleared[d].laps
        BY <4>1 DEF Alike, Participant
      <4> QED BY <1>4, <4>2 DEF Fresh, Alike
    <3> HIDE DEF r, new
    <3>5. room'.stages = r.stages /\ room'.stage = r.stage /\ room'.phase = kind
      BY <3>1, <3>2, Zenon DEF Room
    <3>6. ~OnGrid(room')
      BY <3>5 DEF OnGrid
    <3>7. ASSUME NEW d \in Driver
          PROVE  Fresh(driver[d], driver'[d]) /\ driver'[d].laps \in {driver[d].laps, 0}
      BY <1>2, <3>1, <3>4, EachSeat DEF Fresh, Alike, Blank
    <3> QED BY <1>1, <1>2, <3>3, <3>5, <3>6, <3>7, CountedOpened
  <2> QED BY <2>1, <2>2
<1>9. ASSUME ToGrid
      PROVE  Counted(room, driver)'
  <2>1. room'.stages = room.stages /\ room'.stage = NoStage /\ room'.phase = "grid"
    <3>1. room' = [room EXCEPT !.phase = "grid", !.stage = NoStage, !.flag = "green",
                               !.clock = "none", !.expired = FALSE]
      BY <1>9 DEF ToGrid
    <3> QED BY <1>1, <3>1, Zenon DEF Room
  <2> DEFINE on(p) == [p EXCEPT !.status = "active", !.finalLap = FALSE]
             new == [d \in Driver |-> IF driver[d].connected THEN on(driver[d]) ELSE driver[d]]
  <2>2. \A p \in Participant : Kept(p, on(p))
    BY Zenon DEF Kept, Alike, Participant
  <2>3. driver' = Each(new)
    BY <1>9 DEF ToGrid
  <2> HIDE DEF on
  <2>4. \A d \in Driver : Kept(driver[d], new[d])
    BY <1>1, <2>2 DEF Kept, Alike
  <2> HIDE DEF new
  <2>5. \A d \in Driver : Kept(driver[d], driver'[d]) \/ Blank(driver'[d])
    BY <1>2, <2>3, <2>4, EachSeat
  <2>6. ~OnGrid(room')
    BY <2>1 DEF OnGrid
  <2> QED BY <1>2, <2>1, <2>5, <2>6, CountedKept
<1>10. ASSUME NEW phase, ToStart(phase)
       PROVE  Counted(room, driver)'
  <2> DEFINE prepared == phase = "formationLap" /\ room.phase = "outLap"
  <2>1. /\ room'.stages = room.stages /\ room'.stage = NoStage /\ room'.phase = phase
    <3>1. \A r \in Room :
            LET s == [r EXCEPT !.phase = phase, !.flag = "green", !.stage = NoStage]
            IN  s.stages = r.stages /\ s.stage = NoStage /\ s.phase = phase
      BY Zenon DEF Room
    <3>2. \/ room' = [room EXCEPT !.phase = phase, !.flag = "green", !.stage = NoStage]
          \/ room' = [NoClock(room) EXCEPT !.phase = phase, !.flag = "green",
                                           !.stage = NoStage]
      BY <1>10 DEF ToStart
    <3>3. \/ room'.stages = room.stages /\ room'.stage = NoStage /\ room'.phase = phase
          \/ room'.stages = NoClock(room).stages /\ room'.stage = NoStage
               /\ room'.phase = phase
      BY <1>1, <1>3, <3>1, <3>2, Zenon
    <3> QED BY <1>3, <3>3
  <2>2. CASE prepared
    <3>1. driver' = driver /\ ~OnGrid(room')
      BY <1>10, <2>1, <2>2 DEF ToStart, OnGrid
    <3>2. \A d \in Driver : Kept(driver[d], driver'[d])
      BY <3>1 DEF Kept, Alike
    <3> QED BY <1>2, <2>1, <3>1, <3>2, CountedKept
  <2>3. CASE ~prepared
    <3>1. driver' = Gridded
      BY <1>10, <2>3 DEF ToStart
    <3>2. \A d \in Driver : Alike(driver[d], driver'[d]) /\ driver'[d].laps = 0
      BY <1>5, <3>1 DEF Fresh
    <3> QED BY <1>2, <2>1, <3>2, CountedClosed
  <2> QED BY <2>2, <2>3
<1>11. ASSUME NEW force \in BOOLEAN, Countdown(force)
       PROVE  Counted(room, driver)'
  BY <1>10, <1>11 DEF Countdown
<1>12. ASSUME ToRace
       PROVE  Counted(room, driver)'
  <2>1. \A r \in Room :
          LET s == [r EXCEPT !.phase = "race"]
          IN  s.stages = r.stages /\ s.stage = r.stage /\ s.phase = "race"
    BY Zenon DEF Room
  <2>2. Opened(room) \in Room /\ Opened(NoClock(room)) \in Room
    BY <1>1, <1>3, <1>12, OpenedType DEF ToRace
  <2>3. \/ room' = [Opened(room) EXCEPT !.phase = "race"]
        \/ room' = [Opened(NoClock(room)) EXCEPT !.phase = "race"]
    BY <1>12 DEF ToRace
  <2>4. /\ room'.stages = room.stages + 1 /\ room'.stage = room.stages + 1
        /\ room'.phase = "race"
    <3>1. /\ Opened(room).stages = room.stages + 1
          /\ Opened(room).stage = room.stages + 1
          /\ Opened(NoClock(room)).stages = room.stages + 1
          /\ Opened(NoClock(room)).stage = room.stages + 1
      BY <1>1, <1>3, OpenedStage
    <3> QED BY <2>1, <2>2, <2>3, <3>1
  <2>5. ~OnGrid(room')
    BY <2>4 DEF OnGrid
  <2>6. ASSUME NEW d \in Driver
        PROVE  Fresh(driver[d], driver'[d]) /\ driver'[d].laps \in {driver[d].laps, 0}
    <3>1. CASE room.phase = "countdown"
      <4>1. driver' = driver
        BY <1>12, <3>1 DEF ToRace
      <4>2. driver[d].laps = 0
        BY <1>2, <3>1 DEF Counted, OnGrid
      <4> QED BY <4>1, <4>2 DEF Fresh, Alike
    <3>2. CASE room.phase # "countdown"
      BY <1>5, <1>12, <3>2 DEF ToRace
    <3> QED BY <3>1, <3>2
  <2> QED BY <1>1, <1>2, <2>4, <2>5, <2>6, CountedOpened
<1>13. ASSUME RefuseFinish
       PROVE  Counted(room, driver)'
  <2>1. room' = [room EXCEPT !.stage = NoStage] /\ driver' = driver
    BY <1>13 DEF RefuseFinish
  <2>2. /\ room'.stages = room.stages /\ room'.stage = NoStage
        /\ room'.phase = room.phase /\ room'.before = room.before
    BY <1>1, <2>1, Zenon DEF Room
  <2>3. \A d \in Driver : Kept(driver[d], driver'[d])
    BY <2>1 DEF Kept, Alike
  <2>4. OnGrid(room') => OnGrid(room)
    BY <2>2 DEF OnGrid
  <2> QED BY <1>2, <2>2, <2>3, <2>4, CountedKept
<1>14. ASSUME BeginEvent
       PROVE  Counted(room, driver)'
  <2>1. room'.stages = room.stages /\ room'.stage = NoStage /\ room'.phase = "lobby"
    <3>1. room' = [NoClock(room) EXCEPT !.phase = "lobby", !.flag = "green",
                                        !.stage = NoStage, !.event = @ + 1]
      BY <1>14 DEF BeginEvent
    <3> QED BY <1>3, <3>1, Zenon DEF Room
  <2>2. driver' = Pruned(Cleared, Away(driver))
    BY <1>14 DEF BeginEvent
  <2>3. ~OnGrid(room')
    BY <2>1 DEF OnGrid
  <2> QED BY <1>2, <1>6, <2>1, <2>2, <2>3, CountedClosed
<1> QED BY <1>7, <1>8, <1>9, <1>10, <1>11, <1>12, <1>13, <1>14 DEF Sessions

-----------------------------------------------------------------------------
(* Race control and time *)

LEMMA ControlCounted ==
  ASSUME LapInv, Control
  PROVE  Counted(room, driver)'
<1>1. room \in Room /\ driver \in Drivers /\ \A d \in Driver : driver[d] \in Participant
  BY DEF LapInv, TypeOK, Drivers
<1>2. Counted(room, driver)
  BY DEF LapInv
<1>3. \A d \in Driver : Kept(driver[d], driver[d])
  BY DEF Kept, Alike
<1>4. ASSUME RedFlag
      PROVE  Counted(room, driver)'
  <2>1. /\ room' = [room EXCEPT !.before = room.phase, !.phase = "suspended", !.flag = "red"]
        /\ driver' = driver
    BY <1>4 DEF RedFlag
  <2>2. /\ room'.stages = room.stages /\ room'.stage = room.stage
        /\ room'.phase = "suspended" /\ room'.before = room.phase
    BY <1>1, <2>1, Zenon DEF Room
  <2>3. OnGrid(room') => OnGrid(room)
    BY <2>2 DEF OnGrid
  <2> QED BY <1>2, <1>3, <2>1, <2>2, <2>3, CountedKept
<1>5. ASSUME GreenFlag
      PROVE  Counted(room, driver)'
  <2>1. /\ room' = [room EXCEPT !.phase = room.before, !.flag = "green"]
        /\ driver' = driver /\ room.phase = "suspended"
    BY <1>5 DEF GreenFlag
  <2>2. /\ room'.stages = room.stages /\ room'.stage = room.stage
        /\ room'.phase = room.before /\ room.before # "suspended"
    <3>1. room.before # "suspended"
      BY <1>1 DEF Room
    <3>2. /\ room'.stages = room.stages /\ room'.stage = room.stage
          /\ room'.phase = room.before
      BY <1>1, <2>1, Zenon DEF Room
    <3> QED BY <3>1, <3>2
  <2>3. OnGrid(room') => OnGrid(room)
    BY <2>1, <2>2 DEF OnGrid
  <2> QED BY <1>2, <1>3, <2>1, <2>2, <2>3, CountedKept
<1>6. ASSUME NEW d \in Driver, NEW status, Classify(d, status)
      PROVE  Counted(room, driver)'
  <2>1. Kept(driver[d], [driver[d] EXCEPT !.status = status, !.stopped = TRUE])
    BY <1>1, Zenon DEF Kept, Alike, Participant
  <2>2. /\ driver' = [driver EXCEPT ![d] = [driver[d] EXCEPT !.status = status, !.stopped = TRUE]]
        /\ room' = room
    BY <1>6 DEF Classify
  <2> QED BY <1>1, <1>2, <2>1, <2>2, CountedUpdate
<1>7. ASSUME NEW d \in Driver, Penalise(d)
      PROVE  Counted(room, driver)'
  <2>1. Kept(driver[d], [driver[d] EXCEPT !.status = "disqualified", !.dsqRecord = TRUE])
    BY <1>1, Zenon DEF Kept, Alike, Participant
  <2>2. /\ driver' = [driver EXCEPT ![d] = [driver[d] EXCEPT !.status = "disqualified",
                                                             !.dsqRecord = TRUE]]
        /\ room' = room
    BY <1>7 DEF Penalise
  <2> QED BY <1>1, <1>2, <2>1, <2>2, CountedUpdate
<1>8. ASSUME NEW d \in Driver, Revoke(d)
      PROVE  Counted(room, driver)'
  <2> DEFINE status == IF driver[d].status = "disqualified" /\ driver[d].stopped
                       THEN "finished" ELSE "active"
  <2>1. driver' = [driver EXCEPT ![d] = [driver[d] EXCEPT !.status = status]] /\ room' = room
    BY <1>8 DEF Revoke
  <2> HIDE DEF status
  <2>2. Kept(driver[d], [driver[d] EXCEPT !.status = status])
    BY <1>1, Zenon DEF Kept, Alike, Participant
  <2> QED BY <1>1, <1>2, <2>1, <2>2, CountedUpdate
<1> QED BY <1>4, <1>5, <1>6, <1>7, <1>8 DEF Control

LEMMA LapsedKept ==
  ASSUME NEW p \in Participant
  PROVE  Kept(p, Lapsed(p))
<1>1. ASSUME NEW out
      PROVE  Kept(p, [p EXCEPT !.recovery = "none", !.finalLap = @ /\ p.connected,
                               !.status = IF out THEN "didNotFinish" ELSE @,
                               !.stopped = @ \/ out])
  BY Zenon DEF Kept, Alike, Participant
<1>2. Kept(p, p)
  BY DEF Kept, Alike
<1> QED BY <1>1, <1>2 DEF Lapsed

LEMMA TimeCounted ==
  ASSUME LapInv, Time
  PROVE  Counted(room, driver)'
<1>1. room \in Room /\ driver \in Drivers /\ \A d \in Driver : driver[d] \in Participant
  BY DEF LapInv, TypeOK, Drivers
<1>2. Counted(room, driver)
  BY DEF LapInv
<1>3. ASSUME NEW new, \A d \in Driver : Kept(driver[d], new[d])
      PROVE  \A d \in Driver : Kept(driver[d], Each(new)[d]) \/ Blank(Each(new)[d])
  BY <1>2, <1>3, EachSeat
<1>4. ASSUME NEW d \in Driver, WindowLapses(d)
      PROVE  Counted(room, driver)'
  <2>1. Kept(driver[d], [driver[d] EXCEPT !.recovery = "lapsed"])
    BY <1>1, Zenon DEF Kept, Alike, Participant
  <2> QED BY <1>1, <1>2, <1>4, <2>1, CountedUpdate DEF WindowLapses
<1>5. ASSUME TickLobby
      PROVE  Counted(room, driver)'
  <2>1. PICK old : driver' = Pruned(driver, old) /\ room' = room
    BY <1>5 DEF TickLobby
  <2>2. \A d \in Driver : Kept(driver[d], driver'[d]) \/ Blank(driver'[d])
    BY <2>1, PrunedSeat DEF Kept, Alike
  <2> QED BY <1>2, <2>1, <2>2, CountedKept
<1>6. ASSUME TickRecovery
      PROVE  Counted(room, driver)'
  <2> DEFINE new == [d \in Driver |-> Lapsed(driver[d])]
  <2>1. Settle(room, Each(new), archive)
    BY <1>6 DEF TickRecovery
  <2>2. \A d \in Driver : Kept(driver[d], new[d]) /\ new[d] \in Participant
    BY <1>1, LapsedKept, LapsedType
  <2> HIDE DEF new
  <2>3. Each(new) \in Drivers
    BY <1>1, <2>2, EachType
  <2>4. Counted(room, Each(new))
    BY <1>2, <1>3, <2>2, CountedKept
  <2> QED BY <1>1, <2>1, <2>3, <2>4, SettleCounted
<1>7. ASSUME TickStart
      PROVE  Counted(room, driver)'
  <2>1. /\ room' = [Opened(room) EXCEPT !.phase = "race"]
        /\ driver' = driver /\ OnGrid(room)
    BY <1>7 DEF TickStart, OnGrid
  <2>2. Opened(room) \in Room
    BY <1>1, <1>7, OpenedType DEF TickStart
  <2>3. /\ room'.stages = Opened(room).stages /\ room'.stage = Opened(room).stage
        /\ room'.phase = "race"
    BY <2>1, <2>2, Zenon DEF Room
  <2>4. ~OnGrid(room')
    BY <2>3 DEF OnGrid
  <2>5. \A d \in Driver : Fresh(driver[d], driver'[d]) /\ driver'[d].laps \in {driver[d].laps, 0}
    BY <1>2, <2>1 DEF Counted, Fresh, Alike
  <2> QED BY <1>1, <1>2, <2>3, <2>4, <2>5, OpenedStage, CountedOpened
<1>8. ASSUME TickExpiry
      PROVE  Counted(room, driver)'
  <2> DEFINE r == [room EXCEPT !.flag = "chequered", !.expired = TRUE]
             new(onLap) == [d \in Driver |-> [driver[d] EXCEPT !.finalLap = d \in onLap]]
  <2>1. PICK onLap : Settle(r, Each(new(onLap)), archive)
    BY <1>8 DEF TickExpiry
  <2>2. /\ r \in Room /\ r.stages = room.stages /\ r.stage = room.stage
        /\ r.phase = room.phase /\ r.before = room.before
    <3>1. r \in Room
      BY <1>1, Zenon DEF Room
    <3>2. /\ r.stages = room.stages /\ r.stage = room.stage
          /\ r.phase = room.phase /\ r.before = room.before
      BY <1>1, Zenon DEF Room
    <3> QED BY <3>1, <3>2
  <2>3. \A p \in Participant, x \in BOOLEAN :
          Kept(p, [p EXCEPT !.finalLap = x]) /\ [p EXCEPT !.finalLap = x] \in Participant
    <3>1. \A p \in Participant, x \in BOOLEAN : Kept(p, [p EXCEPT !.finalLap = x])
      BY Zenon DEF Kept, Alike, Participant
    <3>2. \A p \in Participant, x \in BOOLEAN : [p EXCEPT !.finalLap = x] \in Participant
      BY Zenon DEF Participant
    <3> QED BY <3>1, <3>2
  <2>4. ASSUME NEW d \in Driver
        PROVE  Kept(driver[d], new(onLap)[d]) /\ new(onLap)[d] \in Participant
    <3>1. (d \in onLap) \in BOOLEAN /\ driver[d] \in Participant
      BY <1>1
    <3> QED BY <2>3, <3>1, Zenon
  <2> HIDE DEF new, r
  <2>5. Each(new(onLap)) \in Drivers
    BY <1>1, <2>4, EachType
  <2>6. OnGrid(r) => OnGrid(room)
    BY <2>2 DEF OnGrid
  <2>7. Counted(r, Each(new(onLap)))
    BY <1>2, <1>3, <2>2, <2>4, <2>6, CountedKept
  <2> QED BY <2>1, <2>2, <2>5, <2>7, SettleCounted
<1> QED BY <1>4, <1>5, <1>6, <1>7, <1>8 DEF Time, Tick

-----------------------------------------------------------------------------
(* Together *)

LEMMA InitCounted == Init => Counted(room, driver)
<1> SUFFICES ASSUME Init PROVE Counted(room, driver)
  OBVIOUS
<1>1. \A d \in Driver : Blank(driver[d])
  BY DEF Init, Blank, FreeSeat
<1>2. room.stage \in {NoStage, room.stages} /\ ~OnGrid(room)
  BY DEF Init, OnGrid
<1> QED BY <1>1, <1>2, BlankNumbered DEF Counted

LEMMA StepCounted == LapInv /\ [Next]_vars => LapInv'
<1>1. ASSUME LapInv, UNCHANGED vars
      PROVE  LapInv'
  <2>1. room' = room /\ driver' = driver /\ archive' = archive
    BY <1>1 DEF vars
  <2>2. Counted(room', driver')
    <3>1. Counted(room, driver)
      BY <1>1 DEF LapInv
    <3> QED BY <2>1, <3>1
  <2> QED BY <1>1, <2>1, <2>2 DEF LapInv, TypeOK
<1>2. ASSUME LapInv, Next
      PROVE  LapInv'
  <2>1. TypeOK'
    BY <1>2, StepType DEF LapInv
  <2>2. Counted(room, driver)'
    BY <1>2, SeatsCounted, LapsCounted, SessionsCounted, ControlCounted, TimeCounted
    DEF Next
  <2> QED BY <2>1, <2>2 DEF LapInv
<1> QED BY <1>1, <1>2

\* Every step keeps the lap records of every driver in order: the numbers of
\* the running stage are bounded by the last one, and no receipt is of a stage
\* to come (prepareLapValidation, completeLap, resetParticipant).
THEOREM LapInvariant == Spec => []LapInv
<1>1. Init => LapInv
  BY InitType, InitCounted DEF LapInv
<1> QED BY <1>1, StepCounted, PTL DEF Spec

\* No report is ever credited twice, across stages, resets and reconnections,
\* and no two valid laps of a stage have the same number.
THEOREM LapsAreDistinct == Spec => []EachLapOnce
<1>1. LapInv => EachLapOnce
  BY DEF LapInv, Counted, Numbered, Once, EachLapOnce
<1> QED BY <1>1, LapInvariant, PTL

\* The lap count of a driver is the number of valid reports credited to it in
\* the running stage, in every stage and after every interruption.
THEOREM LapsAreCredited == Spec => []LapsCredited
<1>1. LapInv => LapsCredited
  BY DEF LapInv, Counted, Numbered, Tally, CreditedIn, LapsCredited, Held
<1> QED BY <1>1, LapInvariant, PTL

=============================================================================
