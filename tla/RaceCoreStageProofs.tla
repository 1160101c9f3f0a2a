------------------------ MODULE RaceCoreStageProofs ------------------------
(* How stages end, and what is kept of them, for every set of drivers,     *)
(* every set of commands and every bound: OneRacePerEvent, RaceResultStays,*)
(* DepartedKeepResult, FinishedRaceIsArchived, RaceOpenForSomebody and     *)
(* PendingLapCanCome.                                                      *)
(*                                                                         *)
(* None is inductive.  An entry is overwritten only under the id of the    *)
(* running stage, so that a complete race result stays as long as no       *)
(* running stage bears its id: a new id is larger than all those of the    *)
(* history, and outside the lobby no race of the event is finished before  *)
(* this one is.  Filed says these together, WaitInv what keeps a stage     *)
(* open.                                                                   *)
EXTENDS RaceCoreLapProofs

\* The phase, seen through a red flag.
Underlying(r) == IF r.phase = "suspended" THEN r.before ELSE r.phase

RaceResult(ar, s) == ar[s].phase = "race" /\ ar[s].complete

\* No race of the room's event has a complete result.
Unraced(r, ar) == \A s \in Stage : ~(RaceResult(ar, s) /\ ar[s].event = r.event)

\* The running stage's entry has everybody who drove a lap.
Present(r, ds, ar) ==
  r.stage # NoStage =>
    \A d \in Held(ds) : ds[d].laps > 0 => ar[r.stage].entrant[d] # "absent"

\* No id of the history is still to be handed out.
Numbering(r, ar) ==
  /\ r.stage <= r.stages
  /\ \A s \in Stage : ar[s].phase # "none" => s <= r.stages

Running(r, ar) ==
  r.stage # NoStage =>
    /\ Underlying(r) \in ResultPhases \cup {"finished"}
    /\ ar[r.stage].phase # "none" => ar[r.stage].event = r.event
    /\ Underlying(r) = "finished" => RaceResult(ar, r.stage)

Unique(ar) ==
  \A s, t \in Stage :
    RaceResult(ar, s) /\ RaceResult(ar, t) /\ ar[s].event = ar[t].event => s = t

Filed(r, ds, ar) ==
  /\ Numbering(r, ar)
  /\ Running(r, ar)
  /\ Underlying(r) = "finished" => Present(r, ds, ar)
  /\ Underlying(r) \notin {"lobby", "finished"} => Unraced(r, ar)
  /\ Unique(ar)

\* A complete race result stays one, and keeps its entrants.
Stays(ar, br) ==
  \A s \in Stage :
    RaceResult(ar, s) =>
      /\ RaceResult(br, s)
      /\ \A d \in Driver : ar[s].entrant[d] # "absent" => br[s].entrant[d] # "absent"

\* Both histories have the same complete race results.
SameRaces(ar, br) ==
  \A s \in Stage :
    /\ RaceResult(br, s) <=> RaceResult(ar, s)
    /\ RaceResult(ar, s) => br[s].event = ar[s].event

ArchiveInv == TypeOK /\ Filed(room, driver, archive)

-----------------------------------------------------------------------------
(* What archiving writes *)

LEMMA ArchivedEntry ==
  ASSUME NEW r \in Room, NEW ds \in Drivers, NEW ar \in Archive, NEW complete \in BOOLEAN,
         r.stage # NoStage, ResultPhase(r) \in ResultPhases,
         NEW br, br = Archived(r, ds, ar, complete)
  PROVE  /\ r.stage \in Stage
         /\ br \in Archive
         /\ \A s \in Stage : s # r.stage => br[s] = ar[s]
         /\ br[r.stage].phase = ResultPhase(r)
         /\ br[r.stage].complete = complete
         /\ br[r.stage].event = r.event
         /\ \A d \in Held(ds) : br[r.stage].entrant[d] # "absent"
         /\ \A d \in Driver :
              ar[r.stage].entrant[d] # "absent" => br[r.stage].entrant[d] # "absent"
<1> DEFINE entrant == [d \in Driver |-> IF ds[d].seat = "held" THEN ds[d].status
                                        ELSE ar[r.stage].entrant[d]]
           result == [phase |-> ResultPhase(r), complete |-> complete,
                      event |-> r.event, entrant |-> entrant]
<1>1. r.stage \in Stage
  BY DEF Room
<1>2. br = [ar EXCEPT ![r.stage] = result]
  BY DEF Archived
<1>3. br[r.stage] = result /\ \A s \in Stage : s # r.stage => br[s] = ar[s]
  <2> HIDE DEF result
  <2> QED BY <1>1, <1>2 DEF Archive
<1>4. br \in Archive
  BY ArchivedType
<1>5. \A d \in Driver : ds[d].status # "absent"
  BY DEF Drivers, Participant, Status, Terminal
<1>6. /\ \A d \in Held(ds) : entrant[d] # "absent"
      /\ \A d \in Driver : ar[r.stage].entrant[d] # "absent" => entrant[d] # "absent"
  BY <1>5 DEF Held
<1>7. /\ result.phase = ResultPhase(r) /\ result.complete = complete
      /\ result.event = r.event /\ result.entrant = entrant
  OBVIOUS
<1> QED BY <1>1, <1>3, <1>4, <1>6, <1>7

\* Archiving the running stage as it stands: a race entry is complete when,
\* and only when, the race is finished.
LEMMA ArchivedFiled ==
  ASSUME NEW r \in Room, NEW ds \in Drivers, NEW ar \in Archive, NEW complete \in BOOLEAN,
         Filed(r, ds, ar),
         complete /\ ResultPhase(r) = "race" => r.phase = "finished",
         r.phase = "finished" => complete,
         NEW br, br = Archived(r, ds, ar, complete)
  PROVE  /\ Filed(r, ds, br)
         /\ Stays(ar, br)
         /\ SameRaces(ar, br)
         /\ Underlying(r) \in ResultPhases \cup {"finished"} => Present(r, ds, br)
<1>1. CASE r.stage = NoStage \/ ResultPhase(r) \notin ResultPhases
  <2>1. br = ar
    BY <1>1 DEF Archived
  <2>2. Underlying(r) \in ResultPhases => ResultPhase(r) \in ResultPhases
    BY DEF Underlying, ResultPhase, ResultPhases
  <2>3. Underlying(r) \in ResultPhases \cup {"finished"} => Present(r, ds, br)
    BY <1>1, <2>1, <2>2 DEF Filed, Present
  <2> QED BY <2>1, <2>3 DEF Stays, SameRaces
<1>2. CASE r.stage # NoStage /\ ResultPhase(r) \in ResultPhases
  <2>1. /\ r.stage \in Stage
        /\ \A s \in Stage : s # r.stage => br[s] = ar[s]
        /\ br[r.stage].phase = ResultPhase(r)
        /\ br[r.stage].complete = complete
        /\ br[r.stage].event = r.event
        /\ \A d \in Held(ds) : br[r.stage].entrant[d] # "absent"
        /\ \A d \in Driver :
             ar[r.stage].entrant[d] # "absent" => br[r.stage].entrant[d] # "absent"
    BY <1>2, ArchivedEntry
  <2>2. RaceResult(br, r.stage) <=> r.phase = "finished"
    BY <2>1 DEF RaceResult, ResultPhase
  <2>3. r.phase = "finished" => RaceResult(ar, r.stage)
    BY <1>2 DEF Filed, Running, Underlying
  <2>4. RaceResult(ar, r.stage) => ar[r.stage].event = r.event
    BY <1>2 DEF Filed, Running, RaceResult
  <2>5. RaceResult(ar, r.stage) => r.phase = "finished"
    <3>1. RaceResult(ar, r.stage) => ~Unraced(r, ar)
      BY <2>1, <2>4 DEF Unraced
    <3>2. Underlying(r) \in ResultPhases \cup {"finished"}
      BY <1>2 DEF Filed, Running
    <3>3. RaceResult(ar, r.stage) => Underlying(r) = "finished"
      BY <3>1, <3>2 DEF Filed, ResultPhases
    <3> QED BY <1>2, <3>3 DEF Underlying, ResultPhase, ResultPhases
  <2>6. SameRaces(ar, br)
    BY <2>1, <2>2, <2>3, <2>4, <2>5 DEF SameRaces, RaceResult
  <2>7. Stays(ar, br)
    BY <2>1, <2>6 DEF Stays, SameRaces
  <2>8. Numbering(r, br)
    BY <2>1 DEF Filed, Numbering
  <2>9. Running(r, br)
    BY <1>2, <2>1, <2>6 DEF Filed, Running, SameRaces
  <2>10. Present(r, ds, br)
    BY <2>1 DEF Present
  <2>11. Unraced(r, ar) => Unraced(r, br)
    BY <2>6 DEF Unraced, SameRaces
  <2>12. Unique(br)
    BY <2>6 DEF Filed, Unique, SameRaces
  <2> QED BY <2>6, <2>7, <2>8, <2>9, <2>10, <2>11, <2>12 DEF Filed
<1> QED BY <1>1, <1>2

\* What every phase command does first.
LEMMA ClosedFiled ==
  ASSUME ArchiveInv
  PROVE  /\ Closed \in Archive
         /\ Filed(room, driver, Closed)
         /\ Stays(archive, Closed)
         /\ SameRaces(archive, Closed)
         /\ room.stage # NoStage => Present(room, driver, Closed)
<1>1. room \in Room /\ driver \in Drivers /\ archive \in Archive
  BY DEF ArchiveInv, TypeOK, Drivers, Archive
<1>2. ResultIsComplete(room, driver) \in BOOLEAN
  BY CompleteType
<1>3. /\ ResultIsComplete(room, driver) /\ ResultPhase(room) = "race" => room.phase = "finished"
      /\ room.phase = "finished" => ResultIsComplete(room, driver)
  BY DEF ResultIsComplete, ResultPhase
<1>4. Filed(room, driver, archive)
  BY DEF ArchiveInv
<1>5. room.stage # NoStage => Underlying(room) \in ResultPhases \cup {"finished"}
  BY <1>4 DEF Filed, Running
<1> QED BY <1>1, <1>2, <1>3, <1>4, <1>5, ArchivedFiled, ClosedType DEF Closed

-----------------------------------------------------------------------------
(* What a step may do to the room *)

\* Nobody has driven a lap that had not.
Ran(p, q) == q.seat = "held" /\ q.laps > 0 => p.seat = "held" /\ p.laps > 0

LEMMA KeptRan ==
  ASSUME NEW p, NEW q, Kept(p, q)
  PROVE  Ran(p, q)
BY DEF Kept, Alike, Ran

\* The stage goes on.
LEMMA FiledKept ==
  ASSUME NEW r, NEW ds, NEW ar, NEW s, NEW es, Filed(r, ds, ar),
         s.stage = r.stage, s.stages = r.stages, s.event = r.event,
         Underlying(s) = Underlying(r),
         Underlying(s) = "finished" => \A d \in Driver : Ran(ds[d], es[d])
  PROVE  Filed(s, es, ar)
<1>1. Numbering(s, ar) /\ Running(s, ar) /\ Unique(ar)
  BY DEF Filed, Numbering, Running
<1>2. Underlying(s) = "finished" => Present(s, es, ar)
  BY DEF Filed, Present, Held, Ran
<1>3. Underlying(s) \notin {"lobby", "finished"} => Unraced(s, ar)
  BY DEF Filed, Unraced
<1> QED BY <1>1, <1>2, <1>3 DEF Filed

LEMMA FiledUpdate ==
  ASSUME NEW r, NEW ds \in Drivers, NEW ar, NEW d \in Driver, NEW q, Filed(r, ds, ar),
         Underlying(r) = "finished" => Ran(ds[d], q)
  PROVE  Filed(r, [ds EXCEPT ![d] = q], ar)
<1> DEFINE es == [ds EXCEPT ![d] = q]
<1>1. es[d] = q /\ \A c \in Driver : c # d => es[c] = ds[c]
  BY DEF Drivers
<1>2. Underlying(r) = "finished" => \A c \in Driver : Ran(ds[c], es[c])
  BY <1>1 DEF Ran
<1> HIDE DEF es
<1>3. Filed(r, es, ar)
  BY <1>2, FiledKept
<1> QED BY <1>3 DEF es

\* The stage is closed.
LEMMA FiledClosed ==
  ASSUME NEW r \in Room, NEW ds, NEW ar, NEW s, NEW es, Filed(r, ds, ar),
         s.stage = NoStage, s.stages = r.stages,
         Underlying(s) \notin {"lobby", "finished"} => Unraced(s, ar)
  PROVE  Filed(s, es, ar)
<1>1. r.stages \in Nat
  BY BoundAssumption DEF Room
<1>2. Numbering(s, ar)
  BY <1>1 DEF Filed, Numbering, NoStage
<1>3. Running(s, ar) /\ Present(s, es, ar) /\ Unique(ar)
  BY DEF Filed, Running, Present
<1> QED BY <1>2, <1>3 DEF Filed

\* A stage is opened under an id that no result has.
LEMMA FiledOpened ==
  ASSUME NEW r \in Room, NEW ds, NEW ar \in Archive, NEW s, NEW es, Filed(r, ds, ar),
         r.stages < MaxStage, s.stage = r.stages + 1, s.stages = r.stages + 1,
         Underlying(s) \in ResultPhases, s.event = r.event, Unraced(r, ar)
  PROVE  Filed(s, es, ar)
<1>1. r.stages \in Nat /\ s.stage \in Stage
  BY BoundAssumption DEF Room, Stage
<1>2. Stage \subseteq Nat
  BY BoundAssumption DEF Stage
<1>3. ar[s.stage].phase = "none"
  BY <1>1 DEF Filed, Numbering
<1>4. Numbering(s, ar)
  BY <1>1, <1>2 DEF Filed, Numbering
<1>5. Running(s, ar)
  BY <1>3 DEF Running, ResultPhases
<1>6. Underlying(s) # "finished" /\ Unraced(s, ar)
  BY DEF ResultPhases, Unraced
<1> QED BY <1>4, <1>5, <1>6 DEF Filed

-----------------------------------------------------------------------------
(* The completion checks *)

\* A race that is over: its result is the only complete one of its event.
LEMMA RaceFiled ==
  ASSUME NEW r \in Room, NEW ds \in Drivers, NEW ar \in Archive, Filed(r, ds, ar)
  PROVE  /\ RaceArchive(r, ds, ar) \in Archive
         /\ Filed(RaceRoom(r, ds), ds, RaceArchive(r, ds, ar))
         /\ Stays(ar, RaceArchive(r, ds, ar))
<1>1. CASE ~RaceDone(r, ds)
  BY <1>1 DEF RaceArchive, RaceRoom, Stays
<1>2. CASE RaceDone(r, ds)
  <2> DEFINE s == RaceRoom(r, ds)
             br == RaceArchive(r, ds, ar)
  <2>1. s \in Room /\ br \in Archive
    BY RaceRoomType, RaceArchiveType
  <2>2. /\ s.stage = r.stage /\ s.stages = r.stages /\ s.event = r.event
        /\ s.phase = "finished"
    BY <1>2 DEF RaceRoom, Room
  <2>3. br = Archived(s, ds, ar, TRUE)
    BY <1>2 DEF RaceArchive
  <2>4. Unraced(r, ar) /\ Numbering(r, ar) /\ Running(r, ar) /\ Unique(ar)
    BY <1>2 DEF Filed, Underlying, RaceDone
  <2> HIDE DEF s, br
  <2>5. Underlying(s) = "finished" /\ ResultPhase(s) = "race" /\ "race" \in ResultPhases
    BY <2>2 DEF Underlying, ResultPhase, ResultPhases
  <2>6. CASE s.stage = NoStage
    <3>1. br = ar
      BY <2>3, <2>6 DEF Archived
    <3>2. Filed(s, ds, br)
      BY <2>2, <2>4, <2>5, <2>6, <3>1 DEF Filed, Numbering, Running, Present
    <3> QED BY <2>1, <3>1, <3>2 DEF Stays, s, br
  <2>7. CASE s.stage # NoStage
    <3>0. ASSUME NEW c \in BOOLEAN, br = Archived(s, ds, ar, c)
          PROVE  /\ s.stage \in Stage
                 /\ \A t \in Stage : t # s.stage => br[t] = ar[t]
                 /\ br[s.stage].phase = "race"
                 /\ br[s.stage].complete = c
                 /\ br[s.stage].event = s.event
                 /\ \A d \in Held(ds) : br[s.stage].entrant[d] # "absent"
      BY <2>1, <2>5, <2>7, <3>0, ArchivedEntry
    <3>1. /\ s.stage \in Stage
          /\ \A t \in Stage : t # s.stage => br[t] = ar[t]
          /\ br[s.stage].phase = "race"
          /\ br[s.stage].complete = TRUE
          /\ br[s.stage].event = s.event
          /\ \A d \in Held(ds) : br[s.stage].entrant[d] # "absent"
      BY <2>3, <3>0
    <3>2. ~RaceResult(ar, s.stage)
      BY <2>2, <2>4, <2>7, <3>1 DEF Running, RaceResult, Unraced
    <3>3. Stays(ar, br)
      BY <3>1, <3>2 DEF Stays, RaceResult
    <3>4. Numbering(s, br)
      BY <2>2, <2>4, <3>1 DEF Numbering
    <3>5. Running(s, br) /\ Present(s, ds, br)
      BY <2>5, <3>1 DEF Running, Present, RaceResult
    <3>6. Unique(br)
      BY <2>2, <2>4, <3>1 DEF Unique, Unraced, RaceResult
    <3>7. Filed(s, ds, br)
      BY <2>5, <3>4, <3>5, <3>6 DEF Filed
    <3> QED BY <2>1, <3>3, <3>7 DEF s, br
  <2> QED BY <2>6, <2>7
<1> QED BY <1>1, <1>2, RaceArchiveType

LEMMA TimedFiled ==
  ASSUME NEW r \in Room, NEW ds \in Drivers, NEW ar \in Archive, NEW cut, Filed(r, ds, ar)
  PROVE  /\ TimedArchive(r, ds, ar) \in Archive
         /\ Filed(TimedRoom(r, ds), TimedDrivers(r, ds, cut), TimedArchive(r, ds, ar))
         /\ Stays(ar, TimedArchive(r, ds, ar))
         /\ TimedDone(r, ds) => Present(r, ds, TimedArchive(r, ds, ar))
         /\ TimedRoom(r, ds).stage # r.stage => TimedDone(r, ds)
<1>1. CASE ~TimedDone(r, ds)
  BY <1>1 DEF TimedRoom, TimedDrivers, TimedArchive, Stays
<1>2. CASE TimedDone(r, ds)
  <2> DEFINE s == TimedRoom(r, ds)
             es == TimedDrivers(r, ds, cut)
             br == TimedArchive(r, ds, ar)
  <2>1. r.phase \in {"practice", "qualifying"}
    BY <1>2 DEF TimedDone
  <2>2. br = Archived(r, ds, ar, TRUE)
    BY <1>2 DEF TimedArchive
  <2>3. ResultPhase(r) # "race" /\ Underlying(r) = r.phase
    BY <2>1 DEF ResultPhase, Underlying
  <2>4. br \in Archive
    BY TimedArchiveType
  <2>5. r.phase # "finished" /\ r.phase \in ResultPhases \cup {"finished"}
    BY <2>1 DEF ResultPhases
  <2> HIDE DEF br
  <2>6. Filed(r, ds, br) /\ Stays(ar, br) /\ Present(r, ds, br)
    BY <2>2, <2>3, <2>5, ArchivedFiled
  <2>7. Unraced(r, br)
    BY <2>1, <2>3, <2>6 DEF Filed
  <2>8. /\ s.stages = r.stages /\ s.event = r.event
        /\ \/ s.phase = r.phase /\ s.stage = r.stage
           \/ s.phase = "grid" /\ s.stage = NoStage
    <3>1. LET g == [r EXCEPT !.clock = "none"]
          IN  /\ g.stages = r.stages /\ g.event = r.event
              /\ g.phase = r.phase /\ g.stage = r.stage
      BY Zenon DEF Room
    <3>2. LET g == [r EXCEPT !.clock = "none", !.flag = "green"]
          IN  /\ g.stages = r.stages /\ g.event = r.event
              /\ g.phase = r.phase /\ g.stage = r.stage
      BY Zenon DEF Room
    <3>3. LET g == [r EXCEPT !.phase = "grid", !.stage = NoStage, !.flag = "green",
                             !.clock = "none", !.expired = FALSE, !.session = 0]
          IN  /\ g.stages = r.stages /\ g.event = r.event
              /\ g.phase = "grid" /\ g.stage = NoStage
      BY Zenon DEF Room
    <3> QED BY <1>2, <3>1, <3>2, <3>3 DEF TimedRoom
  <2>9. \A d \in Driver : Ran(ds[d], es[d])
    BY TimedKept, KeptRan
  <2> HIDE DEF s, es
  <2>10. CASE s.phase = r.phase /\ s.stage = r.stage
    <3>1. Underlying(s) = Underlying(r)
      BY <2>1, <2>10 DEF Underlying
    <3>2. Filed(s, es, br)
      BY <2>6, <2>8, <2>9, <2>10, <3>1, FiledKept
    <3> QED BY <1>2, <2>4, <2>6, <3>2 DEF s, es, br
  <2>11. CASE s.phase = "grid" /\ s.stage = NoStage
    <3>1. Unraced(s, br)
      BY <2>7, <2>8 DEF Unraced
    <3>2. Filed(s, es, br)
      BY <2>6, <2>8, <2>11, <3>1, FiledClosed
    <3> QED BY <1>2, <2>4, <2>6, <3>2 DEF s, es, br
  <2> QED BY <2>8, <2>10, <2>11
<1> QED BY <1>1, <1>2, TimedArchiveType

LEMMA StaysTransitive ==
  ASSUME NEW ar, NEW br, NEW cr, Stays(ar, br), Stays(br, cr)
  PROVE  Stays(ar, cr)
BY DEF Stays

LEMMA SettledFiled ==
  ASSUME NEW r \in Room, NEW ds \in Drivers, NEW ar \in Archive, NEW cut, Filed(r, ds, ar)
  PROVE  /\ SettledArchive(r, ds, ar) \in Archive
         /\ Filed(SettledRoom(r, ds), TimedDrivers(r, ds, cut), SettledArchive(r, ds, ar))
         /\ Stays(ar, SettledArchive(r, ds, ar))
         /\ \/ SettledRoom(r, ds).stage = r.stage
            \/ SettledRoom(r, ds).stage = NoStage /\ Present(r, ds, SettledArchive(r, ds, ar))
<1>0. SettledRoom(r, ds).stage \in {r.stage, NoStage}
  BY SettledStage
<1>1. CASE ~TimedDone(r, ds)
  <2>1. /\ SettledRoom(r, ds) = RaceRoom(r, ds)
        /\ TimedDrivers(r, ds, cut) = ds
        /\ SettledArchive(r, ds, ar) = RaceArchive(r, ds, ar)
    BY <1>1 DEF SettledRoom, SettledArchive, TimedRoom, TimedDrivers, TimedArchive
  <2>2. RaceRoom(r, ds).stage = r.stage
    BY DEF RaceRoom, Room
  <2> QED BY <2>1, <2>2, RaceFiled
<1>2. CASE TimedDone(r, ds)
  <2>1. r.phase \in {"practice", "qualifying"}
    BY <1>2 DEF TimedDone
  <2>2. ~RaceDone(r, ds)
    BY <2>1 DEF RaceDone
  <2>3. TimedRoom(r, ds).phase # "race"
    <3>1. [r EXCEPT !.clock = "none"].phase = r.phase
      BY Zenon DEF Room
    <3>2. [r EXCEPT !.clock = "none", !.flag = "green"].phase = r.phase
      BY Zenon DEF Room
    <3>3. [r EXCEPT !.phase = "grid", !.stage = NoStage, !.flag = "green",
                    !.clock = "none", !.expired = FALSE, !.session = 0].phase = "grid"
      BY Zenon DEF Room
    <3> QED BY <2>1, <3>1, <3>2, <3>3 DEF TimedRoom
  <2>4. SettledRoom(r, ds) = TimedRoom(r, ds)
    BY <2>3 DEF SettledRoom, RaceRoom, RaceDone
  <2>5. SettledArchive(r, ds, ar) = TimedArchive(r, ds, ar)
    BY <2>2 DEF SettledArchive, RaceArchive
  <2> QED BY <1>0, <1>2, <2>4, <2>5, TimedFiled
<1> QED BY <1>1, <1>2

-----------------------------------------------------------------------------
(* What a step promises *)

\* Whoever is forgotten by this step is in the result of the stage.
Remembered ==
  \A d \in Driver :
    /\ driver[d].seat = "held" /\ driver'[d].seat = "gone"
    /\ room.stage # NoStage /\ driver[d].laps > 0
    => archive'[room.stage].entrant[d] # "absent"

Careful == Filed(room, driver, archive)' /\ Stays(archive, archive') /\ Remembered

\* Nobody is forgotten, and nothing is archived.
LEMMA CarefulUpdate ==
  ASSUME ArchiveInv, NEW d \in Driver, NEW q, q.seat # "gone",
         Underlying(room) = "finished" => Ran(driver[d], q),
         driver' = [driver EXCEPT ![d] = q], UNCHANGED <<room, archive>>
  PROVE  Careful
<1>1. driver \in Drivers /\ Filed(room, driver, archive)
  BY DEF ArchiveInv, TypeOK, Drivers
<1>2. Filed(room, driver', archive)
  BY <1>1, FiledUpdate
<1>3. \A c \in Driver : driver'[c].seat = "gone" => driver[c].seat = "gone"
  BY <1>1 DEF Drivers
<1> QED BY <1>2, <1>3 DEF Careful, Stays, Remembered

LEMMA CarefulSettle ==
  ASSUME ArchiveInv, NEW r \in Room, NEW ds \in Drivers, Filed(r, ds, archive),
         \A d \in Driver : driver[d].seat = "held" => ds[d].seat = "held",
         Settle(r, ds, archive)
  PROVE  Careful
<1>1. archive \in Archive
  BY DEF ArchiveInv, TypeOK, Archive
<1>2. PICK cut : /\ room' = SettledRoom(r, ds)
                 /\ driver' = TimedDrivers(r, ds, cut)
                 /\ archive' = SettledArchive(r, ds, archive)
  BY DEF Settle
<1>3. Filed(room', driver', archive') /\ Stays(archive, archive')
  BY <1>1, <1>2, SettledFiled
<1>4. \A d \in Driver : driver'[d].seat = ds[d].seat
  BY <1>2, TimedKept DEF Kept, Alike
<1> QED BY <1>3, <1>4 DEF Careful, Remembered

-----------------------------------------------------------------------------
(* Seats *)

LEMMA SeatsCareful ==
  ASSUME ArchiveInv, Seats
  PROVE  Careful
<1>1. PICK d \in Driver : Login(d) \/ Resume(d) \/ Disconnect(d) \/ Release(d) \/ SetReady(d)
  BY DEF Seats
<1>2. /\ room \in Room /\ driver \in Drivers /\ driver[d] \in Participant
      /\ archive \in Archive /\ TypeOK
  BY DEF ArchiveInv, TypeOK, Drivers, Archive
<1>3. Filed(room, driver, archive)
  BY DEF ArchiveInv
<1>4. CASE Login(d)
  <2> DEFINE q == [FreeSeat EXCEPT !.seat = "held", !.status = "active", !.connected = TRUE]
  <2>1. q.laps = 0 /\ q.seat = "held"
    BY DEF FreeSeat
  <2>2. driver' = [driver EXCEPT ![d] = q] /\ UNCHANGED <<room, archive>>
    BY <1>4 DEF Login
  <2> HIDE DEF q
  <2>3. Ran(driver[d], q) /\ q.seat # "gone"
    BY <2>1 DEF Ran
  <2> QED BY <2>2, <2>3, CarefulUpdate
<1>5. CASE Resume(d)
  <2> DEFINE late == /\ room.flag = "chequered"
                     /\ room.phase \in {"race", "finished"}
                     /\ driver[d].recovery # "open"
             seat == [driver[d] EXCEPT !.connected = TRUE,
                        !.status = IF late THEN "didNotFinish" ELSE "active",
                        !.stopped = @ \/ late]
             back == [driver EXCEPT ![d].connected = TRUE,
                        ![d].status = IF late THEN "didNotFinish" ELSE "active",
                        ![d].stopped = @ \/ late]
  <2>1. Kept(driver[d], seat)
    BY <1>2, Zenon DEF Kept, Alike, Participant
  <2>2. back = [driver EXCEPT ![d] = seat]
    BY <1>2 DEF Drivers
  <2>3. room' = RaceRoom(room, back) /\ driver' = back
          /\ archive' = RaceArchive(room, back, archive)
    BY <1>5 DEF Resume
  <2>4. back \in Drivers
    BY <1>1, <1>2, <2>3, SeatsType DEF TypeOK, Drivers
  <2> HIDE DEF seat, back
  <2>5. Filed(room, back, archive)
    BY <1>2, <1>3, <2>1, <2>2, KeptRan, FiledUpdate
  <2>6. Filed(room', driver', archive') /\ Stays(archive, archive')
    BY <1>2, <2>3, <2>4, <2>5, RaceFiled
  <2>7. \A c \in Driver : driver'[c].seat = driver[c].seat
    BY <1>2, <2>1, <2>2, <2>3 DEF Kept, Alike, Drivers
  <2> QED BY <2>6, <2>7 DEF Careful, Remembered
<1>6. CASE Disconnect(d)
  <2> DEFINE status == IF driver[d].status \in Terminal
                       THEN driver[d].status ELSE "disconnected"
             recoverable == /\ RecoveryEnabled
                            /\ status = "disconnected"
                            /\ (IF room.phase = "suspended" THEN room.before
                                ELSE room.phase) \in ResultPhases
             seat == [driver[d] EXCEPT !.connected = FALSE, !.status = status,
                        !.recovery = IF recoverable THEN "open" ELSE "none",
                        !.finalLap = @ /\ recoverable]
             left == [driver EXCEPT ![d].connected = FALSE, ![d].status = status,
                        ![d].recovery = IF recoverable THEN "open" ELSE "none",
                        ![d].finalLap = @ /\ recoverable]
  <2>1. left = [driver EXCEPT ![d] = seat]
    <3> HIDE DEF status, recoverable
    <3> QED BY <1>2 DEF Drivers
  <2>2. Kept(driver[d], seat)
    <3> HIDE DEF status, recoverable
    <3> QED BY <1>2, Zenon DEF Kept, Alike, Participant
  <2>3. seat \in Participant
    <3>1. status \in Status
      BY <1>2, StatusNames DEF Participant
    <3>2. /\ (driver[d].finalLap /\ recoverable) \in BOOLEAN
          /\ (IF recoverable THEN "open" ELSE "none") \in {"none", "open", "lapsed"}
      OBVIOUS
    <3> HIDE DEF status, recoverable
    <3> QED BY <1>2, <3>1, <3>2, Zenon DEF Participant
  <2>4. Settle(room, left, archive)
    BY <1>6 DEF Disconnect
  <2> HIDE DEF seat, left
  <2>5. left \in Drivers /\ \A c \in Driver : left[c].seat = driver[c].seat
    BY <1>2, <2>1, <2>2, <2>3 DEF Drivers, Kept, Alike
  <2>6. Filed(room, left, archive)
    BY <1>2, <1>3, <2>1, <2>2, KeptRan, FiledUpdate
  <2> QED BY <1>2, <2>4, <2>5, <2>6, CarefulSettle
<1>7. CASE Release(d)
  <2> DEFINE racing == room.phase = "race"
             seat == [driver[d] EXCEPT !.connected = FALSE,
                        !.status = IF @ \in Terminal THEN @
                                   ELSE IF racing THEN "didNotFinish" ELSE "disconnected",
                        !.stopped = @ \/ racing,
                        !.recovery = "none",
                        !.finalLap = FALSE]
             out == [driver EXCEPT ![d] = seat]
             r == SettledRoom(room, out)
             br == SettledArchive(room, out, archive)
  <2>1. PICK cut :
          /\ room' = r
          /\ driver' = [TimedDrivers(room, out, cut) EXCEPT ![d] = GoneSeat]
          /\ archive' = Archived(r, TimedDrivers(room, out, cut), br,
                                 ResultIsComplete(r, TimedDrivers(room, out, cut)))
    BY <1>7 DEF Release
  <2> DEFINE ds == TimedDrivers(room, out, cut)
  <2>2. Kept(driver[d], seat)
    <3> HIDE DEF racing
    <3> QED BY <1>2, Zenon DEF Kept, Alike, Participant
  <2>3. seat \in Participant
    <3>1. (IF driver[d].status \in Terminal THEN driver[d].status
           ELSE IF racing THEN "didNotFinish" ELSE "disconnected") \in Status
      BY <1>2, StatusNames DEF Participant
    <3>2. (driver[d].stopped \/ racing) \in BOOLEAN
      OBVIOUS
    <3> HIDE DEF racing
    <3> QED BY <1>2, <3>1, <3>2, Zenon DEF Participant
  <2> HIDE DEF seat
  <2>4. /\ out \in Drivers /\ Filed(room, out, archive)
        /\ out[d].seat = driver[d].seat /\ out[d].laps = driver[d].laps
        /\ \A c \in Driver : out[c].seat = driver[c].seat
    BY <1>2, <1>3, <2>2, <2>3, KeptRan, FiledUpdate DEF Drivers, Kept, Alike
  <2> HIDE DEF out
  <2>5. /\ r \in Room /\ br \in Archive /\ ds \in Drivers
        /\ Filed(r, ds, br) /\ Stays(archive, br)
        /\ \/ r.stage = room.stage
           \/ r.stage = NoStage /\ Present(room, out, br)
    BY <1>2, <2>4, SettledRoomType, TimedDriversType, SettledFiled
  <2>6. /\ ds[d].seat = out[d].seat /\ ds[d].laps = out[d].laps
        /\ \A c \in Driver : ds[c].seat = out[c].seat
    BY <2>4, TimedKept DEF Kept, Alike
  <2> HIDE DEF r, br, ds
  <2>7. /\ ResultIsComplete(r, ds) \in BOOLEAN
        /\ ResultIsComplete(r, ds) /\ ResultPhase(r) = "race" => r.phase = "finished"
        /\ r.phase = "finished" => ResultIsComplete(r, ds)
    BY DEF ResultIsComplete, ResultPhase
  <2>8. archive' = Archived(r, ds, br, ResultIsComplete(r, ds))
    BY <2>1 DEF ds, r, br
  <2>9. /\ Filed(r, ds, archive') /\ Stays(br, archive')
        /\ Underlying(r) \in ResultPhases \cup {"finished"} => Present(r, ds, archive')
    BY <2>5, <2>7, <2>8, ArchivedFiled
  <2>10. driver' = [ds EXCEPT ![d] = GoneSeat] /\ room' = r
    BY <2>1 DEF ds
  <2>11. Filed(room', driver', archive')
    <3>1. Ran(ds[d], GoneSeat)
      BY DEF Ran, GoneSeat, FreeSeat
    <3> QED BY <2>5, <2>9, <2>10, <3>1, FiledUpdate
  <2>12. Stays(archive, archive')
    BY <2>5, <2>9, StaysTransitive
  <2>13. ASSUME NEW c \in Driver, driver[c].seat = "held", driver'[c].seat = "gone"
         PROVE  c = d
    BY <2>4, <2>5, <2>6, <2>10, <2>13 DEF Drivers
  <2>14. ASSUME room.stage # NoStage, driver[d].laps > 0
         PROVE  archive'[room.stage].entrant[d] # "absent"
    <3>1. driver[d].seat = "held"
      BY <1>7 DEF Release
    <3>2. CASE r.stage = room.stage
      <4>1. Underlying(r) \in ResultPhases \cup {"finished"}
        BY <2>5, <2>14, <3>2 DEF Filed, Running
      <4> QED BY <2>4, <2>6, <2>9, <2>14, <3>1, <3>2, <4>1 DEF Present, Held
    <3>3. CASE r.stage = NoStage /\ Present(room, out, br)
      <4>1. archive' = br
        BY <2>8, <3>3 DEF Archived
      <4> QED BY <2>4, <2>14, <3>1, <3>3, <4>1 DEF Present, Held
    <3> QED BY <2>5, <3>2, <3>3
  <2> QED BY <2>11, <2>12, <2>13, <2>14 DEF Careful, Remembered
<1>8. CASE SetReady(d)
  <2>1. Kept(driver[d], [driver[d] EXCEPT !.status = "active"])
    BY <1>2, Zenon DEF Kept, Alike, Participant
  <2>2. /\ driver' = [driver EXCEPT ![d] = [driver[d] EXCEPT !.status = "active"]]
        /\ UNCHANGED <<room, archive>>
        /\ driver[d].seat = "held"
    BY <1>2, <1>8 DEF SetReady, Drivers
  <2>3. [driver[d] EXCEPT !.status = "active"].seat # "gone"
    BY <2>1, <2>2 DEF Kept, Alike
  <2> QED BY <2>1, <2>2, <2>3, KeptRan, CarefulUpdate
<1> QED BY <1>1, <1>4, <1>5, <1>6, <1>7, <1>8

-----------------------------------------------------------------------------
(* Laps *)

LEMMA PreparedAs ==
  ASSUME room \in Room, NEW p \in Participant
  PROVE  /\ Prepared(p) \in Participant
         /\ Prepared(p).seat = p.seat
         /\ Prepared(p).laps = p.laps
<1>1. LET q == [p EXCEPT !.lapStage = room.stage, !.lastLap = 0, !.lastValid = FALSE]
      IN  q.seat = p.seat /\ q.laps = p.laps
  BY Zenon DEF Participant
<1> QED BY <1>1, PreparedType DEF Prepared

LEMMA CreditedSeat ==
  ASSUME room \in Room, NEW p \in Participant, NEW e
  PROVE  Credited(p, e).seat = p.seat
<1> DEFINE new == [event |-> e, stage |-> room.stage]
           noted == [p EXCEPT !.lastLap = e.lap, !.lastValid = e.valid,
                       !.receipts = @ \cup {new}, !.recovery = "none", !.finalLap = FALSE]
<1>1. noted.seat = p.seat
  BY Zenon DEF Participant
<1>2. [noted EXCEPT !.laps = @ + 1].seat = noted.seat
  <2>1. noted = [c \in DOMAIN p |-> noted[c]]
    OBVIOUS
  <2> HIDE DEF noted
  <2> QED BY <2>1 DEF Participant
<1>3. Credited(p, e) = IF e.valid THEN [noted EXCEPT !.laps = @ + 1] ELSE noted
  BY DEF Credited
<1> QED BY <1>1, <1>2, <1>3

LEMMA LapsCareful ==
  ASSUME ArchiveInv, Laps
  PROVE  Careful
<1>1. /\ room \in Room /\ driver \in Drivers /\ archive \in Archive
      /\ \A d \in Driver : driver[d] \in Participant
  BY DEF ArchiveInv, TypeOK, Drivers, Archive
<1>2. Filed(room, driver, archive)
  BY DEF ArchiveInv
<1>3. ASSUME NEW d \in Driver, Telemetry(d)
      PROVE  Careful
  <2> DEFINE p == Prepared(driver[d])
             active == [p EXCEPT !.status = "active"]
             q == IF p.status \in Terminal THEN p ELSE active
  <2>1. driver' = [driver EXCEPT ![d] = q] /\ UNCHANGED <<room, archive>>
          /\ driver[d].seat = "held"
    BY <1>3 DEF Telemetry
  <2>2. p \in Participant /\ p.seat = driver[d].seat /\ p.laps = driver[d].laps
    BY <1>1, PreparedAs
  <2> HIDE DEF p
  <2>3. active.seat = p.seat /\ active.laps = p.laps
    BY <2>2, Zenon DEF Participant
  <2>4. q.seat = p.seat /\ q.laps = p.laps
    <3> HIDE DEF active
    <3> QED BY <2>3
  <2> HIDE DEF q
  <2>5. Ran(driver[d], q) /\ q.seat # "gone"
    BY <2>1, <2>2, <2>4 DEF Ran
  <2> QED BY <2>1, <2>5, CarefulUpdate
<1>4. ASSUME NEW d \in Driver, NEW e \in LapEvent, RejectLap(d, e)
      PROVE  Careful
  <2>1. driver' = [driver EXCEPT ![d] = Prepared(driver[d])] /\ UNCHANGED <<room, archive>>
          /\ driver[d].seat = "held"
    BY <1>4 DEF RejectLap
  <2>2. Ran(driver[d], Prepared(driver[d])) /\ Prepared(driver[d]).seat # "gone"
    BY <1>1, <2>1, PreparedAs DEF Ran
  <2> QED BY <2>1, <2>2, CarefulUpdate
<1>5. ASSUME NEW d \in Driver, NEW e \in LapEvent, NEW recovered \in BOOLEAN,
             CompleteLap(d, e, recovered)
      PROVE  Careful
  <2> DEFINE p == Prepared(driver[d])
             q == Credited(p, e)
             done == Finishes(q, e)
             finished == [q EXCEPT !.status = "finished", !.stopped = TRUE]
             x == IF done THEN finished ELSE q
             r == IF done THEN [room EXCEPT !.flag = "chequered"] ELSE room
             ds == [driver EXCEPT ![d] = x]
  <2>1. /\ driver[d].seat = "held" /\ room.phase \in ResultPhases
        /\ Settle(r, ds, archive)
    BY <1>5 DEF CompleteLap, LapAdmitted
  <2>2. Underlying(room) # "finished"
    BY <2>1 DEF Underlying, ResultPhases
  <2>3. p \in Participant /\ p.seat = "held"
    BY <1>1, <2>1, PreparedAs
  <2> HIDE DEF p
  <2>4. q \in Participant /\ q.seat = "held"
    BY <1>1, <2>3, CreditedType, CreditedSeat
  <2> HIDE DEF q, done
  <2>5. finished \in Participant /\ finished.seat = q.seat
    <3>1. finished \in Participant
      BY <2>4, StatusNames, Zenon DEF Participant
    <3>2. finished.seat = q.seat
      BY <2>4, Zenon DEF Participant
    <3> QED BY <3>1, <3>2
  <2>6. x \in Participant /\ x.seat = "held"
    <3> HIDE DEF finished
    <3> QED BY <2>4, <2>5
  <2>7. /\ r \in Room /\ r.stages = room.stages /\ r.stage = room.stage
        /\ r.event = room.event /\ Underlying(r) = Underlying(room)
    <3>1. \A f \in {"chequered"} :
            LET s == [room EXCEPT !.flag = f]
            IN  /\ s \in Room /\ s.stages = room.stages /\ s.stage = room.stage
                /\ s.event = room.event
                /\ s.phase = room.phase /\ s.before = room.before
      BY <1>1 DEF Room
    <3> QED BY <1>1, <3>1 DEF Underlying
  <2> HIDE DEF x, r
  <2>8. ds \in Drivers /\ \A c \in Driver : driver[c].seat = "held" => ds[c].seat = "held"
    BY <1>1, <2>6 DEF Drivers
  <2>9. Filed(r, ds, archive)
    BY <1>2, <2>2, <2>7, FiledKept
  <2> QED BY <2>1, <2>7, <2>8, <2>9, CarefulSettle
<1> QED BY <1>3, <1>4, <1>5 DEF Laps

-----------------------------------------------------------------------------
(* Phases *)

\* The stage is archived and closed.
LEMMA CarefulClosed ==
  ASSUME ArchiveInv, archive' = Closed,
         room'.stage = NoStage, room'.stages = room.stages,
         \/ Underlying(room') \in {"lobby", "finished"}
         \/ room'.event = room.event /\ Unraced(room, archive)
  PROVE  Careful
<1>1. room \in Room /\ Filed(room, driver, archive')
  BY ClosedFiled DEF ArchiveInv, TypeOK
<1>2. Stays(archive, archive') /\ SameRaces(archive, archive')
  BY ClosedFiled
<1>3. room.stage # NoStage => Present(room, driver, archive')
  BY ClosedFiled
<1>4. Underlying(room') \notin {"lobby", "finished"} => Unraced(room', archive')
  BY <1>2 DEF Unraced, SameRaces
<1>5. Filed(room', driver', archive')
  BY <1>1, <1>4, FiledClosed
<1> QED BY <1>2, <1>3, <1>5 DEF Careful, Remembered, Present, Held

\* The stage is archived and another one opened.
LEMMA CarefulOpened ==
  ASSUME ArchiveInv, archive' = Closed, room.stages < MaxStage,
         room'.stage = room.stages + 1, room'.stages = room.stages + 1,
         room'.event = room.event, Underlying(room') \in ResultPhases,
         Unraced(room, archive)
  PROVE  Careful
<1>1. room \in Room /\ archive' \in Archive /\ Filed(room, driver, archive')
  BY ClosedFiled DEF ArchiveInv, TypeOK
<1>2. Stays(archive, archive') /\ SameRaces(archive, archive')
  BY ClosedFiled
<1>3. room.stage # NoStage => Present(room, driver, archive')
  BY ClosedFiled
<1>4. Unraced(room, archive')
  BY <1>2 DEF Unraced, SameRaces
<1>5. Filed(room', driver', archive')
  BY <1>1, <1>4, FiledOpened
<1> QED BY <1>2, <1>3, <1>5 DEF Careful, Remembered, Present, Held

LEMMA NoClockRoom ==
  ASSUME NEW r \in Room
  PROVE  /\ NoClock(r) \in Room
         /\ NoClock(r).stages = r.stages
         /\ NoClock(r).event = r.event
<1>1. NoClock(r).stages = r.stages
  BY Zenon DEF NoClock, Room
<1>2. NoClock(r).event = r.event
  BY Zenon DEF NoClock, Room
<1> QED BY <1>1, <1>2, NoClockType

LEMMA OpenedRoom ==
  ASSUME NEW r \in Room
  PROVE  /\ Opened(r).stage = r.stages + 1
         /\ Opened(r).stages = r.stages + 1
         /\ Opened(r).event = r.event
         /\ Opened(r).phase = r.phase
BY Zenon DEF Opened, Room

LEMMA SessionsCareful ==
  ASSUME ArchiveInv, Sessions
  PROVE  Careful
<1>1. room \in Room
  BY DEF ArchiveInv, TypeOK
<1>2. /\ NoClock(room) \in Room /\ NoClock(room).stages = room.stages
      /\ NoClock(room).event = room.event
  BY <1>1, NoClockRoom
<1>3. EventOpen => Unraced(room, archive)
  BY DEF EventOpen, Unraced, RaceResult
<1>4. ASSUME ToLobby
      PROVE  Careful
  <2>1. archive' = Closed
          /\ room' = [NoClock(room) EXCEPT !.phase = "lobby", !.flag = "green",
                                           !.stage = NoStage]
    BY <1>4 DEF ToLobby
  <2>2. room'.stage = NoStage /\ room'.stages = room.stages /\ room'.phase = "lobby"
    BY <1>2, <2>1, Zenon DEF Room
  <2>3. Underlying(room') \in {"lobby", "finished"}
    BY <2>2 DEF Underlying
  <2> QED BY <2>1, <2>2, <2>3, CarefulClosed
<1>5. ASSUME NEW kind \in {"practice", "qualifying"}, ToTimed(kind)
      PROVE  Careful
  <2>1. archive' = Closed /\ room.stages < MaxStage /\ Unraced(room, archive)
    BY <1>3, <1>5 DEF ToTimed
  <2>2. /\ room'.stage = room.stages + 1 /\ room'.stages = room.stages + 1
        /\ room'.event = room.event /\ room'.phase = kind
    <3>1. CASE NextSession(kind)
      <4>1. room' = [Opened(room) EXCEPT !.session = Opened(room).session + 1,
                                         !.clock = "running", !.expired = FALSE]
        BY <1>5, <3>1 DEF ToTimed
      <4>2. Opened(room) \in Room
        BY <1>1, <2>1, OpenedType
      <4>3. /\ room'.stages = Opened(room).stages /\ room'.stage = Opened(room).stage
            /\ room'.phase = Opened(room).phase /\ room'.event = Opened(room).event
        BY <4>1, <4>2, Zenon DEF Room
      <4>4. room.phase = kind
        BY <3>1 DEF NextSession
      <4> QED BY <1>1, <4>3, <4>4, OpenedRoom
    <3>2. CASE ~NextSession(kind)
      <4> DEFINE r == Opened(NoClock(room))
      <4>1. room' = [r EXCEPT !.phase = kind, !.session = 1, !.clock = "running",
                         !.sessions = IF kind = "practice" THEN PracticeSessions
                                      ELSE QualifyingSessions]
        BY <1>5, <3>2 DEF ToTimed
      <4>2. r \in Room
        BY <1>2, <2>1, OpenedType
      <4>3. /\ r.stage = room.stages + 1 /\ r.stages = room.stages + 1
            /\ r.event = room.event
        BY <1>2, OpenedRoom
      <4> HIDE DEF r
      <4>4. /\ room'.stages = r.stages /\ room'.stage = r.stage
            /\ room'.event = r.event /\ room'.phase = kind
        BY <4>1, <4>2, Zenon DEF Room
      <4> QED BY <4>3, <4>4
    <3> QED BY <3>1, <3>2
  <2>3. Underlying(room') \in ResultPhases
    BY <2>2 DEF Underlying, ResultPhases
  <2> QED BY <2>1, <2>2, <2>3, CarefulOpened
<1>6. ASSUME ToGrid
      PROVE  Careful
  <2>1. /\ archive' = Closed /\ Unraced(room, archive)
        /\ room' = [room EXCEPT !.phase = "grid", !.stage = NoStage,
                                !.flag = "green", !.clock = "none", !.expired = FALSE]
    BY <1>3, <1>6 DEF ToGrid
  <2>2. room'.stage = NoStage /\ room'.stages = room.stages /\ room'.event = room.event
    BY <1>1, <2>1, Zenon DEF Room
  <2> QED BY <2>1, <2>2, CarefulClosed
<1>7. ASSUME NEW phase, ToStart(phase)
      PROVE  Careful
  <2>1. /\ archive' = Closed /\ Unraced(room, archive)
        /\ \/ room' = [room EXCEPT !.phase = phase, !.flag = "green", !.stage = NoStage]
           \/ room' = [NoClock(room) EXCEPT !.phase = phase, !.flag = "green",
                                            !.stage = NoStage]
    BY <1>3, <1>7 DEF ToStart
  <2>2. room'.stage = NoStage /\ room'.stages = room.stages /\ room'.event = room.event
    <3>1. CASE room' = [room EXCEPT !.phase = phase, !.flag = "green", !.stage = NoStage]
      BY <1>1, <3>1, Zenon DEF Room
    <3>2. CASE room' = [NoClock(room) EXCEPT !.phase = phase, !.flag = "green",
                                             !.stage = NoStage]
      <4>1. /\ room'.stage = NoStage /\ room'.stages = NoClock(room).stages
            /\ room'.event = NoClock(room).event
        BY <1>2, <3>2, Zenon DEF Room
      <4> QED BY <1>2, <4>1
    <3> QED BY <2>1, <3>1, <3>2
  <2> QED BY <2>1, <2>2, CarefulClosed
<1>8. ASSUME NEW force \in BOOLEAN, Countdown(force)
      PROVE  Careful
  BY <1>7, <1>8 DEF Countdown
<1>9. ASSUME ToRace
      PROVE  Careful
  <2>1. archive' = Closed /\ room.stages < MaxStage /\ Unraced(room, archive)
    BY <1>3, <1>9 DEF ToRace
  <2>2. \A r \in Room :
          LET s == [r EXCEPT !.phase = "race"]
          IN  s.stages = r.stages /\ s.stage = r.stage /\ s.event = r.event
                /\ s.phase = "race"
    BY Zenon DEF Room
  <2>3. Opened(room) \in Room /\ Opened(NoClock(room)) \in Room
    BY <1>1, <1>2, <2>1, OpenedType
  <2>4. \/ room' = [Opened(room) EXCEPT !.phase = "race"]
        \/ room' = [Opened(NoClock(room)) EXCEPT !.phase = "race"]
    BY <1>9 DEF ToRace
  <2>5. /\ Opened(room).stages = room.stages + 1
        /\ Opened(room).stage = room.stages + 1
        /\ Opened(room).event = room.event
        /\ Opened(NoClock(room)).stages = room.stages + 1
        /\ Opened(NoClock(room)).stage = room.stages + 1
        /\ Opened(NoClock(room)).event = room.event
    BY <1>1, <1>2, OpenedRoom
  <2>6. /\ room'.stages = room.stages + 1 /\ room'.stage = room.stages + 1
        /\ room'.event = room.event /\ room'.phase = "race"
    BY <2>2, <2>3, <2>4, <2>5
  <2>7. Underlying(room') \in ResultPhases
    BY <2>6 DEF Underlying, ResultPhases
  <2> QED BY <2>1, <2>6, <2>7, CarefulOpened
<1>10. ASSUME RefuseFinish
       PROVE  Careful
  <2>1. archive' = Closed /\ room' = [room EXCEPT !.stage = NoStage]
    BY <1>10 DEF RefuseFinish
  <2>2. /\ room'.stages = room.stages /\ room'.stage = NoStage /\ room'.event = room.event
        /\ room'.phase = room.phase /\ room'.before = room.before
    BY <1>1, <2>1, Zenon DEF Room
  <2>3. \/ Underlying(room') \in {"lobby", "finished"}
        \/ room'.event = room.event /\ Unraced(room, archive)
    BY <2>2 DEF ArchiveInv, Filed, Underlying
  <2> QED BY <2>1, <2>2, <2>3, CarefulClosed
<1>11. ASSUME BeginEvent
       PROVE  Careful
  <2>1. /\ archive' = Closed
        /\ room' = [NoClock(room) EXCEPT !.phase = "lobby", !.flag = "green",
                                         !.stage = NoStage, !.event = @ + 1]
    BY <1>11 DEF BeginEvent
  <2>2. room'.stages = room.stages /\ room'.stage = NoStage /\ room'.phase = "lobby"
    BY <1>2, <2>1, Zenon DEF Room
  <2>3. Underlying(room') \in {"lobby", "finished"}
    BY <2>2 DEF Underlying
  <2> QED BY <2>1, <2>2, <2>3, CarefulClosed
<1> QED BY <1>4, <1>5, <1>6, <1>7, <1>8, <1>9, <1>10, <1>11 DEF Sessions

-----------------------------------------------------------------------------
(* Race control and time *)

LEMMA ControlCareful ==
  ASSUME ArchiveInv, Control
  PROVE  Careful
<1>1. room \in Room /\ driver \in Drivers /\ \A d \in Driver : driver[d] \in Participant
  BY DEF ArchiveInv, TypeOK, Drivers
<1>2. Filed(room, driver, archive)
  BY DEF ArchiveInv
<1>3. ASSUME UNCHANGED <<driver, archive>>, room'.stages = room.stages,
             room'.stage = room.stage, room'.event = room.event,
             Underlying(room') = Underlying(room)
      PROVE  Careful
  <2>1. \A d \in Driver : Ran(driver[d], driver[d])
    BY DEF Ran
  <2>2. Filed(room', driver, archive)
    BY <1>2, <1>3, <2>1, FiledKept
  <2> QED BY <1>3, <2>2 DEF Careful, Stays, Remembered
<1>4. ASSUME RedFlag
      PROVE  Careful
  <2>1. /\ room' = [room EXCEPT !.before = room.phase, !.phase = "suspended", !.flag = "red"]
        /\ UNCHANGED <<driver, archive>> /\ room.phase # "suspended"
    BY <1>4 DEF RedFlag
  <2>2. /\ room'.stages = room.stages /\ room'.stage = room.stage
        /\ room'.event = room.event
        /\ room'.phase = "suspended" /\ room'.before = room.phase
    BY <1>1, <2>1, Zenon DEF Room
  <2> QED BY <1>3, <2>1, <2>2 DEF Underlying
<1>5. ASSUME GreenFlag
      PROVE  Careful
  <2>1. /\ room' = [room EXCEPT !.phase = room.before, !.flag = "green"]
        /\ UNCHANGED <<driver, archive>> /\ room.phase = "suspended"
    BY <1>5 DEF GreenFlag
  <2>2. /\ room'.stages = room.stages /\ room'.stage = room.stage
        /\ room'.event = room.event /\ room'.phase = room.before
    BY <1>1, <2>1, Zenon DEF Room
  <2>3. room.before # "suspended"
    BY <1>1 DEF Room
  <2> QED BY <1>3, <2>1, <2>2, <2>3 DEF Underlying
<1>6. ASSUME NEW d \in Driver, NEW q, driver' = [driver EXCEPT ![d] = q],
             UNCHANGED <<room, archive>>, Kept(driver[d], q), driver[d].seat = "held"
      PROVE  Careful
  <2>1. Ran(driver[d], q) /\ q.seat # "gone"
    BY <1>6, KeptRan DEF Kept, Alike
  <2> QED BY <1>6, <2>1, CarefulUpdate
<1>7. ASSUME NEW d \in Driver, NEW status, Classify(d, status)
      PROVE  Careful
  <2>1. Kept(driver[d], [driver[d] EXCEPT !.status = status, !.stopped = TRUE])
    BY <1>1, Zenon DEF Kept, Alike, Participant
  <2>2. /\ driver' = [driver EXCEPT ![d] = [driver[d] EXCEPT !.status = status, !.stopped = TRUE]]
        /\ UNCHANGED <<room, archive>> /\ driver[d].seat = "held"
    BY <1>7 DEF Classify
  <2> QED BY <1>6, <2>1, <2>2
<1>8. ASSUME NEW d \in Driver, Penalise(d)
      PROVE  Careful
  <2>1. Kept(driver[d], [driver[d] EXCEPT !.status = "disqualified", !.dsqRecord = TRUE])
    BY <1>1, Zenon DEF Kept, Alike, Participant
  <2>2. /\ driver' = [driver EXCEPT ![d] = [driver[d] EXCEPT !.status = "disqualified",
                                                             !.dsqRecord = TRUE]]
        /\ UNCHANGED <<room, archive>> /\ driver[d].seat = "held"
    BY <1>8 DEF Penalise
  <2> QED BY <1>6, <2>1, <2>2
<1>9. ASSUME NEW d \in Driver, Revoke(d)
      PROVE  Careful
  <2> DEFINE status == IF driver[d].status = "disqualified" /\ driver[d].stopped
                       THEN "finished" ELSE "active"
  <2>1. /\ driver' = [driver EXCEPT ![d] = [driver[d] EXCEPT !.status = status]]
        /\ UNCHANGED <<room, archive>> /\ driver[d].seat = "held"
    BY <1>9 DEF Revoke
  <2> HIDE DEF status
  <2>2. Kept(driver[d], [driver[d] EXCEPT !.status = status])
    BY <1>1, Zenon DEF Kept, Alike, Participant
  <2> QED BY <1>6, <2>1, <2>2
<1> QED BY <1>4, <1>5, <1>7, <1>8, <1>9 DEF Control

LEMMA EachKept ==
  ASSUME NEW new, \A d \in Driver : Kept(driver[d], new[d]), NEW d \in Driver
  PROVE  Kept(driver[d], Each(new)[d])
BY DEF Each, Kept, Alike

LEMMA TimeCareful ==
  ASSUME ArchiveInv, Time
  PROVE  Careful
<1>1. room \in Room /\ driver \in Drivers /\ \A d \in Driver : driver[d] \in Participant
  BY DEF ArchiveInv, TypeOK, Drivers
<1>2. Filed(room, driver, archive)
  BY DEF ArchiveInv
<1>3. ASSUME NEW r \in Room, r.stages = room.stages, r.stage = room.stage,
             r.event = room.event, Underlying(r) = Underlying(room),
             NEW new, \A d \in Driver : Kept(driver[d], new[d]) /\ new[d] \in Participant,
             Settle(r, Each(new), archive)
      PROVE  Careful
  <2>1. Each(new) \in Drivers
    BY <1>1, <1>3, EachType
  <2>2. \A d \in Driver : Kept(driver[d], Each(new)[d])
    BY <1>3, EachKept
  <2>3. Filed(r, Each(new), archive)
    BY <1>2, <1>3, <2>2, KeptRan, FiledKept
  <2>4. \A d \in Driver : driver[d].seat = "held" => Each(new)[d].seat = "held"
    BY <2>2 DEF Kept, Alike
  <2> QED BY <1>3, <2>1, <2>3, <2>4, CarefulSettle
<1>4. ASSUME NEW d \in Driver, WindowLapses(d)
      PROVE  Careful
  <2>1. Kept(driver[d], [driver[d] EXCEPT !.recovery = "lapsed"])
    BY <1>1, Zenon DEF Kept, Alike, Participant
  <2>2. /\ driver' = [driver EXCEPT ![d] = [driver[d] EXCEPT !.recovery = "lapsed"]]
        /\ UNCHANGED <<room, archive>>
    BY <1>4 DEF WindowLapses
  <2>3. \A c \in Driver : Kept(driver[c], driver'[c])
    BY <1>1, <2>1, <2>2 DEF Kept, Alike, Drivers
  <2>4. Filed(room, driver', archive)
    BY <1>2, <2>3, KeptRan, FiledKept
  <2> QED BY <2>2, <2>3, <2>4 DEF Careful, Stays, Remembered, Kept, Alike
<1>5. ASSUME TickLobby
      PROVE  Careful
  <2>1. room.phase = "lobby" /\ UNCHANGED <<room, archive>>
    BY <1>5 DEF TickLobby
  <2>2. Underlying(room) = "lobby"
    BY <2>1 DEF Underlying
  <2>3. room.stage = NoStage
    BY <1>2, <2>2 DEF Filed, Running, ResultPhases
  <2>4. Filed(room, driver', archive)
    BY <1>2, <2>2, FiledKept
  <2> QED BY <2>1, <2>3, <2>4 DEF Careful, Stays, Remembered
<1>6. ASSUME TickRecovery
      PROVE  Careful
  <2> DEFINE new == [d \in Driver |-> Lapsed(driver[d])]
  <2>1. Settle(room, Each(new), archive)
    BY <1>6 DEF TickRecovery
  <2>2. \A d \in Driver : Kept(driver[d], new[d]) /\ new[d] \in Participant
    BY <1>1, LapsedKept, LapsedType
  <2> HIDE DEF new
  <2> QED BY <1>1, <1>3, <2>1, <2>2
<1>7. ASSUME TickStart
      PROVE  Careful
  <2>1. /\ room' = [Opened(room) EXCEPT !.phase = "race"]
        /\ UNCHANGED <<driver, archive>> /\ room.phase = "countdown"
        /\ room.stages < MaxStage
    BY <1>7 DEF TickStart
  <2>2. Opened(room) \in Room /\ archive \in Archive
    BY <1>1, <2>1, OpenedType DEF ArchiveInv, TypeOK, Archive
  <2>3. /\ room'.stages = Opened(room).stages /\ room'.stage = Opened(room).stage
        /\ room'.event = Opened(room).event /\ room'.phase = "race"
    BY <2>1, <2>2, Zenon DEF Room
  <2>4. /\ room'.stages = room.stages + 1 /\ room'.stage = room.stages + 1
        /\ room'.event = room.event
    BY <1>1, <2>3, OpenedRoom
  <2>5. Unraced(room, archive) /\ Underlying(room') \in ResultPhases
    BY <1>2, <2>1, <2>3 DEF Filed, Underlying, ResultPhases
  <2>6. Filed(room', driver', archive)
    BY <1>1, <1>2, <2>1, <2>2, <2>4, <2>5, FiledOpened
  <2> QED BY <2>1, <2>6 DEF Careful, Stays, Remembered
<1>8. ASSUME TickExpiry
      PROVE  Careful
  <2> DEFINE r == [room EXCEPT !.flag = "chequered", !.expired = TRUE]
             new(onLap) == [d \in Driver |-> [driver[d] EXCEPT !.finalLap = d \in onLap]]
  <2>1. PICK onLap : Settle(r, Each(new(onLap)), archive)
    BY <1>8 DEF TickExpiry
  <2>2. /\ r \in Room /\ r.stages = room.stages /\ r.stage = room.stage
        /\ r.event = room.event /\ r.phase = room.phase /\ r.before = room.before
    <3>1. r \in Room
      BY <1>1, Zenon DEF Room
    <3>2. /\ r.stages = room.stages /\ r.stage = room.stage
          /\ r.event = room.event /\ r.phase = room.phase /\ r.before = room.before
      BY <1>1, Zenon DEF Room
    <3> QED BY <3>1, <3>2
  <2>3. \A p \in Participant, x \in BOOLEAN :
          Kept(p, [p EXCEPT !.finalLap = x]) /\ [p EXCEPT !.finalLap = x] \in Participant
    <3>1. \A p \in Participant, x \in BOOLEAN : Kept(p, [p EXCEPT !.finalLap = x])
      BY Zenon DEF Kept, Alike, Participant
    <3>2. \A p \in Participant, x \in BOOLEAN : [p EXCEPT !.finalLap = x] \in Participant
      BY Zenon DEF Participant
    <3> QED BY <3>1, <3>2
  <2>4. ASSUME NEW d \in Driver
        PROVE  Kept(driver[d], new(onLap)[d]) /\ new(onLap)[d] \in Participant
    <3>1. (d \in onLap) \in BOOLEAN /\ driver[d] \in Participant
      BY <1>1
    <3> QED BY <2>3, <3>1, Zenon
  <2> HIDE DEF new, r
  <2>5. Underlying(r) = Underlying(room)
    BY <2>2 DEF Underlying
  <2> QED BY <1>3, <2>1, <2>2, <2>4, <2>5
<1> QED BY <1>4, <1>5, <1>6, <1>7, <1>8 DEF Time, Tick

-----------------------------------------------------------------------------
(* Together *)

LEMMA InitFiled == Init => Filed(room, driver, archive)
<1> SUFFICES ASSUME Init PROVE Filed(room, driver, archive)
  OBVIOUS
<1>1. /\ room.phase = "lobby" /\ room.stage = NoStage /\ room.stages = 0
      /\ \A s \in Stage : archive[s].phase = "none"
  BY DEF Init, NoResult
<1>2. Numbering(room, archive)
  BY <1>1 DEF Numbering, NoStage
<1>3. Unique(archive)
  BY <1>1 DEF Unique, RaceResult
<1> QED BY <1>1, <1>2, <1>3 DEF Filed, Running, Underlying

LEMMA StepCareful ==
  ASSUME ArchiveInv, [Next]_vars
  PROVE  ArchiveInv' /\ Careful
<1>1. CASE UNCHANGED vars
  <2>1. room' = room /\ driver' = driver /\ archive' = archive
    BY <1>1 DEF vars
  <2>2. Filed(room', driver', archive')
    <3>1. Filed(room, driver, archive)
      BY DEF ArchiveInv
    <3> QED BY <2>1, <3>1
  <2> QED BY <2>1, <2>2 DEF ArchiveInv, TypeOK, Careful, Stays, Remembered
<1>2. CASE Next
  <2>1. TypeOK'
    BY <1>2, StepType DEF ArchiveInv
  <2>2. Careful
    BY <1>2, SeatsCareful, LapsCareful, SessionsCareful, ControlCareful, TimeCareful
    DEF Next
  <2> QED BY <2>1, <2>2 DEF ArchiveInv, Careful
<1> QED BY <1>1, <1>2

\* Every step keeps the history of results in order: no id is handed out that
\* has a result, and outside the lobby no race of the event is run twice
\* (archiveActiveResult, applySession, beginEvent).
THEOREM ArchiveInvariant == Spec => []ArchiveInv
<1>1. Init => ArchiveInv
  BY InitType, InitFiled DEF ArchiveInv
<1>2. ArchiveInv /\ [Next]_vars => ArchiveInv'
  BY StepCareful
<1> QED BY <1>1, <1>2, PTL DEF Spec

\* An event has one complete race result, whatever race control commands.
THEOREM RacesAreSingle == Spec => []OneRacePerEvent
<1>1. ArchiveInv => OneRacePerEvent
  BY DEF ArchiveInv, Filed, Unique, RaceResult, OneRacePerEvent
<1> QED BY <1>1, ArchiveInvariant, PTL

\* A complete race result is never lost, reopened or shortened.
THEOREM RaceResultsStay == Spec => RaceResultStays
<1>1. ArchiveInv /\ [Next]_vars =>
        [\A s \in Stage :
           archive[s].phase = "race" /\ archive[s].complete =>
             /\ archive'[s].phase = "race" /\ archive'[s].complete
             /\ \A d \in Driver : archive[s].entrant[d] # "absent"
                                => archive'[s].entrant[d] # "absent"]_vars
  BY StepCareful DEF Careful, Stays, RaceResult
<1> QED BY <1>1, ArchiveInvariant, PTL DEF Spec, RaceResultStays

\* A driver who drove a lap and is put out, pruned or leaves for good is in
\* the result of the stage that runs.
THEOREM DepartedAreKept == Spec => DepartedKeepResult
<1>1. ArchiveInv /\ [Next]_vars =>
        [\A d \in Driver :
           /\ driver[d].seat = "held" /\ driver'[d].seat = "gone"
           /\ room.stage # NoStage /\ driver[d].laps > 0
           => archive'[room.stage].entrant[d] # "absent"]_vars
  BY StepCareful DEF Careful, Remembered
<1> QED BY <1>1, ArchiveInvariant, PTL DEF Spec, DepartedKeepResult

-----------------------------------------------------------------------------
(* A finished race has a stage, unless race control commands the phase     *)
(* "finished": that command is refused after the stage id was dropped.     *)

Staged(r) == Underlying(r) \in {"race", "finished"} => r.stage # NoStage

LEMMA RaceRoomStaged ==
  ASSUME NEW r \in Room, NEW ds, Staged(r)
  PROVE  Staged(RaceRoom(r, ds))
<1>1. [r EXCEPT !.phase = "finished"].stage = r.stage
  BY Zenon DEF Room
<1>2. RaceDone(r, ds) => Underlying(r) = "race"
  BY DEF RaceDone, Underlying
<1> QED BY <1>1, <1>2 DEF RaceRoom, Staged

LEMMA SettledStaged ==
  ASSUME NEW r \in Room, NEW ds, Staged(r)
  PROVE  Staged(SettledRoom(r, ds))
<1>1. Staged(TimedRoom(r, ds))
  <2>1. LET s == [r EXCEPT !.clock = "none"]
        IN  s.stage = r.stage /\ s.phase = r.phase /\ s.before = r.before
    BY Zenon DEF Room
  <2>2. LET s == [r EXCEPT !.clock = "none", !.flag = "green"]
        IN  s.stage = r.stage /\ s.phase = r.phase /\ s.before = r.before
    BY Zenon DEF Room
  <2>3. [r EXCEPT !.phase = "grid", !.stage = NoStage, !.flag = "green",
                  !.clock = "none", !.expired = FALSE, !.session = 0].phase = "grid"
    BY Zenon DEF Room
  <2> QED BY <2>1, <2>2, <2>3 DEF TimedRoom, Staged, Underlying
<1> QED BY <1>1, TimedRoomType, RaceRoomStaged DEF SettledRoom

LEMMA StepStaged ==
  ASSUME "finished" \notin SessionInput, TypeOK, Staged(room), Next
  PROVE  Staged(room')
<1>1. room \in Room
  BY DEF TypeOK
<1>2. NoClock(room) \in Room /\ NoClock(room).stages = room.stages
  BY <1>1, NoClockRoom
<1>3. ASSUME Seats
      PROVE  Staged(room')
  <2>1. PICK d \in Driver : Login(d) \/ Resume(d) \/ Disconnect(d) \/ Release(d) \/ SetReady(d)
    BY <1>3 DEF Seats
  <2>2. CASE Login(d) \/ SetReady(d)
    BY <2>2 DEF Login, SetReady
  <2>3. ASSUME Resume(d)
        PROVE  \E ds : room' = RaceRoom(room, ds)
    BY <2>3 DEF Resume
  <2>4. ASSUME Disconnect(d) \/ Release(d)
        PROVE  \E ds : room' = SettledRoom(room, ds)
    BY <2>4 DEF Disconnect, Release, Settle
  <2> QED BY <1>1, <2>1, <2>2, <2>3, <2>4, RaceRoomStaged, SettledStaged
<1>4. ASSUME Laps
      PROVE  Staged(room')
  <2>1. [room EXCEPT !.flag = "chequered"] \in Room
    BY <1>1, Zenon DEF Room
  <2>2. LET s == [room EXCEPT !.flag = "chequered"]
        IN  s.stage = room.stage /\ s.phase = room.phase /\ s.before = room.before
    BY <1>1, Zenon DEF Room
  <2>3. Staged([room EXCEPT !.flag = "chequered"])
    BY <2>2 DEF Staged, Underlying
  <2>4. ASSUME NEW d \in Driver, NEW e \in LapEvent, NEW recovered \in BOOLEAN,
               CompleteLap(d, e, recovered)
        PROVE  Staged(room')
    <3> DEFINE q == Credited(Prepared(driver[d]), e)
               done == Finishes(q, e)
               ds == [driver EXCEPT ![d] =
                        IF done THEN [q EXCEPT !.status = "finished", !.stopped = TRUE] ELSE q]
               r == IF done THEN [room EXCEPT !.flag = "chequered"] ELSE room
    <3>1. Settle(r, ds, archive)
      BY <2>4 DEF CompleteLap
    <3> HIDE DEF ds, done
    <3>2. r \in Room /\ Staged(r)
      BY <1>1, <2>1, <2>3
    <3> HIDE DEF r
    <3> QED BY <3>1, <3>2, SettledStaged DEF Settle
  <2>5. ASSUME NEW d \in Driver, NEW e \in LapEvent, RejectLap(d, e)
        PROVE  room' = room
    BY <2>5 DEF RejectLap
  <2>7. ASSUME NEW d \in Driver, Telemetry(d)
        PROVE  room' = room
    BY <2>7 DEF Telemetry
  <2> QED BY <1>4, <2>4, <2>5, <2>7 DEF Laps
<1>5. ASSUME Sessions
      PROVE  Staged(room')
  <2>1. CASE ToLobby
    <3>1. room' = [NoClock(room) EXCEPT !.phase = "lobby", !.flag = "green",
                                        !.stage = NoStage]
      BY <2>1 DEF ToLobby
    <3>2. room'.phase = "lobby"
      BY <1>2, <3>1, Zenon DEF Room
    <3> QED BY <3>2 DEF Staged, Underlying
  <2>2. ASSUME NEW kind \in {"practice", "qualifying"}, ToTimed(kind)
        PROVE  Staged(room')
    <3>1. CASE NextSession(kind)
      <4>1. /\ room' = [Opened(room) EXCEPT !.session = Opened(room).session + 1,
                                           !.clock = "running", !.expired = FALSE]
            /\ room.phase = kind /\ room.stages < MaxStage
        BY <2>2, <3>1 DEF ToTimed, NextSession
      <4>2. Opened(room) \in Room /\ Opened(room).phase = kind
        BY <1>1, <4>1, OpenedType, OpenedRoom
      <4>3. room'.phase = kind
        BY <4>1, <4>2, Zenon DEF Room
      <4> QED BY <4>3 DEF Staged, Underlying
    <3>2. CASE ~NextSession(kind)
      <4>1. /\ room' = [Opened(NoClock(room)) EXCEPT
                          !.phase = kind, !.session = 1, !.clock = "running",
                          !.sessions = IF kind = "practice" THEN PracticeSessions
                                       ELSE QualifyingSessions]
            /\ room.stages < MaxStage
        BY <2>2, <3>2 DEF ToTimed
      <4>2. Opened(NoClock(room)) \in Room
        BY <1>2, <4>1, OpenedType
      <4>3. room'.phase = kind
        BY <4>1, <4>2, Zenon DEF Room
      <4> QED BY <4>3 DEF Staged, Underlying
    <3> QED BY <3>1, <3>2
  <2>3. CASE ToGrid
    <3>1. room' = [room EXCEPT !.phase = "grid", !.stage = NoStage,
                               !.flag = "green", !.clock = "none", !.expired = FALSE]
      BY <2>3 DEF ToGrid
    <3>2. room'.phase = "grid"
      BY <1>1, <3>1, Zenon DEF Room
    <3> QED BY <3>2 DEF Staged, Underlying
  <2>4. ASSUME NEW phase, ToStart(phase)
        PROVE  Staged(room')
    <3>1. phase \in {"outLap", "formationLap", "countdown"}
      BY <2>4 DEF ToStart
    <3>2. \/ room' = [room EXCEPT !.phase = phase, !.flag = "green", !.stage = NoStage]
          \/ room' = [NoClock(room) EXCEPT !.phase = phase, !.flag = "green",
                                           !.stage = NoStage]
      BY <2>4 DEF ToStart
    <3>3. room'.phase = phase
      <4>1. CASE room' = [room EXCEPT !.phase = phase, !.flag = "green", !.stage = NoStage]
        BY <1>1, <4>1, Zenon DEF Room
      <4>2. CASE room' = [NoClock(room) EXCEPT !.phase = phase, !.flag = "green",
                                               !.stage = NoStage]
        BY <1>2, <4>2, Zenon DEF Room
      <4> QED BY <3>2, <4>1, <4>2
    <3> QED BY <3>1, <3>3 DEF Staged, Underlying
  <2>5. ASSUME NEW force, Countdown(force)
        PROVE  Staged(room')
    BY <2>4, <2>5 DEF Countdown
  <2>6. CASE ToRace
    <3>1. /\ room.stages < MaxStage
          /\ \/ room' = [Opened(room) EXCEPT !.phase = "race"]
             \/ room' = [Opened(NoClock(room)) EXCEPT !.phase = "race"]
      BY <2>6 DEF ToRace
    <3>2. Opened(room) \in Room /\ Opened(NoClock(room)) \in Room
      BY <1>1, <1>2, <3>1, OpenedType
    <3>3. \A r \in Room : [r EXCEPT !.phase = "race"].stage = r.stage
      BY Zenon DEF Room
    <3>4. Opened(room).stage = room.stages + 1 /\ Opened(NoClock(room)).stage = room.stages + 1
      BY <1>1, <1>2, OpenedRoom
    <3>5. room'.stage = room.stages + 1
      BY <3>1, <3>2, <3>3, <3>4
    <3>6. room.stages \in Nat
      BY <1>1, BoundAssumption DEF Room
    <3> QED BY <3>5, <3>6 DEF Staged, NoStage
  <2>7. ~RefuseFinish
    BY DEF RefuseFinish
  <2>8. CASE BeginEvent
    <3>1. room' = [NoClock(room) EXCEPT !.phase = "lobby", !.flag = "green",
                                        !.stage = NoStage, !.event = @ + 1]
      BY <2>8 DEF BeginEvent
    <3>2. room'.phase = "lobby"
      BY <1>2, <3>1, Zenon DEF Room
    <3> QED BY <3>2 DEF Staged, Underlying
  <2> QED BY <1>5, <2>1, <2>2, <2>3, <2>4, <2>5, <2>6, <2>7, <2>8 DEF Sessions
<1>6. ASSUME Control
      PROVE  Staged(room')
  <2>1. CASE RedFlag
    <3>1. /\ room' = [room EXCEPT !.before = room.phase, !.phase = "suspended", !.flag = "red"]
          /\ room.phase # "suspended"
      BY <2>1 DEF RedFlag
    <3>2. /\ room'.stage = room.stage
          /\ room'.phase = "suspended" /\ room'.before = room.phase
      BY <1>1, <3>1, Zenon DEF Room
    <3> QED BY <3>1, <3>2 DEF Staged, Underlying
  <2>2. CASE GreenFlag
    <3>1. /\ room' = [room EXCEPT !.phase = room.before, !.flag = "green"]
          /\ room.phase = "suspended"
      BY <2>2 DEF GreenFlag
    <3>2. room'.stage = room.stage /\ room'.phase = room.before
      BY <1>1, <3>1, Zenon DEF Room
    <3>3. room.before # "suspended"
      BY <1>1 DEF Room
    <3> QED BY <3>1, <3>2, <3>3 DEF Staged, Underlying
  <2> QED BY <1>6, <2>1, <2>2 DEF Control, Classify, Penalise, Revoke
<1>7. ASSUME Time
      PROVE  Staged(room')
  <2>1. ASSUME TickRecovery
        PROVE  \E ds : room' = SettledRoom(room, ds)
    BY <2>1 DEF TickRecovery, Settle
  <2>2. CASE TickStart
    <3>1. room' = [Opened(room) EXCEPT !.phase = "race"] /\ room.stages < MaxStage
      BY <2>2 DEF TickStart
    <3>2. Opened(room) \in Room /\ Opened(room).stage = room.stages + 1
      BY <1>1, <3>1, OpenedType, OpenedRoom
    <3>3. room'.stage = Opened(room).stage
      BY <3>1, <3>2, Zenon DEF Room
    <3>4. room.stages \in Nat
      BY <1>1, BoundAssumption DEF Room
    <3> QED BY <3>2, <3>3, <3>4 DEF Staged, NoStage
  <2>3. CASE TickExpiry
    <3> DEFINE r == [room EXCEPT !.flag = "chequered", !.expired = TRUE]
    <3>1. \E ds : room' = SettledRoom(r, ds)
      BY <2>3 DEF TickExpiry, Settle
    <3>2. r \in Room
      BY <1>1, Zenon DEF Room
    <3>3. r.stage = room.stage /\ r.phase = room.phase /\ r.before = room.before
      BY <1>1, Zenon DEF Room
    <3> HIDE DEF r
    <3>4. Staged(r)
      BY <3>3 DEF Staged, Underlying
    <3> QED BY <3>1, <3>2, <3>4, SettledStaged
  <2>4. CASE TickLobby \/ \E d \in Driver : WindowLapses(d)
    BY <2>4 DEF TickLobby, WindowLapses
  <2> QED BY <1>1, <1>7, <2>1, <2>2, <2>3, <2>4, SettledStaged DEF Time, Tick
<1> QED BY <1>3, <1>4, <1>5, <1>6, <1>7 DEF Next

\* When the race is over its classification is in the archive, complete and
\* with everybody who drove a lap, as long as the command "finished", which
\* is refused too late (applySession), is not sent.
THEOREM FinishedIsArchived ==
  ASSUME "finished" \notin SessionInput
  PROVE  Spec => []FinishedRaceIsArchived
<1>1. Init => Staged(room)
  BY DEF Init, Staged, Underlying
<1>2. TypeOK /\ Staged(room) /\ [Next]_vars => Staged(room)'
  <2>1. UNCHANGED vars /\ Staged(room) => Staged(room)'
    BY DEF vars
  <2> QED BY <2>1, StepStaged
<1>3. Spec => []Staged(room)
  BY <1>1, <1>2, TypeCorrect, PTL DEF Spec
<1>4. ArchiveInv /\ Staged(room) => FinishedRaceIsArchived
  BY DEF ArchiveInv, Filed, Running, Present, RaceResult, Staged, Underlying,
         FinishedRaceIsArchived
<1> QED BY <1>3, <1>4, ArchiveInvariant, PTL

-----------------------------------------------------------------------------
(* Whom a stage waits for.  Race control that classifies a driver does not *)
(* check whether the stage is complete (applyParticipant), so both results *)
(* are about the behaviours in which it classifies nobody.                 *)

NobodyClassified ==
  ControlInput \cap {"didNotFinish", "disqualified", "penalty"} = {}

\* A chequered race is only open for somebody.
Open(r, ds) ==
  r.phase = "race" /\ r.flag = "chequered" =>
    \E d \in Held(ds) : Awaited(ds[d]) \/ ds[d].recovery = "lapsed"

\* A driver of a timed session, who brings the lap it owes.
Bringing(p) ==
  /\ p.status \notin Terminal
  /\ p.finalLap => p.connected \/ p.recovery # "none"

Timed == {"practice", "qualifying"}

Owed(r, ds) ==
  Underlying(r) \in Timed => \A d \in Held(ds) : Bringing(ds[d])

WaitInv == TypeOK /\ Open(room, driver) /\ Owed(room, driver)

\* Checked: whoever the race is still open for may cross the line.
LEMMA RaceRoomOpen ==
  ASSUME NEW r \in Room, NEW ds
  PROVE  /\ RaceRoom(r, ds).phase = "race" /\ RaceRoom(r, ds).flag = "chequered"
              => \E d \in Held(ds) : Awaited(ds[d])
         /\ Underlying(RaceRoom(r, ds)) \in Timed => RaceRoom(r, ds) = r
<1>1. [r EXCEPT !.phase = "finished"].phase = "finished"
  BY Zenon DEF Room
<1> QED BY <1>1 DEF RaceRoom, RaceDone, Underlying, Timed

LEMMA TimedRoomPhase ==
  ASSUME NEW r \in Room, NEW ds
  PROVE  /\ \/ TimedRoom(r, ds).phase = r.phase /\ TimedRoom(r, ds).before = r.before
            \/ TimedRoom(r, ds).phase = "grid"
         /\ r.phase = "race" => TimedRoom(r, ds) = r /\ ~TimedDone(r, ds)
         /\ TimedRoom(r, ds).phase = "race" => r.phase = "race"
<1>1. LET s == [r EXCEPT !.clock = "none"]
      IN  s.phase = r.phase /\ s.before = r.before
  BY Zenon DEF Room
<1>2. LET s == [r EXCEPT !.clock = "none", !.flag = "green"]
      IN  s.phase = r.phase /\ s.before = r.before
  BY Zenon DEF Room
<1>3. [r EXCEPT !.phase = "grid", !.stage = NoStage, !.flag = "green",
                !.clock = "none", !.expired = FALSE, !.session = 0].phase = "grid"
  BY Zenon DEF Room
<1>4. r.phase = "race" => ~TimedDone(r, ds)
  BY DEF TimedDone
<1> QED BY <1>1, <1>2, <1>3, <1>4 DEF TimedRoom

LEMMA TimedBringing ==
  ASSUME NEW r, NEW ds \in Drivers, NEW cut, NEW d \in Driver, Bringing(ds[d])
  PROVE  Bringing(TimedDrivers(r, ds, cut)[d])
<1> DEFINE q == [ds[d] EXCEPT !.status = Standing(ds[d]), !.finalLap = FALSE,
                              !.eligible = @ /\ d \notin cut]
<1>1. ds[d] \in Participant
  BY DEF Drivers
<1>2. q.status = Standing(ds[d]) /\ q.finalLap = FALSE
  BY <1>1, Zenon DEF Participant
<1>3. Bringing(q)
  BY <1>2 DEF Bringing, Standing, Terminal
<1>4. TimedDrivers(r, ds, cut)[d] \in {ds[d], q}
  <2> HIDE DEF q
  <2> QED BY DEF TimedDrivers, q
<1> HIDE DEF q
<1> QED BY <1>3, <1>4

LEMMA SettledWait ==
  ASSUME NEW r \in Room, NEW ds \in Drivers, NEW cut, Owed(r, ds)
  PROVE  /\ Owed(SettledRoom(r, ds), TimedDrivers(r, ds, cut))
         /\ SettledRoom(r, ds).phase = "race" /\ SettledRoom(r, ds).flag = "chequered"
              => \E d \in Held(TimedDrivers(r, ds, cut)) :
                   Awaited(TimedDrivers(r, ds, cut)[d])
<1> DEFINE t == TimedRoom(r, ds)
           es == TimedDrivers(r, ds, cut)
           s == SettledRoom(r, ds)
<1>1. t \in Room
  BY TimedRoomType
<1>2. s = RaceRoom(t, ds)
  BY DEF SettledRoom
<1>3. \A d \in Driver : es[d].seat = ds[d].seat
  BY TimedKept DEF Kept, Alike
<1>4. Underlying(s) \in Timed => Underlying(r) \in Timed
  <2>1. Underlying(s) \in Timed => s = t
    BY <1>1, <1>2, RaceRoomOpen
  <2>2. Underlying(t) \in Timed => Underlying(r) \in Timed
    BY TimedRoomPhase DEF Underlying, Timed
  <2> QED BY <2>1, <2>2
<1>5. Owed(s, es)
  <2> SUFFICES ASSUME Underlying(s) \in Timed, NEW d \in Held(es)
               PROVE  Bringing(es[d])
    BY DEF Owed
  <2>1. d \in Driver /\ d \in Held(ds)
    BY <1>3 DEF Held
  <2> QED BY <1>4, <2>1, TimedBringing DEF Owed
<1>6. ASSUME s.phase = "race", s.flag = "chequered"
      PROVE  \E d \in Held(es) : Awaited(es[d])
  <2>1. s.phase = "race" => t.phase = "race"
    <3>1. [t EXCEPT !.phase = "finished"].phase = "finished"
      BY <1>1, Zenon DEF Room
    <3> HIDE DEF s, t
    <3> QED BY <1>2, <3>1 DEF RaceRoom
  <2>2. t = r /\ ~TimedDone(r, ds)
    BY <1>6, <2>1, TimedRoomPhase
  <2>3. es = ds
    BY <2>2 DEF TimedDrivers
  <2>4. \E d \in Held(ds) : Awaited(ds[d])
    BY <1>1, <1>2, <1>6, RaceRoomOpen
  <2> QED BY <2>3, <2>4
<1> QED BY <1>5, <1>6

LEMMA SettleWait ==
  ASSUME NEW r \in Room, NEW ds \in Drivers, Owed(r, ds), Settle(r, ds, archive)
  PROVE  Open(room', driver') /\ Owed(room', driver')
<1>1. PICK cut : room' = SettledRoom(r, ds) /\ driver' = TimedDrivers(r, ds, cut)
  BY DEF Settle
<1> QED BY <1>1, SettledWait DEF Open

\* One driver's record changes, the room does not.
LEMMA OwedUpdate ==
  ASSUME NEW r, NEW ds \in Drivers, NEW d \in Driver, NEW q, Owed(r, ds),
         Underlying(r) \in Timed /\ (ds[d].seat = "held" => Bringing(ds[d]))
           /\ q.seat = "held" => Bringing(q)
  PROVE  Owed(r, [ds EXCEPT ![d] = q])
<1> DEFINE es == [ds EXCEPT ![d] = q]
<1>1. es[d] = q /\ \A c \in Driver : c # d => es[c] = ds[c]
  BY DEF Drivers
<1> HIDE DEF es
<1> SUFFICES ASSUME Underlying(r) \in Timed, NEW c \in Held(es)
             PROVE  Bringing(es[c])
  BY DEF Owed, es
<1>2. c \in Driver /\ es[c].seat = "held"
  BY DEF Held
<1>3. \A b \in Driver : ds[b].seat = "held" => Bringing(ds[b])
  BY DEF Owed, Held
<1>4. CASE c = d
  BY <1>1, <1>2, <1>3, <1>4
<1>5. CASE c # d
  BY <1>1, <1>2, <1>3, <1>5
<1> QED BY <1>4, <1>5

Waiting(p) == p.seat = "held" /\ (Awaited(p) \/ p.recovery = "lapsed")

LEMMA OpenUpdate ==
  ASSUME NEW r, NEW ds \in Drivers, NEW d \in Driver, NEW q, Open(r, ds),
         r.phase = "race" /\ Waiting(ds[d]) => Waiting(q)
  PROVE  Open(r, [ds EXCEPT ![d] = q])
<1> DEFINE es == [ds EXCEPT ![d] = q]
<1>1. es[d] = q /\ \A c \in Driver : c # d => es[c] = ds[c]
  BY DEF Drivers
<1> HIDE DEF es
<1> SUFFICES ASSUME r.phase = "race", r.flag = "chequered"
             PROVE  \E c \in Driver : Waiting(es[c])
  BY DEF Open, Held, Waiting, es
<1>2. PICK c \in Driver : Waiting(ds[c])
  BY DEF Open, Held, Waiting
<1>3. Waiting(es[c])
  BY <1>1, <1>2
<1> QED BY <1>3

\* What neither of them reads: the same driver, but for its lap record.
LEMMA PreparedWait ==
  ASSUME room \in Room, NEW p \in Participant
  PROVE  /\ Prepared(p) \in Participant
         /\ Prepared(p).seat = p.seat
         /\ Prepared(p).status = p.status
         /\ Prepared(p).connected = p.connected
         /\ Prepared(p).recovery = p.recovery
         /\ Prepared(p).finalLap = p.finalLap
<1>1. LET q == [p EXCEPT !.lapStage = room.stage, !.lastLap = 0, !.lastValid = FALSE]
      IN  /\ q.seat = p.seat /\ q.status = p.status /\ q.connected = p.connected
          /\ q.recovery = p.recovery /\ q.finalLap = p.finalLap
  BY Zenon DEF Participant
<1> QED BY <1>1, PreparedType DEF Prepared

LEMMA CreditedWait ==
  ASSUME room \in Room, NEW p \in Participant, NEW e \in LapEvent
  PROVE  /\ Credited(p, e).seat = p.seat
         /\ Credited(p, e).status = p.status
         /\ Credited(p, e).finalLap = FALSE
<1> DEFINE new == [event |-> e, stage |-> room.stage]
           noted == [p EXCEPT !.lastLap = e.lap, !.lastValid = e.valid,
                       !.receipts = @ \cup {new}, !.recovery = "none", !.finalLap = FALSE]
<1>1. noted.seat = p.seat /\ noted.status = p.status /\ noted.finalLap = FALSE
  BY Zenon DEF Participant
<1>2. noted \in Participant
  <2>1. e.lap \in Nat /\ e.valid \in BOOLEAN
    BY LapEventAssumption
  <2>2. p.receipts \cup {new} \in SUBSET Receipt
    BY DEF Participant, Receipt, Room
  <2> HIDE DEF new
  <2> QED BY <2>1, <2>2, Zenon DEF Participant
<1>3. LET n == [noted EXCEPT !.laps = @ + 1]
      IN  n.seat = noted.seat /\ n.status = noted.status /\ n.finalLap = noted.finalLap
  <2> HIDE DEF noted
  <2> QED BY <1>2 DEF Participant
<1>4. Credited(p, e) = IF e.valid THEN [noted EXCEPT !.laps = @ + 1] ELSE noted
  BY DEF Credited
<1> HIDE DEF noted
<1> QED BY <1>1, <1>3, <1>4

LEMMA TimedAway ==
  ASSUME NEW r, NEW ds \in Drivers, NEW cut, NEW d \in Driver
  PROVE  /\ TimedDrivers(r, ds, cut)[d].connected = ds[d].connected
         /\ TimedDrivers(r, ds, cut)[d].recovery = ds[d].recovery
<1> DEFINE q == [ds[d] EXCEPT !.status = Standing(ds[d]), !.finalLap = FALSE,
                              !.eligible = @ /\ d \notin cut]
<1>1. q.connected = ds[d].connected /\ q.recovery = ds[d].recovery
  BY Zenon DEF Drivers, Participant
<1>2. TimedDrivers(r, ds, cut)[d] \in {ds[d], q}
  <2> HIDE DEF q
  <2> QED BY DEF TimedDrivers, q
<1> HIDE DEF q
<1> QED BY <1>1, <1>2

LEMMA SeatsWait ==
  ASSUME WaitInv, Seats
  PROVE  Open(room', driver') /\ Owed(room', driver')
<1>1. PICK d \in Driver : Login(d) \/ Resume(d) \/ Disconnect(d) \/ Release(d) \/ SetReady(d)
  BY DEF Seats
<1>2. /\ room \in Room /\ driver \in Drivers /\ driver[d] \in Participant
      /\ TypeOK /\ Open(room, driver) /\ Owed(room, driver)
  BY DEF WaitInv, TypeOK, Drivers
<1>3. CASE Login(d)
  <2> DEFINE q == [FreeSeat EXCEPT !.seat = "held", !.status = "active", !.connected = TRUE]
  <2>1. Bringing(q)
    BY DEF Bringing, FreeSeat, Terminal
  <2>2. driver' = [driver EXCEPT ![d] = q] /\ room' = room /\ ~Waiting(driver[d])
    BY <1>3 DEF Login, Waiting
  <2> HIDE DEF q
  <2> QED BY <1>2, <2>1, <2>2, OwedUpdate, OpenUpdate
<1>4. CASE Resume(d)
  <2> DEFINE late == /\ room.flag = "chequered"
                     /\ room.phase \in {"race", "finished"}
                     /\ driver[d].recovery # "open"
             seat == [driver[d] EXCEPT !.connected = TRUE,
                        !.status = IF late THEN "didNotFinish" ELSE "active",
                        !.stopped = @ \/ late]
             back == [driver EXCEPT ![d].connected = TRUE,
                        ![d].status = IF late THEN "didNotFinish" ELSE "active",
                        ![d].stopped = @ \/ late]
  <2>1. Underlying(room) \in Timed => Bringing(seat)
    <3>1. seat.connected = TRUE /\ seat.status = IF late THEN "didNotFinish" ELSE "active"
      BY <1>2, Zenon DEF Participant
    <3>2. Underlying(room) \in Timed => ~late
      BY DEF Underlying, Timed
    <3> HIDE DEF seat, late
    <3> QED BY <3>1, <3>2 DEF Bringing, Terminal
  <2>2. back = [driver EXCEPT ![d] = seat]
    BY <1>2 DEF Drivers
  <2>3. room' = RaceRoom(room, back) /\ driver' = back
    BY <1>4 DEF Resume
  <2> HIDE DEF seat, back
  <2>4. Owed(room, back)
    BY <1>2, <2>1, <2>2, OwedUpdate
  <2>5. Owed(room', back)
    BY <1>2, <2>3, <2>4, RaceRoomOpen DEF Owed
  <2> QED BY <1>2, <2>3, <2>5, RaceRoomOpen DEF Open
<1>5. CASE Disconnect(d)
  <2> DEFINE status == IF driver[d].status \in Terminal
                       THEN driver[d].status ELSE "disconnected"
             recoverable == /\ RecoveryEnabled
                            /\ status = "disconnected"
                            /\ (IF room.phase = "suspended" THEN room.before
                                ELSE room.phase) \in ResultPhases
             seat == [driver[d] EXCEPT !.connected = FALSE, !.status = status,
                        !.recovery = IF recoverable THEN "open" ELSE "none",
                        !.finalLap = @ /\ recoverable]
             left == [driver EXCEPT ![d].connected = FALSE, ![d].status = status,
                        ![d].recovery = IF recoverable THEN "open" ELSE "none",
                        ![d].finalLap = @ /\ recoverable]
  <2>1. left = [driver EXCEPT ![d] = seat]
    <3> HIDE DEF status, recoverable
    <3> QED BY <1>2 DEF Drivers
  <2>2. Settle(room, left, archive) /\ driver[d].seat = "held"
    BY <1>5 DEF Disconnect
  <2>3. seat \in Participant
    <3>1. status \in Status
      BY <1>2, StatusNames DEF Participant
    <3>2. /\ (driver[d].finalLap /\ recoverable) \in BOOLEAN
          /\ (IF recoverable THEN "open" ELSE "none") \in {"none", "open", "lapsed"}
      OBVIOUS
    <3> HIDE DEF status, recoverable
    <3> QED BY <1>2, <3>1, <3>2, Zenon DEF Participant
  <2>4. Bringing(driver[d]) => Bringing(seat)
    <3>1. /\ seat.status = status
          /\ seat.recovery = IF recoverable THEN "open" ELSE "none"
          /\ seat.finalLap = (driver[d].finalLap /\ recoverable)
      <4> HIDE DEF status, recoverable
      <4> QED BY <1>2, Zenon DEF Participant
    <3>2. Bringing(driver[d]) => status \notin Terminal
      BY DEF Bringing, Terminal
    <3> HIDE DEF status, recoverable, seat
    <3> QED BY <3>1, <3>2 DEF Bringing
  <2> HIDE DEF seat, left
  <2>5. left \in Drivers /\ Owed(room, left)
    BY <1>2, <2>1, <2>2, <2>3, <2>4, OwedUpdate DEF Drivers
  <2> QED BY <1>2, <2>2, <2>5, SettleWait
<1>6. CASE Release(d)
  <2> DEFINE racing == room.phase = "race"
             seat == [driver[d] EXCEPT !.connected = FALSE,
                        !.status = IF @ \in Terminal THEN @
                                   ELSE IF racing THEN "didNotFinish" ELSE "disconnected",
                        !.stopped = @ \/ racing,
                        !.recovery = "none",
                        !.finalLap = FALSE]
             out == [driver EXCEPT ![d] = seat]
  <2>1. PICK cut :
          /\ room' = SettledRoom(room, out)
          /\ driver' = [TimedDrivers(room, out, cut) EXCEPT ![d] = GoneSeat]
    BY <1>6 DEF Release
  <2>2. driver[d].seat = "held"
    BY <1>6 DEF Release
  <2>3. seat \in Participant
    <3>1. (IF driver[d].status \in Terminal THEN driver[d].status
           ELSE IF racing THEN "didNotFinish" ELSE "disconnected") \in Status
      BY <1>2, StatusNames DEF Participant
    <3>2. (driver[d].stopped \/ racing) \in BOOLEAN
      OBVIOUS
    <3> HIDE DEF racing
    <3> QED BY <1>2, <3>1, <3>2, Zenon DEF Participant
  <2>4. /\ seat.connected = FALSE /\ seat.recovery = "none" /\ seat.finalLap = FALSE
        /\ seat.status = IF driver[d].status \in Terminal THEN driver[d].status
                         ELSE IF racing THEN "didNotFinish" ELSE "disconnected"
    <3> HIDE DEF racing
    <3> QED BY <1>2, Zenon DEF Participant
  <2>5. Underlying(room) \in Timed => ~racing
    BY DEF Underlying, Timed
  <2> HIDE DEF seat, racing
  <2>6. Underlying(room) \in Timed /\ Bringing(driver[d]) => Bringing(seat)
    BY <2>4, <2>5 DEF Bringing, Terminal
  <2>7. /\ out \in Drivers /\ Owed(room, out)
        /\ out[d].connected = FALSE /\ out[d].recovery = "none"
    BY <1>2, <2>2, <2>3, <2>4, <2>6, OwedUpdate DEF Drivers
  <2> DEFINE ds == TimedDrivers(room, out, cut)
  <2> HIDE DEF out
  <2>8. /\ ds \in Drivers /\ Owed(room', ds)
        /\ room'.phase = "race" /\ room'.flag = "chequered" => \E c \in Held(ds) : Awaited(ds[c])
        /\ ds[d].connected = FALSE /\ ds[d].recovery = "none"
    BY <1>2, <2>1, <2>7, TimedDriversType, SettledWait, TimedAway
  <2> HIDE DEF ds
  <2>9. driver' = [ds EXCEPT ![d] = GoneSeat] /\ GoneSeat.seat = "gone"
    BY <2>1 DEF ds, GoneSeat, FreeSeat
  <2>10. Owed(room', driver')
    BY <2>8, <2>9, OwedUpdate
  <2>11. ~Waiting(ds[d])
    BY <2>8 DEF Waiting, Awaited
  <2>12. Open(room', ds)
    BY <2>8 DEF Open
  <2>13. Open(room', driver')
    BY <2>8, <2>9, <2>11, <2>12, OpenUpdate
  <2> QED BY <2>10, <2>13
<1>7. CASE SetReady(d)
  <2> DEFINE q == [driver[d] EXCEPT !.status = "active"]
  <2>1. driver' = [driver EXCEPT ![d] = q] /\ room' = room
          /\ room.phase # "race" /\ driver[d].connected
    BY <1>2, <1>7 DEF SetReady, Drivers
  <2>2. q.status = "active" /\ q.connected = driver[d].connected
    BY <1>2, Zenon DEF Participant
  <2> HIDE DEF q
  <2>3. Bringing(q)
    BY <2>1, <2>2 DEF Bringing, Terminal
  <2> QED BY <1>2, <2>1, <2>3, OwedUpdate, OpenUpdate
<1> QED BY <1>1, <1>3, <1>4, <1>5, <1>6, <1>7

LEMMA LapsWait ==
  ASSUME WaitInv, Laps
  PROVE  Open(room', driver') /\ Owed(room', driver')
<1>1. /\ room \in Room /\ driver \in Drivers /\ \A d \in Driver : driver[d] \in Participant
      /\ Open(room, driver) /\ Owed(room, driver)
  BY DEF WaitInv, TypeOK, Drivers
<1>2. ASSUME NEW d \in Driver, NEW q, driver' = [driver EXCEPT ![d] = q], room' = room,
             driver[d].seat = "held", q.seat = "held",
             q.connected = driver[d].connected, q.recovery = driver[d].recovery,
             q.finalLap = driver[d].finalLap,
             \/ q.status = driver[d].status
             \/ q.status = "active" /\ driver[d].status \notin Terminal
      PROVE  Open(room', driver') /\ Owed(room', driver')
  <2>1. Bringing(driver[d]) => Bringing(q)
    BY <1>2 DEF Bringing, Terminal
  <2>2. Waiting(driver[d]) => Waiting(q)
    BY <1>2 DEF Waiting, Awaited, Terminal
  <2> QED BY <1>1, <1>2, <2>1, <2>2, OwedUpdate, OpenUpdate
<1>3. ASSUME NEW d \in Driver, Telemetry(d)
      PROVE  Open(room', driver') /\ Owed(room', driver')
  <2> DEFINE p == Prepared(driver[d])
             active == [p EXCEPT !.status = "active"]
             q == IF p.status \in Terminal THEN p ELSE active
  <2>1. driver' = [driver EXCEPT ![d] = q] /\ room' = room /\ driver[d].seat = "held"
    BY <1>3 DEF Telemetry
  <2>2. /\ p \in Participant /\ p.seat = driver[d].seat /\ p.status = driver[d].status
        /\ p.connected = driver[d].connected /\ p.recovery = driver[d].recovery
        /\ p.finalLap = driver[d].finalLap
    BY <1>1, PreparedWait
  <2> HIDE DEF p
  <2>3. /\ active.seat = p.seat /\ active.status = "active"
        /\ active.connected = p.connected /\ active.recovery = p.recovery
        /\ active.finalLap = p.finalLap
    BY <2>2, Zenon DEF Participant
  <2> HIDE DEF active
  <2>4. CASE p.status \in Terminal
    <3>1. q = p
      BY <2>4
    <3> QED BY <1>2, <2>1, <2>2, <3>1
  <2>5. CASE p.status \notin Terminal
    <3>1. q = active
      BY <2>5
    <3> QED BY <1>2, <2>1, <2>2, <2>3, <2>5, <3>1
  <2> QED BY <2>4, <2>5
<1>4. ASSUME NEW d \in Driver, NEW e \in LapEvent, RejectLap(d, e)
      PROVE  Open(room', driver') /\ Owed(room', driver')
  <2>1. driver' = [driver EXCEPT ![d] = Prepared(driver[d])] /\ room' = room
          /\ driver[d].seat = "held"
    BY <1>4 DEF RejectLap
  <2> DEFINE p == Prepared(driver[d])
  <2>2. /\ p.seat = driver[d].seat /\ p.status = driver[d].status
        /\ p.connected = driver[d].connected /\ p.recovery = driver[d].recovery
        /\ p.finalLap = driver[d].finalLap
    BY <1>1, PreparedWait
  <2>3. driver' = [driver EXCEPT ![d] = p]
    BY <2>1
  <2> HIDE DEF p
  <2> QED BY <1>2, <2>1, <2>2, <2>3
<1>5. ASSUME NEW d \in Driver, NEW e \in LapEvent, NEW recovered \in BOOLEAN,
             CompleteLap(d, e, recovered)
      PROVE  Open(room', driver') /\ Owed(room', driver')
  <2> DEFINE p == Prepared(driver[d])
             q == Credited(p, e)
             done == Finishes(q, e)
             finished == [q EXCEPT !.status = "finished", !.stopped = TRUE]
             x == IF done THEN finished ELSE q
             r == IF done THEN [room EXCEPT !.flag = "chequered"] ELSE room
             ds == [driver EXCEPT ![d] = x]
  <2>1. driver[d].seat = "held" /\ Settle(r, ds, archive)
          /\ driver[d].status \notin Terminal
    BY <1>5 DEF CompleteLap, LapAdmitted
  <2>2. p \in Participant /\ p.status = driver[d].status
    BY <1>1, PreparedWait
  <2> HIDE DEF p
  <2>3. q \in Participant /\ q.status = p.status /\ q.finalLap = FALSE
    BY <1>1, <2>2, CreditedType, CreditedWait
  <2>4. done => Underlying(room) \notin Timed
    BY DEF Finishes, Underlying, Timed
  <2> HIDE DEF q, done
  <2>5. finished \in Participant
    BY <2>3, StatusNames, Zenon DEF Participant
  <2>6. x \in Participant
    <3> HIDE DEF finished
    <3> QED BY <2>3, <2>5
  <2>7. Underlying(room) \in Timed => Bringing(x)
    <3>1. Underlying(room) \in Timed => x = q
      BY <2>4
    <3>2. Bringing(q)
      BY <2>1, <2>2, <2>3 DEF Bringing
    <3> HIDE DEF x
    <3> QED BY <3>1, <3>2
  <2>8. r \in Room /\ Underlying(r) = Underlying(room)
    <3>1. LET s == [room EXCEPT !.flag = "chequered"]
          IN  s.phase = room.phase /\ s.before = room.before
      BY <1>1, Zenon DEF Room
    <3>2. [room EXCEPT !.flag = "chequered"] \in Room
      BY <1>1, Zenon DEF Room
    <3> QED BY <1>1, <3>1, <3>2 DEF Underlying
  <2> HIDE DEF x, r
  <2>9. ds \in Drivers
    BY <1>1, <2>6 DEF Drivers
  <2>10. Owed(room, ds)
    BY <1>1, <2>7, OwedUpdate
  <2>11. Owed(r, ds)
    BY <2>8, <2>10 DEF Owed
  <2> QED BY <2>1, <2>8, <2>9, <2>11, SettleWait
<1> QED BY <1>3, <1>4, <1>5 DEF Laps

\* A driver whose record is reset owes nothing.
LEMMA ResetWait ==
  ASSUME NEW p \in Participant
  PROVE  Bringing(Reset(p))
<1>1. Reset(p).status = Standing(p) /\ Reset(p).finalLap = FALSE
  BY Zenon DEF Reset, Participant
<1> QED BY <1>1 DEF Bringing, Standing, Terminal

LEMMA ClearedWait ==
  ASSUME driver \in Drivers, NEW d \in Held(driver)
  PROVE  Cleared[d] \in Participant /\ Bringing(Cleared[d])
<1>1. d \in Driver /\ driver[d] \in Participant
  BY DEF Held, Drivers
<1>2. Cleared[d] = [Reset(driver[d]) EXCEPT !.dsqRecord = FALSE]
  BY <1>1 DEF Cleared, Each
<1>3. Reset(driver[d]) \in Participant /\ Bringing(Reset(driver[d]))
  BY <1>1, ResetType, ResetWait
<1>4. \A q \in Participant :
        LET u == [q EXCEPT !.dsqRecord = FALSE]
        IN  u.status = q.status /\ u.finalLap = q.finalLap
  BY Zenon DEF Participant
<1>5. Bringing(Cleared[d])
  BY <1>2, <1>3, <1>4 DEF Bringing
<1> QED BY <1>1, <1>5, ClearedType DEF Drivers

LEMMA ContinuedWait ==
  ASSUME driver \in Drivers, NEW d \in Held(driver), Bringing(driver[d])
  PROVE  Bringing(Continued[d])
<1> DEFINE reset(p) == [p EXCEPT !.status = Standing(p), !.laps = 0,
                                 !.recovery = "none", !.finalLap = FALSE]
<1>1. d \in Driver /\ driver[d] \in Participant
  BY DEF Held, Drivers
<1>2. LET q == reset(driver[d])
      IN  q.status = Standing(driver[d]) /\ q.finalLap = FALSE
  BY <1>1, Zenon DEF Participant
<1>3. Bringing(reset(driver[d]))
  BY <1>2 DEF Bringing, Standing, Terminal
<1>4. Continued[d] \in {driver[d], reset(driver[d])}
  <2> HIDE DEF reset
  <2> QED BY <1>1 DEF Continued, Each, reset
<1> HIDE DEF reset
<1> QED BY <1>3, <1>4

LEMMA SessionsWait ==
  ASSUME WaitInv, Sessions
  PROVE  Open(room', driver') /\ Owed(room', driver')
<1>1. /\ room \in Room /\ driver \in Drivers /\ \A d \in Driver : driver[d] \in Participant
      /\ Open(room, driver) /\ Owed(room, driver)
  BY DEF WaitInv, TypeOK, Drivers
<1>2. NoClock(room) \in Room /\ NoClock(room).stages = room.stages
  BY <1>1, NoClockRoom
<1>3. ASSUME room'.phase \notin Timed \cup {"suspended"},
             room'.phase # "race" \/ room'.flag = "green"
      PROVE  Open(room', driver') /\ Owed(room', driver')
  BY <1>3 DEF Open, Owed, Underlying
<1>4. ASSUME ToLobby
      PROVE  Open(room', driver') /\ Owed(room', driver')
  <2>1. room' = [NoClock(room) EXCEPT !.phase = "lobby", !.flag = "green",
                                      !.stage = NoStage]
    BY <1>4 DEF ToLobby
  <2>2. room'.phase = "lobby"
    BY <1>2, <2>1, Zenon DEF Room
  <2> QED BY <1>3, <2>2 DEF Timed
<1>5. ASSUME NEW kind \in {"practice", "qualifying"}, ToTimed(kind)
      PROVE  Open(room', driver') /\ Owed(room', driver')
  <2>1. CASE NextSession(kind)
    <3>1. /\ room' = [Opened(room) EXCEPT !.session = Opened(room).session + 1,
                                         !.clock = "running", !.expired = FALSE]
          /\ driver' = Continued /\ room.phase = kind /\ room.stages < MaxStage
      BY <1>5, <2>1 DEF ToTimed, NextSession
    <3>2. Opened(room) \in Room /\ Opened(room).phase = kind
      BY <1>1, <3>1, OpenedType, OpenedRoom
    <3>3. room'.phase = kind
      BY <3>1, <3>2, Zenon DEF Room
    <3>4. \A d \in Held(driver) : Bringing(driver[d])
      BY <1>1, <3>1 DEF Owed, Underlying, Timed
    <3>5. \A d \in Held(driver) : Bringing(Continued[d])
      BY <1>1, <3>4, ContinuedWait
    <3>6. \A d \in Driver : Continued[d].seat = "held" => driver[d].seat = "held"
      BY DEF Continued, Each, Held
    <3> QED BY <3>1, <3>3, <3>5, <3>6 DEF Open, Owed, Held
  <2>2. CASE ~NextSession(kind)
    <3> DEFINE eligible(d) == kind = "practice" \/ driver[d].connected
               new == [d \in Driver |-> [Cleared[d] EXCEPT !.eligible = eligible(d)]]
    <3>1. /\ room' = [Opened(NoClock(room)) EXCEPT
                        !.phase = kind, !.session = 1, !.clock = "running",
                        !.sessions = IF kind = "practice" THEN PracticeSessions
                                     ELSE QualifyingSessions]
          /\ driver' = Each(new) /\ room.stages < MaxStage
      BY <1>5, <2>2 DEF ToTimed
    <3>2. Opened(NoClock(room)) \in Room
      BY <1>2, <3>1, OpenedType
    <3>3. room'.phase = kind
      BY <3>1, <3>2, Zenon DEF Room
    <3> HIDE DEF eligible
    <3>5. ASSUME NEW d \in Held(driver)
          PROVE  Bringing(new[d])
      <4>1. Cleared[d] \in Participant /\ Bringing(Cleared[d]) /\ d \in Driver
        BY <1>1, ClearedWait DEF Held
      <4> DEFINE q == [Cleared[d] EXCEPT !.eligible = eligible(d)]
      <4>2. new[d] = q
        BY <4>1
      <4>3. /\ q.status = Cleared[d].status /\ q.finalLap = Cleared[d].finalLap
            /\ q.connected = Cleared[d].connected /\ q.recovery = Cleared[d].recovery
        BY <4>1, Zenon DEF Participant
      <4> HIDE DEF q, new
      <4> QED BY <4>1, <4>2, <4>3 DEF Bringing
    <3> HIDE DEF new
    <3>6. \A d \in Driver : Each(new)[d].seat = "held" => driver[d].seat = "held"
      BY DEF Each, Held
    <3>7. \A d \in Held(driver) : Each(new)[d] = new[d]
      BY DEF Each, Held
    <3>8. \A d \in Held(driver') : Bringing(driver'[d])
      BY <3>1, <3>5, <3>6, <3>7 DEF Held
    <3> QED BY <3>3, <3>8 DEF Open, Owed
  <2> QED BY <2>1, <2>2
<1>6. ASSUME ToGrid
      PROVE  Open(room', driver') /\ Owed(room', driver')
  <2>1. room' = [room EXCEPT !.phase = "grid", !.stage = NoStage,
                             !.flag = "green", !.clock = "none", !.expired = FALSE]
    BY <1>6 DEF ToGrid
  <2>2. room'.phase = "grid"
    BY <1>1, <2>1, Zenon DEF Room
  <2> QED BY <1>3, <2>2 DEF Timed
<1>7. ASSUME NEW phase, ToStart(phase)
      PROVE  Open(room', driver') /\ Owed(room', driver')
  <2>1. phase \in {"outLap", "formationLap", "countdown"}
    BY <1>7 DEF ToStart
  <2>2. \/ room' = [room EXCEPT !.phase = phase, !.flag = "green", !.stage = NoStage]
        \/ room' = [NoClock(room) EXCEPT !.phase = phase, !.flag = "green",
                                         !.stage = NoStage]
    BY <1>7 DEF ToStart
  <2>3. room'.phase = phase
    <3>1. CASE room' = [room EXCEPT !.phase = phase, !.flag = "green", !.stage = NoStage]
      BY <1>1, <3>1, Zenon DEF Room
    <3>2. CASE room' = [NoClock(room) EXCEPT !.phase = phase, !.flag = "green",
                                             !.stage = NoStage]
      BY <1>2, <3>2, Zenon DEF Room
    <3> QED BY <2>2, <3>1, <3>2
  <2> QED BY <1>3, <2>1, <2>3 DEF Timed
<1>8. ASSUME NEW force, Countdown(force)
      PROVE  Open(room', driver') /\ Owed(room', driver')
  BY <1>7, <1>8 DEF Countdown
<1>9. ASSUME ToRace
      PROVE  Open(room', driver') /\ Owed(room', driver')
  <2>1. /\ room.stages < MaxStage
        /\ \/ room' = [Opened(room) EXCEPT !.phase = "race"]
           \/ room' = [Opened(NoClock(room)) EXCEPT !.phase = "race"]
    BY <1>9 DEF ToRace
  <2>2. Opened(room) \in Room /\ Opened(NoClock(room)) \in Room
    BY <1>1, <1>2, <2>1, OpenedType
  <2>3. \A r \in Room : LET s == [r EXCEPT !.phase = "race"]
                        IN  s.phase = "race" /\ s.flag = r.flag
    BY Zenon DEF Room
  <2>4. \A r \in Room : Opened(r).flag = "green"
    BY Zenon DEF Opened, Room
  <2>5. room'.phase = "race" /\ room'.flag = "green"
    BY <1>1, <1>2, <2>1, <2>2, <2>3, <2>4
  <2> QED BY <1>3, <2>5 DEF Timed
<1>10. ASSUME RefuseFinish
       PROVE  Open(room', driver') /\ Owed(room', driver')
  <2>1. room' = [room EXCEPT !.stage = NoStage] /\ driver' = driver
    BY <1>10 DEF RefuseFinish
  <2>2. room'.phase = room.phase /\ room'.before = room.before /\ room'.flag = room.flag
    BY <1>1, <2>1, Zenon DEF Room
  <2> QED BY <1>1, <2>1, <2>2 DEF Open, Owed, Underlying
<1>11. ASSUME BeginEvent
       PROVE  Open(room', driver') /\ Owed(room', driver')
  <2>1. room' = [NoClock(room) EXCEPT !.phase = "lobby", !.flag = "green",
                                      !.stage = NoStage, !.event = @ + 1]
    BY <1>11 DEF BeginEvent
  <2>2. room'.phase = "lobby"
    BY <1>2, <2>1, Zenon DEF Room
  <2> QED BY <1>3, <2>2 DEF Timed
<1> QED BY <1>4, <1>5, <1>6, <1>7, <1>8, <1>9, <1>10, <1>11 DEF Sessions

LEMMA ControlWait ==
  ASSUME NobodyClassified, WaitInv, Control
  PROVE  Open(room', driver') /\ Owed(room', driver')
<1>1. /\ room \in Room /\ driver \in Drivers /\ \A d \in Driver : driver[d] \in Participant
      /\ Open(room, driver) /\ Owed(room, driver)
  BY DEF WaitInv, TypeOK, Drivers
<1>2. CASE RedFlag
  <2>1. /\ room' = [room EXCEPT !.before = room.phase, !.phase = "suspended", !.flag = "red"]
        /\ driver' = driver /\ room.phase # "suspended"
    BY <1>2 DEF RedFlag
  <2>2. room'.phase = "suspended" /\ room'.before = room.phase
    BY <1>1, <2>1, Zenon DEF Room
  <2> QED BY <1>1, <2>1, <2>2 DEF Open, Owed, Underlying
<1>3. CASE GreenFlag
  <2>1. /\ room' = [room EXCEPT !.phase = room.before, !.flag = "green"]
        /\ driver' = driver /\ room.phase = "suspended"
    BY <1>3 DEF GreenFlag
  <2>2. room'.phase = room.before /\ room'.flag = "green"
    BY <1>1, <2>1, Zenon DEF Room
  <2>3. room.before # "suspended"
    BY <1>1 DEF Room
  <2> QED BY <1>1, <2>1, <2>2, <2>3 DEF Open, Owed, Underlying
<1>4. ASSUME NEW d \in Driver, NEW status, Classify(d, status) \/ Penalise(d)
      PROVE  FALSE
  BY <1>4 DEF NobodyClassified, Classify, Penalise
<1>5. ASSUME NEW d \in Driver, Revoke(d)
      PROVE  Open(room', driver') /\ Owed(room', driver')
  <2> DEFINE status == IF driver[d].status = "disqualified" /\ driver[d].stopped
                       THEN "finished" ELSE "active"
             q == [driver[d] EXCEPT !.status = status]
  <2>1. driver' = [driver EXCEPT ![d] = q] /\ room' = room
          /\ driver[d].seat = "held" /\ driver[d].status = "disqualified"
    BY <1>5 DEF Revoke
  <2> HIDE DEF status
  <2>2. /\ q.seat = driver[d].seat /\ q.connected = driver[d].connected
        /\ q.recovery = driver[d].recovery
    BY <1>1, Zenon DEF Participant
  <2> HIDE DEF q
  <2>3. ~Bringing(driver[d])
    BY <2>1 DEF Bringing, Terminal
  <2>4. Waiting(driver[d]) => Waiting(q)
    BY <2>1, <2>2 DEF Waiting, Awaited, Terminal
  <2> QED BY <1>1, <2>1, <2>3, <2>4, OwedUpdate, OpenUpdate
<1> QED BY <1>2, <1>3, <1>4, <1>5 DEF Control

LEMMA LapsedWait ==
  ASSUME NEW p \in Participant, Underlying(room) \in Timed, Bringing(p)
  PROVE  Bringing(Lapsed(p))
<1> DEFINE out == /\ ~p.connected
                  /\ (IF room.phase = "suspended" THEN room.before ELSE room.phase) = "race"
                  /\ room.flag = "chequered"
                  /\ p.status = "disconnected"
           q == [p EXCEPT !.recovery = "none", !.finalLap = @ /\ p.connected,
                          !.status = IF out THEN "didNotFinish" ELSE @,
                          !.stopped = @ \/ out]
<1>1. Lapsed(p) \in {p, q}
  BY DEF Lapsed
<1>2. ~out
  BY DEF Underlying, Timed
<1>3. q.finalLap = (p.finalLap /\ p.connected) /\ q.connected = p.connected
        /\ q.status = IF out THEN "didNotFinish" ELSE p.status
  <2> HIDE DEF out
  <2> QED BY Zenon DEF Participant
<1> HIDE DEF out, q
<1>4. Bringing(q)
  BY <1>2, <1>3 DEF Bringing
<1> QED BY <1>1, <1>4

LEMMA TimeWait ==
  ASSUME WaitInv, Time
  PROVE  Open(room', driver') /\ Owed(room', driver')
<1>1. /\ room \in Room /\ driver \in Drivers /\ \A d \in Driver : driver[d] \in Participant
      /\ Open(room, driver) /\ Owed(room, driver)
  BY DEF WaitInv, TypeOK, Drivers
<1>2. ASSUME NEW r \in Room, Underlying(r) = Underlying(room),
             NEW new, \A d \in Driver : new[d] \in Participant,
             \A d \in Held(driver) : new[d].seat = "held",
             \A d \in Held(driver) :
               Underlying(room) \in Timed /\ Bringing(driver[d]) => Bringing(new[d]),
             Settle(r, Each(new), archive)
      PROVE  Open(room', driver') /\ Owed(room', driver')
  <2>1. Each(new) \in Drivers
    BY <1>1, <1>2, EachType
  <2>2. \A d \in Driver : Each(new)[d].seat = "held" => d \in Held(driver)
    BY DEF Each, Held
  <2>3. \A d \in Held(driver) : Each(new)[d] = new[d]
    BY DEF Each, Held
  <2>4. Owed(r, Each(new))
    BY <1>1, <1>2, <2>2, <2>3 DEF Owed, Held
  <2> QED BY <1>2, <2>1, <2>4, SettleWait
<1>3. ASSUME NEW d \in Driver, WindowLapses(d)
      PROVE  Open(room', driver') /\ Owed(room', driver')
  <2> DEFINE q == [driver[d] EXCEPT !.recovery = "lapsed"]
  <2>1. /\ driver' = [driver EXCEPT ![d] = q] /\ room' = room
        /\ driver[d].recovery = "open"
    BY <1>3 DEF WindowLapses
  <2>2. /\ q.recovery = "lapsed" /\ q.seat = driver[d].seat /\ q.status = driver[d].status
    BY <1>1, Zenon DEF Participant
  <2> HIDE DEF q
  <2>3. driver[d].seat = "held" /\ Bringing(driver[d]) => Bringing(q)
    BY <2>2 DEF Bringing
  <2>4. Waiting(driver[d]) => Waiting(q)
    BY <2>2 DEF Waiting
  <2> QED BY <1>1, <2>1, <2>2, <2>3, <2>4, OwedUpdate, OpenUpdate
<1>4. ASSUME TickLobby
      PROVE  Open(room', driver') /\ Owed(room', driver')
  <2>1. room.phase = "lobby" /\ room' = room
    BY <1>4 DEF TickLobby
  <2> QED BY <2>1 DEF Open, Owed, Underlying, Timed
<1>5. ASSUME TickRecovery
      PROVE  Open(room', driver') /\ Owed(room', driver')
  <2> DEFINE new == [d \in Driver |-> Lapsed(driver[d])]
  <2>1. Settle(room, Each(new), archive)
    BY <1>5 DEF TickRecovery
  <2>2. \A d \in Driver : new[d] \in Participant /\ new[d].seat = driver[d].seat
    BY <1>1, LapsedKept, LapsedType DEF Kept, Alike
  <2>3. \A d \in Held(driver) :
          Underlying(room) \in Timed /\ Bringing(driver[d]) => Bringing(new[d])
    BY <1>1, LapsedWait DEF Held
  <2> HIDE DEF new
  <2>4. \A d \in Held(driver) : new[d].seat = "held"
    BY <2>2 DEF Held
  <2> QED BY <1>1, <1>2, <2>1, <2>2, <2>3, <2>4
<1>6. ASSUME TickStart
      PROVE  Open(room', driver') /\ Owed(room', driver')
  <2>1. room' = [Opened(room) EXCEPT !.phase = "race"] /\ room.stages < MaxStage
    BY <1>6 DEF TickStart
  <2>2. Opened(room) \in Room /\ Opened(room).flag = "green"
    <3>1. Opened(room).flag = "green"
      BY <1>1, Zenon DEF Opened, Room
    <3> QED BY <1>1, <2>1, <3>1, OpenedType
  <2>3. room'.phase = "race" /\ room'.flag = Opened(room).flag
    BY <2>1, <2>2, Zenon DEF Room
  <2> QED BY <2>2, <2>3 DEF Open, Owed, Underlying, Timed
<1>7. ASSUME TickExpiry
      PROVE  Open(room', driver') /\ Owed(room', driver')
  <2> DEFINE r == [room EXCEPT !.flag = "chequered", !.expired = TRUE]
             new(onLap) == [d \in Driver |-> [driver[d] EXCEPT !.finalLap = d \in onLap]]
  <2>1. PICK onLap : /\ Settle(r, Each(new(onLap)), archive)
                     /\ \A d \in onLap : driver[d].connected
    BY <1>7 DEF TickExpiry
  <2>2. /\ r \in Room /\ Underlying(r) = Underlying(room)
    <3>1. r \in Room
      BY <1>1, Zenon DEF Room
    <3>2. r.phase = room.phase /\ r.before = room.before
      BY <1>1, Zenon DEF Room
    <3> QED BY <3>1, <3>2 DEF Underlying
  <2>3. \A p \in Participant, x \in BOOLEAN :
          LET q == [p EXCEPT !.finalLap = x]
          IN  /\ q.seat = p.seat /\ q.status = p.status /\ q.finalLap = x
              /\ q.connected = p.connected
    BY Zenon DEF Participant
  <2>4. \A p \in Participant, x \in BOOLEAN : [p EXCEPT !.finalLap = x] \in Participant
    BY Zenon DEF Participant
  <2>5. ASSUME NEW d \in Driver
        PROVE  /\ new(onLap)[d] \in Participant
               /\ new(onLap)[d].seat = driver[d].seat
               /\ Bringing(driver[d]) => Bringing(new(onLap)[d])
    <3> DEFINE q == [driver[d] EXCEPT !.finalLap = d \in onLap]
    <3>1. (d \in onLap) \in BOOLEAN /\ driver[d] \in Participant
      BY <1>1
    <3>2. q \in Participant
      BY <2>4, <3>1, Zenon
    <3>3. /\ q.seat = driver[d].seat /\ q.status = driver[d].status
          /\ q.finalLap = (d \in onLap) /\ q.connected = driver[d].connected
      BY <3>1, Zenon DEF Participant
    <3>4. new(onLap)[d] = q
      OBVIOUS
    <3> HIDE DEF q, new
    <3> QED BY <2>1, <3>2, <3>3, <3>4 DEF Bringing
  <2> DEFINE field == new(onLap)
  <2>6. Settle(r, Each(field), archive)
    BY <2>1
  <2>7. /\ \A d \in Driver : field[d] \in Participant
        /\ \A d \in Held(driver) : field[d].seat = "held"
        /\ \A d \in Held(driver) : Bringing(driver[d]) => Bringing(field[d])
    <3> HIDE DEF new
    <3> QED BY <2>5 DEF Held
  <2> HIDE DEF field, r
  <2> QED BY <1>2, <2>2, <2>6, <2>7
<1> QED BY <1>3, <1>4, <1>5, <1>6, <1>7 DEF Time, Tick

LEMMA WaitInvariant ==
  ASSUME NobodyClassified
  PROVE  Spec => []WaitInv
<1>1. Init => WaitInv
  <2> SUFFICES ASSUME Init PROVE Open(room, driver) /\ Owed(room, driver)
    BY InitType DEF WaitInv
  <2>1. room.phase = "lobby"
    BY DEF Init
  <2> QED BY <2>1 DEF Open, Owed, Underlying, Timed
<1>2. WaitInv /\ [Next]_vars => WaitInv'
  <2> SUFFICES ASSUME WaitInv, [Next]_vars PROVE WaitInv'
    OBVIOUS
  <2>1. TypeOK'
    BY StepType DEF WaitInv
  <2>2. CASE UNCHANGED vars
    <3>1. room' = room /\ driver' = driver
      BY <2>2 DEF vars
    <3>2. Open(room, driver) /\ Owed(room, driver)
      BY DEF WaitInv
    <3>3. Open(room', driver') /\ Owed(room', driver')
      BY <3>1, <3>2
    <3> QED BY <2>1, <3>3 DEF WaitInv
  <2>3. CASE Next
    <3>1. Open(room', driver') /\ Owed(room', driver')
      BY <2>3, SeatsWait, LapsWait, SessionsWait, ControlWait, TimeWait DEF Next
    <3> QED BY <2>1, <3>1 DEF WaitInv
  <2> QED BY <2>2, <2>3
<1> QED BY <1>1, <1>2, PTL DEF Spec

\* A chequered race that race control leaves alone is open for somebody: every
\* handler that takes the last awaited driver away ends it (Resume, Disconnect,
\* Release, CompleteLap and TickRecovery re-check).
THEOREM OpenRaceAwaitsSomebody ==
  ASSUME NobodyClassified
  PROVE  Spec => []RaceOpenForSomebody
<1>1. WaitInv => RaceOpenForSomebody
  BY DEF WaitInv, Open, RaceOpenForSomebody
<1> QED BY <1>1, WaitInvariant, PTL

\* A timed session that race control leaves alone waits for nobody who cannot
\* bring the lap any more.
THEOREM PendingLapsCanCome ==
  ASSUME NobodyClassified
  PROVE  Spec => []PendingLapCanCome
<1>1. WaitInv => PendingLapCanCome
  BY DEF WaitInv, Owed, Bringing, Underlying, Timed, PendingLapCanCome
<1> QED BY <1>1, WaitInvariant, PTL

=============================================================================
