--------------------------- MODULE RaceRoomProofs ---------------------------
(***************************************************************************)
(* For any drivers and reports, finitely many sockets, and any number of   *)
(* crashes and rejected writes: the room implements the ledger of laps, a  *)
(* driver has one live socket, the login budget is balanced, everything    *)
(* has its type, seats follow sockets and the alarm covers the deadlines.  *)
(***************************************************************************)
EXTENDS RaceRoom, FiniteSetTheorems, TLAPS

\* What is proved of the race core, for the core of this room.
CoreProofs == INSTANCE RaceCoreProofs

Seats == {"free", "held", "gone"}

\* The record of a seat: reports are credited under one id each, and to held
\* seats only.
Sound(p) ==
  /\ {"seat", "receipts"} \subseteq DOMAIN p
  /\ p.seat \in Seats
  /\ p.seat # "held" => p.receipts = {}
  /\ \A r \in p.receipts : r.event \in LapEvent
  /\ \A r, t \in p.receipts : r.event.id = t.event.id => r.event = t.event

\* What time and handlers may make of it.
Later(p, q) ==
  /\ p.seat = "gone" => q.seat = "gone"
  /\ p.seat = "held" => \/ q.seat = "gone"
                        \/ q.seat = "held" /\ p.receipts \subseteq q.receipts

\* A sound record that a step may leave.
Becomes(p, q) == Sound(q) /\ Later(p, q)

SoundAll(ds) == DOMAIN ds = Driver /\ \A d \in Driver : Sound(ds[d])

\* A handler took the drivers ds to es.
Step(ds, es) == DOMAIN es = Driver /\ \A d \in Driver : Becomes(ds[d], es[d])

\* Seat and receipts stay.
Alike(p, q) ==
  /\ {"seat", "receipts"} \subseteq DOMAIN q
  /\ q.seat = p.seat /\ q.receipts = p.receipts

\* A record that keeps seat and receipts is a sound successor.
LEMMA AlikeNext ==
  ASSUME NEW p, NEW q, Sound(p), Alike(p, q)
  PROVE  Becomes(p, q)
BY DEF Sound, Alike, Becomes, Later

\* So is a seat that was given up.
LEMMA GoneNext ==
  ASSUME NEW p
  PROVE  Becomes(p, Core!GoneSeat)
BY DEF Sound, Becomes, Later, Core!GoneSeat, Core!FreeSeat, Seats

\* The cut of a qualifying touches no receipts.
LEMMA TimedAlike ==
  ASSUME NEW r, NEW ds, NEW cut, SoundAll(ds), NEW d \in Driver
  PROVE  /\ Alike(ds[d], Core!TimedDrivers(r, ds, cut)[d])
         /\ DOMAIN Core!TimedDrivers(r, ds, cut) = Driver
<1> DEFINE q == [ds[d] EXCEPT !.status = Core!Standing(ds[d]), !.finalLap = FALSE,
                   !.eligible = @ /\ d \notin cut]
<1>1. Sound(ds[d])
  BY DEF SoundAll
<1>2. Alike(ds[d], q)
  BY <1>1 DEF Sound, Alike
<1>3. Alike(ds[d], ds[d])
  BY <1>1 DEF Sound, Alike
<1>4. DOMAIN Core!TimedDrivers(r, ds, cut) = Driver
  BY DEF Core!TimedDrivers, SoundAll
<1>5. Core!TimedDrivers(r, ds, cut)[d] \in {ds[d], q}
  BY DEF Core!TimedDrivers
<1> QED BY <1>2, <1>3, <1>4, <1>5

-----------------------------------------------------------------------------
(* What the handlers of the race core make of the seats *)

\* A successor may be brought up to date afterwards.
LEMMA AlikeLater ==
  ASSUME NEW p, NEW q, NEW u, Becomes(p, q), Alike(q, u)
  PROVE  Becomes(p, u)
BY DEF Becomes, Sound, Later, Alike

\* Nothing happened.
LEMMA SameNext ==
  ASSUME NEW p, Sound(p)
  PROVE  Becomes(p, p)
BY DEF Becomes, Later

\* One seat changes.
LEMMA OneStep ==
  ASSUME NEW ds, SoundAll(ds), NEW d \in Driver, NEW q, Becomes(ds[d], q)
  PROVE  /\ Step(ds, [ds EXCEPT ![d] = q])
         /\ SoundAll([ds EXCEPT ![d] = q])
         /\ [ds EXCEPT ![d] = q][d] = q
<1> DEFINE es == [ds EXCEPT ![d] = q]
<1>1. DOMAIN es = Driver /\ es[d] = q /\ \A c \in Driver \ {d} : es[c] = ds[c]
  BY DEF SoundAll
<1> HIDE DEF es
<1>2. \A c \in Driver : Becomes(ds[c], es[c])
  BY <1>1, SameNext DEF SoundAll
<1> QED BY <1>1, <1>2 DEF Step, SoundAll, Becomes, es

\* The completion checks at the end of a handler.
LEMMA SettleStep ==
  ASSUME NEW ds, NEW es, NEW r, NEW ar, SoundAll(es), Step(ds, es), Core!Settle(r, es, ar)
  PROVE  Step(ds, driver') /\ \A d \in Driver : Alike(es[d], driver'[d])
<1>1. PICK cut \in Core!Cuts(r, es) : driver' = Core!TimedDrivers(r, es, cut)
  BY DEF Core!Settle
<1>2. DOMAIN driver' = Driver \/ Driver = {}
  BY <1>1, TimedAlike
<1>3. \A d \in Driver : Alike(es[d], driver'[d])
  BY <1>1, TimedAlike
<1>4. DOMAIN driver' = Driver
  BY <1>1 DEF Core!TimedDrivers, SoundAll
<1> QED BY <1>3, <1>4, AlikeLater DEF Step

\* Every held seat changes.
LEMMA EachStep ==
  ASSUME NEW new, SoundAll(driver),
         \A d \in Driver : driver[d].seat = "held" => Becomes(driver[d], new[d])
  PROVE  Step(driver, Core!Each(new)) /\ SoundAll(Core!Each(new))
<1>1. \A d \in Driver : Becomes(driver[d], Core!Each(new)[d])
  BY SameNext DEF Core!Each, Core!Held, SoundAll
<1>2. DOMAIN Core!Each(new) = Driver
  BY DEF Core!Each
<1> QED BY <1>1, <1>2 DEF Step, SoundAll, Becomes

\* Logging in, coming back, dropping out, leaving, getting ready.
LEMMA SeatSteps ==
  ASSUME SoundAll(driver), NEW d \in Driver,
         \/ Core!Login(d) \/ Core!Resume(d) \/ Core!Disconnect(d) \/ Core!Release(d)
         \/ Core!SetReady(d)
  PROVE  Step(driver, driver')
<1>0. Sound(driver[d])
  BY DEF SoundAll
<1>1. CASE Core!Login(d)
  <2> DEFINE q == [Core!FreeSeat EXCEPT !.seat = "held", !.status = "active", !.connected = TRUE]
  <2>1. Becomes(driver[d], q)
    BY <1>0, <1>1 DEF Core!Login, Becomes, Sound, Later, Core!FreeSeat, Seats
  <2> HIDE DEF q
  <2> QED BY <1>1, <2>1, OneStep DEF Core!Login, q
<1>2. CASE Core!Resume(d)
  <2>1. PICK late, stopped :
          driver' = [driver EXCEPT ![d].connected = TRUE,
                       ![d].status = IF late THEN "didNotFinish" ELSE "active",
                       ![d].stopped = stopped]
    BY <1>2 DEF Core!Resume
  <2> DEFINE q == [driver[d] EXCEPT !.connected = TRUE,
                     !.status = IF late THEN "didNotFinish" ELSE "active",
                     !.stopped = stopped]
  <2>a. Alike(driver[d], q)
    BY <1>0 DEF Sound, Alike
  <2>2. Becomes(driver[d], q)
    BY <1>0, <2>a, AlikeNext
  <2>3. driver' = [driver EXCEPT ![d] = q]
    BY <2>1 DEF SoundAll
  <2> HIDE DEF q
  <2> QED BY <2>2, <2>3, OneStep
<1>3. CASE Core!Disconnect(d)
  <2>1. PICK status, recovery, final :
          Core!Settle(room, [driver EXCEPT ![d].connected = FALSE, ![d].status = status,
                               ![d].recovery = recovery, ![d].finalLap = final], archive)
    BY <1>3 DEF Core!Disconnect
  <2> DEFINE q == [driver[d] EXCEPT !.connected = FALSE, !.status = status,
                     !.recovery = recovery, !.finalLap = final]
             left == [driver EXCEPT ![d] = q]
  <2>a. Alike(driver[d], q)
    BY <1>0 DEF Sound, Alike
  <2>2. Becomes(driver[d], q)
    BY <1>0, <2>a, AlikeNext
  <2>3. Core!Settle(room, left, archive)
    BY <2>1 DEF SoundAll
  <2> HIDE DEF q
  <2>4. Step(driver, left) /\ SoundAll(left)
    BY <2>2, OneStep
  <2> HIDE DEF left
  <2> QED BY <2>3, <2>4, SettleStep
<1>4. CASE Core!Release(d)
  <2> DEFINE status == IF driver[d].status \in Core!Terminal THEN driver[d].status
                       ELSE IF room.phase = "race" THEN "didNotFinish" ELSE "disconnected"
             stopped == driver[d].stopped \/ room.phase = "race"
             q == [driver[d] EXCEPT !.connected = FALSE, !.status = status,
                     !.stopped = stopped, !.recovery = "none", !.finalLap = FALSE]
             out == [driver EXCEPT ![d] = q]
  <2>1. PICK cut \in Core!Cuts(room, out) :
          driver' = [Core!TimedDrivers(room, out, cut) EXCEPT ![d] = Core!GoneSeat]
    BY <1>4 DEF Core!Release
  <2> DEFINE ds == Core!TimedDrivers(room, out, cut)
  <2> HIDE DEF status, stopped
  <2>a. Alike(driver[d], q)
    BY <1>0 DEF Sound, Alike
  <2>2. Becomes(driver[d], q)
    BY <1>0, <2>a, AlikeNext
  <2> HIDE DEF q
  <2>3. Step(driver, out) /\ SoundAll(out)
    BY <2>2, OneStep
  <2>4. driver' = [ds EXCEPT ![d] = Core!GoneSeat]
    BY <2>1
  <2> HIDE DEF out
  <2>5. DOMAIN ds = Driver /\ \A c \in Driver : Alike(out[c], ds[c])
    BY <2>3, TimedAlike
  <2> HIDE DEF ds
  <2>6. DOMAIN driver' = Driver /\ driver'[d] = Core!GoneSeat
        /\ \A c \in Driver \ {d} : driver'[c] = ds[c]
    BY <2>4, <2>5
  <2>7. \A c \in Driver : Becomes(driver[c], driver'[c])
    BY <2>3, <2>5, <2>6, AlikeLater, GoneNext DEF Step
  <2> QED BY <2>6, <2>7 DEF Step
<1>5. CASE Core!SetReady(d)
  <2> DEFINE q == [driver[d] EXCEPT !.status = "active"]
  <2>a. Alike(driver[d], q)
    BY <1>0 DEF Sound, Alike
  <2>1. Becomes(driver[d], q)
    BY <1>0, <2>a, AlikeNext
  <2>2. driver' = [driver EXCEPT ![d] = q]
    BY <1>5 DEF Core!SetReady, SoundAll
  <2> HIDE DEF q
  <2> QED BY <2>1, <2>2, OneStep
<1> QED BY <1>1, <1>2, <1>3, <1>4, <1>5

\* prepareLapValidation keeps the receipts.
LEMMA PreparedAlike ==
  ASSUME NEW p, Sound(p)
  PROVE  Alike(p, Core!Prepared(p))
<1>1. Alike(p, p)
  BY DEF Sound, Alike
<1>2. Alike(p, [p EXCEPT !.lapStage = room.stage, !.lastLap = 0, !.lastValid = FALSE])
  BY DEF Sound, Alike
<1> QED BY <1>1, <1>2 DEF Core!Prepared

\* An accepted report is on record with the driver who sent it.
LEMMA CompleteLapStep ==
  ASSUME SoundAll(driver), NEW d \in Driver, NEW e \in LapEvent, NEW recovered,
         Core!CompleteLap(d, e, recovered)
  PROVE  /\ Step(driver, driver')
         /\ driver'[d].seat = "held" /\ \E r \in driver'[d].receipts : r.event = e
<1> DEFINE p == Core!Prepared(driver[d])
           new == [event |-> e, stage |-> room.stage]
           noted == [p EXCEPT !.lastLap = e.lap, !.lastValid = e.valid,
                       !.receipts = @ \cup {new}, !.recovery = "none", !.finalLap = FALSE]
           q == Core!Credited(p, e)
           done == Core!Finishes(q, e)
           u == IF done THEN [q EXCEPT !.status = "finished", !.stopped = TRUE] ELSE q
           r == IF done THEN [room EXCEPT !.flag = "chequered"] ELSE room
           ds == [driver EXCEPT ![d] = u]
<1>0. Sound(driver[d]) /\ driver[d].seat = "held" /\ ~Core!Reported(driver[d], e)
  BY DEF SoundAll, Core!CompleteLap
<1>1. Alike(driver[d], p)
  BY <1>0, PreparedAlike
<1>2. Core!Settle(r, ds, archive)
  BY DEF Core!CompleteLap
<1> HIDE DEF p
<1>3. /\ {"seat", "receipts"} \subseteq DOMAIN noted /\ noted.seat = "held"
      /\ noted.receipts = driver[d].receipts \cup {new}
  BY <1>0, <1>1 DEF Alike
<1>4. q \in {noted, [noted EXCEPT !.laps = @ + 1]}
  BY DEF Core!Credited
<1> HIDE DEF noted
<1>5. /\ {"seat", "receipts"} \subseteq DOMAIN q /\ q.seat = "held"
      /\ q.receipts = driver[d].receipts \cup {new}
  BY <1>3, <1>4
<1> HIDE DEF q
<1>6. /\ {"seat", "receipts"} \subseteq DOMAIN u /\ u.seat = "held"
      /\ u.receipts = driver[d].receipts \cup {new}
  BY <1>5
<1> HIDE DEF u, r
<1>7. new.event = e
  OBVIOUS
<1> HIDE DEF new
<1>8. Becomes(driver[d], u)
  <2>1. \A x \in driver[d].receipts : x.event.id # e.id
    BY <1>0 DEF Core!Reported
  <2>2. Sound(u)
    BY <1>0, <1>6, <1>7, <2>1 DEF Sound
  <2> QED BY <1>0, <1>6, <2>2 DEF Becomes, Later
<1>9. Step(driver, ds) /\ SoundAll(ds) /\ ds[d] = u
  BY <1>8, OneStep
<1> HIDE DEF ds
<1>10. Step(driver, driver') /\ Alike(u, driver'[d])
  BY <1>2, <1>9, SettleStep
<1> QED BY <1>6, <1>7, <1>10 DEF Alike

\* A rejected report and telemetry credit nothing.
LEMMA LapSteps ==
  ASSUME SoundAll(driver), NEW d \in Driver, NEW e,
         Core!RejectLap(d, e) \/ Core!Telemetry(d)
  PROVE  Step(driver, driver')
<1> DEFINE p == Core!Prepared(driver[d])
           woken == [p EXCEPT !.status = "active"]
<1>0. Sound(driver[d])
  BY DEF SoundAll
<1>1. Alike(driver[d], p)
  BY <1>0, PreparedAlike
<1>2. driver' \in {[driver EXCEPT ![d] = p], [driver EXCEPT ![d] = woken]}
  BY DEF Core!RejectLap, Core!Telemetry
<1> HIDE DEF p
<1>3. Alike(driver[d], woken)
  BY <1>1 DEF Alike
<1> HIDE DEF woken
<1>4. Becomes(driver[d], p) /\ Becomes(driver[d], woken)
  BY <1>0, <1>1, <1>3, AlikeNext
<1> QED BY <1>2, <1>4, OneStep

\* A session command resets what belongs to the session only.
LEMMA ResetNext ==
  ASSUME NEW p, Sound(p)
  PROVE  Becomes(p, Core!Reset(p)) /\ Becomes(p, [Core!Reset(p) EXCEPT !.dsqRecord = FALSE])
<1>1. Alike(p, Core!Reset(p))
  BY DEF Sound, Alike, Core!Reset
<1>2. Alike(p, [Core!Reset(p) EXCEPT !.dsqRecord = FALSE])
  BY <1>1 DEF Alike
<1> QED BY <1>1, <1>2, AlikeNext

\* pruneLobby releases seats.
LEMMA PrunedStep ==
  ASSUME NEW ds, NEW es, Step(ds, es), NEW old
  PROVE  Step(ds, Core!Pruned(es, old))
<1>1. \A d \in Driver : Becomes(ds[d], Core!Pruned(es, old)[d])
  BY GoneNext DEF Core!Pruned, Step
<1> QED BY <1>1 DEF Step, Core!Pruned

\* The commands of race control.
LEMMA SessionSteps ==
  ASSUME SoundAll(driver), Core!ToRace \/ Core!ToLobby \/ Core!RefuseFinish
  PROVE  Step(driver, driver')
<1>1. Step(driver, driver)
  BY SameNext DEF Step, SoundAll
<1>2. CASE Core!ToRace
  <2> DEFINE new == [d \in Driver |-> Core!Reset(driver[d])]
  <2>a. \A d \in Driver : Becomes(driver[d], new[d])
    BY ResetNext DEF SoundAll
  <2>b. Core!Gridded = Core!Each(new)
    BY DEF Core!Gridded
  <2> HIDE DEF new
  <2>1. Step(driver, Core!Gridded)
    BY <2>a, <2>b, EachStep
  <2> QED BY <1>1, <1>2, <2>1 DEF Core!ToRace
<1>3. CASE Core!ToLobby
  <2> DEFINE new == [d \in Driver |-> [Core!Reset(driver[d]) EXCEPT !.dsqRecord = FALSE]]
  <2>a. \A d \in Driver : Becomes(driver[d], new[d])
    BY ResetNext DEF SoundAll
  <2>b. Core!Cleared = Core!Each(new)
    BY DEF Core!Cleared
  <2> HIDE DEF new
  <2>1. Step(driver, Core!Cleared)
    BY <2>a, <2>b, EachStep
  <2> QED BY <1>3, <2>1, PrunedStep DEF Core!ToLobby
<1>4. CASE Core!RefuseFinish
  BY <1>1, <1>4 DEF Core!RefuseFinish
<1> QED BY <1>2, <1>3, <1>4

\* A window that ran out keeps the receipts.
LEMMA LapsedNext ==
  ASSUME NEW p, Sound(p)
  PROVE  Becomes(p, Core!Lapsed(p))
<1>1. \A status, final, stopped :
        Alike(p, [p EXCEPT !.recovery = "none", !.finalLap = final, !.status = status,
                           !.stopped = stopped])
  BY DEF Sound, Alike
<1>2. Alike(p, Core!Lapsed(p))
  BY <1>1 DEF Core!Lapsed, Sound, Alike
<1> QED BY <1>2, AlikeNext

\* What tick does.
LEMMA TickSteps ==
  ASSUME SoundAll(driver), Ticks
  PROVE  Step(driver, driver')
<1>1. CASE Core!TickLobby
  <2>1. Step(driver, driver)
    BY SameNext DEF Step, SoundAll
  <2> QED BY <1>1, <2>1, PrunedStep DEF Core!TickLobby
<1>2. CASE Core!TickRecovery
  <2> DEFINE new == [d \in Driver |-> Core!Lapsed(driver[d])]
             es == Core!Each(new)
  <2>1. Step(driver, es) /\ SoundAll(es)
    BY EachStep, LapsedNext DEF SoundAll
  <2>2. Core!Settle(room, es, archive)
    BY <1>2 DEF Core!TickRecovery
  <2> HIDE DEF es
  <2> QED BY <2>1, <2>2, SettleStep
<1> QED BY <1>1, <1>2 DEF Ticks

-----------------------------------------------------------------------------
(* The ledger *)

CreditedOf(ds) ==
  UNION {{<<d, r.event>> : r \in ds[d].receipts} : d \in {c \in Driver : ds[c].seat = "held"}}

GoneOf(ds) == {d \in Driver : ds[d].seat = "gone"}

\* Memory is never behind the disk, and what is about to be acknowledged is on
\* record in memory.
LedgerInv ==
  /\ SoundAll(driver)
  /\ "driver" \in DOMAIN disk /\ SoundAll(disk.driver)
  /\ \A d \in Driver : Later(disk.driver[d], driver[d])
  /\ \/ writing.accepted = {}
     \/ \E d \in Driver : \E r \in driver[d].receipts : writing.accepted = {<<d, r.event>>}

\* The variables of the ledger, in terms of the drivers on disk.
LEMMA Seen == /\ Credited = CreditedOf(disk.driver)
              /\ {d \in Driver : disk.driver[d].seat = "gone"} = GoneOf(disk.driver)
BY DEF Credited, OnDisk, CreditedOf, GoneOf

\* The same after a step.
LEMMA SeenPrime == /\ Credited' = CreditedOf(disk'.driver)
                   /\ {d \in Driver : disk'.driver[d].seat = "gone"} = GoneOf(disk'.driver)
BY DEF Credited, OnDisk, CreditedOf, GoneOf

\* What a credited pair is.
LEMMA CreditedPair ==
  ASSUME NEW ds, NEW x
  PROVE  x \in CreditedOf(ds) <=> \E d \in Driver : /\ ds[d].seat = "held"
                                                    /\ \E r \in ds[d].receipts : x = <<d, r.event>>
BY DEF CreditedOf

\* A write takes the ledger one step further.
LEMMA WriteCommits ==
  ASSUME NEW ds, NEW es, SoundAll(ds), SoundAll(es), \A d \in Driver : Later(ds[d], es[d])
  PROVE  LET left == GoneOf(es) \ GoneOf(ds)
             new == CreditedOf(es)
         IN  /\ left \in SUBSET (Driver \ GoneOf(ds))
             /\ new \in SUBSET ((Driver \ GoneOf(ds)) \X LapEvent)
             /\ GoneOf(es) = GoneOf(ds) \cup left
             /\ CreditedOf(es) = (CreditedOf(ds) \cup new) \ (left \X LapEvent)
             /\ \A x, y \in CreditedOf(es) : x[1] = y[1] /\ x[2].id = y[2].id => x = y
<1> DEFINE left == GoneOf(es) \ GoneOf(ds)
           new == CreditedOf(es)
<1>1. \A d \in Driver : Sound(ds[d]) /\ Sound(es[d]) /\ Later(ds[d], es[d])
  BY DEF SoundAll
<1>2. left \in SUBSET (Driver \ GoneOf(ds))
  BY DEF GoneOf
<1>3. GoneOf(es) = GoneOf(ds) \cup left
  BY <1>1 DEF GoneOf, Later
<1>4. ASSUME NEW x \in new
      PROVE  x \in (Driver \ GoneOf(es)) \X LapEvent
  <2>1. PICK d \in Driver : es[d].seat = "held" /\ \E r \in es[d].receipts : x = <<d, r.event>>
    BY CreditedPair
  <2>2. d \notin GoneOf(es)
    BY <2>1 DEF GoneOf
  <2> QED BY <1>1, <2>1, <2>2 DEF Sound
<1>5. ASSUME NEW x \in CreditedOf(ds), x \notin left \X LapEvent
      PROVE  x \in new
  <2>1. PICK d \in Driver : ds[d].seat = "held" /\ \E r \in ds[d].receipts : x = <<d, r.event>>
    BY CreditedPair
  <2>2. PICK r \in ds[d].receipts : x = <<d, r.event>>
    BY <2>1
  <2>3. r.event \in LapEvent
    BY <1>1, <2>2 DEF Sound
  <2>4. d \notin left
    BY <1>5, <2>2, <2>3
  <2>5. es[d].seat = "held" /\ r \in es[d].receipts
    BY <1>1, <2>1, <2>2, <2>4 DEF Later, GoneOf
  <2> QED BY <2>2, <2>5, CreditedPair
<1>6. CreditedOf(es) = (CreditedOf(ds) \cup new) \ (left \X LapEvent)
  <2>1. \A x \in new : x \notin left \X LapEvent
    BY <1>4
  <2> QED BY <1>5, <2>1
<1>7. new \in SUBSET ((Driver \ GoneOf(ds)) \X LapEvent)
  BY <1>3, <1>4
<1>8. ASSUME NEW x \in CreditedOf(es), NEW y \in CreditedOf(es), x[1] = y[1], x[2].id = y[2].id
      PROVE  x = y
  <2>1. PICK d \in Driver : \E r \in es[d].receipts : x = <<d, r.event>>
    BY CreditedPair
  <2>2. PICK c \in Driver : \E r \in es[c].receipts : y = <<c, r.event>>
    BY CreditedPair
  <2>3. PICK r \in es[d].receipts : x = <<d, r.event>>
    BY <2>1
  <2>4. PICK t \in es[c].receipts : y = <<c, t.event>>
    BY <2>2
  <2>5. c = d /\ r.event.id = t.event.id
    BY <1>8, <2>3, <2>4
  <2>6. r.event = t.event
    BY <1>1, <2>5 DEF Sound
  <2> QED BY <2>3, <2>4, <2>5, <2>6
<1> QED BY <1>2, <1>3, <1>6, <1>7, <1>8

\* Drivers with the same seats and receipts are the same ledger.
LEMMA AlikeLedger ==
  ASSUME NEW ds, NEW es, \A d \in Driver : Alike(ds[d], es[d])
  PROVE  CreditedOf(ds) = CreditedOf(es) /\ GoneOf(ds) = GoneOf(es)
BY DEF CreditedOf, GoneOf, Alike

\* Successors of successors.
LEMMA LaterLater ==
  ASSUME NEW p, NEW q, NEW u, Later(p, q), Later(q, u)
  PROVE  Later(p, u)
BY DEF Later

-----------------------------------------------------------------------------
(* The steps of the room *)

\* What waits to be acknowledged is on record in the drivers ds.
OnRecord(accepted, ds) ==
  \/ accepted = {}
  \/ \E d \in Driver : \E r \in ds[d].receipts : accepted = {<<d, r.event>>}

\* A handler changes the memory only; the ledger sees nothing of it.
LEMMA MemoryStep ==
  ASSUME LedgerInv, Step(driver, driver'), disk' = disk, acknowledged' = acknowledged,
         OnRecord(writing'.accepted, driver')
  PROVE  LedgerInv' /\ UNCHANGED Ledger!vars
<1>1. SoundAll(driver')
  BY DEF Step, SoundAll, Becomes
<1>2. \A d \in Driver : Later(disk.driver[d], driver'[d])
  BY LaterLater DEF LedgerInv, Step, Becomes
<1>3. LedgerInv'
  BY <1>1, <1>2 DEF LedgerInv, OnRecord
<1>4. UNCHANGED Ledger!vars
  BY Seen, SeenPrime DEF Ledger!vars
<1> QED BY <1>3, <1>4

\* Nothing the ledger is about changes.
LEMMA QuietStep ==
  ASSUME LedgerInv, UNCHANGED <<driver, disk, acknowledged>>,
         writing' = writing \/ OnRecord(writing'.accepted, driver)
  PROVE  LedgerInv' /\ UNCHANGED Ledger!vars
<1>1. LedgerInv'
  BY DEF LedgerInv, OnRecord
<1>2. UNCHANGED Ledger!vars
  BY Seen, SeenPrime DEF Ledger!vars
<1> QED BY <1>1, <1>2

\* The drivers are taken over from the disk.
LEMMA ReloadStep ==
  ASSUME LedgerInv, Reloaded, UNCHANGED <<disk, acknowledged>>, writing'.accepted = {}
  PROVE  LedgerInv' /\ UNCHANGED Ledger!vars
<1>1. driver' = disk.driver
  BY DEF Reloaded
<1>2. \A d \in Driver : Later(disk.driver[d], disk.driver[d])
  BY DEF Later, LedgerInv, SoundAll, Sound, Seats
<1>3. LedgerInv'
  BY <1>1, <1>2 DEF LedgerInv
<1>4. UNCHANGED Ledger!vars
  BY Seen, SeenPrime DEF Ledger!vars
<1> QED BY <1>3, <1>4

\* The first report and every repeat are on record when their answer is due.
LEMMA LapMessageStep ==
  ASSUME LedgerInv, NEW s \in Socket, NEW e \in LapEvent, LapMessage(s, e),
         socket[s].who \in Driver
  PROVE  LedgerInv' /\ UNCHANGED Ledger!vars
<1> DEFINE d == socket[s].who
<1>0. disk' = disk /\ acknowledged' = acknowledged /\ SoundAll(driver)
  BY DEF LapMessage, Quiet, LedgerInv
<1>1. ASSUME NEW recovered, Core!CompleteLap(d, e, recovered), Await(s, "message", {<<d, e>>})
      PROVE  LedgerInv' /\ UNCHANGED Ledger!vars
  <2>1. Step(driver, driver') /\ \E r \in driver'[d].receipts : r.event = e
    BY <1>0, <1>1, CompleteLapStep
  <2>2. writing'.accepted = {<<d, e>>}
    BY <1>1 DEF Await
  <2>3. OnRecord(writing'.accepted, driver')
    BY <2>1, <2>2 DEF OnRecord
  <2> QED BY <1>0, <2>1, <2>3, MemoryStep
<1>2. ASSUME NEW r \in driver[d].receipts, Await(s, "message", {<<d, r.event>>}),
             UNCHANGED memory
      PROVE  LedgerInv' /\ UNCHANGED Ledger!vars
  <2>1. OnRecord(writing'.accepted, driver)
    BY <1>2 DEF Await, OnRecord
  <2> QED BY <1>0, <1>2, <2>1, QuietStep DEF memory
<1>3. ASSUME Core!RejectLap(d, e), Await(s, "message", {})
      PROVE  LedgerInv' /\ UNCHANGED Ledger!vars
  <2>1. Step(driver, driver')
    BY <1>0, <1>3, LapSteps
  <2> QED BY <1>0, <1>3, <2>1, MemoryStep DEF Await, OnRecord
<1>4. ASSUME UNCHANGED memory, Await(s, "message", {})
      PROVE  LedgerInv' /\ UNCHANGED Ledger!vars
  BY <1>0, <1>4, QuietStep DEF memory, Await, OnRecord
<1> QED BY <1>1, <1>2, <1>3, <1>4 DEF LapMessage

\* A window that ends on both sides leaves seats and receipts alone.
LEMMA WindowStep ==
  ASSUME LedgerInv, NEW d \in Driver, WindowLapses(d)
  PROVE  LedgerInv' /\ UNCHANGED Ledger!vars
<1>1. \A c \in Driver : Alike(driver[c], driver'[c]) /\ DOMAIN driver' = Driver
  <2>1. \A c \in Driver : driver'[c] \in {driver[c], [driver[c] EXCEPT !.recovery = "lapsed"]}
    BY DEF WindowLapses, Past, LedgerInv, SoundAll
  <2>2. \A c \in Driver : Sound(driver[c])
    BY DEF LedgerInv, SoundAll
  <2>3. DOMAIN driver' = Driver
    BY DEF WindowLapses, LedgerInv, SoundAll
  <2> QED BY <2>1, <2>2, <2>3 DEF Alike, Sound
<1>2. \A c \in Driver : Alike(disk.driver[c], disk'.driver[c]) /\ DOMAIN disk'.driver = Driver
  <2> DEFINE old == disk.driver
             new == [old EXCEPT ![d] = Past(@)]
  <2>0. DOMAIN old = Driver /\ \A c \in Driver : Sound(old[c])
    BY DEF LedgerInv, SoundAll
  <2>1. disk'.driver = new
    BY DEF WindowLapses, LedgerInv
  <2>2. \A c \in Driver : new[c] \in {old[c], [old[c] EXCEPT !.recovery = "lapsed"]}
    BY <2>0 DEF Past
  <2>3. DOMAIN new = Driver
    BY <2>0
  <2> HIDE DEF new, old
  <2>4. \A c \in Driver : Alike(old[c], new[c])
    BY <2>0, <2>2 DEF Alike, Sound
  <2> QED BY <2>1, <2>3, <2>4 DEF old
<1>3. "driver" \in DOMAIN disk'
  BY DEF WindowLapses, LedgerInv
<1>4. /\ writing' = writing /\ acknowledged' = acknowledged
      /\ SoundAll(driver) /\ SoundAll(disk.driver)
      /\ \A c \in Driver : Later(disk.driver[c], driver[c])
      /\ OnRecord(writing.accepted, driver)
  BY DEF WindowLapses, LedgerInv, OnRecord
<1>5. SoundAll(driver') /\ SoundAll(disk'.driver)
  BY <1>1, <1>2, <1>4, AlikeNext DEF SoundAll, Becomes
<1>6. \A c \in Driver : Later(disk'.driver[c], driver'[c])
  BY <1>1, <1>2, <1>4 DEF Alike, Later
<1>7. OnRecord(writing.accepted, driver')
  BY <1>1, <1>4 DEF OnRecord, Alike
<1>8. LedgerInv'
  BY <1>3, <1>4, <1>5, <1>6, <1>7 DEF LedgerInv, OnRecord
<1>9. UNCHANGED Ledger!vars
  BY <1>2, <1>4, AlikeLedger, Seen, SeenPrime DEF Ledger!vars
<1> QED BY <1>8, <1>9

\* A write that lands is a commit of the ledger, and what it acknowledges is
\* part of it.
LEMMA FlushStep ==
  ASSUME LedgerInv, Flush
  PROVE  LedgerInv' /\ Ledger!Commit
<1> DEFINE left == GoneOf(driver) \ GoneOf(disk.driver)
           new == CreditedOf(driver)
<1>1. disk'.driver = driver /\ "driver" \in DOMAIN disk' /\ driver' = driver
  BY DEF Flush, Stored, memory
<1>2. writing'.accepted = {}
  BY DEF Flush, Idle
<1>3. \A d \in Driver : Later(driver[d], driver[d])
  BY DEF LedgerInv, SoundAll, Sound, Later, Seats
<1>4. LedgerInv'
  BY <1>1, <1>2, <1>3 DEF LedgerInv
<1>5. /\ left \in SUBSET (Driver \ GoneOf(disk.driver))
      /\ new \in SUBSET ((Driver \ GoneOf(disk.driver)) \X LapEvent)
      /\ GoneOf(driver) = GoneOf(disk.driver) \cup left
      /\ CreditedOf(driver) = (CreditedOf(disk.driver) \cup new) \ (left \X LapEvent)
      /\ \A x, y \in CreditedOf(driver) : x[1] = y[1] /\ x[2].id = y[2].id => x = y
  BY WriteCommits DEF LedgerInv
<1>6. \/ acknowledged' = acknowledged
      \/ \E x \in CreditedOf(driver) : acknowledged' = acknowledged \cup {x}
  <2>1. CASE acknowledged' = acknowledged
    BY <2>1
  <2>2. CASE writing.accepted # {} /\ acknowledged' = acknowledged \cup writing.accepted
    <3>1. PICK d \in Driver : \E r \in driver[d].receipts : writing.accepted = {<<d, r.event>>}
      BY <2>2 DEF LedgerInv
    <3>2. PICK r \in driver[d].receipts : writing.accepted = {<<d, r.event>>}
      BY <3>1
    <3>3. driver[d].seat = "held"
      BY <3>2 DEF LedgerInv, SoundAll, Sound
    <3>4. <<d, r.event>> \in CreditedOf(driver)
      BY <3>2, <3>3, CreditedPair
    <3> QED BY <2>2, <3>2, <3>4
  <2> QED BY <2>1, <2>2 DEF Flush
<1>7. Credited' = CreditedOf(driver) /\ Credited = CreditedOf(disk.driver)
  BY <1>1, Seen, SeenPrime
<1>8. /\ {d \in Driver : disk.driver[d].seat = "gone"} = GoneOf(disk.driver)
      /\ {d \in Driver : disk'.driver[d].seat = "gone"} = GoneOf(driver)
  BY <1>1, Seen, SeenPrime
<1> HIDE DEF left, new
<1>9. Ledger!Commit
  BY <1>5, <1>6, <1>7, <1>8 DEF Ledger!Commit, Ledger!LapsOf
<1> QED BY <1>4, <1>9

-----------------------------------------------------------------------------
(* The sockets *)

Alive(c) == c.ready = "open" /\ ~c.closed

\* A login under way on a socket that is still there says for whom it is.
Good(c) == c \in Connection /\ (c.ticket # "none" /\ Alive(c) => c.claim \in Driver)

\* Nobody gains a live socket.
Keeps(c, k) == Alive(k) /\ k.who # Nobody => Alive(c) /\ c.who = k.who

SocketInv ==
  /\ socket \in [Socket -> Connection]
  /\ \A s \in Socket : Good(socket[s])
  /\ \A s, o \in Socket :
       Alive(socket[s]) /\ Alive(socket[o]) /\ socket[s].who # Nobody
       /\ socket[s].who = socket[o].who => s = o

\* The invariant survives whatever gives nobody a live socket.
LEMMA AllKeep ==
  ASSUME SocketInv, socket' \in [Socket -> Connection],
         \A s \in Socket : Good(socket'[s]) /\ Keeps(socket[s], socket'[s])
  PROVE  SocketInv'
BY DEF SocketInv, Keeps

\* The same for a step of one socket.
LEMMA OneKeeps ==
  ASSUME SocketInv, NEW s \in Socket, NEW k, Good(k), Keeps(socket[s], k),
         socket' = [socket EXCEPT ![s] = k]
  PROVE  SocketInv'
<1>1. socket' \in [Socket -> Connection]
  BY DEF SocketInv, Good
<1>2. \A o \in Socket : Good(socket'[o]) /\ Keeps(socket[o], socket'[o])
  BY DEF SocketInv, Keeps
<1> QED BY <1>1, <1>2, AllKeep

\* What closeLimited makes of a connection.
LEMMA DroppedShut ==
  ASSUME NEW c, Good(c)
  PROVE  /\ Good(Dropped(c)) /\ ~Alive(Dropped(c))
         /\ Dropped(c).ticket = c.ticket /\ Dropped(c).who = c.who
         /\ Dropped(c).claim = c.claim
BY DEF Good, Alive, Dropped, Connection

\* A connection that loses its ticket, or takes one for a driver, is still one.
LEMMA TicketGood ==
  ASSUME NEW c, Good(c)
  PROVE  /\ Good([c EXCEPT !.ticket = "none"])
         /\ Keeps(c, [c EXCEPT !.ticket = "none"])
         /\ ~Alive(c) => ~Alive([c EXCEPT !.ticket = "none"])
         /\ [c EXCEPT !.ticket = "none"].who = c.who
BY DEF Good, Keeps, Alive, Connection

\* A connection the server closes is shut.
LEMMA ClosedShut ==
  ASSUME NEW c, Good(c)
  PROVE  LET u == [c EXCEPT !.closed = TRUE, !.ready = "closing"]
         IN  Good(u) /\ ~Alive(u)
BY DEF Good, Alive, Connection

\* An unused slot is shut.
LEMMA UnusedGood == Good(Unused) /\ ~Alive(Unused)
BY DEF Good, Alive, Unused, Connection

\* Sockets that come, log in, fail to, or are shut.
LEMMA LoginSockets ==
  ASSUME SocketInv, NEW s \in Socket,
         \/ Open(s) \/ (\E d \in Driver : BeginLogin(s, d))
         \/ (\E valid \in BOOLEAN : AbandonLogin(s, valid))
         \/ RefuseLogin(s) \/ ExpireLogin(s)
  PROVE  SocketInv'
<1> DEFINE c == socket[s]
<1>0. Good(c) /\ c \in Connection /\ DOMAIN socket = Socket
  BY DEF SocketInv
<1>1. CASE Open(s)
  <2> DEFINE k == [Unused EXCEPT !.ready = "open"]
  <2>1. Good(k) /\ Keeps(c, k)
    BY DEF Good, Keeps, Unused, Connection
  <2>2. socket' = [socket EXCEPT ![s] = k]
    BY <1>0, <1>1 DEF Open
  <2> HIDE DEF k
  <2> QED BY <2>1, <2>2, OneKeeps
<1>2. ASSUME NEW d \in Driver, BeginLogin(s, d)
      PROVE  SocketInv'
  <2> DEFINE k == [c EXCEPT !.claim = d, !.ticket = "live"]
             x == [Dropped(c) EXCEPT !.claim = d]
  <2>1. Good(k) /\ Keeps(c, k)
    BY <1>0 DEF Good, Keeps, Alive, Connection
  <2>2. Good(x) /\ Keeps(c, x)
    <3>1. Good(Dropped(c)) /\ ~Alive(Dropped(c))
      BY <1>0, DroppedShut
    <3> QED BY <3>1 DEF Good, Keeps, Alive, Connection
  <2>3. socket' = [socket EXCEPT ![s] = k] \/ socket' = [socket EXCEPT ![s] = x]
    BY <1>0, <1>2 DEF BeginLogin
  <2> HIDE DEF k, x
  <2> QED BY <2>1, <2>2, <2>3, OneKeeps
<1>3. ASSUME NEW valid, AbandonLogin(s, valid)
      PROVE  SocketInv'
  <2> DEFINE u == IF Live(s) THEN Dropped(c) ELSE c
             k == [u EXCEPT !.ticket = "none"]
  <2>1. Good(u) /\ Keeps(c, u)
    BY <1>0, DroppedShut DEF Keeps
  <2> HIDE DEF u
  <2>2. Good(k) /\ Keeps(u, k)
    BY <2>1, TicketGood
  <2>3. Keeps(c, k)
    BY <2>1, <2>2 DEF Keeps
  <2>4. socket' = [socket EXCEPT ![s] = k] \/ socket' = [socket EXCEPT ![s] = Unused]
    BY <1>0, <1>3 DEF AbandonLogin, u
  <2> HIDE DEF k
  <2>5. Keeps(c, Unused)
    BY UnusedGood DEF Keeps
  <2> QED BY <2>2, <2>3, <2>4, <2>5, OneKeeps, UnusedGood
<1>4. CASE RefuseLogin(s)
  <2> DEFINE u == Dropped(c)
             k == [u EXCEPT !.ticket = "none"]
  <2>1. Good(u) /\ ~Alive(u)
    BY <1>0, DroppedShut
  <2>3. socket' = [socket EXCEPT ![s] = k]
    BY <1>0, <1>4 DEF RefuseLogin
  <2> HIDE DEF u
  <2>2. Good(k) /\ ~Alive(k)
    BY <2>1, TicketGood
  <2> HIDE DEF k
  <2> QED BY <2>2, <2>3, OneKeeps DEF Keeps
<1>5. CASE ExpireLogin(s)
  <2>1. Good(Dropped(c)) /\ Keeps(c, Dropped(c))
    BY <1>0, DroppedShut DEF Keeps
  <2>2. socket' = [socket EXCEPT ![s] = Dropped(c)]
    BY <1>0, <1>5 DEF ExpireLogin
  <2> QED BY <2>1, <2>2, OneKeeps
<1> QED BY <1>1, <1>2, <1>3, <1>4, <1>5

\* A driver who logs in has the new socket and no other.
LEMMA FinishSockets ==
  ASSUME SocketInv, NEW s \in Socket, FinishLogin(s)
  PROVE  SocketInv' /\ socket[s].claim \in Driver
<1> DEFINE d == socket[s].claim
           k == [socket[s] EXCEPT !.who = d]
           named == [socket EXCEPT ![s] = k]
<1>0. socket \in [Socket -> Connection] /\ Good(socket[s]) /\ Live(s) /\ socket[s].ticket # "none"
  BY DEF SocketInv, FinishLogin
<1>1. d \in Driver
  BY <1>0 DEF Good, Live, Alive
<1>2. socket' = ReplaceOthers(named, s, d)
  BY <1>0 DEF FinishLogin
<1>3. Good(k) /\ k.who = d
  BY <1>0, <1>1 DEF Good, Connection
<1> HIDE DEF k, d
<1>4. \A o \in Socket :
        \/ o = s /\ socket'[o] = k
        \/ o # s /\ o \notin Attached(d) /\ socket'[o] = socket[o]
        \/ o # s /\ socket'[o] = [socket[o] EXCEPT !.closed = TRUE, !.ready = "closing"]
  BY <1>0, <1>2 DEF ReplaceOthers
<1>5. DOMAIN socket' = Socket
  BY <1>2 DEF ReplaceOthers
<1>6. \A o \in Socket :
        LET u == [socket[o] EXCEPT !.closed = TRUE, !.ready = "closing"]
        IN  Good(u) /\ ~Alive(u)
  BY ClosedShut DEF SocketInv
<1> HIDE DEF named
<1>7. \A o \in Socket : Good(socket'[o])
  BY <1>3, <1>4, <1>6 DEF SocketInv
<1>8. socket' \in [Socket -> Connection]
  <2>1. socket' = [o \in Socket |-> socket'[o]]
    BY <1>2 DEF ReplaceOthers
  <2> QED BY <1>7, <2>1 DEF Good
<1>9. \A o \in Socket : o # s /\ Alive(socket'[o]) =>
        socket'[o] = socket[o] /\ o \notin Attached(d)
  BY <1>4, <1>6
<1>10. \A o \in Socket : o # s /\ Alive(socket'[o]) => socket'[o].who # d
  BY <1>9 DEF Attached, Live, Alive
<1>11. socket'[s].who = d
  BY <1>3, <1>4
<1>12. ASSUME NEW o \in Socket, NEW i \in Socket,
              Alive(socket'[o]), Alive(socket'[i]), socket'[o].who # Nobody,
              socket'[o].who = socket'[i].who
       PROVE  o = i
  <2>1. CASE o = s \/ i = s
    BY <1>10, <1>11, <1>12, <2>1
  <2>2. CASE o # s /\ i # s
    BY <1>9, <1>12, <2>2 DEF SocketInv
  <2> QED BY <2>1, <2>2
<1> QED BY <1>1, <1>7, <1>8, <1>12 DEF SocketInv, d

\* Sockets that are closed by a client, the limits, race control or an event.
LEMMA ClosingSockets ==
  ASSUME SocketInv,
         \/ (\E s \in Socket : LimitMessage(s) \/ ClientCloses(s) \/ CloseEvent(s))
         \/ (\E d \in Driver : Kick(d))
         \/ BucketExpires \/ Crash
  PROVE  SocketInv'
<1>0. socket \in [Socket -> Connection] /\ \A s \in Socket : Good(socket[s])
  BY DEF SocketInv
<1>1. ASSUME NEW s \in Socket, LimitMessage(s) \/ ClientCloses(s) \/ CloseEvent(s)
      PROVE  SocketInv'
  <2> DEFINE c == socket[s]
             closing == [c EXCEPT !.ready = "closing"]
             gone == [Unused EXCEPT !.ticket = c.ticket]
  <2>1. Good(Dropped(c)) /\ Keeps(c, Dropped(c))
    BY <1>0, DroppedShut DEF Keeps
  <2>2. ClientCloses(s) => Good(closing) /\ Keeps(c, closing)
    BY <1>0 DEF ClientCloses, Good, Keeps, Alive, Connection
  <2>3. Good(gone) /\ Keeps(c, gone)
    BY <1>0 DEF Good, Keeps, Alive, Unused, Connection
  <2>4. \/ socket' = [socket EXCEPT ![s] = Dropped(c)]
        \/ ClientCloses(s) /\ socket' = [socket EXCEPT ![s] = closing]
        \/ socket' = [socket EXCEPT ![s] = gone]
    BY <1>0, <1>1 DEF LimitMessage, ClientCloses, CloseEvent
  <2> HIDE DEF closing, gone
  <2> QED BY <2>1, <2>2, <2>3, <2>4, OneKeeps
<1>2. ASSUME NEW d \in Driver, Kick(d)
      PROVE  SocketInv'
  <2>1. \A s \in Attached(d) :
          LET u == [socket[s] EXCEPT !.ready = "closing"] IN Good(u) /\ ~Alive(u)
    BY <1>0 DEF Attached, Live, Good, Alive, Connection
  <2>2. \A s \in Socket : Keeps(socket[s], socket[s])
    BY DEF Keeps
  <2>3. \A s \in Socket : Good(socket'[s]) /\ Keeps(socket[s], socket'[s])
    BY <1>0, <1>2, <2>1, <2>2 DEF Kick, Keeps
  <2>4. socket' \in [Socket -> Connection]
    BY <1>2, <2>3 DEF Kick, Good
  <2> QED BY <2>3, <2>4, AllKeep
<1>3. CASE BucketExpires
  <2>1. \A s \in Socket : socket[s].ticket = "live" =>
          LET u == [socket[s] EXCEPT !.ticket = "stale"] IN Good(u) /\ Keeps(socket[s], u)
    BY <1>0 DEF Good, Keeps, Alive, Connection
  <2>2. \A s \in Socket : Keeps(socket[s], socket[s])
    BY DEF Keeps
  <2>3. \A s \in Socket : Good(socket'[s]) /\ Keeps(socket[s], socket'[s])
    BY <1>0, <1>3, <2>1, <2>2 DEF BucketExpires
  <2>4. socket' \in [Socket -> Connection]
    BY <1>3, <2>3 DEF BucketExpires, Good
  <2> QED BY <2>3, <2>4, AllKeep
<1>4. CASE Crash
  <2>1. \A s \in Socket : socket'[s] = Unused
    BY <1>4 DEF Crash
  <2>2. socket' \in [Socket -> Connection]
    BY <1>4, UnusedGood DEF Crash, Good
  <2> QED BY <2>1, <2>2, UnusedGood, AllKeep DEF Keeps
<1> QED BY <1>1, <1>2, <1>3, <1>4

\* A handler that ends, with its write or without.
LEMMA WrittenSockets ==
  ASSUME SocketInv, writing.by \in Socket \cup {Server}, Flush \/ Rejection
  PROVE  SocketInv'
<1> DEFINE s == writing.by
           c == socket[s]
           left == [c EXCEPT !.closed = TRUE, !.ready = "closing"]
           free == [c EXCEPT !.ticket = "none"]
           out == [Dropped(c) EXCEPT !.ticket = "none"]
<1>0. socket \in [Socket -> Connection] /\ \A o \in Socket : Good(socket[o])
  BY DEF SocketInv
<1>1. CASE socket' = socket
  BY <1>1, <1>0, AllKeep DEF Keeps
<1>2. CASE s \in Socket /\ socket' # socket
  <2>1. Good(c)
    BY <1>0, <1>2
  <2>2. Good(left) /\ ~Alive(left)
    BY <2>1, ClosedShut
  <2>3. Good(free) /\ Keeps(c, free)
    BY <2>1, TicketGood
  <2>4. Good(out) /\ ~Alive(out)
    BY <2>1, DroppedShut, TicketGood
  <2>5. \/ socket' = [socket EXCEPT ![s] = left]
        \/ socket' = [socket EXCEPT ![s] = free]
        \/ socket' = [socket EXCEPT ![s] = out]
    BY <1>0, <1>2 DEF Flush, Rejection
  <2> HIDE DEF left, free, out, s
  <2> QED BY <1>2, <2>2, <2>3, <2>4, <2>5, OneKeeps DEF Keeps
<1>3. CASE s = Server /\ socket' # socket
  <2>1. s \notin DOMAIN socket
    BY <1>0, <1>3, RoomAssumption
  <2>2. socket' = socket
    BY <1>0, <1>3, <2>1 DEF Flush, Rejection
  <2> QED BY <1>3, <2>2
<1> QED BY <1>1, <1>2, <1>3

-----------------------------------------------------------------------------
(* Refinement *)

RoomInv ==
  /\ LedgerInv
  /\ SocketInv
  /\ writing.by \in Socket \cup {Server}

\* The empty room is an empty ledger.
LEMMA RoomInit == ASSUME Init PROVE RoomInv /\ Ledger!Init
<1>1. SoundAll(driver) /\ \A d \in Driver : driver[d].receipts = {} /\ driver[d].seat = "free"
  BY DEF Init, Core!Init, Core!FreeSeat, SoundAll, Sound, Seats
<1>2. disk.driver = driver /\ "driver" \in DOMAIN disk
  BY DEF Init, Stored
<1>3. writing.accepted = {} /\ writing.by = Server /\ acknowledged = {}
  BY DEF Init, Idle
<1>4. LedgerInv
  BY <1>1, <1>2, <1>3 DEF LedgerInv, Later
<1>5. SocketInv
  <2>1. socket = [s \in Socket |-> Unused]
    BY DEF Init
  <2>2. \A s \in Socket : Good(socket[s]) /\ ~Alive(socket[s])
    BY <2>1, UnusedGood
  <2>3. socket \in [Socket -> Connection]
    BY <2>1, UnusedGood DEF Good
  <2> QED BY <2>2, <2>3 DEF SocketInv
<1>6. Ledger!Init
  BY <1>1, <1>2, <1>3 DEF Ledger!Init, Credited, OnDisk
<1> QED BY <1>3, <1>4, <1>5, <1>6 DEF RoomInv

\* A driver with a live socket is one.
LEMMA SpeakerIsDriver ==
  ASSUME SocketInv, NEW s \in Socket, Message(s)
  PROVE  socket[s].who \in Driver
BY DEF SocketInv, Good, Message, Connection

\* The steps that concern a connection.
LEMMA SocketStep ==
  ASSUME RoomInv, NEW s \in Socket,
         \/ Open(s) \/ (\E d \in Driver : BeginLogin(s, d))
         \/ (\E valid \in BOOLEAN : AbandonLogin(s, valid))
         \/ FinishLogin(s) \/ RefuseLogin(s) \/ ExpireLogin(s)
         \/ LimitMessage(s) \/ ClientCloses(s) \/ CloseEvent(s)
  PROVE  RoomInv' /\ UNCHANGED Ledger!vars
<1>0. LedgerInv /\ SocketInv /\ SoundAll(driver) /\ writing.by \in Socket \cup {Server}
  BY DEF RoomInv, LedgerInv
<1>1. CASE \/ Open(s) \/ (\E d \in Driver : BeginLogin(s, d))
           \/ (\E valid \in BOOLEAN : AbandonLogin(s, valid))
           \/ RefuseLogin(s) \/ ExpireLogin(s)
  <2>1. UNCHANGED <<driver, disk, acknowledged, writing>>
    BY <1>1 DEF Open, BeginLogin, AbandonLogin, RefuseLogin, ExpireLogin, memory
  <2>2. LedgerInv' /\ UNCHANGED Ledger!vars
    BY <1>0, <2>1, QuietStep
  <2>3. SocketInv'
    BY <1>0, <1>1, LoginSockets
  <2> QED BY <1>0, <2>1, <2>2, <2>3 DEF RoomInv
<1>2. CASE FinishLogin(s)
  <2> DEFINE d == socket[s].claim
  <2>1. SocketInv' /\ d \in Driver
    BY <1>0, <1>2, FinishSockets
  <2>2. Core!Login(d) \/ Core!Resume(d)
    BY <1>2 DEF FinishLogin
  <2>3. Step(driver, driver')
    BY <1>0, <2>1, <2>2, SeatSteps
  <2>4. disk' = disk /\ acknowledged' = acknowledged /\ writing'.accepted = {}
        /\ writing'.by = s
    BY <1>2 DEF FinishLogin, Await
  <2>5. LedgerInv' /\ UNCHANGED Ledger!vars
    BY <1>0, <2>3, <2>4, MemoryStep DEF OnRecord
  <2> QED BY <2>1, <2>4, <2>5 DEF RoomInv
<1>3. CASE LimitMessage(s) \/ ClientCloses(s)
  <2>1. UNCHANGED <<driver, disk, acknowledged, writing>>
    BY <1>3 DEF LimitMessage, ClientCloses, memory
  <2>2. LedgerInv' /\ UNCHANGED Ledger!vars
    BY <1>0, <2>1, QuietStep
  <2>3. SocketInv'
    BY <1>0, <1>3, ClosingSockets
  <2> QED BY <1>0, <2>1, <2>2, <2>3 DEF RoomInv
<1>4. CASE CloseEvent(s)
  <2> DEFINE d == socket[s].who
  <2>1. SocketInv'
    BY <1>0, <1>4, ClosingSockets
  <2>2. d \in Driver \cup {Nobody}
    BY <1>0 DEF SocketInv, Good, Connection
  <2>3. disk' = disk /\ acknowledged' = acknowledged
    BY <1>4 DEF CloseEvent
  <2>4. CASE d # Nobody /\ Core!Disconnect(d) /\ Await(s, "event", {})
    <3>1. Step(driver, driver')
      BY <1>0, <2>2, <2>4, SeatSteps
    <3>2. writing'.accepted = {} /\ writing'.by = s
      BY <2>4 DEF Await
    <3>3. LedgerInv' /\ UNCHANGED Ledger!vars
      BY <1>0, <2>3, <3>1, <3>2, MemoryStep DEF OnRecord
    <3> QED BY <2>1, <3>2, <3>3 DEF RoomInv
  <2>5. CASE UNCHANGED <<memory, writing>>
    <3>1. LedgerInv' /\ UNCHANGED Ledger!vars
      BY <1>0, <2>3, <2>5, QuietStep DEF memory
    <3> QED BY <1>0, <2>1, <2>5, <3>1 DEF RoomInv
  <2> QED BY <1>4, <2>4, <2>5 DEF CloseEvent
<1> QED BY <1>1, <1>2, <1>3, <1>4

\* Messages leave the sockets as they are.
LEMMA MessageStep ==
  ASSUME RoomInv, NEW s \in Socket,
         \/ (\E e \in LapEvent : LapMessage(s, e)) \/ ReadyMessage(s)
         \/ TelemetryMessage(s) \/ LeaveMessage(s)
  PROVE  RoomInv' /\ UNCHANGED Ledger!vars
<1> DEFINE d == socket[s].who
<1>0. LedgerInv /\ SocketInv /\ SoundAll(driver) /\ writing.by \in Socket \cup {Server}
  BY DEF RoomInv, LedgerInv
<1>1. d \in Driver
  BY <1>0, SpeakerIsDriver DEF LapMessage, ReadyMessage, TelemetryMessage, LeaveMessage
<1>2. /\ UNCHANGED <<disk, socket, acknowledged>> /\ writing = Idle
      /\ writing'.by \in Socket \cup {Server}
  BY <1>0 DEF LapMessage, ReadyMessage, TelemetryMessage, LeaveMessage, Quiet, Message, Await
<1>3. SocketInv'
  BY <1>0, <1>2 DEF SocketInv
<1>4. LedgerInv' /\ UNCHANGED Ledger!vars
  <2>1. ASSUME NEW e \in LapEvent, LapMessage(s, e)
        PROVE  LedgerInv' /\ UNCHANGED Ledger!vars
    BY <1>0, <1>1, <2>1, LapMessageStep
  <2>2. CASE ReadyMessage(s) \/ TelemetryMessage(s) \/ LeaveMessage(s)
    <3>1. Core!SetReady(d) \/ Core!Telemetry(d) \/ Core!Release(d)
      BY <2>2 DEF ReadyMessage, TelemetryMessage, LeaveMessage
    <3>3. Step(driver, driver')
      <4>2. CASE Core!SetReady(d) \/ Core!Release(d)
        BY <1>0, <1>1, <4>2, SeatSteps
      <4>1. CASE Core!Telemetry(d)
        BY <1>0, <1>1, <4>1, LapSteps
      <4> QED BY <3>1, <4>1, <4>2
    <3>2. writing'.accepted = {}
      BY <1>2, <2>2 DEF ReadyMessage, TelemetryMessage, LeaveMessage, Await, Idle
    <3> QED BY <1>0, <1>2, <3>2, <3>3, MemoryStep DEF OnRecord
  <2> QED BY <2>1, <2>2
<1> QED BY <1>2, <1>3, <1>4 DEF RoomInv

\* Every step keeps the invariant, and a write is a step of the ledger.
LEMMA RoomStep ==
  ASSUME RoomInv, [Next]_vars
  PROVE  RoomInv' /\ [Ledger!Commit]_(Ledger!vars)
<1>0. LedgerInv /\ SocketInv /\ SoundAll(driver) /\ writing.by \in Socket \cup {Server}
  BY DEF RoomInv, LedgerInv
<1>1. ASSUME NEW s \in Socket,
             \/ Open(s) \/ (\E d \in Driver : BeginLogin(s, d))
             \/ (\E valid \in BOOLEAN : AbandonLogin(s, valid))
             \/ FinishLogin(s) \/ RefuseLogin(s) \/ ExpireLogin(s)
             \/ LimitMessage(s) \/ ClientCloses(s) \/ CloseEvent(s)
      PROVE  RoomInv' /\ UNCHANGED Ledger!vars
  BY <1>1, SocketStep
<1>2. ASSUME NEW s \in Socket,
             \/ (\E e \in LapEvent : LapMessage(s, e)) \/ ReadyMessage(s)
             \/ TelemetryMessage(s) \/ LeaveMessage(s)
      PROVE  RoomInv' /\ UNCHANGED Ledger!vars
  BY <1>2, MessageStep
<1>3. CASE BucketExpires
  <2>1. UNCHANGED <<driver, disk, acknowledged, writing>>
    BY <1>3 DEF BucketExpires, memory
  <2>2. LedgerInv' /\ UNCHANGED Ledger!vars
    BY <1>0, <2>1, QuietStep
  <2>3. SocketInv'
    BY <1>0, <1>3, ClosingSockets
  <2> QED BY <1>0, <2>1, <2>2, <2>3 DEF RoomInv
<1>4. CASE Command \/ RefusedCommand \/ TickEvent
  <2>1. Step(driver, driver')
    BY <1>0, <1>4, SessionSteps, TickSteps DEF Command, RefusedCommand, TickEvent
  <2>2. UNCHANGED <<disk, socket, acknowledged>>
    BY <1>4 DEF Command, RefusedCommand, TickEvent, Quiet
  <2>3. writing'.accepted = {} /\ writing'.by \in Socket \cup {Server}
    BY <1>4 DEF Command, RefusedCommand, TickEvent, Await, Idle
  <2>4. LedgerInv' /\ UNCHANGED Ledger!vars
    BY <1>0, <2>1, <2>2, <2>3, MemoryStep DEF OnRecord
  <2>5. SocketInv'
    BY <1>0, <2>2 DEF SocketInv
  <2> QED BY <2>3, <2>4, <2>5 DEF RoomInv
<1>5. ASSUME NEW d \in Driver, Kick(d)
      PROVE  RoomInv' /\ UNCHANGED Ledger!vars
  <2>1. Step(driver, driver')
    BY <1>0, <1>5, SeatSteps DEF Kick
  <2>2. disk' = disk /\ acknowledged' = acknowledged
    BY <1>5 DEF Kick
  <2>3. writing'.accepted = {} /\ writing'.by \in Socket \cup {Server}
    BY <1>5 DEF Kick, Await
  <2>4. LedgerInv' /\ UNCHANGED Ledger!vars
    BY <1>0, <2>1, <2>2, <2>3, MemoryStep DEF OnRecord
  <2>5. SocketInv'
    BY <1>0, <1>5, ClosingSockets
  <2> QED BY <2>3, <2>4, <2>5 DEF RoomInv
<1>6. ASSUME NEW d \in Driver, WindowLapses(d)
      PROVE  RoomInv' /\ UNCHANGED Ledger!vars
  <2>1. LedgerInv' /\ UNCHANGED Ledger!vars
    BY <1>0, <1>6, WindowStep
  <2>2. UNCHANGED <<socket, writing>>
    BY <1>6 DEF WindowLapses
  <2> QED BY <1>0, <2>1, <2>2 DEF RoomInv, SocketInv
<1>7. CASE Flush
  <2>1. LedgerInv' /\ Ledger!Commit
    BY <1>0, <1>7, FlushStep
  <2>2. SocketInv'
    BY <1>0, <1>7, WrittenSockets
  <2>3. writing'.by = Server
    BY <1>7 DEF Flush, Idle
  <2> QED BY <2>1, <2>2, <2>3 DEF RoomInv
<1>8. CASE Rejection
  <2>1. UNCHANGED <<driver, disk, acknowledged>>
    BY <1>8 DEF Rejection, memory
  <2>2. writing'.accepted = {} /\ writing'.by = Server
    BY <1>8 DEF Rejection, Idle
  <2>3. LedgerInv' /\ UNCHANGED Ledger!vars
    BY <1>0, <2>1, <2>2, QuietStep DEF OnRecord
  <2>4. SocketInv'
    BY <1>0, <1>8, WrittenSockets
  <2> QED BY <2>2, <2>3, <2>4 DEF RoomInv
<1>9. CASE Evict \/ Crash
  <2>1. Reloaded /\ UNCHANGED <<disk, acknowledged>>
    BY <1>9 DEF Evict, Crash
  <2>2. writing'.accepted = {} /\ writing'.by = Server
    BY <1>9 DEF Evict, Crash, Idle
  <2>3. LedgerInv' /\ UNCHANGED Ledger!vars
    BY <1>0, <2>1, <2>2, ReloadStep
  <2>4. SocketInv'
    <3>1. CASE Evict
      BY <1>0, <3>1 DEF Evict, SocketInv
    <3>2. CASE Crash
      BY <1>0, <3>2, ClosingSockets
    <3> QED BY <1>9, <3>1, <3>2
  <2> QED BY <2>2, <2>3, <2>4 DEF RoomInv
<1>10. CASE UNCHANGED vars
  <2>1. UNCHANGED <<driver, disk, acknowledged, writing, socket>>
    BY <1>10 DEF vars, memory
  <2>2. LedgerInv' /\ UNCHANGED Ledger!vars
    BY <1>0, <2>1, QuietStep
  <2> QED BY <1>0, <2>1, <2>2 DEF RoomInv, SocketInv
<1> QED
  BY <1>1, <1>2, <1>3, <1>4, <1>5, <1>6, <1>7, <1>8, <1>9, <1>10 DEF Next

\* The invariant behind the refinement: memory is never behind the disk, a
\* report waits for its answer only when it is on record, and a driver has one
\* live socket at most.
THEOREM RoomInductive == Spec => []RoomInv
<1>1. Init => RoomInv
  BY RoomInit
<1>2. RoomInv /\ [Next]_vars => RoomInv'
  BY RoomStep
<1> QED BY <1>1, <1>2, PTL DEF Spec

\* Through crashes, evictions, rejected writes, lost answers and repeats the
\* room does what the ledger promises: a lap is credited once, and one that was
\* acknowledged stays (webSocketMessage, persist).
THEOREM RoomImplementsLedger == Spec => LedgerImplemented
<1>1. Init => RoomInv /\ Ledger!Init
  BY RoomInit
<1>2. RoomInv /\ [Next]_vars => RoomInv' /\ [Ledger!Commit]_(Ledger!vars)
  BY RoomStep
<1> QED BY <1>1, <1>2, PTL DEF Spec, LedgerImplemented, Ledger!Spec

\* A driver never has two sockets that are open for messages, whatever logins,
\* kicks and closes overlap (finishSocketLogin).
THEOREM OneSocket == Spec => []OneSocketEach
<1>1. RoomInv => OneSocketEach
  <2> SUFFICES ASSUME RoomInv, NEW d \in Driver
               PROVE  Cardinality(Attached(d)) <= 1
    BY DEF OneSocketEach
  <2>1. \A s, o \in Attached(d) : s = o
    BY RoomAssumption DEF RoomInv, SocketInv, Attached, Live, Alive
  <2>2. CASE Attached(d) = {}
    BY <2>2, FS_EmptySet
  <2>3. ASSUME NEW s \in Attached(d)
        PROVE  Cardinality(Attached(d)) <= 1
    <3>1. Attached(d) = {s}
      BY <2>1
    <3> QED BY <3>1, FS_Singleton
  <2> QED BY <2>2, <2>3
<1> QED BY <1>1, RoomInductive, PTL

-----------------------------------------------------------------------------
(* The login budget *)

Logins(so) == {s \in Socket : so[s].ticket \in {"live", "stale"}}
Counted(so) == {s \in Socket : so[s].ticket \in {"live"}}

\* Only the socket whose login is being written is both named and in a login,
\* and the handlers of messages have none under way.
BudgetInv ==
  /\ active = Cardinality(Logins(socket))
  /\ spent \in Nat /\ spent >= Cardinality(Counted(socket))
  /\ writing.for = "login" => writing.by \in Logins(socket)
  /\ writing.for \notin {"login", "event"} => writing.by \notin Logins(socket)
  /\ \A s \in Logins(socket) : socket[s].who # Nobody =>
       writing.for = "login" /\ writing.by = s

\* There are finitely many logins to count.
LEMMA LoginsFinite ==
  ASSUME NEW so
  PROVE  /\ IsFiniteSet(Logins(so)) /\ IsFiniteSet(Counted(so))
         /\ Cardinality(Logins(so)) \in Nat /\ Cardinality(Counted(so)) \in Nat
BY RoomAssumption, FS_Subset, FS_CardinalityType DEF Logins, Counted

\* No ticket changes hands.
LEMMA SameTickets ==
  ASSUME \A s \in Socket : socket'[s].ticket = socket[s].ticket
  PROVE  Logins(socket') = Logins(socket) /\ Counted(socket') = Counted(socket)
BY DEF Logins, Counted

\* A ticket is given back.
LEMMA TicketReturned ==
  ASSUME BudgetInv, SocketInv, NEW s \in Logins(socket), NEW valid, Complete(s, valid),
         socket'[s].ticket = "none",
         \A o \in Socket \ {s} : socket'[o].ticket = socket[o].ticket
  PROVE  /\ Logins(socket') = Logins(socket) \ {s}
         /\ active' = Cardinality(Logins(socket'))
         /\ spent' \in Nat /\ spent' >= Cardinality(Counted(socket'))
<1>1. Logins(socket') = Logins(socket) \ {s} /\ Counted(socket') = Counted(socket) \ {s}
  BY DEF Logins, Counted
<1>2. Cardinality(Logins(socket')) = Cardinality(Logins(socket)) - 1
  BY <1>1, LoginsFinite, FS_RemoveElement
<1>3. CASE socket[s].ticket = "live"
  <2>0. s \in Counted(socket)
    BY <1>3 DEF Counted, Logins
  <2>1. Cardinality(Counted(socket')) = Cardinality(Counted(socket)) - 1
    BY <1>1, <2>0, LoginsFinite, FS_RemoveElement
  <2>2. Cardinality(Counted(socket)) \in Nat /\ Cardinality(Counted(socket')) \in Nat
    BY LoginsFinite
  <2>3. spent' \in {spent, spent - 1}
    BY DEF Complete
  <2>4. active' = active - 1
    BY DEF Complete
  <2> QED BY <1>1, <1>2, <2>1, <2>2, <2>3, <2>4 DEF BudgetInv
<1>4. CASE socket[s].ticket # "live"
  <2>1. Counted(socket') = Counted(socket)
    BY <1>1, <1>4 DEF Counted
  <2>2. spent' = spent /\ active' = active - 1
    BY <1>4 DEF Complete
  <2> QED BY <1>1, <1>2, <2>1, <2>2 DEF BudgetInv
<1> QED BY <1>3, <1>4

\* A login takes a ticket, or is turned away without one.
LEMMA BeginBudget ==
  ASSUME BudgetInv, SocketInv, NEW s \in Socket, NEW d \in Driver, BeginLogin(s, d)
  PROVE  BudgetInv'
<1> DEFINE c == socket[s]
           k == [c EXCEPT !.claim = d, !.ticket = "live"]
           x == [Dropped(c) EXCEPT !.claim = d]
<1>0. /\ DOMAIN socket = Socket /\ Good(c) /\ Live(s) /\ c.who = Nobody /\ c.claim = Nobody
      /\ writing' = writing /\ writing = Idle
  BY DEF SocketInv, BeginLogin
<1>1. c.ticket = "none"
  BY <1>0, RoomAssumption DEF Good, Live, Alive
<1>2. s \notin Logins(socket) /\ s \notin Counted(socket)
  BY <1>1 DEF Logins, Counted
<1>3. CASE socket' = [socket EXCEPT ![s] = k] /\ active' = active + 1 /\ spent' = spent + 1
  <2>1. k.ticket = "live" /\ k.who = Nobody
    BY <1>0 DEF Good, Connection
  <2> HIDE DEF k
  <2>2. /\ Logins(socket') = Logins(socket) \cup {s}
        /\ Counted(socket') = Counted(socket) \cup {s}
    BY <1>0, <1>3, <2>1 DEF Logins, Counted
  <2>3. /\ Cardinality(Logins(socket')) = Cardinality(Logins(socket)) + 1
        /\ Cardinality(Counted(socket')) = Cardinality(Counted(socket)) + 1
    BY <1>2, <2>2, LoginsFinite, FS_AddElement
  <2>4. Cardinality(Logins(socket)) \in Nat /\ Cardinality(Counted(socket)) \in Nat
    BY LoginsFinite
  <2>5. \A o \in Logins(socket') : socket'[o].who # Nobody => o \in Logins(socket)
                                    /\ socket[o].who # Nobody
    BY <1>0, <1>3, <2>1, <2>2 DEF Logins
  <2>6. writing'.for = "nothing" /\ writing.for = "nothing"
    BY <1>0 DEF Idle
  <2>7. \A o \in Logins(socket) : socket[o].who = Nobody
    BY <2>6 DEF BudgetInv
  <2>8. \A o \in Logins(socket') : socket'[o].who = Nobody
    BY <2>5, <2>7
  <2>9. active' = Cardinality(Logins(socket')) /\ spent' \in Nat
        /\ spent' >= Cardinality(Counted(socket'))
    BY <1>3, <2>3, <2>4 DEF BudgetInv
  <2>10. writing'.by \notin Logins(socket')
    BY <1>0, RoomAssumption DEF Idle, Logins
  <2> QED BY <2>6, <2>8, <2>9, <2>10 DEF BudgetInv
<1>4. CASE socket' = [socket EXCEPT ![s] = x] /\ UNCHANGED budget
  <2>1. x.ticket = "none" /\ x.who = Nobody
    BY <1>0, <1>1, DroppedShut DEF Good, Connection
  <2> HIDE DEF x
  <2>2. \A o \in Socket : socket'[o].ticket = socket[o].ticket /\ socket'[o].who = socket[o].who
    BY <1>0, <1>1, <1>4, <2>1
  <2>3. Logins(socket') = Logins(socket) /\ Counted(socket') = Counted(socket)
    BY <2>2, SameTickets
  <2>4. \A o \in Logins(socket) : socket'[o].who = socket[o].who
    BY <2>2 DEF Logins
  <2> QED BY <1>0, <1>4, <2>3, <2>4 DEF BudgetInv, budget
<1> QED BY <1>0, <1>3, <1>4 DEF BeginLogin

\* No ticket moves and nobody gains a socket; a handler may begin that answers
\* no message.
LEMMA SameBudget ==
  ASSUME BudgetInv, UNCHANGED budget,
         \A s \in Socket : /\ socket'[s].ticket = socket[s].ticket
                           /\ socket'[s].who # Nobody => socket[s].who # Nobody,
         writing' = writing \/ (writing = Idle /\ writing'.for = "event")
  PROVE  BudgetInv'
<1>1. Logins(socket') = Logins(socket) /\ Counted(socket') = Counted(socket)
  BY SameTickets
<1>2. \A s \in Logins(socket) : socket'[s].who # Nobody => socket[s].who # Nobody
  BY DEF Logins
<1>3. CASE writing' = writing
  BY <1>1, <1>2, <1>3 DEF BudgetInv, budget
<1>4. CASE writing = Idle /\ writing'.for = "event"
  <2>1. \A s \in Logins(socket) : socket[s].who = Nobody
    BY <1>4 DEF BudgetInv, Idle
  <2> QED BY <1>1, <1>2, <1>4, <2>1 DEF BudgetInv, budget
<1> QED BY <1>3, <1>4

\* A handler ends and gives its ticket back, or another login fails.
LEMMA ReturnBudget ==
  ASSUME BudgetInv, SocketInv, NEW s \in Logins(socket), NEW valid, Complete(s, valid),
         socket'[s].ticket = "none",
         \A o \in Socket \ {s} : /\ socket'[o].ticket = socket[o].ticket
                                 /\ socket'[o].who = socket[o].who,
         writing' = Idle, writing = Idle \/ (writing.for = "login" /\ writing.by = s)
  PROVE  BudgetInv'
<1>1. /\ Logins(socket') = Logins(socket) \ {s}
      /\ active' = Cardinality(Logins(socket'))
      /\ spent' \in Nat /\ spent' >= Cardinality(Counted(socket'))
  BY TicketReturned
<1>2. \A o \in Logins(socket') : socket'[o].who = Nobody
  <2>1. \A o \in Logins(socket) \ {s} : socket[o].who = Nobody
    BY DEF BudgetInv, Idle
  <2>2. \A o \in Logins(socket) \ {s} : socket'[o].who = socket[o].who
    BY DEF Logins
  <2> QED BY <1>1, <2>1, <2>2
<1>3. writing'.for = "nothing" /\ writing'.by \notin Logins(socket')
  BY RoomAssumption DEF Idle, Logins
<1> QED BY <1>1, <1>2, <1>3 DEF BudgetInv

\* A message is answered: its socket has no login under way.
LEMMA MessageBudget ==
  ASSUME BudgetInv, NEW s \in Socket, Message(s), Quiet, writing' = writing
         \/ (writing'.by = s /\ writing'.for \in {"message", "telemetry", "leave"})
  PROVE  BudgetInv'
<1>1. socket' = socket /\ UNCHANGED budget /\ writing = Idle /\ socket[s].who # Nobody
  BY DEF Quiet, Message
<1>2. \A o \in Logins(socket) : socket[o].who = Nobody
  BY <1>1 DEF BudgetInv, Idle
<1>3. CASE writing' = writing
  BY <1>1, <1>3, SameBudget
<1>4. CASE writing'.by = s /\ writing'.for \in {"message", "telemetry", "leave"}
  BY <1>1, <1>2, <1>4 DEF BudgetInv, budget
<1> QED BY <1>3, <1>4

\* The login that is being written keeps its ticket until the write is done.
LEMMA FinishBudget ==
  ASSUME BudgetInv, SocketInv, NEW s \in Socket, FinishLogin(s)
  PROVE  BudgetInv'
<1> DEFINE d == socket[s].claim
           named == [socket EXCEPT ![s].who = d]
<1>0. /\ s \in Logins(socket) /\ writing = Idle /\ UNCHANGED budget
      /\ writing'.for = "login" /\ writing'.by = s
      /\ socket \in [Socket -> Connection] /\ socket' = ReplaceOthers(named, s, d)
  BY DEF FinishLogin, Logins, SocketInv, Good, Connection, Await
<1>1. \A o \in Socket : socket[o] \in Connection
  BY <1>0
<1>2. \A o \in Socket : socket'[o].ticket = socket[o].ticket
                        /\ (o # s => socket'[o].who = socket[o].who)
  BY <1>0, <1>1 DEF ReplaceOthers, Connection
<1>3. Logins(socket') = Logins(socket) /\ Counted(socket') = Counted(socket)
  BY <1>2, SameTickets
<1>4. \A o \in Logins(socket') : socket'[o].who # Nobody => o = s
  <2>1. \A o \in Logins(socket) : socket[o].who = Nobody
    BY <1>0 DEF BudgetInv, Idle
  <2>2. \A o \in Logins(socket) : o \in Socket
    BY DEF Logins
  <2> QED BY <1>2, <1>3, <2>1, <2>2
<1> QED BY <1>0, <1>3, <1>4 DEF BudgetInv, budget

\* A login that fails gives its ticket back.
LEMMA FailBudget ==
  ASSUME BudgetInv, SocketInv, NEW s \in Socket,
         (\E valid \in BOOLEAN : AbandonLogin(s, valid)) \/ RefuseLogin(s)
  PROVE  BudgetInv'
<1> DEFINE c == socket[s]
           u == IF Live(s) THEN Dropped(c) ELSE c
           k == [u EXCEPT !.ticket = "none"]
           x == [Dropped(c) EXCEPT !.ticket = "none"]
<1>0. /\ DOMAIN socket = Socket /\ Good(c) /\ writing = Idle /\ writing' = writing
      /\ c.ticket # "none" /\ s \in Logins(socket)
      /\ \E valid \in BOOLEAN : Complete(s, valid)
  BY DEF SocketInv, AbandonLogin, RefuseLogin, Good, Connection, Logins
<1>1. Good(u) /\ Good(Dropped(c))
  BY <1>0, DroppedShut
<1>2. \/ socket' = [socket EXCEPT ![s] = k] \/ socket' = [socket EXCEPT ![s] = Unused]
      \/ socket' = [socket EXCEPT ![s] = x]
  BY <1>0 DEF AbandonLogin, RefuseLogin
<1> HIDE DEF u
<1>3. k.ticket = "none" /\ x.ticket = "none" /\ Unused.ticket = "none"
  BY <1>1 DEF Good, Connection, Unused
<1> HIDE DEF k, x
<1>4. socket'[s].ticket = "none" /\ \A o \in Socket \ {s} : socket'[o] = socket[o]
  BY <1>0, <1>2, <1>3
<1>5. PICK valid \in BOOLEAN : Complete(s, valid)
  BY <1>0
<1> QED BY <1>0, <1>4, <1>5, ReturnBudget

\* So does one whose write is done or rejected.
LEMMA WriteBudget ==
  ASSUME BudgetInv, SocketInv, writing.by \in Socket \cup {Server}, Flush \/ Rejection
  PROVE  BudgetInv'
<1> DEFINE s == writing.by
           c == socket[s]
           left == [c EXCEPT !.closed = TRUE, !.ready = "closing"]
           free == [c EXCEPT !.ticket = "none"]
           out == [Dropped(c) EXCEPT !.ticket = "none"]
<1>0. writing' = Idle /\ DOMAIN socket = Socket /\ \A o \in Socket : Good(socket[o])
  BY DEF Flush, Rejection, SocketInv
<1>1. CASE writing.for = "login"
  <2>1. s \in Logins(socket) /\ s \in Socket /\ s # Server
    BY <1>1, RoomAssumption DEF BudgetInv, Logins
  <2>2. Complete(s, TRUE)
    BY <1>1 DEF Flush, Rejection
  <2>3. socket' = [socket EXCEPT ![s] = free] \/ socket' = [socket EXCEPT ![s] = out]
    BY <1>0, <1>1, <2>1 DEF Flush, Rejection
  <2>4. free.ticket = "none" /\ out.ticket = "none"
    <3>1. Good(c) /\ Good(Dropped(c))
      BY <1>0, <2>1, DroppedShut
    <3> QED BY <3>1 DEF Good, Connection
  <2> HIDE DEF free, out
  <2>5. socket'[s].ticket = "none" /\ \A o \in Socket \ {s} : socket'[o] = socket[o]
    BY <1>0, <2>1, <2>3, <2>4
  <2> QED BY <1>0, <1>1, <2>1, <2>2, <2>5, ReturnBudget
<1>2. CASE writing.for # "login"
  <2>1. UNCHANGED budget
    BY <1>2 DEF Flush, Rejection
  <2>2. \A o \in Logins(socket) : socket[o].who = Nobody
    BY <1>2 DEF BudgetInv
  <2>3. \A o \in Socket : /\ socket'[o].ticket = socket[o].ticket
                          /\ socket'[o].who = socket[o].who
    <3>1. CASE socket' = socket
      BY <3>1
    <3>2. CASE s \in Socket /\ socket' # socket
      <4>1. Good(c) /\ Good(Dropped(c)) /\ Dropped(c).ticket = c.ticket /\ Dropped(c).who = c.who
        BY <1>0, <3>2, DroppedShut
      <4>2. left.ticket = c.ticket /\ left.who = c.who
        BY <4>1 DEF Good, Connection
      <4>3. \/ socket' = [socket EXCEPT ![s] = left]
            \/ writing.for # "event" /\ socket' = [socket EXCEPT ![s] = out]
        BY <1>0, <1>2, <3>2 DEF Flush, Rejection
      <4>4. writing.for # "event" => c.ticket = "none"
        BY <1>2, <3>2, <4>1 DEF BudgetInv, Logins, Good, Connection
      <4>5. out.ticket = "none" /\ out.who = c.who
        BY <4>1 DEF Good, Connection
      <4> HIDE DEF left, out
      <4>6. \A o \in Socket \ {s} : socket'[o] = socket[o]
        BY <1>0, <4>3
      <4>7. socket'[s].ticket = c.ticket /\ socket'[s].who = c.who
        BY <1>0, <3>2, <4>2, <4>3, <4>4, <4>5
      <4> QED BY <4>6, <4>7
    <3>3. CASE s \notin Socket
      <4>1. s \notin DOMAIN socket
        BY <1>0, <3>3
      <4>2. s = Server
        BY <3>3
      <4>3. socket' = socket
        BY <1>0, <1>2, <4>1, <4>2 DEF Flush, Rejection, SocketInv
      <4> QED BY <4>3
    <3> QED BY <3>1, <3>2, <3>3
  <2>4. Logins(socket') = Logins(socket) /\ Counted(socket') = Counted(socket)
    BY <2>3, SameTickets
  <2>5. \A o \in Logins(socket) : socket'[o].who = Nobody
    BY <2>2, <2>3 DEF Logins
  <2>6. writing'.for = "nothing" /\ writing'.by \notin Logins(socket)
    BY <1>0, RoomAssumption DEF Idle, Logins
  <2> QED BY <2>1, <2>4, <2>5, <2>6 DEF BudgetInv, budget
<1> QED BY <1>1, <1>2

\* Every step keeps the budget.
LEMMA BudgetStep ==
  ASSUME BudgetInv, SocketInv, writing.by \in Socket \cup {Server}, [Next]_vars
  PROVE  BudgetInv'
<1>0. DOMAIN socket = Socket /\ \A s \in Socket : Good(socket[s])
  BY DEF SocketInv
<1>1. ASSUME NEW s \in Socket, NEW d \in Driver, BeginLogin(s, d)
      PROVE  BudgetInv'
  BY <1>1, BeginBudget
<1>2. ASSUME NEW s \in Socket, (\E valid \in BOOLEAN : AbandonLogin(s, valid)) \/ RefuseLogin(s)
      PROVE  BudgetInv'
  BY <1>2, FailBudget
<1>3. ASSUME NEW s \in Socket, FinishLogin(s)
      PROVE  BudgetInv'
  BY <1>3, FinishBudget
<1>4. ASSUME NEW s \in Socket,
             \/ (\E e \in LapEvent : LapMessage(s, e)) \/ ReadyMessage(s)
             \/ TelemetryMessage(s) \/ LeaveMessage(s)
      PROVE  BudgetInv'
  <2>1. Message(s) /\ Quiet
    BY <1>4 DEF LapMessage, ReadyMessage, TelemetryMessage, LeaveMessage
  <2>2. \/ writing' = writing
        \/ writing'.by = s /\ writing'.for \in {"message", "telemetry", "leave"}
    BY <1>4 DEF LapMessage, ReadyMessage, TelemetryMessage, LeaveMessage, Await
  <2> QED BY <2>1, <2>2, MessageBudget
<1>5. ASSUME NEW s \in Socket,
             Open(s) \/ ExpireLogin(s) \/ LimitMessage(s) \/ ClientCloses(s) \/ CloseEvent(s)
      PROVE  BudgetInv'
  <2> DEFINE c == socket[s]
             opened == [Unused EXCEPT !.ready = "open"]
             closing == [c EXCEPT !.ready = "closing"]
             gone == [Unused EXCEPT !.ticket = c.ticket]
  <2>1. Good(c) /\ Dropped(c).ticket = c.ticket /\ Dropped(c).who = c.who
    BY <1>0, DroppedShut
  <2>2. /\ closing.ticket = c.ticket /\ closing.who = c.who
        /\ gone.ticket = c.ticket /\ gone.who = Nobody
        /\ opened.ticket = Unused.ticket /\ opened.who = Nobody
    BY <2>1 DEF Good, Connection, Unused
  <2>3. \/ c = Unused /\ socket' = [socket EXCEPT ![s] = opened]
        \/ socket' = [socket EXCEPT ![s] = Dropped(c)]
        \/ socket' = [socket EXCEPT ![s] = closing]
        \/ socket' = [socket EXCEPT ![s] = gone]
    BY <1>0, <1>5 DEF Open, ExpireLogin, LimitMessage, ClientCloses, CloseEvent
  <2>4. UNCHANGED budget /\ (writing' = writing \/ (writing = Idle /\ writing'.for = "event"))
    BY <1>5 DEF Open, ExpireLogin, LimitMessage, ClientCloses, CloseEvent, Await
  <2> HIDE DEF opened, closing, gone
  <2>5. \A o \in Socket : /\ socket'[o].ticket = socket[o].ticket
                          /\ socket'[o].who # Nobody => socket[o].who # Nobody
    BY <1>0, <2>1, <2>2, <2>3
  <2> QED BY <2>4, <2>5, SameBudget
<1>6. CASE BucketExpires
  <2>1. \A s \in Socket : /\ socket'[s].who = socket[s].who
                          /\ socket'[s].ticket = IF socket[s].ticket = "live" THEN "stale"
                                                 ELSE socket[s].ticket
    BY <1>0, <1>6 DEF BucketExpires, Good, Connection
  <2>2. Logins(socket') = Logins(socket) /\ Counted(socket') = {}
    BY <2>1 DEF Logins, Counted
  <2>3. \A s \in Logins(socket) : socket'[s].who = socket[s].who
    BY <2>1 DEF Logins
  <2>4. active' = active /\ spent' = 0 /\ writing' = writing
    BY <1>6 DEF BucketExpires
  <2> QED BY <2>2, <2>3, <2>4, FS_EmptySet DEF BudgetInv
<1>7. CASE Command \/ RefusedCommand \/ TickEvent \/ (\E d \in Driver : WindowLapses(d))
           \/ Evict \/ UNCHANGED vars
  <2>1. UNCHANGED <<socket, budget>>
    BY <1>7 DEF Command, RefusedCommand, TickEvent, WindowLapses, Evict, vars, Quiet, budget
  <2>2. writing' = writing \/ (writing = Idle /\ writing'.for = "event")
    BY <1>7 DEF Command, RefusedCommand, TickEvent, WindowLapses, Evict, vars, Await
  <2> QED BY <2>1, <2>2, SameBudget
<1>8. ASSUME NEW d \in Driver, Kick(d)
      PROVE  BudgetInv'
  <2>1. \A s \in Socket : /\ socket'[s].ticket = socket[s].ticket
                          /\ socket'[s].who = socket[s].who
    BY <1>0, <1>8 DEF Kick, Good, Connection
  <2>2. UNCHANGED budget /\ writing = Idle /\ writing'.for = "event"
    BY <1>8 DEF Kick, Await
  <2> QED BY <2>1, <2>2, SameBudget
<1>9. CASE Flush \/ Rejection
  BY <1>9, WriteBudget
<1>10. CASE Crash
  <2>1. \A s \in Socket : socket'[s] = Unused
    BY <1>10 DEF Crash
  <2>2. Logins(socket') = {} /\ Counted(socket') = {}
    BY <2>1 DEF Logins, Counted, Unused
  <2>3. active' = 0 /\ spent' = spent /\ writing' = Idle
    BY <1>10 DEF Crash
  <2> QED BY <2>2, <2>3, FS_EmptySet DEF BudgetInv, Idle
<1> QED
  BY <1>1, <1>2, <1>3, <1>4, <1>5, <1>6, <1>7, <1>8, <1>9, <1>10 DEF Next

\* What keeps the budget is inductive.
LEMMA BudgetInductive == Spec => []BudgetInv
<1>1. Init => BudgetInv
  <2> SUFFICES ASSUME Init PROVE BudgetInv
    OBVIOUS
  <2>1. \A s \in Socket : socket[s] = Unused
    BY DEF Init
  <2>2. Logins(socket) = {} /\ Counted(socket) = {}
    BY <2>1 DEF Logins, Counted, Unused
  <2>3. active = 0 /\ spent = 0 /\ writing = Idle
    BY DEF Init
  <2> QED BY <2>2, <2>3, FS_EmptySet DEF BudgetInv, Idle
<1>2. RoomInv /\ BudgetInv /\ [Next]_vars => BudgetInv'
  BY BudgetStep DEF RoomInv
<1> QED BY <1>1, <1>2, RoomInductive, PTL DEF Spec

\* Every login under way holds one ticket, however it ends and whatever closed
\* its socket meanwhile, and the failure window never forgets one that is
\* counted in it (LoginFailureBudget.begin, complete).
THEOREM BudgetStaysBalanced == Spec => []BudgetBalanced
<1>1. BudgetInv => BudgetBalanced
  BY DEF BudgetInv, BudgetBalanced, Logins, Counted
<1> QED BY <1>1, BudgetInductive, PTL

-----------------------------------------------------------------------------
(* The types.  What RaceCoreProofs proves of the race core holds of the    *)
(* core in the room: its definitions are the same, its variables are the   *)
(* room's memory.                                                          *)

\* The race core is given the constants it asks for.
LEMMA CoreConstants == CoreProofs!LapEventAssumption /\ CoreProofs!BoundAssumption
<1>1. CoreProofs!BoundAssumption
  BY CoreAssumption, Zenon DEF Core!BoundAssumption, CoreProofs!BoundAssumption
<1>2. CoreProofs!LapEventAssumption
  BY CoreAssumption, Zenon
  DEF Core!LapEventAssumption, CoreProofs!LapEventAssumption, Core!IsFiniteSet,
      CoreProofs!IsFiniteSet
<1> QED BY <1>1, <1>2

\* The completion checks of both are one.
LEMMA SameSettle ==
  ASSUME NEW r, NEW ds, NEW ar, Core!Settle(r, ds, ar)
  PROVE  CoreProofs!Settle(r, ds, ar)
BY Zenon
  DEF Core!Settle, CoreProofs!Settle, Core!Cuts, CoreProofs!Cuts, Core!Cardinality,
      CoreProofs!Cardinality, Core!IsFiniteSet, CoreProofs!IsFiniteSet, Core!SettledRoom,
      CoreProofs!SettledRoom, Core!TimedDrivers, CoreProofs!TimedDrivers, Core!SettledArchive,
      CoreProofs!SettledArchive, Core!Held, CoreProofs!Held, Core!TimedDone, CoreProofs!TimedDone,
      Core!RaceRoom, CoreProofs!RaceRoom, Core!TimedRoom, CoreProofs!TimedRoom, Core!Standing,
      CoreProofs!Standing, Core!RaceArchive, CoreProofs!RaceArchive, Core!TimedArchive,
      CoreProofs!TimedArchive, Core!RaceDone, CoreProofs!RaceDone, Core!NoStage,
      CoreProofs!NoStage, Core!Archived, CoreProofs!Archived, Core!Awaited, CoreProofs!Awaited,
      Core!ResultPhase, CoreProofs!ResultPhase, Core!ResultPhases, CoreProofs!ResultPhases,
      Core!Terminal, CoreProofs!Terminal

\* Coming, going and getting ready are steps of the race core.
LEMMA SeatsAreCore ==
  ASSUME NEW d \in Driver,
         \/ Core!Login(d) \/ Core!Resume(d) \/ Core!Disconnect(d) \/ Core!Release(d)
         \/ Core!SetReady(d)
  PROVE  CoreProofs!Seats
<1>1. Core!Login(d) => CoreProofs!Login(d)
  BY Zenon
  DEF Core!Login, CoreProofs!Login, Core!FreeSeat, CoreProofs!FreeSeat, Core!NoStage,
      CoreProofs!NoStage
<1>2. Core!Resume(d) => CoreProofs!Resume(d)
  BY Zenon
  DEF Core!Resume, CoreProofs!Resume, Core!RaceRoom, CoreProofs!RaceRoom, Core!RaceArchive,
      CoreProofs!RaceArchive, Core!RaceDone, CoreProofs!RaceDone, Core!Archived,
      CoreProofs!Archived, Core!Held, CoreProofs!Held, Core!Awaited, CoreProofs!Awaited,
      Core!NoStage, CoreProofs!NoStage, Core!ResultPhase, CoreProofs!ResultPhase,
      Core!ResultPhases, CoreProofs!ResultPhases, Core!Terminal, CoreProofs!Terminal
<1>3. Core!Disconnect(d) => CoreProofs!Disconnect(d)
  BY SameSettle, Zenon
  DEF Core!Disconnect, CoreProofs!Disconnect, Core!Terminal, CoreProofs!Terminal,
      Core!ResultPhases, CoreProofs!ResultPhases
<1>4. Core!Release(d) => CoreProofs!Release(d)
  BY Zenon
  DEF Core!Release, CoreProofs!Release, Core!Terminal, CoreProofs!Terminal, Core!Cuts,
      CoreProofs!Cuts, Core!Cardinality, CoreProofs!Cardinality, Core!IsFiniteSet,
      CoreProofs!IsFiniteSet, Core!SettledRoom, CoreProofs!SettledRoom, Core!TimedDrivers,
      CoreProofs!TimedDrivers, Core!GoneSeat, CoreProofs!GoneSeat, Core!Archived,
      CoreProofs!Archived, Core!SettledArchive, CoreProofs!SettledArchive, Core!ResultIsComplete,
      CoreProofs!ResultIsComplete, Core!Held, CoreProofs!Held, Core!TimedDone,
      CoreProofs!TimedDone, Core!RaceRoom, CoreProofs!RaceRoom, Core!TimedRoom,
      CoreProofs!TimedRoom, Core!Standing, CoreProofs!Standing, Core!FreeSeat,
      CoreProofs!FreeSeat, Core!NoStage, CoreProofs!NoStage, Core!ResultPhase,
      CoreProofs!ResultPhase, Core!ResultPhases, CoreProofs!ResultPhases, Core!RaceArchive,
      CoreProofs!RaceArchive, Core!TimedArchive, CoreProofs!TimedArchive, Core!RaceDone,
      CoreProofs!RaceDone, Core!Awaited, CoreProofs!Awaited
<1>5. Core!SetReady(d) => CoreProofs!SetReady(d)
  BY Zenon
  DEF Core!SetReady, CoreProofs!SetReady
<1> QED BY <1>1, <1>2, <1>3, <1>4, <1>5 DEF CoreProofs!Seats

\* So are the reports of a driver.
LEMMA LapsAreCore ==
  ASSUME NEW d \in Driver,
         \/ Core!Telemetry(d)
         \/ \E e \in LapEvent : Core!RejectLap(d, e)
         \/ \E e \in LapEvent, recovered \in BOOLEAN : Core!CompleteLap(d, e, recovered)
  PROVE  CoreProofs!Laps
<1>1. Core!Telemetry(d) => CoreProofs!Telemetry(d)
  BY Zenon
  DEF Core!Telemetry, CoreProofs!Telemetry, Core!Prepared, CoreProofs!Prepared, Core!Terminal,
      CoreProofs!Terminal
<1>2. ASSUME NEW e \in LapEvent, Core!RejectLap(d, e)
      PROVE  CoreProofs!RejectLap(d, e)
  BY <1>2, Zenon
  DEF Core!RejectLap, CoreProofs!RejectLap, Core!Reported, CoreProofs!Reported, Core!LapAdmitted,
      CoreProofs!LapAdmitted, Core!LapValid, CoreProofs!LapValid, Core!Prepared,
      CoreProofs!Prepared, Core!Terminal, CoreProofs!Terminal, Core!ResultPhases,
      CoreProofs!ResultPhases, Core!NoStage, CoreProofs!NoStage
<1>3. ASSUME NEW e \in LapEvent, NEW recovered \in BOOLEAN, Core!CompleteLap(d, e, recovered)
      PROVE  CoreProofs!CompleteLap(d, e, recovered)
  BY <1>3, SameSettle, Zenon
  DEF Core!CompleteLap, CoreProofs!CompleteLap, Core!Prepared, CoreProofs!Prepared, Core!Credited,
      CoreProofs!Credited, Core!Finishes, CoreProofs!Finishes, Core!Reported, CoreProofs!Reported,
      Core!LapAdmitted, CoreProofs!LapAdmitted, Core!LapValid, CoreProofs!LapValid, Core!Terminal,
      CoreProofs!Terminal, Core!ResultPhases, CoreProofs!ResultPhases, Core!NoStage,
      CoreProofs!NoStage
<1> QED BY <1>1, <1>2, <1>3 DEF CoreProofs!Laps

\* So are the commands of race control.
LEMMA SessionsAreCore ==
  ASSUME Core!ToRace \/ Core!ToLobby \/ Core!RefuseFinish
  PROVE  CoreProofs!Sessions
<1>1. Core!ToRace => CoreProofs!ToRace
  BY Zenon
  DEF Core!ToRace, CoreProofs!ToRace, Core!EventOpen, CoreProofs!EventOpen, Core!Closed,
      CoreProofs!Closed, Core!Opened, CoreProofs!Opened, Core!NoClock, CoreProofs!NoClock,
      Core!Gridded, CoreProofs!Gridded, Core!Stage, CoreProofs!Stage, Core!Archived,
      CoreProofs!Archived, Core!ResultIsComplete, CoreProofs!ResultIsComplete, Core!Each,
      CoreProofs!Each, Core!Reset, CoreProofs!Reset, Core!NoStage, CoreProofs!NoStage,
      Core!ResultPhase, CoreProofs!ResultPhase, Core!ResultPhases, CoreProofs!ResultPhases,
      Core!Held, CoreProofs!Held, Core!Standing, CoreProofs!Standing
<1>2. Core!ToLobby => CoreProofs!ToLobby
  BY Zenon
  DEF Core!ToLobby, CoreProofs!ToLobby, Core!NoClock, CoreProofs!NoClock, Core!NoStage,
      CoreProofs!NoStage, Core!Away, CoreProofs!Away, Core!Pruned, CoreProofs!Pruned,
      Core!Cleared, CoreProofs!Cleared, Core!Closed, CoreProofs!Closed, Core!Held,
      CoreProofs!Held, Core!GoneSeat, CoreProofs!GoneSeat, Core!Each, CoreProofs!Each, Core!Reset,
      CoreProofs!Reset, Core!Archived, CoreProofs!Archived, Core!ResultIsComplete,
      CoreProofs!ResultIsComplete, Core!FreeSeat, CoreProofs!FreeSeat, Core!Standing,
      CoreProofs!Standing, Core!ResultPhase, CoreProofs!ResultPhase, Core!ResultPhases,
      CoreProofs!ResultPhases
<1>3. Core!RefuseFinish => CoreProofs!RefuseFinish
  BY Zenon
  DEF Core!RefuseFinish, CoreProofs!RefuseFinish, Core!NoStage, CoreProofs!NoStage, Core!Closed,
      CoreProofs!Closed, Core!Archived, CoreProofs!Archived, Core!ResultIsComplete,
      CoreProofs!ResultIsComplete, Core!ResultPhase, CoreProofs!ResultPhase, Core!ResultPhases,
      CoreProofs!ResultPhases, Core!Held, CoreProofs!Held
<1> QED BY <1>1, <1>2, <1>3 DEF CoreProofs!Sessions

\* So are the parts of a clock tick.
LEMMA TicksAreCore ==
  ASSUME Ticks
  PROVE  CoreProofs!Time
<1>1. Core!TickLobby => CoreProofs!TickLobby
  BY Zenon
  DEF Core!TickLobby, CoreProofs!TickLobby, Core!Away, CoreProofs!Away, Core!Pruned,
      CoreProofs!Pruned, Core!Held, CoreProofs!Held, Core!GoneSeat, CoreProofs!GoneSeat,
      Core!FreeSeat, CoreProofs!FreeSeat, Core!NoStage, CoreProofs!NoStage
<1>2. Core!TickRecovery => CoreProofs!TickRecovery
  BY SameSettle, Zenon
  DEF Core!TickRecovery, CoreProofs!TickRecovery, Core!Held, CoreProofs!Held, Core!Each,
      CoreProofs!Each, Core!Lapsed, CoreProofs!Lapsed
<1> QED BY <1>1, <1>2 DEF Ticks, CoreProofs!Time, CoreProofs!Tick

\* The types of both are one.
LEMMA SameTypes ==
  /\ Core!TypeOK <=> CoreProofs!TypeOK
  /\ Core!TypeOK' <=> CoreProofs!TypeOK'
BY Zenon
  DEF Core!TypeOK, CoreProofs!TypeOK, Core!Room, CoreProofs!Room, Core!Participant,
      CoreProofs!Participant, Core!Stage, CoreProofs!Stage, Core!Result, CoreProofs!Result,
      Core!Phase, CoreProofs!Phase, Core!NoStage, CoreProofs!NoStage, Core!Status,
      CoreProofs!Status, Core!Receipt, CoreProofs!Receipt, Core!ResultPhases,
      CoreProofs!ResultPhases, Core!Terminal, CoreProofs!Terminal

\* The memory keeps its types through every step of the core.
LEMMA MemoryTypes ==
  ASSUME Core!TypeOK,
         \/ CoreProofs!Seats \/ CoreProofs!Laps \/ CoreProofs!Sessions \/ CoreProofs!Time
         \/ UNCHANGED memory
  PROVE  Core!TypeOK'
<1>1. CASE UNCHANGED memory
  BY <1>1, Zenon DEF Core!TypeOK, memory
<1>2. CASE CoreProofs!Seats \/ CoreProofs!Laps \/ CoreProofs!Sessions \/ CoreProofs!Time
  <2>1. CoreProofs!Next
    BY <1>2 DEF CoreProofs!Next
  <2> QED BY <2>1, SameTypes, CoreConstants, CoreProofs!StepType
<1> QED BY <1>1, <1>2

\* A recovery window that passed leaves a participant.
LEMMA PastType ==
  ASSUME NEW p \in Core!Participant
  PROVE  Past(p) \in Core!Participant
BY Zenon DEF Past, Core!Participant

\* So does reading the disk.
LEMMA ReloadedType ==
  ASSUME RoomTypeOK, Reloaded
  PROVE  Core!TypeOK'
<1> DEFINE r == disk.room
           fresh == [r EXCEPT !.stage = r.stages + 1, !.stages = r.stages + 1]
<1>1. /\ r \in Core!Room
      /\ disk.driver \in [Driver -> Core!Participant]
      /\ disk.archive \in [Core!Stage -> Core!Result]
  BY DEF RoomTypeOK
<1>2. driver' = disk.driver /\ archive' = disk.archive
  BY DEF Reloaded
<1>3. room' = r \/ (r.stages < MaxStage /\ room' = fresh)
  BY DEF Reloaded
<1>4. r.stages < MaxStage => fresh \in Core!Room
  <2>1. r.stages \in 0..MaxStage
    BY <1>1 DEF Core!Room
  <2>2. MaxStage \in Nat
    BY CoreAssumption DEF Core!BoundAssumption
  <2>3. r.stages < MaxStage => /\ r.stages + 1 \in 0..MaxStage
                               /\ r.stages + 1 \in Core!Stage \cup {Core!NoStage}
    BY <2>1, <2>2 DEF Core!Stage
  <2> QED BY <1>1, <2>3, Zenon DEF Core!Room
<1> HIDE DEF fresh, r
<1> QED BY <1>1, <1>2, <1>3, <1>4 DEF Core!TypeOK

\* No step of the room takes the memory out of its types.
LEMMA CoreStep ==
  ASSUME RoomTypeOK, SocketInv, [Next]_vars
  PROVE  Core!TypeOK'
<1>0. Core!TypeOK /\ \A s \in Socket : socket[s].who \in Driver \cup {Nobody}
  BY DEF RoomTypeOK, SocketInv, Good, Connection
<1>1. CASE \/ \E s \in Socket :
                \/ Open(s) \/ (\E d \in Driver : BeginLogin(s, d))
                \/ (\E valid \in BOOLEAN : AbandonLogin(s, valid))
                \/ RefuseLogin(s) \/ ExpireLogin(s) \/ LimitMessage(s) \/ ClientCloses(s)
           \/ BucketExpires \/ Flush \/ Rejection \/ UNCHANGED vars
  <2>1. UNCHANGED memory
    BY <1>1 DEF Open, BeginLogin, AbandonLogin, RefuseLogin, ExpireLogin, LimitMessage,
                ClientCloses, BucketExpires, Flush, Rejection, vars
  <2> QED BY <1>0, <2>1, MemoryTypes
<1>2. ASSUME NEW s \in Socket, FinishLogin(s)
      PROVE  Core!TypeOK'
  <2>1. socket[s].claim \in Driver
    BY <1>2, FinishSockets
  <2>2. CoreProofs!Seats
    BY <1>2, <2>1, SeatsAreCore DEF FinishLogin
  <2> QED BY <1>0, <2>2, MemoryTypes
<1>3. ASSUME NEW s \in Socket,
             \/ (\E e \in LapEvent : LapMessage(s, e)) \/ ReadyMessage(s)
             \/ TelemetryMessage(s) \/ LeaveMessage(s)
      PROVE  Core!TypeOK'
  <2> DEFINE d == socket[s].who
  <2>1. d \in Driver
    BY <1>3, SpeakerIsDriver DEF LapMessage, ReadyMessage, TelemetryMessage, LeaveMessage
  <2>2. ASSUME NEW e \in LapEvent, LapMessage(s, e)
        PROVE  CoreProofs!Laps \/ UNCHANGED memory
    <3>1. \/ \E recovered \in BOOLEAN : Core!CompleteLap(d, e, recovered)
          \/ Core!RejectLap(d, e) \/ UNCHANGED memory
      BY <2>2 DEF LapMessage
    <3> QED BY <2>1, <3>1, LapsAreCore
  <2>3. ReadyMessage(s) \/ LeaveMessage(s) => CoreProofs!Seats
    BY <2>1, SeatsAreCore DEF ReadyMessage, LeaveMessage
  <2>4. TelemetryMessage(s) => CoreProofs!Laps
    BY <2>1, LapsAreCore DEF TelemetryMessage
  <2> QED BY <1>0, <1>3, <2>2, <2>3, <2>4, MemoryTypes
<1>4. ASSUME NEW s \in Socket, CloseEvent(s)
      PROVE  Core!TypeOK'
  <2> DEFINE d == socket[s].who
  <2>1. (d # Nobody /\ Core!Disconnect(d)) \/ UNCHANGED memory
    BY <1>4 DEF CloseEvent
  <2>2. d # Nobody /\ Core!Disconnect(d) => CoreProofs!Seats
    BY <1>0, SeatsAreCore
  <2> QED BY <1>0, <2>1, <2>2, MemoryTypes
<1>5. CASE Command \/ RefusedCommand \/ TickEvent
  BY <1>0, <1>5, SessionsAreCore, TicksAreCore, MemoryTypes DEF Command, RefusedCommand, TickEvent
<1>6. ASSUME NEW d \in Driver, Kick(d)
      PROVE  Core!TypeOK'
  BY <1>0, <1>6, SeatsAreCore, MemoryTypes DEF Kick
<1>7. ASSUME NEW d \in Driver, WindowLapses(d)
      PROVE  Core!TypeOK'
  <2>1. driver \in [Driver -> Core!Participant] /\ driver' = [driver EXCEPT ![d] = Past(@)]
        /\ UNCHANGED <<room, archive>>
    BY <1>0, <1>7 DEF WindowLapses, Core!TypeOK
  <2>2. driver' \in [Driver -> Core!Participant]
    BY <2>1, PastType
  <2> QED BY <1>0, <2>1, <2>2 DEF Core!TypeOK
<1>8. CASE Evict \/ Crash
  BY <1>8, ReloadedType DEF Evict, Crash
<1> QED BY <1>1, <1>2, <1>3, <1>4, <1>5, <1>6, <1>7, <1>8 DEF Next

\* A ticket in use is counted.
LEMMA BudgetTypes ==
  ASSUME BudgetInv, SocketInv, [Next]_vars,
         active \in 0..MaximumLogins, spent \in 0..LoginFailures
  PROVE  active' \in 0..MaximumLogins /\ spent' \in 0..LoginFailures
<1>1. MaximumLogins \in Nat /\ LoginFailures \in Nat
  BY RoomAssumption
<1>2. ASSUME NEW s, s \in Logins(socket), NEW valid, Complete(s, valid)
      PROVE  active' \in 0..MaximumLogins /\ spent' \in 0..LoginFailures
  <2>1. Cardinality(Logins(socket)) # 0
    BY <1>2, LoginsFinite, FS_EmptySet
  <2>2. socket[s].ticket = "live" => Cardinality(Counted(socket)) # 0
    <3>1. socket[s].ticket = "live" => s \in Counted(socket)
      BY <1>2 DEF Logins, Counted
    <3> QED BY <3>1, LoginsFinite, FS_EmptySet
  <2>3. Cardinality(Counted(socket)) \in Nat
    BY LoginsFinite
  <2>4. active' = active - 1
    BY <1>2 DEF Complete
  <2>5. spent' = spent \/ (socket[s].ticket = "live" /\ spent' = spent - 1)
    BY <1>2 DEF Complete
  <2> QED BY <1>1, <2>1, <2>2, <2>3, <2>4, <2>5 DEF BudgetInv
<1>3. CASE UNCHANGED budget
  BY <1>3 DEF budget
<1>4. ASSUME NEW s \in Socket, NEW d \in Driver, BeginLogin(s, d)
      PROVE  active' \in 0..MaximumLogins /\ spent' \in 0..LoginFailures
  <2>1. \/ BudgetAllows /\ active' = active + 1 /\ spent' = spent + 1
        \/ UNCHANGED budget
    BY <1>4 DEF BeginLogin
  <2> QED BY <1>1, <1>3, <2>1 DEF BudgetAllows
<1>5. ASSUME NEW s \in Socket, (\E valid \in BOOLEAN : AbandonLogin(s, valid)) \/ RefuseLogin(s)
      PROVE  active' \in 0..MaximumLogins /\ spent' \in 0..LoginFailures
  <2>1. socket[s].ticket # "none" /\ \E valid \in BOOLEAN : Complete(s, valid)
    BY <1>5 DEF AbandonLogin, RefuseLogin
  <2>2. s \in Logins(socket)
    BY <2>1 DEF Logins, SocketInv, Good, Connection
  <2> QED BY <1>2, <2>1, <2>2
<1>6. CASE Flush \/ Rejection
  <2>1. UNCHANGED budget \/ (writing.for = "login" /\ Complete(writing.by, TRUE))
    BY <1>6 DEF Flush, Rejection
  <2>2. writing.for = "login" => writing.by \in Logins(socket)
    BY DEF BudgetInv
  <2> QED BY <1>2, <1>3, <2>1, <2>2
<1>7. CASE BucketExpires
  BY <1>1, <1>7 DEF BucketExpires
<1>8. CASE Crash
  BY <1>1, <1>8 DEF Crash
<1>9. CASE \/ \E s \in Socket :
                \/ Open(s) \/ FinishLogin(s) \/ ExpireLogin(s)
                \/ (\E e \in LapEvent : LapMessage(s, e)) \/ ReadyMessage(s)
                \/ TelemetryMessage(s) \/ LeaveMessage(s)
                \/ LimitMessage(s) \/ ClientCloses(s) \/ CloseEvent(s)
           \/ Command \/ RefusedCommand \/ TickEvent \/ Evict \/ UNCHANGED vars
           \/ \E d \in Driver : Kick(d) \/ WindowLapses(d)
  <2>1. UNCHANGED budget
    BY <1>9 DEF Open, FinishLogin, ExpireLogin, LapMessage, ReadyMessage, TelemetryMessage,
                LeaveMessage, LimitMessage, ClientCloses, CloseEvent, Command, RefusedCommand,
                TickEvent, Evict, Kick, WindowLapses, Quiet, vars
  <2> QED BY <1>3, <2>1
<1> QED BY <1>4, <1>5, <1>6, <1>7, <1>8, <1>9 DEF Next

Purposes == {"nothing", "message", "telemetry", "login", "leave", "event"}

\* What is written, and what was told: reports that drivers may send.
LEMMA WritingTypes ==
  ASSUME RoomTypeOK, SocketInv, [Next]_vars
  PROVE  /\ writing' \in [by : Socket \cup {Server}, for : Purposes,
                          accepted : SUBSET (Driver \X LapEvent)]
         /\ acknowledged' \subseteq Driver \X LapEvent
<1> DEFINE W == [by : Socket \cup {Server}, for : Purposes,
                 accepted : SUBSET (Driver \X LapEvent)]
<1>0. writing \in W /\ acknowledged \subseteq Driver \X LapEvent
  BY DEF RoomTypeOK, Purposes
<1>1. Idle \in W
  BY DEF Idle, Purposes
<1>2. \A s \in Socket \cup {Server} : \A for \in Purposes :
        \A accepted \in SUBSET (Driver \X LapEvent) :
          Await(s, for, accepted) => writing' \in W
  BY DEF Await
<1>3. "message" \in Purposes /\ "telemetry" \in Purposes /\ "login" \in Purposes
      /\ "leave" \in Purposes /\ "event" \in Purposes
  BY DEF Purposes
<1>4. {} \in SUBSET (Driver \X LapEvent) /\ Server \in Socket \cup {Server}
  OBVIOUS
<1> HIDE DEF W
<1>5. writing' = Idle \/ writing' = writing => writing' \in W
  BY <1>0, <1>1
<1>6. ASSUME NEW s \in Socket, NEW e \in LapEvent, LapMessage(s, e)
      PROVE  writing' \in W
  <2> DEFINE d == socket[s].who
  <2>1. d \in Driver
    BY <1>6, SpeakerIsDriver DEF LapMessage
  <2>2. \A r \in driver[d].receipts : r.event \in LapEvent
    <3>1. driver[d] \in Core!Participant
      BY <2>1 DEF RoomTypeOK, Core!TypeOK
    <3> QED BY <3>1 DEF Core!Participant, Core!Receipt
  <2>3. \/ Await(s, "message", {<<d, e>>}) \/ Await(s, "message", {})
        \/ \E r \in driver[d].receipts : Await(s, "message", {<<d, r.event>>})
    BY <1>6 DEF LapMessage
  <2>4. \A x \in LapEvent : {<<d, x>>} \in SUBSET (Driver \X LapEvent)
    BY <2>1
  <2> HIDE DEF d
  <2> QED BY <1>2, <1>3, <1>4, <2>2, <2>3, <2>4
<1>7. ASSUME \/ \E s \in Socket :
                  \/ Open(s) \/ (\E d \in Driver : BeginLogin(s, d))
                  \/ (\E valid \in BOOLEAN : AbandonLogin(s, valid)) \/ FinishLogin(s)
                  \/ RefuseLogin(s) \/ ExpireLogin(s) \/ ReadyMessage(s) \/ TelemetryMessage(s)
                  \/ LeaveMessage(s) \/ LimitMessage(s) \/ ClientCloses(s) \/ CloseEvent(s)
             \/ BucketExpires \/ Command \/ RefusedCommand \/ TickEvent
             \/ (\E d \in Driver : Kick(d) \/ WindowLapses(d))
             \/ Flush \/ Rejection \/ Evict \/ Crash \/ UNCHANGED vars
      PROVE  writing' \in W
  <2>1. \/ writing' = Idle \/ writing' = writing
        \/ \E s \in Socket \cup {Server} : \E for \in Purposes : Await(s, for, {})
    BY <1>3, <1>7 DEF Open, BeginLogin, AbandonLogin, FinishLogin, RefuseLogin, ExpireLogin,
      ReadyMessage, TelemetryMessage, LeaveMessage, LimitMessage, ClientCloses, CloseEvent,
      BucketExpires, Command, RefusedCommand, TickEvent, Kick, WindowLapses, Flush, Rejection,
      Evict, Crash, vars
  <2> QED BY <1>2, <1>4, <1>5, <2>1
<1>8. writing' \in W
  BY <1>6, <1>7 DEF Next
<1>9. acknowledged' \subseteq Driver \X LapEvent
  <2>1. acknowledged' = acknowledged \/ acknowledged' = acknowledged \cup writing.accepted
    BY DEF Next, Open, BeginLogin, AbandonLogin, FinishLogin, RefuseLogin, ExpireLogin, LapMessage,
      ReadyMessage, TelemetryMessage, LeaveMessage, LimitMessage, ClientCloses, CloseEvent,
      BucketExpires, Command, RefusedCommand, TickEvent, Kick, WindowLapses, Flush, Rejection,
      Evict, Crash, Quiet, vars
  <2> QED BY <1>0, <2>1 DEF W
<1> QED BY <1>8, <1>9 DEF W

\* What is on disk: the memory as it was, or with a window that passed.
LEMMA DiskTypes ==
  ASSUME RoomTypeOK, [Next]_vars
  PROVE  disk' \in [room : Core!Room, driver : [Driver -> Core!Participant],
                    archive : [Core!Stage -> Core!Result]]
<1> DEFINE D == [room : Core!Room, driver : [Driver -> Core!Participant],
                 archive : [Core!Stage -> Core!Result]]
<1>1. disk \in D
  BY DEF RoomTypeOK
<1>2. CASE Flush
  BY <1>2 DEF Flush, Stored, RoomTypeOK, Core!TypeOK
<1>3. ASSUME NEW d \in Driver, WindowLapses(d)
      PROVE  disk' \in D
  <2> DEFINE ds == [disk.driver EXCEPT ![d] = Past(@)]
  <2>1. disk' = [disk EXCEPT !.driver = ds]
    BY <1>3 DEF WindowLapses
  <2>2. ds \in [Driver -> Core!Participant]
    BY <1>1, PastType
  <2> HIDE DEF ds
  <2> QED BY <1>1, <2>1, <2>2
<1>4. CASE disk' = disk
  BY <1>1, <1>4
<1>5. \/ disk' = disk \/ Flush \/ \E d \in Driver : WindowLapses(d)
  BY DEF Next, Open, BeginLogin, AbandonLogin, FinishLogin, RefuseLogin, ExpireLogin, LapMessage,
    ReadyMessage, TelemetryMessage, LeaveMessage, LimitMessage, ClientCloses, CloseEvent,
    BucketExpires, Command, RefusedCommand, TickEvent, Kick, Rejection, Evict, Crash, Quiet, vars
<1> QED BY <1>2, <1>3, <1>4, <1>5

\* The alarm and the faults.
LEMMA FaultTypes ==
  ASSUME RoomTypeOK, [Next]_vars
  PROVE  alarm' \in BOOLEAN /\ crashes' \in 0..MaxFault /\ rejections' \in 0..MaxFault
<1>1. alarm' \in BOOLEAN
  BY DEF RoomTypeOK, Next, Open, BeginLogin, AbandonLogin, FinishLogin, RefuseLogin, ExpireLogin,
    LapMessage, ReadyMessage, TelemetryMessage, LeaveMessage, LimitMessage, ClientCloses,
    CloseEvent, BucketExpires, Command, RefusedCommand, TickEvent, Kick, WindowLapses, Flush,
    Rejection, Evict, Crash, Quiet, AlarmDue, Deadline, vars
<1>2. \/ UNCHANGED faults
      \/ crashes + rejections < MaxFault /\ crashes' = crashes + 1 /\ rejections' = rejections
      \/ crashes + rejections < MaxFault /\ crashes' = crashes /\ rejections' = rejections + 1
  BY DEF Next, Open, BeginLogin, AbandonLogin, FinishLogin, RefuseLogin, ExpireLogin,
    LapMessage, ReadyMessage, TelemetryMessage, LeaveMessage, LimitMessage, ClientCloses,
    CloseEvent, BucketExpires, Command, RefusedCommand, TickEvent, Kick, WindowLapses, Flush,
    Rejection, Evict, Crash, Quiet, faults, vars
<1>3. MaxFault \in Nat /\ crashes \in 0..MaxFault /\ rejections \in 0..MaxFault
  BY RoomAssumption DEF RoomTypeOK
<1> QED BY <1>1, <1>2, <1>3 DEF faults

\* Everything the room keeps, in memory, on disk and about its connections, has
\* its type, for any number of connections, reports and faults.
THEOREM RoomTypeCorrect == Spec => []RoomTypeOK
<1>1. Init => RoomTypeOK
  <2> SUFFICES ASSUME Init PROVE RoomTypeOK
    OBVIOUS
  <2>1. Core!TypeOK
    <3>1. CoreProofs!Init
      BY Zenon DEF Init, Core!Init, CoreProofs!Init, Core!NoStage, CoreProofs!NoStage,
        Core!FreeSeat, CoreProofs!FreeSeat, Core!Stage, CoreProofs!Stage, Core!NoResult,
        CoreProofs!NoResult
    <3> QED BY <3>1, SameTypes, CoreConstants, CoreProofs!InitType
  <2>2. disk \in [room : Core!Room, driver : [Driver -> Core!Participant],
                  archive : [Core!Stage -> Core!Result]]
    BY <2>1 DEF Init, Stored, Core!TypeOK
  <2>3. socket \in [Socket -> Connection]
    BY UnusedGood DEF Init, Good
  <2>4. writing \in [by : Socket \cup {Server},
                     for : {"nothing", "message", "telemetry", "login", "leave", "event"},
                     accepted : SUBSET (Driver \X LapEvent)]
    BY DEF Init, Idle
  <2>5. /\ alarm = FALSE /\ acknowledged = {} /\ active = 0 /\ spent = 0
        /\ crashes = 0 /\ rejections = 0
    BY DEF Init
  <2>6. 0 \in 0..MaximumLogins /\ 0 \in 0..LoginFailures /\ 0 \in 0..MaxFault
    BY RoomAssumption
  <2> QED BY <2>1, <2>2, <2>3, <2>4, <2>5, <2>6 DEF RoomTypeOK
<1>2. RoomInv /\ BudgetInv /\ RoomTypeOK /\ [Next]_vars /\ SocketInv' => RoomTypeOK'
  <2> SUFFICES ASSUME RoomInv, BudgetInv, RoomTypeOK, [Next]_vars, SocketInv'
               PROVE  RoomTypeOK'
    OBVIOUS
  <2>1. SocketInv /\ active \in 0..MaximumLogins /\ spent \in 0..LoginFailures
    BY DEF RoomInv, RoomTypeOK
  <2>2. socket' \in [Socket -> Connection]
    BY DEF SocketInv
  <2> QED BY <2>1, <2>2, CoreStep, BudgetTypes, WritingTypes, DiskTypes, FaultTypes
          DEF RoomTypeOK, Purposes
<1>3. RoomInv => SocketInv
  BY DEF RoomInv
<1>4. Spec => []BudgetInv
  BY BudgetInductive
<1> QED BY <1>1, <1>2, <1>3, <1>4, RoomInductive, PTL DEF Spec

-----------------------------------------------------------------------------
(* Seats and sockets *)

\* A seat that is held is held by a driver who is connected.
Seated(p) == p.seat = "held" => p.connected

SameSeat(p, q) == q.seat = p.seat /\ q.connected = p.connected

\* Nobody is cut off, and nobody comes.
Calm(p, q) ==
  /\ Seated(p) => Seated(q)
  /\ q.seat = "held" /\ q.connected => p.seat = "held" /\ p.connected

\* Nothing waits to be written but telemetry.
Uneventful == writing.for \in {"nothing", "telemetry"}

\* Memory and disk know the driver of a live socket as connected; the disk may
\* still have to learn of it from the login that is being written.  Disk and
\* memory differ about a seat only while a handler waits for its write.
SeatInv ==
  /\ \A d \in Driver : Attached(d) # {} =>
       /\ Seated(driver[d])
       /\ Seated(disk.driver[d]) \/ (writing.for = "login" /\ writing.by \in Attached(d))
  /\ Uneventful /\ rejections = 0 => \A d \in Driver : SameSeat(driver[d], disk.driver[d])
  /\ crashes = 0 /\ rejections = 0 =>
       \A d \in Driver : driver[d].seat = "held" /\ driver[d].connected
                         => \E s \in Socket : socket[s].who = d

\* The fields of a participant.
LEMMA SeatFields ==
  ASSUME NEW p \in Core!Participant
  PROVE  /\ {"seat", "connected", "recovery", "status", "stopped", "finalLap", "lapStage",
             "lastLap", "lastValid", "receipts", "laps", "eligible", "dsqRecord"} \subseteq DOMAIN p
         /\ p.connected \in BOOLEAN
BY DEF Core!Participant

\* The completion checks leave the seats alone.
LEMMA SettleSeats ==
  ASSUME NEW es, DOMAIN es = Driver, NEW r, NEW ar, Core!Settle(r, es, ar),
         \A c \in Driver : {"seat", "connected"} \subseteq DOMAIN es[c]
  PROVE  \A c \in Driver : SameSeat(es[c], driver'[c])
<1> SUFFICES ASSUME NEW c \in Driver
             PROVE  SameSeat(es[c], driver'[c])
  OBVIOUS
<1>1. PICK cut \in Core!Cuts(r, es) : driver' = Core!TimedDrivers(r, es, cut)
  BY DEF Core!Settle
<1> DEFINE q == [es[c] EXCEPT !.status = Core!Standing(es[c]), !.finalLap = FALSE,
                   !.eligible = @ /\ c \notin cut]
<1>2. SameSeat(es[c], q)
  BY DEF SameSeat
<1>3. driver'[c] \in {es[c], q}
  BY <1>1 DEF Core!TimedDrivers
<1> QED BY <1>2, <1>3 DEF SameSeat

\* A driver who logs in or comes back is seated; the others are as before.
LEMMA ArrivalSeats ==
  ASSUME Core!TypeOK, NEW d \in Driver, Core!Login(d) \/ Core!Resume(d)
  PROVE  /\ Seated(driver'[d])
         /\ \A c \in Driver \ {d} : driver'[c] = driver[c]
<1>1. DOMAIN driver = Driver /\ driver[d] \in Core!Participant
  BY DEF Core!TypeOK
<1>2. CASE Core!Login(d)
  BY <1>1, <1>2 DEF Core!Login, Core!FreeSeat, Seated
<1>3. CASE Core!Resume(d)
  <2> DEFINE late == /\ room.flag = "chequered"
                     /\ room.phase \in {"race", "finished"}
                     /\ driver[d].recovery # "open"
             p == [driver[d] EXCEPT !.connected = TRUE,
                     !.status = IF late THEN "didNotFinish" ELSE "active",
                     !.stopped = @ \/ late]
  <2>1. driver' = [driver EXCEPT ![d] = p]
    BY <1>1, <1>3 DEF Core!Resume
  <2>2. p.connected
    BY <1>1, SeatFields
  <2> HIDE DEF p
  <2> QED BY <1>1, <2>1, <2>2 DEF Seated
<1> QED BY <1>2, <1>3

\* A driver who drops out is no longer connected; the others are as before.
LEMMA DropSeats ==
  ASSUME Core!TypeOK, NEW d \in Driver, Core!Disconnect(d)
  PROVE  /\ ~driver'[d].connected
         /\ \A c \in Driver \ {d} : SameSeat(driver[c], driver'[c])
<1>1. DOMAIN driver = Driver /\ \A c \in Driver : driver[c] \in Core!Participant
  BY DEF Core!TypeOK
<1>2. PICK status, recovery, final :
        Core!Settle(room, [driver EXCEPT ![d].connected = FALSE, ![d].status = status,
                             ![d].recovery = recovery, ![d].finalLap = final], archive)
  BY <1>1 DEF Core!Disconnect
<1> DEFINE p == [driver[d] EXCEPT !.connected = FALSE, !.status = status,
                   !.recovery = recovery, !.finalLap = final]
           es == [driver EXCEPT ![d] = p]
<1>3. Core!Settle(room, es, archive)
  BY <1>1, <1>2
<1>4. ~p.connected /\ {"seat", "connected"} \subseteq DOMAIN p
  BY <1>1, SeatFields
<1> HIDE DEF p
<1>5. /\ DOMAIN es = Driver /\ es[d] = p /\ \A c \in Driver \ {d} : es[c] = driver[c]
  BY <1>1
<1> HIDE DEF es
<1>6. \A c \in Driver : {"seat", "connected"} \subseteq DOMAIN es[c]
  BY <1>1, <1>4, <1>5, SeatFields
<1>7. \A c \in Driver : SameSeat(es[c], driver'[c])
  BY <1>3, <1>5, <1>6, SettleSeats
<1> QED BY <1>4, <1>5, <1>7 DEF SameSeat

\* Who leaves is gone; the others are as before.
LEMMA LeaveSeats ==
  ASSUME Core!TypeOK, NEW d \in Driver, Core!Release(d)
  PROVE  \A c \in Driver : Calm(driver[c], driver'[c])
<1>1. DOMAIN driver = Driver /\ \A c \in Driver : driver[c] \in Core!Participant
  BY DEF Core!TypeOK
<1>2. PICK p, cut :
        driver' = [Core!TimedDrivers(room, [driver EXCEPT ![d] = p], cut)
                     EXCEPT ![d] = Core!GoneSeat]
  BY DEF Core!Release
<1> DEFINE es == [driver EXCEPT ![d] = p]
           ds == Core!TimedDrivers(room, es, cut)
<1>3. DOMAIN es = Driver /\ \A c \in Driver \ {d} : es[c] = driver[c]
  BY <1>1
<1> HIDE DEF es
<1>4. DOMAIN ds = Driver
  BY <1>3 DEF Core!TimedDrivers
<1>5. ASSUME NEW c \in Driver \ {d}
      PROVE  SameSeat(driver[c], ds[c])
  <2> DEFINE q == [es[c] EXCEPT !.status = Core!Standing(es[c]), !.finalLap = FALSE,
                     !.eligible = @ /\ c \notin cut]
  <2>1. SameSeat(driver[c], q)
    BY <1>1, <1>3, SeatFields DEF SameSeat
  <2>2. ds[c] \in {es[c], q}
    BY DEF Core!TimedDrivers
  <2> QED BY <1>3, <2>1, <2>2 DEF SameSeat
<1>6. driver' = [ds EXCEPT ![d] = Core!GoneSeat]
  BY <1>2 DEF es
<1> HIDE DEF ds
<1>7. driver'[d].seat = "gone" /\ \A c \in Driver \ {d} : driver'[c] = ds[c]
  BY <1>4, <1>6 DEF Core!GoneSeat, Core!FreeSeat
<1> QED BY <1>5, <1>7 DEF Calm, SameSeat, Seated

\* Reports and telemetry are about laps.
LEMMA ReportSeats ==
  ASSUME Core!TypeOK, NEW d \in Driver,
         \/ Core!SetReady(d) \/ Core!Telemetry(d)
         \/ (\E e \in LapEvent : Core!RejectLap(d, e))
         \/ \E e \in LapEvent, recovered \in BOOLEAN : Core!CompleteLap(d, e, recovered)
  PROVE  \A c \in Driver : SameSeat(driver[c], driver'[c])
<1>1. DOMAIN driver = Driver /\ \A c \in Driver : driver[c] \in Core!Participant
  BY DEF Core!TypeOK
<1> DEFINE p == Core!Prepared(driver[d])
<1>2. /\ SameSeat(driver[d], p)
      /\ {"seat", "connected", "status", "lastLap", "lastValid", "receipts", "recovery",
          "finalLap", "laps", "stopped"} \subseteq DOMAIN p
  BY <1>1, SeatFields DEF Core!Prepared, SameSeat
<1>3. ASSUME NEW k, driver' = [driver EXCEPT ![d] = k], SameSeat(driver[d], k)
      PROVE  \A c \in Driver : SameSeat(driver[c], driver'[c])
  BY <1>1, <1>3 DEF SameSeat
<1>4. CASE Core!SetReady(d)
  <2> DEFINE k == [driver[d] EXCEPT !.status = "active"]
  <2>1. SameSeat(driver[d], k)
    BY <1>1, SeatFields DEF SameSeat
  <2>2. driver' = [driver EXCEPT ![d] = k]
    BY <1>1, <1>4 DEF Core!SetReady
  <2> QED BY <1>3, <2>1, <2>2
<1>5. CASE Core!Telemetry(d)
  <2> DEFINE k == [p EXCEPT !.status = "active"]
  <2>1. SameSeat(driver[d], k)
    BY <1>2 DEF SameSeat
  <2>2. driver' = [driver EXCEPT ![d] = p] \/ driver' = [driver EXCEPT ![d] = k]
    BY <1>1, <1>5 DEF Core!Telemetry
  <2> HIDE DEF k, p
  <2> QED BY <1>2, <1>3, <2>1, <2>2
<1>6. ASSUME NEW e \in LapEvent, Core!RejectLap(d, e)
      PROVE  \A c \in Driver : SameSeat(driver[c], driver'[c])
  <2>1. driver' = [driver EXCEPT ![d] = p]
    BY <1>1, <1>6 DEF Core!RejectLap
  <2> QED BY <1>2, <1>3, <2>1
<1>7. ASSUME NEW e \in LapEvent, NEW recovered \in BOOLEAN, Core!CompleteLap(d, e, recovered)
      PROVE  \A c \in Driver : SameSeat(driver[c], driver'[c])
  <2> DEFINE q == Core!Credited(p, e)
             done == Core!Finishes(q, e)
             k == IF done THEN [q EXCEPT !.status = "finished", !.stopped = TRUE] ELSE q
             es == [driver EXCEPT ![d] = k]
  <2>1. SameSeat(driver[d], q) /\ {"seat", "connected", "status", "stopped"} \subseteq DOMAIN q
    <3> HIDE DEF p
    <3> QED BY <1>2 DEF Core!Credited, SameSeat
  <2>2. PICK r : Core!Settle(r, es, archive)
    BY <1>7 DEF Core!CompleteLap
  <2> HIDE DEF q, p
  <2>3. SameSeat(driver[d], k) /\ {"seat", "connected"} \subseteq DOMAIN k
    BY <2>1 DEF SameSeat
  <2> HIDE DEF k
  <2>4. DOMAIN es = Driver /\ es[d] = k /\ \A c \in Driver \ {d} : es[c] = driver[c]
    BY <1>1
  <2> HIDE DEF es
  <2>5. \A c \in Driver : {"seat", "connected"} \subseteq DOMAIN es[c]
    BY <1>1, <2>3, <2>4, SeatFields
  <2>6. \A c \in Driver : SameSeat(es[c], driver'[c])
    BY <2>2, <2>4, <2>5, SettleSeats
  <2> QED BY <2>3, <2>4, <2>6 DEF SameSeat
<1> QED BY <1>4, <1>5, <1>6, <1>7

\* A command or a tick frees the seats of those who are away, and no other.
LEMMA SessionSeats ==
  ASSUME Core!TypeOK, Core!ToRace \/ Core!ToLobby \/ Core!RefuseFinish \/ Ticks
  PROVE  \A c \in Driver : Calm(driver[c], driver'[c])
<1>1. DOMAIN driver = Driver /\ \A c \in Driver : driver[c] \in Core!Participant
  BY DEF Core!TypeOK
<1>2. \A c \in Driver : /\ SameSeat(driver[c], Core!Gridded[c])
                        /\ SameSeat(driver[c], Core!Cleared[c])
  BY <1>1, SeatFields DEF Core!Gridded, Core!Cleared, Core!Each, Core!Reset, SameSeat
<1>3. CASE Core!ToRace
  <2>1. driver' = driver \/ driver' = Core!Gridded
    BY <1>3 DEF Core!ToRace
  <2> QED BY <1>2, <2>1 DEF Calm, Seated, SameSeat
<1>4. CASE Core!ToLobby
  <2>1. PICK old : driver' = Core!Pruned(Core!Cleared, old)
    BY <1>4 DEF Core!ToLobby
  <2>2. \A c \in Driver : driver'[c] = Core!GoneSeat \/ driver'[c] = Core!Cleared[c]
    BY <2>1 DEF Core!Pruned
  <2> QED BY <1>2, <2>2 DEF Calm, Seated, SameSeat, Core!GoneSeat, Core!FreeSeat
<1>5. CASE Core!RefuseFinish
  BY <1>5 DEF Core!RefuseFinish, Calm, Seated
<1>6. CASE Core!TickLobby
  <2>1. PICK old : driver' = Core!Pruned(driver, old)
    BY <1>6 DEF Core!TickLobby
  <2>2. \A c \in Driver : driver'[c] = Core!GoneSeat \/ driver'[c] = driver[c]
    BY <2>1 DEF Core!Pruned
  <2> QED BY <2>2 DEF Calm, Seated, Core!GoneSeat, Core!FreeSeat
<1>7. CASE Core!TickRecovery
  <2> DEFINE es == Core!Each([c \in Driver |-> Core!Lapsed(driver[c])])
  <2>1. \A c \in Driver : /\ SameSeat(driver[c], Core!Lapsed(driver[c]))
                          /\ {"seat", "connected"} \subseteq DOMAIN Core!Lapsed(driver[c])
    BY <1>1, SeatFields DEF Core!Lapsed, SameSeat
  <2>2. DOMAIN es = Driver /\ \A c \in Driver : es[c] \in {driver[c], Core!Lapsed(driver[c])}
    BY DEF Core!Each
  <2>3. Core!Settle(room, es, archive)
    BY <1>7 DEF Core!TickRecovery
  <2> HIDE DEF es
  <2>4. \A c \in Driver : {"seat", "connected"} \subseteq DOMAIN es[c]
    BY <1>1, <2>1, <2>2, SeatFields
  <2>5. \A c \in Driver : SameSeat(es[c], driver'[c])
    BY <2>2, <2>3, <2>4, SettleSeats
  <2> QED BY <2>1, <2>2, <2>5 DEF Calm, Seated, SameSeat
<1> QED BY <1>3, <1>4, <1>5, <1>6, <1>7 DEF Ticks

\* The sockets of a step that logs nobody in.
Quieter == \A s \in Socket : Keeps(socket[s], socket'[s])
Named == \A s \in Socket : socket[s].who # Nobody => socket'[s].who = socket[s].who

\* One socket changes.
LEMMA OneQuieter ==
  ASSUME SocketInv, NEW s \in Socket, NEW k, Keeps(socket[s], k),
         socket' = [socket EXCEPT ![s] = k]
  PROVE  Quieter /\ (socket[s].who = Nobody \/ k.who = socket[s].who => Named)
<1>1. socket'[s] = k /\ \A o \in Socket \ {s} : socket'[o] = socket[o]
  BY DEF SocketInv
<1> QED BY <1>1 DEF Quieter, Named, Keeps

\* Logins that begin or end, and sockets that are shut.
LEMMA ShutSockets ==
  ASSUME SocketInv, BudgetInv, NEW s \in Socket,
         \/ Open(s) \/ (\E d \in Driver : BeginLogin(s, d))
         \/ (\E valid \in BOOLEAN : AbandonLogin(s, valid))
         \/ RefuseLogin(s) \/ ExpireLogin(s) \/ LimitMessage(s) \/ ClientCloses(s)
  PROVE  Quieter /\ Named
<1> DEFINE c == socket[s]
<1>0. Good(c) /\ DOMAIN socket = Socket
  BY DEF SocketInv
<1>1. \A k : /\ socket' = [socket EXCEPT ![s] = k] /\ Keeps(c, k)
             /\ (c.who = Nobody \/ k.who = c.who)
             => Quieter /\ Named
  BY OneQuieter
<1>2. Good(Dropped(c)) /\ ~Alive(Dropped(c)) /\ Dropped(c).who = c.who
  BY <1>0, DroppedShut
<1>3. CASE Open(s)
  <2> DEFINE k == [c EXCEPT !.ready = "open"]
  <2>1. k.who = Nobody /\ c.who = Nobody /\ socket' = [socket EXCEPT ![s] = k]
    BY <1>0, <1>3 DEF Open, Unused
  <2> HIDE DEF k
  <2> QED BY <1>1, <2>1 DEF Keeps
<1>4. ASSUME NEW d \in Driver, BeginLogin(s, d)
      PROVE  Quieter /\ Named
  <2> DEFINE k == [c EXCEPT !.claim = d, !.ticket = "live"]
             x == [Dropped(c) EXCEPT !.claim = d]
  <2>1. c.who = Nobody
    BY <1>4 DEF BeginLogin
  <2>2. k.who = Nobody /\ x.who = Nobody
    BY <1>0, <1>2, <2>1 DEF Good, Connection
  <2>3. socket' = [socket EXCEPT ![s] = k] \/ socket' = [socket EXCEPT ![s] = x]
    BY <1>0, <1>4 DEF BeginLogin
  <2> HIDE DEF k, x
  <2> QED BY <1>1, <2>1, <2>2, <2>3 DEF Keeps
<1>5. ASSUME NEW valid \in BOOLEAN, AbandonLogin(s, valid)
      PROVE  Quieter /\ Named
  <2> DEFINE u == IF Live(s) THEN Dropped(c) ELSE c
             k == [u EXCEPT !.ticket = "none"]
  <2>1. c.who = Nobody
    <3>1. s \in Logins(socket) /\ writing.for = "nothing"
      BY <1>0, <1>5 DEF AbandonLogin, Logins, Good, Connection, Idle
    <3> QED BY <3>1 DEF BudgetInv
  <2>2. k.who = Nobody
    BY <1>0, <1>2, <2>1, TicketGood
  <2>3. socket' = [socket EXCEPT ![s] = k] \/ socket' = [socket EXCEPT ![s] = Unused]
    BY <1>0, <1>5 DEF AbandonLogin
  <2>4. Unused.who = Nobody
    BY DEF Unused
  <2> HIDE DEF k
  <2> QED BY <1>1, <2>1, <2>2, <2>3, <2>4 DEF Keeps
<1>6. CASE RefuseLogin(s)
  <2> DEFINE u == Dropped(c)
             k == [u EXCEPT !.ticket = "none"]
  <2>1. ~Alive(k) /\ k.who = c.who
    BY <1>2, TicketGood
  <2>2. socket' = [socket EXCEPT ![s] = k]
    BY <1>0, <1>6 DEF RefuseLogin
  <2> HIDE DEF k
  <2> QED BY <1>1, <2>1, <2>2 DEF Keeps
<1>7. CASE ExpireLogin(s) \/ LimitMessage(s)
  <2>1. socket' = [socket EXCEPT ![s] = Dropped(c)]
    BY <1>0, <1>7 DEF ExpireLogin, LimitMessage
  <2> QED BY <1>1, <1>2, <2>1 DEF Keeps
<1>8. CASE ClientCloses(s)
  <2> DEFINE k == [c EXCEPT !.ready = "closing"]
  <2>1. ~Alive(k) /\ k.who = c.who
    BY <1>0 DEF Good, Connection, Alive
  <2>2. socket' = [socket EXCEPT ![s] = k]
    BY <1>0, <1>8 DEF ClientCloses
  <2> HIDE DEF k
  <2> QED BY <1>1, <2>1, <2>2 DEF Keeps
<1> QED BY <1>3, <1>4, <1>5, <1>6, <1>7, <1>8

\* A kick shuts sockets, an expired window marks their tickets.
LEMMA ManySockets ==
  ASSUME SocketInv, (\E d \in Driver : Kick(d)) \/ BucketExpires
  PROVE  Quieter /\ Named
<1>0. \A s \in Socket : Good(socket[s])
  BY DEF SocketInv
<1>1. ASSUME NEW d \in Driver, Kick(d)
      PROVE  Quieter /\ Named
  <2>1. ASSUME NEW s \in Socket
        PROVE  Keeps(socket[s], socket'[s]) /\ socket'[s].who = socket[s].who
    <3> DEFINE k == [socket[s] EXCEPT !.ready = "closing"]
    <3>1. ~Alive(k) /\ k.who = socket[s].who
      BY <1>0 DEF Good, Connection, Alive
    <3>2. socket'[s] = k \/ socket'[s] = socket[s]
      BY <1>1 DEF Kick
    <3> HIDE DEF k
    <3> QED BY <3>1, <3>2 DEF Keeps
  <2> QED BY <2>1 DEF Quieter, Named
<1>2. CASE BucketExpires
  <2>1. ASSUME NEW s \in Socket
        PROVE  Keeps(socket[s], socket'[s]) /\ socket'[s].who = socket[s].who
    <3> DEFINE k == [socket[s] EXCEPT !.ticket = "stale"]
    <3>1. Keeps(socket[s], k) /\ k.who = socket[s].who
      BY <1>0 DEF Good, Connection, Alive, Keeps
    <3>2. socket'[s] = k \/ socket'[s] = socket[s]
      BY <1>2 DEF BucketExpires
    <3> HIDE DEF k
    <3> QED BY <3>1, <3>2 DEF Keeps
  <2> QED BY <2>1 DEF Quieter, Named
<1> QED BY <1>1, <1>2

\* A handler that ends leaves its socket as it is, or shuts it.
LEMMA EndedSockets ==
  ASSUME SocketInv, writing.by \in Socket \cup {Server}, Flush \/ Rejection
  PROVE  Quieter /\ Named
<1> DEFINE s == writing.by
           c == socket[s]
           left == [c EXCEPT !.closed = TRUE, !.ready = "closing"]
           free == [c EXCEPT !.ticket = "none"]
           out == [Dropped(c) EXCEPT !.ticket = "none"]
<1>0. DOMAIN socket = Socket /\ \A o \in Socket : Good(socket[o])
  BY DEF SocketInv
<1>1. CASE s \in Socket
  <2>1. ~Alive(left) /\ left.who = c.who
    BY <1>0, <1>1 DEF Good, Connection, Alive
  <2>2. Keeps(c, free) /\ free.who = c.who
    BY <1>0, <1>1, TicketGood
  <2>3. ~Alive(out) /\ out.who = c.who
    BY <1>0, <1>1, DroppedShut, TicketGood
  <2>4. \/ socket' = [socket EXCEPT ![s] = left] \/ socket' = [socket EXCEPT ![s] = free]
        \/ socket' = [socket EXCEPT ![s] = out] \/ socket' = socket
    BY DEF Flush, Rejection
  <2> HIDE DEF left, free, out
  <2>5. CASE socket' = socket
    BY <2>5 DEF Quieter, Named, Keeps
  <2> QED BY <1>1, <2>1, <2>2, <2>3, <2>4, <2>5, OneQuieter DEF Keeps
<1>2. CASE s = Server
  <2>1. socket' = socket
    BY <1>0, <1>2, RoomAssumption DEF Flush, Rejection, SocketInv
  <2> QED BY <2>1 DEF Quieter, Named, Keeps
<1> QED BY <1>1, <1>2

\* Whoever is attached afterwards was attached before, on the one socket.
LEMMA AttachedBefore ==
  ASSUME SocketInv, Quieter, NEW d \in Driver
  PROVE  /\ Attached(d)' \subseteq Attached(d)
         /\ \A s \in Attached(d) : Attached(d)' # {} => s \in Attached(d)'
BY RoomAssumption DEF SocketInv, Quieter, Keeps, Alive, Attached, Live

\* A step in which nobody arrives and nobody is cut off.
LEMMA CalmStep ==
  ASSUME SeatInv, SocketInv, Quieter, Named, UNCHANGED faults,
         \A d \in Driver : Calm(driver[d], driver'[d]),
         \A d \in Driver : SameSeat(disk.driver[d], disk'.driver[d]),
         writing' = writing \/ writing.for # "login",
         Uneventful' => Uneventful /\ \A d \in Driver : SameSeat(driver[d], driver'[d])
  PROVE  SeatInv'
<1>1. ASSUME NEW d \in Driver, Attached(d)' # {}
      PROVE  /\ Seated(driver'[d])
             /\ \/ Seated(disk'.driver[d])
                \/ writing'.for = "login" /\ writing'.by \in Attached(d)'
  <2>1. Attached(d) # {} /\ \A s \in Attached(d) : s \in Attached(d)'
    BY <1>1, AttachedBefore
  <2> QED BY <2>1 DEF SeatInv, Calm, SameSeat, Seated
<1>2. ASSUME Uneventful', rejections' = 0, NEW d \in Driver
      PROVE  SameSeat(driver'[d], disk'.driver[d])
  BY <1>2 DEF SeatInv, SameSeat, faults
<1>3. ASSUME crashes' = 0, rejections' = 0, NEW d \in Driver,
             driver'[d].seat = "held", driver'[d].connected
      PROVE  \E s \in Socket : socket'[s].who = d
  <2>1. driver[d].seat = "held" /\ driver[d].connected
    BY <1>3 DEF Calm
  <2>2. PICK s \in Socket : socket[s].who = d
    BY <1>3, <2>1 DEF SeatInv, faults
  <2> QED BY <2>2, RoomAssumption DEF Named
<1> QED BY <1>1, <1>2, <1>3 DEF SeatInv

\* A login: the driver is seated in memory, and will be on disk.
LEMMA FinishSeats ==
  ASSUME SeatInv, SocketInv, BudgetInv, RoomTypeOK, NEW s \in Socket, FinishLogin(s)
  PROVE  SeatInv'
<1>a. PICK d \in Driver : d = socket[s].claim
  BY FinishSockets
<1> DEFINE k == [socket[s] EXCEPT !.who = d]
           named == [socket EXCEPT ![s] = k]
<1>0. /\ Core!TypeOK /\ DOMAIN socket = Socket
      /\ socket[s] \in Connection /\ UNCHANGED <<disk, faults>>
      /\ writing'.for = "login" /\ writing'.by = s
      /\ writing.for = "nothing" /\ Live(s) /\ s \in Logins(socket)
  BY DEF SocketInv, Good, FinishLogin, Await, RoomTypeOK, Idle, Logins, Connection
<1>1. Seated(driver'[d]) /\ \A c \in Driver \ {d} : driver'[c] = driver[c]
  BY <1>0, <1>a, ArrivalSeats DEF FinishLogin
<1>2. socket[s].who = Nobody
  BY <1>0 DEF BudgetInv
<1>3. k.who = d /\ Alive(k)
  BY <1>0 DEF Connection, Alive, Live
<1>4. socket' = ReplaceOthers(named, s, d)
  BY <1>0, <1>a DEF FinishLogin
<1>5. named[s] = k /\ \A o \in Socket \ {s} : named[o] = socket[o]
  BY <1>0
<1> HIDE DEF named, k
<1>6. socket'[s] = k
  BY <1>4, <1>5 DEF ReplaceOthers
<1>7. ASSUME NEW o \in Socket \ {s}
      PROVE  socket'[o].who = socket[o].who /\ (Alive(socket'[o]) => socket'[o] = socket[o])
  <2> DEFINE u == [socket[o] EXCEPT !.closed = TRUE, !.ready = "closing"]
  <2>1. ~Alive(u) /\ u.who = socket[o].who
    BY DEF SocketInv, Connection, Alive
  <2>2. socket'[o] = u \/ socket'[o] = socket[o]
    BY <1>4, <1>5 DEF ReplaceOthers
  <2> HIDE DEF u
  <2> QED BY <2>1, <2>2
<1>8. \A c \in Driver \ {d} : Attached(c)' \subseteq Attached(c)
  BY <1>3, <1>6, <1>7 DEF Attached, Live, Alive
<1>9. s \in Attached(d)'
  BY <1>3, <1>6 DEF Attached, Live, Alive
<1>10. ASSUME NEW c \in Driver, Attached(c)' # {}
       PROVE  /\ Seated(driver'[c])
              /\ \/ Seated(disk'.driver[c])
                 \/ writing'.for = "login" /\ writing'.by \in Attached(c)'
  <2>1. CASE c = d
    BY <1>0, <1>1, <1>9, <2>1
  <2>2. CASE c # d
    BY <1>0, <1>1, <1>8, <1>10, <2>2 DEF SeatInv
  <2> QED BY <2>1, <2>2
<1>11. ASSUME crashes' = 0, rejections' = 0, NEW c \in Driver,
              driver'[c].seat = "held", driver'[c].connected
       PROVE  \E o \in Socket : socket'[o].who = c
  <2>1. CASE c = d
    BY <1>3, <1>6, <2>1
  <2>2. CASE c # d
    <3>1. PICK o \in Socket : socket[o].who = c
      BY <1>0, <1>1, <1>11, <2>2 DEF SeatInv, faults
    <3>2. o # s
      BY <1>2, <3>1, RoomAssumption
    <3> QED BY <1>7, <3>1, <3>2
  <2> QED BY <2>1, <2>2
<1> QED BY <1>0, <1>10, <1>11 DEF SeatInv, Uneventful

\* A close event: its driver drops out, unless another socket is open.
LEMMA CloseSeats ==
  ASSUME SeatInv, SocketInv, RoomTypeOK, NEW s \in Socket, CloseEvent(s)
  PROVE  SeatInv'
<1>a. PICK d \in Driver \cup {Nobody} : d = socket[s].who
  BY DEF SocketInv, Connection
<1> DEFINE gone == [Unused EXCEPT !.ticket = socket[s].ticket]
           drops == d # Nobody /\ NoOtherSocket(s) /\ driver[d].seat = "held"
                    /\ driver[d].connected
<1>0. /\ Core!TypeOK /\ UNCHANGED <<disk, faults>> /\ writing.for = "nothing"
      /\ socket' = [socket EXCEPT ![s] = gone] /\ DOMAIN socket = Socket
  BY DEF CloseEvent, RoomTypeOK, Idle, SocketInv
<1>1. ~Alive(gone)
  BY DEF Alive, Unused
<1>2. socket'[s] = gone /\ \A o \in Socket \ {s} : socket'[o] = socket[o]
  BY <1>0
<1> HIDE DEF gone
<1>3. Quieter
  BY <1>1, <1>2 DEF Quieter, Keeps
<1>4. \A c \in Driver : Attached(c)' \subseteq Attached(c) \ {s}
  BY <1>1, <1>2 DEF Attached, Live, Alive
<1>5. CASE drops
  <2>1. Core!Disconnect(d) /\ writing'.for = "event" /\ d \in Driver
    BY <1>0, <1>5, <1>a DEF CloseEvent, Await
  <2>2. ~driver'[d].connected /\ \A c \in Driver \ {d} : SameSeat(driver[c], driver'[c])
    BY <1>0, <2>1, DropSeats
  <2>3. Attached(d)' = {}
    BY <1>4, <1>5, <1>a, <2>1 DEF NoOtherSocket
  <2>4. ASSUME NEW c \in Driver, Attached(c)' # {}
        PROVE  Seated(driver'[c]) /\ Seated(disk'.driver[c])
    <3>1. c # d /\ Attached(c) # {}
      BY <1>4, <2>3, <2>4
    <3> QED BY <1>0, <2>2, <3>1 DEF SeatInv, SameSeat, Seated
  <2>5. ASSUME crashes' = 0, rejections' = 0, NEW c \in Driver,
               driver'[c].seat = "held", driver'[c].connected
        PROVE  \E o \in Socket : socket'[o].who = c
    <3>1. c # d /\ driver[c].seat = "held" /\ driver[c].connected
      BY <2>2, <2>5 DEF SameSeat
    <3>2. PICK o \in Socket : socket[o].who = c
      BY <1>0, <2>5, <3>1 DEF SeatInv, faults
    <3> QED BY <1>2, <1>a, <3>1, <3>2
  <2> QED BY <2>1, <2>4, <2>5 DEF SeatInv, Uneventful
<1>6. CASE ~drops
  <2>1. UNCHANGED <<memory, writing>>
    BY <1>6, <1>a DEF CloseEvent
  <2>2. driver' = driver
    BY <2>1 DEF memory
  <2>3. ASSUME NEW c \in Driver, Attached(c)' # {}
        PROVE  Seated(driver'[c]) /\ Seated(disk'.driver[c])
    BY <1>0, <1>4, <2>2, <2>3 DEF SeatInv
  <2>4. ASSUME crashes' = 0, rejections' = 0, NEW c \in Driver,
               driver'[c].seat = "held", driver'[c].connected
        PROVE  \E o \in Socket : socket'[o].who = c
    <3>1. PICK o \in Socket : socket[o].who = c
      BY <1>0, <2>2, <2>4 DEF SeatInv, faults
    <3>2. CASE o # s
      BY <1>2, <3>1, <3>2
    <3>3. CASE o = s
      <4>1. Attached(c) \ {s} # {}
        BY <1>6, <1>a, <2>2, <2>4, <3>1, <3>3, RoomAssumption DEF NoOtherSocket
      <4> QED BY <1>2, <4>1 DEF Attached
    <3> QED BY <3>2, <3>3
  <2>5. \A c \in Driver : Uneventful' /\ rejections' = 0 => SameSeat(driver'[c], disk'.driver[c])
    BY <1>0, <2>1, <2>2 DEF SeatInv, Uneventful, faults
  <2> QED BY <2>3, <2>4, <2>5 DEF SeatInv
<1> QED BY <1>5, <1>6

\* A handler ends, with its write or without.
LEMMA EndedSeats ==
  ASSUME SeatInv, SocketInv, RoomTypeOK, writing.by \in Socket \cup {Server},
         Flush \/ Rejection
  PROVE  SeatInv'
<1>0. /\ Quieter /\ Named /\ UNCHANGED driver /\ writing' = Idle
      /\ \A d \in Driver : Attached(d)' \subseteq Attached(d)
  BY EndedSockets, AttachedBefore DEF Flush, Rejection, memory
<1>1. ASSUME crashes' = 0, rejections' = 0, crashes = 0, rejections = 0, NEW d \in Driver,
             driver'[d].seat = "held", driver'[d].connected
      PROVE  \E s \in Socket : socket'[s].who = d
  <2>1. PICK s \in Socket : socket[s].who = d
    BY <1>0, <1>1 DEF SeatInv
  <2> QED BY <1>0, <2>1, RoomAssumption DEF Named
<1>2. CASE Flush
  <2>1. disk'.driver = driver /\ UNCHANGED faults
    BY <1>2 DEF Flush, Stored
  <2>2. \A d \in Driver : Attached(d)' # {} => Seated(driver'[d]) /\ Seated(disk'.driver[d])
    BY <1>0, <2>1 DEF SeatInv
  <2> QED BY <1>0, <1>1, <2>1, <2>2 DEF SeatInv, SameSeat, faults
<1>3. CASE Rejection
  <2>1. UNCHANGED disk /\ rejections' # 0
    BY <1>3 DEF Rejection, RoomTypeOK
  <2>2. ASSUME NEW d \in Driver, Attached(d)' # {}
        PROVE  Seated(driver'[d]) /\ Seated(disk'.driver[d])
    <3>1. Seated(driver[d])
      BY <1>0, <2>2 DEF SeatInv
    <3>2. CASE writing.for = "login" /\ writing.by \in Attached(d)
      <4>1. writing.by \in Socket /\ writing.by # Server
        BY <3>2, RoomAssumption DEF Attached
      <4> DEFINE out == [Dropped(socket[writing.by]) EXCEPT !.ticket = "none"]
      <4>2. ~Alive(out)
        BY <4>1, DroppedShut, TicketGood DEF SocketInv
      <4>3. socket' = [socket EXCEPT ![writing.by] = out]
        BY <1>3, <3>2, <4>1 DEF Rejection
      <4> HIDE DEF out
      <4>4. socket'[writing.by] = out
        BY <4>1, <4>3 DEF SocketInv
      <4>5. writing.by \notin Attached(d)'
        BY <4>2, <4>4 DEF Attached, Live, Alive
      <4> QED BY <1>0, <2>2, <3>2, <4>5, AttachedBefore
    <3>3. CASE Seated(disk.driver[d])
      BY <1>0, <2>1, <3>1, <3>3
    <3> QED BY <1>0, <2>2, <3>2, <3>3 DEF SeatInv
  <2> QED BY <2>1, <2>2 DEF SeatInv
<1> QED BY <1>2, <1>3

\* The memory is read again from the disk.
LEMMA ReloadSeats ==
  ASSUME SeatInv, RoomTypeOK, Evict \/ Crash
  PROVE  SeatInv'
<1>0. driver' = disk.driver /\ disk' = disk
  BY DEF Evict, Crash, Reloaded
<1>1. \A d \in Driver : SameSeat(driver'[d], disk'.driver[d])
  BY <1>0 DEF SameSeat
<1>2. CASE Evict
  <2>1. UNCHANGED <<socket, writing, faults>> /\ writing.for = "nothing"
    BY <1>2 DEF Evict, Idle
  <2>2. \A d \in Driver : Attached(d)' = Attached(d)
    BY <2>1 DEF Attached, Live
  <2>3. \A d \in Driver : Attached(d)' # {} => Seated(driver'[d]) /\ Seated(disk'.driver[d])
    BY <1>0, <2>1, <2>2 DEF SeatInv
  <2>4. ASSUME crashes' = 0, rejections' = 0, NEW d \in Driver,
               driver'[d].seat = "held", driver'[d].connected
        PROVE  \E s \in Socket : socket'[s].who = d
    <3>1. SameSeat(driver[d], disk.driver[d])
      BY <2>1, <2>4 DEF SeatInv, Uneventful, faults
    <3> QED BY <1>0, <2>1, <2>4, <3>1 DEF SeatInv, SameSeat, faults
  <2> QED BY <1>1, <2>3, <2>4 DEF SeatInv
<1>3. CASE Crash
  <2>1. crashes' # 0 /\ \A s \in Socket : socket'[s] = Unused
    BY <1>3 DEF Crash, RoomTypeOK
  <2>2. \A d \in Driver : Attached(d)' = {}
    BY <2>1, UnusedGood DEF Attached, Live, Alive
  <2> QED BY <1>1, <2>1, <2>2 DEF SeatInv
<1> QED BY <1>2, <1>3

\* Every step keeps seats and sockets in line.
LEMMA SeatStep ==
  ASSUME SeatInv, SocketInv, BudgetInv, RoomTypeOK, [Next]_vars
  PROVE  SeatInv'
<1>0. Core!TypeOK /\ writing.by \in Socket \cup {Server}
  BY DEF RoomTypeOK
<1>1. \A p, q : q = p \/ SameSeat(p, q) => Calm(p, q)
  BY DEF SameSeat, Calm, Seated
<1>2. \A p : SameSeat(p, p)
  BY DEF SameSeat
<1>3. socket' = socket => Quieter /\ Named
  BY DEF Quieter, Named, Keeps
<1>4. CASE \/ \E s \in Socket :
                \/ Open(s) \/ (\E d \in Driver : BeginLogin(s, d))
                \/ (\E valid \in BOOLEAN : AbandonLogin(s, valid))
                \/ RefuseLogin(s) \/ ExpireLogin(s) \/ LimitMessage(s) \/ ClientCloses(s)
           \/ BucketExpires \/ UNCHANGED vars
  <2>1. UNCHANGED <<driver, disk, writing, faults>>
    BY <1>4 DEF Open, BeginLogin, AbandonLogin, RefuseLogin, ExpireLogin, LimitMessage,
                ClientCloses, BucketExpires, vars, memory
  <2>2. Quieter /\ Named
    BY <1>3, <1>4, ShutSockets, ManySockets DEF vars
  <2> QED BY <1>1, <1>2, <2>1, <2>2, CalmStep DEF Uneventful
<1>5. ASSUME NEW s \in Socket, FinishLogin(s)
      PROVE  SeatInv'
  BY <1>5, FinishSeats
<1>6. ASSUME NEW s \in Socket,
             \/ (\E e \in LapEvent : LapMessage(s, e)) \/ ReadyMessage(s)
             \/ TelemetryMessage(s) \/ LeaveMessage(s)
      PROVE  SeatInv'
  <2> DEFINE d == socket[s].who
  <2>0. Message(s)
    BY <1>6 DEF LapMessage, ReadyMessage, TelemetryMessage, LeaveMessage
  <2>1. d \in Driver /\ writing.for = "nothing"
    BY <2>0, SpeakerIsDriver DEF Message, Idle
  <2>2. UNCHANGED <<socket, disk, faults>>
    BY <1>6 DEF LapMessage, ReadyMessage, TelemetryMessage, LeaveMessage, Quiet
  <2>3. ASSUME ReadyMessage(s) \/ TelemetryMessage(s) \/ \E e \in LapEvent : LapMessage(s, e)
        PROVE  \A c \in Driver : SameSeat(driver[c], driver'[c])
    <3>1. \/ Core!SetReady(d) \/ Core!Telemetry(d)
          \/ (\E e \in LapEvent : Core!RejectLap(d, e))
          \/ (\E e \in LapEvent, recovered \in BOOLEAN : Core!CompleteLap(d, e, recovered))
          \/ UNCHANGED memory
      BY <2>3 DEF ReadyMessage, TelemetryMessage, LapMessage
    <3>2. CASE UNCHANGED memory
      BY <1>2, <3>2 DEF memory
    <3> QED BY <1>0, <2>1, <3>1, <3>2, ReportSeats
  <2>4. LeaveMessage(s) =>
          writing'.for = "leave" /\ \A c \in Driver : Calm(driver[c], driver'[c])
    BY <1>0, <2>1, LeaveSeats DEF LeaveMessage, Await
  <2>5. \A c \in Driver : Calm(driver[c], driver'[c])
    BY <1>1, <1>6, <2>3, <2>4
  <2>6. Uneventful' => \A c \in Driver : SameSeat(driver[c], driver'[c])
    BY <1>6, <2>3, <2>4 DEF Uneventful
  <2> QED BY <1>2, <1>3, <2>1, <2>2, <2>5, <2>6, CalmStep DEF Uneventful
<1>7. ASSUME NEW s \in Socket, CloseEvent(s)
      PROVE  SeatInv'
  BY <1>7, CloseSeats
<1>8. CASE Command \/ RefusedCommand \/ TickEvent
  <2>1. UNCHANGED <<socket, disk, faults>> /\ writing.for = "nothing"
    BY <1>8 DEF Command, RefusedCommand, TickEvent, Quiet, Idle
  <2>2. \A c \in Driver : Calm(driver[c], driver'[c])
    BY <1>0, <1>8, SessionSeats DEF Command, RefusedCommand, TickEvent
  <2>3. Uneventful' => driver' = driver
    BY <1>8 DEF Command, RefusedCommand, TickEvent, Await, Core!RefuseFinish, Uneventful
  <2> QED BY <1>2, <1>3, <2>1, <2>2, <2>3, CalmStep DEF Uneventful
<1>9. ASSUME NEW d \in Driver, Kick(d)
      PROVE  SeatInv'
  <2>1. UNCHANGED <<disk, faults>> /\ writing.for = "nothing" /\ writing'.for = "event"
    BY <1>9 DEF Kick, Idle, Await
  <2>2. \A c \in Driver : Calm(driver[c], driver'[c])
    BY <1>0, <1>9, LeaveSeats DEF Kick
  <2>3. Quieter /\ Named
    BY <1>9, ManySockets
  <2> QED BY <1>2, <2>1, <2>2, <2>3, CalmStep DEF Uneventful
<1>10. ASSUME NEW d \in Driver, WindowLapses(d)
       PROVE  SeatInv'
  <2>1. UNCHANGED <<socket, writing, faults>>
    BY <1>10 DEF WindowLapses
  <2>2. /\ driver \in [Driver -> Core!Participant] /\ disk.driver \in [Driver -> Core!Participant]
        /\ driver' = [driver EXCEPT ![d] = Past(@)]
        /\ disk'.driver = [disk.driver EXCEPT ![d] = Past(@)]
    BY <1>10 DEF WindowLapses, RoomTypeOK, Core!TypeOK
  <2>3. \A p \in Core!Participant : SameSeat(p, Past(p))
    BY SeatFields DEF SameSeat, Past
  <2>4. \A c \in Driver : /\ SameSeat(driver[c], driver'[c])
                          /\ SameSeat(disk.driver[c], disk'.driver[c])
    BY <1>2, <2>2, <2>3
  <2> QED BY <1>1, <1>3, <2>1, <2>4, CalmStep DEF Uneventful
<1>11. CASE Flush \/ Rejection
  BY <1>0, <1>11, EndedSeats
<1>12. CASE Evict \/ Crash
  BY <1>12, ReloadSeats
<1> QED BY <1>4, <1>5, <1>6, <1>7, <1>8, <1>9, <1>10, <1>11, <1>12 DEF Next

\* A driver with a live socket is connected for the race core, and until a
\* fault takes an event away a driver the core holds for connected has a socket
\* (finishSocketLogin, hasAnotherSocket, webSocketClose).
THEOREM SeatsFollowSockets == Spec => []SocketsMatchSeats
<1>1. Init => SeatInv
  BY UnusedGood DEF Init, SeatInv, Core!Init, Core!FreeSeat, Stored, SameSeat, Seated, Attached,
                    Live, Alive
<1>2. RoomInv /\ BudgetInv /\ RoomTypeOK /\ SeatInv /\ [Next]_vars => SeatInv'
  BY SeatStep DEF RoomInv
<1>3. SeatInv /\ RoomTypeOK => SocketsMatchSeats
  <2> SUFFICES ASSUME SeatInv, RoomTypeOK, NEW d \in Core!Held(driver)
               PROVE  /\ Attached(d) # {} => driver[d].connected
                      /\ driver[d].connected /\ crashes + rejections = 0
                           => \E s \in Socket : socket[s].who = d
    BY DEF SocketsMatchSeats
  <2>1. d \in Driver /\ driver[d].seat = "held"
    BY DEF Core!Held
  <2>2. crashes + rejections = 0 => crashes = 0 /\ rejections = 0
    BY DEF RoomTypeOK
  <2> QED BY <2>1, <2>2 DEF SeatInv, Seated
<1> QED BY <1>1, <1>2, <1>3, RoomInductive, BudgetInductive, RoomTypeCorrect, PTL DEF Spec

-----------------------------------------------------------------------------
(* The alarm *)

\* No window is open and no login is awaited.
Nothing ==
  /\ \A d \in Driver : driver[d].recovery = "none"
  /\ \A s \in Socket : Live(s) => socket[s].who # Nobody

\* Between handlers, and while telemetry is written, the alarm is set for
\* whatever has a deadline.
AlarmInv == Uneventful /\ rejections = 0 /\ ~alarm => Nothing

\* scheduleAlarm has just run.
LEMMA Scheduled ==
  ASSUME alarm' = AlarmDue(room', driver', socket')
  PROVE  AlarmInv'
BY DEF AlarmInv, Nothing, AlarmDue, Deadline, Live

\* A step that sets no deadline.
LEMMA NoDeadline ==
  ASSUME AlarmInv, UNCHANGED <<alarm, rejections>>,
         Uneventful' => Uneventful,
         Uneventful' => \A d \in Driver : driver[d].recovery = "none"
                                          => driver'[d].recovery = "none",
         Uneventful' => \A s \in Socket : Live(s)' /\ socket'[s].who = Nobody
                                          => Live(s) /\ socket[s].who = Nobody
  PROVE  AlarmInv'
BY DEF AlarmInv, Nothing

\* Sockets that are shut set no deadline, and a login that begins has one.
LEMMA ShutDeadlines ==
  ASSUME AlarmInv, SocketInv, NEW s \in Socket,
         (\E d \in Driver : BeginLogin(s, d)) \/ LimitMessage(s) \/ ClientCloses(s) \/ CloseEvent(s)
  PROVE  AlarmInv'
<1> DEFINE c == socket[s]
<1>0. Good(c) /\ DOMAIN socket = Socket
  BY DEF SocketInv
<1>1. UNCHANGED <<alarm, rejections>> /\ (Uneventful' => Uneventful)
  <2>1. UNCHANGED <<alarm, rejections>>
    BY DEF BeginLogin, LimitMessage, ClientCloses, CloseEvent, faults
  <2>2. writing = Idle \/ writing' = writing
    BY DEF BeginLogin, LimitMessage, ClientCloses, CloseEvent, Message
  <2> QED BY <2>1, <2>2 DEF Idle, Uneventful
<1>2. Good(Dropped(c)) /\ ~Alive(Dropped(c))
  BY <1>0, DroppedShut
<1>3. ASSUME NEW k, socket' = [socket EXCEPT ![s] = k],
             ~Alive(k) \/ (Alive(c) /\ c.who = Nobody),
             driver' = driver \/ ~Uneventful'
      PROVE  AlarmInv'
  <2>1. socket'[s] = k /\ \A o \in Socket \ {s} : socket'[o] = socket[o]
    BY <1>0, <1>3
  <2>2. \A o \in Socket : Live(o)' /\ socket'[o].who = Nobody => Live(o) /\ socket[o].who = Nobody
    BY <1>3, <2>1 DEF Live, Alive
  <2> QED BY <1>1, <1>3, <2>2, NoDeadline
<1>4. ASSUME NEW d \in Driver, BeginLogin(s, d)
      PROVE  AlarmInv'
  <2> DEFINE k == [c EXCEPT !.claim = d, !.ticket = "live"]
             x == [Dropped(c) EXCEPT !.claim = d]
  <2>1. Alive(c) /\ c.who = Nobody /\ driver' = driver
    BY <1>4 DEF BeginLogin, Live, Alive, memory
  <2>2. socket' = [socket EXCEPT ![s] = k] \/ socket' = [socket EXCEPT ![s] = x]
    BY <1>0, <1>4 DEF BeginLogin
  <2> HIDE DEF k, x
  <2> QED BY <1>3, <2>1, <2>2
<1>5. CASE LimitMessage(s)
  <2>1. socket' = [socket EXCEPT ![s] = Dropped(c)] /\ driver' = driver
    BY <1>5 DEF LimitMessage, memory
  <2> QED BY <1>2, <1>3, <2>1
<1>6. CASE ClientCloses(s)
  <2> DEFINE k == [c EXCEPT !.ready = "closing"]
  <2>1. socket' = [socket EXCEPT ![s] = k] /\ driver' = driver
    BY <1>0, <1>6 DEF ClientCloses, memory
  <2>2. ~Alive(k)
    BY <1>0 DEF Good, Connection, Alive
  <2> HIDE DEF k
  <2> QED BY <1>3, <2>1, <2>2
<1>7. CASE CloseEvent(s)
  <2> DEFINE k == [Unused EXCEPT !.ticket = c.ticket]
  <2>1. socket' = [socket EXCEPT ![s] = k]
    BY <1>7 DEF CloseEvent
  <2>2. driver' = driver \/ ~Uneventful'
    BY <1>7 DEF CloseEvent, Await, Uneventful, memory
  <2>3. ~Alive(k)
    BY DEF Unused, Alive
  <2> HIDE DEF k
  <2> QED BY <1>3, <2>1, <2>2, <2>3
<1> QED BY <1>4, <1>5, <1>6, <1>7

\* Every step keeps the alarm set for what has a deadline.
LEMMA AlarmStep ==
  ASSUME AlarmInv, SocketInv, RoomTypeOK, [Next]_vars
  PROVE  AlarmInv'
<1>0. DOMAIN driver = Driver /\ \A d \in Driver : driver[d] \in Core!Participant
  BY DEF RoomTypeOK, Core!TypeOK
<1>1. ASSUME NEW s \in Socket,
             \/ Open(s) \/ (\E valid \in BOOLEAN : AbandonLogin(s, valid))
             \/ RefuseLogin(s) \/ ExpireLogin(s)
      PROVE  AlarmInv'
  BY <1>1, Scheduled DEF Open, AbandonLogin, RefuseLogin, ExpireLogin, memory
<1>2. ASSUME NEW s \in Socket,
             (\E d \in Driver : BeginLogin(s, d)) \/ LimitMessage(s) \/ ClientCloses(s)
             \/ CloseEvent(s)
      PROVE  AlarmInv'
  BY <1>2, ShutDeadlines
<1>3. ASSUME NEW s \in Socket,
             \/ FinishLogin(s) \/ (\E e \in LapEvent : LapMessage(s, e)) \/ ReadyMessage(s)
             \/ LeaveMessage(s)
      PROVE  AlarmInv'
  <2>1. ~Uneventful'
    BY <1>3 DEF FinishLogin, LapMessage, ReadyMessage, LeaveMessage, Await, Uneventful
  <2> QED BY <2>1 DEF AlarmInv
<1>4. CASE Command \/ TickEvent \/ \E d \in Driver : Kick(d)
  <2>1. ~Uneventful'
    BY <1>4 DEF Command, TickEvent, Kick, Await, Uneventful
  <2> QED BY <2>1 DEF AlarmInv
<1>5. ASSUME NEW s \in Socket, TelemetryMessage(s)
      PROVE  AlarmInv'
  <2> DEFINE d == socket[s].who
             p == Core!Prepared(driver[d])
             k == [p EXCEPT !.status = "active"]
  <2>1. d \in Driver
    BY <1>5, SpeakerIsDriver DEF TelemetryMessage
  <2>2. p.recovery = driver[d].recovery /\ {"recovery", "status"} \subseteq DOMAIN p
    BY <1>0, <2>1, SeatFields DEF Core!Prepared
  <2>3. k.recovery = driver[d].recovery
    BY <2>2
  <2>4. driver' = [driver EXCEPT ![d] = p] \/ driver' = [driver EXCEPT ![d] = k]
    BY <1>0, <1>5, <2>1 DEF TelemetryMessage, Core!Telemetry
  <2> HIDE DEF k, p, d
  <2>5. \A c \in Driver : driver'[c].recovery = driver[c].recovery
    BY <1>0, <2>2, <2>3, <2>4
  <2>6. UNCHANGED <<alarm, rejections, socket>> /\ Uneventful
    BY <1>5 DEF TelemetryMessage, Quiet, Message, Idle, Uneventful, faults
  <2> QED BY <2>5, <2>6, NoDeadline DEF Live
<1>6. CASE RefusedCommand \/ UNCHANGED vars
  <2>1. UNCHANGED <<driver, socket, alarm, writing, rejections>>
    BY <1>6 DEF RefusedCommand, Core!RefuseFinish, Quiet, faults, memory, vars
  <2> QED BY <2>1, NoDeadline DEF Live, Uneventful
<1>7. CASE BucketExpires
  <2>1. UNCHANGED <<driver, alarm, writing, rejections>>
    BY <1>7 DEF BucketExpires, faults, memory
  <2>2. ASSUME NEW s \in Socket
        PROVE  Alive(socket'[s]) = Alive(socket[s]) /\ socket'[s].who = socket[s].who
    <3> DEFINE k == [socket[s] EXCEPT !.ticket = "stale"]
    <3>1. Alive(k) = Alive(socket[s]) /\ k.who = socket[s].who
      BY DEF SocketInv, Connection, Alive
    <3>2. socket'[s] = k \/ socket'[s] = socket[s]
      BY <1>7 DEF BucketExpires
    <3> HIDE DEF k
    <3> QED BY <3>1, <3>2
  <2> QED BY <2>1, <2>2, NoDeadline DEF Live, Alive, Uneventful
<1>8. ASSUME NEW d \in Driver, WindowLapses(d)
      PROVE  AlarmInv'
  <2>1. UNCHANGED <<socket, alarm, writing, rejections>> /\ driver' = [driver EXCEPT ![d] = Past(@)]
    BY <1>8 DEF WindowLapses, faults
  <2>2. \A c \in Driver : driver[c].recovery = "none" => driver'[c].recovery = "none"
    BY <1>0, <2>1 DEF Past
  <2> QED BY <2>1, <2>2, NoDeadline DEF Live, Uneventful
<1>9. CASE Flush
  <2>1. CASE writing.for = "telemetry"
    <3>1. UNCHANGED <<driver, socket, alarm, rejections>> /\ Uneventful
      BY <1>9, <2>1 DEF Flush, memory, faults, Uneventful
    <3> QED BY <3>1, NoDeadline DEF Live
  <2>2. CASE writing.for # "telemetry"
    BY <1>9, <2>2, Scheduled DEF Flush, memory
  <2> QED BY <2>1, <2>2
<1>10. CASE Rejection
  <2>1. rejections' # 0
    BY <1>10 DEF Rejection, RoomTypeOK
  <2> QED BY <2>1 DEF AlarmInv
<1>11. CASE Evict \/ Crash
  <2>1. alarm' = AlarmDue(room', driver', socket')
    BY <1>11 DEF Evict, Crash
  <2> QED BY <2>1, Scheduled
<1> QED BY <1>1, <1>2, <1>3, <1>4, <1>5, <1>6, <1>7, <1>8, <1>9, <1>10, <1>11 DEF Next

\* Between two handlers the alarm is set for every window that has to be closed
\* and every login that may have to be broken off, unless a write was rejected
\* (scheduleAlarm at the end of every handler, and in the constructor).
THEOREM AlarmIsSet == Spec => []AlarmCoversDeadlines
<1>1. Init => AlarmInv
  BY UnusedGood DEF Init, AlarmInv, Nothing, Core!Init, Core!FreeSeat, Live, Alive
<1>2. RoomInv /\ RoomTypeOK /\ AlarmInv /\ [Next]_vars => AlarmInv'
  BY AlarmStep DEF RoomInv
<1>3. AlarmInv => AlarmCoversDeadlines
  BY DEF AlarmInv, Nothing, AlarmCoversDeadlines, Uneventful, Idle
<1> QED BY <1>1, <1>2, <1>3, RoomInductive, RoomTypeCorrect, PTL DEF Spec

=============================================================================
