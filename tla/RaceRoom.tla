------------------------------ MODULE RaceRoom ------------------------------
(***************************************************************************)
(* The room around the race core: class RaceRoom in                        *)
(* cloudflare/src/index.ts.  A room is a Durable Object.  Its memory is    *)
(* the state of RaceCore; it is rebuilt from the disk when the object was  *)
(* evicted or crashed.  Drivers are reached through WebSockets, which are  *)
(* opened, logged in (the password check awaits, and other events run      *)
(* meanwhile), replaced by a newer socket of the same driver, and closed   *)
(* by either side, some time before the close event is handled.  A handler *)
(* that changes something important writes the state, sets the alarm, and  *)
(* only then answers.                                                      *)
(*                                                                         *)
(* Of the platform, modelled from its use: a handler that awaits a write   *)
(* keeps other events out; a write and the alarm set right after it land   *)
(* together or not at all; a write may be lost in a crash, which also      *)
(* drops the sockets, or be rejected (the state is too large), which       *)
(* leaves the memory as it is; an eviction happens in an idle room and     *)
(* keeps the sockets; every other socket that closes delivers its event.   *)
(***************************************************************************)
EXTENDS Naturals, FiniteSets

CONSTANTS
  Driver, LapId, LapEvent, TotalLaps, PracticeSessions, QualifyingSessions,
  Elimination, RecoveryEnabled, SessionInput, ControlInput, MaxStage, MaxEvent,
  Socket,           \* slots for connections
  MaximumPending,   \* maximumUnauthenticatedConnections
  MaximumLogins,    \* maximumConcurrentLogins
  LoginFailures,    \* loginFailureLimit
  MaxFault          \* bound: crashes and rejected writes in a behaviour

VARIABLES
  room, driver, archive, \* the memory of the race core
  disk,        \* race-state-v1
  socket,      \* connections and their attachments
  writing,     \* the handler that awaits its write, or Idle
  alarm,       \* an alarm is set
  acknowledged, \* laps some client was told are accepted
  active,      \* LoginFailureBudget.active
  spent,       \* count of the failure bucket
  crashes, rejections

Core == INSTANCE RaceCore

memory == <<room, driver, archive>>
budget == <<active, spent>>
faults == <<crashes, rejections>>
vars == <<memory, disk, socket, writing, alarm, acknowledged, budget, faults>>

Nobody == "nobody"
Server == "server"

\* The race core is given the constants it asks for.
ASSUME CoreAssumption == Core!LapEventAssumption /\ Core!BoundAssumption

ASSUME RoomAssumption ==
  /\ Nobody \notin Driver
  /\ Server \notin Socket
  /\ IsFiniteSet(Socket)
  /\ MaximumPending \in Nat \ {0}
  /\ MaximumLogins \in Nat \ {0}
  /\ LoginFailures \in Nat \ {0}
  /\ MaxFault \in Nat

Idle == [by |-> Server, for |-> "nothing", accepted |-> {}]

Connection ==
  [ready : {"none", "open", "closing"},  \* readyState; none: not connected
   closed : BOOLEAN,                     \* attachment.closed
   claim : Driver \cup {Nobody},         \* whom the login is for
   who : Driver \cup {Nobody},           \* attachment.participantId
   ticket : {"none", "live", "stale"}]   \* of a login in progress

Unused == [ready |-> "none", closed |-> FALSE, claim |-> Nobody,
           who |-> Nobody, ticket |-> "none"]

RoomTypeOK ==
  /\ Core!TypeOK
  /\ disk \in [room : Core!Room, driver : [Driver -> Core!Participant],
              archive : [Core!Stage -> Core!Result]]
  /\ socket \in [Socket -> Connection]
  /\ writing \in [by : Socket \cup {Server},
                  for : {"nothing", "message", "telemetry", "login", "leave", "event"},
                  accepted : SUBSET (Driver \X LapEvent)]
  /\ alarm \in BOOLEAN
  /\ acknowledged \subseteq Driver \X LapEvent
  /\ active \in 0..MaximumLogins
  /\ spent \in 0..LoginFailures
  /\ crashes \in 0..MaxFault
  /\ rejections \in 0..MaxFault

Stored(r, ds, ar) == [room |-> r, driver |-> ds, archive |-> ar]

Init ==
  /\ Core!Init
  /\ disk = Stored(room, driver, archive)
  /\ socket = [s \in Socket |-> Unused]
  /\ writing = Idle
  /\ alarm = FALSE
  /\ acknowledged = {}
  /\ active = 0
  /\ spent = 0
  /\ crashes = 0
  /\ rejections = 0

-----------------------------------------------------------------------------
(* Sockets, deadlines and the alarm *)

Live(s) == socket[s].ready = "open" /\ ~socket[s].closed

\* authenticatedSockets, of one driver
Attached(d) == {s \in Socket : Live(s) /\ socket[s].who = d}

\* getWebSockets without those a driver is logged in on; one whose close is
\* under way still counts.
Pending == {s \in Socket : socket[s].ready # "none" /\ socket[s].who = Nobody}

\* closeLimited
Dropped(c) == IF c.closed THEN c ELSE [c EXCEPT !.closed = TRUE, !.ready =
                IF @ = "open" THEN "closing" ELSE @]

\* nextAlarmMilliseconds has something to wait for.
Deadline(r, ds) ==
  \/ r.phase = "countdown"
  \/ r.phase \in {"practice", "qualifying"} /\ ~r.expired /\ r.clock = "running"
  \/ \E d \in Driver : ds[d].recovery # "none"
  \/ r.phase = "lobby" /\ Core!Away(ds) # {}

\* Mutant: the login deadlines are left out.
AlarmDueForRace(r, ds, so) == Deadline(r, ds)

\* scheduleAlarm
AlarmDue(r, ds, so) ==
  \/ Deadline(r, ds)
  \/ \E s \in Socket : so[s].ready # "none" /\ so[s].who = Nobody /\ ~so[s].closed

Await(s, for, accepted) ==
  writing' = [by |-> s, for |-> for, accepted |-> accepted]

\* Mutant: only a login that runs to its end gives its ticket back.
CompleteIfOpen(s, valid) ==
  IF socket[s].ready = "open"
  THEN /\ active' = active - 1
       /\ spent' = IF valid /\ socket[s].ticket = "live" THEN spent - 1 ELSE spent
  ELSE UNCHANGED budget

\* complete: the ticket is given back, and a valid login costs nothing.
Complete(s, valid) ==
  /\ active' = active - 1
  /\ spent' = IF valid /\ socket[s].ticket = "live" THEN spent - 1 ELSE spent

-----------------------------------------------------------------------------
(* Connecting and logging in *)

\* acceptSocket
Open(s) ==
  /\ writing = Idle
  /\ socket[s] = Unused
  /\ Cardinality(Pending) < MaximumPending
  /\ socket' = [socket EXCEPT ![s].ready = "open"]
  /\ alarm' = AlarmDue(room, driver, socket')
  /\ UNCHANGED <<memory, disk, writing, acknowledged, budget, faults>>

\* Mutant: the limit itself is exceeded by one.
BudgetAllowsOneMore == active < MaximumLogins /\ spent <= LoginFailures

\* begin
BudgetAllows == active < MaximumLogins /\ spent < LoginFailures

\* loginSocket up to the password check: a ticket, or the door.
BeginLogin(s, d) ==
  /\ writing = Idle
  /\ Live(s)
  /\ socket[s].who = Nobody /\ socket[s].claim = Nobody
  /\ IF BudgetAllows
     THEN /\ active' = active + 1
          /\ spent' = spent + 1
          /\ socket' = [socket EXCEPT ![s].claim = d, ![s].ticket = "live"]
     ELSE /\ socket' = [socket EXCEPT ![s] = [Dropped(@) EXCEPT !.claim = d]]
          /\ UNCHANGED budget
  /\ UNCHANGED <<memory, disk, writing, alarm, acknowledged, faults>>

\* The check ends without a login: wrong password, a socket that closed in
\* the meantime, or a deadline that passed.
AbandonLogin(s, valid) ==
  /\ writing = Idle
  /\ socket[s].ticket # "none"
  /\ Complete(s, valid)
  /\ socket' = [socket EXCEPT ![s] =
                  IF @.ready = "none" THEN Unused
                  ELSE [(IF Live(s) THEN Dropped(@) ELSE @) EXCEPT !.ticket = "none"]]
  /\ alarm' = AlarmDue(room, driver, socket')
  /\ UNCHANGED <<memory, disk, writing, acknowledged, faults>>

\* Mutant: the older sockets of the driver stay open.
KeepOthers(so, s, d) == so

\* The older sockets of the driver are closed.
ReplaceOthers(so, s, d) ==
  [o \in Socket |-> IF o # s /\ o \in Attached(d)
                    THEN [so[o] EXCEPT !.closed = TRUE, !.ready = "closing"]
                    ELSE so[o]]

\* finishSocketLogin of a live socket
FinishLogin(s) ==
  LET d == socket[s].claim
  IN  /\ writing = Idle
      /\ Live(s)
      /\ socket[s].ticket # "none"
      /\ Core!Login(d) \/ Core!Resume(d)
      /\ socket' = ReplaceOthers([socket EXCEPT ![s].who = d], s, d)
      /\ Await(s, "login", {})
      /\ UNCHANGED <<disk, alarm, acknowledged, budget, faults>>

\* core.login refuses: the seat was released, or qualifying is closed.
RefuseLogin(s) ==
  /\ writing = Idle
  /\ Live(s)
  /\ socket[s].ticket # "none"
  /\ driver[socket[s].claim].seat = "gone"
  /\ Complete(s, TRUE)
  /\ socket' = [socket EXCEPT ![s] = [Dropped(@) EXCEPT !.ticket = "none"]]
  /\ alarm' = AlarmDue(room, driver, socket')
  /\ UNCHANGED <<memory, disk, writing, acknowledged, faults>>

\* expireLogins, of one socket
ExpireLogin(s) ==
  /\ writing = Idle
  /\ alarm
  /\ Live(s)
  /\ socket[s].who = Nobody
  /\ socket' = [socket EXCEPT ![s] = Dropped(@)]
  /\ alarm' = AlarmDue(room, driver, socket')
  /\ UNCHANGED <<memory, disk, writing, acknowledged, budget, faults>>

\* The failure window ends; a login that is under way holds the old bucket.
BucketExpires ==
  /\ spent > 0
  /\ spent' = 0
  /\ socket' = [s \in Socket |-> IF socket[s].ticket = "live"
                                 THEN [socket[s] EXCEPT !.ticket = "stale"]
                                 ELSE socket[s]]
  /\ UNCHANGED <<memory, disk, writing, alarm, acknowledged, active, faults>>

-----------------------------------------------------------------------------
(* Messages of a driver *)

Message(s) == writing = Idle /\ Live(s) /\ socket[s].who # Nobody

Quiet == UNCHANGED <<disk, socket, alarm, acknowledged, budget, faults>>

\* Mutant: an accepted report is answered before it is written.
AnswerBeforeWrite(s, e) ==
  LET d == socket[s].who
  IN  /\ Message(s)
      /\ \E recovered \in BOOLEAN : Core!CompleteLap(d, e, recovered)
      /\ acknowledged' = acknowledged \cup {<<d, e>>}
      /\ Await(s, "message", {})
      /\ UNCHANGED <<disk, socket, alarm, budget, faults>>

\* Every answer to a lap report follows a write, also that to a repeat, which
\* is about the report that was accepted under its id.
LapMessage(s, e) ==
  LET d == socket[s].who
  IN  /\ Message(s)
      /\ Quiet
      /\ \/ /\ \E recovered \in BOOLEAN : Core!CompleteLap(d, e, recovered)
            /\ Await(s, "message", {<<d, e>>})
         \/ /\ \E r \in driver[d].receipts :
                 /\ r.event.id = e.id
                 /\ Await(s, "message", {<<d, r.event>>})
            /\ UNCHANGED memory
         \/ /\ Core!RejectLap(d, e)
            /\ Await(s, "message", {})
         \/ /\ ~Core!Reported(driver[d], e)
            /\ \A recovered \in BOOLEAN : ~Core!LapAdmitted(driver[d], recovered)
            /\ UNCHANGED memory
            /\ Await(s, "message", {})

ReadyMessage(s) ==
  /\ Message(s)
  /\ Core!SetReady(socket[s].who)
  /\ Await(s, "message", {})
  /\ Quiet

\* Telemetry is written every two seconds.
TelemetryMessage(s) ==
  /\ Message(s)
  /\ Core!Telemetry(socket[s].who)
  /\ UNCHANGED writing \/ Await(s, "telemetry", {})
  /\ Quiet

LeaveMessage(s) ==
  /\ Message(s)
  /\ Core!Release(socket[s].who)
  /\ Await(s, "leave", {})
  /\ Quiet

\* closeLimited of a socket that is logged in: too many messages, or bad ones.
LimitMessage(s) ==
  /\ Message(s)
  /\ socket' = [socket EXCEPT ![s] = Dropped(@)]
  /\ UNCHANGED <<memory, disk, writing, alarm, acknowledged, budget, faults>>

\* The client closes, or its connection breaks.
ClientCloses(s) ==
  /\ socket[s].ready = "open"
  /\ socket' = [socket EXCEPT ![s].ready = "closing"]
  /\ UNCHANGED <<memory, disk, writing, alarm, acknowledged, budget, faults>>

\* Mutant: the driver is disconnected whichever of its sockets closes.
NoOtherSocketAssumed(s) == TRUE

\* hasAnotherSocket, negated
NoOtherSocket(s) == Attached(socket[s].who) \ {s} = {}

\* webSocketClose and webSocketError
CloseEvent(s) ==
  LET d == socket[s].who
  IN  /\ writing = Idle
      /\ socket[s].ready = "closing"
      /\ socket' = [socket EXCEPT ![s] = [Unused EXCEPT !.ticket = socket[s].ticket]]
      /\ IF d # Nobody /\ NoOtherSocket(s) /\ driver[d].seat = "held" /\ driver[d].connected
         THEN Core!Disconnect(d) /\ Await(s, "event", {})
         ELSE UNCHANGED <<memory, writing>>
      /\ UNCHANGED <<disk, alarm, acknowledged, budget, faults>>

-----------------------------------------------------------------------------
(* Race control and the alarm *)

\* applyAdmin of an accepted command
Command ==
  /\ writing = Idle
  /\ Core!ToRace \/ Core!ToLobby
  /\ Await(Server, "event", {})
  /\ Quiet

\* applyAdmin of a refused command: nothing is written.
RefusedCommand ==
  /\ writing = Idle
  /\ Core!RefuseFinish
  /\ UNCHANGED writing
  /\ Quiet

\* disconnectClient
Kick(d) ==
  /\ writing = Idle
  /\ Core!Release(d)
  /\ socket' = [s \in Socket |-> IF s \in Attached(d)
                                 THEN [socket[s] EXCEPT !.ready = "closing"]
                                 ELSE socket[s]]
  /\ Await(Server, "event", {})
  /\ UNCHANGED <<disk, alarm, acknowledged, budget, faults>>

Ticks == Core!TickLobby \/ Core!TickRecovery

\* The alarm runs tick; a message of a driver runs it too.
TickEvent ==
  /\ writing = Idle
  /\ alarm \/ \E s \in Socket : Message(s)
  /\ Ticks
  /\ Await(Server, "event", {})
  /\ Quiet

Past(p) == IF p.recovery = "open" THEN [p EXCEPT !.recovery = "lapsed"] ELSE p

\* Time passes, for the end of a window in memory and on disk alike.
WindowLapses(d) ==
  /\ "open" \in {driver[d].recovery, disk.driver[d].recovery}
  /\ driver' = [driver EXCEPT ![d] = Past(@)]
  /\ disk' = [disk EXCEPT !.driver[d] = Past(@)]
  /\ UNCHANGED <<room, archive, socket, writing, alarm, acknowledged, budget, faults>>

-----------------------------------------------------------------------------
(* Writes and faults *)

\* persist, and what the handler does after it: the alarm is set, the answer
\* is sent (and may be lost), a socket that leaves is closed.
Flush ==
  LET s == writing.by
      login == writing.for = "login"
  IN  /\ writing # Idle
      /\ disk' = Stored(room, driver, archive)
      /\ socket' = CASE writing.for = "leave" ->
                          [socket EXCEPT ![s].closed = TRUE, ![s].ready = "closing"]
                     [] login -> [socket EXCEPT ![s].ticket = "none"]
                     [] OTHER -> socket
      /\ alarm' = IF writing.for = "telemetry" THEN alarm
                  ELSE AlarmDue(room, driver, socket')
      /\ IF login THEN Complete(s, TRUE) ELSE UNCHANGED budget
      /\ \/ UNCHANGED acknowledged
         \/ /\ writing.accepted # {}
            /\ socket[s].ready = "open"
            /\ acknowledged' = acknowledged \cup writing.accepted
      /\ writing' = Idle
      /\ UNCHANGED <<memory, faults>>

\* The put throws: a message closes its socket, the rest goes unanswered.
\* The memory keeps what was not written.
Rejection ==
  LET s == writing.by
      login == writing.for = "login"
  IN  /\ writing # Idle
      /\ crashes + rejections < MaxFault
      /\ rejections' = rejections + 1
      /\ socket' = IF s = Server \/ writing.for = "event" THEN socket
                   ELSE [socket EXCEPT ![s] = [Dropped(@) EXCEPT !.ticket = "none"]]
      /\ IF login THEN Complete(s, TRUE) ELSE UNCHANGED budget
      /\ writing' = Idle
      /\ UNCHANGED <<memory, disk, alarm, acknowledged, crashes>>

\* constructor and normalizeStored: a running stage without an id gets one.
\* Clocks, windows and connections are taken over as they were written.
Reloaded ==
  LET r == disk.room
      lacking == /\ r.stage = Core!NoStage
                 /\ r.phase \in {"practice", "qualifying", "race", "finished", "suspended"}
  IN  /\ lacking => r.stages < MaxStage
      /\ room' = IF lacking THEN [r EXCEPT !.stage = r.stages + 1, !.stages = r.stages + 1]
                 ELSE r
      /\ driver' = disk.driver
      /\ archive' = disk.archive

\* The idle room leaves memory; the sockets stay and wake it again.
Evict ==
  /\ writing = Idle
  /\ active = 0
  /\ Reloaded
  /\ alarm' = AlarmDue(room', driver', socket)
  /\ UNCHANGED <<disk, socket, writing, acknowledged, budget, faults>>

\* The object is lost in the middle of anything, and its sockets with it.
Crash ==
  /\ crashes + rejections < MaxFault
  /\ crashes' = crashes + 1
  /\ Reloaded
  /\ socket' = [s \in Socket |-> Unused]
  /\ writing' = Idle
  /\ active' = 0
  /\ alarm' = AlarmDue(room', driver', socket')
  /\ UNCHANGED <<disk, acknowledged, spent, rejections>>

-----------------------------------------------------------------------------
Next ==
  \/ \E s \in Socket :
       \/ Open(s)
       \/ \E d \in Driver : BeginLogin(s, d)
       \/ \E valid \in BOOLEAN : AbandonLogin(s, valid)
       \/ FinishLogin(s)
       \/ RefuseLogin(s)
       \/ ExpireLogin(s)
       \/ \E e \in LapEvent : LapMessage(s, e)
       \/ ReadyMessage(s)
       \/ TelemetryMessage(s)
       \/ LeaveMessage(s)
       \/ LimitMessage(s)
       \/ ClientCloses(s)
       \/ CloseEvent(s)
  \/ BucketExpires
  \/ Command
  \/ RefusedCommand
  \/ \E d \in Driver : Kick(d) \/ WindowLapses(d)
  \/ TickEvent
  \/ Flush
  \/ Rejection
  \/ Evict
  \/ Crash

Spec == Init /\ [][Next]_vars

-----------------------------------------------------------------------------
(* Correctness *)

OnDisk == {d \in Driver : disk.driver[d].seat = "held"}

\* The laps on disk, as the ledger sees them.
Credited == UNION {{<<d, r.event>> : r \in disk.driver[d].receipts} : d \in OnDisk}

Ledger == INSTANCE LapLedger WITH
  Report <- LapEvent,
  credited <- Credited,
  departed <- {d \in Driver : disk.driver[d].seat = "gone"}

\* The room implements the ledger: through crashes, evictions, rejected
\* writes, lost answers and repeated reports, a lap is credited once and an
\* acknowledged lap is on disk and stays there (webSocketMessage, persist).
LedgerImplemented == Ledger!Spec

\* A driver who is logged in on an open socket is connected for the core,
\* and one the core holds for connected has a socket that is open or whose
\* close is still to be handled, unless the object lost an event
\* (finishSocketLogin, hasAnotherSocket, webSocketClose).
SocketsMatchSeats ==
  \A d \in Core!Held(driver) :
    /\ Attached(d) # {} => driver[d].connected
    /\ driver[d].connected /\ crashes + rejections = 0
         => \E s \in Socket : socket[s].who = d

\* Two sockets of one driver are never both open for messages.
OneSocketEach == \A d \in Driver : Cardinality(Attached(d)) <= 1

\* Every login in progress holds one ticket and no other login does, however
\* it ends and whatever closed its socket meanwhile; a window never takes
\* more failures than it may, nor fewer than are under way (begin, complete).
BudgetBalanced ==
  LET tickets(kinds) == Cardinality({s \in Socket : socket[s].ticket \in kinds})
  IN  /\ active = tickets({"live", "stale"})
      /\ spent >= tickets({"live"})

\* The alarm is set for every window that has to be closed and every
\* login that may have to be broken off, unless a write was rejected
\* (scheduleAlarm at the end of every handler, and in the constructor).
AlarmCoversDeadlines ==
  writing = Idle /\ rejections = 0 /\ ~alarm =>
    /\ \A d \in Driver : driver[d].recovery = "none"
    /\ \A s \in Socket : Live(s) => socket[s].who # Nobody
=============================================================================
