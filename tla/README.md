# Race server: a TLA+ verification project

This directory specifies the state machine of LazyForza.RaceServer, model-checks it with
TLC on small instances and proves properties of it with TLAPS. The code is the reference:
every definition is translated from the source, TypeScript for the Cloudflare server and C# for
the native one, and `PROJECT.json` lists the lines each definition stands for.

## 1. The system

A *race room* hosts one event at a time: practice, qualifying and a race of drivers who run
the game on their own machines and report telemetry and completed laps over a WebSocket. Race
control drives the room from a browser. There are two servers that must behave alike: a
Cloudflare Durable Object (`cloudflare/src`) and an ASP.NET host (`src/LazyForza.RaceServer.*`).

| component | state | operations | interaction |
|---|---|---|---|
| **Race core** `race-core.ts`, `lap-validation.ts` | phase, flag, clocks, active stage, participants, penalties, result history | login, disconnect, leave, ready, telemetry, lap, pit service, session/flag/penalty/participant commands, new event, tick | a synchronous object; the room calls one operation at a time |
| **Race room** `index.ts` | sockets with attachments, the core, storage, the alarm | WebSocket messages, admin routes, alarm | calls the core, *persists, then acknowledges* and broadcasts; sets the alarm to the core's next deadline |
| Penalties, pit services | penalties, drive-through deadlines, minimum stops | issue, serve, convert, finalise at the finish, revoke | inside the core |
| Telemetry rules, collisions | sample windows, investigations | track limits, shortcuts, false start, yellow flags, collisions | inside the core; end in a penalty or an investigation |
| Event projects `event-projects.ts`, `prepareEvent` | projects with status and results | create, activate, complete, archive, prepare | one transaction with the core's state |
| Ingress protection | budgets per socket and address | consume, refill | in front of the room |
| Native coordinator, recovery, event lifecycle | the same state under one lock; a checkpoint file; a pending-event file | as above, plus restore and confirm | broadcast and clock services |
| Access, templates, tracks, logos, public timing | documents, role checks | store, validate, project | no protocol with the race |

**What is hard here.** Clients resend a lap whose acknowledgement was lost, possibly in a later
stage; a driver who drops out has 30 s to come back with the lap it had finished; sessions close
only when nobody is left to wait for, and there are many ways to stop being awaited (a lap, a
disconnection, leaving, removal, a window that runs out, a reconnect); a stage is archived
several times while entrants come and go; commands can arrive in any order and in any phase.
The correctness properties are: a lap is counted exactly once, in the right stage; a race ends
exactly when it should and its result is archived and kept; an event has one race result;
nothing waits for nobody; what the room acknowledged is on disk; a penalty is served, converted or
added to the result, and given once; a contact has one investigation; a flag outlives no zone; a
completed project keeps its records. `PROJECT.json` lists these hazards with their lines.

## 2. Modules

| module | content |
|---|---|
| `RaceCore` | the race core: state, one action per handler, properties |
| `RaceRoom` | the Durable Object around `RaceCore`: sockets, logins, persistence, acknowledgement, alarm, crash |
| `LapLedger` | what the room promises of a lap report; `RaceRoom` implements it |
| `Penalties` | penalties and pit services of one driver in a race |
| `EventProjects` | the project list, its files, `prepareEvent`, uploads, with storage that fails |
| `NativeEvents` | the same on the native server: five files, the intent of a switch, failed writes, restarts |
| `EventSwitch` | what preparing an event promises; `NativeEvents` implements it |
| `Collisions` | impact bursts, collision investigations, replays |
| `YellowFlags` | yellow zones and the flag that is shown |
| `TrackRules` | false start, pit speed, track limits of one driver |
| `MC*` | constants and symmetry for TLC; `MCStewarding` puts `Penalties`, `Collisions`, `YellowFlags` and `TrackRules` side by side, `MCPreparing` the two servers' events; `MCScenarios` takes the race core through scenarios, each with some of the commands of race control |
| `RaceCoreProofs`, `RaceCoreLapProofs`, `RaceCoreStageProofs` | theorems of `RaceCore`: types, laps, stages and results |
| `RaceRoomProofs` | theorems of `RaceRoom`, and that it implements `LapLedger` |
| `PenaltiesProofs`, `StewardingProofs` | theorems of `Penalties`; of `YellowFlags`, `TrackRules`, `Collisions` and `MCStewarding` |
| `EventProjectsProofs`, `NativeEventsProofs` | theorems of `EventProjects` and `MCPreparing`; of `NativeEvents`, and that it implements `EventSwitch` |

`RaceRoom` composes: the variables of the race core are its memory, and its disk is a second copy
of them. The other modules each take a part of the core that the rest
reads only through a status or a penalty, with the sessions around it reduced to the transitions
that part reacts to.

### RaceCore

`room` holds the fields of `StoredRaceState` that belong to nobody, `driver` the participants,
`archive` the `resultHistory`. A seat is free, held, or gone (released, its resume token revoked;
the same person logs in again as a new participant). The actions are the handlers: `Login`,
`Resume`, `Disconnect`, `Release`, `SetReady`; `Telemetry`, `CompleteLap`, `RejectLap`; `ToLobby`,
`ToTimed`, `ToGrid`, `ToStart`, `Countdown`, `ToRace`, `RefuseFinish`, `BeginEvent`; `RedFlag`,
`GreenFlag`, `Classify`, `Penalise`, `Revoke`; and the parts of `tick`. The completion checks that
end most handlers (`completePracticeIfReady`, `completeQualifyingIfReady`,
`tryCompleteRaceIfReady`) are one operator, `Settle`; where a handler calls only the last of them
(`Resume`) so does the action.

What is abstracted, and why that is faithful:

* The statuses connected, ready, onTrack, inPitLane and inService are "active": no modelled
  guard separates them, except the eligibility for a final lap, which also reads telemetry and is
  a choice (`onLap`). Green and yellow are "green".
* An instant is only compared with the clock. A recovery window is open, lapsed (its end has
  passed, no tick yet) or none; session clocks are running or none. `WindowLapses` and
  `TickExpiry` may happen at any time. `practiceEndsAt`/`qualifyingEndsAt`, the two session
  counters and the two final-lap flags are each one field: a session command resets both, and
  only those of the current phase are read.
* Lap times are left out. They decide the order of a result and who is eliminated: `Cuts` lets
  any drivers of the right number be eliminated.
* `receivedLapEvents`, the trimmed list that is looked up before the receipts (race-core.ts:903), is left
  out: event ids are GUIDs, so what it recognises has a receipt as long as the driver holds a seat. Two
  cases are therefore not covered: a driver who was released, joined again and sends a lap of the
  stage that still runs (the code acknowledges it from the list, the model would validate it anew),
  and the trimming itself, which can only make the code fall back on the receipts.
* A repeated report whose receipt is found changes nothing and is a stutter.
* `minimumRequiredPitStops` is 0 and `totalRaceLaps` fixed in a behaviour; `resultHistory` is
  within its 24 entries. Observers, teams, names, banners and the audit trail are left out.
* `tick` runs its parts one after the other in one call; each part is a step, and two due parts
  are two steps in a row. A schedule in which another handler runs between them is one in which
  the second was due a moment later.
* The command `suspended` falls in the same refusing branch as `finished`; only the latter is
  modelled.

### RaceRoom and LapLedger

State: the core in memory (the variables of `RaceCore`, whose actions are taken through
`INSTANCE`), the core on disk (`race-state-v1`), the sockets with their attachments, the budget of
failed logins, the alarm, and the handler that awaits its write (`writing`). A handler changes the
core and waits (`Await`); then the write lands, the alarm is set and the answer is sent (`Flush`),
or the write is refused (`Rejection`), or the object is lost (`Crash`).

The platform is external and modelled from what the code relies on: a handler that awaits a write
keeps other events out, and a write lands together with the alarm set after it. A login's password
check awaits something that is not storage, and other events come between (`BeginLogin`, then
`FinishLogin`, `RefuseLogin` or `AbandonLogin`). A crash loses the object, its sockets and a write
under way; an eviction, of an idle room, loses only the object. A rejected put leaves memory ahead
of the disk, as in the code. Close events arrive late and in any order.

Abstractions: `tick` inside a message is a separate `TickEvent` (the same argument as for the parts
of `tick` above). The source and the identity of a login are one budget. Whether the message bucket
admits a message is a choice (`LimitMessage`); its refill is arithmetic. After a kick a message of
the old socket is only refused. Observers have no seat and are left out. Telemetry is persisted at
most every 2 s: `TelemetryMessage` may or may not write.

`LapLedger` has the pairs credited and acknowledged and the drivers who left; its one step credits
laps, removes the laps of whoever leaves, or acknowledges a lap on record. `LedgerImplemented` is
the refinement: credited is what the disk holds, acknowledged what was answered. So no crash, failed
write, eviction or repeat makes an acknowledged lap disappear or count again.

Observed: after a crash the constructor reloads participants that are marked connected and have no
socket; nothing marks them away until they log in again (`SocketsMatchSeats` does not demand a socket
once an event was lost).
No liveness is stated: `AlarmCoversDeadlines` is the argument for the fairness of `RaceCore`.

### Penalties

One driver, because penalties of different drivers do not meet; the rivals are two actions (one
takes the flag, the race ends). State: how many penalties of each kind are open or adjust the
result, the live service state of `updatePenaltyServiceState` (in the lane, entered and left the box,
time stood), the lap deadline of a drive-through, the pit visits seen and completed. Time is whole
seconds with gaps of up to `MaxGap` between two messages. The receipt list is subsumed by the visit
ids, as in `RaceCore`. Not modelled: a red flag after the race is over, changing the seconds of a
penalty, revoking a revoked one.

Observed, with no document against it: a car that stands once and then drives on keeps its clock
running, so a stop is not voided (race-core.ts:2744-2745), and `penaltyServiceLastUpdatedAt`
survives a revocation; a time penalty issued while another is being served is served with it; with
a drive-through pending as well, leaving the box and then the lane writes both off in one visit; a
control disqualification followed by a disqualifying penalty that is revoked leaves the status
"finished" with a drive-through pending; a stop-and-go issued after the finish stays pending.

### EventProjects

State: memory (projects, core's event, stage, results and track), disk, and handlers waiting for
storage or for a request body. Each `await` of a handler is a point where its write may be rejected
or the object restarted, and only `prepareEvent` writes in a transaction. The stage, the race and
the penalties after it are the core's, reduced to "started, finished, penalised, archived". One
export is kept for `Import`, and none while an upload waits (bounds). Not modelled: concurrent imports
across their digests, the limits of 24 results and 2000 events, the schedule, the logo, the zip format.

The room hosts one track package, stored apart from its settings (`hosted`: the track it is named
for, and the file). `EndUpload` stores and hosts the file first and then asks for the settings,
which are refused if a race has begun meanwhile (the finding `v_upload`); `DeleteTrackPackage` asks for no
phase; `Activate` hosts the project's file, or nothing. `MatchingFile` is what drivers can download and what
`Create` and `Capture` put into a project: the hosted file, if its name is the room's track. Uploads
are checked against the digests in the package, so the file of an upload is of the track it
names. `RefuseSession` drops the stage of a race only: in the phase finished the event has its race
result, so every other phase but the lobby is refused before (race-core.ts:1288-1291), and for the
phase finished itself nothing is closed (1302-1303).

Observed: create, copy, import, delete and capture assign the project list in memory before the
write and do not roll it back; delete removes the files before the list, which leaves a listed
project without files when it is cut (`cut` in `ListedProjectsHaveTheirFiles`); importing the
package of a deleted draft gives a project with the same id, hence an event with the same id.

### NativeEvents and EventSwitch

The native server keeps the coordinator (`current-race.json`), the list of projects, the hosted
track and logo, the settings with the schedule, and the intent of a switch
(`pending-event.json`) in files of their own: the fields of `disk`. `PrepareAsync` is a job that
goes through its writes one step at a time: `Check` (the guards, and the results of the project that
will be completed), `WriteIntent`, then `ApplyAsync`: `BeginEvent`, `ApplyRoom`, `HostFiles`,
`SaveSettings`, `ActivateProject` or `CompleteProjects`, `DeleteIntent`, and the `Answer`. A next
request that finds an intent carries it out first, and so does the start of the process
(`RecoverAsync`). A write may fail: memory is ahead of the file then and the request ends, or the
process if it was starting. The process may stop between any two steps and starts from the files
(`Restart`). Administrator requests wait for each other and, while an intent is pending, all others
are refused (`Admitted`); drivers (`FinishRace`), the sync service and the checkpoint come between any
two steps.

`EventSwitch` has one step: the room goes to an event, together with the project that records it
and its configuration. `SwitchImplemented` is the refinement: while an intent is on disk the event,
project and configuration are those of the intent, otherwise those of the files, and these agree. So
wherever the process stops, the files and the intent together show one event. `CompletedWithStages`
is what the replay relies on: the results of the old project are on disk before the intent is.

Abstractions: track and logo are one file, room settings and schedule another; a configuration is
the identifier of the project it came from. The rehearsal with an empty coordinator is left out: it refuses
what the settings themselves make invalid, and settings are not edited here. After a restart a
running race is suspended; it is "race" here, since both refuse a switch. `AppendAudit` after a
commit may fail the request with everything done; the audit trail is left out. Not modelled:
capture of settings into a project, the files of projects, the package format.

Observed:

* A draft that was exported, raced, deleted and imported again keeps its identifier, which is that of
  the event it is prepared for. The rehearsal accepts it (the empty coordinator has no history),
  the intent is written, and `ApplyRoomSettings` refuses (RaceCoordinator.cs:1018) in every
  retry and at every start, while all other administrator requests are answered 409.
* The end of a race is in memory when its write fails. A switch accepted in this state leaves, if
  the process stops before the next write of the coordinator, an intent that the restored race
  refuses (RaceCoordinator.cs:950): the server does not start while the intent is there.

The refinement and the other invariants hold in these states too: the intent stays, nothing is mixed.
`NativeEvents` promises no progress for that reason.

Read but not modelled, of the freeze and the confirmation in `RaceCoordinator.Recovery.cs`: a restored driver
with a pending final lap of qualifying who never returns keeps `CompleteQualifyingIfReady` waiting;
the confirming green flag does not call `TryCompleteRaceIfReady`; drivers of a chequered race who
reconnect only after it are classified as not finished.

### Collisions, YellowFlags, TrackRules

These and `Penalties` share no variable, so `MCStewarding` explores them one beside the other
(`part`): their product would show nothing more. `MCPreparing` does the same with `EventProjects` and
`NativeEvents`, and gives the former three scenarios with bounds of their own (`scenario`).

* `Collisions`: what the geometry decides (which evidence counts as a contact) is a choice; pairing,
  the deduplication window of each pair (`watch.quiet`), merging a burst, its capacity, the status of
  an investigation and the deadline of its replay are the code's. Assumed: a client's `impactSequence` grows across its
  reconnects; a message takes no time. Left out: replay samples, live positions.
* `YellowFlags`: whether a car is in danger is a choice, and how long it must be so is left open.
  Sessions end when they please; whoever is eliminated from a qualifying is a choice that leaves one
  driver. Left out: blue flags, `chequeredImminent`.
* `TrackRules`: one driver in the race phase, with the lights one by one. Left out:
  `lapHasTrackLimitIncident`, shortcuts outside the race.

That one start may cost one car several false starts is the finding `v_lights`. Observed, with no
document against it: lights out, the grid, and the next practice or qualifying session write "green" over standing zones
until the next refresh (`overwritten`). A disqualification by penalty leaves the car's yellow until
its next valid message, and a paused car keeps its yellow. `completeQualifyingIfReady` makes
connected disqualified drivers ready again (3128-3149). The cap of 24 investigations counts resolved
ones (2330); an investigation whose drivers were kicked can not be resolved (1533-1534);
deduplication is in memory only. Evidence in the very message an excursion begins, or after its
rejoin was sanctioned, sanctions one cut twice (2854, 2936-2943); a severe cut also counts as a
warning (2954); a large leap without an excursion makes the next excursion unsanctioned; only the
last evidence id is remembered. `ExcursionSettledOnce` is stated for what remains.

## 3. Runs

| run | instance | shows |
|---|---|---|
| `records` | counting: 1 driver, 5 reports, 2 stages, practice of 2 sessions and races, DNF and penalties; repeating: 2 drivers, races of 2 laps, 2 stages, 2 events, red flags | `LapsCredited`, `EachLapOnce`; `OneRacePerEvent`, `RaceResultStays` |
| `sessions` | racing: 2 drivers, 3 reports, a race of 2 laps, red flags; timing: 2 drivers, practice and 2-session qualifying | `TypeOK`; `RaceOpenForSomebody`, `FinishedRaceIsArchived`, `DepartedKeepResult`, `DesertedRaceEnds`; `PendingLapCanCome`, `DesertedSessionCloses` |
| `room` | 1 driver, 2 sockets, 1 report, 1 fault | `RoomTypeOK`, `SocketsMatchSeats`, `OneSocketEach`, `BudgetBalanced`, `AlarmCoversDeadlines`, `LedgerImplemented` |
| `stewarding` | 2 drivers, 5 clock ticks, 2 contacts; 2 cars; 2 lights, 3 sanctions; 1 driver, 2 laps, 2 penalties (1 for an old client), 1 visit, 1 minimum stop | `StewardingTypeOK`; `OneInvestigationPerContact`, `ToldImpactsOpenNothing`, `FinalReplaysStand`; `FlagShowsTheTrack`, `AutomaticYellowHasACar`; `PitSpeedingOncePerVisit`, `ExcursionSettledOnce`; `EachVisitOnce`, `DisqualificationForStopsIsTrue`, `SanctionsAreNotLost`, `FlagSettlesEverything` |
| `preparing` | records: 2 projects, no track, 2 races, 1 penalty, 1 fault; files: 2 projects, 1 track, 1 fault; hosting: 1 project at a time, 2 tracks, 1 race; native: 2 projects, 3 identifiers, 1 race, 2 faults | `PreparingTypeOK`; `ActiveProjectOwnsTheEvent`, `CompletedWithItsResults`, `RecordsStand`; `ListedProjectsHaveTheirFiles`; `DownloadIsOfTheRoomsTrack`; `SwitchImplemented`, `ReceiptMeansSaved`, `PendingProjectIsThere`, `CompletedWithStages` |
| `v_resume`, `v_refuse`, `v_frozen`, `v_prepare`, `v_upload`, `v_lights`, `v_receipt` | small | the seven findings below |

**Bounds.** Laps of different drivers do not interact, so one driver suffices for the lap counts;
its reports include each way a report can be wrong (number reused after an invalid lap, number
already valid, number behind, other stage, no stage). Two drivers are needed where one waits for
the other or leaves while the other stays; the conditions are of the form "nobody is awaited",
which a third driver does not refine. Two stages and two events are needed to see a stage
archived after the next began; the scenario racing needs one stage, since it is about one race. Retirements by
control, and red flags in a timed session, are left out of `sessions` (see *Open ends*). `records` uses the symmetry of the
drivers, which is sound for its safety properties; the runs with liveness use none.

`room`: the two sockets of one driver are what a replaced socket and its late close need; sockets of
different drivers meet only in the login budget, whose bucket they share here too. One fault, of
any kind and at any await, is enough for each property to need its guard; a second only repeats
the first on a state that is reachable without it. The lap report may be sent any number of times.
`stewarding`: five ticks are more than the longest deadline (the replay window); two contacts fill the
capacity of two, and a third investigation is asked for when the detector has lost its memory and hears of one of
them again. The flags are unbounded. Two penalties give every pair that can be pending together, and two time
penalties of a second a stop that is half served; two laps with one line allowed put the deadline of a drive-through
before, at and after the finish. `preparing`: two projects are needed for one to replace the other,
one race and one penalty after it for a record to be outdated, a second race for a result that is
not the only one; tracks and files play no part in
those properties and have scenarios of their own. A request about files is told from others by its own two or
three writes, and of the phase of the room it asks only whether settings may be edited, so files needs no
race. In hosting, a file of the wrong track needs two tracks, brought by uploads and by a project that was
captured earlier, and one race takes the settings through all phases; it has no fault, the theorem
`DownloadsAreOfTheTrack` does. On the native server two faults are a
failed write and a stop, or two stops; a third identifier is for an event without a project. The
file that never fails there is the list of projects: what happens when it does is `v_receipt`.

**Fairness.** `WindowLapses`, `TickRecovery`, `TickStart` and `TickExpiry` are weakly fair: time
passes, and `scheduleAlarm` (index.ts) keeps the alarm at the earliest deadline of
`nextAlarmMilliseconds`, which contains recovery windows, session ends and the start. No driver and
no race control is fair, so `DesertedRaceEnds` and `DesertedSessionCloses` speak of rooms that
everybody left. The other modules state safety only.

**Findings.** Seven disagreements of code and documents, each shown by a run:

* `v_resume`: a reconnect gives a driver that was retired, disqualified or finished a new status.
  The native server changes only the status "disconnected", and the two servers are documented as
  equal.
* `v_refuse`: the refused command `finished` has already archived the stage as incomplete and
  dropped its id; the race then ends without a complete result.
* `v_frozen`: a closed last practice session still takes a recovered lap.
* `v_prepare`: preparing the next event completes the project with results that lack the penalties
  given after the race, because they are read before the finished stage is archived again.
* `v_upload`: an upload admitted in the lobby and finished during the race is answered with an error, and
  has replaced the package of the race's track; drivers who lack the track get a 404.
* `v_lights`: the detection of false starts is armed again at every light, so a car that creeps on is
  penalised under each; the native server arms it once, and a test is titled "penalizes a false start once".
* `v_receipt` (native): the list of projects in memory is changed before it is written. When that
  write fails, the retry finds the project active in memory, skips the write, deletes the intent and
  answers; the list on disk is the old one.

**Open ends** that no document decides: green after a red flag does not restore a chequered flag
(`applyFlag`); control retiring the last driver a chequered race or a timed session waits for
(`applyParticipant`, `applyPenalty`) does not end it; a red flag does not stop a practice or
qualifying clock, and a session whose last awaited driver left during it is not closed by the green flag but
by the next handler that checks; a red flag after practice closed makes the next command mark its result
incomplete; a new driver may join a running race here, and not on the native server. Those of the other modules are under *Observed* in section 2.

## 4. Proofs

**RaceCore.** For every set of drivers and lap reports and all bounds, from the two assumptions of `RaceCore`
(a finite set of well-formed reports, bounds in range):

* `TypeCorrect` (`RaceCoreProofs`): `Spec => []TypeOK`. The invariant is inductive; there is a
  lemma for the type of each operator and one per group of actions.
* `LapsAreDistinct` and `LapsAreCredited` (`RaceCoreLapProofs`): `Spec => []EachLapOnce` and
  `Spec => []LapsCredited`, from the inductive invariant `LapInv` (`LapInvariant`).
* `ArchiveInvariant` (`RaceCoreStageProofs`): the history of results stays in order, and from it
  `RacesAreSingle` (`[]OneRacePerEvent`), `RaceResultsStay` and `DepartedAreKept` (`DepartedKeepResult`).
* `FinishedIsArchived`: `[]FinishedRaceIsArchived`, if the command `finished` is never sent
  (`"finished" \notin SessionInput`, as in the scenario racing). `v_refuse` shows that the hypothesis is needed.
* `OpenRaceAwaitsSomebody` and `PendingLapsCanCome`: `[]RaceOpenForSomebody` and `[]PendingLapCanCome`, if
  race control classifies nobody (`NobodyClassified`, as in the run `sessions`). Without it they are
  false, since `applyParticipant` and `applyPenalty` do not check whether the stage is complete (*Open
  ends* in section 3).

Neither lap property is inductive. `EachLapOnce` needs that the numbers credited in the stage being
validated are bounded by the last one, which itself was valid if its number was taken by a valid
lap (`Bounded`), and that a driver who has not yet been validated in the running stage has no
receipt of it (`Dated`): `prepareLapValidation` starts from 0. `LapsCredited` needs that no receipt
is of a stage to come, so that a stage opens with nothing credited (`Dated`), and that nothing is
counted between the grid and the start (`OnGrid` in `Counted`), because a race that
follows a countdown resets nobody. The proof sorts steps by what they do to a participant who crosses
no line: the stage goes on (`CountedKept`), closes (`CountedClosed`) or a new one opens
(`CountedOpened`); accepting a lap is `CreditedNumbered`. The completion checks keep the invariant
(`SettleCounted`), whoever qualifying eliminates.

The archive properties are not inductive either. `Filed` is: no id that is still to be handed out is in
the history (`Numbering`); the stage that runs has a phase with a result, and its entry, if there is one, is
of the running event (`Running`); a stage that is over has everybody who drove a lap (`Present`); outside
the lobby and before the end the event has no complete race yet (`Unraced`), so archiving one keeps it
unique (`Unique`). The last is what a second archiving in the wrong state would break. That the end
of a race finds a stage to archive is `Staged`. `WaitInv` says of the
sessions whom they are open for: a chequered race for a driver who is awaited or whose window has lapsed
without a tick (`Open`), a timed session for drivers who are not classified and either
connected or within their window (`Owed`). The invariant has to hold through red flags, so it speaks of the phase
below the suspension.

**Penalties.** For every length of the race, minimum of stops, set of visits and number of penalties
and services, from `PenaltyAssumption` (`PenaltiesProofs`): `PenaltiesInductive` proves `PenaltiesInv`
inductive. It consists of the types, the two state properties, and `Well`: the elapsed part
of a stop is no longer than what is required, and a drive-through that is still due has not used up its lines;
without the latter `Deadline` could take the lines crossed out of their range. From it follow `PenaltiesTyped`,
`VisitsCountOnce` and `DisqualifiedOnlyForMissingStops`, and, as consequences for one step, `FlagLeavesNothingDue`
(`FlagSettlesEverything`) and `NoSanctionIsLost` (`SanctionsAreNotLost`). The handlers hand a pair of car
and penalties from one function to the next, so there is one lemma per function, in
the order of the module, that says what it keeps and what it may make undue; `UpdatePenaltyServiceWell` composes
the five parts of `updatePenaltyServiceState`. What needs an argument is there: a time penalty
that `TimeService` exchanges for a drive-through may be served by `Leaving` in the same message, and then it was
driven, because `through` is what it was when the car was still in the lane.

**RaceRoom.** For every set of drivers and reports, every finite set of sockets and all bounds, from
`RoomAssumption` (the two names that stand for nobody and the server are no driver and no socket)
(`RaceRoomProofs`): `RoomImplementsLedger` proves `Spec => LedgerImplemented`, the refinement of
`LapLedger`; `OneSocket` and `BudgetStaysBalanced` prove `Spec => []OneSocketEach` and
`Spec => []BudgetBalanced`. The refinement does not need to know how a session
runs, so it rests on a relation on seats (`Later`): a seat that is gone stays gone, a held one
keeps its receipts or is given up. Every handler of the race core respects it (`SeatSteps`, `LapSteps`,
`SessionSteps`, `TickSteps`). The invariant `LedgerInv` says that memory is `Later` than the disk, and that
a report whose acknowledgement waits for the write is on record in memory. So a write takes the ledger
a step further (`WriteCommits`, `FlushStep`), a crash or an eviction goes back to the
disk and no further (`ReloadStep`), and a handler that has not written is invisible (`MemoryStep`). A
repeat is acknowledged as the report that holds its id, which `Sound` says is unique.
`RoomInductive` adds what holds of the sockets: a login under way says for whom it is, and no two
live sockets are of one driver. The budget needs more (`BudgetInv`): a socket that answers a message has
no login under way, and one that is logged in and still holds a ticket is the one whose login is
being written. Otherwise a rejected write could drop a ticket without giving it back. `RoomTypeCorrect` proves `[]RoomTypeOK`, with
the types of the race core instantiated for memory (`RaceCoreProofs`). `SeatsFollowSockets` proves
`[]SocketsMatchSeats`: `SeatInv` adds that memory and disk have the same seats between handlers unless a write
was rejected, since an eviction reloads them, and that a login's socket may be ahead of the disk only while
the login is being written. `AlarmIsSet` proves `[]AlarmCoversDeadlines` from `AlarmInv`: between handlers, without
an alarm there is nothing to close.

**YellowFlags.** For every set of cars, finite or not, from no assumption (`StewardingProofs`):
`FlagsInvariant` proves `FlagsInv` inductive, and `FlagsTypes`, `FlagsShowTheTrack` and
`NoYellowLeftBehind` are its consequences: `FlagsSpec => []FlagsTypeOK`, `[]FlagShowsTheTrack` and
`[]AutomaticYellowHasACar`. The three parts of `FlagsInv` are in fact each inductive with the types; what
needs an argument is that a handler that ends a session and looks at the zones afterwards (`Gone`)
does so in an order that leaves them in agreement. Steps are sorted by what they leave: refreshed
(`RefreshedKeepsFlags`), nothing the zones can see (`UnseenKeepsFlags`), or not looked at
(`UncheckedKeepsFlags`).

**TrackRules.** For any number of lights and of free warnings and any bound (`RulesAssumption`: they are
naturals) (`StewardingProofs`): `RulesInvariant` proves `RulesInv` inductive, with
`OneSpeedingPerVisit` and `SettledExcursionsAreFree` as consequences. Its heart is `Covers`: what the car
remembers (speeding, handled) covers what it was given. A message goes through six functions in
the order of `updateTelemetry`, each of which hands on a covered car (`Ruled`), one lemma each. That a
lap, a red flag or a pause between two messages does not uncover it is the content of the properties.

**Collisions.** For any drivers, capacity and windows with `CollisionAssumption`: a report is no evidence any
more (1 s) before its pair may be detected again (1.5 s), and a replay (3 s) is longer than both together, as the
constants of the code are. `CollisionsInvariant` proves `CollisionsInv` inductive. As long as the detector remembers an investigation,
its pair is quiet until the contact is out of the window (`Known`); hence a second report of the contact is either
too old or finds the pair quiet, whatever became of the investigation: `ContactsOpenOnce`
(`[]OneInvestigationPerContact`). `OldNewsOpenNothing` proves `[]ToldImpactsOpenNothing`, and `ReplaysStand` the action property
`FinalReplaysStand`: a report that is recent enough to be evidence and close enough to be merged finds no
final replay. The newest mergeable investigation exists (`MaxIsThere`) by well-founded induction.
`StewardingTyped` is about the run: `MCStewarding!Spec` implies the specification of each part, so all
four keep their types together.

**EventProjects.** For every number of projects, tracks, races, penalties and faults
(`EventProjectsProofs`), `ProjectsInvariant` proves `ProjectsInv` inductive; from it follow
`ProjectsTypeCorrect`, `OneActiveProject` (`ActiveProjectOwnsTheEvent`), `StoredProjectsHaveFiles`
(`ListedProjectsHaveTheirFiles`) and, as properties of one step, `CompletedHaveResults` (`CompletedWithItsResults`),
`StoredRecordsStand` (`RecordsStand`). Memory and storage differ after
a write that was refused or cut short, and `ProjectsInv` says by how much: they agree on the event
and on the active project (`Agree`); what storage lists, memory has or
a request for it was cut (`Listed`); a stored record that is over stands in memory too (`Recorded`), so writing the
whole list later cannot overwrite it; identifiers and stages are given once (`Given`). A handler's writes are
a sequence, of which any prefix may reach the disk; the lemmas say what holds after each prefix.
`DownloadsAreOfTheTrack` (`DownloadIsOfTheRoomsTrack`) needs that whatever is hosted is hosted under the track it is
of (`Hosts`), and for that, since a project brings its file back later, that a project, stored, listed or
exported, names no file but that of its track (`Project`).

**NativeEvents.** For every number of projects, failed writes and restarts (`NativeEventsProofs`):
`NativeTypeCorrect` needs no hypothesis besides the constants' ranges (`NativeConstants`). The rest
supposes that the list of projects can be written (`"index" \notin FaultyFile`; every other file may fail);
`v_receipt` shows that it is needed. `NativeInvariant` proves `NativeInv`
inductive: while an intent is on disk it is the one that is carried out, and nothing but the switch touches what it
names (`Carried`); each step of the switch finds what the steps before it wrote (`Progress`); between switches
the files agree with each other (`Settled`); the project that will be completed has the results of
memory and of the file (`Taken`), since a restart may go back to the latter. `SwitchIsOneStep` is the refinement of
`EventSwitch`: every step of the server either leaves what files and intent show together or
is the one step of the switch, whichever process carries it out. `PendingProjectStays`, `ReceiptsAreSaved` and
`CompletedHaveStages` are the three properties. The theorems are carried over to the run, where the server is an instance
of `NativeEvents`, by `PreparingTypeCorrect`, `NativeReceiptsAreSaved`, `NativePendingProjectStays`,
`NativeCompletedHaveStages` and `NativeSwitchIsOneStep` (`EventProjectsProofs`).

**Only model-checked:** the liveness properties `DesertedRaceEnds` and `DesertedSessionCloses`, which are out of the
prover's reach, and what the findings `v_resume`, `v_frozen`, `v_prepare`, `v_upload` and `v_lights` refute; `v_refuse` and `v_receipt`
refute theorems without their hypotheses. Every other property of the runs is stated by a theorem.
Not proved is what holds only by induction over data. The model has little of it: histories and lists are related
by quantifiers, not folds.

## 5. Not modelled, and the plan

Left, in this order:

1. `NativeRecovery`: how a running race is frozen, restored as suspended and confirmed, its clocks,
   and deduplication after a restart (the observations at the end of *NativeEvents*); capture and the
   files of projects on the native server.
2. The evidence part of `validateLap`; the default elimination counts.

Not planned: the geometry of contacts, track limits and live gaps (floating-point arithmetic, whose
outcome the modules leave open); passwords and role checks (stateless); rule templates, packages and
logos (documents); public timing and the browser interface (no protocol state); the generated
message types; the native coordinator as a whole (a second translation of the same handlers, worth
modelling where it differs).
