---------------------------- MODULE NativeEvents ----------------------------
(***************************************************************************)
(* Preparing an event on the native server: RaceEventLifecycle.cs, with    *)
(* what it uses of RaceEventProjectStore.cs, of the coordinator and of the *)
(* start of the process in Program.cs.                                     *)
(*                                                                         *)
(* The state is spread over files: the coordinator's, the list of          *)
(* projects, the hosted track and logo, the settings.  A switch writes its *)
(* intent first and deletes it last; whoever finds an intent, a request or *)
(* the next start of the process, carries it out again.  The process may   *)
(* stop between any two steps, and the write of a file may fail: memory    *)
(* then stays ahead of the file.  The requests that change something wait  *)
(* for each other; the sync service and the drivers do not.                *)
(*                                                                         *)
(* As in EventProjects a stage is a race and its result is whether it is   *)
(* complete.  A configuration is the identifier of the project it came     *)
(* from: settings are not edited here, and the files of projects are       *)
(* there.  Track and logo are one file, room and schedule another.         *)
(***************************************************************************)
EXTENDS Naturals, Sequences, SequencesExt

CONSTANTS
  MaximumProjects,  \* 64
  Package,          \* bound: identifiers of the projects control may export
  FaultyFile,       \* files whose write may fail
  MaxId,            \* bound: identifiers of projects and events
  MaxStage,         \* bound: races started
  MaxFault          \* bound: failed writes, and restarts

\* The bounds are numbers.
NativeConstants == MaximumProjects \in Nat /\ MaxId \in Nat /\ MaxStage \in Nat

VARIABLES
  core,      \* the coordinator, as far as events depend on it
  projects,  \* the projects in memory
  disk,      \* the files
  job,       \* the request, or the start of the process, being worked on
  fresh,     \* identifiers and stages not yet given, and packages exported
  faults     \* failed writes, and restarts

vars == <<core, projects, disk, job, fresh, faults>>

File == {"core", "index", "pending", "hosted", "settings"}

Nobody == 0
Id == 1..MaxId
NoResults == << >>

\* PendingEvent
Intent == [event : Id, project : Id \cup {Nobody}]
NoIntent == [event |-> Nobody, project |-> Nobody]

Idle == [step |-> "idle", by |-> "request", target |-> Nobody, intent |-> NoIntent]

Init ==
  /\ core = [event |-> Nobody, phase |-> "lobby", stage |-> 0, config |-> Nobody,
             history |-> NoResults]
  /\ projects = << >>
  /\ disk = [core |-> core, index |-> projects, pending |-> NoIntent,
             hosted |-> Nobody, settings |-> Nobody]
  /\ job = Idle
  /\ fresh = [id |-> 1, stage |-> 1, packages |-> {}]
  /\ faults = 0

Serving == job.by = "request"
Free == job = Idle

\* The middleware of Program.cs: one request at a time, and while a switch is
\* pending only another switch.
Admitted == Free /\ disk.pending = NoIntent

-----------------------------------------------------------------------------
(* Memory, files and faults *)

\* The process starts: RestorePersistedState, RecoverAsync, before any request.
Start(d) ==
  /\ core' = d.core /\ projects' = d.index
  /\ job' = IF d.pending = NoIntent THEN Idle
            ELSE [Idle EXCEPT !.step = "event", !.by = "start", !.intent = d.pending]

\* An exception ends the request, or the process while it starts.
Abort(c, ps) ==
  IF Serving THEN core' = c /\ projects' = ps /\ job' = Idle
  ELSE Start(disk)

\* Memory becomes c and ps, and the file is written; then the job goes on.
Write(file, value, c, ps, next) ==
  \/ /\ core' = c /\ projects' = ps
     /\ disk' = [disk EXCEPT ![file] = value]
     /\ job' = next
     /\ UNCHANGED faults
  \/ /\ file \in FaultyFile /\ faults < MaxFault
     /\ faults' = faults + 1
     /\ Abort(c, ps)
     /\ UNCHANGED disk

\* A handler outside of the job writes the coordinator's file.
Commit(c) == Write("core", c, c, projects, job)

\* Save of the project store
SaveList(ps, next) == Write("index", ps, core, ps, next)

Refuse == Abort(core, projects) /\ UNCHANGED <<disk, faults>>

At(step) == [job EXCEPT !.step = step]

Merge(old, new) ==
  [s \in DOMAIN old \cup DOMAIN new |-> IF s \in DOMAIN new THEN new[s] ELSE old[s]]

ResultsOf(c, event) ==
  [s \in {t \in DOMAIN c.history : c.history[t].event = event} |-> c.history[s]]

\* SyncActive: the list is saved only if memory has changed.
Synced(ps) ==
  [i \in DOMAIN ps |-> IF ps[i].status # "active" THEN ps[i]
                       ELSE [ps[i] EXCEPT !.results = Merge(@, ResultsOf(core, ps[i].event))]]

SyncActive(next) ==
  IF Synced(projects) = projects
  THEN job' = next /\ UNCHANGED <<core, projects, disk, faults>>
  ELSE SaveList(Synced(projects), next)

\* RaceEventProjectSyncService; a request that exports a project does the same.
Sync ==
  /\ Serving
  /\ Synced(projects) # projects
  /\ \/ /\ disk' = [disk EXCEPT !.index = Synced(projects)]
        /\ UNCHANGED faults
     \/ /\ "index" \in FaultyFile /\ faults < MaxFault
        /\ faults' = faults + 1
        /\ UNCHANGED disk
  /\ projects' = Synced(projects)
  /\ UNCHANGED <<core, job, fresh>>

\* Checkpoint, every two seconds
Checkpoint ==
  /\ Serving
  /\ disk.core # core
  /\ disk' = [disk EXCEPT !.core = core]
  /\ UNCHANGED <<core, projects, job, fresh, faults>>

\* The process stops and is started again.
Restart ==
  /\ faults < MaxFault
  /\ faults' = faults + 1
  /\ Start(disk)
  /\ UNCHANGED <<disk, fresh>>

-----------------------------------------------------------------------------
(* The race *)

\* ArchiveActiveResult
Archived(c, complete) ==
  IF c.stage = 0 THEN c
  ELSE [c EXCEPT !.history = Merge(@, [s \in {c.stage} |-> [event |-> c.event,
                                                            complete |-> complete]])]

\* This event has its race result.
RaceOver(c) ==
  \E s \in DOMAIN c.history : c.history[s].event = c.event /\ c.history[s].complete

CanPrepare(c) == c.phase \in {"lobby", "finished"}

\* ApplySessionCommand: from the lobby to the race
StartRace ==
  /\ Admitted
  /\ core.phase = "lobby" /\ ~RaceOver(core)
  /\ fresh.stage <= MaxStage
  /\ Commit([core EXCEPT !.phase = "race", !.stage = fresh.stage])
  /\ fresh' = [fresh EXCEPT !.stage = @ + 1]

\* ApplySessionCommand: to the lobby
ToLobby ==
  /\ Admitted
  /\ core.phase # "lobby"
  /\ Commit([Archived(core, core.phase = "finished") EXCEPT !.phase = "lobby", !.stage = 0])
  /\ UNCHANGED fresh

\* TryCompleteRaceIfReady, in whatever message ends the race; its connection is
\* lost when the state cannot be saved.
FinishRace ==
  /\ Serving
  /\ core.phase = "race"
  /\ LET c == [Archived(core, TRUE) EXCEPT !.phase = "finished"]
     IN  /\ core' = c
         /\ \/ disk' = [disk EXCEPT !.core = c] /\ UNCHANGED faults
            \/ /\ "core" \in FaultyFile /\ faults < MaxFault
               /\ faults' = faults + 1
               /\ UNCHANGED disk
  /\ UNCHANGED <<projects, job, fresh>>

-----------------------------------------------------------------------------
(* Projects *)

Draft(id) == [id |-> id, status |-> "draft", event |-> Nobody, results |-> NoResults]

Ids(ps) == {ps[i].id : i \in DOMAIN ps}
Find(id) == {i \in DOMAIN projects : projects[i].id = id}

HasRoom == Len(projects) < MaximumProjects
TakeId == fresh.id \in Id /\ fresh' = [fresh EXCEPT !.id = @ + 1]

\* Create, which brings the active project up to date, and Copy
NewDraft ==
  /\ Admitted /\ HasRoom /\ TakeId
  /\ \E ps \in {Synced(projects), projects} : SaveList(Append(ps, Draft(fresh.id)), job)

\* Export of a project without results (others cannot be run again)
Export(i) ==
  /\ Serving
  /\ Synced(projects)[i].results = NoResults
  /\ projects[i].id \in Package \ fresh.packages
  /\ fresh' = [fresh EXCEPT !.packages = @ \cup {projects[i].id}]
  /\ UNCHANGED <<core, projects, disk, job, faults>>

\* Mutant: an identifier that is listed is kept as well.
ImportAsIs(id) ==
  /\ Admitted /\ HasRoom
  /\ id \in fresh.packages
  /\ SaveList(Append(projects, Draft(id)), job)
  /\ UNCHANGED fresh

\* Import of such a package: it keeps its identifier unless that is listed.
Import(id) ==
  /\ Admitted /\ HasRoom
  /\ id \in fresh.packages
  /\ IF id \in Ids(projects)
     THEN TakeId /\ SaveList(Append(projects, Draft(fresh.id)), job)
     ELSE UNCHANGED fresh /\ SaveList(Append(projects, Draft(id)), job)

\* ChangeProjectStatus, for a project that is not active
Close(i, status) ==
  /\ Admitted
  /\ projects[i].status # "active"
  /\ SaveList(Synced([projects EXCEPT ![i].status = status]), job)
  /\ UNCHANGED fresh

\* Mutant: a switch under way does not keep control from deleting its project.
DeleteAnyTime(i) ==
  /\ Free
  /\ projects[i].status # "active"
  /\ SaveList(RemoveAt(projects, i), job)
  /\ UNCHANGED fresh

Delete(i) ==
  /\ Admitted
  /\ projects[i].status # "active"
  /\ SaveList(RemoveAt(projects, i), job)
  /\ UNCHANGED fresh

-----------------------------------------------------------------------------
(* PrepareAsync and ApplyAsync *)

\* A request to go to a project, which may not be there, or to an event without
\* one; the intent of an earlier request comes first.
Request(target) ==
  /\ Free
  /\ target = Nobody => fresh.id \in Id  \* bound: an identifier for the event
  /\ job' = [Idle EXCEPT !.step = IF disk.pending = NoIntent THEN "check" ELSE "event",
                         !.target = target, !.intent = disk.pending]
  /\ UNCHANGED <<core, projects, disk, fresh, faults>>

Allowed(target) ==
  target # Nobody => \E i \in DOMAIN projects :
                       /\ projects[i].id = target
                       /\ projects[i].status = "draft" /\ projects[i].results = NoResults

AlreadyThere(target) ==
  \E i \in DOMAIN projects : /\ projects[i].id = target /\ projects[i].status = "active"
                             /\ projects[i].event = core.event

\* Mutant: the results of the active project are left to the sync service.
LeaveResults == job' = At("intent") /\ UNCHANGED <<core, projects, disk, faults>>

\* The active project has its results before it is completed.
TakeResults == SyncActive(At("intent"))

\* PrepareAsync after the pending intent
Check ==
  /\ job.step = "check"
  /\ IF ~CanPrepare(core) THEN Refuse
     ELSE IF AlreadyThere(job.target)
     THEN /\ job' = [job EXCEPT !.step = "receipt",
                                !.intent = [event |-> core.event, project |-> job.target]]
          /\ UNCHANGED <<core, projects, disk, faults>>
     ELSE IF ~Allowed(job.target) THEN Refuse
     ELSE TakeResults
  /\ UNCHANGED fresh

\* Mutant: the intent is kept in memory only.
IntentInMemory ==
  /\ job.step = "intent"
  /\ IF job.target # Nobody THEN UNCHANGED fresh ELSE TakeId
  /\ job' = [job EXCEPT !.step = "event",
                        !.intent = [event |-> IF job.target # Nobody THEN job.target
                                              ELSE fresh.id, project |-> job.target]]
  /\ UNCHANGED <<core, projects, disk, faults>>

\* The intent is on disk before anything is changed.
WriteIntent ==
  /\ job.step = "intent"
  /\ IF job.target # Nobody THEN UNCHANGED fresh ELSE TakeId
  /\ LET intent == [event |-> IF job.target # Nobody THEN job.target ELSE fresh.id,
                    project |-> job.target]
     IN  Write("pending", intent, core, projects,
               [job EXCEPT !.step = "event", !.intent = intent])

\* Mutant: an event that is already there is not saved again.
BegunNotSaved ==
  /\ job.step = "event"
  /\ IF \/ ~CanPrepare(core)
        \/ job.intent.project # Nobody /\ Find(job.intent.project) = {}
     THEN Refuse
     ELSE IF core.event = job.intent.event
     THEN /\ job' = At(IF job.intent.project = Nobody THEN "close" ELSE "room")
          /\ UNCHANGED <<core, projects, disk, faults>>
     ELSE LET c == [Archived(core, core.phase = "finished") EXCEPT
                      !.event = job.intent.event, !.phase = "lobby", !.stage = 0]
          IN  Write("core", c, c, projects,
                    At(IF job.intent.project = Nobody THEN "close" ELSE "room"))
  /\ UNCHANGED fresh

\* BeginEvent: an event that is already there is saved again.
BeginEvent ==
  /\ job.step = "event"
  /\ IF \/ ~CanPrepare(core)
        \/ job.intent.project # Nobody /\ Find(job.intent.project) = {}
     THEN Refuse
     ELSE LET c == IF core.event = job.intent.event THEN core
                   ELSE [Archived(core, core.phase = "finished") EXCEPT
                           !.event = job.intent.event, !.phase = "lobby", !.stage = 0]
          IN  Write("core", c, c, projects,
                    At(IF job.intent.project = Nobody THEN "close" ELSE "room"))
  /\ UNCHANGED fresh

\* ApplyRoomSettings: not after the race of this event
ApplyRoom ==
  /\ job.step = "room"
  /\ IF RaceOver(core) \/ core.phase # "lobby" THEN Refuse
     ELSE LET c == [core EXCEPT !.config = job.intent.project]
          IN  Write("core", c, c, projects, At("hosted"))
  /\ UNCHANGED fresh

\* The stores of the track and the logo
HostFiles ==
  /\ job.step = "hosted"
  /\ Write("hosted", job.intent.project, core, projects, At("settings"))
  /\ UNCHANGED fresh

\* SaveRoomSettings, SaveSchedule
SaveSettings ==
  /\ job.step = "settings"
  /\ Write("settings", job.intent.project, core, projects, At("activate"))
  /\ UNCHANGED fresh

Completed(ps) ==
  [i \in DOMAIN ps |-> IF ps[i].status = "active" THEN [ps[i] EXCEPT !.status = "completed"]
                       ELSE ps[i]]

\* Activate, unless memory has it so; a project that is closed is refused.
ActivateProject ==
  LET id == job.intent.project
      p == projects[CHOOSE i \in Find(id) : TRUE]  \* no two have the same
      ps == [i \in DOMAIN projects |->
               IF projects[i].id = id
               THEN [projects[i] EXCEPT !.status = "active", !.event = job.intent.event]
               ELSE Completed(projects)[i]]
  IN  /\ job.step = "activate"
      /\ IF p.status = "active" /\ p.event = job.intent.event
         THEN job' = At("done") /\ UNCHANGED <<core, projects, disk, faults>>
         ELSE IF p.status \in {"completed", "archived"} THEN Refuse
         ELSE SaveList(ps, At("done"))
      /\ UNCHANGED fresh

\* Without a project: whatever memory has active is completed.
CompleteProjects ==
  /\ job.step = "close"
  /\ IF Completed(projects) = projects
     THEN job' = At("done") /\ UNCHANGED <<core, projects, disk, faults>>
     ELSE SaveList(Completed(projects), At("done"))
  /\ UNCHANGED fresh

\* The intent is deleted; a request that was not about it goes on with its own.
DeleteIntent ==
  /\ job.step = "done"
  /\ Write("pending", NoIntent, core, projects,
           IF ~Serving THEN Idle
           ELSE IF job.intent.project = job.target THEN At("receipt") ELSE At("check"))
  /\ UNCHANGED fresh

Answer ==
  /\ job.step = "receipt"
  /\ job' = Idle
  /\ UNCHANGED <<core, projects, disk, fresh, faults>>

Next ==
  \/ StartRace \/ FinishRace \/ ToLobby
  \/ NewDraft
  \/ \E id \in Package : Import(id)
  \/ \E i \in DOMAIN projects :
       Export(i) \/ Delete(i) \/ \E status \in {"completed", "archived"} : Close(i, status)
  \/ Request(Nobody) \/ \E id \in Id : Request(id)
  \/ Check \/ WriteIntent \/ BeginEvent \/ ApplyRoom \/ HostFiles \/ SaveSettings
  \/ ActivateProject \/ CompleteProjects \/ DeleteIntent \/ Answer
  \/ Sync \/ Checkpoint \/ Restart

Spec == Init /\ [][Next]_vars

-----------------------------------------------------------------------------
(* Properties *)

Result == [event : 0..MaxId, complete : BOOLEAN]
Results == UNION {[stages -> Result] : stages \in SUBSET (1..MaxStage)}

Core == [event : 0..MaxId, phase : {"lobby", "race", "finished"}, stage : 0..MaxStage,
         config : 0..MaxId, history : Results]

Project == [id : Id, status : {"draft", "active", "completed", "archived"}, event : 0..MaxId,
            results : Results]

IsList(ps) ==
  /\ ps \in Seq(Project)
  /\ Len(ps) <= MaximumProjects
  /\ \A i, j \in DOMAIN ps :
       /\ ps[i].id = ps[j].id => i = j
       /\ ps[i].status = "active" /\ ps[j].status = "active" => i = j

Step == {"idle", "check", "intent", "event", "room", "hosted", "settings", "activate", "close",
         "done", "receipt"}

Files == [core : Core, index : Seq(Project), pending : Intent \cup {NoIntent},
          hosted : 0..MaxId, settings : 0..MaxId]

Job == [step : Step, by : {"request", "start"}, target : 0..MaxId,
        intent : [event : 0..MaxId, project : 0..MaxId]]

Fresh == [id : 1..MaxId + 1, stage : 1..MaxStage + 1, packages : SUBSET (Package \cap Id)]

\* The type invariant of the files and the memory of the native server: no
\* identifier is listed twice and at most one project is active, in both.
NativeTypeOK ==
  /\ core \in Core /\ IsList(projects)
  /\ disk \in Files /\ IsList(disk.index)
  /\ job \in Job /\ fresh \in Fresh

\* What the files say, the intent included.
Switching == disk.pending # NoIntent
EventNow == IF Switching THEN disk.pending.event ELSE disk.core.event

Active(ps) ==
  IF \E i \in DOMAIN ps : ps[i].status = "active"
  THEN (CHOOSE p \in ToSet(ps) : p.status = "active").id ELSE Nobody
ActiveNow == IF Switching THEN disk.pending.project ELSE Active(disk.index)

Mixed == MaxId + 1
ConfigNow ==
  IF Switching /\ disk.pending.project # Nobody THEN disk.pending.project
  ELSE IF {disk.core.config, disk.hosted, disk.settings} = {disk.core.config}
  THEN disk.core.config ELSE Mixed

Abstract == INSTANCE EventSwitch WITH event <- EventNow, active <- ActiveNow, config <- ConfigNow

\* The intent makes the switch one step: wherever the process stops, the files
\* and the intent together show the event, its project and its configuration
\* either all before or all after it.  (PrepareAsync, RecoverAsync)
SwitchImplemented == Abstract!Spec

\* RaceEventLifecycle.cs: a receipt is returned only once the event, assets,
\* settings and project are saved.
ReceiptMeansSaved ==
  job.step = "receipt" =>
    /\ ~Switching
    /\ disk.core.event = job.intent.event
    /\ Active(disk.index) = job.intent.project
    /\ job.intent.project # Nobody =>
         {disk.core.config, disk.hosted, disk.settings} = {job.intent.project}

\* The project of a pending switch is still there to be activated, however often
\* the switch failed and whatever control tried in between.  (the middleware of
\* Program.cs)
PendingProjectIsThere ==
  Switching /\ disk.pending.project # Nobody =>
    \E i \in DOMAIN disk.index : /\ disk.index[i].id = disk.pending.project
                                 /\ disk.index[i].status \in {"draft", "active"}

StagesOf(event) == {s \in DOMAIN core'.history : core'.history[s].event = event}

\* A project is completed on disk only with a result of every stage of its
\* event, though the switch may be carried out by a later process that asks for
\* no results.  (PrepareAsync reads them before it writes the intent.)
CompletedWithStages ==
  [][\A p \in ToSet(disk.index), q \in ToSet(disk'.index) :
       p.id = q.id /\ p.status = "active" /\ q.status = "completed"
         => StagesOf(p.event) \subseteq DOMAIN q.results]_vars
=============================================================================
