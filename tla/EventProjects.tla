--------------------------- MODULE EventProjects ---------------------------
(***************************************************************************)
(* The event projects of a race room: cloudflare/src/event-projects.ts and *)
(* the routes of cloudflare/src/index.ts that change them.  A project is   *)
(* the record of one event; at most one is active, and it collects the     *)
(* results of the event the room is running.                               *)
(*                                                                         *)
(* The room lives in memory and in storage.  Every handler changes memory  *)
(* and makes one or more writes; it may be cut short after any of them, by *)
(* a crash (memory is loaded from storage again) or by a write that is     *)
(* rejected (memory stays as the handler left it).  While a handler waits  *)
(* for storage no other event is delivered to the room, so a handler is    *)
(* one step, except where it waits for the body of its request.            *)
(*                                                                         *)
(* RaceCore models what happens inside a stage.  Here a stage is a race,   *)
(* and all that is kept of its result is whether it is complete and how    *)
(* many penalties it shows.  Of a project's configuration and assets only  *)
(* the track and its file are kept.  The room hosts one track package for  *)
(* its drivers to download; it is stored apart from the room's settings,   *)
(* and counts only while it is of the room's track.                        *)
(***************************************************************************)
EXTENDS Naturals, Sequences, SequencesExt

CONSTANTS
  Track, None,
  MaximumProjects,  \* 64
  MaxId,            \* bound: identifiers of projects and events
  MaxStage,         \* bound: races started
  MaxPenalty,       \* bound: penalties of a race
  MaxFault          \* bound: handlers cut short, and restarts

VARIABLES
  room,      \* the RaceCore, as far as projects depend on it
  projects,  \* RaceRoom.eventProjects
  disk,      \* storage
  hosted,    \* RaceRoom.hostedTrackPackage: the track it names, and the stored file
  package,   \* a .lfzevent file somebody has exported, or None
  upload,    \* the track of an upload whose body is awaited, or None
  fresh,     \* identifiers and stages not yet given
  cut,       \* projects a request about their files failed halfway
  faults     \* handlers cut short, and restarts

vars == <<room, projects, disk, hosted, package, upload, fresh, cut, faults>>

ASSUME ProjectsAssumption ==
  /\ None \notin Track
  /\ MaximumProjects \in Nat \ {0}
  /\ {MaxId, MaxStage, MaxPenalty, MaxFault} \subseteq Nat

NoEvent == 0
Id == 1..MaxId
File == Track \cup {None}
Status == {"draft", "active", "completed", "archived"}
NoResults == << >>
NotHosted == [name |-> None, file |-> None]

Init ==
  /\ room = [event |-> NoEvent, phase |-> "lobby", stage |-> 0, penalties |-> 0,
             track |-> None, history |-> NoResults]
  /\ projects = << >>
  /\ disk = [room |-> room, projects |-> projects,
             files |-> [i \in Id |-> None]]
  /\ hosted = NotHosted
  /\ package = None
  /\ upload = None
  /\ fresh = [id |-> 1, stage |-> 1]
  /\ cut = {}
  /\ faults = 0

-----------------------------------------------------------------------------
(* Memory and storage *)

\* Storage after the first n of the writes: of every part, what the last of
\* them that stores it has left there.
Written(writes, n) ==
  [part \in DOMAIN disk |->
     LET stores == {m \in 1..n : part \in DOMAIN writes[m]}
     IN  IF stores = {} THEN disk[part] ELSE writes[Max(stores)][part]]

\* A handler that makes these writes and is cut short after n of them, if there
\* are more; memory is what it has left in memory then.  A crash also drops the
\* requests that wait.
Handle(memory, writes, n, alive) ==
  LET now == Written(writes, n)
      kept == IF alive THEN memory ELSE [room |-> now.room, projects |-> now.projects]
      fault == n < Len(writes) \/ ~alive
  IN  /\ fault => faults < MaxFault
      /\ faults' = IF fault THEN faults + 1 ELSE faults
      /\ disk' = now
      /\ room' = kept.room
      /\ projects' = kept.projects

Both(r, ps) == [room |-> r, projects |-> ps]
List(ps) == [projects |-> ps]
FilesWith(id, file) == [files |-> [disk.files EXCEPT ![id] = file]]

\* Results by stage; a newer result of a stage replaces the older one.
Merge(old, new) ==
  [s \in DOMAIN old \cup DOMAIN new |-> IF s \in DOMAIN new THEN new[s] ELSE old[s]]

\* Mutant: a result counts only when it is complete.
CompleteResultsOf(r, event) ==
  [s \in {t \in DOMAIN r.history : r.history[t].event = event /\ r.history[t].complete} |->
     r.history[s]]

ResultsOf(r, event) ==
  [s \in {t \in DOMAIN r.history : r.history[t].event = event} |-> r.history[s]]

\* syncActiveEventProject
Synced(ps, r) ==
  [i \in DOMAIN ps |->
     IF ps[i].status # "active" THEN ps[i]
     ELSE [ps[i] EXCEPT !.results = Merge(@, ResultsOf(r, ps[i].event))]]

\* persist: the active project is brought up to date and stored with the room.
Persist(r) ==
  LET ps == Synced(projects, r)
  IN  \E n \in 0..1, alive \in BOOLEAN :
        Handle(Both(r, ps), <<Both(r, ps)>>, n, alive)

\* What a crash takes from the requests in flight.
Waiting == upload' \in {upload, None}

-----------------------------------------------------------------------------
(* The race in the room *)

\* archiveActiveResult
Archived(r, complete) ==
  IF r.stage = 0 THEN r
  ELSE LET result == [event |-> r.event, complete |-> complete, penalties |-> r.penalties]
       IN  [r EXCEPT !.history = Merge(@, [s \in {r.stage} |-> result])]

\* This event has its race result.
RaceOver(r) ==
  \E s \in DOMAIN r.history : r.history[s].event = r.event /\ r.history[s].complete

CanPrepare(r) == r.phase \in {"lobby", "finished"}

\* canEditEventConfiguration, and the guards of applyRoomSettings
CanEdit(r) == r.phase = "lobby" /\ ~RaceOver(r)

\* applySession: from the lobby to the race
StartRace ==
  /\ room.phase = "lobby" /\ ~RaceOver(room)
  /\ fresh.stage <= MaxStage
  /\ Persist([room EXCEPT !.phase = "race", !.stage = fresh.stage])
  /\ fresh' = [fresh EXCEPT !.stage = @ + 1]
  /\ Waiting
  /\ UNCHANGED <<hosted, package, cut>>

\* tryCompleteRaceIfReady
FinishRace ==
  /\ room.phase = "race"
  /\ Persist([Archived(room, TRUE) EXCEPT !.phase = "finished"])
  /\ Waiting
  /\ UNCHANGED <<hosted, package, fresh, cut>>

\* applyPenalty after the finish; what is given before is in the result anyhow.
GivePenalty ==
  /\ room.phase = "finished"
  /\ room.penalties < MaxPenalty
  /\ Persist([room EXCEPT !.penalties = @ + 1])
  /\ Waiting
  /\ UNCHANGED <<hosted, package, fresh, cut>>

\* applySession: to the lobby, from anywhere
ToLobby ==
  /\ Persist([Archived(room, room.phase = "finished") EXCEPT
                !.phase = "lobby", !.stage = 0, !.penalties = 0])
  /\ Waiting
  /\ UNCHANGED <<hosted, package, fresh, cut>>

\* applySession refuses the phase "finished" after it has closed the stage;
\* what it refused is not persisted.  (Once the race is over it closes nothing:
\* the refused phase is the present one then, and the others are refused before.)
RefuseSession ==
  /\ room.phase = "race" /\ room.stage # 0
  /\ room' = [Archived(room, FALSE) EXCEPT !.stage = 0]
  /\ UNCHANGED <<projects, disk, hosted, package, upload, fresh, cut, faults>>

\* applyRoomSettings, from the settings page or a rule template
ApplySettings(track) ==
  /\ CanEdit(room)
  /\ Persist([room EXCEPT !.track = track])
  /\ Waiting
  /\ UNCHANGED <<hosted, package, fresh, cut>>

-----------------------------------------------------------------------------
(* The upload of a track file *)

\* uploadTrackPackage: the check, then the body is awaited.
BeginUpload(track) ==
  /\ upload = None
  /\ package = None  \* bound: no package is held while a body is awaited
  /\ CanEdit(room)
  /\ upload' = track
  /\ UNCHANGED <<room, projects, disk, hosted, package, fresh, cut, faults>>

\* The rest of it stores the file and names it as hosted, and only then asks
\* for the settings, which are refused when they may not be edited any more.
\* The write of the file may be rejected.  (A crash right after it is that of
\* Persist, or a restart after the refusal.)
EndUpload ==
  /\ upload # None
  /\ upload' = None
  /\ \/ /\ hosted' = [name |-> upload, file |-> upload]
        /\ IF CanEdit(room) THEN Persist([room EXCEPT !.track = upload])
           ELSE UNCHANGED <<room, projects, disk, faults>>
     \/ /\ faults < MaxFault /\ faults' = faults + 1
        /\ UNCHANGED <<hosted, room, projects, disk>>
  /\ UNCHANGED <<package, fresh, cut>>

\* deleteTrackPackage asks for no phase.
DeleteTrackPackage ==
  /\ hosted' = NotHosted
  /\ UNCHANGED <<room, projects, disk, package, upload, fresh, cut, faults>>

-----------------------------------------------------------------------------
(* Projects *)

Draft(id, track, file) ==
  [id |-> id, status |-> "draft", event |-> NoEvent, track |-> track, file |-> file,
   results |-> NoResults]

Ids(ps) == {ps[i].id : i \in DOMAIN ps}

\* readEventProjectAssets accepts the files of p.
Usable(p) == p.file = None \/ disk.files[p.id] = p.file

\* Mutant: what is hosted is taken without a look at the room.
HostedFile == hosted.file

\* matchingHostedTrackPackage: the file of the room's track, if it is hosted.
MatchingFile == IF hosted.name = room.track THEN hosted.file ELSE None

\* Mutant: the list is stored before the files.
NewProjectListFirst(p, file) ==
  LET ps == Append(projects, p)
      writes == <<List(ps), FilesWith(p.id, file)>>
  IN  \E n \in 0..2, alive \in BOOLEAN :
        /\ Handle(Both(room, ps), writes, n, alive)
        /\ cut' = IF alive /\ n = 0 THEN cut \cup {p.id} ELSE cut

\* What creating, copying and importing have in common: memory, files, list.
NewProject(p, file) ==
  LET ps == Append(projects, p)
      writes == <<FilesWith(p.id, file), List(ps)>>
  IN  \E n \in 0..2, alive \in BOOLEAN :
        /\ Handle(Both(room, ps), writes, n, alive)
        /\ cut' = IF alive /\ n = 0 THEN cut \cup {p.id} ELSE cut

HasRoom == Len(projects) < MaximumProjects
TakeId == fresh.id \in Id /\ fresh' = [fresh EXCEPT !.id = @ + 1]

Create ==
  /\ HasRoom /\ TakeId
  /\ NewProject(Draft(fresh.id, room.track, MatchingFile), MatchingFile)
  /\ Waiting
  /\ UNCHANGED <<hosted, package>>

Copy(i) ==
  LET p == projects[i]
  IN  /\ HasRoom /\ TakeId
      /\ Usable(p)
      /\ NewProject(Draft(fresh.id, p.track, p.file), disk.files[p.id])
      /\ Waiting
      /\ UNCHANGED <<hosted, package>>

\* Mutant: the identifier of the package is always kept.
ImportAsIs ==
  LET status == IF package.results # NoResults THEN "completed" ELSE "draft"
  IN  /\ package # None
      /\ HasRoom
      /\ NewProject([package EXCEPT !.status = status], package.file)
      /\ Waiting
      /\ UNCHANGED <<hosted, package, fresh>>

\* importEventProjectPackage: the identifier of the package, unless it is taken.
Import ==
  LET taken == package.id \in Ids(projects)
      id == IF taken THEN fresh.id ELSE package.id
      status == IF package.results # NoResults THEN "completed" ELSE "draft"
  IN  /\ package # None
      /\ HasRoom
      /\ IF taken THEN TakeId ELSE UNCHANGED fresh
      /\ NewProject([package EXCEPT !.id = id, !.status = status], package.file)
      /\ Waiting
      /\ UNCHANGED <<hosted, package>>

\* exportEventProject
Export(i) ==
  LET ps == Synced(projects, room)
      writes == IF ps # projects THEN <<List(ps)>> ELSE << >>
  IN  /\ \E n \in 0..Len(writes), alive \in BOOLEAN :
           /\ Handle(Both(room, ps), writes, n, alive)
           /\ package' = IF /\ package = None /\ upload = None  \* the same bound
                             /\ n = Len(writes) /\ alive /\ Usable(ps[i])
                          THEN ps[i] ELSE package
      /\ Waiting
      /\ UNCHANGED <<hosted, fresh, cut>>

\* captureEventProject
Captured(i, config) ==
  LET p == projects[i]
      q == IF p.status # "active" THEN p
           ELSE [p EXCEPT !.results = Merge(@, ResultsOf(room, p.event))]
  IN  IF config THEN [q EXCEPT !.track = room.track, !.file = MatchingFile] ELSE q

\* Mutant: only what is archived is closed.
MayCaptureUnlessArchived(p) == p.status # "archived"

\* captureEventProject refuses the record of an event that is over.
MayCapture(p) == p.status \notin {"completed", "archived"}

Capture(i, config) ==
  LET p == Captured(i, config)
      ps == [projects EXCEPT ![i] = p]
      writes == IF config THEN <<FilesWith(p.id, p.file), List(ps)>> ELSE <<List(ps)>>
  IN  /\ MayCapture(projects[i])
      /\ config => CanEdit(room)
      /\ \E n \in 0..Len(writes), alive \in BOOLEAN :
           /\ Handle(Both(room, ps), writes, n, alive)
           /\ cut' = IF config /\ (n = 1 \/ (n = 0 /\ alive)) THEN cut \cup {p.id} ELSE cut
      /\ Waiting
      /\ UNCHANGED <<hosted, package, fresh>>

\* deleteEventProject: memory, files, list.
Delete(i) ==
  LET p == projects[i]
      ps == RemoveAt(projects, i)
      writes == <<FilesWith(p.id, None), List(ps)>>
  IN  /\ p.status # "active"
      /\ \E n \in 0..2, alive \in BOOLEAN :
           /\ Handle(Both(room, ps), writes, n, alive)
           /\ cut' = IF n = 1 \/ (n = 0 /\ alive) THEN cut \cup {p.id} ELSE cut
      /\ Waiting
      /\ UNCHANGED <<hosted, package, fresh>>

\* applyEventProjectAction for a project that is not active.
SetStatus(i, status) ==
  LET ps == Synced([projects EXCEPT ![i].status = status], room)
  IN  /\ projects[i].status # "active"
      /\ \E n \in 0..1, alive \in BOOLEAN :
           Handle(Both(room, ps), <<List(ps)>>, n, alive)
      /\ Waiting
      /\ UNCHANGED <<hosted, package, fresh, cut>>

\* Archiving the active project is refused, after it was brought up to date.
RefuseArchive(i) ==
  /\ projects[i].status = "active"
  /\ CanPrepare(room)
  /\ projects' = Synced(projects, room)
  /\ UNCHANGED <<room, disk, hosted, package, upload, fresh, cut, faults>>

-----------------------------------------------------------------------------
(* Preparing the next event *)

\* beginEvent
Begun(r, event) ==
  IF event = r.event THEN r
  ELSE [Archived(r, r.phase = "finished") EXCEPT
          !.event = event, !.phase = "lobby", !.stage = 0, !.penalties = 0]

\* The active project takes its results and is completed.
ClosedProjects(ps, r) ==
  [i \in DOMAIN ps |-> IF ps[i].status = "active"
                       THEN [Synced(ps, r)[i] EXCEPT !.status = "completed"] ELSE ps[i]]

\* Mutant: the room is stored before the projects.
CommitInTwo(r, ps, h) ==
  \E n \in 0..2, alive \in BOOLEAN :
    /\ Handle(IF n = 2 THEN Both(r, ps) ELSE Both(room, projects),
              <<[room |-> r], List(ps)>>, n, alive)
    /\ hosted' = IF n = 0 THEN hosted ELSE h

\* One transaction; memory is replaced once it is committed.
Commit(r, ps, h) ==
  \E n \in 0..1, alive \in BOOLEAN :
    /\ Handle(IF n = 1 THEN Both(r, ps) ELSE Both(room, projects),
              <<Both(r, ps)>>, n, alive)
    /\ hosted' = IF n = 1 THEN h ELSE hosted

\* prepareEvent without a project; completing the active project is this, too.
PrepareEvent ==
  /\ CanPrepare(room)
  /\ TakeId
  /\ Commit(Begun(room, fresh.id), ClosedProjects(projects, room), hosted)
  /\ Waiting
  /\ UNCHANGED <<package, cut>>

\* prepareEvent with a project, activateEventProject.  The file of the project
\* becomes the hosted one, under the name of the project's track.
Activate(i) ==
  LET p == projects[i]
      r == Begun(room, p.id)
      ps == [j \in DOMAIN projects |->
               IF j = i THEN [p EXCEPT !.status = "active", !.event = p.id]
               ELSE ClosedProjects(projects, room)[j]]
      h == IF p.file = None THEN NotHosted
           ELSE [name |-> p.track, file |-> disk.files[p.id]]
  IN  /\ CanPrepare(room)
      /\ p.status = "draft" /\ p.results = NoResults
      /\ Usable(p)
      /\ CanEdit(r)
      /\ p.file # None => p.track # None
      /\ Commit([r EXCEPT !.track = p.track], ps, h)
      /\ Waiting
      /\ UNCHANGED <<package, fresh, cut>>

\* The object is evicted or its machine fails between two events.
Restart ==
  /\ faults < MaxFault
  /\ faults' = faults + 1
  /\ room' = disk.room
  /\ projects' = disk.projects
  /\ upload' = None
  /\ UNCHANGED <<disk, hosted, package, fresh, cut>>

Next ==
  \/ StartRace \/ FinishRace \/ GivePenalty \/ ToLobby \/ RefuseSession
  \/ \E t \in File : ApplySettings(t)
  \/ \E t \in Track : BeginUpload(t)
  \/ EndUpload \/ DeleteTrackPackage
  \/ Create
  \/ Import
  \/ \E i \in DOMAIN projects :
       \/ Copy(i) \/ Export(i) \/ Delete(i) \/ Activate(i) \/ RefuseArchive(i)
       \/ \E config \in BOOLEAN : Capture(i, config)
       \/ \E status \in {"completed", "archived"} : SetStatus(i, status)
  \/ PrepareEvent
  \/ Restart

Spec == Init /\ [][Next]_vars

-----------------------------------------------------------------------------
(* Properties *)

Result == [event : 0..MaxId, complete : BOOLEAN, penalties : 0..MaxPenalty]
Results == UNION {[stages -> Result] : stages \in SUBSET (1..MaxStage)}

Room == [event : 0..MaxId, phase : {"lobby", "race", "finished"}, stage : 0..MaxStage,
         penalties : 0..MaxPenalty, track : File, history : Results]

\* A project names no file but that of its track.
Project ==
  {p \in [id : Id, status : Status, event : 0..MaxId, track : File, file : File,
          results : Results] : p.file \in {None, p.track}}

IsList(ps) ==
  /\ ps \in Seq(Project)
  /\ Len(ps) <= MaximumProjects
  /\ \A i, j \in DOMAIN ps : ps[i].id = ps[j].id => i = j

\* The type invariant of the project state of index.ts and event-projects.ts:
\* the limit of projects holds and no identifier is listed twice.
ProjectsTypeOK ==
  /\ room \in Room /\ IsList(projects)
  /\ disk \in [room : Room, projects : Seq(Project), files : [Id -> File]]
  /\ IsList(disk.projects)
  /\ hosted \in [name : File, file : File]
  /\ package \in Project \cup {None} /\ upload \in File /\ cut \subseteq Id
  /\ fresh \in [id : 1..MaxId + 1, stage : 1..MaxStage + 1]
  /\ faults \in 0..MaxFault

Owns(ps, r) ==
  \A i, j \in DOMAIN ps :
    /\ ps[i].status = "active" => ps[i].event = r.event
    /\ ps[i].status = "active" /\ ps[j].status = "active" => i = j

\* At most one project is active and it is the record of the event the room
\* runs, in memory and in whatever a crash leaves in storage.  (prepareEvent)
ActiveProjectOwnsTheEvent ==
  Owns(projects, room) /\ Owns(disk.projects, disk.room)

\* The stages of the event of p that the room has archived.
StagesOf(p, r) == {s \in DOMAIN r.history : r.history[s].event = p.event}

\* The project q is what became of p in this step, and it was completed.
Completed(p, q) == p.id = q.id /\ p.status = "active" /\ q.status = "completed"

\* A project is completed with a result of every stage of its event, abandoned
\* ones included, whatever was lost, refused or restarted before.
\* (syncActiveEventProject)
CompletedWithItsResults ==
  [][\A p \in ToSet(projects), q \in ToSet(projects') :
       Completed(p, q) => StagesOf(p, room') \subseteq DOMAIN q.results]_vars

\* Once stored, the record of an event that is over stays as it is until it
\* is deleted.  (captureEventProject, setEventProjectStatus)
RecordsStand ==
  [][\A p \in ToSet(disk.projects), q \in ToSet(disk'.projects) :
       p.id = q.id /\ p.status \in {"completed", "archived"} /\ p.id \notin cut
         => \E status \in {"completed", "archived"} : q = [p EXCEPT !.status = status]]_vars

\* A crash leaves no stored project without the files it names, unless a
\* request about those files was cut short.  (saveEventProjectAssets)
ListedProjectsHaveTheirFiles ==
  \A i \in DOMAIN disk.projects :
    Usable(disk.projects[i]) \/ disk.projects[i].id \in cut

\* What a driver downloads for the room's track is the file of that track,
\* though a file is hosted under the name an upload or a project gives it, and
\* the settings may have gone on to another track since.  (downloadTrackPackage,
\* currentEventProjectCapture, prepareEvent)
DownloadIsOfTheRoomsTrack == hosted.name = room.track => hosted.file = room.track

\* index.ts:1216: the track is changed in the lobby only, and after a race only
\* once the next event is prepared: the package that the drivers of a race
\* download is not exchanged for another.  (An upload that was admitted in the
\* lobby exchanges it before it is refused.)
HostedTrackStaysInRace ==
  [][room.stage # 0 /\ room'.stage = room.stage
       /\ room.track # None /\ hosted.name = room.track
       => hosted' \in {hosted, NotHosted}]_vars

\* README.md: preparing the next event first keeps the results and penalties
\* of the project.  (prepareEvent reads the results before beginEvent has
\* archived the penalties given since the finish.)
CompletedWithFinalResults ==
  [][\A p \in ToSet(projects), q \in ToSet(projects') :
       Completed(p, q) =>
         \A s \in StagesOf(p, room') : q.results[s] = room'.history[s]]_vars
=============================================================================
