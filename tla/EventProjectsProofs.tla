------------------------ MODULE EventProjectsProofs ------------------------
(* Theorems about the event projects: one active project that owns the      *)
(* event, stored projects with their files, completed projects with their   *)
(* results, records that stand, and the file drivers download.  Memory and  *)
(* storage differ between a handler that is refused or cut short and the    *)
(* next write; ProjectsInv says by how much.  At the end, both servers as the *)
(* run `preparing` has them.                                                *)
EXTENDS MCPreparing, SequenceTheorems, TLAPS

\* Projects that are over.
Over == {"completed", "archived"}

\* What may become of a record that is over.
Stands(p, q) == q.status \in Over /\ q = [p EXCEPT !.status = q.status]

\* The active projects of a list.
ActiveIds(ps) == {ps[i].id : i \in {j \in DOMAIN ps : ps[j].status = "active"}}

\* The identifiers of a list were given before the next one.
Before(ps) == \A i \in DOMAIN ps : ps[i].id < fresh.id

\* Identifiers and stages are given once.
Given ==
  /\ Before(projects) /\ Before(disk.projects)
  /\ package # None => package.id < fresh.id
  /\ room.event < fresh.id /\ disk.room.event < fresh.id
  /\ room.stage < fresh.stage /\ disk.room.stage < fresh.stage

\* Outside of a race there is no stage but the one that has its result.
Rests(r) ==
  /\ r.phase = "lobby" => r.stage = 0
  /\ r.phase = "finished" /\ r.stage # 0 =>
       r.stage \in DOMAIN r.history /\ r.history[r.stage].event = r.event

\* Memory and storage agree on the event and on the active project.
Agree ==
  /\ room.event = disk.room.event
  /\ ActiveIds(projects) = ActiveIds(disk.projects)

\* A file is hosted under the track it is of.
Named(h) == h \in [name : File, file : File] /\ h.file = h.name
Hosts == Named(hosted)

\* What storage lists is in memory, or was cut.
Listed == Ids(disk.projects) \subseteq Ids(projects) \cup cut

\* A stored record that is over stands in memory.
Recorded ==
  \A j \in DOMAIN disk.projects, i \in DOMAIN projects :
    disk.projects[j].id = projects[i].id /\ disk.projects[j].status \in Over
    /\ disk.projects[j].id \notin cut => Stands(disk.projects[j], projects[i])

\* Every project of a list has its files, or was cut.
HaveFiles(ps) == \A i \in DOMAIN ps : Usable(ps[i]) \/ ps[i].id \in cut

\* The inductive invariant.
ProjectsInv ==
  /\ ProjectsTypeOK /\ Given /\ Rests(room) /\ Rests(disk.room)
  /\ Agree /\ Listed /\ Recorded /\ Hosts
  /\ ActiveProjectOwnsTheEvent
  /\ HaveFiles(projects) /\ ListedProjectsHaveTheirFiles
-----------------------------------------------------------------------------
(* Handlers: what storage and memory hold after some of the writes.        *)

\* Storage with these parts.
Stored(r, ps, files) == [room |-> r, projects |-> ps, files |-> files]

\* Storage has the three parts it began with.
LEMMA DiskHasParts ==
  ASSUME ProjectsTypeOK
  PROVE  disk = Stored(disk.room, disk.projects, disk.files)
BY Zenon DEF ProjectsTypeOK, Stored

\* No write, no change.
LEMMA NothingWritten ==
  ASSUME ProjectsTypeOK, NEW writes
  PROVE  Written(writes, 0) = disk
<1>1. disk = [part \in DOMAIN disk |-> disk[part]]
  BY DEF ProjectsTypeOK
<1>2. {m \in 1..0 : TRUE} = {}
  OBVIOUS
<1> QED
  BY <1>1, <1>2 DEF Written

\* The last of one write, and of two.
LEMMA LastStore == Max({1}) = 1 /\ Max({2}) = 2 /\ Max({1, 2}) = 2
<1>1. \A m \in {1} : (\A k \in {1} : m >= k) => m = 1
  OBVIOUS
<1>2. \A m \in {1, 2} : (\A k \in {1, 2} : m >= k) => m = 2
  BY SMT
<1>3. \A m \in {2} : (\A k \in {2} : m >= k) => m = 2
  OBVIOUS
<1> QED
  BY <1>1, <1>2, <1>3, SMT DEF Max

\* The first write of a list of writes.
LEMMA FirstWritten ==
  ASSUME NEW writes
  PROVE  Written(writes, 1) =
           [part \in DOMAIN disk |->
              IF part \in DOMAIN writes[1] THEN writes[1][part] ELSE disk[part]]
<1>1. ASSUME NEW part \in DOMAIN disk
      PROVE  {m \in 1..1 : part \in DOMAIN writes[m]} =
               IF part \in DOMAIN writes[1] THEN {1} ELSE {}
  OBVIOUS
<1> QED
  BY <1>1, LastStore DEF Written

\* Two writes of different parts.
LEMMA BothWritten ==
  ASSUME NEW writes, DOMAIN writes[1] \cap DOMAIN writes[2] = {}
  PROVE  Written(writes, 2) =
           [part \in DOMAIN disk |->
              IF part \in DOMAIN writes[1] THEN writes[1][part]
              ELSE IF part \in DOMAIN writes[2] THEN writes[2][part] ELSE disk[part]]
<1>1. ASSUME NEW part \in DOMAIN disk
      PROVE  {m \in 1..2 : part \in DOMAIN writes[m]} =
               IF part \in DOMAIN writes[1] THEN {1}
               ELSE IF part \in DOMAIN writes[2] THEN {2} ELSE {}
  <2>1. \A m : m \in 1..2 <=> m = 1 \/ m = 2
    BY SMT
  <2> QED
    BY <2>1
<1> QED
  BY <1>1, LastStore DEF Written

\* What a handler that makes r and ps of the memory leaves, wherever it is cut
\* short: storage has the old or the new, memory the new or what storage has.
Left(r, ps) ==
  /\ disk' = Stored(disk'.room, disk'.projects, disk'.files)
  /\ disk'.room \in {disk.room, r} /\ room' \in {r, disk'.room}
  /\ disk'.projects \in {disk.projects, ps} /\ projects' \in {ps, disk'.projects}
  /\ faults' \in 0..MaxFault

\* A handler with one write.
LEMMA OneWrite ==
  ASSUME ProjectsTypeOK, NEW memory, NEW write, NEW n \in 0..1, NEW alive \in BOOLEAN,
         Handle(memory, <<write>>, n, alive)
  PROVE  /\ n = 0 => disk' = disk
         /\ n = 1 => disk' = [part \in {"room", "projects", "files"} |->
                                IF part \in DOMAIN write THEN write[part] ELSE disk[part]]
         /\ alive => room' = memory.room /\ projects' = memory.projects
         /\ ~alive => room' = disk'.room /\ projects' = disk'.projects
         /\ faults' \in 0..MaxFault
<1>1. disk' = Written(<<write>>, n)
  BY DEF Handle
<1>2. n = 0 => disk' = disk
  BY <1>1, NothingWritten
<1>3. DOMAIN disk = {"room", "projects", "files"} /\ <<write>>[1] = write
  BY DEF ProjectsTypeOK
<1>4. n = 1 => disk' = [part \in {"room", "projects", "files"} |->
                          IF part \in DOMAIN write THEN write[part] ELSE disk[part]]
  <2> DEFINE writes == <<write>>
  <2>1. Written(writes, 1) =
          [part \in DOMAIN disk |->
             IF part \in DOMAIN writes[1] THEN writes[1][part] ELSE disk[part]]
    BY FirstWritten, Zenon
  <2>2. writes[1] = write
    BY <1>3
  <2> QED
    BY <1>1, <1>3, <2>1, <2>2, Zenon
<1>5. /\ alive => room' = memory.room /\ projects' = memory.projects
      /\ ~alive => room' = disk'.room /\ projects' = disk'.projects
  BY DEF Handle
<1>6. faults' \in 0..MaxFault
  BY ProjectsAssumption DEF Handle, ProjectsTypeOK
<1> QED
  BY <1>2, <1>4, <1>5, <1>6

\* A handler with two writes of different parts.
LEMMA TwoWrites ==
  ASSUME ProjectsTypeOK, NEW memory, NEW first, NEW second, NEW n \in 0..2,
         NEW alive \in BOOLEAN, DOMAIN first \cap DOMAIN second = {},
         Handle(memory, <<first, second>>, n, alive)
  PROVE  /\ n = 0 => disk' = disk
         /\ n = 1 => disk' = [part \in {"room", "projects", "files"} |->
                                IF part \in DOMAIN first THEN first[part] ELSE disk[part]]
         /\ n = 2 => disk' = [part \in {"room", "projects", "files"} |->
                                IF part \in DOMAIN first THEN first[part]
                                ELSE IF part \in DOMAIN second THEN second[part] ELSE disk[part]]
         /\ alive => room' = memory.room /\ projects' = memory.projects
         /\ ~alive => room' = disk'.room /\ projects' = disk'.projects
         /\ faults' \in 0..MaxFault
<1>1. disk' = Written(<<first, second>>, n)
  BY DEF Handle
<1>2. n = 0 => disk' = disk
  BY <1>1, NothingWritten
<1>3. /\ DOMAIN disk = {"room", "projects", "files"}
      /\ <<first, second>>[1] = first /\ <<first, second>>[2] = second
  BY DEF ProjectsTypeOK
<1>4. n = 1 => disk' = [part \in {"room", "projects", "files"} |->
                          IF part \in DOMAIN first THEN first[part] ELSE disk[part]]
  <2> DEFINE writes == <<first, second>>
  <2>1. Written(writes, 1) =
          [part \in DOMAIN disk |->
             IF part \in DOMAIN writes[1] THEN writes[1][part] ELSE disk[part]]
    BY FirstWritten, Zenon
  <2>2. writes[1] = first
    BY <1>3
  <2> QED
    BY <1>1, <1>3, <2>1, <2>2, Zenon
<1>5. n = 2 => disk' = [part \in {"room", "projects", "files"} |->
                          IF part \in DOMAIN first THEN first[part]
                          ELSE IF part \in DOMAIN second THEN second[part] ELSE disk[part]]
  <2> DEFINE writes == <<first, second>>
  <2>1. writes[1] = first /\ writes[2] = second
    BY <1>3
  <2>2. DOMAIN writes[1] \cap DOMAIN writes[2] = {}
    BY <2>1, Zenon
  <2>3. Written(writes, 2) =
          [part \in DOMAIN disk |->
             IF part \in DOMAIN writes[1] THEN writes[1][part]
             ELSE IF part \in DOMAIN writes[2] THEN writes[2][part] ELSE disk[part]]
    BY <2>2, BothWritten, Zenon
  <2> QED
    BY <1>1, <1>3, <2>1, <2>3, Zenon
<1>6. /\ alive => room' = memory.room /\ projects' = memory.projects
      /\ ~alive => room' = disk'.room /\ projects' = disk'.projects
  BY DEF Handle
<1>7. faults' \in 0..MaxFault
  BY ProjectsAssumption DEF Handle, ProjectsTypeOK
<1> QED
  BY <1>2, <1>4, <1>5, <1>6, <1>7

\* persist leaves room and projects both or neither in storage.
LEMMA PersistLeaves ==
  ASSUME ProjectsTypeOK, NEW r, Persist(r)
  PROVE  Left(r, Synced(projects, r)) /\ disk'.files = disk.files
<1> DEFINE ps == Synced(projects, r)
<1>1. PICK n \in 0..1, alive \in BOOLEAN : Handle(Both(r, ps), <<Both(r, ps)>>, n, alive)
  BY DEF Persist
<1> HIDE DEF ps
<1>2. PICK both : both = Both(r, ps)
  OBVIOUS
<1>3. Handle(both, <<both>>, n, alive)
  BY <1>1, <1>2
<1>4. /\ n = 0 => disk' = disk
      /\ n = 1 => disk' = [part \in {"room", "projects", "files"} |->
                            IF part \in DOMAIN both THEN both[part] ELSE disk[part]]
      /\ alive => room' = both.room /\ projects' = both.projects
      /\ ~alive => room' = disk'.room /\ projects' = disk'.projects
      /\ faults' \in 0..MaxFault
  BY <1>3, OneWrite
<1>5. n = 1 => disk' = Stored(r, ps, disk.files)
  BY <1>2, <1>4 DEF Both, Stored
<1>6. alive => room' = r /\ projects' = ps
  BY <1>2, <1>4 DEF Both
<1> QED
  BY <1>4, <1>5, <1>6, DiskHasParts DEF Left, Stored, ps

\* A handler that stores the list only.
ListHandled(ps, n, alive) == Handle(Both(room, ps), <<List(ps)>>, n, alive)
ListLeft(ps) == Left(room, ps) /\ disk'.files = disk.files

\* What such a handler leaves, whichever of its writes were done.
LEMMA ListLeaves ==
  ASSUME ProjectsTypeOK, NEW ps, NEW n \in 0..1, NEW alive \in BOOLEAN,
         ListHandled(ps, n, alive)
  PROVE  ListLeft(ps)
<1>0. Handle(Both(room, ps), <<List(ps)>>, n, alive)
  BY DEF ListHandled
<1>1. disk' = Written(<<List(ps)>>, n)
  BY <1>0 DEF Handle
<1>2. n = 0 => disk' = disk
  BY <1>1, NothingWritten
<1>3. /\ alive => room' = room /\ projects' = ps
      /\ ~alive => room' = disk'.room /\ projects' = disk'.projects
      /\ faults' \in 0..MaxFault
  BY <1>0, OneWrite DEF Both
<1>4. n = 1 => disk' = Stored(disk.room, ps, disk.files)
  <2>1. n = 1 => disk' = [part \in {"room", "projects", "files"} |->
                     IF part \in DOMAIN List(ps) THEN List(ps)[part] ELSE disk[part]]
    BY <1>0, OneWrite
  <2> QED
    BY <2>1 DEF List, Stored
<1> QED
  BY <1>2, <1>3, <1>4, DiskHasParts DEF ListLeft, Left, Stored

\* The same when the files of a project are stored before the list.
FilesHandled(ps, id, file, n, alive) ==
  Handle(Both(room, ps), <<FilesWith(id, file), List(ps)>>, n, alive)
FilesLeft(ps, id, file, n, alive) ==
  /\ Left(room, ps)
  /\ disk'.files = IF n = 0 THEN disk.files ELSE [disk.files EXCEPT ![id] = file]
  /\ disk'.projects = IF n = 2 THEN ps ELSE disk.projects
  /\ projects' = IF alive THEN ps ELSE disk'.projects

\* What it leaves: the files first, and the list only after them.
LEMMA FilesLeave ==
  ASSUME ProjectsTypeOK, NEW ps, NEW id, NEW file, NEW n \in 0..2, NEW alive \in BOOLEAN,
         FilesHandled(ps, id, file, n, alive)
  PROVE  FilesLeft(ps, id, file, n, alive)
<1>0. Handle(Both(room, ps), <<FilesWith(id, file), List(ps)>>, n, alive)
  BY DEF FilesHandled
<1>1. DOMAIN FilesWith(id, file) \cap DOMAIN List(ps) = {}
  BY DEF FilesWith, List
<1>2. n = 0 => disk' = disk
  BY <1>0, <1>1, TwoWrites
<1>3. /\ alive => room' = room /\ projects' = ps
      /\ ~alive => room' = disk'.room /\ projects' = disk'.projects
      /\ faults' \in 0..MaxFault
  BY <1>0, <1>1, TwoWrites DEF Both
<1> DEFINE files == [disk.files EXCEPT ![id] = file]
<1>4. n = 1 => disk' = Stored(disk.room, disk.projects, files)
  <2>1. n = 1 => disk' = [part \in {"room", "projects", "files"} |->
            IF part \in DOMAIN FilesWith(id, file) THEN FilesWith(id, file)[part]
            ELSE disk[part]]
    BY <1>0, <1>1, TwoWrites
  <2> QED
    BY <2>1 DEF FilesWith, Stored
<1>5. n = 2 => disk' = Stored(disk.room, ps, files)
  <2>1. n = 2 => disk' = [part \in {"room", "projects", "files"} |->
            IF part \in DOMAIN FilesWith(id, file) THEN FilesWith(id, file)[part]
            ELSE IF part \in DOMAIN List(ps) THEN List(ps)[part] ELSE disk[part]]
    BY <1>0, <1>1, TwoWrites
  <2> QED
    BY <2>1 DEF FilesWith, List, Stored
<1> HIDE DEF files
<1>6. /\ Left(room, ps)
      /\ disk'.files = IF n = 0 THEN disk.files ELSE files
      /\ disk'.projects = IF n = 2 THEN ps ELSE disk.projects
      /\ projects' = IF alive THEN ps ELSE disk'.projects
  BY <1>2, <1>3, <1>4, <1>5, DiskHasParts DEF Left, Stored
<1> QED
  BY <1>6 DEF files, FilesLeft

\* The transaction leaves the new event, or memory and storage without it.
LEMMA CommitLeaves ==
  ASSUME ProjectsTypeOK, NEW r, NEW ps, NEW h, Commit(r, ps, h)
  PROVE  /\ \/ disk' = Stored(r, ps, disk.files) /\ room' = r /\ projects' = ps
            \/ /\ disk' = disk
               /\ \/ room' = room /\ projects' = projects
                  \/ room' = disk.room /\ projects' = disk.projects
         /\ faults' \in 0..MaxFault /\ hosted' \in {h, hosted}
<1>1. PICK n \in 0..1, alive \in BOOLEAN :
        /\ Handle(IF n = 1 THEN Both(r, ps) ELSE Both(room, projects), <<Both(r, ps)>>, n, alive)
        /\ hosted' = IF n = 1 THEN h ELSE hosted
  BY DEF Commit
<1>2. n = 0 => disk' = disk
  BY <1>1, OneWrite
<1>3. /\ alive => IF n = 1 THEN room' = r /\ projects' = ps
                  ELSE room' = room /\ projects' = projects
      /\ ~alive => room' = disk'.room /\ projects' = disk'.projects
      /\ faults' \in 0..MaxFault
  BY <1>1, OneWrite DEF Both
<1>4. n = 1 => disk' = Stored(r, ps, disk.files)
  <2>1. n = 1 => disk' = [part \in {"room", "projects", "files"} |->
                     IF part \in DOMAIN Both(r, ps) THEN Both(r, ps)[part] ELSE disk[part]]
    BY <1>1, OneWrite
  <2> QED
    BY <2>1 DEF Both, Stored
<1> QED
  BY <1>1, <1>2, <1>3, <1>4 DEF Stored

-----------------------------------------------------------------------------
(* Results, rooms and lists.                                               *)

\* The results an event begins with.
LEMMA NoResultsYet == NoResults \in Results
<1>1. << >> \in [{} -> Result]
  OBVIOUS
<1>2. {} \in SUBSET (1..MaxStage)
  OBVIOUS
<1> QED
  BY <1>1, <1>2 DEF Results, NoResults

\* Results are functions from stages to results.
LEMMA ResultsAre ==
  ASSUME NEW h
  PROVE  h \in Results <=>
           /\ h = [s \in DOMAIN h |-> h[s]]
           /\ DOMAIN h \subseteq 1..MaxStage /\ \A s \in DOMAIN h : h[s] \in Result
BY DEF Results

\* Merge gives results, and keeps what the newer ones do not replace.
LEMMA MergeGives ==
  ASSUME NEW old \in Results, NEW new \in Results
  PROVE  /\ Merge(old, new) \in Results
         /\ DOMAIN Merge(old, new) = DOMAIN old \cup DOMAIN new
         /\ \A s \in DOMAIN old \cup DOMAIN new :
              Merge(old, new)[s] = IF s \in DOMAIN new THEN new[s] ELSE old[s]
<1>1. /\ DOMAIN Merge(old, new) = DOMAIN old \cup DOMAIN new
      /\ \A s \in DOMAIN old \cup DOMAIN new :
           Merge(old, new)[s] = IF s \in DOMAIN new THEN new[s] ELSE old[s]
      /\ Merge(old, new) = [s \in DOMAIN Merge(old, new) |-> Merge(old, new)[s]]
  BY Zenon DEF Merge
<1>2. /\ DOMAIN old \subseteq 1..MaxStage /\ \A s \in DOMAIN old : old[s] \in Result
      /\ DOMAIN new \subseteq 1..MaxStage /\ \A s \in DOMAIN new : new[s] \in Result
  BY ResultsAre
<1>3. Merge(old, new) \in Results
  BY <1>1, <1>2, ResultsAre
<1> QED
  BY <1>1, <1>3

\* The results of an event are those of its stages.
LEMMA ResultsOfGives ==
  ASSUME NEW r \in Room, NEW event
  PROVE  /\ ResultsOf(r, event) \in Results
         /\ DOMAIN ResultsOf(r, event) = {s \in DOMAIN r.history : r.history[s].event = event}
<1>1. r.history \in Results
  BY DEF Room
<1>2. DOMAIN r.history \subseteq 1..MaxStage /\ \A s \in DOMAIN r.history : r.history[s] \in Result
  BY <1>1, ResultsAre
<1> DEFINE h == ResultsOf(r, event)
<1>3. /\ DOMAIN h = {s \in DOMAIN r.history : r.history[s].event = event}
      /\ \A s \in DOMAIN h : h[s] = r.history[s]
      /\ h = [s \in DOMAIN h |-> h[s]]
  BY Zenon DEF ResultsOf
<1> HIDE DEF h
<1>4. h \in Results
  BY <1>2, <1>3, ResultsAre
<1> QED
  BY <1>3, <1>4 DEF h

\* Archiving gives a room whose stage has its result and changes nothing else.
LEMMA ArchivedGives ==
  ASSUME NEW r \in Room, NEW complete \in BOOLEAN
  PROVE  /\ Archived(r, complete) \in Room
         /\ Archived(r, complete) = [r EXCEPT !.history = Archived(r, complete).history]
         /\ r.stage = 0 => Archived(r, complete) = r
         /\ r.stage # 0 => /\ DOMAIN Archived(r, complete).history = DOMAIN r.history \cup {r.stage}
                           /\ Archived(r, complete).history[r.stage].event = r.event
                           /\ \A s \in DOMAIN r.history \ {r.stage} :
                                Archived(r, complete).history[s] = r.history[s]
<1>1. CASE r.stage = 0
  BY <1>1 DEF Archived, Room
<1>2. CASE r.stage # 0
  <2> DEFINE result == [event |-> r.event, complete |-> complete, penalties |-> r.penalties]
             new == [s \in {r.stage} |-> result]
             h == Merge(r.history, new)
  <2>1. result \in Result /\ r.stage \in 1..MaxStage /\ r.history \in Results
    BY <1>2, ProjectsAssumption DEF Result, Room
  <2>2. DOMAIN new = {r.stage} /\ new[r.stage] = result /\ result.event = r.event
    OBVIOUS
  <2>3. new \in Results
    BY <2>1, <2>2, ResultsAre
  <2>4. Archived(r, complete) = [r EXCEPT !.history = h]
    BY <1>2 DEF Archived
  <2> HIDE DEF new, result
  <2>5. /\ h \in Results /\ DOMAIN h = DOMAIN r.history \cup {r.stage}
        /\ \A s \in DOMAIN r.history \cup {r.stage} :
             h[s] = IF s \in {r.stage} THEN new[s] ELSE r.history[s]
    BY <2>1, <2>2, <2>3, MergeGives
  <2> HIDE DEF h
  <2>6. Archived(r, complete).history = h
    BY <2>4 DEF Room
  <2>7. Archived(r, complete) \in Room
    BY <2>4, <2>5 DEF Room
  <2> QED
    BY <1>2, <2>2, <2>4, <2>5, <2>6, <2>7
<1> QED
  BY <1>1, <1>2

\* A list, place by place.
LEMMA ListIs ==
  ASSUME NEW ps, IsList(ps)
  PROVE  /\ Len(ps) \in Nat /\ DOMAIN ps = 1..Len(ps) /\ Len(ps) <= MaximumProjects
         /\ ps \in [1..Len(ps) -> Project]
         /\ \A i \in DOMAIN ps : ps[i] \in Project
         /\ \A i, j \in DOMAIN ps : ps[i].id = ps[j].id => i = j
BY LenProperties, ElementOfSeq DEF IsList

\* A list of the same length, from place to place.
LEMMA ListFrom ==
  ASSUME NEW ps, IsList(ps), NEW qs, qs = [i \in DOMAIN ps |-> qs[i]],
         \A i \in DOMAIN ps : qs[i] \in Project /\ qs[i].id = ps[i].id
  PROVE  IsList(qs) /\ DOMAIN qs = DOMAIN ps
<1>1. Len(ps) \in Nat /\ DOMAIN ps = 1..Len(ps) /\ Len(ps) <= MaximumProjects
  BY ListIs
<1>2. DOMAIN qs = 1..Len(ps) /\ qs \in [1..Len(ps) -> Project]
  BY <1>1, Zenon
<1>3. qs \in Seq(Project)
  BY <1>1, <1>2, SeqDef
<1>4. Len(qs) = Len(ps)
  BY <1>1, <1>2, <1>3, LenProperties
<1>5. \A i, j \in DOMAIN qs : qs[i].id = qs[j].id => i = j
  BY <1>1, <1>2, ListIs
<1> QED
  BY <1>1, <1>2, <1>3, <1>4, <1>5 DEF IsList

\* syncActiveEventProject touches the results of the active project only.
LEMMA SyncedGives ==
  ASSUME NEW ps, IsList(ps), NEW r \in Room
  PROVE  /\ IsList(Synced(ps, r)) /\ DOMAIN Synced(ps, r) = DOMAIN ps
         /\ \A i \in DOMAIN ps :
              /\ Synced(ps, r)[i] = [ps[i] EXCEPT !.results = Synced(ps, r)[i].results]
              /\ ps[i].status # "active" => Synced(ps, r)[i] = ps[i]
              /\ ps[i].status = "active" =>
                   {s \in DOMAIN r.history : r.history[s].event = ps[i].event}
                     \subseteq DOMAIN Synced(ps, r)[i].results
<1> DEFINE qs == Synced(ps, r)
<1>1. /\ qs = [i \in DOMAIN ps |-> qs[i]]
      /\ \A i \in DOMAIN ps :
           qs[i] = IF ps[i].status # "active" THEN ps[i]
                   ELSE [ps[i] EXCEPT !.results = Merge(ps[i].results, ResultsOf(r, ps[i].event))]
  BY DEF Synced
<1>2. ASSUME NEW i \in DOMAIN ps
      PROVE  /\ qs[i] \in Project /\ qs[i].id = ps[i].id
             /\ qs[i] = [ps[i] EXCEPT !.results = qs[i].results]
             /\ ps[i].status # "active" => qs[i] = ps[i]
             /\ ps[i].status = "active" =>
                  {s \in DOMAIN r.history : r.history[s].event = ps[i].event}
                    \subseteq DOMAIN qs[i].results
  <2> HIDE DEF qs
  <2>1. ps[i] \in Project /\ ps[i].results \in Results
    BY ListIs DEF Project
  <2>2. CASE ps[i].status # "active"
    BY <1>1, <2>1, <2>2 DEF Project
  <2>3. CASE ps[i].status = "active"
    <3> DEFINE found == ResultsOf(r, ps[i].event)
               h == Merge(ps[i].results, found)
    <3>1. /\ found \in Results
          /\ DOMAIN found = {s \in DOMAIN r.history : r.history[s].event = ps[i].event}
      BY ResultsOfGives
    <3> HIDE DEF found
    <3>2. h \in Results /\ DOMAIN h = DOMAIN ps[i].results \cup DOMAIN found
      BY <2>1, <3>1, MergeGives
    <3>3. qs[i] = [ps[i] EXCEPT !.results = h]
      BY <1>1, <2>3 DEF found
    <3> HIDE DEF h
    <3>4. qs[i] \in Project /\ qs[i].id = ps[i].id /\ qs[i].results = h
      BY <2>1, <3>2, <3>3 DEF Project
    <3> QED
      BY <2>3, <3>1, <3>2, <3>3, <3>4
  <2> QED
    BY <2>2, <2>3
<1> HIDE DEF qs
<1>3. IsList(qs) /\ DOMAIN qs = DOMAIN ps
  BY <1>1, <1>2, ListFrom
<1> QED
  BY <1>2, <1>3 DEF qs

-----------------------------------------------------------------------------
(* What every handler but the two that go to another event does.           *)

\* The bodies of the action properties.
CompletedStep ==
  \A p \in ToSet(projects), q \in ToSet(projects') :
    Completed(p, q) => StagesOf(p, room') \subseteq DOMAIN q.results
RecordsStep ==
  \A p \in ToSet(disk.projects), q \in ToSet(disk'.projects) :
    p.id = q.id /\ p.status \in {"completed", "archived"} /\ p.id \notin cut
      => \E status \in {"completed", "archived"} : q = [p EXCEPT !.status = status]

\* The room r runs on with the event.
RunsOn(r) == r \in Room /\ r.event = room.event /\ Rests(r) /\ r.stage < fresh'.stage

\* The list ps follows the one in memory: the same project is active, none is
\* lost from memory alone unless it is cut, and what is over stands.
Follows(ps) ==
  /\ IsList(ps) /\ \A i \in DOMAIN ps : ps[i].id < fresh'.id
  /\ ActiveIds(projects) \subseteq ActiveIds(ps)
  /\ \A i \in DOMAIN ps : ps[i].status = "active" =>
       \E k \in DOMAIN projects : /\ projects[k].id = ps[i].id /\ projects[k].status = "active"
                                  /\ projects[k].event = ps[i].event
  /\ projects' = disk'.projects \/ Ids(projects) \subseteq Ids(ps) \cup cut'
  /\ \A k \in DOMAIN projects, i \in DOMAIN ps :
       projects[k].id = ps[i].id /\ projects[k].status \in Over => Stands(projects[k], ps[i])

\* The projects of ps have their files when the step is done.
Provided(ps) ==
  \A i \in DOMAIN ps : \/ ps[i].file = None \/ disk'.files[ps[i].id] = ps[i].file
                       \/ ps[i].id \in cut'

\* The rest of the state.
Advances ==
  /\ fresh' \in [id : 1..MaxId + 1, stage : 1..MaxStage + 1]
  /\ fresh.id <= fresh'.id /\ fresh.stage <= fresh'.stage
  /\ cut \subseteq cut' /\ cut' \subseteq Id
  /\ upload' \in File
  /\ package' \in Project \cup {None} /\ (package' # None => package'.id < fresh'.id)
  /\ disk'.files \in [Id -> File] /\ Hosts'

\* Standing is transitive, and what is over stands as it is.
LEMMA StandsOn ==
  ASSUME NEW p \in Project, NEW q \in Project, NEW s \in Project
  PROVE  /\ Stands(p, q) /\ Stands(q, s) => Stands(p, s)
         /\ p.status \in Over => Stands(p, p)
         /\ Stands(p, q) => p.id = q.id
<1>1. p.status \in Over => Stands(p, p)
  BY Zenon DEF Stands, Project
<1>2. Stands(p, q) => p.id = q.id
  BY DEF Stands, Project
<1>3. ASSUME Stands(p, q), Stands(q, s)
      PROVE  Stands(p, s)
  <2>1. /\ q.id = p.id /\ q.event = p.event /\ q.track = p.track /\ q.file = p.file
        /\ s.id = q.id /\ s.event = q.event /\ s.track = q.track /\ s.file = q.file
        /\ q.results = p.results /\ s.results = q.results /\ s.status \in Over
    BY <1>3 DEF Stands, Project
  <2>2. s = [id |-> s.id, status |-> s.status, event |-> s.event, track |-> s.track,
             file |-> s.file, results |-> s.results]
    BY Zenon DEF Project
  <2>3. [p EXCEPT !.status = s.status] =
          [id |-> p.id, status |-> s.status, event |-> p.event, track |-> p.track,
           file |-> p.file, results |-> p.results]
    BY DEF Project
  <2> QED
    BY <2>1, <2>2, <2>3 DEF Stands
<1> QED
  BY <1>1, <1>2, <1>3

\* A stored record that is over stands in the list that follows.
LEMMA StandsInNext ==
  ASSUME ProjectsInv, NEW ps, Follows(ps),
         NEW j \in DOMAIN disk.projects, NEW i \in DOMAIN ps,
         disk.projects[j].id = ps[i].id, disk.projects[j].status \in Over,
         disk.projects[j].id \notin cut
  PROVE  Stands(disk.projects[j], ps[i])
<1>1. disk.projects[j].id \in Ids(projects)
  BY DEF ProjectsInv, Listed, Ids
<1>2. PICK k \in DOMAIN projects : projects[k].id = disk.projects[j].id
  BY <1>1 DEF Ids
<1>3. Stands(disk.projects[j], projects[k])
  BY <1>2 DEF ProjectsInv, Recorded
<1>4. projects[k].status \in Over
  BY <1>3 DEF Stands
<1>5. Stands(projects[k], ps[i])
  BY <1>2, <1>4 DEF Follows
<1>6. disk.projects[j] \in Project /\ projects[k] \in Project /\ ps[i] \in Project
  BY ListIs DEF Follows, ProjectsInv, ProjectsTypeOK
<1> QED
  BY <1>3, <1>5, <1>6, StandsOn

\* The list in memory follows and storage has the old list or that one, or memory
\* is what is stored: then memory and storage still agree.
LEMMA ListsAgree ==
  ASSUME ProjectsInv, NEW ps, Follows(ps), cut \subseteq cut',
         disk'.projects \in {disk.projects, ps}, projects' \in {ps, disk'.projects}
  PROVE  /\ ActiveIds(projects)' = ActiveIds(disk.projects)' /\ Listed' /\ Recorded'
         /\ RecordsStep /\ CompletedStep
<1> USE DEF ProjectsInv
<1>1. IsList(ps) /\ IsList(projects) /\ IsList(disk.projects)
  BY DEF Follows, ProjectsTypeOK
<1>2. /\ \A i \in DOMAIN ps : ps[i] \in Project
      /\ \A i \in DOMAIN projects : projects[i] \in Project
      /\ \A i \in DOMAIN disk.projects : disk.projects[i] \in Project
  BY <1>1, ListIs
<1>3. ActiveIds(ps) = ActiveIds(projects) /\ ActiveIds(disk.projects) = ActiveIds(projects)
  <2>1. ActiveIds(projects) \subseteq ActiveIds(ps)
    BY DEF Follows
  <2>2. ASSUME NEW i \in DOMAIN ps, ps[i].status = "active"
        PROVE  ps[i].id \in ActiveIds(projects)
    <3>1. PICK k \in DOMAIN projects : projects[k].id = ps[i].id /\ projects[k].status = "active"
      BY <2>2 DEF Follows
    <3> QED
      BY <3>1 DEF ActiveIds
  <2>3. ActiveIds(ps) \subseteq ActiveIds(projects)
    BY <2>2 DEF ActiveIds
  <2> QED
    BY <2>1, <2>3 DEF Agree
<1>4. ActiveIds(projects)' = ActiveIds(disk.projects)'
  <2>1. ActiveIds(projects') = ActiveIds(disk'.projects)
    BY <1>3
  <2> QED
    BY <2>1 DEF ActiveIds
<1>5. Listed'
  BY DEF Listed, Ids, Follows
<1>6. Recorded'
  <2> SUFFICES ASSUME NEW j \in DOMAIN disk'.projects, NEW i \in DOMAIN projects',
                      disk'.projects[j].id = projects'[i].id,
                      disk'.projects[j].status \in Over, disk'.projects[j].id \notin cut'
               PROVE  Stands(disk'.projects[j], projects'[i])
    BY Zenon DEF Recorded
  <2>1. CASE projects' = disk'.projects
    <3>1. IsList(projects')
      BY <1>1
    <3>2. i = j /\ projects'[i] \in Project
      BY <2>1, <3>1, ListIs
    <3> QED
      BY <2>1, <3>2, StandsOn
  <2>2. CASE projects' = ps /\ disk'.projects = disk.projects
    BY <2>2, StandsInNext
  <2> QED
    BY <2>1, <2>2
<1>7. RecordsStep
  <2> SUFFICES ASSUME NEW j \in DOMAIN disk.projects, NEW i \in DOMAIN disk'.projects,
                      disk.projects[j].id = disk'.projects[i].id,
                      disk.projects[j].status \in Over, disk.projects[j].id \notin cut
               PROVE  Stands(disk.projects[j], disk'.projects[i])
    <3> SUFFICES ASSUME NEW p \in ToSet(disk.projects), NEW q \in ToSet(disk'.projects),
                        p.id = q.id, p.status \in Over, p.id \notin cut
                 PROVE  Stands(p, q)
      BY Zenon DEF RecordsStep, Stands, Over
    <3> QED
      BY DEF ToSet
  <2>1. CASE disk'.projects = disk.projects
    <3>1. i = j
      BY <1>1, <2>1, ListIs
    <3> QED
      BY <1>2, <2>1, <3>1, StandsOn
  <2>2. CASE disk'.projects = ps
    BY <2>2, StandsInNext
  <2> QED
    BY <2>1, <2>2
<1>8. CompletedStep
  <2> SUFFICES ASSUME NEW k \in DOMAIN projects, NEW i \in DOMAIN projects',
                      projects[k].id = projects'[i].id, projects[k].status = "active"
               PROVE  projects'[i].status = "active"
    BY DEF CompletedStep, Completed, ToSet
  <2>1. IsList(projects') /\ ActiveIds(projects') = ActiveIds(projects)
    BY <1>1, <1>3
  <2>2. projects[k].id \in ActiveIds(projects')
    BY <2>1 DEF ActiveIds
  <2>3. PICK m \in DOMAIN projects' : /\ projects'[m].status = "active"
                                      /\ projects'[m].id = projects[k].id
    BY <2>2 DEF ActiveIds
  <2> QED
    BY <2>1, <2>3, ListIs
<1> QED
  BY <1>4, <1>5, <1>6, <1>7, <1>8

\* The active project of a list that follows is that of the event.
LEMMA FollowerOwns ==
  ASSUME ProjectsInv, NEW ps, Follows(ps), NEW r, r.event = room.event
  PROVE  Owns(ps, r)
<1>1. IsList(ps) /\ IsList(projects) /\ Owns(projects, room)
  BY DEF Follows, ProjectsInv, ProjectsTypeOK, ActiveProjectOwnsTheEvent
<1>2. ASSUME NEW i \in DOMAIN ps, ps[i].status = "active"
      PROVE  ps[i].event = r.event
  BY <1>1, <1>2 DEF Follows, Owns
<1>3. ASSUME NEW i \in DOMAIN ps, NEW j \in DOMAIN ps,
             ps[i].status = "active", ps[j].status = "active"
      PROVE  i = j
  <2>1. PICK k \in DOMAIN projects : projects[k].id = ps[i].id /\ projects[k].status = "active"
    BY <1>3 DEF Follows
  <2>2. PICK m \in DOMAIN projects : projects[m].id = ps[j].id /\ projects[m].status = "active"
    BY <1>3 DEF Follows
  <2>3. k = m
    BY <1>1, <2>1, <2>2 DEF Owns
  <2> QED
    BY <1>1, <2>1, <2>2, <2>3, ListIs
<1> QED
  BY <1>2, <1>3 DEF Owns

\* The invariant and the action properties hold of such a step.
LEMMA StepKept ==
  ASSUME ProjectsInv, NEW r, RunsOn(r), NEW ps, Follows(ps), Left(r, ps), Advances,
         Provided(projects'), Provided(disk'.projects)
  PROVE  ProjectsInv' /\ CompletedStep /\ RecordsStep
<1> USE DEF ProjectsInv
<1>1. /\ disk'.room \in {disk.room, r} /\ room' \in {r, disk'.room}
      /\ disk'.projects \in {disk.projects, ps} /\ projects' \in {ps, disk'.projects}
      /\ disk' = Stored(disk'.room, disk'.projects, disk'.files)
  BY DEF Left
<1>2. /\ ActiveIds(projects)' = ActiveIds(disk.projects)' /\ Listed' /\ Recorded'
      /\ RecordsStep /\ CompletedStep
  BY <1>1, ListsAgree DEF Advances
<1>3. IsList(ps) /\ IsList(disk.projects) /\ r \in Room /\ disk.room \in Room
  BY DEF Follows, ProjectsTypeOK, RunsOn
<1>4. ProjectsTypeOK'
  <2>1. room' \in Room /\ disk'.room \in Room /\ IsList(projects') /\ IsList(disk'.projects)
    BY <1>1, <1>3
  <2>2. disk'.projects \in Seq(Project)
    BY <2>1 DEF IsList
  <2>3. disk' \in [room : Room, projects : Seq(Project), files : [Id -> File]]
    BY <1>1, <2>1, <2>2 DEF Stored, Advances
  <2>4. IsList(projects)' /\ IsList(disk.projects)'
    BY <2>1 DEF IsList
  <2> QED
    BY <2>1, <2>3, <2>4 DEF ProjectsTypeOK, Advances, Left, Hosts, Named
<1>5. Given'
  <2>1. fresh.id <= fresh'.id /\ fresh.id \in Nat /\ fresh'.id \in Nat
    BY ProjectsAssumption DEF Advances, ProjectsTypeOK
  <2>2. fresh.stage <= fresh'.stage /\ fresh.stage \in Nat /\ fresh'.stage \in Nat
    BY ProjectsAssumption DEF Advances, ProjectsTypeOK
  <2>3. \A i \in DOMAIN disk.projects : disk.projects[i].id < fresh'.id
    <3>1. \A i \in DOMAIN disk.projects : disk.projects[i].id \in Nat
      BY <1>3, ListIs DEF Project, Id
    <3> QED
      BY <2>1, <3>1 DEF Given, Before
  <2>4. disk.room.stage < fresh'.stage
    <3>1. disk.room.stage \in Nat
      BY <1>3 DEF Room
    <3> QED
      BY <2>2, <3>1 DEF Given
  <2>5. r.stage < fresh'.stage /\ \A i \in DOMAIN ps : ps[i].id < fresh'.id
    BY DEF RunsOn, Follows
  <2>7. room'.event < fresh'.id /\ disk'.room.event < fresh'.id
    <3>1. room.event \in Nat /\ disk.room.event \in Nat /\ r.event = room.event
      BY <1>3 DEF Room, ProjectsTypeOK, RunsOn
    <3>2. room.event < fresh'.id /\ disk.room.event < fresh'.id
      BY <2>1, <3>1 DEF Given
    <3> QED
      BY <1>1, <3>1, <3>2
  <2>6. /\ \A i \in DOMAIN projects' : projects'[i].id < fresh'.id
        /\ \A i \in DOMAIN disk'.projects : disk'.projects[i].id < fresh'.id
        /\ room'.stage < fresh'.stage /\ disk'.room.stage < fresh'.stage
    BY <1>1, <2>3, <2>4, <2>5
  <2> QED
    BY <2>6, <2>7 DEF Given, Before, Advances
<1>6. Rests(room)' /\ Rests(disk.room)'
  <2>1. Rests(r) /\ Rests(disk.room)
    BY DEF RunsOn
  <2>2. Rests(room') /\ Rests(disk'.room)
    BY <1>1, <2>1
  <2> QED
    BY <2>2 DEF Rests
<1>7. Agree'
  <2>1. room'.event = disk'.room.event
    BY <1>1 DEF Agree, RunsOn
  <2> QED
    BY <1>2, <2>1 DEF Agree
<1>8. ActiveProjectOwnsTheEvent'
  <2>1. room'.event = room.event /\ disk'.room.event = room.event
    BY <1>1 DEF Agree, RunsOn
  <2>2. Owns(ps, room') /\ Owns(ps, disk'.room)
    BY <2>1, FollowerOwns
  <2>3. Owns(disk.projects, room') /\ Owns(disk.projects, disk'.room)
    BY <2>1 DEF ActiveProjectOwnsTheEvent, Owns, Agree
  <2>4. Owns(projects', room') /\ Owns(disk'.projects, disk'.room)
    BY <1>1, <2>2, <2>3
  <2> QED
    BY <2>4 DEF ActiveProjectOwnsTheEvent, Owns
<1>9. HaveFiles(projects)' /\ ListedProjectsHaveTheirFiles'
  BY DEF Provided, HaveFiles, ListedProjectsHaveTheirFiles, Usable
<1>10. Hosts'
  BY DEF Advances
<1> QED
  BY <1>2, <1>4, <1>5, <1>6, <1>7, <1>8, <1>9, <1>10

\* The room as it is runs on.
LEMMA RoomRunsOn ==
  ASSUME ProjectsInv, Advances
  PROVE  RunsOn(room)
<1>1. room \in Room /\ room.stage \in Nat
  BY DEF ProjectsInv, ProjectsTypeOK, Room
<1>2. fresh.stage \in Nat /\ fresh'.stage \in Nat /\ fresh.stage <= fresh'.stage
  BY ProjectsAssumption DEF ProjectsInv, ProjectsTypeOK, Advances
<1> QED
  BY <1>1, <1>2 DEF RunsOn, ProjectsInv, Given

\* A list with the same projects in the same places follows.
LEMMA SamePlacesFollow ==
  ASSUME ProjectsInv, Advances, NEW ps, IsList(ps), DOMAIN ps = DOMAIN projects,
         \A i \in DOMAIN projects :
           /\ ps[i].id = projects[i].id /\ ps[i].event = projects[i].event
           /\ ps[i].status = "active" <=> projects[i].status = "active"
           /\ projects[i].status \in Over => Stands(projects[i], ps[i])
  PROVE  Follows(ps)
<1>1. IsList(projects)
  BY DEF ProjectsInv, ProjectsTypeOK
<1>2. \A i \in DOMAIN ps : ps[i].id < fresh'.id
  <2>1. \A i \in DOMAIN projects : projects[i].id < fresh.id /\ projects[i].id \in Nat
    BY <1>1, ListIs DEF ProjectsInv, Given, Before, Project, Id
  <2>2. fresh.id \in Nat /\ fresh'.id \in Nat /\ fresh.id <= fresh'.id
    BY ProjectsAssumption DEF ProjectsInv, ProjectsTypeOK, Advances
  <2> QED
    BY <2>1, <2>2
<1>3. ActiveIds(projects) \subseteq ActiveIds(ps)
  BY DEF ActiveIds
<1>4. \A i \in DOMAIN ps : ps[i].status = "active" =>
        \E k \in DOMAIN projects : /\ projects[k].id = ps[i].id /\ projects[k].status = "active"
                                   /\ projects[k].event = ps[i].event
  BY Zenon
<1>5. Ids(projects) \subseteq Ids(ps)
  BY DEF Ids
<1>6. ASSUME NEW k \in DOMAIN projects, NEW i \in DOMAIN ps,
             projects[k].id = ps[i].id, projects[k].status \in Over
      PROVE  Stands(projects[k], ps[i])
  <2>1. k = i
    BY <1>1, <1>6, ListIs
  <2> QED
    BY <1>6, <2>1
<1> QED
  BY <1>2, <1>3, <1>4, <1>5, <1>6 DEF Follows

\* The list as it is follows; and so does the one that is brought up to date.
LEMMA SyncedFollows ==
  ASSUME ProjectsInv, Advances, NEW r \in Room
  PROVE  Follows(projects) /\ Follows(Synced(projects, r))
<1>1. IsList(projects) /\ \A i \in DOMAIN projects : projects[i] \in Project
  BY ListIs DEF ProjectsInv, ProjectsTypeOK
<1>2. Follows(projects)
  BY <1>1, SamePlacesFollow, StandsOn
<1> DEFINE ps == Synced(projects, r)
<1>3. /\ IsList(ps) /\ DOMAIN ps = DOMAIN projects
      /\ \A i \in DOMAIN projects :
           /\ ps[i] = [projects[i] EXCEPT !.results = ps[i].results]
           /\ projects[i].status # "active" => ps[i] = projects[i]
  BY <1>1, SyncedGives
<1> HIDE DEF ps
<1>4. ASSUME NEW i \in DOMAIN projects
      PROVE  /\ ps[i].id = projects[i].id /\ ps[i].event = projects[i].event
             /\ ps[i].status = "active" <=> projects[i].status = "active"
             /\ projects[i].status \in Over => Stands(projects[i], ps[i])
  <2>1. projects[i].status \in Over => projects[i].status # "active"
    BY DEF Over
  <2>2. ps[i].id = projects[i].id /\ ps[i].event = projects[i].event
        /\ ps[i].status = projects[i].status
    BY <1>1, <1>3 DEF Project
  <2> QED
    BY <1>1, <1>3, <2>1, <2>2, StandsOn
<1>5. Follows(ps)
  BY <1>3, <1>4, SamePlacesFollow
<1> QED
  BY <1>2, <1>5 DEF ps

\* A list has its files when it names those of one that has them, and no files
\* are touched.
LEMMA SameFilesProvide ==
  ASSUME ProjectsInv, cut \subseteq cut', disk'.files = disk.files
  PROVE  /\ Provided(projects) /\ Provided(disk.projects)
         /\ \A r \in Room : Provided(Synced(projects, r))
<1>1. Provided(projects) /\ Provided(disk.projects)
  BY DEF Provided, ProjectsInv, HaveFiles, ListedProjectsHaveTheirFiles, Usable
<1>2. ASSUME NEW r \in Room
      PROVE  Provided(Synced(projects, r))
  <2> DEFINE ps == Synced(projects, r)
  <2>0. IsList(projects)
    BY DEF ProjectsInv, ProjectsTypeOK
  <2>1. /\ DOMAIN ps = DOMAIN projects
        /\ \A i \in DOMAIN projects : ps[i] = [projects[i] EXCEPT !.results = ps[i].results]
        /\ \A i \in DOMAIN projects : projects[i] \in Project
    BY <2>0, SyncedGives, ListIs
  <2> HIDE DEF ps
  <2>2. \A i \in DOMAIN projects : ps[i].id = projects[i].id /\ ps[i].file = projects[i].file
    BY <2>1 DEF Project
  <2>3. Provided(ps)
    BY <1>1, <2>1, <2>2 DEF Provided
  <2> QED
    BY <2>3 DEF ps
<1> QED
  BY <1>1, <1>2

\* What is hosted stays.
LEMMA SameHosted == ASSUME ProjectsInv, UNCHANGED hosted PROVE Hosts'
BY DEF ProjectsInv, Hosts, Named

\* Nothing but room, projects, storage and what is hosted changes.
LEMMA QuietAdvances ==
  ASSUME ProjectsInv, Hosts', Waiting, cut' = cut, package' = package, disk'.files = disk.files,
         fresh' \in [id : 1..MaxId + 1, stage : 1..MaxStage + 1],
         fresh.id <= fresh'.id, fresh.stage <= fresh'.stage
  PROVE  Advances
<1>1. upload' \in File /\ cut' \subseteq Id /\ disk'.files \in [Id -> File]
  BY DEF ProjectsInv, ProjectsTypeOK, Waiting, File
<1>2. package' \in Project \cup {None} /\ (package' # None => package'.id < fresh'.id)
  <2>1. package \in Project \cup {None} /\ (package # None => package.id < fresh.id)
    BY DEF ProjectsInv, ProjectsTypeOK, Given
  <2>2. package # None => package.id \in Nat
    BY <2>1 DEF Project, Id
  <2>3. fresh.id \in Nat /\ fresh'.id \in Nat
    BY ProjectsAssumption DEF ProjectsInv, ProjectsTypeOK
  <2> QED
    BY <2>1, <2>2, <2>3
<1> QED
  BY <1>1, <1>2 DEF Advances

\* A step that leaves the room r and the projects brought up to date with it.
LEMMA PersistKept ==
  ASSUME ProjectsInv, Hosts', NEW r, RunsOn(r), Persist(r), Waiting,
         cut' = cut, package' = package,
         fresh' \in [id : 1..MaxId + 1, stage : 1..MaxStage + 1],
         fresh.id <= fresh'.id, fresh.stage <= fresh'.stage
  PROVE  ProjectsInv' /\ CompletedStep /\ RecordsStep
<1> DEFINE ps == Synced(projects, r)
<1>1. Left(r, ps) /\ disk'.files = disk.files
  BY PersistLeaves DEF ProjectsInv
<1>2. Advances
  BY <1>1, QuietAdvances
<1>3. r \in Room
  BY DEF RunsOn
<1>4. Follows(ps)
  BY <1>2, <1>3, SyncedFollows
<1>5. Provided(ps) /\ Provided(disk.projects)
  BY <1>1, <1>3, SameFilesProvide
<1> HIDE DEF ps
<1>6. Provided(projects') /\ Provided(disk'.projects)
  BY <1>1, <1>5 DEF Left
<1> QED
  BY <1>1, <1>2, <1>4, <1>6, StepKept

-----------------------------------------------------------------------------
(* The race in the room *)

\* What each step is shown to keep.
Kept == ProjectsInv' /\ CompletedStep /\ RecordsStep

\* A race starts on a stage that has not been given out.
LEMMA StartRaceKept == ASSUME ProjectsInv, StartRace PROVE Kept
<1> DEFINE r == [room EXCEPT !.phase = "race", !.stage = fresh.stage]
<1>1. /\ room \in Room /\ fresh \in [id : 1..MaxId + 1, stage : 1..MaxStage + 1]
      /\ fresh.stage <= MaxStage /\ fresh' = [fresh EXCEPT !.stage = @ + 1]
  BY DEF ProjectsInv, ProjectsTypeOK, StartRace
<1>2. /\ fresh.stage \in Nat /\ fresh'.stage = fresh.stage + 1 /\ fresh'.id = fresh.id
      /\ fresh' \in [id : 1..MaxId + 1, stage : 1..MaxStage + 1]
      /\ fresh.id <= fresh'.id /\ fresh.stage <= fresh'.stage
      /\ fresh.stage \in 0..MaxStage
  BY <1>1, ProjectsAssumption
<1>3. /\ r \in Room /\ r.event = room.event /\ r.stage = fresh.stage
      /\ r.phase = "race"
  BY <1>1, <1>2, Zenon DEF Room
<1>4. Persist(r) /\ Waiting /\ cut' = cut /\ package' = package /\ Hosts'
  BY SameHosted DEF StartRace
<1> HIDE DEF r
<1>5. RunsOn(r)
  BY <1>2, <1>3 DEF RunsOn, Rests
<1> QED
  BY <1>2, <1>4, <1>5, PersistKept DEF Kept

\* A step that changes the room as RunsOn allows and gives nothing out.
LEMMA RoomStepKept ==
  ASSUME ProjectsInv, Hosts', NEW r \in Room, Persist(r), Waiting,
         UNCHANGED <<package, fresh, cut>>,
         r.event = room.event, Rests(r), r.stage # 0 => r.stage = room.stage
  PROVE  Kept
<1>1. fresh \in [id : 1..MaxId + 1, stage : 1..MaxStage + 1] /\ room.stage < fresh.stage
  BY DEF ProjectsInv, ProjectsTypeOK, Given
<1>2. fresh.id \in Nat /\ fresh.stage \in Nat /\ 0 < fresh.stage
  BY <1>1, ProjectsAssumption
<1>3. fresh.id <= fresh'.id /\ fresh.stage <= fresh'.stage
  BY <1>2
<1>4. r.stage < fresh'.stage
  BY <1>1, <1>2
<1>5. RunsOn(r)
  BY <1>4 DEF RunsOn
<1> QED
  BY <1>1, <1>3, <1>5, PersistKept DEF Kept

\* A race finishes with its result in the history.
LEMMA FinishRaceKept == ASSUME ProjectsInv, FinishRace PROVE Kept
<1> DEFINE a == Archived(room, TRUE)
           r == [a EXCEPT !.phase = "finished"]
<1>1. room \in Room
  BY DEF ProjectsInv, ProjectsTypeOK
<1>2. /\ a \in Room /\ a = [room EXCEPT !.history = a.history]
      /\ room.stage # 0 => /\ room.stage \in DOMAIN a.history
                           /\ a.history[room.stage].event = room.event
  BY <1>1, ArchivedGives
<1>3. Persist(r) /\ Waiting /\ UNCHANGED <<package, fresh, cut>> /\ Hosts'
  BY SameHosted DEF FinishRace
<1> HIDE DEF a
<1>4. /\ r \in Room /\ r.event = room.event /\ r.stage = room.stage
      /\ r.phase = "finished" /\ r.history = a.history
  BY <1>1, <1>2 DEF Room
<1> HIDE DEF r
<1>5. Rests(r)
  BY <1>2, <1>4 DEF Rests
<1> QED
  BY <1>3, <1>4, <1>5, RoomStepKept

LEMMA GivePenaltyKept == ASSUME ProjectsInv, GivePenalty PROVE Kept
<1> DEFINE r == [room EXCEPT !.penalties = @ + 1]
<1>1. room \in Room /\ Rests(room) /\ room.penalties < MaxPenalty
  BY DEF ProjectsInv, ProjectsTypeOK, GivePenalty
<1>2. Persist(r) /\ Waiting /\ UNCHANGED <<package, fresh, cut>> /\ Hosts'
  BY SameHosted DEF GivePenalty
<1>3. /\ r \in Room /\ r.event = room.event /\ r.stage = room.stage
      /\ r.phase = room.phase /\ r.history = room.history
  BY <1>1, ProjectsAssumption DEF Room
<1> HIDE DEF r
<1>4. Rests(r)
  BY <1>1, <1>3 DEF Rests
<1> QED
  BY <1>2, <1>3, <1>4, RoomStepKept

\* Back in the lobby the room is in no stage.
LEMMA ToLobbyKept == ASSUME ProjectsInv, ToLobby PROVE Kept
<1> DEFINE a == Archived(room, room.phase = "finished")
           r == [a EXCEPT !.phase = "lobby", !.stage = 0, !.penalties = 0]
<1>1. room \in Room
  BY DEF ProjectsInv, ProjectsTypeOK
<1>2. a \in Room /\ a = [room EXCEPT !.history = a.history]
  BY <1>1, ArchivedGives
<1>3. Persist(r) /\ Waiting /\ UNCHANGED <<package, fresh, cut>> /\ Hosts'
  BY SameHosted DEF ToLobby
<1> HIDE DEF a
<1> DEFINE b == [a EXCEPT !.phase = "lobby"]
           c == [b EXCEPT !.stage = 0]
<1>4. 0 \in 0..MaxStage /\ 0 \in 0..MaxPenalty
  BY ProjectsAssumption
<1>5. b \in Room /\ b.event = room.event /\ b.phase = "lobby"
  BY <1>1, <1>2, Zenon DEF Room
<1>6. r = [c EXCEPT !.penalties = 0]
  BY <1>2 DEF Room
<1> HIDE DEF r, b
<1>7. c \in Room /\ c.event = room.event /\ c.phase = "lobby" /\ c.stage = 0
  BY <1>4, <1>5, Zenon DEF Room
<1> HIDE DEF c
<1>8. r \in Room /\ r.event = room.event /\ r.stage = 0 /\ r.phase = "lobby"
  BY <1>4, <1>6, <1>7, Zenon DEF Room
<1>9. Rests(r)
  BY <1>8 DEF Rests
<1> QED
  BY <1>3, <1>8, <1>9, RoomStepKept

\* The track changes in the lobby only.
LEMMA NewTrackKept ==
  ASSUME ProjectsInv, Hosts', NEW track \in File, CanEdit(room),
         Persist([room EXCEPT !.track = track]), Waiting, UNCHANGED <<package, fresh, cut>>
  PROVE  Kept
<1> DEFINE r == [room EXCEPT !.track = track]
<1>1. room \in Room /\ Rests(room) /\ room.phase = "lobby"
  BY DEF ProjectsInv, ProjectsTypeOK, CanEdit
<1>2. room.stage = 0
  BY <1>1 DEF Rests
<1>3. r \in Room /\ r.event = room.event /\ r.stage = 0 /\ r.phase = "lobby"
  BY <1>1, <1>2 DEF Room
<1>4. Persist(r)
  OBVIOUS
<1> HIDE DEF r
<1>5. Rests(r)
  BY <1>3 DEF Rests
<1> QED
  BY <1>3, <1>4, <1>5, RoomStepKept

\* A step that touches neither storage nor the list in memory; memory may be
\* what is stored.
LEMMA MemoryStepKept ==
  ASSUME ProjectsInv, Hosts', NEW r, UNCHANGED <<disk, package, fresh, cut>>,
         Waiting \/ upload' \in File,
         faults' \in 0..MaxFault, RunsOn(r), NEW ps, Follows(ps), Provided(ps),
         \/ room' = r /\ projects' = ps
         \/ room' = disk.room /\ projects' = disk.projects
  PROVE  Kept
<1>1. upload' \in File
  BY DEF ProjectsInv, ProjectsTypeOK, Waiting, File
<1>2. disk'.files = disk.files
  OBVIOUS
<1>3. Advances
  <2>1. /\ fresh \in [id : 1..MaxId + 1, stage : 1..MaxStage + 1]
        /\ cut \subseteq Id /\ package \in Project \cup {None}
        /\ disk.files \in [Id -> File] /\ (package # None => package.id < fresh.id)
    BY DEF ProjectsInv, ProjectsTypeOK, Given
  <2>2. fresh.id <= fresh'.id /\ fresh.stage <= fresh'.stage
    BY <2>1, ProjectsAssumption
  <2> QED
    BY <1>1, <1>2, <2>1, <2>2 DEF Advances
<1>4. Left(r, ps)
  BY DiskHasParts DEF Left, ProjectsInv, Stored
<1>5. Provided(disk.projects)
  BY <1>2, SameFilesProvide
<1>6. Provided(projects') /\ Provided(disk'.projects)
  BY <1>5
<1> QED
  BY <1>3, <1>4, <1>6, StepKept DEF Kept

-----------------------------------------------------------------------------
(* Projects *)

\* The list with a project added.
LEMMA AppendedIs ==
  ASSUME NEW ps, IsList(ps), Len(ps) < MaximumProjects, NEW p \in Project, p.id \notin Ids(ps)
  PROVE  /\ IsList(Append(ps, p)) /\ Len(ps) + 1 \notin DOMAIN ps
         /\ DOMAIN Append(ps, p) = DOMAIN ps \cup {Len(ps) + 1}
         /\ \A i \in DOMAIN ps : Append(ps, p)[i] = ps[i]
         /\ Append(ps, p)[Len(ps) + 1] = p
<1>1. ps \in Seq(Project) /\ Len(ps) \in Nat /\ DOMAIN ps = 1..Len(ps)
  BY ListIs DEF IsList
<1> DEFINE qs == Append(ps, p)
<1>2. /\ qs \in Seq(Project) /\ Len(qs) = Len(ps) + 1
      /\ \A i \in 1..Len(ps) : qs[i] = ps[i]
      /\ qs[Len(ps) + 1] = p
  BY <1>1, AppendProperties
<1> HIDE DEF qs
<1>3. DOMAIN qs = 1..(Len(ps) + 1)
  BY <1>2, LenProperties
<1>4. DOMAIN qs = DOMAIN ps \cup {Len(ps) + 1} /\ Len(ps) + 1 \notin DOMAIN ps
  BY <1>1, <1>3
<1>5. ASSUME NEW i \in DOMAIN qs, NEW j \in DOMAIN qs, qs[i].id = qs[j].id
      PROVE  i = j
  <2>1. \A k \in DOMAIN ps : ps[k].id # p.id
    BY DEF Ids
  <2>2. \A k, m \in DOMAIN ps : ps[k].id = ps[m].id => k = m
    BY ListIs
  <2> QED
    BY <1>1, <1>2, <1>4, <1>5, <2>1, <2>2
<1>6. Len(qs) <= MaximumProjects
  BY <1>1, <1>2, ProjectsAssumption
<1>7. IsList(qs)
  BY <1>2, <1>5, <1>6 DEF IsList
<1> QED
  BY <1>1, <1>2, <1>4, <1>7 DEF qs

\* A project joins the list under an identifier of its own, its files stored first.
LEMMA NewProjectKept ==
  ASSUME ProjectsInv, Hosts', NEW p \in Project, NEW file \in File, NewProject(p, file), HasRoom,
         Waiting, UNCHANGED package,
         p.status # "active", p.id \notin Ids(projects), p.file \in {None, file},
         fresh' \in [id : 1..MaxId + 1, stage : 1..MaxStage + 1],
         fresh.id <= fresh'.id, fresh.stage <= fresh'.stage, p.id < fresh'.id
  PROVE  Kept
<1>0. PICK ps : ps = Append(projects, p)
  OBVIOUS
<1>1. PICK n \in 0..2, alive \in BOOLEAN :
        /\ Handle(Both(room, ps), <<FilesWith(p.id, file), List(ps)>>, n, alive)
        /\ cut' = IF alive /\ n = 0 THEN cut \cup {p.id} ELSE cut
  BY <1>0 DEF NewProject
<1>2. IsList(projects) /\ Len(projects) < MaximumProjects
  BY DEF ProjectsInv, ProjectsTypeOK, HasRoom
<1>3. /\ IsList(ps) /\ Len(projects) + 1 \notin DOMAIN projects
      /\ DOMAIN ps = DOMAIN projects \cup {Len(projects) + 1}
      /\ \A i \in DOMAIN projects : ps[i] = projects[i]
      /\ ps[Len(projects) + 1] = p
  BY <1>0, <1>2, AppendedIs
<1>4. p.id \in Id
  BY DEF Project
<1>5. /\ Left(room, ps)
      /\ disk'.files = IF n = 0 THEN disk.files ELSE [disk.files EXCEPT ![p.id] = file]
      /\ disk'.projects = IF n = 2 THEN ps ELSE disk.projects
      /\ projects' = IF alive THEN ps ELSE disk'.projects
  <2>1. ProjectsTypeOK
    BY DEF ProjectsInv
  <2>2. Handle(Both(room, ps), <<FilesWith(p.id, file), List(ps)>>, n, alive)
    BY <1>1
  <2>3. PICK id : id = p.id
    OBVIOUS
  <2>4. FilesHandled(ps, id, file, n, alive)
    BY <2>2, <2>3 DEF FilesHandled
  <2>5. FilesLeft(ps, id, file, n, alive)
    BY <1>1, <2>1, <2>4, FilesLeave
  <2> QED
    BY <2>3, <2>5 DEF FilesLeft
<1>6. disk.files \in [Id -> File] /\ cut \subseteq Id
  BY DEF ProjectsInv, ProjectsTypeOK
<1>7. disk'.files \in [Id -> File]
  BY <1>4, <1>5, <1>6
<1>8. Advances
  <2>1. upload' \in File /\ cut \subseteq cut' /\ cut' \subseteq Id
    BY <1>1, <1>4, <1>6 DEF ProjectsInv, ProjectsTypeOK, Waiting, File
  <2>2. package \in Project \cup {None} /\ (package # None => package.id < fresh.id)
    BY DEF ProjectsInv, ProjectsTypeOK, Given
  <2>3. package # None => package.id \in Nat
    BY <2>2 DEF Project, Id
  <2>4. fresh.id \in Nat /\ fresh'.id \in Nat
    BY ProjectsAssumption DEF ProjectsInv, ProjectsTypeOK
  <2>5. package' \in Project \cup {None} /\ (package' # None => package'.id < fresh'.id)
    BY <2>2, <2>3, <2>4
  <2> QED
    BY <1>7, <2>1, <2>5 DEF Advances
<1>9. Follows(projects)
  BY <1>8, SyncedFollows DEF ProjectsInv, ProjectsTypeOK
<1>10. Follows(ps)
  <2>1. \A i \in DOMAIN ps : ps[i].id < fresh'.id
    BY <1>3, <1>9 DEF Follows
  <2>2. ActiveIds(projects) \subseteq ActiveIds(ps) /\ Ids(projects) \subseteq Ids(ps)
    BY <1>3 DEF ActiveIds, Ids
  <2>3. \A i \in DOMAIN ps : ps[i].status = "active" =>
          \E k \in DOMAIN projects : /\ projects[k].id = ps[i].id /\ projects[k].status = "active"
                                     /\ projects[k].event = ps[i].event
    BY <1>3, Zenon
  <2>4. ASSUME NEW k \in DOMAIN projects, NEW i \in DOMAIN ps,
               projects[k].id = ps[i].id, projects[k].status \in Over
        PROVE  Stands(projects[k], ps[i])
    <3>1. i \in DOMAIN projects
      BY <1>3, <2>4 DEF Ids
    <3> QED
      BY <1>3, <1>9, <2>4, <3>1 DEF Follows
  <2> QED
    BY <1>3, <2>1, <2>2, <2>3, <2>4 DEF Follows
<1>11. ASSUME NEW i \in DOMAIN projects
       PROVE  \/ projects[i].file = None \/ disk'.files[projects[i].id] = projects[i].file
              \/ projects[i].id \in cut'
  <2>1. projects[i].id # p.id
    BY DEF Ids
  <2>2. Usable(projects[i]) \/ projects[i].id \in cut
    BY DEF ProjectsInv, HaveFiles
  <2> QED
    BY <1>1, <1>5, <1>6, <2>1, <2>2 DEF Usable
<1>12. ASSUME NEW i \in DOMAIN disk.projects
       PROVE  \/ disk.projects[i].file = None
              \/ disk'.files[disk.projects[i].id] = disk.projects[i].file
              \/ disk.projects[i].id \in cut'
  <2>1. Usable(disk.projects[i]) \/ disk.projects[i].id \in cut
    BY DEF ProjectsInv, ListedProjectsHaveTheirFiles
  <2>2. disk.projects[i].id = p.id => disk.projects[i].id \in cut
    BY DEF ProjectsInv, Listed, Ids
  <2> QED
    BY <1>1, <1>5, <1>6, <2>1, <2>2 DEF Usable
<1>13. Provided(disk.projects)
  BY <1>12 DEF Provided
<1>14. n # 0 \/ alive => Provided(ps)
  <2>1. n # 0 \/ alive => \/ p.file = None \/ disk'.files[p.id] = p.file \/ p.id \in cut'
    BY <1>1, <1>4, <1>5, <1>6
  <2> QED
    BY <1>3, <1>11, <2>1 DEF Provided
<1>15. Provided(projects') /\ Provided(disk'.projects)
  BY <1>5, <1>13, <1>14
<1>16. RunsOn(room)
  BY <1>8, RoomRunsOn
<1> QED
  BY <1>5, <1>8, <1>10, <1>15, <1>16, StepKept DEF Kept

\* Taking an identifier.
LEMMA TakeIdGives ==
  ASSUME ProjectsInv, TakeId
  PROVE  /\ fresh.id \in Id /\ fresh.id \notin Ids(projects)
         /\ fresh' \in [id : 1..MaxId + 1, stage : 1..MaxStage + 1]
         /\ fresh.id <= fresh'.id /\ fresh.stage <= fresh'.stage /\ fresh.id < fresh'.id
<1>1. fresh \in [id : 1..MaxId + 1, stage : 1..MaxStage + 1]
  BY DEF ProjectsInv, ProjectsTypeOK
<1>2. fresh.id \in 1..MaxId /\ fresh'.id = fresh.id + 1 /\ fresh'.stage = fresh.stage
  BY <1>1 DEF TakeId, Id
<1>3. fresh' = [id |-> fresh.id + 1, stage |-> fresh.stage]
  BY <1>1 DEF TakeId
<1>4. fresh.id + 1 \in 1..MaxId + 1 /\ fresh.stage \in Nat /\ fresh.id \in Nat
  BY <1>1, <1>2, ProjectsAssumption
<1>5. fresh' \in [id : 1..MaxId + 1, stage : 1..MaxStage + 1]
  BY <1>1, <1>3, <1>4
<1>6. fresh.id \notin Ids(projects)
  <2>1. IsList(projects) /\ \A i \in DOMAIN projects : projects[i].id < fresh.id
    BY DEF ProjectsInv, ProjectsTypeOK, Given, Before
  <2>2. \A i \in DOMAIN projects : projects[i].id \in Nat
    BY <2>1, ListIs DEF Project, Id
  <2>3. \A i \in DOMAIN projects : projects[i].id # fresh.id
    BY <1>4, <2>1, <2>2
  <2> QED
    BY <2>3 DEF Ids
<1> QED
  BY <1>2, <1>4, <1>5, <1>6 DEF Id

\* A draft is a project.
LEMMA DraftIs ==
  ASSUME NEW id \in Id, NEW track \in File, NEW file \in {None, track}
  PROVE  /\ Draft(id, track, file) \in Project /\ Draft(id, track, file).id = id
         /\ Draft(id, track, file).status # "active" /\ Draft(id, track, file).file = file
<1>1. file \in File /\ NoResults \in Results /\ NoEvent \in 0..MaxId
  BY NoResultsYet, ProjectsAssumption DEF File, NoEvent
<1> QED
  BY <1>1 DEF Draft, Project, Status

\* What is hosted is taken for the file of the room's track only if it is.
LEMMA MatchingIs ==
  ASSUME ProjectsInv
  PROVE  room.track \in File /\ MatchingFile \in {None, room.track} /\ MatchingFile \in File
BY DEF ProjectsInv, ProjectsTypeOK, Room, Hosts, Named, MatchingFile, File

\* A new project takes the next identifier, and the track of the room.
LEMMA CreateKept == ASSUME ProjectsInv, Create PROVE Kept
<1> DEFINE p == Draft(fresh.id, room.track, MatchingFile)
<1>1. HasRoom /\ TakeId /\ Waiting /\ UNCHANGED package /\ NewProject(p, MatchingFile) /\ Hosts'
  BY SameHosted DEF Create
<1>2. room.track \in File /\ MatchingFile \in {None, room.track} /\ MatchingFile \in File
  BY MatchingIs
<1>3. p \in Project /\ p.id = fresh.id /\ p.status # "active" /\ p.file = MatchingFile
  BY <1>1, <1>2, DraftIs, TakeIdGives
<1> HIDE DEF p
<1> QED
  BY <1>1, <1>2, <1>3, TakeIdGives, NewProjectKept

\* So does a copy, with the files of the original.
LEMMA CopyKept == ASSUME ProjectsInv, NEW i \in DOMAIN projects, Copy(i) PROVE Kept
<1>1. projects[i] \in Project
  BY ListIs DEF ProjectsInv, ProjectsTypeOK
<1> DEFINE p == Draft(fresh.id, projects[i].track, projects[i].file)
           file == disk.files[projects[i].id]
<1>2. /\ HasRoom /\ TakeId /\ Waiting /\ UNCHANGED package /\ Hosts'
      /\ NewProject(p, file) /\ Usable(projects[i])
  BY SameHosted DEF Copy
<1>3. /\ projects[i].track \in File /\ projects[i].id \in Id /\ file \in File
      /\ projects[i].file \in {None, projects[i].track}
  BY <1>1 DEF ProjectsInv, ProjectsTypeOK, Project
<1>4. p \in Project /\ p.id = fresh.id /\ p.status # "active" /\ p.file = projects[i].file
  BY <1>2, <1>3, DraftIs, TakeIdGives
<1>5. p.file \in {None, file}
  BY <1>2, <1>4 DEF Usable
<1> HIDE DEF p, file
<1> QED
  BY <1>2, <1>3, <1>4, <1>5, TakeIdGives, NewProjectKept

\* An imported package keeps its identifier unless that is taken.
LEMMA ImportKept == ASSUME ProjectsInv, Import PROVE Kept
<1> DEFINE taken == package.id \in Ids(projects)
           id == IF taken THEN fresh.id ELSE package.id
           status == IF package.results # NoResults THEN "completed" ELSE "draft"
           p == [package EXCEPT !.id = id, !.status = status]
<1>1. /\ package # None /\ HasRoom /\ Waiting /\ UNCHANGED package /\ Hosts'
      /\ IF taken THEN TakeId ELSE UNCHANGED fresh
      /\ NewProject(p, package.file)
  BY SameHosted DEF Import
<1>2. package \in Project /\ package.id < fresh.id
  BY <1>1 DEF ProjectsInv, ProjectsTypeOK, Given
<1>3. fresh \in [id : 1..MaxId + 1, stage : 1..MaxStage + 1]
  BY DEF ProjectsInv, ProjectsTypeOK
<1>4. /\ id \in Id /\ id \notin Ids(projects) /\ id < fresh'.id
      /\ fresh' \in [id : 1..MaxId + 1, stage : 1..MaxStage + 1]
      /\ fresh.id <= fresh'.id /\ fresh.stage <= fresh'.stage
  <2>1. CASE taken
    BY <1>1, <2>1, TakeIdGives
  <2>2. CASE ~taken
    BY <1>1, <1>2, <1>3, <2>2, ProjectsAssumption DEF Project
  <2> QED
    BY <2>1, <2>2
<1>5. status \in Status /\ status # "active"
  BY DEF Status
<1> HIDE DEF id, status
<1>6. /\ p \in Project /\ p.id = id /\ p.status = status /\ p.file = package.file
      /\ package.file \in File
  BY <1>2, <1>4, <1>5 DEF Project
<1> HIDE DEF p
<1> QED
  BY <1>1, <1>4, <1>5, <1>6, NewProjectKept

\* A handler that stores a list that follows, and touches no files.
LEMMA ListStepKept ==
  ASSUME ProjectsInv, Hosts', NEW ps, ListLeft(ps), Waiting, cut' = cut, fresh' = fresh,
         package' \in Project \cup {None}, package' # None => package'.id < fresh.id,
         Advances => Follows(ps), cut \subseteq cut' /\ disk'.files = disk.files => Provided(ps)
  PROVE  Kept
<1>1. Left(room, ps) /\ disk'.files = disk.files
  BY DEF ListLeft
<1>2. Advances
  <2>1. /\ fresh \in [id : 1..MaxId + 1, stage : 1..MaxStage + 1]
        /\ cut \subseteq Id /\ disk.files \in [Id -> File] /\ upload \in File
    BY DEF ProjectsInv, ProjectsTypeOK
  <2>2. fresh.id <= fresh'.id /\ fresh.stage <= fresh'.stage
    BY <2>1, ProjectsAssumption
  <2> QED
    BY <1>1, <2>1, <2>2 DEF Advances, Waiting, File
<1>3. Provided(ps) /\ Provided(disk.projects)
  BY <1>1, SameFilesProvide
<1>4. Provided(projects') /\ Provided(disk'.projects)
  BY <1>1, <1>3 DEF Left
<1>5. RunsOn(room)
  BY <1>2, RoomRunsOn
<1> QED
  BY <1>1, <1>2, <1>4, <1>5, StepKept DEF Kept

\* A project of a list, its identifier still to be exceeded.
LEMMA ListedIs ==
  ASSUME ProjectsInv, NEW i \in DOMAIN projects
  PROVE  /\ IsList(projects) /\ projects[i] \in Project /\ projects[i].id < fresh.id
         /\ projects[i].id \in Id /\ (Usable(projects[i]) \/ projects[i].id \in cut)
BY ListIs DEF ProjectsInv, ProjectsTypeOK, Given, Before, Project, HaveFiles

\* An export stores the list it has brought up to date, if that changed it.
LEMMA ExportKept == ASSUME ProjectsInv, NEW i \in DOMAIN projects, Export(i) PROVE Kept
<1>0. PICK ps : ps = Synced(projects, room)
  OBVIOUS
<1> DEFINE writes == IF ps # projects THEN <<List(ps)>> ELSE << >>
<1>1. PICK n \in 0..Len(writes), alive \in BOOLEAN :
        /\ Handle(Both(room, ps), writes, n, alive)
        /\ package' = IF /\ package = None /\ upload = None
                         /\ n = Len(writes) /\ alive /\ Usable(ps[i])
                      THEN ps[i] ELSE package
  BY <1>0 DEF Export
<1>2. Waiting /\ UNCHANGED <<fresh, cut>> /\ Hosts'
  BY SameHosted DEF Export
<1>3. room \in Room /\ ProjectsTypeOK /\ IsList(projects)
  BY DEF ProjectsInv, ProjectsTypeOK
<1>4. ListLeft(ps)
  <2>1. CASE ps # projects
    <3>1. n \in 0..1 /\ ListHandled(ps, n, alive)
      BY <1>1, <2>1 DEF ListHandled
    <3> QED
      BY <1>1, <1>3, <3>1, ListLeaves
  <2>2. CASE ps = projects
    <3>1. n = 0 /\ Handle(Both(room, ps), << >>, 0, alive)
      BY <1>1, <2>2
    <3>2. disk' = disk
      BY <1>3, <3>1, NothingWritten DEF Handle
    <3>3. room' \in {room, disk'.room} /\ projects' \in {ps, disk'.projects}
      BY <3>1 DEF Handle, Both
    <3>4. faults' \in 0..MaxFault
      BY <1>3, <3>1, ProjectsAssumption DEF Handle, ProjectsTypeOK
    <3> QED
      BY <1>3, <3>2, <3>3, <3>4, DiskHasParts DEF ListLeft, Left, Stored
  <2> QED
    BY <2>1, <2>2
<1>5. ps[i] \in Project /\ ps[i].id < fresh.id
  <2>1. /\ IsList(ps) /\ i \in DOMAIN ps
        /\ ps[i] = [projects[i] EXCEPT !.results = ps[i].results]
    BY <1>0, <1>3, SyncedGives
  <2>2. ps[i].id = projects[i].id
    BY <2>1, ListedIs DEF Project
  <2> QED
    BY <2>1, <2>2, ListedIs, ListIs
<1>6. package' \in Project \cup {None} /\ (package' # None => package'.id < fresh.id)
  <2>1. package \in Project \cup {None} /\ (package # None => package.id < fresh.id)
    BY DEF ProjectsInv, ProjectsTypeOK, Given
  <2> QED
    BY <1>1, <1>5, <2>1
<1>7. Advances => Follows(ps)
  BY <1>0, <1>3, SyncedFollows
<1>8. cut \subseteq cut' /\ disk'.files = disk.files => Provided(ps)
  BY <1>0, <1>3, SameFilesProvide
<1> QED
  BY <1>2, <1>4, <1>6, <1>7, <1>8, ListStepKept

\* A refused request has brought the list up to date in memory only.
LEMMA RefuseArchiveKept ==
  ASSUME ProjectsInv, NEW i \in DOMAIN projects, RefuseArchive(i) PROVE Kept
<1>0. PICK ps : ps = Synced(projects, room)
  OBVIOUS
<1>1. room \in Room /\ ProjectsTypeOK
  BY DEF ProjectsInv, ProjectsTypeOK
<1>2. projects' = ps /\ UNCHANGED <<room, disk, package, upload, fresh, cut, faults>> /\ Hosts'
  BY <1>0, SameHosted DEF RefuseArchive
<1>3. ListLeft(ps)
  BY <1>1, <1>2, DiskHasParts DEF ListLeft, Left, Stored, ProjectsTypeOK
<1>4. package' \in Project \cup {None} /\ (package' # None => package'.id < fresh.id)
  BY <1>2 DEF ProjectsInv, ProjectsTypeOK, Given
<1>5. Waiting
  BY <1>2 DEF Waiting
<1>6. Advances => Follows(ps)
  BY <1>0, <1>1, SyncedFollows
<1>7. cut \subseteq cut' /\ disk'.files = disk.files => Provided(ps)
  BY <1>0, <1>1, SameFilesProvide
<1> QED
  BY <1>2, <1>3, <1>4, <1>5, <1>6, <1>7, ListStepKept

\* A project that is over stays over, and no other project is touched.
LEMMA SetStatusKept ==
  ASSUME ProjectsInv, NEW i \in DOMAIN projects, NEW status \in Over, SetStatus(i, status)
  PROVE  Kept
<1>1. /\ room \in Room /\ ProjectsTypeOK /\ IsList(projects) /\ projects[i] \in Project
      /\ projects[i].status # "active"
  BY ListedIs DEF ProjectsInv, ProjectsTypeOK, SetStatus
<1>2. PICK qs : qs = [projects EXCEPT ![i].status = status]
  OBVIOUS
<1>3. /\ qs = [k \in DOMAIN projects |-> qs[k]]
      /\ qs[i] = [projects[i] EXCEPT !.status = status]
      /\ \A k \in DOMAIN projects : k # i => qs[k] = projects[k]
  BY <1>1, <1>2
<1>4. /\ qs[i] \in Project /\ qs[i].id = projects[i].id /\ qs[i].event = projects[i].event
      /\ qs[i].status = status /\ qs[i].file = projects[i].file
  BY <1>1, <1>3 DEF Project, Over, Status
<1>5. IsList(qs) /\ DOMAIN qs = DOMAIN projects
  <2>1. \A k \in DOMAIN projects : qs[k] \in Project /\ qs[k].id = projects[k].id
    BY <1>1, <1>3, <1>4, ListIs
  <2> QED
    BY <1>1, <1>3, <2>1, ListFrom
<1>6. PICK ps : ps = Synced(qs, room)
  OBVIOUS
<1>7. PICK n \in 0..1, alive \in BOOLEAN : Handle(Both(room, ps), <<List(ps)>>, n, alive)
  BY <1>2, <1>6 DEF SetStatus
<1>8. ListLeft(ps)
  <2>1. ListHandled(ps, n, alive)
    BY <1>7 DEF ListHandled
  <2> QED
    BY <1>1, <1>7, <2>1, ListLeaves
<1>9. /\ IsList(ps) /\ DOMAIN ps = DOMAIN projects
      /\ \A k \in DOMAIN projects :
           /\ ps[k] = [qs[k] EXCEPT !.results = ps[k].results]
           /\ qs[k].status # "active" => ps[k] = qs[k]
  BY <1>1, <1>5, <1>6, SyncedGives
<1>10. ASSUME NEW k \in DOMAIN projects
       PROVE  /\ ps[k].id = projects[k].id /\ ps[k].event = projects[k].event
              /\ ps[k].file = projects[k].file
              /\ ps[k].status = "active" <=> projects[k].status = "active"
              /\ projects[k].status \in Over => Stands(projects[k], ps[k])
  <2>1. projects[k] \in Project /\ qs[k] \in Project
    BY <1>1, <1>5, ListIs
  <2>2. /\ ps[k].id = qs[k].id /\ ps[k].event = qs[k].event /\ ps[k].file = qs[k].file
        /\ ps[k].status = qs[k].status
    BY <1>9, <2>1 DEF Project
  <2>3. CASE k = i
    <3>1. ps[k] = qs[k]
      BY <1>4, <1>9, <2>3 DEF Over
    <3> QED
      BY <1>1, <1>3, <1>4, <2>3, <3>1 DEF Over, Stands
  <2>4. CASE k # i
    <3>1. qs[k] = projects[k]
      BY <1>3, <2>4
    <3>2. projects[k].status \in Over => ps[k] = projects[k]
      BY <1>9, <3>1 DEF Over
    <3> QED
      BY <2>1, <2>2, <3>1, <3>2, StandsOn
  <2> QED
    BY <2>3, <2>4
<1>11. Advances => Follows(ps)
  BY <1>9, <1>10, SamePlacesFollow
<1>12. cut \subseteq cut' /\ disk'.files = disk.files => Provided(ps)
  <2>1. SUFFICES ASSUME cut \subseteq cut', disk'.files = disk.files
                 PROVE  Provided(ps)
    OBVIOUS
  <2>2. Provided(projects)
    BY <2>1, SameFilesProvide
  <2> QED
    BY <1>9, <1>10, <2>2 DEF Provided
<1>13. Waiting /\ UNCHANGED <<package, fresh, cut>> /\ Hosts'
  BY SameHosted DEF SetStatus
<1>14. package' \in Project \cup {None} /\ (package' # None => package'.id < fresh.id)
  BY <1>13 DEF ProjectsInv, ProjectsTypeOK, Given
<1> QED
  BY <1>8, <1>11, <1>12, <1>13, <1>14, ListStepKept

\* The project id of ps names this file, the others name what they did.
Fits(ps, id, file) ==
  \A j \in DOMAIN ps :
    IF ps[j].id = id THEN ps[j].file = file
    ELSE \E k \in DOMAIN projects :
           ps[j].id = projects[k].id /\ ps[j].file = projects[k].file

\* A handler that stores the files of a project and then the list, whose request
\* leaves that project cut when it fails between or before.
LEMMA FilesStepKept ==
  ASSUME ProjectsInv, Hosts', NEW ps, NEW id \in Id, NEW file \in File, NEW n \in 0..2,
         NEW alive \in BOOLEAN, FilesLeft(ps, id, file, n, alive),
         Waiting, UNCHANGED <<package, fresh>>,
         cut' = IF n = 1 \/ (n = 0 /\ alive) THEN cut \cup {id} ELSE cut,
         Advances => Follows(ps), Fits(ps, id, file)
  PROVE  Kept
<1>1. /\ Left(room, ps)
      /\ disk'.files = IF n = 0 THEN disk.files ELSE [disk.files EXCEPT ![id] = file]
      /\ disk'.projects = IF n = 2 THEN ps ELSE disk.projects
      /\ projects' = IF alive THEN ps ELSE disk'.projects
  BY DEF FilesLeft
<1>2. disk.files \in [Id -> File] /\ cut \subseteq Id
  BY DEF ProjectsInv, ProjectsTypeOK
<1>3. disk'.files \in [Id -> File] /\ cut \subseteq cut' /\ cut' \subseteq Id
  BY <1>1, <1>2
<1>4. Advances
  <2>1. /\ fresh \in [id : 1..MaxId + 1, stage : 1..MaxStage + 1] /\ upload \in File
        /\ package \in Project \cup {None} /\ (package # None => package.id < fresh.id)
    BY DEF ProjectsInv, ProjectsTypeOK, Given
  <2>2. fresh.id <= fresh'.id /\ fresh.stage <= fresh'.stage
    BY <2>1, ProjectsAssumption
  <2> QED
    BY <1>3, <2>1, <2>2 DEF Advances, Waiting, File
<1>5. ASSUME n # 2
      PROVE  Provided(disk.projects)
  <2> SUFFICES ASSUME NEW j \in DOMAIN disk.projects
               PROVE  \/ disk.projects[j].file = None
                      \/ disk'.files[disk.projects[j].id] = disk.projects[j].file
                      \/ disk.projects[j].id \in cut'
    BY DEF Provided
  <2>1. Usable(disk.projects[j]) \/ disk.projects[j].id \in cut
    BY DEF ProjectsInv, ListedProjectsHaveTheirFiles
  <2>2. n = 0 \/ n = 1
    BY <1>5
  <2>3. CASE n = 0
    BY <1>1, <1>3, <2>1, <2>3 DEF Usable
  <2>4. CASE n = 1
    BY <1>1, <1>2, <2>1, <2>4 DEF Usable
  <2> QED
    BY <2>2, <2>3, <2>4
<1>6. ASSUME n # 0 \/ alive
      PROVE  Provided(ps)
  <2> SUFFICES ASSUME NEW j \in DOMAIN ps
               PROVE  \/ ps[j].file = None \/ disk'.files[ps[j].id] = ps[j].file
                      \/ ps[j].id \in cut'
    BY DEF Provided
  <2>1. CASE ps[j].id = id
    <3>1. n = 0 \/ n = 1 => id \in cut'
      BY <1>6
    <3>4. ps[j].file = file
      BY <2>1 DEF Fits
    <3>2. n = 2 => disk'.files[id] = file
      BY <1>1, <1>2
    <3> QED
      BY <2>1, <3>1, <3>2, <3>4
  <2>2. CASE ps[j].id # id
    <3>1. PICK k \in DOMAIN projects :
            ps[j].id = projects[k].id /\ ps[j].file = projects[k].file
      BY <2>2 DEF Fits
    <3>2. Usable(projects[k]) \/ projects[k].id \in cut
      BY DEF ProjectsInv, HaveFiles
    <3>3. projects[k].id \in Id
      BY <3>1, ListedIs
    <3>4. disk'.files[projects[k].id] = disk.files[projects[k].id]
      BY <1>1, <1>2, <2>2, <3>1, <3>3
    <3>5. CASE Usable(projects[k])
      BY <3>1, <3>4, <3>5 DEF Usable
    <3>6. CASE projects[k].id \in cut
      BY <1>3, <3>1, <3>6
    <3> QED
      BY <3>2, <3>5, <3>6
  <2> QED
    BY <2>1, <2>2
<1>7. Provided(projects') /\ Provided(disk'.projects)
  BY <1>1, <1>5, <1>6
<1>8. RunsOn(room) /\ Follows(ps)
  BY <1>4, RoomRunsOn
<1> QED
  BY <1>1, <1>4, <1>7, <1>8, StepKept DEF Kept

\* The list with one project replaced that is not over.
LEMMA ReplacedFollows ==
  ASSUME ProjectsInv, NEW i \in DOMAIN projects, NEW p \in Project,
         p.id = projects[i].id, p.event = projects[i].event, p.status = projects[i].status,
         projects[i].status \notin Over, NEW ps, ps = [projects EXCEPT ![i] = p]
  PROVE  /\ DOMAIN ps = DOMAIN projects /\ ps[i] = p
         /\ \A k \in DOMAIN projects : k # i => ps[k] = projects[k]
         /\ Advances => Follows(ps)
<1>1. IsList(projects)
  BY DEF ProjectsInv, ProjectsTypeOK
<1>2. /\ ps = [k \in DOMAIN projects |-> ps[k]] /\ ps[i] = p
      /\ \A k \in DOMAIN projects : k # i => ps[k] = projects[k]
  OBVIOUS
<1>3. \A k \in DOMAIN projects : projects[k] \in Project /\ projects[k].id = ps[k].id
                                 /\ ps[k] \in Project
  BY <1>1, <1>2, ListIs
<1>4. IsList(ps) /\ DOMAIN ps = DOMAIN projects
  BY <1>1, <1>2, <1>3, ListFrom
<1>5. ASSUME NEW k \in DOMAIN projects
      PROVE  /\ ps[k].id = projects[k].id /\ ps[k].event = projects[k].event
             /\ ps[k].status = "active" <=> projects[k].status = "active"
             /\ projects[k].status \in Over => Stands(projects[k], ps[k])
  <2>1. CASE k = i
    BY <1>2, <2>1
  <2>2. CASE k # i
    BY <1>2, <1>3, <2>2, StandsOn
  <2> QED
    BY <2>1, <2>2
<1>6. Advances => Follows(ps)
  BY <1>4, <1>5, SamePlacesFollow
<1> QED
  BY <1>2, <1>4, <1>6

\* captureEventProject takes results and, with the configuration, the track and its
\* file.
LEMMA CapturedIs ==
  ASSUME ProjectsInv, NEW i \in DOMAIN projects, NEW config \in BOOLEAN
  PROVE  LET p == Captured(i, config)
         IN  /\ p \in Project /\ p.id = projects[i].id /\ p.event = projects[i].event
             /\ p.status = projects[i].status
             /\ ~config => p.file = projects[i].file
<1>1. /\ room \in Room /\ projects[i] \in Project
      /\ room.track \in File /\ MatchingFile \in {None, room.track} /\ MatchingFile \in File
  BY ListedIs, MatchingIs DEF ProjectsInv, ProjectsTypeOK
<1> DEFINE q == IF projects[i].status # "active" THEN projects[i]
                ELSE [projects[i] EXCEPT !.results =
                        Merge(projects[i].results, ResultsOf(room, projects[i].event))]
<1>2. /\ q \in Project /\ q.id = projects[i].id /\ q.event = projects[i].event
      /\ q.status = projects[i].status /\ q.file = projects[i].file
  <2> DEFINE h == Merge(projects[i].results, ResultsOf(room, projects[i].event))
  <2>1. h \in Results
    BY <1>1, ResultsOfGives, MergeGives DEF Project
  <2> HIDE DEF h
  <2>2. q = IF projects[i].status # "active" THEN projects[i]
            ELSE [projects[i] EXCEPT !.results = h]
    BY DEF h
  <2> HIDE DEF q
  <2> QED
    BY <1>1, <2>1, <2>2 DEF Project
<1>3. Captured(i, config) = IF config THEN [q EXCEPT !.track = room.track, !.file = MatchingFile]
                              ELSE q
  BY DEF Captured
<1> HIDE DEF q
<1> QED
  BY <1>1, <1>2, <1>3 DEF Project

\* A project that is not over takes the track of the room and its file, an active
\* one its results.
LEMMA CaptureKept ==
  ASSUME ProjectsInv, NEW i \in DOMAIN projects, NEW config \in BOOLEAN, Capture(i, config)
  PROVE  Kept
<1>1. PICK p : p = Captured(i, config)
  OBVIOUS
<1>2. PICK ps : ps = [projects EXCEPT ![i] = p]
  OBVIOUS
<1> DEFINE writes == IF config THEN <<FilesWith(p.id, p.file), List(ps)>> ELSE <<List(ps)>>
<1>3. PICK n \in 0..Len(writes), alive \in BOOLEAN :
        /\ Handle(Both(room, ps), writes, n, alive)
        /\ cut' = IF config /\ (n = 1 \/ (n = 0 /\ alive)) THEN cut \cup {p.id} ELSE cut
  BY <1>1, <1>2 DEF Capture
<1>4. /\ p \in Project /\ p.id = projects[i].id /\ p.event = projects[i].event
      /\ p.status = projects[i].status
      /\ ~config => p.file = projects[i].file
  BY <1>1, CapturedIs
<1>5. projects[i].status \notin Over /\ Waiting /\ UNCHANGED <<package, fresh>> /\ Hosts'
  BY SameHosted DEF Capture, MayCapture, Over
<1>6. /\ DOMAIN ps = DOMAIN projects /\ ps[i] = p
      /\ \A k \in DOMAIN projects : k # i => ps[k] = projects[k]
      /\ Advances => Follows(ps)
  BY <1>2, <1>4, <1>5, ReplacedFollows
<1>7. ProjectsTypeOK
  BY DEF ProjectsInv
<1>8. CASE config
  <2>1. PICK id, file : id = p.id /\ file = p.file
    OBVIOUS
  <2>2. n \in 0..2 /\ FilesHandled(ps, id, file, n, alive)
    BY <1>3, <1>8, <2>1 DEF FilesHandled
  <2>3. FilesLeft(ps, id, file, n, alive)
    BY <1>3, <1>7, <2>2, FilesLeave
  <2>4. id \in Id /\ file \in File
    BY <1>4, <2>1 DEF Project
  <2>5. cut' = IF n = 1 \/ (n = 0 /\ alive) THEN cut \cup {id} ELSE cut
    BY <1>3, <1>8, <2>1
  <2>6. Fits(ps, id, file)
    <3> SUFFICES ASSUME NEW j \in DOMAIN ps
                 PROVE  IF ps[j].id = id THEN ps[j].file = file
                        ELSE \E k \in DOMAIN projects :
                               ps[j].id = projects[k].id /\ ps[j].file = projects[k].file
      BY DEF Fits
    <3>1. CASE j = i
      BY <1>6, <2>1, <3>1
    <3>2. CASE j # i
      <4>1. ps[j] = projects[j] /\ projects[j].id # id
        BY <1>4, <1>6, <2>1, <3>2, ListedIs, ListIs
      <4> QED
        BY <1>6, <4>1
    <3> QED
      BY <3>1, <3>2
  <2> QED
    BY <1>3, <1>5, <1>6, <2>2, <2>3, <2>4, <2>5, <2>6, FilesStepKept
<1>9. CASE ~config
  <2>1. n \in 0..1 /\ ListHandled(ps, n, alive) /\ cut' = cut
    BY <1>3, <1>9 DEF ListHandled
  <2>2. ListLeft(ps)
    BY <1>3, <1>7, <2>1, ListLeaves
  <2>3. package' \in Project \cup {None} /\ (package' # None => package'.id < fresh.id)
    BY <1>5 DEF ProjectsInv, ProjectsTypeOK, Given
  <2>4. ASSUME cut \subseteq cut', disk'.files = disk.files
        PROVE  Provided(ps)
    <3>1. Provided(projects)
      BY <2>4, SameFilesProvide
    <3>2. \A k \in DOMAIN ps : ps[k].id = projects[k].id /\ ps[k].file = projects[k].file
      BY <1>4, <1>6, <1>9
    <3> QED
      BY <1>6, <3>1, <3>2 DEF Provided
  <2> QED
    BY <1>5, <1>6, <2>1, <2>2, <2>3, <2>4, ListStepKept
<1> QED
  BY <1>8, <1>9

\* The list without one project.
LEMMA RemovedIs ==
  ASSUME NEW ps, IsList(ps), NEW i \in DOMAIN ps
  PROVE  LET qs == RemoveAt(ps, i)
         IN  /\ IsList(qs)
             /\ \A j \in DOMAIN qs : \E k \in DOMAIN ps : k # i /\ qs[j] = ps[k]
             /\ \A k \in DOMAIN ps : k # i => \E j \in DOMAIN qs : qs[j] = ps[k]
<1>1. /\ ps \in Seq(Project) /\ Len(ps) \in Nat /\ DOMAIN ps = 1..Len(ps) /\ i \in 1..Len(ps)
      /\ Len(ps) <= MaximumProjects
      /\ \A k \in 1..Len(ps) : ps[k] \in Project
  BY ListIs DEF IsList
<1> DEFINE before == SubSeq(ps, 1, i - 1)
           after == SubSeq(ps, i + 1, Len(ps))
           qs == before \o after
<1>2. /\ before \in Seq(Project) /\ Len(before) = i - 1
      /\ \A k \in 1..(i - 1) : before[k] = ps[k]
  <2>1. /\ SubSeq(ps, 1, i - 1) \in Seq(Project)
        /\ Len(SubSeq(ps, 1, i - 1)) = IF 1 <= i - 1 THEN i - 1 - 1 + 1 ELSE 0
        /\ \A k \in 1..i - 1 - 1 + 1 : SubSeq(ps, 1, i - 1)[k] = ps[1 + k - 1]
    BY <1>1, SubSeqProperties
  <2> QED
    BY <1>1, <2>1
<1>3. /\ after \in Seq(Project) /\ Len(after) = Len(ps) - i
      /\ \A k \in 1..(Len(ps) - i) : after[k] = ps[i + k]
  <2>1. /\ SubSeq(ps, i + 1, Len(ps)) \in Seq(Project)
        /\ Len(SubSeq(ps, i + 1, Len(ps))) =
             IF i + 1 <= Len(ps) THEN Len(ps) - (i + 1) + 1 ELSE 0
        /\ \A k \in 1..Len(ps) - (i + 1) + 1 : SubSeq(ps, i + 1, Len(ps))[k] = ps[i + 1 + k - 1]
    BY <1>1, SubSeqProperties
  <2> QED
    BY <1>1, <2>1, SMTT(30)
<1> HIDE DEF before, after
<1>4. /\ qs \in Seq(Project) /\ Len(qs) = Len(ps) - 1
      /\ \A k \in 1..Len(ps) - 1 : qs[k] = IF k <= i - 1 THEN before[k] ELSE after[k - (i - 1)]
  <2>1. /\ qs \in Seq(Project) /\ Len(qs) = Len(before) + Len(after)
        /\ \A k \in 1..Len(before) + Len(after) :
             qs[k] = IF k <= Len(before) THEN before[k] ELSE after[k - Len(before)]
    BY <1>2, <1>3, ConcatProperties
  <2> QED
    BY <1>1, <1>2, <1>3, <2>1
<1> HIDE DEF qs
<1>5. \A k \in 1..Len(ps) - 1 : qs[k] = ps[IF k < i THEN k ELSE k + 1]
  <2> SUFFICES ASSUME NEW k \in 1..Len(ps) - 1
               PROVE  qs[k] = ps[IF k < i THEN k ELSE k + 1]
    OBVIOUS
  <2>1. CASE k < i
    <3>1. k <= i - 1 /\ k \in 1..(i - 1)
      BY <1>1, <2>1
    <3> QED
      BY <1>2, <1>4, <2>1, <3>1
  <2>2. CASE ~(k < i)
    <3>1. ~(k <= i - 1) /\ k - (i - 1) \in 1..(Len(ps) - i) /\ i + (k - (i - 1)) = k + 1
      BY <1>1, <2>2
    <3> QED
      BY <1>3, <1>4, <2>2, <3>1
  <2> QED
    BY <2>1, <2>2
<1>6. DOMAIN qs = 1..Len(ps) - 1
  BY <1>4, LenProperties
<1>7. ASSUME NEW j \in DOMAIN qs
      PROVE  \E k \in DOMAIN ps : k # i /\ qs[j] = ps[k] /\ k = IF j < i THEN j ELSE j + 1
  <2>1. (IF j < i THEN j ELSE j + 1) \in 1..Len(ps) /\ (IF j < i THEN j ELSE j + 1) # i
    BY <1>1, <1>6
  <2> QED
    BY <1>1, <1>5, <1>6, <2>1
<1>8. ASSUME NEW k \in DOMAIN ps, k # i
      PROVE  \E j \in DOMAIN qs : qs[j] = ps[k]
  <2>1. CASE k < i
    <3>1. k \in 1..Len(ps) - 1
      BY <1>1, <2>1
    <3> QED
      BY <1>5, <1>6, <2>1, <3>1
  <2>2. CASE ~(k < i)
    <3>1. k - 1 \in 1..Len(ps) - 1 /\ ~(k - 1 < i) /\ (k - 1) + 1 = k
      BY <1>1, <1>8, <2>2
    <3> QED
      BY <1>5, <1>6, <3>1
  <2> QED
    BY <2>1, <2>2
<1>9. ASSUME NEW j \in DOMAIN qs, NEW m \in DOMAIN qs, qs[j].id = qs[m].id
      PROVE  j = m
  <2>1. PICK k \in DOMAIN ps : qs[j] = ps[k] /\ k = IF j < i THEN j ELSE j + 1
    BY <1>7
  <2>2. PICK l \in DOMAIN ps : qs[m] = ps[l] /\ l = IF m < i THEN m ELSE m + 1
    BY <1>7
  <2>3. k = l
    BY <1>9, <2>1, <2>2, ListIs
  <2> QED
    BY <1>1, <1>6, <2>1, <2>2, <2>3
<1>10. IsList(qs)
  <2>1. Len(qs) <= MaximumProjects
    BY <1>1, <1>4, ProjectsAssumption
  <2> QED
    BY <1>4, <1>9, <2>1 DEF IsList
<1>11. RemoveAt(ps, i) = qs
  BY DEF RemoveAt, qs, before, after
<1> QED
  BY <1>7, <1>8, <1>10, <1>11

\* A deleted project loses its files first; if the list is not stored, it was cut.
LEMMA DeleteKept == ASSUME ProjectsInv, NEW i \in DOMAIN projects, Delete(i) PROVE Kept
<1>1. PICK ps, id : ps = RemoveAt(projects, i) /\ id = projects[i].id
  OBVIOUS
<1>2. /\ projects[i].status # "active" /\ Waiting /\ UNCHANGED <<package, fresh>> /\ Hosts'
      /\ \E n \in 0..2, alive \in BOOLEAN :
           /\ Handle(Both(room, ps), <<FilesWith(id, None), List(ps)>>, n, alive)
           /\ cut' = IF n = 1 \/ (n = 0 /\ alive) THEN cut \cup {id} ELSE cut
  BY <1>1, SameHosted DEF Delete
<1>3. PICK n \in 0..2, alive \in BOOLEAN :
        /\ Handle(Both(room, ps), <<FilesWith(id, None), List(ps)>>, n, alive)
        /\ cut' = IF n = 1 \/ (n = 0 /\ alive) THEN cut \cup {id} ELSE cut
  BY <1>2
<1>4. ProjectsTypeOK /\ IsList(projects) /\ id \in Id /\ None \in File
  BY <1>1, ListedIs DEF ProjectsInv, File
<1>5. FilesLeft(ps, id, None, n, alive)
  <2>1. FilesHandled(ps, id, None, n, alive)
    BY <1>3 DEF FilesHandled
  <2> QED
    BY <1>3, <1>4, <2>1, FilesLeave
<1>6. /\ IsList(ps)
      /\ \A j \in DOMAIN ps : \E k \in DOMAIN projects : k # i /\ ps[j] = projects[k]
      /\ \A k \in DOMAIN projects : k # i => \E j \in DOMAIN ps : ps[j] = projects[k]
  BY <1>1, <1>4, RemovedIs
<1>7. ASSUME NEW j \in DOMAIN ps
      PROVE  ps[j].id # id /\ \E k \in DOMAIN projects : ps[j] = projects[k]
  <2>1. PICK k \in DOMAIN projects : k # i /\ ps[j] = projects[k]
    BY <1>6
  <2>2. projects[k].id # projects[i].id
    BY <1>4, <2>1, ListIs
  <2> QED
    BY <1>1, <2>1, <2>2
<1>8. Fits(ps, id, None)
  BY <1>7 DEF Fits
<1>9. Advances => Follows(ps)
  <2> SUFFICES ASSUME Advances
               PROVE  Follows(ps)
    OBVIOUS
  <2>1. Follows(projects)
    BY <1>4, SyncedFollows DEF ProjectsTypeOK
  <2>2. \A j \in DOMAIN ps : ps[j].id < fresh'.id
    BY <1>7, <2>1 DEF Follows
  <2>3. ActiveIds(projects) \subseteq ActiveIds(ps)
    <3> SUFFICES ASSUME NEW k \in DOMAIN projects, projects[k].status = "active"
                 PROVE  projects[k].id \in ActiveIds(ps)
      BY DEF ActiveIds
    <3>1. PICK j \in DOMAIN ps : ps[j] = projects[k]
      BY <1>2, <1>6
    <3> QED
      BY <3>1 DEF ActiveIds
  <2>4. \A j \in DOMAIN ps : ps[j].status = "active" =>
          \E k \in DOMAIN projects : /\ projects[k].id = ps[j].id /\ projects[k].status = "active"
                                     /\ projects[k].event = ps[j].event
    BY <1>7
  <2>5. projects' = disk'.projects \/ Ids(projects) \subseteq Ids(ps) \cup cut'
    <3>1. CASE alive /\ n # 2
      <4>1. id \in cut'
        BY <1>3, <3>1
      <4>2. ASSUME NEW k \in DOMAIN projects
            PROVE  projects[k].id \in Ids(ps) \cup {id}
        BY <1>1, <1>6 DEF Ids
      <4> QED
        BY <4>1, <4>2 DEF Ids
    <3>2. CASE ~(alive /\ n # 2)
      BY <1>5, <3>2 DEF FilesLeft
    <3> QED
      BY <3>1, <3>2
  <2>6. ASSUME NEW k \in DOMAIN projects, NEW j \in DOMAIN ps,
               projects[k].id = ps[j].id, projects[k].status \in Over
        PROVE  Stands(projects[k], ps[j])
    <3>1. PICK m \in DOMAIN projects : ps[j] = projects[m]
      BY <1>7
    <3> QED
      BY <2>1, <2>6, <3>1 DEF Follows
  <2> QED
    BY <1>6, <2>2, <2>3, <2>4, <2>5, <2>6 DEF Follows
<1> QED
  BY <1>2, <1>3, <1>4, <1>5, <1>8, <1>9, FilesStepKept

-----------------------------------------------------------------------------
(* Steps in memory only *)

\* A step of memory alone, with the list as it is.
LEMMA SameListKept ==
  ASSUME ProjectsInv, Hosts', NEW r, UNCHANGED <<disk, package, fresh, cut>>, upload' \in File,
         faults' \in 0..MaxFault, r \in Room, r.event = room.event, Rests(r),
         r.stage # 0 => r.stage = room.stage,
         \/ room' = r /\ projects' = projects
         \/ room' = disk.room /\ projects' = disk.projects
  PROVE  Kept
<1>1. /\ fresh \in [id : 1..MaxId + 1, stage : 1..MaxStage + 1] /\ room.stage < fresh.stage
      /\ cut \subseteq Id /\ package \in Project \cup {None} /\ disk.files \in [Id -> File]
      /\ (package # None => package.id < fresh.id) /\ room \in Room
  BY DEF ProjectsInv, ProjectsTypeOK, Given
<1>2. /\ fresh.id \in Nat /\ fresh.stage \in Nat /\ 0 < fresh.stage
      /\ fresh.id <= fresh'.id /\ fresh.stage <= fresh'.stage
  BY <1>1, ProjectsAssumption
<1>3. Advances
  BY <1>1, <1>2 DEF Advances
<1>4. RunsOn(r)
  <2>1. r.stage < fresh'.stage
    BY <1>1, <1>2
  <2> QED
    BY <2>1 DEF RunsOn
<1>5. PICK ps : ps = projects
  OBVIOUS
<1>6. Follows(ps) /\ Provided(ps)
  BY <1>1, <1>3, <1>5, SyncedFollows, SameFilesProvide
<1> QED
  BY <1>4, <1>5, <1>6, MemoryStepKept

\* A refused session has left its stage in memory; storage is still in it.
LEMMA RefuseSessionKept == ASSUME ProjectsInv, RefuseSession PROVE Kept
<1> DEFINE a == Archived(room, FALSE)
           r == [a EXCEPT !.stage = 0]
<1>1. /\ room \in Room /\ upload \in File /\ faults \in 0..MaxFault /\ 0 \in 0..MaxStage
      /\ room.phase = "race"
  BY ProjectsAssumption DEF ProjectsInv, ProjectsTypeOK, RefuseSession
<1>2. a \in Room /\ a = [room EXCEPT !.history = a.history]
  BY <1>1, ArchivedGives
<1>3. room' = r /\ UNCHANGED <<projects, disk, package, upload, fresh, cut, faults>> /\ Hosts'
  BY SameHosted DEF RefuseSession
<1> HIDE DEF a
<1>4. r \in Room /\ r.event = room.event /\ r.stage = 0 /\ r.phase = "race"
  BY <1>1, <1>2, Zenon DEF Room
<1> HIDE DEF r
<1>5. Rests(r)
  BY <1>4 DEF Rests
<1> QED
  BY <1>1, <1>3, <1>4, <1>5, SameListKept

\* An admitted upload waits and changes nothing.
LEMMA BeginUploadKept ==
  ASSUME ProjectsInv, NEW track \in Track, BeginUpload(track) PROVE Kept
BY SameListKept, SameHosted DEF BeginUpload, ProjectsInv, ProjectsTypeOK, File

\* An upload that arrives is hosted under its own track, in a race too; only in
\* the lobby is it the room's.
LEMMA EndUploadKept == ASSUME ProjectsInv, EndUpload PROVE Kept
<1>1. upload \in File /\ None \in File /\ faults \in 0..MaxFault /\ room \in Room /\ Rests(room)
  BY DEF ProjectsInv, ProjectsTypeOK, File
<1>2. upload' = None /\ UNCHANGED <<package, fresh, cut>> /\ Waiting
  BY DEF EndUpload, Waiting
<1>3. CASE hosted' = [name |-> upload, file |-> upload] /\ CanEdit(room)
                /\ Persist([room EXCEPT !.track = upload])
  <2>1. PICK track \in File : track = upload
    BY <1>1
  <2>2. Persist([room EXCEPT !.track = track]) /\ Hosts'
    BY <1>1, <1>3, <2>1 DEF Hosts, Named
  <2> QED
    BY <1>2, <1>3, <2>2, NewTrackKept
<1>4. CASE /\ hosted' = [name |-> upload, file |-> upload]
           /\ UNCHANGED <<room, projects, disk, faults>>
  <2>1. Hosts'
    BY <1>1, <1>4 DEF Hosts, Named
  <2> QED
    BY <1>1, <1>2, <1>4, <2>1, SameListKept
<1>5. CASE /\ faults < MaxFault /\ faults' = faults + 1
           /\ UNCHANGED <<hosted, room, projects, disk>>
  <2>1. Hosts' /\ faults' \in 0..MaxFault
    BY <1>1, <1>5, SameHosted, ProjectsAssumption
  <2> QED
    BY <1>1, <1>2, <1>5, <2>1, SameListKept
<1> QED
  BY <1>3, <1>4, <1>5 DEF EndUpload

\* Then nothing is hosted.
LEMMA DeleteTrackPackageKept == ASSUME ProjectsInv, DeleteTrackPackage PROVE Kept
<1>1. Hosts'
  BY DEF DeleteTrackPackage, NotHosted, Hosts, Named, File
<1>2. /\ UNCHANGED <<room, projects, disk, package, upload, fresh, cut, faults>>
      /\ room \in Room /\ Rests(room) /\ upload \in File /\ faults \in 0..MaxFault
  BY DEF DeleteTrackPackage, ProjectsInv, ProjectsTypeOK
<1> QED
  BY <1>1, <1>2, SameListKept

\* After a restart memory is what is stored.
LEMMA RestartKept == ASSUME ProjectsInv, Restart PROVE Kept
<1>1. /\ room \in Room /\ Rests(room) /\ None \in File
      /\ faults < MaxFault /\ faults' = faults + 1 /\ faults \in 0..MaxFault
      /\ room' = disk.room /\ projects' = disk.projects /\ upload' = None
      /\ UNCHANGED <<disk, package, fresh, cut>> /\ Hosts'
  BY SameHosted DEF ProjectsInv, ProjectsTypeOK, Restart, File
<1>2. faults' \in 0..MaxFault
  BY <1>1, ProjectsAssumption
<1> QED
  BY <1>1, <1>2, SameListKept

\* Nothing happens, and nothing changes.
LEMMA StutterKept == ASSUME ProjectsInv, UNCHANGED vars PROVE Kept
BY SameListKept, SameHosted DEF vars, ProjectsInv, ProjectsTypeOK

-----------------------------------------------------------------------------
(* Preparing the next event *)

\* The room and the list of the next event: every project is still listed, what
\* was over stands, and what was active has the results of its event.
Prepared(r, ps) ==
  /\ r \in Room /\ Rests(r) /\ r.stage = 0 /\ r.event < fresh'.id
  /\ IsList(ps) /\ DOMAIN ps = DOMAIN projects
  /\ Owns(ps, r)
  /\ \A i \in DOMAIN projects :
       /\ ps[i].id = projects[i].id /\ ps[i].file = projects[i].file
       /\ projects[i].status \in Over => Stands(projects[i], ps[i])
       /\ projects[i].status = "active" /\ ps[i].status = "completed" =>
            {s \in DOMAIN r.history : r.history[s].event = projects[i].event}
              \subseteq DOMAIN ps[i].results

\* The switch to another event stores the room and the list in one write.
LEMMA CommitKept ==
  ASSUME ProjectsInv, NEW r, NEW ps, Prepared(r, ps), NEW h, Named(h), Commit(r, ps, h),
         Waiting, UNCHANGED <<package, cut>>,
         fresh' \in [id : 1..MaxId + 1, stage : 1..MaxStage + 1],
         fresh.id <= fresh'.id, fresh.stage <= fresh'.stage
  PROVE  Kept
<1> USE DEF Prepared
<1>1. ProjectsTypeOK /\ IsList(projects) /\ IsList(disk.projects)
  BY DEF ProjectsInv, ProjectsTypeOK
<1>2. /\ \/ disk' = Stored(r, ps, disk.files) /\ room' = r /\ projects' = ps
         \/ /\ disk' = disk
            /\ \/ room' = room /\ projects' = projects
               \/ room' = disk.room /\ projects' = disk.projects
      /\ faults' \in 0..MaxFault /\ hosted' \in {h, hosted}
  BY <1>1, CommitLeaves
<1>3. disk'.files = disk.files
  BY <1>2 DEF Stored
<1>4. Advances /\ Hosts'
  <2>1. Hosts'
    BY <1>2 DEF Hosts, Named, ProjectsInv
  <2> QED
    BY <1>3, <2>1, QuietAdvances
<1>5. CASE disk' = disk
  <2>1. room' \in {room, disk'.room} /\ disk'.room = disk.room
    BY <1>1, <1>2, <1>5 DEF Stored
  <2>2. /\ \/ room' = room /\ projects' = projects
           \/ room' = disk.room /\ projects' = disk.projects
    BY <1>2, <1>5 DEF Stored
  <2>3. PICK old, qs : old = room /\ qs = projects
    OBVIOUS
  <2>4. Left(old, qs)
    BY <1>1, <1>2, <1>5, <2>2, <2>3, DiskHasParts DEF Left, Stored
  <2>5. Follows(qs) /\ RunsOn(old)
    BY <1>1, <1>4, <2>3, SyncedFollows, RoomRunsOn DEF ProjectsTypeOK
  <2>6. Provided(projects') /\ Provided(disk'.projects)
    BY <1>3, <1>5, <2>2, SameFilesProvide
  <2> QED
    BY <1>4, <2>4, <2>5, <2>6, StepKept DEF Kept
<1>6. CASE disk' = Stored(r, ps, disk.files) /\ room' = r /\ projects' = ps
  <2>1. /\ disk'.room = r /\ disk'.projects = ps /\ disk'.files = disk.files
        /\ room' = r /\ projects' = ps /\ disk' = Stored(r, ps, disk.files)
    BY <1>6 DEF Stored
  <2>2. ProjectsTypeOK'
    <3>1. disk.files \in [Id -> File] /\ cut' \subseteq Id
      BY <1>1 DEF ProjectsTypeOK
    <3>2. disk' \in [room : Room, projects : Seq(Project), files : [Id -> File]]
      BY <2>1, <3>1 DEF Stored, IsList
    <3>3. IsList(projects)' /\ IsList(disk.projects)'
      BY <2>1 DEF IsList
    <3>4. /\ package' \in Project \cup {None} /\ upload' \in File
          /\ hosted' \in [name : File, file : File]
      BY <1>4 DEF Advances, Hosts, Named
    <3> QED
      BY <1>2, <2>1, <3>1, <3>2, <3>3, <3>4 DEF ProjectsTypeOK
  <2>3. Given'
    <3>1. \A i \in DOMAIN ps : ps[i].id < fresh'.id
      <4>1. Follows(projects)
        BY <1>1, <1>4, SyncedFollows DEF ProjectsTypeOK
      <4> QED
        BY <4>1 DEF Follows
    <3>2. r.stage < fresh'.stage
      <4>1. fresh'.stage \in 1..MaxStage + 1
        OBVIOUS
      <4> QED
        BY <4>1, ProjectsAssumption
    <3> QED
      BY <1>4, <2>1, <3>1, <3>2 DEF Given, Before, Advances
  <2>4. Rests(room)' /\ Rests(disk.room)'
    BY <2>1 DEF Rests
  <2>5. Agree'
    <3>1. ActiveIds(projects') = ActiveIds(disk'.projects)
      BY <2>1
    <3> QED
      BY <2>1, <3>1 DEF Agree, ActiveIds
  <2>6. Listed'
    BY <2>1 DEF Listed, Ids
  <2>7. Recorded'
    <3> SUFFICES ASSUME NEW j \in DOMAIN ps, NEW i \in DOMAIN ps,
                        ps[j].id = ps[i].id, ps[j].status \in Over
                 PROVE  Stands(ps[j], ps[i])
      BY <2>1 DEF Recorded
    <3> QED
      BY ListIs, StandsOn
  <2>8. ActiveProjectOwnsTheEvent'
    <3>1. Owns(projects', room') /\ Owns(disk'.projects, disk'.room)
      BY <2>1
    <3> QED
      BY <3>1 DEF ActiveProjectOwnsTheEvent, Owns
  <2>9. HaveFiles(projects)' /\ ListedProjectsHaveTheirFiles'
    <3>1. \A i \in DOMAIN projects : Usable(projects[i]) \/ projects[i].id \in cut
      BY DEF ProjectsInv, HaveFiles
    <3>2. \A i \in DOMAIN ps : \/ ps[i].file = None \/ disk.files[ps[i].id] = ps[i].file
                               \/ ps[i].id \in cut'
      BY <3>1 DEF Usable
    <3> QED
      BY <2>1, <3>2 DEF HaveFiles, ListedProjectsHaveTheirFiles, Usable
  <2>10. RecordsStep
    <3> SUFFICES ASSUME NEW j \in DOMAIN disk.projects, NEW i \in DOMAIN ps,
                        disk.projects[j].id = ps[i].id,
                        disk.projects[j].status \in Over, disk.projects[j].id \notin cut
                 PROVE  Stands(disk.projects[j], ps[i])
      <4> SUFFICES ASSUME NEW p \in ToSet(disk.projects), NEW q \in ToSet(disk'.projects),
                          p.id = q.id, p.status \in Over, p.id \notin cut
                   PROVE  Stands(p, q)
        <5> HIDE DEF Prepared
        <5> QED
          BY Zenon DEF RecordsStep, Stands, Over
      <4> QED
        BY <2>1 DEF ToSet
    <3>1. /\ projects[i] \in Project /\ disk.projects[j] \in Project /\ ps[i] \in Project
          /\ disk.projects[j].id = projects[i].id
      BY <1>1, ListIs
    <3>2. Stands(disk.projects[j], projects[i])
      BY <3>1 DEF ProjectsInv, Recorded
    <3>3. Stands(projects[i], ps[i])
      BY <3>2 DEF Stands
    <3> QED
      BY <3>1, <3>2, <3>3, StandsOn
  <2>11. CompletedStep
    <3> SUFFICES ASSUME NEW k \in DOMAIN projects, NEW i \in DOMAIN ps,
                        projects[k].id = ps[i].id, projects[k].status = "active",
                        ps[i].status = "completed"
                 PROVE  StagesOf(projects[k], r) \subseteq DOMAIN ps[i].results
      BY <2>1 DEF CompletedStep, Completed, ToSet
    <3>1. k = i
      BY <1>1, ListIs
    <3> QED
      BY <3>1 DEF StagesOf
  <2> QED
    BY <1>4, <2>2, <2>3, <2>4, <2>5, <2>6, <2>7, <2>8, <2>9, <2>10, <2>11
       DEF Kept, ProjectsInv
<1> QED
  BY <1>2, <1>5, <1>6

\* beginEvent leaves a room at rest in the lobby, whose history shows no stage of
\* the last event that its result is not kept of.
LEMMA BegunGives ==
  ASSUME ProjectsInv, CanPrepare(room), NEW event \in 0..MaxId
  PROVE  LET r == Begun(room, event)
         IN  /\ r \in Room /\ r.event = event /\ Rests(r)
             /\ r.phase = "lobby" => r.stage = 0
             /\ event # room.event => r.phase = "lobby"
             /\ {s \in DOMAIN r.history : r.history[s].event = room.event}
                  \subseteq {s \in DOMAIN room.history : room.history[s].event = room.event}
<1>1. room \in Room /\ Rests(room)
  BY DEF ProjectsInv, ProjectsTypeOK
<1> DEFINE r == Begun(room, event)
<1>2. CASE event = room.event
  BY <1>1, <1>2 DEF Begun, Rests
<1>3. CASE event # room.event
  <2>1. PICK a : a = Archived(room, room.phase = "finished")
    OBVIOUS
  <2>2. r = [a EXCEPT !.event = event, !.phase = "lobby", !.stage = 0, !.penalties = 0]
    BY <1>3, <2>1 DEF Begun
  <2>3. /\ a \in Room /\ a = [room EXCEPT !.history = a.history]
        /\ room.stage = 0 => a = room
        /\ room.stage # 0 => /\ DOMAIN a.history = DOMAIN room.history \cup {room.stage}
                             /\ \A s \in DOMAIN room.history \ {room.stage} :
                                  a.history[s] = room.history[s]
    BY <1>1, <2>1, ArchivedGives
  <2>4. 0 \in 0..MaxStage /\ 0 \in 0..MaxPenalty
    BY ProjectsAssumption
  <2>5. /\ r.event = event /\ r.phase = "lobby" /\ r.stage = 0 /\ r.history = a.history
        /\ r.penalties = 0 /\ r.track = a.track
        /\ r = [event |-> r.event, phase |-> r.phase, stage |-> r.stage,
                penalties |-> r.penalties, track |-> r.track, history |-> r.history]
    BY <2>2, <2>3 DEF Room
  <2> HIDE DEF r
  <2>6. r \in Room
    <3>1. a.history \in Results /\ a.track \in File
      BY <2>3 DEF Room
    <3> QED
      BY <2>4, <2>5, <3>1 DEF Room
  <2>7. {s \in DOMAIN r.history : r.history[s].event = room.event}
          \subseteq {s \in DOMAIN room.history : room.history[s].event = room.event}
    <3>1. CASE room.stage = 0
      BY <2>3, <2>5, <3>1
    <3>2. CASE room.stage # 0
      <4>1. room.stage \in DOMAIN room.history /\ room.history[room.stage].event = room.event
        BY <1>1, <3>2 DEF CanPrepare, Rests
      <4> QED
        BY <2>3, <2>5, <3>2, <4>1
    <3> QED
      BY <3>1, <3>2
  <2>8. Rests(r)
    BY <2>5 DEF Rests
  <2> QED
    BY <1>3, <2>5, <2>6, <2>7, <2>8 DEF r
<1> QED
  BY <1>2, <1>3

\* The list with the active project closed.
LEMMA ClosedIs ==
  ASSUME ProjectsInv
  PROVE  LET ps == ClosedProjects(projects, room)
         IN  /\ IsList(ps) /\ DOMAIN ps = DOMAIN projects
             /\ \A i \in DOMAIN projects :
                  /\ ps[i].id = projects[i].id /\ ps[i].file = projects[i].file
                  /\ ps[i].status # "active"
                  /\ projects[i].status # "active" => ps[i] = projects[i]
                  /\ projects[i].status = "active" =>
                       {s \in DOMAIN room.history : room.history[s].event = projects[i].event}
                         \subseteq DOMAIN ps[i].results
<1>1. room \in Room /\ IsList(projects) /\ \A i \in DOMAIN projects : projects[i] \in Project
  BY ListedIs DEF ProjectsInv, ProjectsTypeOK
<1>2. PICK qs : qs = Synced(projects, room)
  OBVIOUS
<1>3. PICK ps : ps = ClosedProjects(projects, room)
  OBVIOUS
<1>4. /\ IsList(qs) /\ DOMAIN qs = DOMAIN projects
      /\ \A i \in DOMAIN projects :
           /\ qs[i] = [projects[i] EXCEPT !.results = qs[i].results]
           /\ projects[i].status # "active" => qs[i] = projects[i]
           /\ projects[i].status = "active" =>
                {s \in DOMAIN room.history : room.history[s].event = projects[i].event}
                  \subseteq DOMAIN qs[i].results
  BY <1>1, <1>2, SyncedGives
<1>5. /\ ps = [i \in DOMAIN projects |-> ps[i]]
      /\ \A i \in DOMAIN projects :
           ps[i] = IF projects[i].status = "active"
                   THEN [qs[i] EXCEPT !.status = "completed"] ELSE projects[i]
  BY <1>2, <1>3 DEF ClosedProjects
<1>6. ASSUME NEW i \in DOMAIN projects
      PROVE  /\ ps[i] \in Project /\ ps[i].id = projects[i].id /\ ps[i].file = projects[i].file
             /\ ps[i].status # "active"
             /\ projects[i].status # "active" => ps[i] = projects[i]
             /\ projects[i].status = "active" =>
                  {s \in DOMAIN room.history : room.history[s].event = projects[i].event}
                    \subseteq DOMAIN ps[i].results
  <2>1. qs[i] \in Project /\ qs[i].id = projects[i].id /\ qs[i].file = projects[i].file
    BY <1>1, <1>4, ListIs DEF Project
  <2>2. CASE projects[i].status = "active"
    <3>1. ps[i] = [qs[i] EXCEPT !.status = "completed"]
      BY <1>5, <2>2
    <3>2. /\ ps[i] \in Project /\ ps[i].id = qs[i].id /\ ps[i].file = qs[i].file
          /\ ps[i].status = "completed" /\ ps[i].results = qs[i].results
      BY <2>1, <3>1 DEF Project, Status
    <3> QED
      BY <1>4, <2>1, <2>2, <3>2
  <2>3. CASE projects[i].status # "active"
    BY <1>1, <1>5, <2>3
  <2> QED
    BY <2>2, <2>3
<1>7. IsList(ps) /\ DOMAIN ps = DOMAIN projects
  BY <1>1, <1>5, <1>6, ListFrom
<1> QED
  BY <1>3, <1>6, <1>7

\* A prepared event closes the active project and begins under a new identifier.
LEMMA PrepareEventKept == ASSUME ProjectsInv, PrepareEvent PROVE Kept
<1>1. PICK r, ps : r = Begun(room, fresh.id) /\ ps = ClosedProjects(projects, room)
  OBVIOUS
<1>2. /\ CanPrepare(room) /\ TakeId /\ Commit(r, ps, hosted)
      /\ Waiting /\ UNCHANGED <<package, cut>>
      /\ Named(hosted)
  BY <1>1 DEF PrepareEvent, ProjectsInv, Hosts
<1>3. /\ fresh.id \in 0..MaxId /\ fresh.id < fresh'.id
      /\ fresh' \in [id : 1..MaxId + 1, stage : 1..MaxStage + 1]
      /\ fresh.id <= fresh'.id /\ fresh.stage <= fresh'.stage
  BY <1>2, TakeIdGives, ProjectsAssumption DEF Id
<1>4. fresh.id # room.event
  <2>1. room.event < fresh.id /\ room.event \in Nat
    BY DEF ProjectsInv, Given, ProjectsTypeOK, Room
  <2> QED
    BY <2>1
<1>5. /\ r \in Room /\ r.event = fresh.id /\ Rests(r) /\ r.stage = 0
      /\ {s \in DOMAIN r.history : r.history[s].event = room.event}
           \subseteq {s \in DOMAIN room.history : room.history[s].event = room.event}
  BY <1>1, <1>2, <1>3, <1>4, BegunGives
<1>6. /\ IsList(ps) /\ DOMAIN ps = DOMAIN projects
      /\ \A i \in DOMAIN projects :
           /\ ps[i].id = projects[i].id /\ ps[i].file = projects[i].file
           /\ ps[i].status # "active"
           /\ projects[i].status # "active" => ps[i] = projects[i]
           /\ projects[i].status = "active" =>
                {s \in DOMAIN room.history : room.history[s].event = projects[i].event}
                  \subseteq DOMAIN ps[i].results
  BY <1>1, ClosedIs
<1>7. Owns(ps, r)
  BY <1>6 DEF Owns
<1>8. ASSUME NEW i \in DOMAIN projects
      PROVE  /\ projects[i].status \in Over => Stands(projects[i], ps[i])
             /\ projects[i].status = "active" =>
                  {s \in DOMAIN r.history : r.history[s].event = projects[i].event}
                    \subseteq DOMAIN ps[i].results
  <2>1. projects[i].status \in Over => Stands(projects[i], ps[i])
    BY <1>6, ListedIs, StandsOn DEF Over
  <2>2. projects[i].status = "active" => projects[i].event = room.event
    BY DEF ProjectsInv, ActiveProjectOwnsTheEvent, Owns
  <2> QED
    BY <1>5, <1>6, <2>1, <2>2
<1>9. Prepared(r, ps)
  BY <1>3, <1>5, <1>6, <1>7, <1>8 DEF Prepared
<1> QED
  BY <1>2, <1>3, <1>9, CommitKept

\* An activated project is the record of the event the room goes on with.
LEMMA ActivateKept == ASSUME ProjectsInv, NEW i \in DOMAIN projects, Activate(i) PROVE Kept
<1>1. PICK q, b, r, qs, ps, h :
        /\ q = [projects[i] EXCEPT !.status = "active", !.event = projects[i].id]
        /\ b = Begun(room, projects[i].id)
        /\ r = [b EXCEPT !.track = projects[i].track]
        /\ qs = ClosedProjects(projects, room)
        /\ ps = [j \in DOMAIN projects |-> IF j = i THEN q ELSE qs[j]]
        /\ h = IF projects[i].file = None THEN NotHosted
               ELSE [name |-> projects[i].track, file |-> disk.files[projects[i].id]]
  OBVIOUS
<1>2. /\ CanPrepare(room) /\ projects[i].status = "draft" /\ CanEdit(b)
      /\ Commit(r, ps, h) /\ Waiting /\ UNCHANGED <<package, fresh, cut>>
      /\ Usable(projects[i])
  BY <1>1 DEF Activate
<1>3. /\ projects[i] \in Project /\ projects[i].id \in 0..MaxId /\ projects[i].id < fresh.id
      /\ projects[i].track \in File /\ projects[i].file \in {None, projects[i].track}
  BY ListedIs, ProjectsAssumption DEF Project, Id
<1>4. /\ b \in Room /\ b.event = projects[i].id /\ Rests(b) /\ b.phase = "lobby" /\ b.stage = 0
      /\ {s \in DOMAIN b.history : b.history[s].event = room.event}
           \subseteq {s \in DOMAIN room.history : room.history[s].event = room.event}
  BY <1>1, <1>2, <1>3, BegunGives DEF CanEdit
<1>5. /\ r \in Room /\ r.event = projects[i].id /\ r.phase = "lobby" /\ r.stage = 0
      /\ r.history = b.history
  BY <1>1, <1>3, <1>4 DEF Room
<1>6. Rests(r)
  BY <1>5 DEF Rests
<1>7. /\ IsList(qs) /\ DOMAIN qs = DOMAIN projects
      /\ \A j \in DOMAIN projects :
           /\ qs[j].id = projects[j].id /\ qs[j].file = projects[j].file
           /\ qs[j].status # "active"
           /\ projects[j].status # "active" => qs[j] = projects[j]
           /\ projects[j].status = "active" =>
                {s \in DOMAIN room.history : room.history[s].event = projects[j].event}
                  \subseteq DOMAIN qs[j].results
  BY <1>1, ClosedIs
<1>8. /\ q \in Project /\ q.id = projects[i].id /\ q.file = projects[i].file
      /\ q.status = "active" /\ q.event = projects[i].id
  BY <1>1, <1>3, ListedIs DEF Project, Status
<1>9. /\ ps = [j \in DOMAIN projects |-> ps[j]] /\ ps[i] = q
      /\ \A j \in DOMAIN projects : j # i => ps[j] = qs[j]
  BY <1>1
<1>10. IsList(ps) /\ DOMAIN ps = DOMAIN projects
  <2>1. \A j \in DOMAIN projects : ps[j] \in Project /\ ps[j].id = projects[j].id
    BY <1>7, <1>8, <1>9, ListIs
  <2> QED
    BY <1>9, <2>1, ListedIs, ListFrom
<1>11. Owns(ps, r)
  BY <1>5, <1>7, <1>8, <1>9, <1>10 DEF Owns
<1>12. ASSUME NEW j \in DOMAIN projects
       PROVE  /\ ps[j].id = projects[j].id /\ ps[j].file = projects[j].file
              /\ projects[j].status \in Over => Stands(projects[j], ps[j])
              /\ projects[j].status = "active" =>
                   {s \in DOMAIN r.history : r.history[s].event = projects[j].event}
                     \subseteq DOMAIN ps[j].results
  <2>1. CASE j = i
    BY <1>2, <1>8, <1>9, <2>1 DEF Over
  <2>2. CASE j # i
    <3>1. ps[j] = qs[j]
      BY <1>9, <2>2
    <3>2. projects[j].status \in Over => Stands(projects[j], ps[j])
      BY <1>7, <3>1, ListedIs, StandsOn DEF Over
    <3>3. projects[j].status = "active" => projects[j].event = room.event
      BY DEF ProjectsInv, ActiveProjectOwnsTheEvent, Owns
    <3> QED
      BY <1>4, <1>5, <1>7, <3>1, <3>2, <3>3
  <2> QED
    BY <2>1, <2>2
<1>13. /\ fresh' \in [id : 1..MaxId + 1, stage : 1..MaxStage + 1] /\ r.event < fresh'.id
       /\ fresh.id <= fresh'.id /\ fresh.stage <= fresh'.stage
  <2>1. fresh \in [id : 1..MaxId + 1, stage : 1..MaxStage + 1]
    BY DEF ProjectsInv, ProjectsTypeOK
  <2> QED
    BY <1>2, <1>3, <1>5, <2>1, ProjectsAssumption
<1>14. Prepared(r, ps)
  BY <1>5, <1>6, <1>10, <1>11, <1>12, <1>13 DEF Prepared
<1>15. Named(h)
  BY <1>1, <1>2, <1>3 DEF Named, NotHosted, Usable, File
<1> QED
  BY <1>2, <1>13, <1>14, <1>15, CommitKept

-----------------------------------------------------------------------------
(* The theorems *)

\* The invariant holds of the empty server.
LEMMA ProjectsInit == Init => ProjectsInv
<1> SUFFICES ASSUME Init
             PROVE  ProjectsInv
  OBVIOUS
<1>1. IsList(<< >>) /\ NoResults \in Results /\ DOMAIN << >> = {}
  <2>1. << >> \in Seq(Project) /\ Len(<< >>) = 0
    BY EmptySeq
  <2> QED
    BY <2>1, NoResultsYet, ProjectsAssumption DEF IsList
<1>2. /\ room = [event |-> 0, phase |-> "lobby", stage |-> 0, penalties |-> 0,
                 track |-> None, history |-> NoResults]
      /\ projects = << >> /\ disk.room = room /\ disk.projects = projects
      /\ disk = [room |-> room, projects |-> projects, files |-> [i \in Id |-> None]]
      /\ package = None /\ upload = None /\ cut = {} /\ faults = 0 /\ hosted = NotHosted
      /\ fresh = [id |-> 1, stage |-> 1]
  BY DEF Init, NoEvent
<1>3. room \in Room
  BY <1>1, <1>2, ProjectsAssumption DEF Room, File
<1>4. ProjectsTypeOK
  <2>1. fresh \in [id : 1..MaxId + 1, stage : 1..MaxStage + 1] /\ faults \in 0..MaxFault
    BY <1>2, ProjectsAssumption
  <2>2. disk \in [room : Room, projects : Seq(Project), files : [Id -> File]]
    BY <1>1, <1>2, <1>3 DEF IsList, File
  <2> QED
    BY <1>1, <1>2, <1>3, <2>1, <2>2 DEF ProjectsTypeOK, File, NotHosted
<1>5. Given
  BY <1>1, <1>2 DEF Given, Before
<1>6. Rests(room) /\ Rests(disk.room)
  BY <1>2 DEF Rests
<1>7. Agree /\ Listed /\ Recorded /\ Hosts
  BY <1>1, <1>2 DEF Agree, Listed, Recorded, Ids, Hosts, Named, NotHosted, File
<1>8. ActiveProjectOwnsTheEvent /\ HaveFiles(projects) /\ ListedProjectsHaveTheirFiles
  BY <1>1, <1>2 DEF ActiveProjectOwnsTheEvent, Owns, HaveFiles, ListedProjectsHaveTheirFiles
<1> QED
  BY <1>4, <1>5, <1>6, <1>7, <1>8 DEF ProjectsInv

\* Every step keeps it, and the action properties hold of every step.
LEMMA ProjectsStep == ProjectsInv /\ [Next]_vars => Kept
<1> SUFFICES ASSUME ProjectsInv, [Next]_vars
             PROVE  Kept
  OBVIOUS
<1>1. CASE StartRace
  BY <1>1, StartRaceKept
<1>2. CASE FinishRace
  BY <1>2, FinishRaceKept
<1>3. CASE GivePenalty
  BY <1>3, GivePenaltyKept
<1>4. CASE ToLobby
  BY <1>4, ToLobbyKept
<1>5. CASE RefuseSession
  BY <1>5, RefuseSessionKept
<1>6. ASSUME NEW t \in File, ApplySettings(t)
      PROVE  Kept
  BY <1>6, NewTrackKept, SameHosted DEF ApplySettings
<1>7. ASSUME NEW t \in Track, BeginUpload(t)
      PROVE  Kept
  BY <1>7, BeginUploadKept
<1>8. CASE EndUpload
  BY <1>8, EndUploadKept
<1>9. CASE Create
  BY <1>9, CreateKept
<1>10. CASE Import
  BY <1>10, ImportKept
<1>11. ASSUME NEW i \in DOMAIN projects,
              \/ Copy(i) \/ Export(i) \/ Delete(i) \/ Activate(i) \/ RefuseArchive(i)
              \/ \E config \in BOOLEAN : Capture(i, config)
              \/ \E status \in {"completed", "archived"} : SetStatus(i, status)
       PROVE  Kept
  <2>1. ASSUME NEW config \in BOOLEAN, Capture(i, config)
        PROVE  Kept
    BY <2>1, CaptureKept
  <2>2. ASSUME NEW status \in {"completed", "archived"}, SetStatus(i, status)
        PROVE  Kept
    BY <2>2, SetStatusKept DEF Over
  <2> QED
    BY <1>11, <2>1, <2>2, CopyKept, ExportKept, DeleteKept, ActivateKept, RefuseArchiveKept
<1>12. CASE PrepareEvent
  BY <1>12, PrepareEventKept
<1>13. CASE Restart
  BY <1>13, RestartKept
<1>14. CASE UNCHANGED vars
  BY <1>14, StutterKept
<1>15. CASE DeleteTrackPackage
  BY <1>15, DeleteTrackPackageKept
<1> QED
  BY <1>1, <1>2, <1>3, <1>4, <1>5, <1>6, <1>7, <1>8, <1>9, <1>10, <1>11, <1>12, <1>13, <1>14, <1>15
     DEF Next

\* The invariant of the event projects: what memory and storage agree on, and
\* what a handler that is cut short leaves of either.
THEOREM ProjectsInvariant == Spec => []ProjectsInv
<1>1. ProjectsInv /\ [Next]_vars => ProjectsInv'
  BY ProjectsStep DEF Kept
<1> QED
  BY <1>1, ProjectsInit, PTL DEF Spec

\* The records of event-projects.ts keep to their types, identifiers and limit.
THEOREM ProjectsTypeCorrect == Spec => []ProjectsTypeOK
<1>1. ProjectsInv => ProjectsTypeOK
  BY DEF ProjectsInv
<1> QED
  BY <1>1, ProjectsInvariant, PTL

\* However its handlers are cut short, the room has at most one active project and
\* that is the record of the event it runs, in memory and in storage.  (prepareEvent)
THEOREM OneActiveProject == Spec => []ActiveProjectOwnsTheEvent
<1>1. ProjectsInv => ActiveProjectOwnsTheEvent
  BY DEF ProjectsInv
<1> QED
  BY <1>1, ProjectsInvariant, PTL

\* A stored project has the files it names unless a request about those files was
\* cut short.  (saveEventProjectAssets)
THEOREM StoredProjectsHaveFiles == Spec => []ListedProjectsHaveTheirFiles
<1>1. ProjectsInv => ListedProjectsHaveTheirFiles
  BY DEF ProjectsInv
<1> QED
  BY <1>1, ProjectsInvariant, PTL

\* A project is completed with a result of every stage of its event.
\* (syncActiveEventProject)
THEOREM CompletedHaveResults == Spec => CompletedWithItsResults
<1>1. ProjectsInv /\ [Next]_vars =>
        [\A p \in ToSet(projects), q \in ToSet(projects') :
           Completed(p, q) => StagesOf(p, room') \subseteq DOMAIN q.results]_vars
  BY ProjectsStep DEF Kept, CompletedStep
<1> QED
  BY <1>1, ProjectsInvariant, PTL DEF Spec, CompletedWithItsResults

\* A stored record of an event that is over stands until it is deleted.
\* (captureEventProject, setEventProjectStatus)
THEOREM StoredRecordsStand == Spec => RecordsStand
<1>1. ProjectsInv /\ [Next]_vars =>
        [\A p \in ToSet(disk.projects), q \in ToSet(disk'.projects) :
           p.id = q.id /\ p.status \in {"completed", "archived"} /\ p.id \notin cut
             => \E status \in {"completed", "archived"} : q = [p EXCEPT !.status = status]]_vars
  BY ProjectsStep DEF Kept, RecordsStep
<1> QED
  BY <1>1, ProjectsInvariant, PTL DEF Spec, RecordsStand

\* Whatever uploads, activations, deletions and settings come in between, what the
\* room lets a driver download for its track is the file of that track.
\* (downloadTrackPackage, prepareEvent)
THEOREM DownloadsAreOfTheTrack == Spec => []DownloadIsOfTheRoomsTrack
<1>1. ProjectsInv => DownloadIsOfTheRoomsTrack
  BY DEF ProjectsInv, Hosts, Named, DownloadIsOfTheRoomsTrack
<1> QED
  BY <1>1, ProjectsInvariant, PTL

-----------------------------------------------------------------------------
(* Both servers, as the run has them                                        *)

\* The theorems about the native server, under the names of MCPreparing.
Native == INSTANCE NativeEventsProofs WITH
            projects <- listed, disk <- nativeDisk, fresh <- given, faults <- failures,
            MaxId <- NativeMaxId, MaxFault <- NativeMaxFault

\* What the run instantiates and what the theorems are about begin alike.
LEMMA SameInit == N!Init => Native!Init
BY DEF N!Init, Native!Init, N!Idle, Native!Idle, N!NoIntent, Native!NoIntent, N!Nobody,
       Native!Nobody, N!NoResults, Native!NoResults

\* And every action is the same.
LEMMA SameStep == [N!Next]_native => [Native!Next]_native
<1>1. \A i, status : N!Close(i, status) => Native!Close(i, status)
  <2>1. \A ps : N!Synced(ps) = Native!Synced(ps)
    BY DEF N!Synced, Native!Synced, N!Merge, Native!Merge, N!ResultsOf, Native!ResultsOf
  <2>2. \A ps, next : N!SaveList(ps, next) => Native!SaveList(ps, next)
    BY DEF N!SaveList, Native!SaveList, N!Write, Native!Write, N!Abort, Native!Abort,
           N!Serving, Native!Serving, N!Start, Native!Start, N!Idle, Native!Idle,
           N!NoIntent, Native!NoIntent, N!Nobody, Native!Nobody
  <2>3. N!Admitted => Native!Admitted
    BY DEF N!Admitted, Native!Admitted, N!Free, Native!Free, N!Idle, Native!Idle,
           N!NoIntent, Native!NoIntent, N!Nobody, Native!Nobody
  <2> QED
    BY <2>1, <2>2, <2>3 DEF N!Close, Native!Close
<1> USE DEF N!Admitted, Native!Admitted, N!Free, Native!Free, N!Idle, Native!Idle,
            N!NoIntent, Native!NoIntent, N!Nobody, Native!Nobody, N!Commit,
            Native!Commit, N!Write, Native!Write, N!Abort, Native!Abort, N!Serving,
            Native!Serving, N!Start, Native!Start, N!RaceOver, Native!RaceOver,
            N!Archived, Native!Archived, N!Merge, Native!Merge, N!Draft, Native!Draft,
            N!NoResults, Native!NoResults, N!HasRoom, Native!HasRoom, N!SaveList,
            Native!SaveList, N!Synced, Native!Synced, N!ResultsOf, Native!ResultsOf,
            N!TakeId, Native!TakeId, N!Id, Native!Id, N!Ids, Native!Ids, N!Allowed,
            Native!Allowed, N!AlreadyThere, Native!AlreadyThere, N!CanPrepare,
            Native!CanPrepare, N!Refuse, Native!Refuse, N!TakeResults,
            Native!TakeResults, N!At, Native!At, N!SyncActive, Native!SyncActive,
            N!Find, Native!Find, N!Completed, Native!Completed, N!RemoveAt,
            Native!RemoveAt
<1>2. N!StartRace => Native!StartRace
  BY DEF N!StartRace, Native!StartRace
<1>3. N!FinishRace => Native!FinishRace
  BY SMTT(30) DEF N!FinishRace, Native!FinishRace
<1>4. N!ToLobby => Native!ToLobby
  BY DEF N!ToLobby, Native!ToLobby
<1>5. N!NewDraft => Native!NewDraft
  BY DEF N!NewDraft, Native!NewDraft
<1>6. \A id : N!Import(id) => Native!Import(id)
  BY DEF N!Import, Native!Import
<1>7. \A i : N!Export(i) => Native!Export(i)
  BY DEF N!Export, Native!Export
<1>8. \A i : N!Delete(i) => Native!Delete(i)
  BY DEF N!Delete, Native!Delete
<1>9. \A target : N!Request(target) => Native!Request(target)
  BY DEF N!Request, Native!Request
<1>10. N!Check => Native!Check
  BY DEF N!Check, Native!Check
<1>11. N!WriteIntent => Native!WriteIntent
  BY DEF N!WriteIntent, Native!WriteIntent
<1>12. N!BeginEvent => Native!BeginEvent
  BY DEF N!BeginEvent, Native!BeginEvent
<1>13. N!ApplyRoom => Native!ApplyRoom
  BY DEF N!ApplyRoom, Native!ApplyRoom
<1>14. N!HostFiles => Native!HostFiles
  BY DEF N!HostFiles, Native!HostFiles
<1>15. N!SaveSettings => Native!SaveSettings
  BY SMTT(30) DEF N!SaveSettings, Native!SaveSettings
<1>16. N!ActivateProject => Native!ActivateProject
  BY DEF N!ActivateProject, Native!ActivateProject
<1>17. N!CompleteProjects => Native!CompleteProjects
  BY DEF N!CompleteProjects, Native!CompleteProjects
<1>18. N!DeleteIntent => Native!DeleteIntent
  BY DEF N!DeleteIntent, Native!DeleteIntent
<1>19. N!Answer => Native!Answer
  BY DEF N!Answer, Native!Answer
<1>20. N!Sync => Native!Sync
  BY DEF N!Sync, Native!Sync
<1>21. N!Checkpoint => Native!Checkpoint
  BY DEF N!Checkpoint, Native!Checkpoint
<1>22. N!Restart => Native!Restart
  BY DEF N!Restart, Native!Restart
<1> QED
  BY <1>1, <1>2, <1>3, <1>4, <1>5, <1>6, <1>7, <1>8, <1>9, <1>10, <1>11, <1>12,
     <1>13, <1>14, <1>15, <1>16, <1>17, <1>18, <1>19, <1>20, <1>21, <1>22
     DEF N!Next, Native!Next

\* A behaviour of both is one of the native server.
LEMMA NativeBehaviour == PreparingSpec => Native!Spec
<1>1. PreparingInit => Native!Init
  BY SameInit DEF PreparingInit
<1>2. [PreparingNext]_<<scenario, vars, native>> => [N!Next]_native
  BY DEF PreparingNext
<1>3. [PreparingNext]_<<scenario, vars, native>> => [Native!Next]_native
  BY <1>2, SameStep
<1> QED
  BY <1>1, <1>3, PTL DEF PreparingSpec, Native!Spec, Native!vars, native

\* And one of the Cloudflare room.
LEMMA RoomBehaviour == PreparingSpec => Spec
<1>1. PreparingInit => Init
  BY DEF PreparingInit
<1>2. [PreparingNext]_<<scenario, vars, native>> => [Next]_vars
  BY DEF PreparingNext
<1> QED
  BY <1>1, <1>2, PTL DEF PreparingSpec, Spec

\* Both servers keep to their types, whatever fails to be written: no identifier
\* is listed twice and at most one project is active, in memory and in storage.
THEOREM PreparingTypeCorrect == PreparingSpec => []PreparingTypeOK
<1>1. Native!Spec => []Native!NativeTypeOK
  <2>1. Native!NativeConstants
    BY PreparingAssumption DEF N!NativeConstants, Native!NativeConstants
  <2> QED
    BY <2>1, Native!NativeTypeCorrect
<1>2. Native!NativeTypeOK => N!NativeTypeOK
  BY DEF N!NativeTypeOK, Native!NativeTypeOK, N!Core, Native!Core, N!Results,
         Native!Results, N!Result, Native!Result, N!Files, Native!Files, N!Intent,
         Native!Intent, N!Id, Native!Id, N!Nobody, Native!Nobody, N!NoIntent,
         Native!NoIntent, N!Project, Native!Project, N!Fresh, Native!Fresh, N!IsList,
         Native!IsList, N!Job, Native!Job, N!Step, Native!Step
<1> QED
  BY <1>1, <1>2, NativeBehaviour, RoomBehaviour, ProjectsTypeCorrect, PTL DEF PreparingTypeOK

\* While the list of projects can be written, a receipt of the native server is
\* returned only once the event, its files and its project are saved.
\* (RaceEventLifecycle.cs)
THEOREM NativeReceiptsAreSaved ==
  ASSUME "index" \notin FaultyFile
  PROVE  PreparingSpec => []ReceiptMeansSaved
<1>1. Native!NativeConstants
  BY PreparingAssumption DEF N!NativeConstants, Native!NativeConstants
<1>2. Native!Spec => []Native!ReceiptMeansSaved
  BY <1>1, Native!ReceiptsAreSaved
<1>3. Native!ReceiptMeansSaved => N!ReceiptMeansSaved
  BY DEF N!ReceiptMeansSaved, Native!ReceiptMeansSaved, N!Active, Native!Active,
         N!Nobody, Native!Nobody, N!Switching, Native!Switching, N!NoIntent,
         Native!NoIntent, N!ToSet, Native!ToSet
<1> QED
  BY <1>2, <1>3, NativeBehaviour, PTL DEF ReceiptMeansSaved

\* While the list can be written, the project of a pending switch stays to be
\* activated.  (the middleware of Program.cs)
THEOREM NativePendingProjectStays ==
  ASSUME "index" \notin FaultyFile
  PROVE  PreparingSpec => []PendingProjectIsThere
<1>1. Native!NativeConstants
  BY PreparingAssumption DEF N!NativeConstants, Native!NativeConstants
<1>2. Native!Spec => []Native!PendingProjectIsThere
  BY <1>1, Native!PendingProjectStays
<1>3. Native!PendingProjectIsThere => N!PendingProjectIsThere
  BY DEF N!PendingProjectIsThere, Native!PendingProjectIsThere, N!Nobody,
         Native!Nobody, N!Switching, Native!Switching, N!NoIntent, Native!NoIntent
<1> QED
  BY <1>2, <1>3, NativeBehaviour, PTL DEF PendingProjectIsThere

\* While the list can be written, a project is completed with a result of every
\* stage of its event, whichever process carries the switch out.  (PrepareAsync)
THEOREM NativeCompletedHaveStages ==
  ASSUME "index" \notin FaultyFile
  PROVE  PreparingSpec => CompletedWithStages
<1>1. Native!NativeConstants
  BY PreparingAssumption DEF N!NativeConstants, Native!NativeConstants
<1>2. Native!Spec => Native!CompletedWithStages
  BY <1>1, Native!CompletedHaveStages
<1>3. Native!CompletedWithStages => N!CompletedWithStages
  BY PTL DEF N!CompletedWithStages, Native!CompletedWithStages, N!vars, Native!vars,
             N!ToSet, Native!ToSet, N!StagesOf, Native!StagesOf
<1> QED
  BY <1>2, <1>3, NativeBehaviour, PTL DEF CompletedWithStages

\* While the list can be written, the files and the intent of the native server
\* implement EventSwitch: wherever the process stops, the event, its project and
\* its configuration are all before or all after the switch.
\* (PrepareAsync, RecoverAsync)
THEOREM NativeSwitchIsOneStep ==
  ASSUME "index" \notin FaultyFile
  PROVE  PreparingSpec => SwitchImplemented
<1>1. Native!NativeConstants
  BY PreparingAssumption DEF N!NativeConstants, Native!NativeConstants
<1>2. Native!Spec => Native!SwitchImplemented
  BY <1>1, Native!SwitchIsOneStep
<1>3. Native!SwitchImplemented => N!SwitchImplemented
  BY PTL DEF N!SwitchImplemented, Native!SwitchImplemented, N!Abstract!Spec,
             Native!Abstract!Spec, N!Abstract!Init, Native!Abstract!Init,
             N!Abstract!vars, Native!Abstract!vars, N!Abstract!Switch,
             Native!Abstract!Switch, N!EventNow, Native!EventNow, N!ActiveNow,
             Native!ActiveNow, N!ConfigNow, Native!ConfigNow, N!Switching,
             Native!Switching, N!NoIntent, Native!NoIntent, N!Nobody, Native!Nobody,
             N!Active, Native!Active, N!ToSet, Native!ToSet, N!Mixed, Native!Mixed,
             N!Id, Native!Id
<1> QED
  BY <1>2, <1>3, NativeBehaviour, PTL DEF SwitchImplemented
=============================================================================
