------------------------- MODULE NativeEventsProofs -------------------------
(***************************************************************************)
(* Theorems about preparing an event on the native server: the types, the  *)
(* intent that makes five files change in one step, its project, the       *)
(* receipt, and the results of a project that is completed.                *)
(*                                                                         *)
(* Memory and files differ in three ways: the file of the coordinator may  *)
(* be behind, the switch may be at any of its steps, and the process may   *)
(* start again at any moment.  NativeInv says what still holds between     *)
(* them.  All but the types need the file of the projects to be written:   *)
(* the run v_receipt shows a receipt for a list that was not.              *)
(***************************************************************************)
EXTENDS NativeEvents, SequenceTheorems, TLAPS

\* The identifiers of a list were given before the next one.
Before(ps) == \A i \in DOMAIN ps : ps[i].id < fresh.id

\* Identifiers are given once.
Given ==
  /\ Before(projects) /\ Before(disk.index)
  /\ \A id \in fresh.packages : id < fresh.id

\* A stage of the coordinator's has the event it was raced in.
Filed(c) ==
  /\ c.stage < fresh.stage /\ \A s \in DOMAIN c.history : s < fresh.stage
  /\ c.stage \in DOMAIN c.history => c.history[c.stage].event = c.event
  /\ c.phase = "lobby" => c.stage = 0
  /\ c.phase = "finished" /\ c.stage # 0 => c.stage \in DOMAIN c.history

\* History g has the stages of h, in the events they were raced in.
Extends(g, h) == \A s \in DOMAIN h : s \in DOMAIN g /\ g[s].event = h[s].event

\* The file of the coordinator has no stage that memory does not have.
Behind == Extends(core.history, disk.core.history)

\* The steps that carry out an intent.
Begun == {"room", "hosted", "settings", "activate", "close", "done"}
Working == {"event"} \cup Begun

Carried ==
  /\ job.step \in Working => Switching /\ job.intent = disk.pending
  /\ job.step \in {"check", "intent", "receipt"} => ~Switching /\ Serving
  /\ job.step = "idle" => Serving
  /\ job.step = "intent" /\ job.target # Nobody =>
       \E i \in DOMAIN projects : projects[i].id = job.target /\ projects[i].status = "draft"
  /\ Serving /\ (Switching \/ job.step = "intent") => CanPrepare(core)

\* Every stage of an event in history h is in these results.
HasStages(results, h, event) ==
  {s \in DOMAIN h : h[s].event = event} \subseteq DOMAIN results

\* The active project a switch will complete has its results.
Taken ==
  Switching \/ job.step = "intent" =>
    \A i \in DOMAIN projects :
      projects[i].status = "active" =>
        \/ Switching /\ projects[i].id = disk.pending.project
        \/ /\ HasStages(projects[i].results, core.history, projects[i].event)
           /\ HasStages(projects[i].results, disk.core.history, projects[i].event)

Saved(id) == disk.core.config = id /\ disk.hosted = id /\ disk.settings = id

\* Between two switches memory and files agree on event and configuration, and
\* the active project is the record of both.
Settled ==
  /\ disk.pending.project = Nobody => core.config = disk.core.config
  /\ ~Switching => core.event = disk.core.event
  /\ ~Switching => \A i \in DOMAIN projects :
       projects[i].status = "active" => /\ projects[i].event = core.event
                                        /\ Saved(projects[i].id)

\* What the steps of a switch have done.
Progress ==
  /\ job.step \in Begun => core.event = job.intent.event /\ disk.core.event = job.intent.event
  /\ job.step \in {"room", "hosted", "settings", "activate"} => job.intent.project # Nobody
  /\ job.step = "close" => job.intent.project = Nobody
  /\ job.step \in {"hosted", "settings", "activate", "done"} /\ job.intent.project # Nobody =>
       core.config = job.intent.project /\ disk.core.config = job.intent.project
  /\ job.step \in {"settings", "activate", "done"} /\ job.intent.project # Nobody =>
       disk.hosted = job.intent.project
  /\ job.step \in {"activate", "done"} /\ job.intent.project # Nobody =>
       disk.settings = job.intent.project
  /\ job.step = "done" =>
       \A i \in DOMAIN projects : projects[i].status = "active" =>
         projects[i].id = job.intent.project /\ projects[i].event = job.intent.event
  /\ job.step = "done" /\ job.intent.project # Nobody =>
       \E i \in DOMAIN projects : projects[i].status = "active"
  /\ job.step = "receipt" =>
       /\ disk.core.event = job.intent.event
       /\ \A i \in DOMAIN projects :
            projects[i].status = "active" => projects[i].id = job.intent.project
       /\ job.intent.project # Nobody => \E i \in DOMAIN projects : projects[i].status = "active"

\* The bounds are part of the types, and identifiers are given once.
Types == NativeConstants /\ NativeTypeOK /\ Given

\* The inductive invariant, for a list of projects whose file can be written.
NativeInv ==
  /\ Types /\ "index" \notin FaultyFile /\ disk.index = projects
  /\ Filed(core) /\ Filed(disk.core) /\ Behind
  /\ Carried /\ Taken /\ Settled /\ Progress /\ PendingProjectIsThere

\* The files that are read when the process starts.
Starting ==
  IF disk.pending = NoIntent THEN Idle
  ELSE [Idle EXCEPT !.step = "event", !.by = "start", !.intent = disk.pending]

\* How a write ends that makes c and ps of the memory, d of the files and next of
\* the job: it succeeds, the request is broken off, or the process starts again.
Outcome(c, ps, d, next) ==
  \/ core' = c /\ projects' = ps /\ disk' = d /\ job' = next
  \/ Serving /\ core' = c /\ projects' = ps /\ disk' = disk /\ job' = Idle
  \/ core' = disk.core /\ projects' = disk.index /\ disk' = disk /\ job' = Starting

-----------------------------------------------------------------------------
(* Results, lists and jobs *)

\* The results an event begins with.
LEMMA NoResultsYet == NoResults \in Results
<1>1. << >> \in [{} -> Result]
  OBVIOUS
<1>2. {} \in SUBSET (1..MaxStage)
  OBVIOUS
<1> QED
  BY <1>1, <1>2 DEF Results, NoResults

\* Results are functions from stages to results.
LEMMA ResultsAre ==
  ASSUME NEW h
  PROVE  h \in Results <=>
           /\ h = [s \in DOMAIN h |-> h[s]]
           /\ DOMAIN h \subseteq 1..MaxStage /\ \A s \in DOMAIN h : h[s] \in Result
BY DEF Results

\* Merge gives results, and keeps what the newer ones do not replace.
LEMMA MergeGives ==
  ASSUME NEW old \in Results, NEW new \in Results
  PROVE  /\ Merge(old, new) \in Results
         /\ DOMAIN Merge(old, new) = DOMAIN old \cup DOMAIN new
         /\ \A s \in DOMAIN old \cup DOMAIN new :
              Merge(old, new)[s] = IF s \in DOMAIN new THEN new[s] ELSE old[s]
<1>1. /\ DOMAIN Merge(old, new) = DOMAIN old \cup DOMAIN new
      /\ \A s \in DOMAIN old \cup DOMAIN new :
           Merge(old, new)[s] = IF s \in DOMAIN new THEN new[s] ELSE old[s]
      /\ Merge(old, new) = [s \in DOMAIN Merge(old, new) |-> Merge(old, new)[s]]
  BY Zenon DEF Merge
<1>2. /\ DOMAIN old \subseteq 1..MaxStage /\ \A s \in DOMAIN old : old[s] \in Result
      /\ DOMAIN new \subseteq 1..MaxStage /\ \A s \in DOMAIN new : new[s] \in Result
  BY ResultsAre
<1>3. Merge(old, new) \in Results
  BY <1>1, <1>2, ResultsAre
<1> QED
  BY <1>1, <1>3

\* The results of an event are those of its stages.
LEMMA ResultsOfGives ==
  ASSUME NEW c \in Core, NEW event
  PROVE  /\ ResultsOf(c, event) \in Results
         /\ DOMAIN ResultsOf(c, event) = {s \in DOMAIN c.history : c.history[s].event = event}
<1>1. c.history \in Results
  BY DEF Core
<1>2. DOMAIN c.history \subseteq 1..MaxStage /\ \A s \in DOMAIN c.history : c.history[s] \in Result
  BY <1>1, ResultsAre
<1> DEFINE h == ResultsOf(c, event)
<1>3. /\ DOMAIN h = {s \in DOMAIN c.history : c.history[s].event = event}
      /\ \A s \in DOMAIN h : h[s] = c.history[s]
      /\ h = [s \in DOMAIN h |-> h[s]]
  BY Zenon DEF ResultsOf
<1> HIDE DEF h
<1>4. h \in Results
  BY <1>2, <1>3, ResultsAre
<1> QED
  BY <1>3, <1>4 DEF h

\* Archiving changes the history only, and that only for the stage.
LEMMA ArchivedGives ==
  ASSUME NativeConstants, NEW c \in Core, NEW complete \in BOOLEAN
  PROVE  /\ Archived(c, complete) \in Core
         /\ Archived(c, complete) = [c EXCEPT !.history = Archived(c, complete).history]
         /\ c.stage = 0 => Archived(c, complete) = c
         /\ c.stage # 0 => /\ DOMAIN Archived(c, complete).history = DOMAIN c.history \cup {c.stage}
                           /\ Archived(c, complete).history[c.stage].event = c.event
                           /\ \A s \in DOMAIN c.history \ {c.stage} :
                                Archived(c, complete).history[s] = c.history[s]
<1>1. CASE c.stage = 0
  BY <1>1 DEF Archived, Core
<1>2. CASE c.stage # 0
  <2> DEFINE result == [event |-> c.event, complete |-> complete]
             new == [s \in {c.stage} |-> result]
             h == Merge(c.history, new)
  <2>1. result \in Result /\ c.stage \in 1..MaxStage /\ c.history \in Results
    BY <1>2 DEF Result, Core, NativeConstants
  <2>2. DOMAIN new = {c.stage} /\ new[c.stage] = result /\ result.event = c.event
    OBVIOUS
  <2>3. new \in Results
    BY <2>1, <2>2, ResultsAre
  <2>4. Archived(c, complete) = [c EXCEPT !.history = h]
    BY <1>2 DEF Archived
  <2> HIDE DEF new, result
  <2>5. /\ h \in Results /\ DOMAIN h = DOMAIN c.history \cup {c.stage}
        /\ \A s \in DOMAIN c.history \cup {c.stage} :
             h[s] = IF s \in {c.stage} THEN new[s] ELSE c.history[s]
    BY <2>1, <2>2, <2>3, MergeGives
  <2> HIDE DEF h
  <2>6. Archived(c, complete).history = h
    BY <2>4 DEF Core
  <2>7. Archived(c, complete) \in Core
    BY <2>4, <2>5 DEF Core
  <2> QED
    BY <1>2, <2>2, <2>4, <2>5, <2>6, <2>7
<1> QED
  BY <1>1, <1>2

\* A list, place by place.
LEMMA ListIs ==
  ASSUME NEW ps, IsList(ps)
  PROVE  /\ Len(ps) \in Nat /\ DOMAIN ps = 1..Len(ps) /\ Len(ps) <= MaximumProjects
         /\ ps \in [1..Len(ps) -> Project]
         /\ \A i \in DOMAIN ps : ps[i] \in Project
         /\ \A i, j \in DOMAIN ps : ps[i].id = ps[j].id => i = j
         /\ \A i, j \in DOMAIN ps : ps[i].status = "active" /\ ps[j].status = "active" => i = j
BY LenProperties, ElementOfSeq DEF IsList

\* A list of the same length, from place to place.
LEMMA ListFrom ==
  ASSUME NEW ps, IsList(ps), NEW qs, qs = [i \in DOMAIN ps |-> qs[i]],
         \A i \in DOMAIN ps : qs[i] \in Project /\ qs[i].id = ps[i].id,
         \A i, j \in DOMAIN ps : qs[i].status = "active" /\ qs[j].status = "active" => i = j
  PROVE  IsList(qs) /\ DOMAIN qs = DOMAIN ps /\ Len(qs) = Len(ps)
<1>1. Len(ps) \in Nat /\ DOMAIN ps = 1..Len(ps) /\ Len(ps) <= MaximumProjects
  BY ListIs
<1>2. DOMAIN qs = 1..Len(ps) /\ qs \in [1..Len(ps) -> Project]
  BY <1>1, Zenon
<1>3. qs \in Seq(Project)
  BY <1>1, <1>2, SeqDef
<1>4. Len(qs) = Len(ps)
  BY <1>1, <1>2, <1>3, LenProperties
<1>5. \A i, j \in DOMAIN qs : qs[i].id = qs[j].id => i = j
  BY <1>1, <1>2, ListIs
<1>6. \A i, j \in DOMAIN qs : qs[i].status = "active" /\ qs[j].status = "active" => i = j
  BY <1>1, <1>2
<1> QED
  BY <1>1, <1>2, <1>3, <1>4, <1>5, <1>6 DEF IsList

\* SyncActive touches the results of the active project only.
LEMMA SyncedGives ==
  ASSUME NEW ps, IsList(ps), core \in Core
  PROVE  /\ IsList(Synced(ps)) /\ DOMAIN Synced(ps) = DOMAIN ps /\ Len(Synced(ps)) = Len(ps)
         /\ \A i \in DOMAIN ps :
              /\ Synced(ps)[i].id = ps[i].id /\ Synced(ps)[i].status = ps[i].status
              /\ Synced(ps)[i].event = ps[i].event
              /\ DOMAIN ps[i].results \subseteq DOMAIN Synced(ps)[i].results
              /\ ps[i].status = "active" =>
                   {s \in DOMAIN core.history : core.history[s].event = ps[i].event}
                     \subseteq DOMAIN Synced(ps)[i].results
<1> DEFINE qs == Synced(ps)
<1>1. /\ qs = [i \in DOMAIN ps |-> qs[i]]
      /\ \A i \in DOMAIN ps :
           qs[i] = IF ps[i].status # "active" THEN ps[i]
                   ELSE [ps[i] EXCEPT
                           !.results = Merge(ps[i].results, ResultsOf(core, ps[i].event))]
  BY DEF Synced
<1>2. ASSUME NEW i \in DOMAIN ps
      PROVE  /\ qs[i] \in Project /\ qs[i].id = ps[i].id
             /\ qs[i].status = ps[i].status /\ qs[i].event = ps[i].event
             /\ DOMAIN ps[i].results \subseteq DOMAIN qs[i].results
             /\ ps[i].status = "active" =>
                  {s \in DOMAIN core.history : core.history[s].event = ps[i].event}
                    \subseteq DOMAIN qs[i].results
  <2> HIDE DEF qs
  <2>1. ps[i] \in Project /\ ps[i].results \in Results
    BY ListIs DEF Project
  <2>2. CASE ps[i].status # "active"
    BY <1>1, <2>1, <2>2
  <2>3. CASE ps[i].status = "active"
    <3> DEFINE found == ResultsOf(core, ps[i].event)
               h == Merge(ps[i].results, found)
    <3>1. /\ found \in Results
          /\ DOMAIN found = {s \in DOMAIN core.history : core.history[s].event = ps[i].event}
      BY ResultsOfGives
    <3> HIDE DEF found
    <3>2. h \in Results /\ DOMAIN h = DOMAIN ps[i].results \cup DOMAIN found
      BY <2>1, <3>1, MergeGives
    <3>3. qs[i] = [ps[i] EXCEPT !.results = h]
      BY <1>1, <2>3 DEF found
    <3> HIDE DEF h
    <3>4. /\ qs[i] \in Project /\ qs[i].id = ps[i].id /\ qs[i].results = h
          /\ qs[i].status = ps[i].status /\ qs[i].event = ps[i].event
      BY <2>1, <3>2, <3>3 DEF Project
    <3> QED
      BY <2>3, <3>1, <3>2, <3>4
  <2> QED
    BY <2>2, <2>3
<1> HIDE DEF qs
<1>3. \A i, j \in DOMAIN ps : qs[i].status = "active" /\ qs[j].status = "active" => i = j
  BY <1>2, ListIs
<1>4. IsList(qs) /\ DOMAIN qs = DOMAIN ps /\ Len(qs) = Len(ps)
  BY <1>1, <1>2, <1>3, ListFrom
<1> QED
  BY <1>2, <1>4 DEF qs

\* The list with a project added.
LEMMA AppendedIs ==
  ASSUME NativeConstants, NEW ps, IsList(ps), Len(ps) < MaximumProjects,
         NEW p \in Project, p.id \notin Ids(ps), p.status # "active"
  PROVE  /\ IsList(Append(ps, p)) /\ Len(ps) + 1 \notin DOMAIN ps
         /\ DOMAIN Append(ps, p) = DOMAIN ps \cup {Len(ps) + 1}
         /\ \A i \in DOMAIN ps : Append(ps, p)[i] = ps[i]
         /\ Append(ps, p)[Len(ps) + 1] = p
<1>1. ps \in Seq(Project) /\ Len(ps) \in Nat /\ DOMAIN ps = 1..Len(ps)
  BY ListIs DEF IsList
<1> DEFINE qs == Append(ps, p)
<1>2. /\ qs \in Seq(Project) /\ Len(qs) = Len(ps) + 1
      /\ \A i \in 1..Len(ps) : qs[i] = ps[i]
      /\ qs[Len(ps) + 1] = p
  BY <1>1, AppendProperties
<1> HIDE DEF qs
<1>3. DOMAIN qs = 1..(Len(ps) + 1)
  BY <1>2, LenProperties
<1>4. DOMAIN qs = DOMAIN ps \cup {Len(ps) + 1} /\ Len(ps) + 1 \notin DOMAIN ps
  BY <1>1, <1>3
<1>5. ASSUME NEW i \in DOMAIN qs, NEW j \in DOMAIN qs, qs[i].id = qs[j].id
      PROVE  i = j
  <2>1. \A k \in DOMAIN ps : ps[k].id # p.id
    BY DEF Ids
  <2>2. \A k, m \in DOMAIN ps : ps[k].id = ps[m].id => k = m
    BY ListIs
  <2> QED
    BY <1>1, <1>2, <1>4, <1>5, <2>1, <2>2
<1>6. Len(qs) <= MaximumProjects
  BY <1>1, <1>2 DEF NativeConstants
<1>7. ASSUME NEW i \in DOMAIN qs, NEW j \in DOMAIN qs,
             qs[i].status = "active", qs[j].status = "active"
      PROVE  i = j
  <2>1. i \in DOMAIN ps /\ j \in DOMAIN ps
    BY <1>2, <1>4, <1>7
  <2> QED
    BY <1>1, <1>2, <1>7, <2>1, ListIs
<1>8. IsList(qs)
  BY <1>2, <1>5, <1>6, <1>7 DEF IsList
<1> QED
  BY <1>1, <1>2, <1>4, <1>8 DEF qs

\* The list without one project.
LEMMA RemovedIs ==
  ASSUME NativeConstants, NEW ps, IsList(ps), NEW i \in DOMAIN ps
  PROVE  LET qs == RemoveAt(ps, i)
         IN  /\ IsList(qs)
             /\ \A j \in DOMAIN qs : \E k \in DOMAIN ps : k # i /\ qs[j] = ps[k]
             /\ \A k \in DOMAIN ps : k # i => \E j \in DOMAIN qs : qs[j] = ps[k]
<1>1. /\ ps \in Seq(Project) /\ Len(ps) \in Nat /\ DOMAIN ps = 1..Len(ps) /\ i \in 1..Len(ps)
      /\ Len(ps) <= MaximumProjects
      /\ \A k \in 1..Len(ps) : ps[k] \in Project
  BY ListIs DEF IsList
<1> DEFINE before == SubSeq(ps, 1, i - 1)
           after == SubSeq(ps, i + 1, Len(ps))
           qs == before \o after
<1>2. /\ before \in Seq(Project) /\ Len(before) = i - 1
      /\ \A k \in 1..(i - 1) : before[k] = ps[k]
  <2>1. /\ SubSeq(ps, 1, i - 1) \in Seq(Project)
        /\ Len(SubSeq(ps, 1, i - 1)) = IF 1 <= i - 1 THEN i - 1 - 1 + 1 ELSE 0
        /\ \A k \in 1..i - 1 - 1 + 1 : SubSeq(ps, 1, i - 1)[k] = ps[1 + k - 1]
    BY <1>1, SubSeqProperties
  <2> QED
    BY <1>1, <2>1
<1>3. /\ after \in Seq(Project) /\ Len(after) = Len(ps) - i
      /\ \A k \in 1..(Len(ps) - i) : after[k] = ps[i + k]
  <2>1. /\ SubSeq(ps, i + 1, Len(ps)) \in Seq(Project)
        /\ Len(SubSeq(ps, i + 1, Len(ps))) =
             IF i + 1 <= Len(ps) THEN Len(ps) - (i + 1) + 1 ELSE 0
        /\ \A k \in 1..Len(ps) - (i + 1) + 1 : SubSeq(ps, i + 1, Len(ps))[k] = ps[i + 1 + k - 1]
    BY <1>1, SubSeqProperties
  <2> QED
    BY <1>1, <2>1, SMTT(30)
<1> HIDE DEF before, after
<1>4. /\ qs \in Seq(Project) /\ Len(qs) = Len(ps) - 1
      /\ \A k \in 1..Len(ps) - 1 : qs[k] = IF k <= i - 1 THEN before[k] ELSE after[k - (i - 1)]
  <2>1. /\ qs \in Seq(Project) /\ Len(qs) = Len(before) + Len(after)
        /\ \A k \in 1..Len(before) + Len(after) :
             qs[k] = IF k <= Len(before) THEN before[k] ELSE after[k - Len(before)]
    BY <1>2, <1>3, ConcatProperties
  <2> QED
    BY <1>1, <1>2, <1>3, <2>1
<1> HIDE DEF qs
<1>5. \A k \in 1..Len(ps) - 1 : qs[k] = ps[IF k < i THEN k ELSE k + 1]
  <2> SUFFICES ASSUME NEW k \in 1..Len(ps) - 1
               PROVE  qs[k] = ps[IF k < i THEN k ELSE k + 1]
    OBVIOUS
  <2>1. CASE k < i
    <3>1. k <= i - 1 /\ k \in 1..(i - 1)
      BY <1>1, <2>1
    <3> QED
      BY <1>2, <1>4, <2>1, <3>1
  <2>2. CASE ~(k < i)
    <3>1. ~(k <= i - 1) /\ k - (i - 1) \in 1..(Len(ps) - i) /\ i + (k - (i - 1)) = k + 1
      BY <1>1, <2>2
    <3> QED
      BY <1>3, <1>4, <2>2, <3>1
  <2> QED
    BY <2>1, <2>2
<1>6. DOMAIN qs = 1..Len(ps) - 1
  BY <1>4, LenProperties
<1>7. ASSUME NEW j \in DOMAIN qs
      PROVE  \E k \in DOMAIN ps : k # i /\ qs[j] = ps[k] /\ k = IF j < i THEN j ELSE j + 1
  <2>1. (IF j < i THEN j ELSE j + 1) \in 1..Len(ps) /\ (IF j < i THEN j ELSE j + 1) # i
    BY <1>1, <1>6
  <2> QED
    BY <1>1, <1>5, <1>6, <2>1
<1>8. ASSUME NEW k \in DOMAIN ps, k # i
      PROVE  \E j \in DOMAIN qs : qs[j] = ps[k]
  <2>1. CASE k < i
    <3>1. k \in 1..Len(ps) - 1
      BY <1>1, <2>1
    <3> QED
      BY <1>5, <1>6, <2>1, <3>1
  <2>2. CASE ~(k < i)
    <3>1. k - 1 \in 1..Len(ps) - 1 /\ ~(k - 1 < i) /\ (k - 1) + 1 = k
      BY <1>1, <1>8, <2>2
    <3> QED
      BY <1>5, <1>6, <3>1
  <2> QED
    BY <2>1, <2>2
<1>9. ASSUME NEW j \in DOMAIN qs, NEW m \in DOMAIN qs, qs[j].id = qs[m].id
      PROVE  j = m
  <2>1. PICK k \in DOMAIN ps : qs[j] = ps[k] /\ k = IF j < i THEN j ELSE j + 1
    BY <1>7
  <2>2. PICK l \in DOMAIN ps : qs[m] = ps[l] /\ l = IF m < i THEN m ELSE m + 1
    BY <1>7
  <2>3. k = l
    BY <1>9, <2>1, <2>2, ListIs
  <2> QED
    BY <1>1, <1>6, <2>1, <2>2, <2>3
<1>10. ASSUME NEW j \in DOMAIN qs, NEW m \in DOMAIN qs,
              qs[j].status = "active", qs[m].status = "active"
       PROVE  j = m
  <2>1. PICK k \in DOMAIN ps : qs[j] = ps[k] /\ k = IF j < i THEN j ELSE j + 1
    BY <1>7
  <2>2. PICK l \in DOMAIN ps : qs[m] = ps[l] /\ l = IF m < i THEN m ELSE m + 1
    BY <1>7
  <2>3. k = l
    BY <1>10, <2>1, <2>2, ListIs
  <2> QED
    BY <1>1, <1>6, <2>1, <2>2, <2>3
<1>11. IsList(qs)
  <2>1. Len(qs) <= MaximumProjects
    BY <1>1, <1>4 DEF NativeConstants
  <2> QED
    BY <1>4, <1>9, <1>10, <2>1 DEF IsList
<1>12. RemoveAt(ps, i) = qs
  BY DEF RemoveAt, qs, before, after
<1> QED
  BY <1>7, <1>8, <1>11, <1>12

-----------------------------------------------------------------------------
(* Types *)

\* A job may always be given up, and the start of the process has one.
LEMMA JobsAre ==
  ASSUME Types
  PROVE  /\ Idle \in Job /\ Starting \in Job
         /\ \A step \in Step : At(step) \in Job
<1>1. 0 \in 0..MaxId /\ "idle" \in Step /\ "event" \in Step
  BY DEF Types, NativeConstants, Step
<1>2. Idle \in Job
  BY <1>1 DEF Idle, Job, NoIntent, Nobody
<1>3. disk.pending \in [event : 0..MaxId, project : 0..MaxId]
  <2>1. disk.pending \in Intent \cup {NoIntent}
    BY DEF Types, NativeTypeOK, Files
  <2>2. NoIntent \in [event : 0..MaxId, project : 0..MaxId]
    BY <1>1 DEF NoIntent, Nobody
  <2>3. Id \subseteq 0..MaxId /\ Id \cup {Nobody} \subseteq 0..MaxId
    BY <1>1 DEF Id, Nobody, Types, NativeConstants
  <2>4. Intent \subseteq [event : 0..MaxId, project : 0..MaxId]
    BY <2>3 DEF Intent
  <2> QED
    BY <2>1, <2>2, <2>4
<1>4. Starting \in Job
  BY <1>1, <1>2, <1>3 DEF Starting, Idle, Job, Nobody, NoIntent
<1>5. \A step \in Step : At(step) \in Job
  BY DEF At, Job, Types, NativeTypeOK
<1> QED
  BY <1>2, <1>4, <1>5

\* What is kept of what is given out.
Gives ==
  /\ fresh' \in Fresh /\ fresh.id <= fresh'.id /\ fresh.stage <= fresh'.stage
  /\ \A id \in fresh'.packages : id < fresh'.id

\* A list the memory may have next.
Listable(ps) == IsList(ps) /\ \A i \in DOMAIN ps : ps[i].id < fresh'.id

\* Nothing is given out.
LEMMA NothingGiven ==
  ASSUME Types, fresh' = fresh
  PROVE  Gives
<1>1. fresh \in Fresh /\ \A id \in fresh.packages : id < fresh.id
  BY DEF Types, NativeTypeOK, Given
<1>2. fresh.id \in Nat /\ fresh.stage \in Nat
  BY <1>1 DEF Fresh, Types, NativeConstants
<1> QED
  BY <1>1, <1>2 DEF Gives

\* The lists there are remain possible.
LEMMA ListsStayListable ==
  ASSUME Types, Gives
  PROVE  Listable(projects) /\ Listable(disk.index)
<1>1. fresh \in Fresh /\ IsList(projects) /\ IsList(disk.index) /\ Before(projects)
      /\ Before(disk.index) /\ MaxId \in Nat
  BY DEF Types, NativeTypeOK, Given, NativeConstants
<1>2. fresh.id \in Nat /\ fresh'.id \in Nat /\ fresh.id <= fresh'.id
  BY <1>1 DEF Fresh, Gives
<1>3. ASSUME NEW ps, IsList(ps), Before(ps)
      PROVE  Listable(ps)
  <2>1. \A i \in DOMAIN ps : ps[i].id \in Nat
    BY <1>1, <1>3, ListIs DEF Project, Id
  <2> QED
    BY <1>2, <1>3, <2>1 DEF Listable, Before
<1> QED
  BY <1>1, <1>3

\* However a write ends, the types are kept.
LEMMA TypedOutcome ==
  ASSUME Types, Gives, NEW c \in Core, NEW ps, Listable(ps), NEW d \in Files,
         d.index \in {disk.index, ps}, NEW next \in Job, Outcome(c, ps, d, next)
  PROVE  Types'
<1>1. Listable(projects) /\ Listable(disk.index)
  BY ListsStayListable
<1>2. Listable(projects') /\ Listable(disk'.index)
  BY <1>1 DEF Outcome
<1>3. disk.core \in Core /\ disk \in Files /\ Idle \in Job /\ Starting \in Job
  BY JobsAre DEF Types, NativeTypeOK, Files
<1>4. core' \in Core /\ disk' \in Files /\ job' \in Job
  BY <1>3 DEF Outcome
<1>5. NativeTypeOK'
  BY <1>2, <1>4 DEF NativeTypeOK, Listable, Gives
<1>6. Given'
  BY <1>2 DEF Given, Before, Listable, Gives
<1> QED
  BY <1>5, <1>6 DEF Types

\* A write ends in one of these ways.
LEMMA WriteEnds ==
  ASSUME NEW file, NEW value, NEW c, NEW ps, NEW d, d = [disk EXCEPT ![file] = value],
         NEW next, Write(file, value, c, ps, next)
  PROVE  Outcome(c, ps, d, next)
BY DEF Write, Abort, Start, Outcome, Starting, Serving

\* So does a refusal.
LEMMA RefusalEnds ==
  ASSUME Refuse, NEW c, c = core, NEW ps, ps = projects, NEW d, d = disk, NEW next
  PROVE  Outcome(c, ps, d, next)
BY DEF Refuse, Abort, Start, Outcome, Starting, Serving

\* A write of the coordinator's file, after which the job goes on with next.
CoreWritten(c, next) == Write("core", c, c, projects, next)

\* A write of the coordinator's file keeps the types.
LEMMA CoreWrittenTyped ==
  ASSUME Types, Gives, NEW c \in Core, NEW next \in Job, CoreWritten(c, next)
  PROVE  Types'
<1>1. PICK d : d = [disk EXCEPT !["core"] = c]
  OBVIOUS
<1>2. PICK ps : ps = projects
  OBVIOUS
<1>3. Write("core", c, c, ps, next)
  BY <1>2 DEF CoreWritten
<1>4. Outcome(c, ps, d, next)
  BY <1>1, <1>3, WriteEnds
<1>5. disk \in Files
  BY DEF Types, NativeTypeOK
<1>6. d \in Files /\ d.index = disk.index
  BY <1>1, <1>5 DEF Files
<1>7. Listable(ps)
  BY <1>2, ListsStayListable
<1> QED
  BY <1>4, <1>6, <1>7, TypedOutcome

\* A write of the list.
ListWritten(ps, next) == SaveList(ps, next)

\* So does a write of the list.
LEMMA ListWrittenTyped ==
  ASSUME Types, Gives, NEW ps, Listable(ps), NEW next \in Job, ListWritten(ps, next)
  PROVE  Types'
<1>1. PICK d : d = [disk EXCEPT !["index"] = ps]
  OBVIOUS
<1>2. PICK c : c = core
  OBVIOUS
<1>3. Write("index", ps, c, ps, next)
  BY <1>2 DEF ListWritten, SaveList
<1>4. Outcome(c, ps, d, next)
  BY <1>1, <1>3, WriteEnds
<1>5. disk \in Files /\ c \in Core /\ ps \in Seq(Project)
  BY <1>2 DEF Types, NativeTypeOK, Listable, IsList
<1>6. d \in Files /\ d.index = ps
  BY <1>1, <1>5 DEF Files
<1> QED
  BY <1>4, <1>5, <1>6, TypedOutcome

\* A write of the intent, the hosted files or the settings.
PartWritten(part, value, next) == Write(part, value, core, projects, next)

\* And a write of the intent, the hosted files or the settings.
LEMMA PartWrittenTyped ==
  ASSUME Types, Gives, NEW part, NEW value, NEW next \in Job, PartWritten(part, value, next),
         \/ part = "pending" /\ value \in Intent \cup {NoIntent}
         \/ part \in {"hosted", "settings"} /\ value \in 0..MaxId
  PROVE  Types'
<1>1. PICK d : d = [disk EXCEPT ![part] = value]
  OBVIOUS
<1>2. PICK c, ps : c = core /\ ps = projects
  OBVIOUS
<1>3. Write(part, value, c, ps, next)
  BY <1>2 DEF PartWritten
<1>4. Outcome(c, ps, d, next)
  BY <1>1, <1>3, WriteEnds
<1>5. disk \in Files /\ c \in Core
  BY <1>2 DEF Types, NativeTypeOK
<1>6. d \in Files /\ d.index = disk.index
  <2>1. CASE part = "pending" /\ value \in Intent \cup {NoIntent}
    BY <1>1, <1>5, <2>1 DEF Files
  <2>2. CASE part = "hosted" /\ value \in 0..MaxId
    BY <1>1, <1>5, <2>2 DEF Files
  <2>3. CASE part = "settings" /\ value \in 0..MaxId
    BY <1>1, <1>5, <2>3 DEF Files
  <2> QED
    BY <2>1, <2>2, <2>3
<1>7. Listable(ps)
  BY <1>2, ListsStayListable
<1> QED
  BY <1>4, <1>5, <1>6, <1>7, TypedOutcome

\* A step that writes nothing does.
LEMMA JobStepTyped ==
  ASSUME Types, Gives, UNCHANGED <<core, projects, disk>>, job' \in Job
  PROVE  Types'
<1>1. PICK c, ps, d, next : c = core /\ ps = projects /\ d = disk /\ next = job'
  OBVIOUS
<1>2. Outcome(c, ps, d, next)
  BY <1>1 DEF Outcome
<1>3. c \in Core /\ Listable(ps) /\ d \in Files /\ d.index \in {disk.index, ps} /\ next \in Job
  BY <1>1, ListsStayListable DEF Types, NativeTypeOK
<1> QED
  BY <1>2, <1>3, TypedOutcome

\* And a refusal.
LEMMA RefusalTyped ==
  ASSUME Types, Gives, Refuse
  PROVE  Types'
<1>1. PICK c, ps, d, next : c = core /\ ps = projects /\ d = disk /\ next = job
  OBVIOUS
<1>2. Outcome(c, ps, d, next)
  BY <1>1, RefusalEnds
<1>3. /\ c \in Core /\ Listable(ps) /\ d \in Files /\ d.index \in {disk.index, ps}
      /\ next \in Job
  BY <1>1, ListsStayListable DEF Types, NativeTypeOK
<1> QED
  BY <1>2, <1>3, TypedOutcome

\* Numbers that are given out.
LEMMA Bounded ==
  ASSUME Types
  PROVE  /\ MaxId \in Nat /\ MaxStage \in Nat /\ MaximumProjects \in Nat
         /\ fresh.id \in 1..MaxId + 1 /\ fresh.stage \in 1..MaxStage + 1
         /\ fresh.packages \subseteq Id
         /\ 0 \in 0..MaxStage /\ 0 \in 0..MaxId
         /\ core \in Core /\ IsList(projects) /\ disk \in Files /\ IsList(disk.index)
         /\ job \in Job /\ fresh \in Fresh /\ disk.core \in Core
BY DEF Types, NativeConstants, NativeTypeOK, Fresh, Files

\* An identifier is given out, one that nothing has.
LEMMA TakeIdGives ==
  ASSUME Types, TakeId
  PROVE  Gives /\ fresh.id \in Id /\ fresh.id < fresh'.id
<1>1. fresh \in Fresh /\ MaxId \in Nat /\ fresh.id \in Id /\ fresh' = [fresh EXCEPT !.id = @ + 1]
      /\ MaxStage \in Nat
  BY Bounded DEF TakeId
<1>2. fresh.id + 1 \in 1..MaxId + 1
  BY <1>1 DEF Id
<1>3. fresh' \in Fresh /\ fresh'.id = fresh.id + 1 /\ fresh'.stage = fresh.stage
      /\ fresh'.packages = fresh.packages
  BY <1>1, <1>2, Zenon DEF Fresh
<1>4. fresh.id \in Nat /\ fresh.stage \in Nat /\ \A id \in fresh.packages : id \in Nat
  BY <1>1 DEF Fresh, Id
<1>5. \A id \in fresh.packages : id < fresh.id
  BY DEF Types, Given
<1> QED
  BY <1>1, <1>3, <1>4, <1>5 DEF Gives

\* A race on a stage not given before.
LEMMA StartRaceGives ==
  ASSUME Types, StartRace
  PROVE  /\ Gives /\ fresh'.stage = fresh.stage + 1
         /\ [core EXCEPT !.phase = "race", !.stage = fresh.stage] \in Core
<1>1. /\ fresh \in Fresh /\ MaxId \in Nat /\ MaxStage \in Nat /\ fresh.stage <= MaxStage
      /\ fresh' = [fresh EXCEPT !.stage = @ + 1] /\ core \in Core
  BY Bounded DEF StartRace
<1>2. fresh.stage + 1 \in 1..MaxStage + 1 /\ fresh.stage \in 0..MaxStage
  BY <1>1 DEF Fresh
<1>3. fresh' \in Fresh /\ fresh'.stage = fresh.stage + 1 /\ fresh'.id = fresh.id
      /\ fresh'.packages = fresh.packages
  BY <1>1, <1>2, Zenon DEF Fresh
<1>4. fresh.id \in Nat /\ fresh.stage \in Nat
  BY <1>1 DEF Fresh
<1>5. \A id \in fresh.packages : id < fresh.id
  BY DEF Types, Given
<1>6. Gives
  BY <1>3, <1>4, <1>5 DEF Gives
<1>7. [core EXCEPT !.phase = "race", !.stage = fresh.stage] \in Core
  BY <1>1, <1>2 DEF Core
<1> QED
  BY <1>3, <1>6, <1>7

\* A race starts on the next stage.
LEMMA StartRaceTyped == ASSUME Types, StartRace PROVE Types'
<1>1. PICK c, next : c = [core EXCEPT !.phase = "race", !.stage = fresh.stage] /\ next = job
  OBVIOUS
<1>2. CoreWritten(c, next)
  BY <1>1 DEF StartRace, Commit, CoreWritten
<1>3. c \in Core /\ next \in Job /\ Gives
  BY <1>1, StartRaceGives, Bounded
<1> QED
  BY <1>2, <1>3, CoreWrittenTyped

\* The room after the race: in the lobby, or at the results.
LEMMA LobbyGives ==
  ASSUME Types, NEW complete \in BOOLEAN, NEW event \in 0..MaxId
  PROVE  LET a == Archived(core, complete)
         IN  /\ a \in Core /\ [a EXCEPT !.phase = "finished"] \in Core
             /\ [a EXCEPT !.phase = "lobby", !.stage = 0] \in Core
             /\ [a EXCEPT !.event = event, !.phase = "lobby", !.stage = 0] \in Core
<1> DEFINE a == Archived(core, complete)
<1>1. a \in Core /\ 0 \in 0..MaxStage
  BY Bounded, ArchivedGives DEF Types
<1> HIDE DEF a
<1>2. [a EXCEPT !.phase = "finished"] \in Core
  BY <1>1, Zenon DEF Core
<1>3. PICK b : b = [a EXCEPT !.phase = "lobby"]
  OBVIOUS
<1>4. b \in Core
  BY <1>1, <1>3, Zenon DEF Core
<1>5. [b EXCEPT !.stage = 0] = [a EXCEPT !.phase = "lobby", !.stage = 0]
  BY <1>3
<1>6. [b EXCEPT !.stage = 0] \in Core
  BY <1>1, <1>4 DEF Core
<1>7. PICK e : e = [a EXCEPT !.event = event]
  OBVIOUS
<1>8. e \in Core
  BY <1>1, <1>7, Zenon DEF Core
<1>9. PICK f : f = [e EXCEPT !.phase = "lobby"]
  OBVIOUS
<1>10. f \in Core
  BY <1>8, <1>9, Zenon DEF Core
<1>11. [f EXCEPT !.stage = 0] = [a EXCEPT !.event = event, !.phase = "lobby", !.stage = 0]
  BY <1>7, <1>9
<1>12. [f EXCEPT !.stage = 0] \in Core
  BY <1>1, <1>10 DEF Core
<1> QED
  BY <1>1, <1>2, <1>5, <1>6, <1>11, <1>12 DEF a

\* Back in the lobby the coordinator has its types.
LEMMA ToLobbyTyped == ASSUME Types, ToLobby PROVE Types'
<1>1. PICK c, next :
        /\ c = [Archived(core, core.phase = "finished") EXCEPT !.phase = "lobby", !.stage = 0]
        /\ next = job
  OBVIOUS
<1>2. CoreWritten(c, next)
  BY <1>1 DEF ToLobby, Commit, CoreWritten
<1>3. c \in Core /\ next \in Job
  BY <1>1, LobbyGives, Bounded
<1>4. Gives
  BY NothingGiven DEF ToLobby
<1> QED
  BY <1>2, <1>3, <1>4, CoreWrittenTyped

\* And at the results of the race, whether they reach its file or not.
LEMMA FinishRaceTyped == ASSUME Types, FinishRace PROVE Types'
<1>1. PICK c, ps, next, d :
        /\ c = [Archived(core, TRUE) EXCEPT !.phase = "finished"] /\ ps = projects /\ next = job
        /\ d = [disk EXCEPT !.core = c]
  OBVIOUS
<1>2. Outcome(c, ps, d, next) \/ Outcome(c, ps, disk, next)
  BY <1>1 DEF FinishRace, Outcome
<1>3. c \in Core /\ next \in Job /\ disk \in Files
  BY <1>1, LobbyGives, Bounded
<1>4. d \in Files /\ d.index = disk.index
  BY <1>1, <1>3 DEF Files
<1>5. Gives
  BY NothingGiven DEF FinishRace
<1>6. Listable(ps)
  BY <1>1, <1>5, ListsStayListable
<1>7. PICK e : e = disk
  OBVIOUS
<1> QED
  BY <1>2, <1>3, <1>4, <1>5, <1>6, <1>7, TypedOutcome

\* A new project, under an identifier that is not listed.
LEMMA DraftIs ==
  ASSUME Types, NEW id \in Id
  PROVE  Draft(id) \in Project /\ Draft(id).id = id /\ Draft(id).status = "draft"
         /\ Draft(id).event = 0
BY Bounded, NoResultsYet DEF Draft, Project, Nobody

\* A list may have a draft added under an identifier it does not have.
LEMMA DraftListable ==
  ASSUME Types, Gives, NEW ps, IsList(ps), Before(ps), Len(ps) < MaximumProjects,
         NEW id \in Id, id < fresh'.id, id \notin Ids(ps)
  PROVE  /\ Listable(Append(ps, Draft(id)))
         /\ DOMAIN Append(ps, Draft(id)) = DOMAIN ps \cup {Len(ps) + 1}
         /\ Len(ps) + 1 \notin DOMAIN ps
         /\ \A i \in DOMAIN ps : Append(ps, Draft(id))[i] = ps[i]
         /\ Append(ps, Draft(id))[Len(ps) + 1] = Draft(id)
<1>1. PICK p : p = Draft(id)
  OBVIOUS
<1>2. p \in Project /\ p.id = id /\ p.status # "active"
  BY <1>1, DraftIs
<1>3. PICK qs : qs = Append(ps, p)
  OBVIOUS
<1>4. /\ IsList(qs) /\ Len(ps) + 1 \notin DOMAIN ps
      /\ DOMAIN qs = DOMAIN ps \cup {Len(ps) + 1}
      /\ \A i \in DOMAIN ps : qs[i] = ps[i]
      /\ qs[Len(ps) + 1] = p
  BY <1>2, <1>3, AppendedIs DEF Types
<1>5. \A i \in DOMAIN ps : ps[i].id < fresh.id /\ ps[i].id \in Nat
  BY ListIs, Bounded DEF Before, Project, Id
<1>6. fresh.id \in Nat /\ fresh'.id \in Nat /\ fresh.id <= fresh'.id
  BY Bounded DEF Gives, Fresh
<1>7. Listable(qs)
  BY <1>2, <1>4, <1>5, <1>6 DEF Listable
<1> QED
  BY <1>1, <1>3, <1>4, <1>7

\* Bringing the list up to date keeps it possible.
LEMMA SyncedListable ==
  ASSUME Types, Gives, NEW ps, Listable(ps)
  PROVE  Listable(Synced(ps))
<1>1. PICK qs : qs = Synced(ps)
  OBVIOUS
<1>2. IsList(qs) /\ DOMAIN qs = DOMAIN ps /\ \A i \in DOMAIN ps : qs[i].id = ps[i].id
  BY <1>1, SyncedGives, Bounded DEF Listable
<1> QED
  BY <1>1, <1>2 DEF Listable

\* A project that is created or copied takes the next identifier.
LEMMA NewDraftTyped == ASSUME Types, NewDraft PROVE Types'
<1>1. TakeId /\ Gives /\ fresh.id \in Id /\ fresh.id < fresh'.id
  BY TakeIdGives DEF NewDraft
<1>2. PICK qs : qs \in {Synced(projects), projects} /\ SaveList(Append(qs, Draft(fresh.id)), job)
  BY DEF NewDraft
<1>3. PICK ps, next : ps = Append(qs, Draft(fresh.id)) /\ next = job
  OBVIOUS
<1>4. ListWritten(ps, next)
  BY <1>2, <1>3 DEF ListWritten
<1>5. IsList(projects) /\ Before(projects) /\ core \in Core
  BY Bounded DEF Types, Given
<1>6. /\ IsList(qs) /\ DOMAIN qs = DOMAIN projects
      /\ \A i \in DOMAIN projects : qs[i].id = projects[i].id
  BY <1>2, <1>5, SyncedGives
<1>7. Len(qs) < MaximumProjects
  <2>1. Len(qs) = Len(projects)
    BY <1>2, <1>5, SyncedGives
  <2> QED
    BY <2>1 DEF NewDraft, HasRoom
<1>8. Before(qs) /\ fresh.id \notin Ids(qs)
  <2>1. \A i \in DOMAIN qs : qs[i].id < fresh.id /\ qs[i].id \in Nat
    BY <1>5, <1>6, ListIs DEF Before, Project, Id
  <2>2. fresh.id \in Nat
    BY Bounded
  <2> QED
    BY <2>1, <2>2 DEF Before, Ids
<1>9. Listable(Append(qs, Draft(fresh.id)))
  BY <1>1, <1>6, <1>7, <1>8, DraftListable
<1> QED
  BY <1>1, <1>3, <1>4, <1>9, Bounded, ListWrittenTyped

\* An imported one keeps its identifier unless that is listed.
LEMMA ImportTyped == ASSUME Types, NEW package \in Package, Import(package) PROVE Types'
<1>1. /\ IsList(projects) /\ Before(projects) /\ Len(projects) < MaximumProjects
      /\ package \in fresh.packages /\ package \in Id /\ package < fresh.id
  BY Bounded DEF Types, Given, Import, HasRoom
<1>2. PICK id \in Id :
        /\ Gives /\ id < fresh'.id /\ id \notin Ids(projects)
        /\ SaveList(Append(projects, Draft(id)), job)
  <2>1. CASE package \in Ids(projects)
    <3>1. TakeId /\ SaveList(Append(projects, Draft(fresh.id)), job)
      BY <2>1 DEF Import
    <3>2. Gives /\ fresh.id \in Id /\ fresh.id < fresh'.id
      BY <3>1, TakeIdGives
    <3>3. fresh.id \notin Ids(projects)
      <4>1. \A i \in DOMAIN projects : projects[i].id < fresh.id /\ projects[i].id \in Nat
        BY <1>1, ListIs DEF Before, Project, Id
      <4> QED
        BY <4>1, Bounded DEF Ids
    <3> QED
      BY <3>1, <3>2, <3>3
  <2>2. CASE package \notin Ids(projects)
    <3>1. fresh' = fresh /\ SaveList(Append(projects, Draft(package)), job)
      BY <2>2 DEF Import
    <3> QED
      BY <1>1, <2>2, <3>1, NothingGiven
  <2> QED
    BY <2>1, <2>2
<1>3. PICK qs, ps, next :
        qs = projects /\ ps = Append(projects, Draft(id)) /\ next = job
  OBVIOUS
<1>4. ListWritten(ps, next)
  BY <1>2, <1>3 DEF ListWritten
<1>5. IsList(qs) /\ Before(qs) /\ Len(qs) < MaximumProjects /\ id \notin Ids(qs)
  BY <1>1, <1>2, <1>3
<1>6. Listable(Append(qs, Draft(id)))
  BY <1>2, <1>5, DraftListable
<1> QED
  BY <1>2, <1>3, <1>4, <1>6, Bounded, ListWrittenTyped

\* A closed project stays where it is; the list is brought up to date.
LEMMA ClosedGives ==
  ASSUME Types, Gives, NEW i \in DOMAIN projects, NEW status \in {"completed", "archived"},
         projects[i].status # "active"
  PROVE  LET ps == Synced([projects EXCEPT ![i].status = status])
         IN  /\ Listable(ps) /\ DOMAIN ps = DOMAIN projects
             /\ \A k \in DOMAIN projects :
                  /\ ps[k].id = projects[k].id /\ ps[k].event = projects[k].event
                  /\ DOMAIN projects[k].results \subseteq DOMAIN ps[k].results
                  /\ ps[k].status = IF k = i THEN status ELSE projects[k].status
<1>1. PICK p : p = [projects[i] EXCEPT !.status = status]
  OBVIOUS
<1>2. PICK qs : qs = [projects EXCEPT ![i] = p]
  OBVIOUS
<1>3. qs = [projects EXCEPT ![i].status = status]
  BY <1>1, <1>2
<1>4. projects[i] \in Project /\ IsList(projects)
  BY Bounded, ListIs
<1>5. /\ p \in Project /\ p.id = projects[i].id /\ p.event = projects[i].event
      /\ p.status = status /\ p.results = projects[i].results
  BY <1>1, <1>4, Zenon DEF Project
<1>6. /\ DOMAIN qs = DOMAIN projects
      /\ \A k \in DOMAIN projects : qs[k] = IF k = i THEN p ELSE projects[k]
  BY <1>2
<1>7. qs = [k \in DOMAIN projects |-> qs[k]]
  BY <1>2
<1>8. \A k \in DOMAIN projects :
        /\ qs[k] \in Project /\ qs[k].id = projects[k].id /\ qs[k].event = projects[k].event
        /\ qs[k].results = projects[k].results
        /\ qs[k].status = IF k = i THEN status ELSE projects[k].status
  BY <1>4, <1>5, <1>6, ListIs
<1>9. \A j, k \in DOMAIN projects : qs[j].status = "active" /\ qs[k].status = "active" => j = k
  BY <1>4, <1>8, ListIs
<1>10. IsList(qs)
  BY <1>4, <1>7, <1>8, <1>9, ListFrom
<1>11. Listable(qs)
  <2>1. Listable(projects)
    BY ListsStayListable
  <2> QED
    BY <1>6, <1>8, <1>10, <2>1 DEF Listable
<1>12. PICK ps : ps = Synced(qs)
  OBVIOUS
<1>13. /\ Listable(ps) /\ DOMAIN ps = DOMAIN projects
       /\ \A k \in DOMAIN projects :
            /\ ps[k].id = qs[k].id /\ ps[k].event = qs[k].event
            /\ DOMAIN qs[k].results \subseteq DOMAIN ps[k].results
            /\ ps[k].status = qs[k].status
  BY <1>6, <1>10, <1>11, <1>12, SyncedListable, SyncedGives, Bounded
<1> QED
  BY <1>3, <1>8, <1>12, <1>13

\* A project that is closed stays a project.
LEMMA CloseTyped ==
  ASSUME Types, NEW i \in DOMAIN projects, NEW status \in {"completed", "archived"},
         Close(i, status)
  PROVE  Types'
<1>1. Gives
  BY NothingGiven DEF Close
<1>2. PICK ps, next :
        ps = Synced([projects EXCEPT ![i].status = status]) /\ next = job
  OBVIOUS
<1>3. ListWritten(ps, next)
  BY <1>2 DEF ListWritten, Close
<1>4. Listable(ps)
  BY <1>1, <1>2, ClosedGives DEF Close
<1> QED
  BY <1>1, <1>2, <1>3, <1>4, Bounded, ListWrittenTyped

\* A list with a project deleted is a list.
LEMMA DeleteTyped == ASSUME Types, NEW i \in DOMAIN projects, Delete(i) PROVE Types'
<1>1. Gives
  BY NothingGiven DEF Delete
<1>2. PICK qs, ps, next : qs = projects /\ ps = RemoveAt(projects, i) /\ next = job
  OBVIOUS
<1>3. ListWritten(ps, next)
  BY <1>2 DEF ListWritten, Delete
<1>4. Listable(qs) /\ i \in DOMAIN qs
  BY <1>1, <1>2, ListsStayListable
<1>5. IsList(ps) /\ \A j \in DOMAIN ps : \E k \in DOMAIN qs : k # i /\ ps[j] = qs[k]
  BY <1>2, <1>4, RemovedIs DEF Listable, Types
<1>6. Listable(ps)
  BY <1>4, <1>5 DEF Listable
<1> QED
  BY <1>1, <1>2, <1>3, <1>6, Bounded, ListWrittenTyped

\* What is exported has been given out.
LEMMA ExportGives ==
  ASSUME Types, NEW i \in DOMAIN projects, Export(i)
  PROVE  Gives /\ fresh'.stage = fresh.stage /\ fresh'.id = fresh.id
<1>1. /\ fresh \in Fresh /\ projects[i] \in Project /\ projects[i].id < fresh.id
      /\ projects[i].id \in Package /\ \A id \in fresh.packages : id < fresh.id
      /\ fresh' = [fresh EXCEPT !.packages = @ \cup {projects[i].id}]
  BY Bounded, ListIs DEF Types, Given, Before, Export
<1>2. fresh.packages \cup {projects[i].id} \in SUBSET (Package \cap Id)
  BY <1>1 DEF Fresh, Project
<1>3. fresh' \in Fresh /\ fresh'.id = fresh.id /\ fresh'.stage = fresh.stage
      /\ fresh'.packages = fresh.packages \cup {projects[i].id}
  BY <1>1, <1>2, Zenon DEF Fresh
<1> QED
  BY <1>1, <1>3, Bounded DEF Gives

\* An export gives out no identifier that was not.
LEMMA ExportTyped == ASSUME Types, NEW i \in DOMAIN projects, Export(i) PROVE Types'
<1>1. Gives
  BY ExportGives
<1> QED
  BY <1>1, JobStepTyped, Bounded DEF Export

\* The list that is brought up to date is typed, in memory and on disk.
LEMMA SyncTyped == ASSUME Types, Sync PROVE Types'
<1>1. Gives
  BY NothingGiven DEF Sync
<1>2. PICK qs : qs = projects
  OBVIOUS
<1>3. PICK c, ps, d, e, next :
        /\ c = core /\ ps = Synced(qs) /\ next = job /\ e = disk
        /\ d = [disk EXCEPT !.index = ps]
  OBVIOUS
<1>4. Outcome(c, ps, d, next) \/ Outcome(c, ps, e, next)
  BY <1>2, <1>3 DEF Sync, Outcome
<1>5. Listable(ps)
  BY <1>1, <1>2, <1>3, ListsStayListable, SyncedListable
<1>6. ps \in Seq(Project) /\ disk \in Files
  BY <1>5, Bounded DEF Listable, IsList
<1>7. d \in Files /\ d.index = ps
  BY <1>3, <1>6 DEF Files
<1> QED
  BY <1>1, <1>3, <1>4, <1>5, <1>6, <1>7, TypedOutcome, Bounded

\* A checkpoint writes a typed coordinator.
LEMMA CheckpointTyped == ASSUME Types, Checkpoint PROVE Types'
<1>1. Gives
  BY NothingGiven DEF Checkpoint
<1>2. PICK c, ps, d, next :
        c = core /\ ps = projects /\ next = job /\ d = [disk EXCEPT !.core = c]
  OBVIOUS
<1>3. Outcome(c, ps, d, next)
  BY <1>2 DEF Checkpoint, Outcome
<1>4. Listable(ps) /\ c \in Core /\ disk \in Files
  BY <1>1, <1>2, ListsStayListable, Bounded
<1>5. d \in Files /\ d.index = disk.index
  BY <1>2, <1>4 DEF Files
<1> QED
  BY <1>1, <1>2, <1>3, <1>4, <1>5, TypedOutcome, Bounded

\* A process that starts again reads typed files.
LEMMA RestartTyped == ASSUME Types, Restart PROVE Types'
<1>1. Gives
  BY NothingGiven DEF Restart
<1>2. PICK c, ps, d, next : c = core /\ ps = projects /\ next = job /\ d = disk
  OBVIOUS
<1>3. Outcome(c, ps, d, next)
  BY <1>2 DEF Restart, Start, Outcome, Starting
<1>4. Listable(ps) /\ c \in Core /\ disk \in Files
  BY <1>1, <1>2, ListsStayListable, Bounded
<1> QED
  BY <1>1, <1>2, <1>3, <1>4, TypedOutcome, Bounded

-----------------------------------------------------------------------------
(* Types of the steps of a switch *)

\* A job that goes on has one of these steps.
LEMMA StepsAre ==
  ASSUME Types
  PROVE  /\ At("intent") \in Job /\ At("room") \in Job /\ At("close") \in Job
         /\ At("hosted") \in Job /\ At("settings") \in Job /\ At("activate") \in Job
         /\ At("done") \in Job /\ At("receipt") \in Job /\ At("check") \in Job /\ Idle \in Job
BY JobsAre DEF Step

\* The numbers of an intent.
LEMMA IntentsAre ==
  ASSUME Types, NEW event \in Id, NEW project \in 0..MaxId
  PROVE  /\ [event |-> event, project |-> project] \in Intent
         /\ [event |-> event, project |-> project] # NoIntent
         /\ [event |-> event, project |-> project] \in [event : 0..MaxId, project : 0..MaxId]
<1>1. event \in 0..MaxId /\ project \in Id \cup {0} /\ event # 0
  BY Bounded DEF Id
<1> QED
  BY <1>1 DEF Intent, NoIntent, Nobody

\* A request is a job, and so is the intent it finds.
LEMMA RequestTyped ==
  ASSUME Types, NEW target \in 0..MaxId, Request(target)
  PROVE  Types'
<1>1. Gives
  BY NothingGiven DEF Request
<1>2. disk.pending \in [event : 0..MaxId, project : 0..MaxId]
  <2>1. disk.pending \in Intent \cup {NoIntent} /\ MaxId \in Nat
    BY Bounded DEF Files
  <2> QED
    BY <2>1 DEF Intent, NoIntent, Nobody, Id
<1>3. job' \in Job
  <2>1. PICK step \in {"check", "event"} :
          job' = [Idle EXCEPT !.step = step, !.target = target, !.intent = disk.pending]
    BY DEF Request
  <2> QED
    BY <1>2, <2>1 DEF Idle, Job, Step
<1> QED
  BY <1>1, <1>3, JobStepTyped DEF Request

\* The request goes on, is answered, or is refused.
LEMMA CheckTyped == ASSUME Types, Check PROVE Types'
<1>1. Gives
  BY NothingGiven DEF Check
<1>2. CASE Refuse
  BY <1>1, <1>2, RefusalTyped
<1>3. CASE UNCHANGED <<core, projects, disk>> /\ job' \in Job
  BY <1>1, <1>3, JobStepTyped
<1>4. CASE SyncActive(At("intent"))
  <2>1. CASE Synced(projects) = projects
    <3>1. job' \in Job /\ UNCHANGED <<core, projects, disk>>
      BY <1>4, <2>1, StepsAre DEF SyncActive
    <3> QED
      BY <1>1, <3>1, JobStepTyped
  <2>2. CASE Synced(projects) # projects
    <3>1. PICK qs, ps, next : qs = projects /\ ps = Synced(qs) /\ next = At("intent")
      OBVIOUS
    <3>2. ListWritten(ps, next)
      BY <1>4, <2>2, <3>1 DEF SyncActive, ListWritten
    <3>3. Listable(ps) /\ next \in Job
      BY <1>1, <3>1, ListsStayListable, SyncedListable, StepsAre
    <3> QED
      BY <1>1, <3>2, <3>3, ListWrittenTyped
  <2> QED
    BY <2>1, <2>2
<1>5. [job EXCEPT !.step = "receipt",
                  !.intent = [event |-> core.event, project |-> job.target]] \in Job
  BY Bounded DEF Job, Core, Step
<1> QED
  BY <1>2, <1>3, <1>4, <1>5 DEF Check, TakeResults

\* The intent of the request that is being worked on.
LEMMA WriteIntentGives ==
  ASSUME Types, WriteIntent
  PROVE  /\ Gives /\ fresh.stage = fresh'.stage
         /\ \E intent, next :
              /\ intent \in Intent /\ intent # NoIntent /\ intent.project = job.target
              /\ intent.project # Nobody => intent.event = intent.project
              /\ next = [job EXCEPT !.step = "event", !.intent = intent] /\ next \in Job
              /\ PartWritten("pending", intent, next)
<1>1. job \in Job /\ job.target \in 0..MaxId /\ MaxId \in Nat
  BY Bounded DEF Job
<1>2. Gives /\ fresh'.stage = fresh.stage
  <2>1. CASE job.target # Nobody
    BY <2>1, NothingGiven DEF WriteIntent
  <2>2. CASE job.target = Nobody
    BY <2>2, TakeIdGives, Bounded DEF WriteIntent, TakeId, Fresh
  <2> QED
    BY <2>1, <2>2
<1>3. PICK event \in Id : event = IF job.target # Nobody THEN job.target ELSE fresh.id
  BY <1>1, TakeIdGives DEF WriteIntent, Nobody, Id
<1>4. PICK project \in 0..MaxId : project = job.target
  BY <1>1
<1>5. PICK intent : intent = [event |-> event, project |-> project]
  OBVIOUS
<1>6. /\ intent \in Intent /\ intent # NoIntent
      /\ intent \in [event : 0..MaxId, project : 0..MaxId]
  BY <1>5, IntentsAre
<1>7. PICK next : next = [job EXCEPT !.step = "event", !.intent = intent]
  OBVIOUS
<1>8. next \in Job
  BY <1>1, <1>6, <1>7 DEF Job, Step
<1>9. PartWritten("pending", intent, next)
  BY <1>3, <1>4, <1>5, <1>7 DEF WriteIntent, PartWritten
<1>10. intent.project = job.target /\ (intent.project # Nobody => intent.event = intent.project)
  BY <1>3, <1>4, <1>5
<1> QED
  BY <1>2, <1>6, <1>7, <1>8, <1>9, <1>10

\* The intent is typed.
LEMMA WriteIntentTyped == ASSUME Types, WriteIntent PROVE Types'
<1>1. Gives
  BY WriteIntentGives
<1>2. PICK intent, next :
        intent \in Intent /\ next \in Job /\ PartWritten("pending", intent, next)
  BY WriteIntentGives
<1> QED
  BY <1>1, <1>2, PartWrittenTyped

\* What BeginEvent makes of the coordinator.
EventBegun ==
  IF core.event = job.intent.event THEN core
  ELSE [Archived(core, core.phase = "finished") EXCEPT
          !.event = job.intent.event, !.phase = "lobby", !.stage = 0]

\* The coordinator of the event that begins is typed.
LEMMA BeginEventTyped == ASSUME Types, BeginEvent PROVE Types'
<1>1. Gives
  BY NothingGiven DEF BeginEvent
<1>2. CASE Refuse
  BY <1>1, <1>2, RefusalTyped
<1>3. CASE ~Refuse
  <2>1. PICK c, next :
          /\ c = EventBegun
          /\ next = At(IF job.intent.project = Nobody THEN "close" ELSE "room")
    OBVIOUS
  <2>2. CoreWritten(c, next)
    BY <1>3, <2>1, Zenon DEF BeginEvent, EventBegun, CoreWritten
  <2>3. next \in Job
    BY <2>1, StepsAre
  <2>4. c \in Core
    <3>1. job.intent.event \in 0..MaxId /\ core \in Core
      BY Bounded DEF Job
    <3> QED
      BY <2>1, <3>1, LobbyGives DEF EventBegun
  <2> QED
    BY <1>1, <2>2, <2>3, <2>4, CoreWrittenTyped
<1> QED
  BY <1>2, <1>3

\* And the one with the configuration of the project.
LEMMA ApplyRoomTyped == ASSUME Types, ApplyRoom PROVE Types'
<1>1. Gives
  BY NothingGiven DEF ApplyRoom
<1>2. CASE Refuse
  BY <1>1, <1>2, RefusalTyped
<1>3. CASE ~Refuse
  <2>1. PICK c, next : c = [core EXCEPT !.config = job.intent.project] /\ next = At("hosted")
    OBVIOUS
  <2>2. CoreWritten(c, next)
    BY <1>3, <2>1, Zenon DEF ApplyRoom, CoreWritten
  <2>3. next \in Job
    BY <2>1, StepsAre
  <2>4. c \in Core
    <3>1. job.intent.project \in 0..MaxId /\ core \in Core
      BY Bounded DEF Job
    <3> QED
      BY <2>1, <3>1, Zenon DEF Core
  <2> QED
    BY <1>1, <2>2, <2>3, <2>4, CoreWrittenTyped
<1> QED
  BY <1>2, <1>3

\* The hosted files are those of a project.
LEMMA HostFilesTyped == ASSUME Types, HostFiles PROVE Types'
<1>1. Gives
  BY NothingGiven DEF HostFiles
<1>2. PICK project, next : project = job.intent.project /\ next = At("settings")
  OBVIOUS
<1>3. PartWritten("hosted", project, next)
  BY <1>2 DEF HostFiles, PartWritten
<1>4. project \in 0..MaxId /\ next \in Job
  BY <1>2, StepsAre, Bounded DEF Job
<1> QED
  BY <1>1, <1>3, <1>4, PartWrittenTyped

\* The settings are those of a project.
LEMMA SaveSettingsTyped == ASSUME Types, SaveSettings PROVE Types'
<1>1. Gives
  BY NothingGiven DEF SaveSettings
<1>2. PICK project, next : project = job.intent.project /\ next = At("activate")
  OBVIOUS
<1>3. PartWritten("settings", project, next)
  BY <1>2 DEF SaveSettings, PartWritten
<1>4. project \in 0..MaxId /\ next \in Job
  BY <1>2, StepsAre, Bounded DEF Job
<1> QED
  BY <1>1, <1>3, <1>4, PartWrittenTyped

\* The list with every active project completed.
LEMMA CompletedGives ==
  ASSUME Types, Gives
  PROVE  /\ Listable(Completed(projects)) /\ DOMAIN Completed(projects) = DOMAIN projects
         /\ \A k \in DOMAIN projects :
              /\ Completed(projects)[k].id = projects[k].id
              /\ Completed(projects)[k].status # "active"
              /\ Completed(projects)[k].status \in {projects[k].status, "completed"}
              /\ Completed(projects)[k].results = projects[k].results
              /\ Completed(projects)[k].event = projects[k].event
              /\ Completed(projects)[k] \in Project
              /\ projects[k].status # "active" => Completed(projects)[k] = projects[k]
<1>1. PICK ps, qs : qs = projects /\ ps = Completed(qs)
  OBVIOUS
<1>2. Listable(qs)
  BY <1>1, ListsStayListable
<1>3. /\ ps = [k \in DOMAIN qs |-> ps[k]]
      /\ \A k \in DOMAIN qs : ps[k] = IF qs[k].status = "active"
                                      THEN [qs[k] EXCEPT !.status = "completed"] ELSE qs[k]
  BY <1>1 DEF Completed
<1>4. ASSUME NEW k \in DOMAIN qs
      PROVE  /\ ps[k] \in Project /\ ps[k].id = qs[k].id /\ ps[k].status # "active"
             /\ ps[k].status \in {qs[k].status, "completed"}
             /\ ps[k].results = qs[k].results /\ ps[k].event = qs[k].event
             /\ qs[k].status # "active" => ps[k] = qs[k]
  BY <1>2, <1>3, ListIs DEF Listable, Project
<1>5. IsList(ps) /\ DOMAIN ps = DOMAIN qs
  BY <1>2, <1>3, <1>4, ListFrom DEF Listable
<1>6. Listable(ps)
  BY <1>2, <1>4, <1>5 DEF Listable
<1> QED
  BY <1>1, <1>4, <1>5, <1>6

\* The list with the project of the intent active and every other completed.
ProjectActivated ==
  [i \in DOMAIN projects |->
     IF projects[i].id = job.intent.project
     THEN [projects[i] EXCEPT !.status = "active", !.event = job.intent.event]
     ELSE Completed(projects)[i]]

\* The only active project of that list is the one of the intent, in its event.
LEMMA ActivatedGives ==
  ASSUME Types, Gives
  PROVE  /\ Listable(ProjectActivated) /\ DOMAIN ProjectActivated = DOMAIN projects
         /\ \A k \in DOMAIN projects :
              /\ ProjectActivated[k].id = projects[k].id
              /\ ProjectActivated[k].results = projects[k].results
              /\ ProjectActivated[k].status = "active" <=> projects[k].id = job.intent.project
              /\ projects[k].id = job.intent.project =>
                   ProjectActivated[k].event = job.intent.event
              /\ projects[k].status # "active" /\ projects[k].id # job.intent.project =>
                   ProjectActivated[k] = projects[k]
<1>1. PICK ps, qs, cs, intent :
        qs = projects /\ ps = ProjectActivated /\ cs = Completed(projects) /\ intent = job.intent
  OBVIOUS
<1>2. Listable(qs) /\ intent.event \in 0..MaxId
  BY <1>1, ListsStayListable, Bounded DEF Job
<1>3. /\ ps = [k \in DOMAIN qs |-> ps[k]]
      /\ \A k \in DOMAIN qs :
           ps[k] = IF qs[k].id = intent.project
                   THEN [qs[k] EXCEPT !.status = "active", !.event = intent.event] ELSE cs[k]
  BY <1>1 DEF ProjectActivated
<1>4. \A k \in DOMAIN qs :
        /\ cs[k].id = qs[k].id /\ cs[k].status # "active" /\ cs[k].results = qs[k].results
        /\ cs[k] \in Project /\ (qs[k].status # "active" => cs[k] = qs[k])
  BY <1>1, CompletedGives
<1>5. \A k \in DOMAIN qs :
        LET q == [qs[k] EXCEPT !.status = "active", !.event = intent.event]
        IN  /\ q \in Project /\ q.id = qs[k].id /\ q.results = qs[k].results
            /\ q.status = "active" /\ q.event = intent.event
  <2> SUFFICES ASSUME NEW k \in DOMAIN qs
               PROVE  LET q == [qs[k] EXCEPT !.status = "active", !.event = intent.event]
                      IN  /\ q \in Project /\ q.id = qs[k].id /\ q.results = qs[k].results
                          /\ q.status = "active" /\ q.event = intent.event
    OBVIOUS
  <2>1. PICK p, q : p = [qs[k] EXCEPT !.status = "active"] /\ q = [p EXCEPT !.event = intent.event]
    OBVIOUS
  <2>2. qs[k] \in Project
    BY <1>2, ListIs DEF Listable
  <2>3. /\ p \in Project /\ p.id = qs[k].id /\ p.results = qs[k].results /\ p.status = "active"
    BY <2>1, <2>2, Zenon DEF Project
  <2>4. /\ q \in Project /\ q.id = p.id /\ q.results = p.results /\ q.status = p.status
        /\ q.event = intent.event
    BY <1>2, <2>1, <2>3, Zenon DEF Project
  <2>5. q = [qs[k] EXCEPT !.status = "active", !.event = intent.event]
    BY <2>1
  <2> QED
    BY <2>3, <2>4, <2>5
<1>6. ASSUME NEW k \in DOMAIN qs
      PROVE  /\ ps[k] \in Project /\ ps[k].id = qs[k].id /\ ps[k].results = qs[k].results
             /\ ps[k].status = "active" <=> qs[k].id = intent.project
             /\ qs[k].id = intent.project => ps[k].event = intent.event
             /\ qs[k].status # "active" /\ qs[k].id # intent.project => ps[k] = qs[k]
  BY <1>3, <1>4, <1>5
<1>7. \A j, k \in DOMAIN qs : ps[j].status = "active" /\ ps[k].status = "active" => j = k
  BY <1>2, <1>6, ListIs DEF Listable
<1>8. IsList(ps) /\ DOMAIN ps = DOMAIN qs
  BY <1>2, <1>3, <1>6, <1>7, ListFrom DEF Listable
<1>9. Listable(ps)
  BY <1>2, <1>6, <1>8 DEF Listable
<1> QED
  BY <1>1, <1>6, <1>8, <1>9

\* The list with another project active is a list.
LEMMA ActivateProjectTyped == ASSUME Types, ActivateProject PROVE Types'
<1>1. Gives
  BY NothingGiven DEF ActivateProject
<1>2. CASE Refuse
  BY <1>1, <1>2, RefusalTyped
<1>3. CASE UNCHANGED <<core, projects, disk>> /\ job' = At("done")
  BY <1>1, <1>3, JobStepTyped, StepsAre
<1>4. CASE ListWritten(ProjectActivated, At("done"))
  <2>1. PICK ps, next : ps = ProjectActivated /\ next = At("done")
    OBVIOUS
  <2>2. ListWritten(ps, next)
    BY <1>4, <2>1
  <2>3. Listable(ps) /\ next \in Job
    BY <1>1, <2>1, ActivatedGives, StepsAre
  <2> QED
    BY <1>1, <2>2, <2>3, ListWrittenTyped
<1> QED
  BY <1>2, <1>3, <1>4, Zenon DEF ActivateProject, ListWritten, ProjectActivated

\* And the one with none.
LEMMA CompleteProjectsTyped == ASSUME Types, CompleteProjects PROVE Types'
<1>1. Gives
  BY NothingGiven DEF CompleteProjects
<1>2. CASE UNCHANGED <<core, projects, disk>> /\ job' = At("done")
  BY <1>1, <1>2, JobStepTyped, StepsAre
<1>3. CASE SaveList(Completed(projects), At("done"))
  <2>1. PICK ps, next : ps = Completed(projects) /\ next = At("done")
    OBVIOUS
  <2>2. ListWritten(ps, next)
    BY <1>3, <2>1 DEF ListWritten
  <2>3. Listable(ps) /\ next \in Job
    BY <1>1, <2>1, CompletedGives, StepsAre
  <2> QED
    BY <1>1, <2>2, <2>3, ListWrittenTyped
<1> QED
  BY <1>2, <1>3 DEF CompleteProjects

\* The job goes on without the intent.
LEMMA DeleteIntentTyped == ASSUME Types, DeleteIntent PROVE Types'
<1>1. Gives
  BY NothingGiven DEF DeleteIntent
<1>2. PICK value, next :
        /\ value = NoIntent
        /\ next = IF ~Serving THEN Idle
                  ELSE IF job.intent.project = job.target THEN At("receipt") ELSE At("check")
  OBVIOUS
<1>3. PartWritten("pending", value, next)
  BY <1>2 DEF DeleteIntent, PartWritten
<1>4. next \in Job
  BY <1>2, StepsAre
<1> QED
  BY <1>1, <1>2, <1>3, <1>4, PartWrittenTyped

\* The answer ends the request.
LEMMA AnswerTyped == ASSUME Types, Answer PROVE Types'
<1>1. Gives
  BY NothingGiven DEF Answer
<1> QED
  BY <1>1, JobStepTyped, StepsAre DEF Answer

\* The server starts typed.
LEMMA TypedInit == ASSUME NativeConstants, Init PROVE Types
<1>1. 0 \in 0..MaxId /\ 0 \in 0..MaxStage /\ 1 \in 1..MaxId + 1 /\ 1 \in 1..MaxStage + 1
  BY DEF NativeConstants
<1>2. core \in Core
  BY <1>1, NoResultsYet DEF Init, Core, Nobody
<1>3. projects \in Seq(Project) /\ Len(projects) = 0 /\ DOMAIN projects = {}
  BY EmptySeq DEF Init
<1>4. IsList(projects) /\ IsList(disk.index)
  BY <1>3 DEF IsList, Init, NativeConstants
<1>5. disk \in Files
  BY <1>1, <1>2, <1>3 DEF Init, Files, Nobody
<1>6. job \in Job
  BY <1>1 DEF Init, Idle, Job, Step, NoIntent, Nobody
<1>7. fresh \in Fresh
  BY <1>1 DEF Init, Fresh
<1>8. Given
  BY <1>3 DEF Given, Before, Init
<1> QED
  BY <1>2, <1>4, <1>5, <1>6, <1>7, <1>8 DEF Types, NativeTypeOK

\* Every step keeps the types.
LEMMA TypedStep == Types /\ [Next]_vars => Types'
<1> SUFFICES ASSUME Types, [Next]_vars
             PROVE  Types'
  OBVIOUS
<1>1. CASE StartRace \/ FinishRace \/ ToLobby \/ NewDraft
  BY <1>1, StartRaceTyped, FinishRaceTyped, ToLobbyTyped, NewDraftTyped
<1>2. ASSUME NEW id \in Package, Import(id)
      PROVE  Types'
  BY <1>2, ImportTyped
<1>3. ASSUME NEW i \in DOMAIN projects,
             Export(i) \/ Delete(i) \/ \E status \in {"completed", "archived"} : Close(i, status)
      PROVE  Types'
  BY <1>3, ExportTyped, DeleteTyped, CloseTyped
<1>4. CASE Request(Nobody) \/ \E id \in Id : Request(id)
  <2>1. \A id \in Id : id \in 0..MaxId
    BY Bounded DEF Id
  <2>2. Nobody \in 0..MaxId
    BY Bounded DEF Nobody
  <2> QED
    BY <1>4, <2>1, <2>2, RequestTyped
<1>5. CASE Check \/ WriteIntent \/ BeginEvent \/ ApplyRoom
  BY <1>5, CheckTyped, WriteIntentTyped, BeginEventTyped, ApplyRoomTyped
<1>6. CASE HostFiles \/ SaveSettings \/ ActivateProject \/ CompleteProjects
  BY <1>6, HostFilesTyped, SaveSettingsTyped, ActivateProjectTyped, CompleteProjectsTyped
<1>7. CASE DeleteIntent \/ Answer \/ Sync \/ Checkpoint \/ Restart
  BY <1>7, DeleteIntentTyped, AnswerTyped, SyncTyped, CheckpointTyped, RestartTyped
<1>8. CASE UNCHANGED vars
  BY <1>8, NothingGiven, JobStepTyped, Bounded DEF vars
<1> QED
  BY <1>1, <1>2, <1>3, <1>4, <1>5, <1>6, <1>7, <1>8 DEF Next

\* The native server keeps to its types, whichever of its files fail to be
\* written: in memory and on disk no identifier is listed twice and at most one
\* project is active.  (RaceEventProjectStore.cs)
THEOREM NativeTypeCorrect == ASSUME NativeConstants PROVE Spec => []NativeTypeOK
<1>1. Types => NativeTypeOK
  BY DEF Types
<1>2. Init => Types
  BY TypedInit
<1> QED
  BY <1>1, <1>2, TypedStep, PTL DEF Spec

-----------------------------------------------------------------------------
(* What a step leaves alone *)

\* What the files say, the intent included, stays or changes in one step.
NowStays == EventNow' = EventNow /\ ActiveNow' = ActiveNow /\ ConfigNow' = ConfigNow
NowSwitches ==
  \E id \in Id : /\ EventNow' = id
                 /\ \/ ActiveNow' = id /\ ConfigNow' = id
                    \/ ActiveNow' = Nobody /\ ConfigNow' = ConfigNow
CompletedStep ==
  \A p \in ToSet(disk.index), q \in ToSet(disk'.index) :
    p.id = q.id /\ p.status = "active" /\ q.status = "completed"
      => StagesOf(p.event) \subseteq DOMAIN q.results

\* What each step is shown to keep.
Kept == NativeInv' /\ (NowStays \/ NowSwitches) /\ CompletedStep

\* The coordinator c follows the one in memory: it has the history, and in a
\* switch nothing else; the configuration changes for a project only, and the
\* event in a switch only.
CoreFollows(c) ==
  /\ Extends(c.history, core.history)
  /\ disk.pending.project = Nobody => c.config = core.config
  /\ ~Switching => c.event = core.event
  /\ Switching \/ job.step = "intent" => Extends(core.history, c.history)

\* The list ps follows: the same project is active, with no less results.
ListFollows(ps) ==
  /\ \A i \in DOMAIN ps : ps[i].status = "active" =>
       \E k \in DOMAIN projects :
         /\ projects[k].status = "active" /\ projects[k].id = ps[i].id
         /\ projects[k].event = ps[i].event
         /\ DOMAIN projects[k].results \subseteq DOMAIN ps[i].results
  /\ \A k \in DOMAIN projects : projects[k].status = "active" =>
       \E i \in DOMAIN ps : ps[i].status = "active" /\ ps[i].id = projects[k].id

\* What such a step keeps.
Quiet ==
  /\ Filed(core)' /\ Filed(disk.core)' /\ Behind' /\ Settled'
  /\ (job'.step = "intent" => job.step = "intent") => Taken'
  /\ NowStays /\ CompletedStep

\* Extending is transitive.
LEMMA ExtendsOn ==
  ASSUME NEW f, NEW g, NEW h, Extends(f, g), Extends(g, h)
  PROVE  Extends(f, h)
BY DEF Extends

\* The only active project of a list.
LEMMA ActiveIs ==
  ASSUME NEW ps, IsList(ps)
  PROVE  /\ \A i \in DOMAIN ps : ps[i].status = "active" => Active(ps) = ps[i].id
         /\ (\A i \in DOMAIN ps : ps[i].status # "active") => Active(ps) = Nobody
<1>1. ASSUME NEW i \in DOMAIN ps, ps[i].status = "active"
      PROVE  Active(ps) = ps[i].id
  <2>1. ps[i] \in ToSet(ps)
    BY DEF ToSet
  <2>2. \A p \in ToSet(ps) : p.status = "active" => p = ps[i]
    BY <1>1, ListIs DEF ToSet
  <2>3. (CHOOSE p \in ToSet(ps) : p.status = "active") = ps[i]
    BY <1>1, <2>1, <2>2
  <2> QED
    BY <1>1, <2>3 DEF Active
<1>2. (\A i \in DOMAIN ps : ps[i].status # "active") => Active(ps) = Nobody
  BY DEF Active
<1> QED
  BY <1>1, <1>2

\* Stages that are given out later change nothing for a coordinator.
LEMMA FiledLater ==
  ASSUME Types, Gives, NEW c \in Core, Filed(c)
  PROVE  Filed(c)'
<1>1. /\ c.stage \in Nat /\ \A s \in DOMAIN c.history : s \in Nat
      /\ fresh.stage \in Nat /\ fresh'.stage \in Nat /\ fresh.stage <= fresh'.stage
  BY Bounded, ResultsAre DEF Core, Gives, Fresh
<1> QED
  BY <1>1 DEF Filed

\* A coordinator or a list that stays as it is follows.
LEMMA SameFollows ==
  ASSUME NativeInv, Gives
  PROVE  /\ CoreFollows(core) /\ ListFollows(projects)
         /\ \A c : c = core => Filed(c)' /\ c \in Core
<1>1. CoreFollows(core) /\ ListFollows(projects)
  BY DEF CoreFollows, ListFollows, Extends
<1>2. ASSUME NEW c, c = core
      PROVE  Filed(c)' /\ c \in Core
  <2>1. Filed(c) /\ c \in Core
    BY <1>2, Bounded DEF NativeInv
  <2> QED
    BY <2>1, FiledLater DEF NativeInv
<1> QED
  BY <1>1, <1>2

\* So does a list that is brought up to date.
LEMMA SyncedFollows ==
  ASSUME NativeInv
  PROVE  ListFollows(Synced(projects))
<1>1. PICK ps, qs : qs = projects /\ ps = Synced(qs)
  OBVIOUS
<1>2. IsList(qs) /\ core \in Core
  BY <1>1, Bounded DEF NativeInv
<1>3. /\ DOMAIN ps = DOMAIN qs
      /\ \A i \in DOMAIN qs :
           /\ ps[i].id = qs[i].id /\ ps[i].status = qs[i].status /\ ps[i].event = qs[i].event
           /\ DOMAIN qs[i].results \subseteq DOMAIN ps[i].results
  BY <1>1, <1>2, SyncedGives
<1> QED
  BY <1>1, <1>3 DEF ListFollows

\* Without an intent there is no project to go to.
LEMMA NoIntentIs == disk.pending = NoIntent => disk.pending.project = Nobody
BY DEF NoIntent

\* A step of a coordinator and a list that follow.
LEMMA QuietStep ==
  ASSUME NativeInv, Gives, NEW c, CoreFollows(c), Filed(c)', NEW ps, IsList(ps), ListFollows(ps),
         core' = c, projects' = ps, disk'.index = ps, disk'.core \in {disk.core, c},
         disk'.pending = disk.pending,
         disk.pending.project = Nobody => UNCHANGED <<disk.hosted, disk.settings>>
  PROVE  Quiet
<1> USE DEF NativeInv
<1>1. disk.core \in Core /\ core \in Core /\ IsList(projects)
  BY Bounded
<1>2. PICK e : e = disk.core
  OBVIOUS
<1>3. Filed(e)'
  BY <1>1, <1>2, FiledLater
<1>4. Filed(core)' /\ Filed(disk.core)'
  BY <1>2, <1>3 DEF Filed
<1>5. Behind'
  <2>1. Extends(core.history, disk.core.history) /\ Extends(c.history, core.history)
    BY DEF Behind, CoreFollows
  <2>2. Extends(c.history, disk.core.history)
    BY <2>1, ExtendsOn
  <2>3. Extends(c.history, c.history)
    BY DEF Extends
  <2> QED
    BY <2>2, <2>3 DEF Behind
<1>6. Switching' <=> Switching
  BY DEF Switching
<1>7. ASSUME NEW i \in DOMAIN ps, ps[i].status = "active"
      PROVE  \E k \in DOMAIN projects :
               /\ projects[k].status = "active" /\ projects[k].id = ps[i].id
               /\ projects[k].event = ps[i].event
               /\ DOMAIN projects[k].results \subseteq DOMAIN ps[i].results
  BY <1>7 DEF ListFollows
<1>8. Settled'
  <2>1. disk.pending.project = Nobody => /\ c.config = core.config
                                         /\ c.config = disk'.core.config
                                         /\ disk'.core.config = disk.core.config
                                         /\ UNCHANGED <<disk.hosted, disk.settings>>
    BY DEF CoreFollows, Settled
  <2>2. ~Switching => c.event = core.event /\ disk'.core.event = core.event
    BY DEF CoreFollows, Settled
  <2>3. ~Switching => disk.pending.project = Nobody
    BY NoIntentIs DEF Switching
  <2>4. ASSUME ~Switching, NEW i \in DOMAIN ps, ps[i].status = "active"
        PROVE  ps[i].event = c.event /\ Saved(ps[i].id)'
    <3>1. PICK k \in DOMAIN projects : /\ projects[k].status = "active"
                                       /\ projects[k].id = ps[i].id
                                       /\ projects[k].event = ps[i].event
      BY <1>7, <2>4
    <3>2. projects[k].event = core.event /\ Saved(projects[k].id)
      BY <2>4, <3>1 DEF Settled
    <3> QED
      BY <2>1, <2>2, <2>3, <2>4, <3>1, <3>2 DEF Saved
  <2> QED
    BY <1>6, <2>1, <2>2, <2>4 DEF Settled, Saved
<1>9. ASSUME job'.step = "intent" => job.step = "intent"
      PROVE  Taken'
  <2> SUFFICES ASSUME Switching \/ job.step = "intent",
                      NEW i \in DOMAIN ps, ps[i].status = "active",
                      ~(Switching /\ ps[i].id = disk.pending.project)
               PROVE  /\ HasStages(ps[i].results, c.history, ps[i].event)
                      /\ HasStages(ps[i].results, disk'.core.history, ps[i].event)
    BY <1>6, <1>9 DEF Taken
  <2>1. PICK k \in DOMAIN projects : /\ projects[k].status = "active"
                                     /\ projects[k].id = ps[i].id
                                     /\ projects[k].event = ps[i].event
                                     /\ DOMAIN projects[k].results \subseteq DOMAIN ps[i].results
    BY <1>7
  <2>2. /\ HasStages(projects[k].results, core.history, projects[k].event)
        /\ HasStages(projects[k].results, disk.core.history, projects[k].event)
    BY <2>1 DEF Taken
  <2>3. Extends(core.history, c.history)
    BY DEF CoreFollows
  <2> QED
    BY <2>1, <2>2, <2>3 DEF HasStages, Extends
<1>10. NowStays
  <2>1. EventNow' = EventNow
    <3>1. ~Switching => disk'.core.event = disk.core.event
      BY DEF CoreFollows, Settled
    <3> QED
      BY <1>6, <3>1 DEF EventNow
  <2>2. ActiveNow' = ActiveNow
    <3>1. Active(ps) = Active(projects)
      <4>1. CASE \E i \in DOMAIN ps : ps[i].status = "active"
        <5>1. PICK i \in DOMAIN ps : ps[i].status = "active"
          BY <4>1
        <5>2. PICK k \in DOMAIN projects : /\ projects[k].status = "active"
                                           /\ projects[k].id = ps[i].id
          BY <1>7, <5>1
        <5>3. Active(ps) = ps[i].id
          BY <5>1, ActiveIs
        <5>4. Active(projects) = projects[k].id
          BY <1>1, <5>2, ActiveIs
        <5> QED
          BY <5>2, <5>3, <5>4
      <4>2. CASE ~\E i \in DOMAIN ps : ps[i].status = "active"
        <5>1. \A k \in DOMAIN projects : projects[k].status # "active"
          BY <4>2 DEF ListFollows
        <5>2. Active(ps) = Nobody
          BY <4>2, ActiveIs
        <5>3. Active(projects) = Nobody
          BY <1>1, <5>1, ActiveIs
        <5> QED
          BY <5>2, <5>3
      <4> QED
        BY <4>1, <4>2
    <3>2. Active(disk'.index) = Active(disk.index)
      BY <3>1
    <3>3. Active(disk.index)' = Active(disk'.index)
      BY DEF Active
    <3> QED
      BY <1>6, <3>2, <3>3 DEF ActiveNow
  <2>3. ConfigNow' = ConfigNow
    <3>1. CASE Switching /\ disk.pending.project # Nobody
      BY <1>6, <3>1 DEF ConfigNow
    <3>2. CASE ~(Switching /\ disk.pending.project # Nobody)
      <4>1. disk.pending.project = Nobody
        BY <3>2, NoIntentIs DEF Switching
      <4>2. UNCHANGED <<disk.hosted, disk.settings>> /\ disk'.core.config = disk.core.config
        BY <4>1 DEF CoreFollows, Settled
      <4> QED
        BY <1>6, <4>1, <4>2 DEF ConfigNow, Mixed
    <3> QED
      BY <3>1, <3>2
  <2> QED
    BY <2>1, <2>2, <2>3 DEF NowStays
<1>11. CompletedStep
  <2> SUFFICES ASSUME NEW k \in DOMAIN projects, NEW j \in DOMAIN ps,
                      projects[k].id = ps[j].id, projects[k].status = "active"
               PROVE  ps[j].status = "active"
    BY DEF CompletedStep, ToSet
  <2>1. PICK i \in DOMAIN ps : ps[i].status = "active" /\ ps[i].id = projects[k].id
    BY DEF ListFollows
  <2> QED
    BY <2>1, ListIs
<1> QED
  BY <1>4, <1>5, <1>8, <1>9, <1>10, <1>11 DEF Quiet

\* What is left to show of a quiet step.
LEMMA QuietKept ==
  ASSUME Quiet, Types', "index" \notin FaultyFile, disk'.index = projects',
         job'.step = "intent" => job.step = "intent",
         Carried', Progress', PendingProjectIsThere'
  PROVE  Kept
BY DEF Quiet, Kept, NativeInv

\* The project of the intent stays in a list with the same places.
LEMMA ProjectStays ==
  ASSUME NativeInv, disk'.pending = disk.pending,
         \A k \in DOMAIN projects : projects[k].status \in {"draft", "active"} =>
           \E i \in DOMAIN disk'.index : /\ disk'.index[i].id = projects[k].id
                                         /\ disk'.index[i].status \in {"draft", "active"}
  PROVE  PendingProjectIsThere'
BY DEF NativeInv, PendingProjectIsThere, Switching

\* A request that is over, or none.
LEMMA IdleRest ==
  ASSUME job' = Idle, Switching' => CanPrepare(core')
  PROVE  Carried' /\ Progress'
<1>1. job'.step = "idle" /\ job'.by = "request"
  BY DEF Idle
<1>2. Carried'
  BY <1>1 DEF Carried, Working, Begun, CanPrepare, Serving
<1>3. Progress'
  BY <1>1 DEF Progress, Begun
<1> QED
  BY <1>2, <1>3

\* What the files say is what is in them.
LEMMA NowOfSameFiles == disk' = disk => NowStays
<1> SUFFICES ASSUME disk' = disk
             PROVE  NowStays
  OBVIOUS
<1>1. Switching' <=> Switching
  BY DEF Switching
<1>2. Active(disk.index)' = Active(disk'.index)
  BY DEF Active
<1>3. Active(disk.index)' = Active(disk.index)
  BY <1>2
<1>4. EventNow' = EventNow
  BY <1>1 DEF EventNow
<1>5. ActiveNow' = ActiveNow
  BY <1>1, <1>3 DEF ActiveNow
<1>6. ConfigNow' = ConfigNow
  BY <1>1 DEF ConfigNow, Mixed
<1> QED
  BY <1>4, <1>5, <1>6 DEF NowStays

\* The process starts, and finds an intent or nothing to do.
LEMMA StartKept ==
  ASSUME NativeInv, Types', Gives, core' = disk.core, projects' = disk.index, disk' = disk,
         job' = Starting
  PROVE  Kept
<1> USE DEF NativeInv
<1>1. PICK e : e = disk.core
  OBVIOUS
<1>2. Filed(e)'
  BY <1>1, FiledLater, Bounded
<1>3. Filed(core)' /\ Filed(disk.core)'
  BY <1>1, <1>2 DEF Filed
<1>4. Switching' <=> Switching
  BY DEF Switching
<1>5. Behind'
  BY DEF Behind, Extends
<1>6. /\ Switching => /\ job'.step = "event" /\ job'.by = "start" /\ job'.intent = disk.pending
      /\ ~Switching => job' = Idle
  BY DEF Starting, Switching, Idle
<1>7. Carried' /\ Progress'
  <2>1. CASE ~Switching
    BY <1>4, <1>6, <2>1, IdleRest
  <2>2. CASE Switching
    BY <1>4, <1>6, <2>2 DEF Carried, Progress, Working, Begun, Serving
  <2> QED
    BY <2>1, <2>2
<1>8. Taken'
  BY <1>4, <1>6 DEF Taken, Idle
<1>9. Settled'
  BY <1>4 DEF Settled, Saved
<1>10. PendingProjectIsThere'
  BY <1>4 DEF PendingProjectIsThere
<1>11. NowStays
  BY NowOfSameFiles
<1>12. CompletedStep
  <2>1. IsList(disk.index)
    BY Bounded
  <2> QED
    BY <2>1, ListIs DEF CompletedStep, ToSet
<1> QED
  BY <1>3, <1>5, <1>7, <1>8, <1>9, <1>10, <1>11, <1>12 DEF Kept

\* A write of another file than the list's fails, or does what it is to do.
LEMMA FailureKept ==
  ASSUME NativeInv, Types', Gives, NEW c, CoreFollows(c), Filed(c)', NEW ps, ps = projects,
         NEW d, NEW next, Outcome(c, ps, d, next), Serving /\ Switching => CanPrepare(c)
  PROVE  Kept \/ (core' = c /\ projects' = ps /\ disk' = d /\ job' = next)
<1>1. CASE core' = disk.core /\ projects' = disk.index /\ disk' = disk /\ job' = Starting
  BY <1>1, StartKept
<1>2. CASE Serving /\ core' = c /\ projects' = ps /\ disk' = disk /\ job' = Idle
  <2>1. ListFollows(ps) /\ IsList(ps) /\ disk.index = ps
    BY SameFollows, Bounded DEF NativeInv
  <2>2. Quiet
    BY <1>2, <2>1, QuietStep
  <2>3. Carried' /\ Progress'
    BY <1>2, IdleRest DEF Switching
  <2>4. PendingProjectIsThere'
    BY <1>2 DEF NativeInv, PendingProjectIsThere, Switching
  <2>5. job'.step # "intent"
    BY <1>2 DEF Idle
  <2> QED
    BY <1>2, <2>1, <2>2, <2>3, <2>4, <2>5, QuietKept DEF NativeInv
<1> QED
  BY <1>1, <1>2 DEF Outcome

\* The list is saved.
LEMMA ListIsSaved ==
  ASSUME NativeInv, NEW ps, NEW next, ListWritten(ps, next)
  PROVE  /\ core' = core /\ projects' = ps /\ job' = next
         /\ disk' = [disk EXCEPT !.index = ps]
BY DEF NativeInv, ListWritten, SaveList, Write

-----------------------------------------------------------------------------
(* The race, the list and the services keep the invariant. *)

\* No switch is under way.
LEMMA AdmittedIs ==
  ASSUME Admitted
  PROVE  /\ job = Idle /\ job.step = "idle" /\ Serving /\ ~Switching
         /\ disk.pending.project = Nobody
BY NoIntentIs DEF Admitted, Free, Idle, Serving, Switching

\* Control changes the coordinator between two switches.
LEMMA RaceKept ==
  ASSUME NativeInv, Types', Gives, Admitted, NEW c \in Core, Filed(c)', CoreWritten(c, job),
         c.event = core.event, c.config = core.config, Extends(c.history, core.history)
  PROVE  Kept
<1>1. PICK ps, d, next : ps = projects /\ d = [disk EXCEPT !["core"] = c] /\ next = job
  OBVIOUS
<1>2. Write("core", c, c, ps, next)
  BY <1>1 DEF CoreWritten
<1>3. Outcome(c, ps, d, next)
  BY <1>1, <1>2, WriteEnds
<1>4. CoreFollows(c)
  BY AdmittedIs DEF CoreFollows
<1>5. CASE core' = c /\ projects' = ps /\ disk' = d /\ job' = next
  <2>1. disk \in Files
    BY Bounded DEF NativeInv
  <2>2. /\ disk'.core = c /\ disk'.index = projects /\ disk'.pending = disk.pending
        /\ disk'.hosted = disk.hosted /\ disk'.settings = disk.settings
    BY <1>1, <1>5, <2>1 DEF Files, NativeInv
  <2>3. IsList(ps) /\ ListFollows(ps)
    BY <1>1, Bounded, SameFollows DEF NativeInv
  <2>4. Quiet
    BY <1>1, <1>4, <1>5, <2>2, <2>3, QuietStep
  <2>5. job' = Idle /\ ~Switching'
    BY <1>1, <1>5, <2>2, AdmittedIs DEF Switching
  <2>6. Carried' /\ Progress' /\ PendingProjectIsThere'
    BY <2>5, IdleRest DEF PendingProjectIsThere
  <2> QED
    BY <1>1, <1>5, <2>2, <2>4, <2>5, <2>6, QuietKept DEF NativeInv, Idle
<1> QED
  BY <1>1, <1>3, <1>4, <1>5, AdmittedIs, FailureKept

\* A race starts between two switches, on a stage that is not archived.
LEMMA StartRaceKept == ASSUME NativeInv, StartRace PROVE Kept
<1>1. PICK c : c = [core EXCEPT !.phase = "race", !.stage = fresh.stage]
  OBVIOUS
<1>2. /\ Types' /\ Gives /\ c \in Core /\ Admitted /\ fresh'.stage = fresh.stage + 1
      /\ core \in Core /\ Filed(core) /\ fresh.stage \in Nat
  BY <1>1, StartRaceTyped, StartRaceGives, Bounded DEF NativeInv, StartRace
<1>3. CoreWritten(c, job)
  BY <1>1 DEF StartRace, Commit, CoreWritten
<1>4. /\ c.event = core.event /\ c.config = core.config /\ c.history = core.history
      /\ c.phase = "race" /\ c.stage = fresh.stage
  BY <1>1, <1>2 DEF Core
<1>5. \A s \in DOMAIN core.history : s \in Nat /\ s < fresh.stage
  BY <1>2, ResultsAre DEF Core, Filed
<1>6. Filed(c)'
  BY <1>2, <1>4, <1>5 DEF Filed
<1>7. Extends(c.history, core.history)
  BY <1>4 DEF Extends
<1> QED
  BY <1>2, <1>3, <1>4, <1>6, <1>7, RaceKept

\* An archived stage was raced in this event.
LEMMA ArchivedFiled ==
  ASSUME NativeInv, NEW complete \in BOOLEAN
  PROVE  LET a == Archived(core, complete)
         IN  /\ a \in Core /\ a.event = core.event /\ a.config = core.config
             /\ a.stage = core.stage /\ a.phase = core.phase
             /\ Extends(a.history, core.history)
             /\ \A s \in DOMAIN a.history : s < fresh.stage
             /\ core.stage # 0 => /\ core.stage \in DOMAIN a.history
                                  /\ a.history[core.stage].event = core.event
             /\ core.stage = 0 \/ core.stage \in DOMAIN core.history =>
                  Extends(core.history, a.history)
<1>1. core \in Core /\ Filed(core) /\ NativeConstants
  BY Bounded DEF NativeInv, Types
<1>2. PICK c, a : c = core /\ a = Archived(c, complete)
  OBVIOUS
<1>3. /\ a \in Core /\ a = [c EXCEPT !.history = a.history]
      /\ c.stage = 0 => a = c
      /\ c.stage # 0 => /\ DOMAIN a.history = DOMAIN c.history \cup {c.stage}
                        /\ a.history[c.stage].event = c.event
                        /\ \A s \in DOMAIN c.history \ {c.stage} : a.history[s] = c.history[s]
  BY <1>1, <1>2, ArchivedGives
<1>4. a.event = c.event /\ a.config = c.config /\ a.stage = c.stage /\ a.phase = c.phase
  BY <1>1, <1>2, <1>3, Zenon DEF Core
<1>5. /\ c.stage < fresh.stage /\ \A s \in DOMAIN c.history : s < fresh.stage
      /\ c.stage \in DOMAIN c.history => c.history[c.stage].event = c.event
  BY <1>1, <1>2 DEF Filed
<1>6. Extends(a.history, c.history)
  BY <1>3, <1>5 DEF Extends
<1>7. c.stage = 0 \/ c.stage \in DOMAIN c.history => Extends(c.history, a.history)
  BY <1>3, <1>5 DEF Extends
<1> QED
  BY <1>2, <1>3, <1>4, <1>5, <1>6, <1>7

\* What is archived can go to a file later.
LEMMA StagesFiled ==
  ASSUME NativeInv, Gives, NEW complete \in BOOLEAN, NEW a, a = Archived(core, complete)
  PROVE  /\ a \in Core /\ a.event = core.event /\ a.config = core.config
         /\ a.stage = core.stage /\ Extends(a.history, core.history)
         /\ 0 < fresh'.stage /\ a.stage < fresh'.stage
         /\ \A s \in DOMAIN a.history : s < fresh'.stage /\ s # 0
         /\ a.stage # 0 => /\ a.stage \in DOMAIN a.history
                           /\ a.history[a.stage].event = core.event
<1>1. /\ a \in Core /\ a.event = core.event /\ a.config = core.config
      /\ a.stage = core.stage /\ Extends(a.history, core.history)
      /\ \A s \in DOMAIN a.history : s < fresh.stage
      /\ core.stage # 0 => /\ core.stage \in DOMAIN a.history
                           /\ a.history[core.stage].event = core.event
  BY ArchivedFiled
<1>2. /\ 0 < fresh.stage /\ a.stage < fresh.stage /\ fresh.stage <= fresh'.stage
      /\ fresh.stage \in Nat /\ fresh'.stage \in Nat /\ a.stage \in Nat
      /\ \A s \in DOMAIN a.history : s \in 1..MaxStage
      /\ MaxStage \in Nat
  <2>1. /\ fresh.stage \in 1..MaxStage + 1 /\ MaxStage \in Nat /\ fresh' \in Fresh
        /\ fresh.stage <= fresh'.stage /\ core.stage < fresh.stage
    BY Bounded DEF Gives, NativeInv, Filed
  <2>2. a.stage \in 0..MaxStage /\ a.history \in Results
    BY <1>1 DEF Core
  <2> QED
    BY <1>1, <2>1, <2>2, ResultsAre DEF Fresh
<1>3. /\ 0 < fresh'.stage /\ a.stage < fresh'.stage
      /\ \A s \in DOMAIN a.history : s < fresh'.stage /\ s # 0
  BY <1>1, <1>2
<1> QED
  BY <1>1, <1>3

\* The coordinator back in the lobby.
LEMMA LobbyFiled ==
  ASSUME NativeInv, Gives, NEW complete \in BOOLEAN, NEW a, a = Archived(core, complete),
         NEW c, c = [a EXCEPT !.phase = "lobby", !.stage = 0]
  PROVE  /\ c \in Core /\ Filed(c)' /\ c.event = core.event /\ c.config = core.config
         /\ Extends(c.history, core.history) /\ c.phase = "lobby"
<1>1. /\ a \in Core /\ a.event = core.event /\ a.config = core.config
      /\ Extends(a.history, core.history) /\ 0 < fresh'.stage
      /\ \A s \in DOMAIN a.history : s < fresh'.stage /\ s # 0
  BY StagesFiled
<1>2. c \in Core
  BY LobbyGives, Bounded DEF NativeInv
<1>3. /\ c.event = a.event /\ c.config = a.config /\ c.history = a.history /\ c.phase = "lobby"
      /\ c.stage = 0
  BY <1>1 DEF Core
<1> QED
  BY <1>1, <1>2, <1>3 DEF Filed

\* The coordinator at the results of the race.
LEMMA FinishedFiled ==
  ASSUME NativeInv, Gives, NEW complete \in BOOLEAN, NEW a, a = Archived(core, complete),
         NEW c, c = [a EXCEPT !.phase = "finished"]
  PROVE  /\ c \in Core /\ Filed(c)' /\ c.event = core.event /\ c.config = core.config
         /\ Extends(c.history, core.history) /\ c.phase = "finished"
<1>1. /\ a \in Core /\ a.event = core.event /\ a.config = core.config
      /\ Extends(a.history, core.history)
      /\ a.stage < fresh'.stage
      /\ \A s \in DOMAIN a.history : s < fresh'.stage /\ s # 0
      /\ a.stage # 0 => /\ a.stage \in DOMAIN a.history
                        /\ a.history[a.stage].event = core.event
  BY StagesFiled
<1>2. c \in Core
  BY LobbyGives, Bounded DEF NativeInv
<1>3. /\ c.event = a.event /\ c.config = a.config /\ c.history = a.history
      /\ c.phase = "finished" /\ c.stage = a.stage
  BY <1>1 DEF Core
<1>4. c.stage \in DOMAIN c.history => c.stage # 0
  BY <1>1, <1>3
<1> QED
  BY <1>1, <1>2, <1>3, <1>4 DEF Filed

\* The coordinator of the next event.
InEvent(a, event) == [a EXCEPT !.event = event, !.phase = "lobby", !.stage = 0]

\* It has the history that was archived, and no stage.
LEMMA BegunFiled ==
  ASSUME NativeInv, Gives, NEW complete \in BOOLEAN, NEW a, a = Archived(core, complete),
         NEW event \in 0..MaxId, NEW c, c = InEvent(a, event)
  PROVE  /\ c \in Core /\ Filed(c)' /\ c.event = event /\ c.config = core.config
         /\ c.history = a.history /\ c.phase = "lobby"
<1>1. /\ a \in Core /\ a.config = core.config /\ 0 < fresh'.stage
      /\ \A s \in DOMAIN a.history : s < fresh'.stage /\ s # 0
  BY StagesFiled
<1>2. c = [a EXCEPT !.event = event, !.phase = "lobby", !.stage = 0]
  BY DEF InEvent
<1>3. c \in Core
  <2>1. Types
    BY DEF NativeInv
  <2>2. [Archived(core, complete) EXCEPT !.event = event, !.phase = "lobby", !.stage = 0] \in Core
    BY <2>1, LobbyGives
  <2> QED
    BY <1>2, <2>2
<1>4. /\ c.event = event /\ c.config = a.config /\ c.history = a.history /\ c.phase = "lobby"
      /\ c.stage = 0
  BY <1>1, <1>2 DEF Core
<1> QED
  BY <1>1, <1>3, <1>4 DEF Filed

\* Control goes back to the lobby.
LEMMA ToLobbyKept == ASSUME NativeInv, ToLobby PROVE Kept
<1>1. PICK complete \in BOOLEAN : complete = (core.phase = "finished")
  OBVIOUS
<1>2. PICK a : a = Archived(core, complete)
  OBVIOUS
<1>3. PICK c : c = [a EXCEPT !.phase = "lobby", !.stage = 0]
  OBVIOUS
<1>4. CoreWritten(c, job) /\ Admitted
  BY <1>1, <1>2, <1>3 DEF ToLobby, Commit, CoreWritten
<1>5. Types' /\ Gives
  BY ToLobbyTyped, NothingGiven DEF NativeInv, ToLobby
<1>6. /\ c \in Core /\ Filed(c)' /\ c.event = core.event /\ c.config = core.config
      /\ Extends(c.history, core.history)
  BY <1>2, <1>3, <1>5, LobbyFiled
<1> QED
  BY <1>4, <1>5, <1>6, RaceKept

\* The job goes on undisturbed beside a step of a handler or a service.
LEMMA SameJob ==
  ASSUME NativeInv, job' = job, NEW c, core' = c, c.event = core.event, c.config = core.config,
         Serving /\ (Switching \/ job.step = "intent") => CanPrepare(c),
         NEW ps, projects' = ps, disk'.index = ps, DOMAIN ps = DOMAIN projects,
         \A k \in DOMAIN projects : /\ ps[k].id = projects[k].id /\ ps[k].event = projects[k].event
                                    /\ ps[k].status = projects[k].status,
         disk'.core \in {disk.core, c}, disk'.pending = disk.pending,
         disk'.hosted = disk.hosted, disk'.settings = disk.settings
  PROVE  Carried' /\ Progress' /\ PendingProjectIsThere'
<1> USE DEF NativeInv
<1>1. (Switching' <=> Switching) /\ (Serving' <=> Serving)
  BY DEF Switching, Serving
<1>2. Carried'
  <2>1. CanPrepare(core)' <=> CanPrepare(c)
    BY DEF CanPrepare
  <2> QED
    BY <1>1, <2>1 DEF Carried
<1>3. job.step = "receipt" => core.event = disk.core.event
  BY DEF Carried, Settled
<1>4. Progress'
  <2>1. disk'.core.event = disk.core.event \/ disk'.core.event = core.event
    OBVIOUS
  <2>2. disk'.core.config = disk.core.config \/ disk'.core.config = core.config
    OBVIOUS
  <2> QED
    BY <1>3, <2>1, <2>2 DEF Progress, Begun
<1>5. PendingProjectIsThere'
  BY <1>1 DEF PendingProjectIsThere
<1> QED
  BY <1>2, <1>4, <1>5

\* Such a step keeps the invariant.
LEMMA BesideKept ==
  ASSUME NativeInv, Types', Gives, job' = job,
         NEW c, core' = c, c.event = core.event, c.config = core.config,
         CoreFollows(c), Filed(c)',
         Serving /\ (Switching \/ job.step = "intent") => CanPrepare(c),
         NEW ps, projects' = ps, disk'.index = ps, DOMAIN ps = DOMAIN projects,
         IsList(ps), ListFollows(ps),
         \A k \in DOMAIN projects : /\ ps[k].id = projects[k].id /\ ps[k].event = projects[k].event
                                    /\ ps[k].status = projects[k].status,
         disk'.core \in {disk.core, c}, disk'.pending = disk.pending,
         disk'.hosted = disk.hosted, disk'.settings = disk.settings
  PROVE  Kept
<1>1. Carried' /\ Progress' /\ PendingProjectIsThere'
  BY SameJob
<1>2. Quiet
  BY QuietStep
<1> QED
  BY <1>1, <1>2, QuietKept DEF NativeInv

\* The race ends.
LEMMA FinishRaceKept == ASSUME NativeInv, FinishRace PROVE Kept
<1>1. PICK complete \in BOOLEAN : complete = TRUE
  OBVIOUS
<1>2. PICK a : a = Archived(core, complete)
  OBVIOUS
<1>3. PICK c : c = [a EXCEPT !.phase = "finished"]
  OBVIOUS
<1>4. Types' /\ Gives
  BY FinishRaceTyped, NothingGiven DEF NativeInv, FinishRace
<1>5. /\ Serving /\ core.phase = "race" /\ core' = c
      /\ disk' = [disk EXCEPT !.core = c] \/ disk' = disk
      /\ projects' = projects /\ job' = job
  BY <1>1, <1>2, <1>3 DEF FinishRace
<1>6. ~Switching /\ job.step # "intent"
  BY <1>5 DEF NativeInv, Carried, CanPrepare
<1>7. disk \in Files /\ IsList(projects) /\ ListFollows(projects) /\ disk.index = projects
  BY <1>4, Bounded, SameFollows DEF NativeInv
<1>8. /\ disk'.core \in {disk.core, c} /\ disk'.index = projects
      /\ disk'.pending = disk.pending /\ disk'.hosted = disk.hosted
      /\ disk'.settings = disk.settings
  BY <1>5, <1>7 DEF Files
<1>9. /\ Filed(c)' /\ c.event = core.event /\ c.config = core.config
      /\ Extends(c.history, core.history)
  BY <1>2, <1>3, <1>4, FinishedFiled
<1>10. CoreFollows(c)
  BY <1>6, <1>9 DEF CoreFollows
<1>11. PICK ps : ps = projects
  OBVIOUS
<1> QED
  BY <1>4, <1>5, <1>6, <1>7, <1>8, <1>9, <1>10, <1>11, BesideKept

\* The active project is brought up to date.
LEMMA SyncKept == ASSUME NativeInv, Sync PROVE Kept
<1>1. PICK qs, ps, c : qs = projects /\ ps = Synced(qs) /\ c = core
  OBVIOUS
<1>2. Types' /\ Gives
  BY SyncTyped, NothingGiven DEF NativeInv, Sync
<1>3. /\ disk' = [disk EXCEPT !.index = ps] /\ core' = c /\ projects' = ps /\ job' = job
  BY <1>1 DEF NativeInv, Sync
<1>4. disk \in Files /\ IsList(qs) /\ core \in Core
  BY <1>1, Bounded DEF NativeInv
<1>5. /\ disk'.core = disk.core /\ disk'.index = ps /\ disk'.pending = disk.pending
      /\ disk'.hosted = disk.hosted /\ disk'.settings = disk.settings
  BY <1>3, <1>4 DEF Files
<1>6. /\ IsList(ps) /\ DOMAIN ps = DOMAIN qs
      /\ \A k \in DOMAIN qs : /\ ps[k].id = qs[k].id /\ ps[k].event = qs[k].event
                              /\ ps[k].status = qs[k].status
  BY <1>1, <1>4, SyncedGives
<1>7. ListFollows(ps)
  BY <1>1, SyncedFollows
<1>8. CoreFollows(c) /\ Filed(c)'
  BY <1>1, <1>2, SameFollows
<1>9. Serving /\ (Switching \/ job.step = "intent") => CanPrepare(c)
  BY <1>1 DEF NativeInv, Carried
<1> QED
  BY <1>1, <1>2, <1>3, <1>5, <1>6, <1>7, <1>8, <1>9, BesideKept

\* The file of the coordinator catches up with memory.
LEMMA CheckpointKept == ASSUME NativeInv, Checkpoint PROVE Kept
<1>1. PICK ps, c : ps = projects /\ c = core
  OBVIOUS
<1>2. Types' /\ Gives
  BY CheckpointTyped, NothingGiven DEF NativeInv, Checkpoint
<1>3. disk' = [disk EXCEPT !.core = c] /\ core' = c /\ projects' = ps /\ job' = job
  BY <1>1 DEF Checkpoint
<1>4. disk \in Files /\ IsList(ps) /\ disk.index = ps
  BY <1>1, Bounded DEF NativeInv
<1>5. /\ disk'.core = c /\ disk'.index = ps /\ disk'.pending = disk.pending
      /\ disk'.hosted = disk.hosted /\ disk'.settings = disk.settings
  BY <1>3, <1>4 DEF Files
<1>6. CoreFollows(c) /\ Filed(c)' /\ ListFollows(ps)
  BY <1>1, <1>2, SameFollows
<1>7. Serving /\ (Switching \/ job.step = "intent") => CanPrepare(c)
  BY <1>1 DEF NativeInv, Carried
<1> QED
  BY <1>1, <1>2, <1>3, <1>4, <1>5, <1>6, <1>7, BesideKept

\* A project is exported.
LEMMA ExportKept == ASSUME NativeInv, NEW i \in DOMAIN projects, Export(i) PROVE Kept
<1>1. PICK ps, c : ps = projects /\ c = core
  OBVIOUS
<1>2. Types' /\ Gives
  BY ExportTyped, ExportGives DEF NativeInv
<1>3. disk' = disk /\ core' = c /\ projects' = ps /\ job' = job
  BY <1>1 DEF Export
<1>4. IsList(ps) /\ disk.index = ps
  BY <1>1, Bounded DEF NativeInv
<1>5. CoreFollows(c) /\ Filed(c)' /\ ListFollows(ps)
  BY <1>1, <1>2, SameFollows
<1>6. Serving /\ (Switching \/ job.step = "intent") => CanPrepare(c)
  BY <1>1 DEF NativeInv, Carried
<1> QED
  BY <1>1, <1>2, <1>3, <1>4, <1>5, <1>6, BesideKept

\* Control changes the list between two switches.
LEMMA ListKept ==
  ASSUME NativeInv, Types', Gives, Admitted, NEW ps, IsList(ps), ListFollows(ps),
         ListWritten(ps, job)
  PROVE  Kept
<1>1. PICK next, c : next = job /\ c = core
  OBVIOUS
<1>2. core' = c /\ projects' = ps /\ job' = next /\ disk' = [disk EXCEPT !.index = ps]
  BY <1>1, ListIsSaved
<1>3. disk \in Files
  BY Bounded DEF NativeInv
<1>4. /\ disk'.core = disk.core /\ disk'.index = ps /\ disk'.pending = disk.pending
      /\ disk'.hosted = disk.hosted /\ disk'.settings = disk.settings
  BY <1>2, <1>3 DEF Files
<1>5. CoreFollows(c) /\ Filed(c)'
  BY <1>1, SameFollows
<1>6. Quiet
  BY <1>1, <1>2, <1>4, <1>5, QuietStep
<1>7. job' = Idle /\ ~Switching' /\ job'.step = "idle"
  BY <1>1, <1>2, <1>4, AdmittedIs DEF Switching
<1>8. Carried' /\ Progress' /\ PendingProjectIsThere'
  BY <1>7, IdleRest DEF PendingProjectIsThere
<1> QED
  BY <1>2, <1>4, <1>6, <1>7, <1>8, QuietKept DEF NativeInv

\* A list with a draft added follows.
LEMMA DraftFollows ==
  ASSUME NativeInv, Gives, NEW qs, qs \in {Synced(projects), projects}, Len(qs) < MaximumProjects,
         NEW id \in Id, id < fresh'.id, id \notin Ids(projects)
  PROVE  IsList(Append(qs, Draft(id))) /\ ListFollows(Append(qs, Draft(id)))
<1>1. IsList(projects) /\ Before(projects) /\ core \in Core /\ Types
  BY Bounded DEF NativeInv, Types, Given
<1>2. /\ IsList(qs) /\ DOMAIN qs = DOMAIN projects
      /\ \A i \in DOMAIN projects : qs[i].id = projects[i].id
  BY <1>1, SyncedGives
<1>3. ListFollows(qs)
  BY SyncedFollows, SameFollows
<1>4. Before(qs) /\ id \notin Ids(qs)
  BY <1>1, <1>2 DEF Before, Ids
<1>5. PICK ps : ps = Append(qs, Draft(id))
  OBVIOUS
<1>6. /\ IsList(ps) /\ DOMAIN ps = DOMAIN qs \cup {Len(qs) + 1}
      /\ \A i \in DOMAIN qs : ps[i] = qs[i]
      /\ ps[Len(qs) + 1] = Draft(id)
  BY <1>1, <1>2, <1>4, <1>5, DraftListable DEF Listable
<1>7. Draft(id).status = "draft"
  BY <1>1, DraftIs
<1>8. ListFollows(ps)
  BY <1>3, <1>6, <1>7 DEF ListFollows
<1> QED
  BY <1>5, <1>6, <1>8

\* A project is created or copied.
LEMMA NewDraftKept == ASSUME NativeInv, NewDraft PROVE Kept
<1>1. TakeId /\ Gives /\ fresh.id \in Id /\ fresh.id < fresh'.id /\ Types'
  BY TakeIdGives, NewDraftTyped DEF NativeInv, NewDraft
<1>2. PICK qs : qs \in {Synced(projects), projects} /\ SaveList(Append(qs, Draft(fresh.id)), job)
  BY DEF NewDraft
<1>3. PICK id \in Id : id = fresh.id
  BY <1>1
<1>4. PICK ps : ps = Append(qs, Draft(id))
  OBVIOUS
<1>5. ListWritten(ps, job) /\ Admitted
  BY <1>2, <1>3, <1>4 DEF ListWritten, NewDraft
<1>6. Len(qs) < MaximumProjects
  <2>1. Len(Synced(projects)) = Len(projects)
    BY SyncedGives, Bounded DEF NativeInv
  <2> QED
    BY <1>2, <2>1 DEF NewDraft, HasRoom
<1>7. id \notin Ids(projects)
  <2>1. \A i \in DOMAIN projects : projects[i].id < fresh.id /\ projects[i].id \in Nat
    BY ListIs, Bounded DEF NativeInv, Types, Given, Before, Project, Id
  <2>2. fresh.id \in Nat
    BY Bounded DEF NativeInv
  <2> QED
    BY <1>3, <2>1, <2>2 DEF Ids
<1>8. IsList(ps) /\ ListFollows(ps)
  BY <1>1, <1>2, <1>3, <1>4, <1>6, <1>7, DraftFollows
<1> QED
  BY <1>1, <1>5, <1>8, ListKept

\* A project is imported.
LEMMA ImportKept ==
  ASSUME NativeInv, NEW package \in Package, Import(package)
  PROVE  Kept
<1>1. /\ IsList(projects) /\ Before(projects) /\ Len(projects) < MaximumProjects
      /\ package \in fresh.packages /\ package \in Id /\ package < fresh.id
  BY Bounded DEF NativeInv, Types, Given, Import, HasRoom
<1>2. PICK id \in Id :
        /\ Gives /\ id < fresh'.id /\ id \notin Ids(projects)
        /\ SaveList(Append(projects, Draft(id)), job)
  <2>1. CASE package \in Ids(projects)
    <3>1. TakeId /\ SaveList(Append(projects, Draft(fresh.id)), job)
      BY <2>1 DEF Import
    <3>2. Gives /\ fresh.id \in Id /\ fresh.id < fresh'.id
      BY <3>1, TakeIdGives DEF NativeInv
    <3>3. fresh.id \notin Ids(projects)
      <4>1. \A i \in DOMAIN projects : projects[i].id < fresh.id /\ projects[i].id \in Nat
        BY <1>1, ListIs DEF Before, Project, Id
      <4> QED
        BY <4>1, Bounded DEF Ids, NativeInv
    <3> QED
      BY <3>1, <3>2, <3>3
  <2>2. CASE package \notin Ids(projects)
    <3>1. fresh' = fresh /\ SaveList(Append(projects, Draft(package)), job)
      BY <2>2 DEF Import
    <3> QED
      BY <1>1, <2>2, <3>1, NothingGiven DEF NativeInv
  <2> QED
    BY <2>1, <2>2
<1>3. PICK qs, ps : qs = projects /\ ps = Append(qs, Draft(id))
  OBVIOUS
<1>4. ListWritten(ps, job) /\ Admitted /\ Types'
  BY <1>2, <1>3, ImportTyped DEF ListWritten, Import, NativeInv
<1>5. Len(qs) < MaximumProjects
  BY <1>1, <1>3
<1>6. IsList(ps) /\ ListFollows(ps)
  BY <1>2, <1>3, <1>5, DraftFollows
<1> QED
  BY <1>2, <1>4, <1>6, ListKept

\* A project is closed.
LEMMA CloseKept ==
  ASSUME NativeInv, NEW i \in DOMAIN projects, NEW status \in {"completed", "archived"},
         Close(i, status)
  PROVE  Kept
<1>1. Gives /\ Types'
  BY NothingGiven, CloseTyped DEF NativeInv, Close
<1>2. PICK ps : ps = Synced([projects EXCEPT ![i].status = status])
  OBVIOUS
<1>3. ListWritten(ps, job) /\ Admitted /\ projects[i].status # "active"
  BY <1>2 DEF ListWritten, Close
<1>4. /\ Listable(ps) /\ DOMAIN ps = DOMAIN projects
      /\ \A k \in DOMAIN projects :
           /\ ps[k].id = projects[k].id /\ ps[k].event = projects[k].event
           /\ DOMAIN projects[k].results \subseteq DOMAIN ps[k].results
           /\ ps[k].status = IF k = i THEN status ELSE projects[k].status
  <2>1. Types
    BY DEF NativeInv
  <2>2. LET qs == Synced([projects EXCEPT ![i].status = status])
        IN  /\ Listable(qs) /\ DOMAIN qs = DOMAIN projects
            /\ \A k \in DOMAIN projects :
                 /\ qs[k].id = projects[k].id /\ qs[k].event = projects[k].event
                 /\ DOMAIN projects[k].results \subseteq DOMAIN qs[k].results
                 /\ qs[k].status = IF k = i THEN status ELSE projects[k].status
    BY <1>1, <1>3, <2>1, ClosedGives
  <2> QED
    BY <1>2, <2>2, Zenon
<1>5. ListFollows(ps)
  BY <1>3, <1>4 DEF ListFollows
<1> QED
  BY <1>1, <1>3, <1>4, <1>5, ListKept DEF Listable

\* A project is deleted.
LEMMA DeleteKept == ASSUME NativeInv, NEW i \in DOMAIN projects, Delete(i) PROVE Kept
<1>1. Gives /\ Types'
  BY NothingGiven, DeleteTyped DEF NativeInv, Delete
<1>2. PICK ps, qs : qs = projects /\ ps = RemoveAt(qs, i)
  OBVIOUS
<1>3. ListWritten(ps, job) /\ Admitted /\ qs[i].status # "active" /\ i \in DOMAIN qs
  BY <1>2 DEF ListWritten, Delete
<1>4. /\ IsList(ps)
      /\ \A j \in DOMAIN ps : \E k \in DOMAIN qs : k # i /\ ps[j] = qs[k]
      /\ \A k \in DOMAIN qs : k # i => \E j \in DOMAIN ps : ps[j] = qs[k]
  BY <1>2, <1>3, RemovedIs, Bounded DEF NativeInv, Types
<1>5. ListFollows(ps)
  <2>1. ASSUME NEW j \in DOMAIN ps, ps[j].status = "active"
        PROVE  \E k \in DOMAIN qs : /\ qs[k].status = "active" /\ qs[k].id = ps[j].id
                                    /\ qs[k].event = ps[j].event
                                    /\ DOMAIN qs[k].results \subseteq DOMAIN ps[j].results
    BY <1>4, <2>1
  <2>2. ASSUME NEW k \in DOMAIN qs, qs[k].status = "active"
        PROVE  \E j \in DOMAIN ps : ps[j].status = "active" /\ ps[j].id = qs[k].id
    BY <1>3, <1>4, <2>2
  <2> QED
    BY <1>2, <2>1, <2>2 DEF ListFollows
<1> QED
  BY <1>1, <1>3, <1>4, <1>5, ListKept

\* The process is started again.
LEMMA RestartKept == ASSUME NativeInv, Restart PROVE Kept
<1>1. Types' /\ Gives
  BY RestartTyped, NothingGiven DEF NativeInv, Restart
<1> QED
  BY <1>1, StartKept DEF Restart, Start, Starting

-----------------------------------------------------------------------------
(* The steps of a switch keep the invariant. *)

\* A step of the job that changes nothing else.
LEMMA JobKept ==
  ASSUME NativeInv, Types', Gives, UNCHANGED <<core, projects, disk>>,
         job'.step = "intent" => job.step = "intent", Carried', Progress'
  PROVE  Kept
<1>1. PICK ps, c : ps = projects /\ c = core
  OBVIOUS
<1>2. IsList(ps) /\ CoreFollows(c) /\ Filed(c)' /\ ListFollows(ps)
  BY <1>1, SameFollows, Bounded DEF NativeInv
<1>3. disk'.index = ps
  BY <1>1 DEF NativeInv
<1>4. Quiet
  BY <1>1, <1>2, <1>3, QuietStep
<1>5. PendingProjectIsThere'
  BY DEF NativeInv, PendingProjectIsThere, Switching
<1> QED
  BY <1>3, <1>4, <1>5, QuietKept DEF NativeInv

\* Nothing happens.
LEMMA StutterKept == ASSUME NativeInv, UNCHANGED vars PROVE Kept
<1>1. Types' /\ Gives
  BY NothingGiven, TypedStep DEF NativeInv, vars
<1>2. Carried' /\ Progress'
  BY DEF vars, NativeInv, Carried, Progress, Switching, Serving, CanPrepare
<1> QED
  BY <1>1, <1>2, JobKept DEF vars

\* A request is refused.
LEMMA RefusalKept ==
  ASSUME NativeInv, Types', Gives, Refuse
  PROVE  Kept
<1>1. PICK c, ps, d : c = core /\ ps = projects /\ d = disk
  OBVIOUS
<1>2. PICK next \in {0, 1} : next # job'
  OBVIOUS
<1>3. Outcome(c, ps, d, next)
  BY <1>1, RefusalEnds
<1>4. CoreFollows(c) /\ Filed(c)'
  BY <1>1, SameFollows
<1>5. Serving /\ Switching => CanPrepare(c)
  BY <1>1 DEF NativeInv, Carried
<1> QED
  BY <1>1, <1>2, <1>3, <1>4, <1>5, FailureKept

\* A switch is asked for.
LEMMA RequestKept ==
  ASSUME NativeInv, NEW target \in 0..MaxId, Request(target)
  PROVE  Kept
<1>1. Types' /\ Gives
  BY NothingGiven, RequestTyped DEF NativeInv, Request
<1>2. /\ job = Idle /\ UNCHANGED <<core, projects, disk>>
      /\ job' = [Idle EXCEPT !.step = IF disk.pending = NoIntent THEN "check" ELSE "event",
                             !.target = target, !.intent = disk.pending]
  BY DEF Request, Free
<1>3. /\ job'.step = IF disk.pending = NoIntent THEN "check" ELSE "event"
      /\ job'.by = "request" /\ job'.intent = disk.pending
  BY <1>2 DEF Idle
<1>4. Serving /\ (Switching' <=> Switching) /\ (Switching <=> disk.pending # NoIntent)
  BY <1>2 DEF Serving, Idle, Switching
<1>5. Switching => CanPrepare(core)
  BY <1>4 DEF NativeInv, Carried
<1>6. Carried'
  BY <1>2, <1>3, <1>4, <1>5 DEF Carried, Working, Begun, Serving, CanPrepare
<1>7. Progress'
  BY <1>3 DEF Progress, Begun
<1> QED
  BY <1>1, <1>2, <1>3, <1>6, <1>7, JobKept

\* The answer is given.
LEMMA AnswerKept == ASSUME NativeInv, Answer PROVE Kept
<1>1. Types' /\ Gives
  BY NothingGiven, AnswerTyped DEF NativeInv, Answer
<1>2. ~Switching' /\ job' = Idle
  BY DEF Answer, NativeInv, Carried, Switching
<1>3. Carried' /\ Progress'
  BY <1>2, IdleRest
<1> QED
  BY <1>1, <1>2, <1>3, JobKept DEF Answer, Idle

\* The project is the one that is prepared already.
LEMMA ThereKept ==
  ASSUME NativeInv, Types', Gives, job.step = "check", AlreadyThere(job.target),
         UNCHANGED <<core, projects, disk>>,
         job' = [job EXCEPT !.step = "receipt",
                            !.intent = [event |-> core.event, project |-> job.target]]
  PROVE  Kept
<1>1. job \in Job /\ IsList(projects)
  BY Bounded DEF NativeInv
<1>2. /\ job'.step = "receipt" /\ job'.by = job.by
      /\ job'.intent.event = core.event /\ job'.intent.project = job.target
  BY <1>1 DEF Job
<1>3. ~Switching /\ Serving /\ disk.core.event = core.event /\ (Switching' <=> Switching)
  BY DEF NativeInv, Carried, Settled, Switching
<1>4. Carried'
  BY <1>2, <1>3 DEF Carried, Working, Begun, Serving
<1>5. PICK i \in DOMAIN projects : projects[i].id = job.target /\ projects[i].status = "active"
  BY DEF AlreadyThere
<1>6. \A k \in DOMAIN projects : projects[k].status = "active" => k = i
  BY <1>1, <1>5, ListIs
<1>7. Progress'
  BY <1>2, <1>3, <1>5, <1>6 DEF Progress, Begun
<1> QED
  BY <1>2, <1>4, <1>7, JobKept

\* The active project has its results before it can be completed.
LEMMA ResultsKept ==
  ASSUME NativeInv, Types', Gives, job.step = "check", CanPrepare(core), Allowed(job.target),
         TakeResults
  PROVE  Kept
<1> USE DEF NativeInv
<1>1. PICK qs, ps, c : qs = projects /\ ps = Synced(qs) /\ c = core
  OBVIOUS
<1>2. disk \in Files /\ IsList(qs) /\ core \in Core /\ job \in Job
  BY <1>1, Bounded
<1>3. /\ core' = c /\ projects' = ps /\ job' = At("intent")
      /\ disk' = [disk EXCEPT !.index = ps] \/ (disk' = disk /\ disk.index = ps)
  <2>1. CASE ps = qs
    BY <1>1, <2>1 DEF TakeResults, SyncActive
  <2>2. CASE ps # qs
    <3>1. PICK next : next = At("intent")
      OBVIOUS
    <3>2. ListWritten(ps, next)
      BY <1>1, <2>2, <3>1 DEF TakeResults, SyncActive, ListWritten
    <3> QED
      BY <1>1, <3>1, <3>2, ListIsSaved
  <2> QED
    BY <2>1, <2>2
<1>4. /\ disk'.core = disk.core /\ disk'.index = ps /\ disk'.pending = disk.pending
      /\ disk'.hosted = disk.hosted /\ disk'.settings = disk.settings
  BY <1>2, <1>3 DEF Files
<1>5. /\ IsList(ps) /\ DOMAIN ps = DOMAIN qs
      /\ \A i \in DOMAIN qs :
           /\ ps[i].id = qs[i].id /\ ps[i].status = qs[i].status /\ ps[i].event = qs[i].event
           /\ qs[i].status = "active" =>
                {s \in DOMAIN core.history : core.history[s].event = qs[i].event}
                  \subseteq DOMAIN ps[i].results
  BY <1>1, <1>2, SyncedGives
<1>6. CoreFollows(c) /\ Filed(c)' /\ ListFollows(ps)
  BY <1>1, SameFollows, SyncedFollows
<1>7. Quiet
  BY <1>3, <1>4, <1>5, <1>6, QuietStep
<1>8. ~Switching /\ Serving /\ (Switching' <=> Switching)
  BY <1>4 DEF Carried, Switching
<1>9. job'.step = "intent" /\ job'.by = job.by /\ job'.target = job.target
  BY <1>2, <1>3 DEF At, Job
<1>10. Taken'
  <2> SUFFICES ASSUME NEW i \in DOMAIN ps, ps[i].status = "active"
               PROVE  /\ HasStages(ps[i].results, c.history, ps[i].event)
                      /\ HasStages(ps[i].results, disk.core.history, ps[i].event)
    BY <1>3, <1>4 DEF Taken
  <2>1. HasStages(ps[i].results, core.history, ps[i].event)
    BY <1>5 DEF HasStages
  <2>2. Extends(core.history, disk.core.history)
    BY DEF Behind
  <2> QED
    BY <1>1, <2>1, <2>2 DEF HasStages, Extends
<1>11. job.target # Nobody =>
         \E i \in DOMAIN ps : ps[i].id = job.target /\ ps[i].status = "draft"
  BY <1>1, <1>5 DEF Allowed
<1>12. Carried'
  BY <1>1, <1>3, <1>8, <1>9, <1>11 DEF Carried, Working, Begun, Serving, CanPrepare
<1>13. Progress'
  BY <1>9 DEF Progress, Begun
<1>14. PendingProjectIsThere'
  BY <1>8 DEF PendingProjectIsThere
<1> QED
  BY <1>3, <1>4, <1>7, <1>10, <1>12, <1>13, <1>14 DEF Quiet, Kept

\* The request is looked at.
LEMMA CheckKept == ASSUME NativeInv, Check PROVE Kept
<1>1. Types' /\ Gives /\ job.step = "check"
  BY NothingGiven, CheckTyped DEF NativeInv, Check
<1>2. CASE Refuse
  BY <1>1, <1>2, RefusalKept
<1>3. CASE ~Refuse /\ AlreadyThere(job.target)
  <2>1. /\ UNCHANGED <<core, projects, disk>>
        /\ job' = [job EXCEPT !.step = "receipt",
                              !.intent = [event |-> core.event, project |-> job.target]]
    BY <1>3 DEF Check
  <2> QED
    BY <1>1, <1>3, <2>1, ThereKept
<1>4. CASE ~Refuse /\ ~AlreadyThere(job.target)
  <2>1. TakeResults /\ CanPrepare(core) /\ Allowed(job.target)
    BY <1>4 DEF Check
  <2> QED
    BY <1>1, <2>1, ResultsKept
<1> QED
  BY <1>2, <1>3, <1>4

\* The list on disk is what it was.
LEMMA SameListStep ==
  ASSUME NativeInv, disk'.index = disk.index
  PROVE  CompletedStep
<1>1. IsList(disk.index)
  BY Bounded DEF NativeInv
<1> QED
  BY <1>1, ListIs DEF CompletedStep, ToSet

\* The intent is on disk: the switch has happened, as far as the files say.
LEMMA IntentKept ==
  ASSUME NativeInv, Types', Gives, fresh'.stage = fresh.stage,
         job.step = "intent", NEW intent \in Intent, intent.project = job.target,
         intent.project # Nobody => intent.event = intent.project, intent # NoIntent,
         UNCHANGED <<core, projects>>, disk' = [disk EXCEPT !.pending = intent],
         job' = [job EXCEPT !.step = "event", !.intent = intent]
  PROVE  Kept
<1> USE DEF NativeInv
<1>1. disk \in Files /\ IsList(projects) /\ job \in Job /\ MaxId \in Nat
  BY Bounded
<1>2. /\ disk'.core = disk.core /\ disk'.index = disk.index /\ disk'.pending = intent
      /\ disk'.hosted = disk.hosted /\ disk'.settings = disk.settings
  BY <1>1 DEF Files
<1>3. job'.step = "event" /\ job'.by = job.by /\ job'.intent = intent
  BY <1>1 DEF Job
<1>4. ~Switching /\ Serving /\ Switching'
  BY <1>2 DEF Carried, Switching
<1>5. Filed(core)' /\ Filed(disk.core)' /\ Behind'
  BY <1>2 DEF Filed, Behind, Extends
<1>6. Carried'
  BY <1>2, <1>3, <1>4 DEF Carried, Working, Begun, Serving, CanPrepare
<1>7. Taken'
  BY <1>2, <1>4 DEF Taken
<1>8. Settled'
  <2>1. core.config = disk.core.config
    BY <1>4, NoIntentIs DEF Settled, Switching
  <2> QED
    BY <1>2, <1>4, <2>1 DEF Settled
<1>9. Progress'
  BY <1>3 DEF Progress, Begun
<1>10. PendingProjectIsThere'
  <2>1. job.target # Nobody =>
          \E i \in DOMAIN projects : projects[i].id = job.target /\ projects[i].status = "draft"
    BY DEF Carried
  <2> QED
    BY <1>2, <2>1 DEF PendingProjectIsThere
<1>11. NowSwitches
  <2>1. intent.event \in Id
    BY DEF Intent
  <2>2. EventNow' = intent.event /\ ActiveNow' = intent.project
    BY <1>2, <1>4 DEF EventNow, ActiveNow
  <2>3. CASE intent.project # Nobody
    <3>1. ConfigNow' = intent.project
      BY <1>2, <1>4, <2>3 DEF ConfigNow
    <3> QED
      BY <2>1, <2>2, <2>3, <3>1 DEF NowSwitches
  <2>4. CASE intent.project = Nobody
    <3>1. ConfigNow' = ConfigNow
      BY <1>2, <1>4, <2>4 DEF ConfigNow, Mixed
    <3> QED
      BY <2>1, <2>2, <2>4, <3>1 DEF NowSwitches
  <2> QED
    BY <2>3, <2>4
<1>12. CompletedStep
  BY <1>2, SameListStep
<1> QED
  BY <1>2, <1>5, <1>6, <1>7, <1>8, <1>9, <1>10, <1>11, <1>12 DEF Kept

\* The intent is written, or its file fails.
LEMMA WriteIntentKept == ASSUME NativeInv, WriteIntent PROVE Kept
<1>1. Types' /\ Gives /\ fresh'.stage = fresh.stage /\ job.step = "intent"
  BY WriteIntentTyped, WriteIntentGives DEF NativeInv, WriteIntent
<1>2. PICK intent, next :
        /\ intent \in Intent /\ intent # NoIntent /\ intent.project = job.target
        /\ intent.project # Nobody => intent.event = intent.project
        /\ next = [job EXCEPT !.step = "event", !.intent = intent]
        /\ PartWritten("pending", intent, next)
  BY WriteIntentGives DEF NativeInv
<1>3. PICK c, ps, d : c = core /\ ps = projects /\ d = [disk EXCEPT !["pending"] = intent]
  OBVIOUS
<1>4. Write("pending", intent, c, ps, next)
  BY <1>2, <1>3 DEF PartWritten
<1>5. Outcome(c, ps, d, next)
  BY <1>3, <1>4, WriteEnds
<1>6. CoreFollows(c) /\ Filed(c)'
  BY <1>1, <1>3, SameFollows
<1>7. Serving /\ Switching => CanPrepare(c)
  BY <1>3 DEF NativeInv, Carried
<1>8. Kept \/ (core' = c /\ projects' = ps /\ disk' = d /\ job' = next)
  BY <1>1, <1>3, <1>5, <1>6, <1>7, FailureKept
<1>9. ASSUME core' = c /\ projects' = ps /\ disk' = d /\ job' = next
       PROVE  Kept
  <2>1. /\ UNCHANGED <<core, projects>> /\ disk' = [disk EXCEPT !.pending = intent]
        /\ job' = [job EXCEPT !.step = "event", !.intent = intent]
    BY <1>2, <1>3, <1>9
  <2> QED
    BY <1>1, <1>2, <2>1, IntentKept
<1> QED
  BY <1>8, <1>9

\* In a switch, a step of the job that writes a file other than the list.
LEMMA WorkKept ==
  ASSUME NativeInv, Types', Gives, job.step \in Working,
         NEW c, CoreFollows(c), Filed(c)', CanPrepare(core) => CanPrepare(c),
         NEW step, step \in Begun, job'.step = step, job'.intent = job.intent, job'.by = job.by,
         core' = c, UNCHANGED projects, disk'.core \in {disk.core, c}, disk'.index = disk.index,
         disk'.pending = disk.pending,
         job.intent.project = Nobody => UNCHANGED <<disk.hosted, disk.settings>>,
         Progress'
  PROVE  Kept
<1> USE DEF NativeInv
<1>1. PICK ps : ps = projects
  OBVIOUS
<1>2. IsList(ps) /\ ListFollows(ps) /\ disk'.index = ps /\ projects' = ps
  BY <1>1, Bounded, SameFollows
<1>3. Switching /\ job.intent = disk.pending /\ Switching'
  BY DEF Carried, Switching
<1>4. Quiet
  BY <1>2, <1>3, QuietStep
<1>5. step \in Working /\ step \notin {"check", "intent", "receipt", "idle"}
  BY DEF Working, Begun
<1>6. Serving' => CanPrepare(core')
  BY DEF Carried, Serving, Working, Begun
<1>7. Carried'
  BY <1>3, <1>5, <1>6 DEF Carried, CanPrepare
<1>8. PendingProjectIsThere'
  BY <1>3 DEF PendingProjectIsThere
<1> QED
  BY <1>2, <1>4, <1>5, <1>7, <1>8, QuietKept

\* A coordinator that follows has begun the event of the intent.
LEMMA BegunFollows ==
  ASSUME NativeInv, Gives, CanPrepare(core), job.step = "event", NEW c, c = EventBegun
  PROVE  /\ CoreFollows(c) /\ Filed(c)' /\ CanPrepare(c) /\ c.event = job.intent.event
         /\ c \in Core
<1>1. CASE core.event = job.intent.event
  <2>1. c = core
    BY <1>1 DEF EventBegun
  <2> QED
    BY <1>1, <2>1, SameFollows DEF CanPrepare
<1>2. CASE core.event # job.intent.event
  <2>1. PICK complete \in BOOLEAN : complete = (core.phase = "finished")
    OBVIOUS
  <2>2. PICK a : a = Archived(core, complete)
    OBVIOUS
  <2>3. PICK event \in 0..MaxId : event = job.intent.event
    BY Bounded DEF NativeInv, Job
  <2>4. c = InEvent(a, event)
    BY <1>2, <2>1, <2>2, <2>3 DEF EventBegun, InEvent
  <2>5. /\ c \in Core /\ Filed(c)' /\ c.event = event /\ c.config = core.config
        /\ c.history = a.history /\ c.phase = "lobby"
    <3>1. event \in 0..MaxId /\ complete \in BOOLEAN /\ a = Archived(core, complete)
      BY <2>1, <2>2, <2>3
    <3>2. c \in Core
      BY <2>4, <3>1, BegunFiled
    <3>3. Filed(c)'
      BY <2>4, <3>1, BegunFiled
    <3>4. c.event = event
      BY <2>4, <3>1, BegunFiled
    <3> QED
      BY <2>4, <3>1, <3>2, <3>3, <3>4, BegunFiled
  <2>6. core.stage = 0 \/ core.stage \in DOMAIN core.history
    BY DEF NativeInv, Filed, CanPrepare
  <2>7. Extends(a.history, core.history) /\ Extends(core.history, a.history)
    BY <2>1, <2>2, <2>6, ArchivedFiled
  <2>8. Switching
    BY DEF NativeInv, Carried, Working
  <2> QED
    BY <2>3, <2>5, <2>7, <2>8 DEF CoreFollows, CanPrepare
<1> QED
  BY <1>1, <1>2

\* The write of the coordinator's file in a switch.
LEMMA CoreWorkKept ==
  ASSUME NativeInv, Types', Gives, job.step \in Working,
         NEW c, CoreFollows(c), Filed(c)', CanPrepare(c), c.event = job.intent.event,
         NEW step, step \in {"room", "close", "hosted"}, CoreWritten(c, At(step)),
         step \in {"room", "hosted"} => job.intent.project # Nobody,
         step = "close" => job.intent.project = Nobody,
         step = "hosted" => c.config = job.intent.project
  PROVE  Kept
<1>1. PICK ps, d, next : ps = projects /\ d = [disk EXCEPT !["core"] = c] /\ next = At(step)
  OBVIOUS
<1>2. Write("core", c, c, ps, next)
  BY <1>1 DEF CoreWritten
<1>3. Outcome(c, ps, d, next)
  BY <1>1, <1>2, WriteEnds
<1>4. Kept \/ (core' = c /\ projects' = ps /\ disk' = d /\ job' = next)
  BY <1>1, <1>3, FailureKept
<1>5. ASSUME core' = c /\ projects' = ps /\ disk' = d /\ job' = next
      PROVE  Kept
  <2>1. disk \in Files /\ job \in Job
    BY Bounded DEF NativeInv
  <2>2. /\ disk'.core = c /\ disk'.index = disk.index /\ disk'.pending = disk.pending
        /\ disk'.hosted = disk.hosted /\ disk'.settings = disk.settings
    BY <1>1, <1>5, <2>1 DEF Files
  <2>3. job'.step = step /\ job'.intent = job.intent /\ job'.by = job.by
    BY <1>1, <1>5, <2>1 DEF At, Job
  <2>4. Progress'
    BY <1>5, <2>2, <2>3 DEF Progress, Begun
  <2>5. step \in Begun
    BY DEF Begun
  <2> QED
    BY <1>1, <1>5, <2>2, <2>3, <2>4, <2>5, WorkKept
<1> QED
  BY <1>4, <1>5

\* The event of the intent begins.
LEMMA BeginEventKept == ASSUME NativeInv, BeginEvent PROVE Kept
<1>1. Types' /\ Gives /\ job.step = "event"
  BY NothingGiven, BeginEventTyped DEF NativeInv, BeginEvent
<1>2. CASE Refuse
  BY <1>1, <1>2, RefusalKept
<1>3. CASE ~Refuse
  <2>1. PICK c : c = EventBegun
    OBVIOUS
  <2>2. PICK step \in {"close", "room"} :
          step = IF job.intent.project = Nobody THEN "close" ELSE "room"
    OBVIOUS
  <2>3. CoreWritten(c, At(IF job.intent.project = Nobody THEN "close" ELSE "room"))
    BY <1>3, <2>1, Zenon DEF BeginEvent, EventBegun, CoreWritten
  <2>4. CoreWritten(c, At(step))
    BY <2>2, <2>3
  <2>5. CanPrepare(core)
    BY <1>3 DEF BeginEvent
  <2>6. CoreFollows(c) /\ Filed(c)' /\ CanPrepare(c) /\ c.event = job.intent.event
    BY <1>1, <2>1, <2>5, BegunFollows
  <2> QED
    BY <1>1, <2>2, <2>4, <2>6, CoreWorkKept DEF Working
<1> QED
  BY <1>2, <1>3

\* The configuration of the project is applied.
LEMMA ApplyRoomKept == ASSUME NativeInv, ApplyRoom PROVE Kept
<1>1. Types' /\ Gives /\ job.step = "room"
  BY NothingGiven, ApplyRoomTyped DEF NativeInv, ApplyRoom
<1>2. CASE Refuse
  BY <1>1, <1>2, RefusalKept
<1>3. CASE ~Refuse
  <2>1. PICK c, step : c = [core EXCEPT !.config = job.intent.project] /\ step = "hosted"
    OBVIOUS
  <2>2. CoreWritten(c, At(step)) /\ core.phase = "lobby"
    BY <1>3, <2>1, Zenon DEF ApplyRoom, CoreWritten
  <2>3. core \in Core
    BY Bounded DEF NativeInv
  <2>4. /\ c.event = core.event /\ c.history = core.history /\ c.phase = core.phase
        /\ c.stage = core.stage /\ c.config = job.intent.project
    BY <2>1, <2>3 DEF Core
  <2>5. Filed(c)'
    <3>1. PICK e : e = core
      OBVIOUS
    <3>2. Filed(e)'
      BY <1>1, <3>1, SameFollows
    <3> QED
      BY <2>4, <3>1, <3>2 DEF Filed
  <2>6. /\ job.intent.project # Nobody /\ core.event = job.intent.event
        /\ Switching /\ job.intent = disk.pending
    BY <1>1 DEF NativeInv, Progress, Carried, Working, Begun
  <2>7. CoreFollows(c)
    BY <2>4, <2>6 DEF CoreFollows, Extends
  <2>8. CanPrepare(c)
    BY <2>2, <2>4 DEF CanPrepare
  <2> QED
    BY <1>1, <2>1, <2>2, <2>4, <2>5, <2>6, <2>7, <2>8, CoreWorkKept DEF Working, Begun
<1> QED
  BY <1>2, <1>3

\* The write of the hosted files or the settings in a switch.
LEMMA PartWorkKept ==
  ASSUME NativeInv, Types', Gives,
         NEW part, NEW step, NEW project, project = job.intent.project,
         PartWritten(part, project, At(step)),
         \/ job.step = "hosted" /\ part = "hosted" /\ step = "settings"
         \/ job.step = "settings" /\ part = "settings" /\ step = "activate"
  PROVE  Kept
<1>1. PICK c, ps, d, next :
        c = core /\ ps = projects /\ d = [disk EXCEPT ![part] = project] /\ next = At(step)
  OBVIOUS
<1>2. Write(part, project, c, ps, next)
  BY <1>1 DEF PartWritten
<1>3. Outcome(c, ps, d, next)
  BY <1>1, <1>2, WriteEnds
<1>4. CoreFollows(c) /\ Filed(c)'
  BY <1>1, SameFollows
<1>5. Serving /\ Switching => CanPrepare(c)
  BY <1>1 DEF NativeInv, Carried
<1>6. Kept \/ (core' = c /\ projects' = ps /\ disk' = d /\ job' = next)
  BY <1>1, <1>3, <1>4, <1>5, FailureKept
<1>7. ASSUME core' = c /\ projects' = ps /\ disk' = d /\ job' = next
      PROVE  Kept
  <2>1. disk \in Files /\ job \in Job
    BY Bounded DEF NativeInv
  <2>2. /\ disk'.core = disk.core /\ disk'.index = disk.index /\ disk'.pending = disk.pending
        /\ disk'.hosted = IF part = "hosted" THEN project ELSE disk.hosted
        /\ disk'.settings = IF part = "settings" THEN project ELSE disk.settings
    BY <1>1, <1>7, <2>1 DEF Files
  <2>3. job'.step = step /\ job'.intent = job.intent /\ job'.by = job.by
    BY <1>1, <1>7, <2>1 DEF At, Job
  <2>4. job.step \in Working /\ step \in Begun /\ job.intent.project # Nobody
    BY DEF NativeInv, Progress, Working, Begun
  <2>5. Progress'
    BY <1>1, <1>7, <2>2, <2>3 DEF NativeInv, Progress, Begun
  <2> QED
    BY <1>1, <1>4, <1>7, <2>2, <2>3, <2>4, <2>5, WorkKept
<1> QED
  BY <1>6, <1>7

\* The track and the logo of the project are hosted.
LEMMA HostFilesKept == ASSUME NativeInv, HostFiles PROVE Kept
<1>1. Types' /\ Gives /\ job.step = "hosted"
  BY NothingGiven, HostFilesTyped DEF NativeInv, HostFiles
<1>2. PICK project, part, step :
        project = job.intent.project /\ part = "hosted" /\ step = "settings"
  OBVIOUS
<1>3. PartWritten(part, project, At(step))
  BY <1>2 DEF HostFiles, PartWritten
<1> QED
  BY <1>1, <1>2, <1>3, PartWorkKept

\* The settings of the project are saved.
LEMMA SaveSettingsKept == ASSUME NativeInv, SaveSettings PROVE Kept
<1>1. Types' /\ Gives /\ job.step = "settings"
  BY NothingGiven, SaveSettingsTyped DEF NativeInv, SaveSettings
<1>2. PICK project, part, step :
        project = job.intent.project /\ part = "settings" /\ step = "activate"
  OBVIOUS
<1>3. PartWritten(part, project, At(step))
  BY <1>2 DEF SaveSettings, PartWritten
<1> QED
  BY <1>1, <1>2, <1>3, PartWorkKept

\* The intent names one of the projects.
LEMMA IntentFinds ==
  ASSUME NativeInv, Switching, disk.pending.project # Nobody
  PROVE  \E k \in DOMAIN projects :
           /\ Find(disk.pending.project) = {k} /\ projects[k].id = disk.pending.project
           /\ projects[k].status \in {"draft", "active"}
           /\ \A i \in DOMAIN projects : projects[i].id = disk.pending.project => i = k
<1>1. PICK k \in DOMAIN projects : /\ projects[k].id = disk.pending.project
                                   /\ projects[k].status \in {"draft", "active"}
  BY DEF NativeInv, PendingProjectIsThere
<1>2. \A i \in DOMAIN projects : projects[i].id = disk.pending.project => i = k
  BY <1>1, ListIs, Bounded DEF NativeInv
<1>3. Find(disk.pending.project) = {k}
  BY <1>1, <1>2 DEF Find
<1> QED
  BY <1>1, <1>2, <1>3

\* The list of a switch: the project of the intent is the active one.
LEMMA SwitchedKept ==
  ASSUME NativeInv, Types', Gives, job.step \in {"activate", "close"},
         NEW ps, IsList(ps), DOMAIN ps = DOMAIN projects,
         \A k \in DOMAIN projects :
           /\ ps[k].id = projects[k].id
           /\ DOMAIN projects[k].results \subseteq DOMAIN ps[k].results
           /\ ps[k].status = "active" <=> projects[k].id = job.intent.project
           /\ ps[k].status = "active" => ps[k].event = job.intent.event,
         UNCHANGED core, projects' = ps, disk' = [disk EXCEPT !.index = ps], job' = At("done")
  PROVE  Kept
<1> USE DEF NativeInv
<1>1. disk \in Files /\ job \in Job /\ MaxId \in Nat /\ IsList(projects)
  BY Bounded
<1>2. /\ disk'.core = disk.core /\ disk'.index = ps /\ disk'.pending = disk.pending
      /\ disk'.hosted = disk.hosted /\ disk'.settings = disk.settings
  BY <1>1 DEF Files
<1>3. job'.step = "done" /\ job'.by = job.by /\ job'.intent = job.intent
  BY <1>1 DEF At, Job
<1>4. Switching /\ Switching' /\ job.intent = disk.pending
  BY <1>2 DEF Carried, Switching, Working, Begun
<1>5. Filed(core)' /\ Filed(disk.core)' /\ Behind'
  <2>1. PICK c, e : c = core /\ e = disk.core
    OBVIOUS
  <2>2. Filed(c)' /\ Filed(e)'
    BY <2>1, FiledLater, Bounded
  <2> QED
    BY <1>2, <2>1, <2>2 DEF Filed, Behind, Extends
<1>6. Carried'
  BY <1>2, <1>3, <1>4 DEF Carried, Working, Begun, Serving, CanPrepare
<1>7. Taken'
  BY <1>2, <1>4 DEF Taken
<1>8. Settled'
  BY <1>2, <1>4 DEF Settled
<1>9. ASSUME job.intent.project # Nobody
      PROVE  /\ job.step = "activate"
             /\ \E k \in DOMAIN projects : projects[k].id = job.intent.project
  BY <1>4, <1>9, IntentFinds DEF Progress
<1>10. Progress'
  BY <1>2, <1>3, <1>9 DEF Progress, Begun
<1>11. PendingProjectIsThere'
  BY <1>2, <1>4, <1>9 DEF PendingProjectIsThere
<1>12. NowStays
  <2>1. EventNow' = EventNow /\ ActiveNow' = ActiveNow
    BY <1>2, <1>4 DEF EventNow, ActiveNow
  <2>2. ConfigNow' = ConfigNow
    BY <1>2, <1>4 DEF ConfigNow, Mixed
  <2> QED
    BY <2>1, <2>2 DEF NowStays
<1>13. CompletedStep
  <2> SUFFICES ASSUME NEW k \in DOMAIN projects, NEW j \in DOMAIN ps,
                      projects[k].id = ps[j].id, projects[k].status = "active",
                      ps[j].status = "completed"
               PROVE  StagesOf(projects[k].event) \subseteq DOMAIN ps[j].results
    BY <1>2 DEF CompletedStep, ToSet
  <2>1. k = j
    BY <1>1, ListIs
  <2>2. projects[k].id # disk.pending.project
    BY <1>4, <2>1
  <2>3. HasStages(projects[k].results, core.history, projects[k].event)
    BY <1>4, <2>2 DEF Taken
  <2> QED
    BY <2>1, <2>3 DEF HasStages, StagesOf
<1> QED
  BY <1>2, <1>5, <1>6, <1>7, <1>8, <1>10, <1>11, <1>12, <1>13 DEF Kept

\* The list is as the intent wants it.
LEMMA DoneKept ==
  ASSUME NativeInv, Types', Gives, job.step \in {"activate", "close"},
         UNCHANGED <<core, projects, disk>>, job' = At("done"),
         \A k \in DOMAIN projects :
           projects[k].status = "active" => /\ projects[k].id = job.intent.project
                                            /\ projects[k].event = job.intent.event,
         job.intent.project # Nobody => \E k \in DOMAIN projects : projects[k].status = "active"
  PROVE  Kept
<1>1. job \in Job
  BY Bounded DEF NativeInv
<1>2. job'.step = "done" /\ job'.by = job.by /\ job'.intent = job.intent
  BY <1>1 DEF At, Job
<1>3. Carried'
  BY <1>2 DEF NativeInv, Carried, Working, Begun, Serving, CanPrepare, Switching
<1>4. Progress'
  BY <1>2 DEF NativeInv, Progress, Begun
<1> QED
  BY <1>2, <1>3, <1>4, JobKept

\* The project of the intent is the active one.
LEMMA ActivateProjectKept == ASSUME NativeInv, ActivateProject PROVE Kept
<1>1. Types' /\ Gives /\ job.step = "activate"
  BY NothingGiven, ActivateProjectTyped DEF NativeInv, ActivateProject
<1>2. /\ job.intent = disk.pending /\ Switching /\ job.intent.project # Nobody
      /\ IsList(projects)
  BY <1>1, Bounded DEF NativeInv, Carried, Progress, Working, Begun
<1>3. PICK k \in DOMAIN projects :
        /\ Find(job.intent.project) = {k} /\ projects[k].id = job.intent.project
        /\ projects[k].status \in {"draft", "active"}
        /\ \A i \in DOMAIN projects : projects[i].id = job.intent.project => i = k
  BY <1>2, IntentFinds
<1>4. (CHOOSE i \in Find(job.intent.project) : TRUE) = k
  BY <1>3
<1>5. IF projects[k].status = "active" /\ projects[k].event = job.intent.event
      THEN job' = At("done") /\ UNCHANGED <<core, projects, disk, faults>>
      ELSE IF projects[k].status \in {"completed", "archived"} THEN Refuse
      ELSE ListWritten(ProjectActivated, At("done"))
  BY <1>4, Zenon DEF ActivateProject, ListWritten, ProjectActivated
<1>6. CASE projects[k].status = "active" /\ projects[k].event = job.intent.event
  <2>1. \A i \in DOMAIN projects : projects[i].status = "active" => i = k
    BY <1>2, <1>6, ListIs
  <2>2. job' = At("done") /\ UNCHANGED <<core, projects, disk>>
    BY <1>5, <1>6
  <2>3. /\ \A i \in DOMAIN projects :
             projects[i].status = "active" => /\ projects[i].id = job.intent.project
                                              /\ projects[i].event = job.intent.event
        /\ \E i \in DOMAIN projects : projects[i].status = "active"
    BY <1>3, <1>6, <2>1
  <2> QED
    BY <1>1, <2>2, <2>3, DoneKept
<1>7. CASE ~(projects[k].status = "active" /\ projects[k].event = job.intent.event)
  <2>1. PICK ps, next : ps = ProjectActivated /\ next = At("done")
    OBVIOUS
  <2>2. ListWritten(ps, next)
    BY <1>3, <1>5, <1>7, <2>1
  <2>3. /\ core' = core /\ projects' = ps /\ job' = next
        /\ disk' = [disk EXCEPT !.index = ps]
    BY <2>2, ListIsSaved
  <2>4. /\ Listable(ps) /\ DOMAIN ps = DOMAIN projects
        /\ \A i \in DOMAIN projects :
             /\ ps[i].id = projects[i].id
             /\ ps[i].results = projects[i].results
             /\ ps[i].status = "active" <=> projects[i].id = job.intent.project
             /\ projects[i].id = job.intent.project => ps[i].event = job.intent.event
    BY <1>1, <2>1, ActivatedGives DEF NativeInv
  <2>5. \A i \in DOMAIN projects :
          /\ ps[i].id = projects[i].id
          /\ DOMAIN projects[i].results \subseteq DOMAIN ps[i].results
          /\ ps[i].status = "active" <=> projects[i].id = job.intent.project
          /\ ps[i].status = "active" => ps[i].event = job.intent.event
    BY <2>4
  <2>6. IsList(ps) /\ job' = At("done")
    BY <2>1, <2>3, <2>4 DEF Listable
  <2> QED
    BY <1>1, <2>3, <2>4, <2>5, <2>6, SwitchedKept
<1> QED
  BY <1>6, <1>7

\* Without a project in the intent, none is active.
LEMMA CompleteProjectsKept == ASSUME NativeInv, CompleteProjects PROVE Kept
<1>1. Types' /\ Gives /\ job.step = "close" /\ job.intent.project = Nobody
  BY NothingGiven, CompleteProjectsTyped DEF NativeInv, CompleteProjects, Progress
<1>2. PICK ps, next : ps = Completed(projects) /\ next = At("done")
  OBVIOUS
<1>3. /\ Listable(ps) /\ DOMAIN ps = DOMAIN projects
      /\ \A k \in DOMAIN projects :
           /\ ps[k].id = projects[k].id /\ ps[k].status # "active"
           /\ ps[k].results = projects[k].results
  BY <1>1, <1>2, CompletedGives DEF NativeInv
<1>4. \A k \in DOMAIN projects : projects[k].id # Nobody
  BY Bounded, ListIs DEF NativeInv, Project, Id, Nobody
<1>5. CASE ps = projects
  <2>1. job' = At("done") /\ UNCHANGED <<core, projects, disk>>
    BY <1>2, <1>5 DEF CompleteProjects
  <2>2. \A k \in DOMAIN projects : projects[k].status # "active"
    BY <1>3, <1>5
  <2> QED
    BY <1>1, <2>1, <2>2, DoneKept
<1>6. CASE ps # projects
  <2>1. ListWritten(ps, next)
    BY <1>2, <1>6 DEF CompleteProjects, ListWritten
  <2>2. /\ core' = core /\ projects' = ps /\ job' = next
        /\ disk' = [disk EXCEPT !.index = ps]
    BY <2>1, ListIsSaved
  <2>3. \A k \in DOMAIN projects :
          /\ ps[k].id = projects[k].id
          /\ DOMAIN projects[k].results \subseteq DOMAIN ps[k].results
          /\ ps[k].status = "active" <=> projects[k].id = job.intent.project
          /\ ps[k].status = "active" => ps[k].event = job.intent.event
    BY <1>1, <1>3, <1>4
  <2>4. IsList(ps) /\ job' = At("done")
    BY <1>2, <1>3, <2>2 DEF Listable
  <2> QED
    BY <1>1, <1>3, <2>2, <2>3, <2>4, SwitchedKept
<1> QED
  BY <1>5, <1>6

\* The files say what the intent said: it can go.
LEMMA IntentGoneKept ==
  ASSUME NativeInv, Types', Gives, job.step = "done",
         UNCHANGED <<core, projects>>, disk' = [disk EXCEPT !.pending = NoIntent],
         job' = IF ~Serving THEN Idle
                ELSE IF job.intent.project = job.target THEN At("receipt") ELSE At("check")
  PROVE  Kept
<1> USE DEF NativeInv
<1>1. disk \in Files /\ job \in Job /\ MaxId \in Nat /\ IsList(projects)
  BY Bounded
<1>2. /\ disk'.core = disk.core /\ disk'.index = disk.index /\ disk'.pending = NoIntent
      /\ disk'.hosted = disk.hosted /\ disk'.settings = disk.settings
  BY <1>1 DEF Files
<1>3. /\ Switching /\ ~Switching' /\ job.intent = disk.pending
      /\ disk'.pending.project = Nobody
  BY <1>2 DEF Carried, Switching, Working, Begun, NoIntent
<1>4. Filed(core)' /\ Filed(disk.core)' /\ Behind'
  <2>1. PICK c, e : c = core /\ e = disk.core
    OBVIOUS
  <2>2. Filed(c)' /\ Filed(e)'
    BY <2>1, FiledLater, Bounded
  <2> QED
    BY <1>2, <2>1, <2>2 DEF Filed, Behind, Extends
<1>5. \/ job'.step = "idle" /\ job'.by = "request"
      \/ /\ job'.step \in {"receipt", "check"} /\ job'.by = "request"
         /\ job'.intent = job.intent
  BY <1>1 DEF Idle, At, Job, Serving
<1>6. Carried'
  BY <1>3, <1>5 DEF Carried, Working, Begun, Serving
<1>7. Taken'
  BY <1>3, <1>5 DEF Taken
<1>8. /\ core.event = job.intent.event /\ disk.core.event = job.intent.event
      /\ job.intent.project # Nobody => /\ core.config = job.intent.project
                                        /\ Saved(job.intent.project)
      /\ \A i \in DOMAIN projects : projects[i].status = "active" =>
           projects[i].id = job.intent.project /\ projects[i].event = job.intent.event
      /\ job.intent.project # Nobody =>
           \E i \in DOMAIN projects : projects[i].status = "active"
  BY DEF Progress, Begun, Saved
<1>9. \A i \in DOMAIN projects : projects[i].id # Nobody
  BY <1>1, ListIs DEF Project, Id, Nobody
<1>10. core.config = disk.core.config
  BY <1>3, <1>8 DEF Settled, Saved
<1>11. Settled'
  BY <1>2, <1>3, <1>8, <1>9, <1>10 DEF Settled, Saved
<1>12. Progress'
  BY <1>2, <1>5, <1>8 DEF Progress, Begun
<1>13. PendingProjectIsThere'
  BY <1>3 DEF PendingProjectIsThere
<1>14. NowStays
  <2>1. EventNow' = EventNow
    BY <1>2, <1>3, <1>8 DEF EventNow
  <2>2. Active(projects) = job.intent.project
    <3>1. CASE job.intent.project # Nobody
      <4>1. PICK i \in DOMAIN projects : projects[i].status = "active"
        BY <1>8, <3>1
      <4> QED
        BY <1>1, <1>8, <4>1, ActiveIs
    <3>2. CASE job.intent.project = Nobody
      <4>1. \A i \in DOMAIN projects : projects[i].status # "active"
        BY <1>8, <1>9, <3>2
      <4> QED
        BY <1>1, <3>2, <4>1, ActiveIs
    <3> QED
      BY <3>1, <3>2
  <2>3. Active(disk.index)' = Active(disk.index)
    <3>1. Active(disk.index)' = Active(disk'.index)
      BY DEF Active
    <3> QED
      BY <1>2, <3>1
  <2>4. ActiveNow' = ActiveNow
    BY <1>3, <2>2, <2>3 DEF ActiveNow
  <2>5. ConfigNow' = ConfigNow
    <3>1. CASE job.intent.project # Nobody
      BY <1>2, <1>3, <1>8, <3>1 DEF ConfigNow, Saved
    <3>2. CASE job.intent.project = Nobody
      BY <1>2, <1>3, <3>2 DEF ConfigNow, Mixed
    <3> QED
      BY <3>1, <3>2
  <2> QED
    BY <2>1, <2>4, <2>5 DEF NowStays
<1>15. CompletedStep
  BY <1>2, SameListStep
<1> QED
  BY <1>2, <1>4, <1>6, <1>7, <1>11, <1>12, <1>13, <1>14, <1>15 DEF Kept

\* The intent is deleted, or its file fails.
LEMMA DeleteIntentKept == ASSUME NativeInv, DeleteIntent PROVE Kept
<1>1. Types' /\ Gives /\ job.step = "done"
  BY NothingGiven, DeleteIntentTyped DEF NativeInv, DeleteIntent
<1>2. PICK c, ps, d, next :
        /\ c = core /\ ps = projects /\ d = [disk EXCEPT !["pending"] = NoIntent]
        /\ next = IF ~Serving THEN Idle
                  ELSE IF job.intent.project = job.target THEN At("receipt") ELSE At("check")
  OBVIOUS
<1>3. Write("pending", NoIntent, c, ps, next)
  BY <1>2 DEF DeleteIntent
<1>4. Outcome(c, ps, d, next)
  BY <1>2, <1>3, WriteEnds
<1>5. CoreFollows(c) /\ Filed(c)'
  BY <1>1, <1>2, SameFollows
<1>6. Serving /\ Switching => CanPrepare(c)
  BY <1>2 DEF NativeInv, Carried
<1>7. Kept \/ (core' = c /\ projects' = ps /\ disk' = d /\ job' = next)
  BY <1>1, <1>2, <1>4, <1>5, <1>6, FailureKept
<1>8. ASSUME core' = c /\ projects' = ps /\ disk' = d /\ job' = next
      PROVE  Kept
  BY <1>1, <1>2, <1>8, IntentGoneKept
<1> QED
  BY <1>7, <1>8

-----------------------------------------------------------------------------
(* Every step keeps the invariant. *)

\* The server starts with nothing.
LEMMA NativeInit ==
  ASSUME NativeConstants, "index" \notin FaultyFile, Init
  PROVE  NativeInv
<1>1. Types
  BY TypedInit
<1>2. /\ core.phase = "lobby" /\ core.stage = 0 /\ core.history = NoResults
      /\ disk.core = core /\ disk.index = projects /\ disk.pending = NoIntent
      /\ fresh.stage = 1 /\ job = Idle /\ DOMAIN projects = {}
  BY DEF Init
<1>3. job.step = "idle" /\ job.by = "request" /\ ~Switching
  BY <1>2 DEF Idle, Switching
<1>4. DOMAIN core.history = {}
  BY <1>2 DEF NoResults
<1>5. Filed(core) /\ Filed(disk.core)
  BY <1>2, <1>4 DEF Filed
<1>6. Behind /\ Taken /\ Settled
  BY <1>2, <1>3, <1>4 DEF Behind, Extends, Taken, Settled
<1>7. Carried /\ Progress /\ PendingProjectIsThere
  BY <1>3 DEF Carried, Working, Begun, Serving, Progress, PendingProjectIsThere
<1> QED
  BY <1>1, <1>2, <1>5, <1>6, <1>7 DEF NativeInv

\* The induction step: one action at a time.
LEMMA NativeStep == NativeInv /\ [Next]_vars => Kept
<1> SUFFICES ASSUME NativeInv, [Next]_vars
             PROVE  Kept
  OBVIOUS
<1>1. CASE StartRace \/ FinishRace \/ ToLobby \/ NewDraft
  BY <1>1, StartRaceKept, FinishRaceKept, ToLobbyKept, NewDraftKept
<1>2. ASSUME NEW id \in Package, Import(id)
      PROVE  Kept
  BY <1>2, ImportKept
<1>3. ASSUME NEW i \in DOMAIN projects,
             Export(i) \/ Delete(i) \/ \E status \in {"completed", "archived"} : Close(i, status)
      PROVE  Kept
  BY <1>3, ExportKept, DeleteKept, CloseKept
<1>4. CASE Request(Nobody) \/ \E id \in Id : Request(id)
  <2>1. (\A id \in Id : id \in 0..MaxId) /\ Nobody \in 0..MaxId
    BY Bounded DEF NativeInv, Id, Nobody
  <2> QED
    BY <1>4, <2>1, RequestKept
<1>5. CASE Check \/ WriteIntent \/ BeginEvent \/ ApplyRoom
  BY <1>5, CheckKept, WriteIntentKept, BeginEventKept, ApplyRoomKept
<1>6. CASE HostFiles \/ SaveSettings \/ ActivateProject \/ CompleteProjects
  BY <1>6, HostFilesKept, SaveSettingsKept, ActivateProjectKept, CompleteProjectsKept
<1>7. CASE DeleteIntent \/ Answer \/ Sync \/ Checkpoint \/ Restart
  BY <1>7, DeleteIntentKept, AnswerKept, SyncKept, CheckpointKept, RestartKept
<1>8. CASE UNCHANGED vars
  BY <1>8, StutterKept
<1> QED
  BY <1>1, <1>2, <1>3, <1>4, <1>5, <1>6, <1>7, <1>8 DEF Next

\* The inductive invariant holds as long as the list can be written.
THEOREM NativeInvariant ==
  ASSUME NativeConstants, "index" \notin FaultyFile
  PROVE  Spec => []NativeInv
<1>1. Init => NativeInv
  BY NativeInit
<1>2. NativeInv /\ [Next]_vars => NativeInv'
  BY NativeStep DEF Kept
<1> QED
  BY <1>1, <1>2, PTL DEF Spec

\* The project of a pending switch is there to be activated, for any number of
\* failed writes of the other files and of restarts.
THEOREM PendingProjectStays ==
  ASSUME NativeConstants, "index" \notin FaultyFile
  PROVE  Spec => []PendingProjectIsThere
<1>1. NativeInv => PendingProjectIsThere
  BY DEF NativeInv
<1>2. Spec => []NativeInv
  BY NativeInvariant
<1> QED
  BY <1>1, <1>2, PTL

\* A receipt says what the files say, and no intent is left.
LEMMA ReceiptIs == NativeInv => ReceiptMeansSaved
<1> SUFFICES ASSUME NativeInv, job.step = "receipt"
             PROVE  /\ ~Switching /\ disk.core.event = job.intent.event
                    /\ Active(disk.index) = job.intent.project
                    /\ job.intent.project # Nobody =>
                         Saved(job.intent.project)
  BY DEF ReceiptMeansSaved, Saved
<1> USE DEF NativeInv
<1>1. IsList(projects) /\ disk.index = projects /\ MaxId \in Nat
  BY Bounded
<1>2. /\ ~Switching /\ disk.core.event = job.intent.event
      /\ \A i \in DOMAIN projects :
           projects[i].status = "active" => projects[i].id = job.intent.project
      /\ job.intent.project # Nobody => \E i \in DOMAIN projects : projects[i].status = "active"
  BY DEF Carried, Progress
<1>3. CASE \E i \in DOMAIN projects : projects[i].status = "active"
  <2>1. PICK i \in DOMAIN projects : projects[i].status = "active"
    BY <1>3
  <2>2. projects[i].id = job.intent.project /\ Saved(projects[i].id)
    BY <1>2, <2>1 DEF Settled
  <2>3. Active(projects) = projects[i].id
    BY <1>1, <2>1, ActiveIs
  <2> QED
    BY <1>1, <1>2, <2>2, <2>3
<1>4. CASE \A i \in DOMAIN projects : projects[i].status # "active"
  <2>1. Active(projects) = Nobody /\ job.intent.project = Nobody
    BY <1>1, <1>2, <1>4, ActiveIs
  <2> QED
    BY <1>1, <1>2, <2>1
<1> QED
  BY <1>3, <1>4

\* A receipt is given only for what is on disk.
THEOREM ReceiptsAreSaved ==
  ASSUME NativeConstants, "index" \notin FaultyFile
  PROVE  Spec => []ReceiptMeansSaved
<1>1. Spec => []NativeInv
  BY NativeInvariant
<1> QED
  BY <1>1, ReceiptIs, PTL

\* A project is completed on disk with a result of every stage of its event.
THEOREM CompletedHaveStages ==
  ASSUME NativeConstants, "index" \notin FaultyFile
  PROVE  Spec => CompletedWithStages
<1>1. NativeInv /\ [Next]_vars =>
        [\A p \in ToSet(disk.index), q \in ToSet(disk'.index) :
           p.id = q.id /\ p.status = "active" /\ q.status = "completed"
             => StagesOf(p.event) \subseteq DOMAIN q.results]_vars
  BY NativeStep DEF Kept, CompletedStep
<1>2. Spec => []NativeInv
  BY NativeInvariant
<1> QED
  BY <1>1, <1>2, PTL DEF Spec, CompletedWithStages

-----------------------------------------------------------------------------
(* The switch is one step. *)

\* The server starts as EventSwitch does.
LEMMA SwitchInit ==
  ASSUME NativeConstants, Init
  PROVE  EventNow = Nobody /\ ActiveNow = Nobody /\ ConfigNow = Nobody
<1>1. /\ ~Switching /\ disk.core.event = Nobody /\ disk.core.config = Nobody
      /\ disk.hosted = Nobody /\ disk.settings = Nobody
      /\ disk.index = << >>
  BY DEF Init, Switching
<1>2. Active(disk.index) = Nobody
  BY <1>1 DEF Active
<1> QED
  BY <1>1, <1>2 DEF EventNow, ActiveNow, ConfigNow

\* Preparing an event implements EventSwitch: every step of the server leaves what
\* its files say, the intent included, or is the switch from one event with its
\* project and configuration to the next.
THEOREM SwitchIsOneStep ==
  ASSUME NativeConstants, "index" \notin FaultyFile
  PROVE  Spec => SwitchImplemented
<1>1. Init => Abstract!Init
  BY SwitchInit DEF Abstract!Init
<1>2. NativeInv /\ [Next]_vars => [\E id \in Id : Abstract!Switch(id)]_(Abstract!vars)
  <2> SUFFICES ASSUME NativeInv, [Next]_vars
               PROVE  (\E id \in Id : Abstract!Switch(id)) \/ UNCHANGED Abstract!vars
    OBVIOUS
  <2>1. NowStays \/ NowSwitches
    BY NativeStep DEF Kept
  <2>2. CASE NowStays
    BY <2>2 DEF NowStays, Abstract!vars
  <2>3. CASE NowSwitches
    BY <2>3 DEF NowSwitches, Abstract!Switch
  <2> QED
    BY <2>1, <2>2, <2>3
<1>3. Spec => []NativeInv
  BY NativeInvariant
<1> QED
  BY <1>1, <1>2, <1>3, PTL DEF Spec, SwitchImplemented, Abstract!Spec
=============================================================================
