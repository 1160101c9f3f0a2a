----------------------------- MODULE Collisions -----------------------------
(***************************************************************************)
(* Automatic collision investigations: evaluateCollisionInvestigation,     *)
(* tryMergeCollisionInvestigation, resolveInvestigation and what else      *)
(* touches the impacts and the investigations in                           *)
(* cloudflare/src/race-core.ts.                                            *)
(*                                                                         *)
(* The world makes contacts; the clients that feel one number it and tell  *)
(* its age in every telemetry message until they feel the next.  Contacts  *)
(* are numbered 1, 2, ... and that number is the client's impactSequence.  *)
(* Half a second is the unit of time, and messages take none.  Whether the *)
(* positions, speeds and places of two cars make a report convincing is    *)
(* data: the model chooses.                                                *)
(***************************************************************************)
EXTENDS Naturals, Sequences, FiniteSets, FiniteSetsExt

CONSTANTS
  Driver,
  Window,          \* collisionDetectionDeduplicationWindow: 1.5 s
  OldestImpact,    \* age at which a report is no evidence any more: 1 s
  Freshness,       \* age of the other car's last telemetry: 0.75 s
  ReplayWindow,    \* collisionReplayWindow: 3 s
  Capacity,        \* investigations of collisions a stage can hold: 24
  MaxClock,        \* bound: end of the run
  MaxContact,      \* bound: contacts
  MaxForgotten     \* bound: times the memory of the room is lost

\* A contact is too old to be reported before its pair may be detected again, and
\* a replay is longer than an investigation can be widened.
ASSUME CollisionAssumption ==
  /\ Window \in Nat /\ OldestImpact \in Nat /\ Freshness \in Nat /\ ReplayWindow \in Nat
  /\ OldestImpact < Window /\ Window + OldestImpact < ReplayWindow
  /\ Capacity \in Nat /\ MaxContact \in Nat /\ MaxForgotten \in Nat
  /\ MaxClock \in Nat /\ 1 <= MaxClock

VARIABLES
  clock,           \* now
  contacts,        \* the time of each contact
  impact,          \* by client: the last contact it felt, 0 if none
  report,          \* by driver: what the server remembers of its telemetry
  watch,           \* phase, switch and memory of the detector
  investigations   \* state.investigations with collisionEvidence, in order

collisionVars == <<clock, contacts, impact, report, watch, investigations>>

\* The age of telemetry that is no longer fresh, or that there never was.
Stale == Freshness + 1

\* The pairs of drivers: the keys of collisionDetectionDeduplicationUntil
DriverPair ==
  {pair \in SUBSET Driver : \E d, other \in Driver : d # other /\ pair = {d, other}}

\* No pair was detected lately.
Unaware == [pair \in DriverPair |-> 0]

CollisionsInit ==
  /\ clock = 1
  /\ contacts = <<>>
  /\ impact = [d \in Driver |-> 0]
  /\ report = [d \in Driver |-> [sequence |-> 0, age |-> Stale, connected |-> TRUE,
                                 present |-> TRUE, heard |-> 0]]
  /\ watch = [phase |-> "running", enabled |-> TRUE, quiet |-> Unaware, forgotten |-> 0]
  /\ investigations = <<>>

-----------------------------------------------------------------------------
(* The world *)

Tick ==
  /\ clock < MaxClock
  /\ clock' = clock + 1
  /\ report' = [d \in Driver |-> [report[d] EXCEPT !.age = IF @ = Stale THEN @ ELSE @ + 1]]
  /\ watch' = [watch EXCEPT !.quiet = [pair \in DriverPair |->
                                           IF @[pair] = 0 THEN 0 ELSE @[pair] - 1]]
  /\ UNCHANGED <<contacts, impact, investigations>>

\* Cars touch; one or both clients feel it.
Touch(felt) ==
  /\ Len(contacts) < MaxContact
  /\ contacts' = Append(contacts, clock)
  /\ impact' = [d \in Driver |-> IF d \in felt THEN Len(contacts') ELSE impact[d]]
  /\ UNCHANGED <<clock, report, watch, investigations>>

-----------------------------------------------------------------------------
(* Telemetry *)

Age(c) == clock - contacts[c]

\* Mutant: a client's clamped age passes for evidence.
EvidenceOfAnyAge(d) == watch.enabled /\ watch.phase = "running"

\* The session is open and the impact recent.
Evidence(d) ==
  /\ watch.enabled /\ watch.phase = "running"
  /\ Age(impact[d]) <= OldestImpact

\* The candidates for the other car: heard of lately, with a position.
CanBeHit(d) ==
  /\ report[d].present /\ report[d].connected
  /\ report[d].age <= Freshness

\* tryMergeCollisionInvestigation: pending, the same pair, within the window
\* of its first contact.
InWindow(i, at) ==
  /\ i.status = "pending"
  /\ at <= i.first + Window /\ i.first <= at + Window

Mergeable(pair, at) ==
  {k \in DOMAIN investigations : investigations[k].pair = pair /\ InWindow(investigations[k], at)}

Widen(i, at) ==
  [i EXCEPT !.first = IF at < @ THEN at ELSE @, !.last = IF at > @ THEN at ELSE @]

\* Mutant: the detector does not remember what it has opened.
OpenUnremembered(pair, d, c) ==
  /\ investigations' = Append(investigations,
       [pair |-> pair, contact |-> c, news |-> c > report[d].heard, status |-> "pending",
        first |-> contacts[c], last |-> contacts[c], memory |-> watch.forgotten])
  /\ UNCHANGED watch

Open(pair, d, c) ==
  /\ investigations' = Append(investigations,
       [pair |-> pair, contact |-> c, news |-> c > report[d].heard, status |-> "pending",
        first |-> contacts[c], last |-> contacts[c], memory |-> watch.forgotten])
  /\ watch' = [watch EXCEPT !.quiet[pair] = Window - Age(c)]

\* evaluateCollisionInvestigation once the other car is found: join the newest
\* investigation, or open one unless there are too many or the pair was
\* detected just before.
Investigate(d, other) ==
  LET c == impact[d]
      pair == {d, other}
      merge == Mergeable(pair, contacts[c])
  IN  IF merge # {}
      THEN /\ investigations' = [investigations EXCEPT ![Max(merge)] = Widen(@, contacts[c])]
           /\ UNCHANGED watch
      ELSE IF Len(investigations) >= Capacity \/ watch.quiet[pair] > 0
      THEN UNCHANGED <<investigations, watch>>
      ELSE Open(pair, d, c)

\* What the server remembers of a message of d; "heard" is for the properties.
Remember(d, sequence, age) ==
  report' = [report EXCEPT ![d].sequence = IF sequence > @ THEN sequence ELSE @,
                           ![d].age = age, ![d].connected = TRUE,
                           ![d].heard = IF impact[d] > @ THEN impact[d] ELSE @]

\* updateTelemetry of a running game; lastProcessedImpactSequence is equal to
\* lastReportedImpactSequence after every handler.
Telemetry(d) ==
  /\ report[d].present
  /\ Remember(d, impact[d], 0)
  /\ IF impact[d] > report[d].sequence /\ Evidence(d)
     THEN \/ \E other \in Driver \ {d} : CanBeHit(other) /\ Investigate(d, other)
          \/ UNCHANGED <<investigations, watch>>
     ELSE UNCHANGED <<investigations, watch>>
  /\ UNCHANGED <<clock, contacts, impact>>

\* Mutant: what happened while the game is paused is left for later.
PausedTelemetryLeavesImpact(d) ==
  /\ report[d].present
  /\ Remember(d, report[d].sequence, Stale)
  /\ UNCHANGED <<clock, contacts, impact, watch, investigations>>

\* updateTelemetry of a paused, rewinding or invalid game
PausedTelemetry(d) ==
  /\ report[d].present
  /\ Remember(d, impact[d], Stale)
  /\ UNCHANGED <<clock, contacts, impact, watch, investigations>>

Disconnect(d) ==
  /\ report[d].present /\ report[d].connected
  /\ report' = [report EXCEPT ![d].connected = FALSE]
  /\ UNCHANGED <<clock, contacts, impact, watch, investigations>>

Resume(d) ==
  /\ report[d].present /\ ~report[d].connected
  /\ report' = [report EXCEPT ![d].connected = TRUE]
  /\ UNCHANGED <<clock, contacts, impact, watch, investigations>>

\* disconnectAndReleaseClient: the driver goes, the investigations stay.
Leave(d) ==
  /\ report[d].present
  /\ report' = [report EXCEPT ![d].present = FALSE, ![d].connected = FALSE, ![d].age = Stale]
  /\ UNCHANGED <<clock, contacts, impact, watch, investigations>>

-----------------------------------------------------------------------------
(* Control *)

\* resolveInvestigation, for or against driver d
Resolve(k, d) ==
  /\ investigations[k].status = "pending"
  /\ d \in investigations[k].pair /\ report[d].present
  /\ investigations' = [investigations EXCEPT ![k].status = "resolved"]
  /\ UNCHANGED <<clock, contacts, impact, report, watch>>

\* The other cars' positions are forgotten.
LosePositions == report' = [d \in Driver |-> [report[d] EXCEPT !.age = Stale]]

\* setAutomaticCollisionInvestigations
SwitchOff ==
  /\ watch.enabled /\ watch.forgotten < MaxForgotten
  /\ watch' = [watch EXCEPT !.enabled = FALSE, !.quiet = Unaware, !.forgotten = @ + 1]
  /\ LosePositions
  /\ UNCHANGED <<clock, contacts, impact, investigations>>

SwitchOn ==
  /\ ~watch.enabled
  /\ watch' = [watch EXCEPT !.enabled = TRUE]
  /\ UNCHANGED <<clock, contacts, impact, report, investigations>>

\* A red or a chequered flag, and the green flag after a red one.
Halt ==
  /\ watch.phase = "running"
  /\ watch' = [watch EXCEPT !.phase = "halted"]
  /\ UNCHANGED <<clock, contacts, impact, report, investigations>>

Continue ==
  /\ watch.phase = "halted"
  /\ watch' = [watch EXCEPT !.phase = "running"]
  /\ UNCHANGED <<clock, contacts, impact, report, investigations>>

\* resetCompetitiveState, by a return to the lobby
ToLobby ==
  /\ watch.phase # "lobby"
  /\ watch' = [watch EXCEPT !.phase = "lobby"]
  /\ investigations' = <<>>
  /\ LosePositions
  /\ UNCHANGED <<clock, contacts, impact>>

\* A race keeps the investigations of the stage before; prepareRace.
StartRace ==
  /\ watch.phase \in {"lobby", "halted"}
  /\ watch' = [watch EXCEPT !.phase = "running"]
  /\ LosePositions
  /\ UNCHANGED <<clock, contacts, impact, investigations>>

\* The room is read from storage again: the detector's maps are lost.
Reload ==
  /\ watch.forgotten < MaxForgotten
  /\ watch' = [watch EXCEPT !.quiet = Unaware, !.forgotten = @ + 1]
  /\ LosePositions
  /\ UNCHANGED <<clock, contacts, impact, investigations>>

CollisionsNext ==
  \/ Tick
  \/ \E felt \in SUBSET Driver \ {{}} : Touch(felt)
  \/ \E d \in Driver :
       Telemetry(d) \/ PausedTelemetry(d) \/ Disconnect(d) \/ Resume(d) \/ Leave(d)
  \/ \E k \in DOMAIN investigations, d \in Driver : Resolve(k, d)
  \/ SwitchOff \/ SwitchOn
  \/ Halt \/ Continue \/ ToLobby \/ StartRace
  \/ Reload

CollisionsSpec == CollisionsInit /\ [][CollisionsNext]_collisionVars

-----------------------------------------------------------------------------
(* Properties *)

CollisionsTypeOK ==
  /\ clock \in 1 .. MaxClock
  /\ Len(contacts) <= MaxContact /\ \A c \in DOMAIN contacts : contacts[c] \in 1 .. clock
  /\ impact \in [Driver -> 0 .. Len(contacts)]
  /\ \A d \in Driver : report[d].sequence <= impact[d] /\ report[d].age \in 0 .. Stale
  /\ watch.phase \in {"lobby", "running", "halted"}
  /\ Len(investigations) <= Capacity

\* One contact of two cars opens one investigation of the two, however the
\* reports of the drivers are ordered against each other, against the verdict of
\* control and against the pauses, unless the detector lost its memory in between
\* (evaluateCollisionInvestigation, collisionDetectionDeduplicationUntil).
OneInvestigationPerContact ==
  \A j, k \in DOMAIN investigations :
    /\ investigations[j].contact = investigations[k].contact
    /\ investigations[j].pair = investigations[k].pair
    /\ investigations[j].memory = investigations[k].memory
    => j = k

\* An impact that was told once, while the game was paused or rewinding, the
\* detector switched off or the session closed, opens nothing later
\* (lastReportedImpactSequence).
ToldImpactsOpenNothing ==
  \A k \in DOMAIN investigations : investigations[k].news

\* collisionReplay: isFinalized and isPostWindowComplete
ReplayIsFinal(i) == clock >= i.first + Window /\ clock >= i.last + ReplayWindow

\* A replay that was declared final, which the control page therefore stops to
\* refresh (public/app.js:418), gets no further contact, though a report may
\* come a second after it.
FinalReplaysStand ==
  [][ \A k \in DOMAIN investigations \cap DOMAIN investigations' :
        ReplayIsFinal(investigations[k]) =>
          /\ investigations'[k].first = investigations[k].first
          /\ investigations'[k].last = investigations[k].last ]_collisionVars

=============================================================================
