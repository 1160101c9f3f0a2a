----------------------------- MODULE TrackRules -----------------------------
(***************************************************************************)
(* The sanctions the server gives one car from its telemetry: false starts *)
(* (evaluateFalseStart), cut corners (evaluateShortcut,                    *)
(* evaluateClientShortcutEvidence, evaluateTrackLimits) and speeding in    *)
(* the pit lane (evaluatePitSpeeding), cloudflare/src/race-core.ts, in the *)
(* order updateTelemetry asks them.                                        *)
(*                                                                         *)
(* A message says where the car is, whether it is fast (too fast for the   *)
(* pit lane, or moving on the grid), what its client proves of a cut       *)
(* corner, whether it jumped along the route, what distance it has gained  *)
(* when it is back, and whether the time a rule waits for has passed.      *)
(***************************************************************************)
EXTENDS Naturals

CONSTANTS
  WarningsAllowed,   \* minor cuts before they cost seconds: 3
  Lights,            \* of the start: 5
  MaxSanction        \* bound: penalties and investigations

ASSUME RulesAssumption == WarningsAllowed \in Nat /\ Lights \in Nat /\ MaxSanction \in Nat

VARIABLES
  start,     \* phase, lights, trackLimitMode
  runner,    \* the rules' fields of the ParticipantState
  given      \* the sanctions, counted for the bound and the properties

ruleVars == <<start, runner, given>>

\* resetParticipant
Fresh(r) ==
  [r EXCEPT !.inPit = FALSE, !.excursion = "none", !.handled = FALSE, !.warnings = 0,
            !.over = FALSE, !.speeding = FALSE, !.cut = FALSE, !.continuous = FALSE,
            !.jumped = FALSE, !.status = IF @ = "disconnected" THEN @ ELSE "onTrack"]

RulesInit ==
  /\ \E mode \in {"automatic", "warningsOnly", "disabled"} :
       start = [phase |-> "lobby", before |-> "race", sequence |-> FALSE, lights |-> 0,
                mode |-> mode]
  /\ runner = [inPit |-> FALSE, status |-> "onTrack", excursion |-> "none", handled |-> FALSE,
               warnings |-> 0, over |-> FALSE, speeding |-> FALSE, cut |-> FALSE,
               continuous |-> FALSE, jumped |-> FALSE]
  /\ given = [total |-> 0, jumps |-> 0, speedings |-> 0, settled |-> FALSE, again |-> FALSE]

Message ==
  {m \in [at : {"track", "wide", "edge", "route", "pit"}, fast : BOOLEAN,
          proof : {"none", "minor", "severe"}, leap : BOOLEAN,
          gain : {"none", "minor", "severe"}, long : BOOLEAN] :
     /\ m.gain # "none" => m.at = "track" /\ m.long
     /\ m.proof # "none" \/ m.leap => m.at \in {"track", "wide"}
     /\ m.fast => m.at \in {"track", "pit"}}

\* The car with what was given to it.
With(r, g) == [runner |-> r, given |-> g]

Sanction(w) == [w EXCEPT !.given.total = @ + 1]

\* registerTrackLimitIncident
Register(w, severe) ==
  IF start.mode = "disabled" THEN w
  ELSE IF start.mode = "automatic" /\ ~severe /\ w.runner.warnings >= WarningsAllowed
  THEN Sanction([w EXCEPT !.runner.warnings = 0])
  ELSE Sanction([w EXCEPT !.runner.warnings = @ + 1])

\* What the rules of the track ask of the car and its place.
OnTheRoad(w, m) ==
  start.phase = "race" /\ m.at \notin {"route", "pit"} /\ w.runner.status = "onTrack"

Excursion(w) == w.runner.excursion # "none"

\* evaluateShortcut and evaluateClientShortcutEvidence; a proof told before is
\* none.
Shortcut(w, m) ==
  LET proved == m.proof # "none" /\ OnTheRoad(w, m)
      leapt == /\ m.leap /\ OnTheRoad(w, m)
               /\ w.runner.continuous /\ ~w.runner.cut
      v == [w EXCEPT !.runner.continuous = TRUE]
  IN  IF proved
      THEN Register([v EXCEPT !.runner.handled = @ \/ Excursion(w),
                              !.given.settled = @ \/ Excursion(w)], m.proof = "severe")
      ELSE IF leapt
      THEN Register([v EXCEPT !.runner.cut = TRUE, !.runner.handled = TRUE,
                              !.given.settled = @ \/ Excursion(w)], TRUE)
      ELSE v

\* evaluateFalseStart
FalseStart(w, m) ==
  IF /\ start.phase = "countdown" /\ start.sequence
     /\ ~w.runner.jumped /\ ~w.runner.inPit /\ w.runner.status = "onTrack"
     /\ m.fast /\ m.long
  THEN Sanction([w EXCEPT !.runner.jumped = TRUE, !.given.jumps = @ + 1])
  ELSE w

\* resetTrackLimitExcursion
BackOnTrack(w) ==
  [w EXCEPT !.runner.excursion = "none", !.runner.handled = FALSE, !.given.settled = FALSE]

\* evaluateTrackLimits
TrackLimits(w, m) ==
  IF ~OnTheRoad(w, m) THEN BackOnTrack(w)
  ELSE IF m.at = "wide" THEN [w EXCEPT !.runner.excursion = "wide"]
  ELSE IF ~Excursion(w) THEN w
  ELSE IF m.at = "edge" THEN [w EXCEPT !.runner.excursion = "wide"]
  ELSE IF w.runner.excursion = "wide" THEN [w EXCEPT !.runner.excursion = "rejoining"]
  ELSE IF ~m.long THEN w
  ELSE IF m.gain = "none" \/ w.runner.handled THEN BackOnTrack(w)
  ELSE Register([BackOnTrack(w) EXCEPT !.given.again = @ \/ w.given.settled], m.gain = "severe")

\* Mutant: whatever stops the rule forgets the visit.
PitSpeedForgotten(w, m) ==
  IF m.at # "pit" \/ start.phase # "race" \/ w.runner.status # "onTrack"
  THEN [w EXCEPT !.runner.over = FALSE, !.runner.speeding = FALSE]
  ELSE IF ~m.fast THEN [w EXCEPT !.runner.over = FALSE]
  ELSE IF w.runner.speeding THEN w
  ELSE IF ~(w.runner.over /\ m.long) THEN [w EXCEPT !.runner.over = TRUE]
  ELSE Sanction([w EXCEPT !.runner.speeding = TRUE, !.given.speedings = @ + 1])

\* evaluatePitSpeeding
PitSpeed(w, m) ==
  IF m.at # "pit" \/ start.phase # "race" \/ w.runner.status # "onTrack"
  THEN [w EXCEPT !.runner.over = FALSE, !.runner.speeding = @ /\ m.at = "pit"]
  ELSE IF ~m.fast THEN [w EXCEPT !.runner.over = FALSE]
  ELSE IF w.runner.speeding THEN w
  ELSE IF ~(w.runner.over /\ m.long) THEN [w EXCEPT !.runner.over = TRUE]
  ELSE Sanction([w EXCEPT !.runner.speeding = TRUE, !.given.speedings = @ + 1])

\* What every message changes first: updatePitServiceState and the connection.
Arrived(m) ==
  With([runner EXCEPT !.inPit = m.at = "pit"],
       IF m.at = "pit" /\ ~runner.inPit THEN [given EXCEPT !.speedings = 0] ELSE given)

\* updateTelemetry gives back its place on the track to a car that is not out.
Placed(w) == [w EXCEPT !.runner.status = IF @ = "out" THEN @ ELSE "onTrack"]

Observe(m) ==
  LET w == PitSpeed(TrackLimits(FalseStart(Placed(Shortcut(Arrived(m), m)), m), m), m)
  IN  /\ w.given.total <= MaxSanction
      /\ runner' = w.runner /\ given' = w.given
      /\ UNCHANGED start

\* updateTelemetry of a paused, rewinding or invalid game
ObservePaused(m) ==
  LET w == Arrived(m)
  IN  /\ runner' = [w.runner EXCEPT !.continuous = FALSE]
      /\ given' = w.given
      /\ UNCHANGED start

\* Mutant: a new lap starts with nothing on record.
LapForgetsExcursion ==
  /\ start.phase = "race" /\ runner.status # "out"
  /\ runner' = [runner EXCEPT !.cut = FALSE, !.continuous = FALSE, !.handled = FALSE]
  /\ UNCHANGED <<start, given>>

\* completeLap
LapDone ==
  /\ start.phase = "race" /\ runner.status # "out"
  /\ runner' = [runner EXCEPT !.cut = FALSE, !.continuous = FALSE]
  /\ UNCHANGED <<start, given>>

Lost ==
  /\ runner.status = "onTrack"
  /\ runner' = [runner EXCEPT !.status = "disconnected"]
  /\ UNCHANGED <<start, given>>

BackAgain ==
  /\ runner.status = "disconnected"
  /\ runner' = [runner EXCEPT !.status = "onTrack"]
  /\ UNCHANGED <<start, given>>

\* applyParticipant and applyPenalty: disqualified.
TakenOut ==
  /\ runner.status # "out"
  /\ runner' = [runner EXCEPT !.status = "out"]
  /\ UNCHANGED <<start, given>>

-----------------------------------------------------------------------------
(* The session *)

NewStart == [given EXCEPT !.jumps = 0, !.speedings = 0, !.settled = FALSE]

ReturnToLobby ==
  /\ start' = [start EXCEPT !.phase = "lobby", !.sequence = FALSE, !.lights = 0]
  /\ runner' = Fresh(runner)
  /\ given' = [NewStart EXCEPT !.total = 0, !.again = given.again]

\* applyRoomSettings
SetMode(mode) ==
  /\ start.phase = "lobby"
  /\ start' = [start EXCEPT !.mode = mode]
  /\ UNCHANGED <<runner, given>>

\* applySession("countdown")
BeginCountdown ==
  /\ start' = [start EXCEPT !.phase = "countdown", !.sequence = FALSE, !.lights = 0]
  /\ runner' = Fresh(runner)
  /\ given' = NewStart

\* startSequenceAt has come; the room may notice a little later.
SequenceBegins ==
  /\ start.phase = "countdown" /\ ~start.sequence
  /\ start' = [start EXCEPT !.sequence = TRUE]
  /\ UNCHANGED <<runner, given>>

\* tick: one more light, and armFalseStartDetection at every one.  (The false
\* starts are counted from the first light on.)
Light ==
  /\ start.phase = "countdown" /\ start.sequence /\ start.lights < Lights
  /\ start' = [start EXCEPT !.lights = @ + 1]
  /\ runner' = [runner EXCEPT !.jumped = FALSE]
  /\ given' = IF start.lights = 0 THEN [given EXCEPT !.jumps = 0] ELSE given

\* tick and applySession("race") during the countdown
GoRacing ==
  /\ start.phase = "countdown"
  /\ start' = [start EXCEPT !.phase = "race", !.sequence = FALSE, !.lights = 0]
  /\ UNCHANGED <<runner, given>>

\* applySession("race") from elsewhere
RaceAtOnce ==
  /\ start.phase # "countdown"
  /\ start' = [start EXCEPT !.phase = "race", !.sequence = FALSE, !.lights = 0]
  /\ runner' = Fresh(runner)
  /\ given' = NewStart

StopByRed ==
  /\ start.phase # "suspended"
  /\ start' = [start EXCEPT !.before = start.phase, !.phase = "suspended"]
  /\ UNCHANGED <<runner, given>>

GreenAgain ==
  /\ start.phase = "suspended"
  /\ start' = [start EXCEPT !.phase = start.before]
  /\ UNCHANGED <<runner, given>>

RulesNext ==
  \/ \E m \in Message : Observe(m) \/ ObservePaused(m)
  \/ LapDone \/ Lost \/ BackAgain \/ TakenOut
  \/ ReturnToLobby
  \/ \E mode \in {"automatic", "warningsOnly", "disabled"} : SetMode(mode)
  \/ BeginCountdown \/ SequenceBegins \/ Light \/ GoRacing \/ RaceAtOnce
  \/ StopByRed \/ GreenAgain

RulesSpec == RulesInit /\ [][RulesNext]_ruleVars

-----------------------------------------------------------------------------
(* Properties *)

RulesTypeOK ==
  /\ start \in [phase : {"lobby", "countdown", "race", "suspended"},
                before : {"lobby", "countdown", "race"}, sequence : BOOLEAN,
                lights : 0 .. Lights, mode : {"automatic", "warningsOnly", "disabled"}]
  /\ runner.status \in {"onTrack", "disconnected", "out"}
  /\ runner.excursion \in {"none", "wide", "rejoining"}
  /\ runner.warnings \in 0 .. MaxSanction
  /\ given.total \in 0 .. MaxSanction

\* cloudflare/tests/race-core.test.ts:1064: "penalizes a false start once", for
\* all the lights of a start, as the native server has it, which arms the
\* detection at the first light only (RaceCoordinator.cs:1752-1753) and is to
\* race alike (cloudflare/README.md:148).  (armFalseStartDetection forgets at
\* every light that the car was penalised.)
FalseStartOncePerStart == given.jumps <= 1

\* One visit to the pit lane costs at most one penalty for speeding, through
\* red flags, pauses and reconnections (cloudflare/tests/race-core.test.ts:1827,
\* "once per visit").
PitSpeedingOncePerVisit == given.speedings <= 1

\* An excursion during which a cut corner was sanctioned, by the client's proof
\* or the leap of its position, is not sanctioned again when the car is back,
\* be it a lap, a pause or a red flag later (trackLimitSeverePenaltyIssued).
ExcursionSettledOnce == ~given.again

=============================================================================
