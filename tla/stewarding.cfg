SPECIFICATION Spec
CONSTANTS
  d1 = d1  d2 = d2  v1 = v1
  Driver = {d1, d2}
  Window = 2
  OldestImpact = 1
  Freshness = 0
  ReplayWindow = 4
  Capacity = 2
  MaxClock = 5
  MaxContact = 2
  MaxForgotten = 1
  Car = {d1, d2}
  WarningsAllowed = 1
  Lights = 2
  MaxSanction = 3
  TotalLaps = 2
  FinalLaps = 1
  LinesAllowed = 1
  MinimumStops = 1
  RecoveryEnabled = TRUE
  Seconds = 1
  Client = {"reporting", "old"}
  Visit = {v1}
  MaxPenalty <- PenaltiesFor
  MaxService = 2
  MaxGap = 1
SYMMETRY Symmetry
INVARIANTS StewardingTypeOK OneInvestigationPerContact ToldImpactsOpenNothing
  FlagShowsTheTrack AutomaticYellowHasACar
  PitSpeedingOncePerVisit ExcursionSettledOnce
  EachVisitOnce DisqualificationForStopsIsTrue
PROPERTIES FinalReplaysStand SanctionsAreNotLost FlagSettlesEverything
