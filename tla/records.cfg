SPECIFICATION RecordSpec
CONSTANTS
  d1 = d1  d2 = d2  d3 = d3  a = a  b = b  c = c  e = e  u = u  v = v
  Driver = {d1, d2}
  LapId = {a, b, c, e, u, v}
  LapEvent <- EveryLap
  TotalLaps = 2
  PracticeSessions = 2
  QualifyingSessions = 2
  Elimination <- OneOut
  RecoveryEnabled = TRUE
  SessionInput = {"lobby", "practice", "countdown", "race"}
  ControlInput = {"red", "didNotFinish", "penalty", "event"}
  MaxStage = 2
  MaxEvent = 2
SYMMETRY Symmetry
INVARIANTS LapsCredited EachLapOnce OneRacePerEvent
PROPERTIES RaceResultStays
