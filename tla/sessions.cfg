SPECIFICATION WaitSpec
CONSTANTS
  d1 = d1  d2 = d2  d3 = d3  a = a  b = b  c = c  e = e  u = u  v = v
  Driver = {d1, d2}
  LapId = {a, b, c, e, u, v}
  LapEvent <- EveryLap
  TotalLaps = 2
  PracticeSessions = 1
  QualifyingSessions = 2
  Elimination <- OneOut
  RecoveryEnabled = TRUE
  SessionInput = {"lobby", "practice", "qualifying", "grid", "outLap", "formationLap", "countdown", "finished"}
  ControlInput = {"red"}
  MaxStage = 1
  MaxEvent = 1
INVARIANTS TypeOK RaceOpenForSomebody FinishedRaceIsArchived PendingLapCanCome
PROPERTIES DepartedKeepResult DesertedRaceEnds DesertedSessionCloses
