SPECIFICATION Spec
CONSTANTS
  d1 = d1  d2 = d2  d3 = d3  a = a  b = b  c = c  e = e  u = u  v = v
  Driver = {d1, d2}
  LapId = {a, b, c, e, u}
  LapEvent <- OneLap
  TotalLaps = 1
  PracticeSessions = 1
  QualifyingSessions = 1
  Elimination <- OneOut
  RecoveryEnabled = TRUE
  SessionInput = {"lobby", "race"}
  ControlInput = {}
  MaxStage = 1
  MaxEvent = 1
PROPERTIES ResumeKeepsClassification
