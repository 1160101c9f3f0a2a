SPECIFICATION Spec
CONSTANTS
  d1 = d1  d2 = d2  s1 = s1  s2 = s2  a = a  b = b
  Driver = {d1}
  LapId = {a, b}
  LapEvent <- OneLap
  TotalLaps = 1
  PracticeSessions = 1
  QualifyingSessions = 1
  Elimination <- OneOut
  RecoveryEnabled = TRUE
  SessionInput = {"race", "lobby", "finished"}
  ControlInput = {}
  MaxStage = 2
  MaxEvent = 1
  Socket = {s1, s2}
  MaximumPending = 1
  MaximumLogins = 2
  LoginFailures = 2
  MaxFault = 1
SYMMETRY Symmetry
INVARIANTS RoomTypeOK SocketsMatchSeats OneSocketEach BudgetBalanced AlarmCoversDeadlines
PROPERTIES LedgerImplemented
