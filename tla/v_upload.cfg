SPECIFICATION Spec
CONSTANTS
  t1 = t1  t2 = t2  none = none
  Track = {t1, t2}
  None = none
  MaximumProjects = 2
  MaxId = 2
  MaxStage = 1
  MaxPenalty = 0
  MaxFault = 0
PROPERTY HostedTrackStaysInRace
