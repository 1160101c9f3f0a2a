SPECIFICATION Spec
CONSTANTS
  t1 = t1  t2 = t2
  none = none
  Track = {t1}
  None = none
  MaximumProjects = 2
  MaxId = 2
  MaxStage = 1
  MaxPenalty = 1
  MaxFault = 1
PROPERTY CompletedWithFinalResults
