SPECIFICATION PreparingSpec
CONSTANTS
  t1 = t1  t2 = t2  none = none
  Track = {t1, t2}
  None = none
  MaximumProjects = 2
  MaxId = 2
  MaxStage = 2
  MaxPenalty = 1
  MaxFault = 1
  Package = {1}
  FaultyFile = {"core", "pending", "hosted", "settings"}
  NativeMaxId = 3
  NativeMaxFault = 2
INVARIANTS PreparingTypeOK ActiveProjectOwnsTheEvent
  ListedProjectsHaveTheirFiles DownloadIsOfTheRoomsTrack
  ReceiptMeansSaved PendingProjectIsThere
PROPERTIES CompletedWithItsResults RecordsStand
  SwitchImplemented CompletedWithStages
