SPECIFICATION Spec
CONSTANTS
  MaximumProjects = 2
  Package = {}
  FaultyFile = {"index"}
  MaxId = 2
  MaxStage = 1
  MaxFault = 1
INVARIANT ReceiptMeansSaved
