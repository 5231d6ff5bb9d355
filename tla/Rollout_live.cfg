CONSTANTS
  champ = champ
  chall = chall
  fresh = fresh
  Versions = {champ, chall, fresh}
  Champion = champ
  Challenger = chall
  Windows <- ClearWindows
  OperatorBodies <- OperatorEnables
  Retrainings <- NoRetraining
  FaultKinds <- ContainersStayUp
  MaxFaults = 3
  RequiredRuns = 3
  VisibleRows = 3
SPECIFICATION FairSpec
PROPERTY CanaryConcludes
PROPERTY RolloutDecided
PROPERTY RecordedAfterServed
PROPERTY PromotionEarned
