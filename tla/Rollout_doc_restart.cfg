CONSTANTS
  champ = champ
  chall = chall
  fresh = fresh
  Versions = {champ, chall, fresh}
  Champion = champ
  Challenger = chall
  Windows <- GoodWindows
  OperatorBodies <- OperatorEnables
  Retrainings <- NoRetraining
  FaultKinds <- OnlyChampion
  MaxFaults = 1
  RequiredRuns = 3
  VisibleRows = 3
SPECIFICATION Spec
INVARIANT PromotedIsServed
