CONSTANTS
  champ = champ
  chall = chall
  fresh = fresh
  Versions = {champ, chall, fresh}
  Champion = champ
  Challenger = chall
  Windows <- GoodWindows
  OperatorBodies <- OperatorAbsent
  Retrainings <- NoRetraining
  FaultKinds <- NoFault
  MaxFaults = 0
  RequiredRuns = 3
  VisibleRows = 3
SPECIFICATION FairSpec
PROPERTY ShadowDecides
