CONSTANTS
  champ = champ
  chall = chall
  fresh = fresh
  Versions = {champ, chall, fresh}
  Champion = champ
  Challenger = chall
  Windows <- ClearWindows
  OperatorBodies <- OperatorEnables
  Retrainings <- NoRetraining
  FaultKinds <- OnlyDisable
  MaxFaults = 1
  RequiredRuns = 2
  VisibleRows = 2
SPECIFICATION Spec
PROPERTY RetirementIsFinal
