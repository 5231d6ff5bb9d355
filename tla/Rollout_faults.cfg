CONSTANTS
  champ = champ
  chall = chall
  fresh = fresh
  Versions = {champ, chall, fresh}
  Champion = champ
  Challenger = chall
  Windows <- EachKind
  OperatorBodies <- OperatorChoices
  Retrainings <- BothRetrained
  FaultKinds <- EveryFault
  MaxFaults = 2
  RequiredRuns = 2
  VisibleRows = 1
SPECIFICATION Spec
INVARIANT TypeOK
INVARIANT AtMostOneChampion
PROPERTY PromotionEarned
PROPERTY NoUnseenRevival
PROPERTY ImplementsAudit
