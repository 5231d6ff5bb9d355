CONSTANTS
  p1 = p1
  p2 = p2
  p3 = p3
  p4 = p4
  c1 = c1
  c2 = c2
  f1 = f1
  f2 = f2
  f3 = f3
  f4 = f4
  t1 = t1
  t2 = t2
  t3 = t3
  j1 = j1
  j2 = j2
  Predictions = {p1, p2, p3, p4}
  Comparisons = {c1, c2}
  Txns = {t1, t2, t3}
  TxnOf <- MCTxnOf
  Lag = 1
  MaxTime = 8
  LastArrival = 1
  Deployments <- EachAlone
  Joiners = {j1, j2}
  Truth <- MCTruth
  Delay <- MCDelay
  MaxInserts = 1
  PageFactor = 2
  Reference = {f1, f2, f3, f4}
  ScoreOf <- MCScoreOf
  BucketOf <- MCBucketOf
  NoHash = 0
  Found <- MCFound
  FoundAtZero <- MCFoundAtZero
  MinSamples = 1
  DriftWindow = 6
  DriftInterval = 1
  DriftRunTime = 1
  DriftMaxFails = 1
  Verdict <- MCVerdict
  Probability <- MCProbability
  ShadowWindow = 6
  ShadowInterval = 1
  ShadowRunTime = 1
  ShadowMaxFails = 1
SPECIFICATION FairSpec
CHECK_DEADLOCK FALSE
INVARIANT TypeOK
INVARIANT NoBlindSpot
INVARIANT FiringsAreRecorded
INVARIANT NoFalseAlarm
INVARIANT EveryComparisonSummarised
PROPERTY LabelsAreFinal
PROPERTY EveryDueLabelArrives
