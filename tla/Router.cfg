CONSTANTS
  q1 = q1
  q2 = q2
  q3 = q3
  a1 = a1
  w1 = w1
  w2 = w2
  Nil = Nil
  Requests = {q1, q2, q3}
  Admins = {a1}
  Workers = {w1, w2}
  BufferSize = 1
  Bodies <- CanaryOnOff
  Initial <- ShadowAll
  Draws = {25}
SPECIFICATION FairSpec
CHECK_DEADLOCK FALSE
INVARIANT TypeOK
INVARIANT ComparisonsAreOfChampion
INVARIANT AcceptedIsAccountedFor
INVARIANT OrderlyStopDrains
PROPERTY ImplementsDelivery
PROPERTY TasksSettle
PROPERTY StopCompletes
