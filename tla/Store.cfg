CONSTANTS
  p1 = p1
  p2 = p2
  p3 = p3
  p4 = p4
  Records = {p1, p2, p3, p4}
  BufferSize = 2
  ChunkSize = 2
  MaxFaults = 3
SPECIFICATION FairSpec
CHECK_DEADLOCK FALSE
INVARIANT TypeOK
INVARIANT AcceptedIsAccountedFor
INVARIANT OrderlyStopKeepsRecords
INVARIANT LossTakesTwoFailures
PROPERTY ImplementsDelivery
PROPERTY RecordsSettle
PROPERTY StopCompletes
