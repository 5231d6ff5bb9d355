CONSTANTS
  main = main
  hand = hand
  amount = amount
  hour = hour
  card = card
  Sessions = {main, hand}
  Setup = main
  Files = 2
  MaxRestarts = 2
  FeatureLists <- OneList
  MaxRepeats = 2
SPECIFICATION Spec
CHECK_DEADLOCK FALSE
INVARIANT TypeOK
INVARIANT MigrationsOnce
INVARIANT FinishedIsConsistent
