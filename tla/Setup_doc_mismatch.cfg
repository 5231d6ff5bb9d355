CONSTANTS
  main = main
  hand = hand
  amount = amount
  hour = hour
  card = card
  Sessions = {main}
  Setup = main
  Files = 1
  MaxRestarts = 1
  FeatureLists <- TwoLists
  MaxRepeats = 5
SPECIFICATION Spec
CHECK_DEADLOCK FALSE
INVARIANT MismatchCaught
