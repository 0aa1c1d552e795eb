SPECIFICATION FairSpec
CONSTANTS
  a1 = a1
  a2 = a2
  w1 = w1
  w2 = w2
  Apis = {a1, a2}
  Workers = {w1, w2}
  MaxFaults = 3
INVARIANTS
  StartupInv
  ReadyForGood
  HandledHasTables
PROPERTIES
  ComesUp
CHECK_DEADLOCK FALSE
