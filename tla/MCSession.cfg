SPECIFICATION Spec
CONSTANTS
  t1 = t1
  t2 = t2
  t3 = t3
  c1 = c1
  c2 = c2
  Tokens = {t1, t2, t3}
  Calls = {c1, c2}
  NoToken = NoToken

INVARIANTS
  RotationRevokes
  SessionInv
  StoredTokenIsUsable
PROPERTIES
  StaleTokenIsRefused
  RevokedForGood
SYMMETRY Sym
CHECK_DEADLOCK FALSE
