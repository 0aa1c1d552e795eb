SPECIFICATION AuthSpec
CONSTANTS
  t1 = t1
  t2 = t2
  t3 = t3
  c1 = c1
  c2 = c2
  Tokens = {t1, t2, t3}
  Calls = {c1, c2}
  NoToken = NoToken
SYMMETRY Sym
INVARIANTS
  ExchangedOnce
CHECK_DEADLOCK FALSE
