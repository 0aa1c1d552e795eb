SPECIFICATION Spec
CONSTANTS
  t1 = t1
  t2 = t2
  c1 = c1
  c2 = c2
  a1 = a1
  a2 = a2
  k1 = k1
  k2 = k2
  Tokens = {t1, t2}
  Calls = {c1, c2}
  Addresses = {a1, a2}
  Keys = {k1, k2}
  Forms <- MCForms
  NoToken = NoToken
  NoKey = NoKey
  NoCall = NoCall
  NoForm = NoForm
SYMMETRY Sym
INVARIANTS
  AccountsInv
  CreatedIsStored
PROPERTIES
  AuthSpec
  CreatedByOne
  AccountIsKept
  CreatedCanSignIn
CHECK_DEADLOCK FALSE
