SPECIFICATION Spec
CONSTANTS
  j1 = j1
  j2 = j2
  w1 = w1
  w2 = w2
  Jobs = {j1, j2}
  Workers = {w1, w2}
  Readers = {}
  NoJob = NoJob
  NoWorker = NoWorker
  Envelope = 300
  Files <- MCFiles
  MaxFaults = 1
SYMMETRY Sym
INVARIANTS
  IInv
  ExclusiveHandling
  FailedIsNotQueued
  QueuedHasImage
PROPERTIES
  LedgerSpec
CHECK_DEADLOCK FALSE
