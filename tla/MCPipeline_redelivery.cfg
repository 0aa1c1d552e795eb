SPECIFICATION Spec
CONSTANTS
  j1 = j1
  w1 = w1
  w2 = w2
  r1 = r1
  Jobs = {j1}
  Workers = {w1, w2}
  Readers = {r1}
  NoJob = NoJob
  NoWorker = NoWorker
  Envelope = 300
  Files <- MCFiles
  MaxFaults = 3
SYMMETRY Sym
INVARIANTS
  AckedIsStored
  CompletedIffResults
  BatchesWithinDeliveries
  BatchesWithinFaults
  AcceptedUnlessLost
  CompletedReplyHasResults
PROPERTIES
  NoRegression
  RepliesNeverRegress
CHECK_DEADLOCK FALSE
