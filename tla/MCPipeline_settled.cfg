SPECIFICATION FairSpec
CONSTANTS
  j1 = j1
  w1 = w1
  w2 = w2
  Jobs = {j1}
  Workers = {w1, w2}
  Readers = {}
  NoJob = NoJob
  NoWorker = NoWorker
  Envelope = 300
  Files <- MCFiles
  MaxFaults = 3
PROPERTIES
  QueuedIsSettled
  ShutdownCompletes
CHECK_DEADLOCK FALSE
