SPECIFICATION Spec
CONSTANTS
  j1 = j1
  w1 = w1
  Jobs = {j1}
  Workers = {w1}
  Readers = {}
  NoJob = NoJob
  NoWorker = NoWorker
  Envelope = 300
  Files <- MCFiles
  MaxFaults = 1
INVARIANTS
  AcceptedIsQueued
CHECK_DEADLOCK FALSE
