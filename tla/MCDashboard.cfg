SPECIFICATION FairSpec
CONSTANTS
  i1 = i1
  i2 = i2
  p1 = p1
  p2 = p2
  Images = {i1, i2}
  Polls = {p1, p2}
  MAX_UPLOAD_CONCURRENCY = 1
INVARIANTS
  DashboardInv
  StoppedMeansSaved
  CompletedIsSaved
PROPERTIES
  ResultIsSaved
CHECK_DEADLOCK FALSE
