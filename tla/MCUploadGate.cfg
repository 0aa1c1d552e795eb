SPECIFICATION Spec
CONSTANTS
  Envelope = 300
  Candidates <- MCCandidates
INVARIANTS
  PickedImageIsNotRefused
  AcceptedIsImage
CHECK_DEADLOCK FALSE
