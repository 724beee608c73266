SPECIFICATION Spec
CONSTANTS
  Kinds <- AudioData
  RtpKinds <- AudioOnly
  PerKind = 1
  Cancels = TRUE
  Removes = TRUE
  Failures = TRUE
  PeerReuses = TRUE
  MaxMedias = 2
  MaxHandlers = 2
  MaxVersion = 3
  MaxRounds = 3
INVARIANTS SlotsInStep
PROPERTIES VersionStep FollowsDiagram
CHECK_DEADLOCK FALSE
