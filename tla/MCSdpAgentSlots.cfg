SPECIFICATION Spec
CONSTANTS
  Kinds <- AudioVideo
  RtpKinds <- AudioVideo
  PerKind = 1
  Cancels = FALSE
  Removes = FALSE
  Failures = FALSE
  PeerReuses = TRUE
  MaxMedias = 2
  MaxHandlers = 3
  MaxVersion = 2
  MaxRounds = 3
INVARIANT AnswerMatches
CHECK_DEADLOCK FALSE
