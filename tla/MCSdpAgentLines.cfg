SPECIFICATION Spec
CONSTANTS
  Kinds <- AllKinds
  RtpKinds <- AudioVideo
  PerKind = 1
  Cancels = FALSE
  Removes = TRUE
  Failures = FALSE
  PeerReuses = FALSE
  MaxMedias = 2
  MaxHandlers = 3
  MaxVersion = 2
  MaxRounds = 3
INVARIANTS AnswerMatches NeverStuck LinesInStep
CHECK_DEADLOCK FALSE
