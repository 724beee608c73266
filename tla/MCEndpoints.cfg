SPECIFICATION Endpoints
CONSTANTS
  Threads = {t1, t2, t3}
  Kinds <- AudioVideo
  Medias = 1
  MaxFailures = 2
  MaxLines = 2
  MaxOps = 4
  Sides <- MCSides
  MediaLines <- MCLines
  MediaKind <- MCMediaKind
  CodecsOf <- MCCodecs
  StaticPayload <- MCStatic
  MIN_DYNAMIC_PAYLOAD = 96
  MAX_DYNAMIC_PAYLOAD = 102
  PeerLines <- MCPeerLines
  Configs <- MCConfigs
  MaxExchanges = 3
  LineKinds = {"audio", "video"}
  MaxNumber = 0
  MaxLineHandlers = 2
  MaxGroupOps = 5
  MaxMixInputs = 3
  MaxMixOps = 6
  MaxBranches = 2
  FlowThreads = {"p1", "p2", "p3"}
  MaxBuffers = 4
CHECK_DEADLOCK FALSE
INVARIANTS AgentExpects StartsOnce OneOffer WithinMedias
  AnswerRight Reoffered LinesNamed MixInStep DrainClean FlowTold
PROPERTIES NumbersKept
