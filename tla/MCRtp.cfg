SPECIFICATION Carried
CONSTANTS
  RtpSetups <- MCSetups
  RtpSsrcs = {"a1", "v1"}
  SsrcKind <- MCSsrcKind
  SsrcPt <- MCSsrcPt
  MaxRtcp = 1
  Consumers = {c1, c2}
  REMB_MIN = 2
  REMB_MAX = 64
  DEFAULT_REMB_ON_CONNECT = 16
  DEFAULT_TARGET_ENCODER_BITRATE = 12
  DEFAULT_MAX_ENCODER_BITRATE = 64
  CLEAR_INTERVAL = 1
  KBPS = 2
  MANTISSA_SIZE = 8
  MAX_EXPONENT = 2
  COUNTER_SIZE = 4096
  LocalParams <- MCParams
  Bandwidths <- MCBandwidths
  Arrivals <- MCArrivals
  SteadyArrivals <- MCSteady
  Asked = {0, 8, 24}
  EncoderBitrates = {10}
  MaxTicks <- MCTicks
  MaxRembs = 3
  CYCLE = 12
  SECOND = 5
  CLOCK_RATE = 3
  MAX_TIME = 120
  EPOCH = 45
  StampStarts = {0, 9, 11}
  Delays = {1}
  ClockSteps <- MCSteps
  MaxAhead = 16
  MaxSyncOps = 5
SYMMETRY ConsumerPerms
CHECK_DEADLOCK FALSE
INVARIANTS PayloadersConnected ConnectionTold StreamsFed EstimateBounded
PROPERTIES SlowestRespected TimesMeant
