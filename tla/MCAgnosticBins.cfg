SPECIFICATION Bins
CONSTANTS
  NPads = 2
  Encoded = {"vp8", "h264"}
  Rtp = {"rtp_vp8"}
  PayloadOf <- Vp8Payload
  Parsed = {"vp8"}
  Decodable = {"vp8", "h264"}
  Encodable = {"vp8"}
  Payloadable = {"rtp_vp8"}
  MaxInputs = 3
  MaxPeers = 2
  Formats3 = {"vp8", "h264", "raw"}
  InPads = {"i1", "i2", "i3"}
  OutPads = {"o1", "o2"}
  PeerCaps <- MCPeerCaps
  UpstreamCaps = {"raw"}
  Bitrates = {0, 2, 4}
  DEFAULT_TARGET = 3
  UNLIMITED = 9
  VideoOutputs = {"v1"}
  AudioOutputs = {"a1"}
  SinkNames = {"s1"}
  MaxSinkPads = 2
  MaxSettings = 4
  HubPorts = {p1}
  HubThreads = {h1, h2}
  HubKinds = {"audio", "data"}
  StaticPads = {"mix"}
  MaxPortIds = 2
  MaxRequested = 1
SYMMETRY HubSymmetry
CHECK_DEADLOCK FALSE
INVARIANTS FedRight NoStaleBin SearchSettles EveryPadServed PartsFollow HubInStep
