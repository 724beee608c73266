SPECIFICATION Spec
CONSTANTS
  NPads = 2
  Encoded = {"vp8", "h264"}
  Rtp = {"rtp_vp8"}
  PayloadOf <- Vp8Payload
  Parsed = {"vp8"}
  Decodable = {"vp8", "h264"}
  Encodable = {"vp8"}
  Payloadable = {"rtp_vp8"}
  MaxInputs = 1
  MaxPeers = 3
CHECK_DEADLOCK FALSE
INVARIANT TranscodingTold
