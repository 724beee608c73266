----------------------------- MODULE MCEndpoints ------------------------------
(* What a client makes and connects: an endpoint with its negotiations (SdpEndpoint), their
   media lines (SdpMedia) and groups (SdpGroups), the mixers of hubs (AudioMixer,
   AudioMixerBin), and in each of them the states of the flows of media (ElementFlow).  They
   share no state, so a behaviour moves one of them, the focus, and the others rest. *)
EXTENDS MCSdpEndpoint, SdpMedia, SdpGroups, AudioMixer, AudioMixerBin, ElementFlow

VARIABLE focus

MCSides == {"a", "b"}
MCLines == {"l1", "l2", "l3"}
MCMediaKind == [l1 |-> "audio", l2 |-> "video", l3 |-> "video"]
MCCodecs ==
  [a |-> [audio |-> <<"PCMU", "OPUS">>, video |-> <<"VP8", "H264">>],
   b |-> [audio |-> <<"OPUS", "PCMU">>, video |-> <<"H264", "VP8">>]]
MCStatic == [PCMU |-> 0, OPUS |-> -1, VP8 |-> -1, H264 |-> -1, red |-> -1, ulpfec |-> -1]

(* Endpoints of this server: one with everything, ones whose payload managers do not share
   numbers, with and without keys, one without feedback, and a peer that is not this server. *)
Base == [foreign |-> FALSE, proto |-> "RTP/AVPF", share |-> TRUE, nack |-> TRUE, remb |-> TRUE,
         mux |-> TRUE, entry |-> TRUE, offer_dir |-> "sendrecv", fec |-> TRUE,
         extmaps |-> {<<1, "abs">>}]
MCConfigs ==
  {Base, [Base EXCEPT !.share = FALSE],
   [Base EXCEPT !.share = FALSE, !.fec = FALSE, !.proto = "RTP/SAVPF"],
   [Base EXCEPT !.proto = "RTP/AVP", !.nack = FALSE, !.offer_dir = "sendonly"],
   [Base EXCEPT !.foreign = TRUE]}

(* Lines a foreign peer offers: numbers that clash with those of this server, formats nobody
   has, every direction, feedback of formats that are refused. *)
PeerLine(kind, proto, fmts, map, dir, fb) ==
  [media |-> kind, proto |-> proto, port |-> 1, setup |-> "actpass", fmts |-> fmts,
   rtpmap |-> map, fmtp |-> {fmts[Len(fmts)]}, ext |-> {<<3, "abs">>, <<4, "tof">>},
   dir |-> dir, fb |-> fb, rtcp |-> TRUE, mux |-> TRUE]
Vp8Red == {<<98, "VP8">>, <<101, "red">>}
MCPeerLines ==
  {PeerLine("audio", "RTP/AVPF", <<8, 99, 0>>, {<<99, "OPUS">>}, "recvonly", {}),
   PeerLine("audio", "RTP/AVP", <<8>>, {}, "sendrecv", {}),
   PeerLine("video", "RTP/AVPF", <<97, 100, 98, 101>>,
            {<<97, "H264">>, <<100, "ulpfec">>} \cup Vp8Red, "inactive",
            {<<97, "nack">>, <<98, "goog-remb">>, <<100, "nack pli">>}),
   PeerLine("video", "RTP/AVP", <<98, 101>>, Vp8Red, "none", {<<98, "ccm fir">>}),
   PeerLine("video", "RTP/SAVP", <<98, 101>>, Vp8Red, "none",
            {<<98, "ccm fir">>, <<98, "transport-cc">>})}

OthersRest ==
  /\ focus # "endpoint" => UNCHANGED vars
  /\ focus # "media" => UNCHANGED mediaVars
  /\ focus # "groups" => UNCHANGED groupVars
  /\ focus # "mixer" => UNCHANGED mixVars
  /\ focus # "mixerbin" => UNCHANGED mixBinVars
  /\ focus # "flow" => UNCHANGED flowVars

EndpointsInit ==
  /\ focus \in {"endpoint", "media", "groups", "mixer", "mixerbin", "flow"}
  /\ Init /\ MediaInit /\ GroupInit /\ MixInit /\ MixBinInit /\ FlowInit
  /\ focus # "media" => config = [s \in Sides |-> Base]
  /\ focus # "groups" => bundle

EndpointsNext ==
  /\ UNCHANGED focus
  /\ \/ focus = "endpoint" /\ Next
     \/ focus = "media" /\ MediaNext
     \/ focus = "groups" /\ GroupNext
     \/ focus = "mixer" /\ MixNext
     \/ focus = "mixerbin" /\ MixBinNext
     \/ focus = "flow" /\ FlowNext
  /\ OthersRest

Endpoints ==
  EndpointsInit /\ [][EndpointsNext]_<<focus, vars, mediaVars, groupVars, mixVars, mixBinVars,
                                      flowVars>>
=============================================================================
