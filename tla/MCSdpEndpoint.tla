---------------------------- MODULE MCSdpEndpoint ----------------------------
(* Instances of SdpEndpoint for TLC. *)
EXTENDS SdpEndpoint

AudioVideo == <<"audio", "video">>
=============================================================================
