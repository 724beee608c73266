----------------------------- MODULE MCSdpAgent -----------------------------
(* Instances of SdpAgent for TLC. *)
EXTENDS SdpAgent

AudioOnly  == {"audio"}
AudioData  == {"audio", "data"}
AudioVideo == {"audio", "video"}
AllKinds   == {"audio", "video", "data"}
=============================================================================
