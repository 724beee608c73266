--------------------------- MODULE MCAgnosticBin ---------------------------
(* Instances of AgnosticBin for TLC. *)
EXTENDS AgnosticBin

Vp8Payload == [r \in {"rtp_vp8"} |-> "vp8"]
=============================================================================
