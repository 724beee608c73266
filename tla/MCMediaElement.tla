---------------------------- MODULE MCMediaElement ----------------------------
(* Three media elements of one pipeline. *)
EXTENDS MediaElement, TLC

CONSTANTS e1, e2, e3

MCElements == {e1, e2, e3}

(* Two sources compete for e2. *)
Fork == {<<e1, e2>>, <<e3, e2>>}
=============================================================================
