------------------------------ MODULE MCMediaSet ------------------------------
(* MediaSet with the server manager, one pipeline and one element in it. *)
EXTENDS MediaSet, TLC

CONSTANTS mgr, pipe, elem

MCObjects   == {mgr, pipe, elem}
MCAnc       == [o \in MCObjects |-> IF o = elem THEN {pipe} ELSE {}]
MCPipelines == {pipe}

(* The threads that serve requests are interchangeable. *)
Symmetry == Permutations(Threads)
=============================================================================
