---------------------------- MODULE MCAgnosticBins ----------------------------
(* What media pass inside of the server: the agnostic bin (AgnosticBin), the bin that puts it
   between several inputs and outputs (AgnosticBin3), the element that makes it and passes its
   settings on (ElementConfig), and a hub between the elements of its ports (Hub).  They share
   no state, so a behaviour moves one of them, the focus, and the others rest. *)
EXTENDS MCAgnosticBin, AgnosticBin3, ElementConfig, Hub

VARIABLE focus

(* One peer takes a single format, the other a choice. *)
MCPeerCaps == [o1 |-> {"vp8"}, o2 |-> {"h264", "raw"}]

(* The threads of a hub do the same. *)
T == INSTANCE TLC
HubSymmetry == T!Permutations(HubThreads)

BinsInit ==
  /\ focus \in {"bin", "bin3", "config", "hub"}
  /\ Init /\ Bin3Init /\ ConfigInit /\ HubInit
  /\ focus # "config" => statsEnabled

BinsNext ==
  /\ UNCHANGED focus
  /\ \/ focus = "bin" /\ Next /\ UNCHANGED <<bin3Vars, configVars, hubVars>>
     \/ focus = "bin3" /\ Bin3Next /\ UNCHANGED <<vars, configVars, hubVars>>
     \/ focus = "config" /\ ConfigNext /\ UNCHANGED <<vars, bin3Vars, hubVars>>
     \/ focus = "hub" /\ HubNext /\ UNCHANGED <<vars, bin3Vars, configVars>>

Bins == BinsInit /\ [][BinsNext]_<<focus, vars, bin3Vars, configVars, hubVars>>
=============================================================================
