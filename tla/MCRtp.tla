-------------------------------- MODULE MCRtp ---------------------------------
(* What carries the media of an endpoint: its RTP session (RtpEndpoint), the bitrates it
   agrees on with peers and encoders (Remb), and the times of its streams (RtpSync).  They
   share no state, so a behaviour moves one of them, the focus, and the others rest. *)
EXTENDS RtpEndpoint, Remb, RtpSync, TLC

VARIABLE focus

AudioLine == [bundled |-> TRUE, mux |-> TRUE, proto_ok |-> TRUE, direction |-> "sendrecv",
              remb |-> FALSE, nack |-> FALSE, pts |-> {96}, announced |-> "a1"]
VideoLine == [AudioLine EXCEPT !.remb = TRUE, !.nack = TRUE, !.pts = {97}, !.announced = "v1"]

(* Bundled; apart; without an SSRC or formats; inactive with the numbers of the other; a
   line whose protocol nobody handles. *)
MCSetups ==
  {[audio |-> AudioLine, video |-> VideoLine],
   [audio |-> [AudioLine EXCEPT !.bundled = FALSE],
    video |-> [VideoLine EXCEPT !.bundled = FALSE, !.mux = FALSE]],
   [audio |-> [AudioLine EXCEPT !.announced = NoSsrc], video |-> [VideoLine EXCEPT !.pts = {}]],
   [audio |-> [AudioLine EXCEPT !.direction = "inactive", !.pts = {97}],
    video |-> [VideoLine EXCEPT !.announced = NoSsrc]],
   [audio |-> [AudioLine EXCEPT !.proto_ok = FALSE, !.bundled = FALSE], video |-> VideoLine]}
MCSsrcKind == [a1 |-> "audio", v1 |-> "video"]
MCSsrcPt == [a1 |-> 96, v1 |-> 97]

(* Arrivals with and without losses; small factors, so that every branch is met. *)
MCParams == {[packets_recv_interval_top |-> 4, exponential_factor |-> 4, lineal_factor_min |-> 1,
              lineal_factor_grade |-> 2, decrement_factor |-> 5, threshold_factor |-> 8,
              up_losses |-> 12]}
MCBandwidths == {<<0, 20>>}
Arrive(packets, octets, lost, fraction) ==
  [packets |-> packets, octets |-> octets, lost |-> lost, fraction |-> fraction]
MCArrivals == {Arrive(1, 10, 0, 0), Arrive(2, 6, 2, 40)}
MCSteady == {Arrive(2, 40, 0, 0)}
MCTicks == [estimate |-> 5, local |-> 2, encoder |-> 3]
ConsumerPerms == Permutations(Consumers)

(* The clock of the server jumps back or runs on. *)
MCSteps == {-40, 5}

CarriedInit ==
  /\ focus \in {"rtp", "remb", "sync"}
  /\ RtpInit /\ RembInit /\ SyncInit
  /\ focus # "rtp" => line = [audio |-> AudioLine, video |-> VideoLine]
  /\ focus # "remb" => role = "estimate"
  /\ focus # "sync" => start = 0 /\ sync = NewSynchronizer(TRUE)

CarriedNext ==
  /\ UNCHANGED focus
  /\ \/ focus = "rtp" /\ RtpNext /\ UNCHANGED <<rembVars, syncVars>>
     \/ focus = "remb" /\ RembNext /\ UNCHANGED <<rtpVars, syncVars>>
     \/ focus = "sync" /\ SyncNext /\ UNCHANGED <<rtpVars, rembVars>>

Carried == CarriedInit /\ [][CarriedNext]_<<focus, rtpVars, rembVars, syncVars>>
=============================================================================
