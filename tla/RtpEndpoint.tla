----------------------------- MODULE RtpEndpoint -----------------------------
(***************************************************************************)
(* The RTP endpoint: kmsbasertpendpoint.c, the session that owns its       *)
(* connections (kmsbasertpsession.c) and the states the server object      *)
(* reports (BaseRtpEndpointImpl.cpp).                                      *)
(*                                                                         *)
(* Three kinds of threads run: the one that negotiates (it configures the  *)
(* lines, starts the transport and connects the payloaders), one for each  *)
(* connection (ICE and DTLS: it says when the connection is connected) and *)
(* one for each RTP session of rtpbin (streams that start, RTCP that       *)
(* arrives, time out or says goodbye).  A session has one line of a kind   *)
(* at most: configure_rtp_media knows one audio and one video session.     *)
(*                                                                         *)
(* Connections, the demultiplexers and rtpbin are external; they are what  *)
(* the code here expects of them.                                          *)
(***************************************************************************)
EXTENDS Naturals, Sequences, FiniteSets, Functions

CONSTANTS
  RtpSetups,    \* negotiated sessions: [kind -> line]; a line is a record of
                \* bundled, mux, proto_ok, direction, remb, nack, announced (the SSRC) and
                \* pts (the formats there are caps and elements for)
  RtpSsrcs,     \* streams of the peer, SsrcKind[s] their kind, SsrcPt[s] their format
  SsrcKind, SsrcPt,
  MaxRtcp       \* bound: RTCP events

RtpKinds == <<"audio", "video">>
RtpKind == Range(RtpKinds)
ConnNames == {"bundle"} \cup RtpKind
NoKind == "none"
NoSsrc == "no ssrc"

PayloadNumbers == 0 .. 127
Directions == {"sendrecv", "sendonly", "recvonly", "inactive"}
SsrcOrNone == RtpSsrcs \cup {NoSsrc}
Lines == [bundled : BOOLEAN, mux : BOOLEAN, proto_ok : BOOLEAN, direction : Directions,
          remb : BOOLEAN, nack : BOOLEAN, pts : SUBSET PayloadNumbers, announced : SsrcOrNone]

(* A peer announces for a line the SSRC of a stream of its kind, and sends a stream with a
   number of the other line only if its own line has it too. *)
ASSUME RtpAssumption ==
  /\ SsrcKind \in [RtpSsrcs -> RtpKind]
  /\ SsrcPt \in [RtpSsrcs -> PayloadNumbers]
  /\ NoSsrc \notin RtpSsrcs
  /\ MaxRtcp \in Nat
  /\ RtpSetups \subseteq [RtpKind -> Lines]
  /\ \A lines \in RtpSetups, k \in RtpKind :
       /\ lines[k].announced # NoSsrc => SsrcKind[lines[k].announced] = k
       /\ \A s \in RtpSsrcs :
            SsrcPt[s] \in lines[k].pts => SsrcPt[s] \in lines[SsrcKind[s]].pts

VARIABLES
  line,        \* line[k]: the negotiated line of kind k
  rtp_pc,      \* the negotiating thread: what it does, and for which line
  conns,       \* conns[n]: the connection called n
  handlers_of, \* handlers_of[n]: who was connected to its "connected" signal, in order
  conn_state, conn_pending, conn_told,
               \* of the session; emissions on their way, by thread; of the server object
  sessions,    \* kinds with an RTP session in rtpbin (and local SSRC)
  remote_ssrc, \* remote_ssrc[k]: as process_remote_ssrc found it
  negotiated,  \* kinds whose negotiated media the session has (audio_neg, video_neg)
  sends,       \* <<k, n>>: RTP and RTCP of the session of k go out through connection n
  rr_pairs,    \* <<local kind, remote SSRC>>: seen in receiver reports
  fed,         \* fed[s]: what the stream s feeds, once it has a pad, and what was known then
  rtcp_fed,    \* rtcp_fed[k]: what reports about our stream of kind k feed
  payloaders,  \* payloaders[k]: the payloader of kind k, its handler being still connected
  remb,        \* [rl, event_manager]
  ssrc,        \* ssrc[k]: audio_config->ssrc, video_config->ssrc
  actived, media_state, media_pending, media_told,
  starts,      \* media-start and media-stop signals: the last one by kind and place
  rtcp_left

rtpVars == <<line, rtp_pc, conns, handlers_of, conn_state, conn_pending, conn_told, sessions,
  remote_ssrc, negotiated, sends, rr_pairs, fed, rtcp_fed, payloaders, remb, ssrc, actived, media_state,
  media_pending, media_told, starts, rtcp_left>>

demuxVars == <<rr_pairs, fed, rtcp_fed>>
connVars == <<conns, handlers_of, conn_state, conn_pending, conn_told>>
mediaStateVars == <<ssrc, actived, media_state, media_pending, media_told, starts, rtcp_left>>
startVars == <<sessions, remote_ssrc, negotiated, sends, remb>>

NoConn == [made |-> FALSE, type |-> NoKind, added |-> 0, connected |-> FALSE,
           demux |-> FALSE, emitting |-> <<>>, emitted |-> FALSE]
NoBuffer == [latency |-> NoKind, rtx |-> FALSE, in_stats |-> FALSE]
Inactive(k) == line[k].direction = "inactive"
SessionHandler == "session"
Negotiator == "negotiator"
Threads_ == {Negotiator} \cup ConnNames

At(step, i) == rtp_pc = <<step, i>>
Kind_(i) == RtpKinds[i]

(* The next step of a loop over the lines, or the first of what follows it. *)
NextLine(step, i, then) ==
  rtp_pc' = IF i < Len(RtpKinds) THEN <<step, i + 1>> ELSE <<then, 1>>

-----------------------------------------------------------------------------
(* Configuring the lines, while the agent makes its offer or answer.       *)

(* create_connection_name_from_handler: the lines of a group share one connection. *)
NameOf(k) == IF line[k].bundled THEN "bundle" ELSE k

ConnType(k) ==
  CASE line[k].bundled -> "bundle"
    [] ~line[k].bundled /\ line[k].mux -> "mux"
    [] OTHER -> "basic"

(* create_connection finds the connection of the name or makes one, which may fail. *)
create_connection(k, ok) ==
  LET n == NameOf(k)
  IN  conns' = IF conns[n].made \/ ~ok THEN conns
               ELSE [conns EXCEPT ![n].made = TRUE, ![n].type = ConnType(k)]

(* configure_media.  Its result is ignored: a line without a connection is negotiated
   like the others.  A line whose protocol is not RTP gets no session. *)
ConfigureMedia(i, ok) ==
  LET k == Kind_(i)
  IN  /\ At("configure", i)
      /\ (conns[NameOf(k)].made => ok)
      /\ create_connection(k, ok)
      /\ sessions' = IF ok /\ line[k].proto_ok THEN sessions \cup {k} ELSE sessions
      /\ NextLine("configure", i, "subscribe")
      /\ UNCHANGED <<line, handlers_of, conn_state, conn_pending, conn_told, remote_ssrc,
                     negotiated, sends, demuxVars, payloaders, remb, mediaStateVars>>

-----------------------------------------------------------------------------
(* The state of the session's connections.                                 *)

(* check_conn_status: under the session's lock. *)
Subscribe ==
  /\ At("subscribe", 1)
  /\ handlers_of' = [n \in ConnNames |-> IF conns[n].made THEN Append(handlers_of[n], SessionHandler)
                                         ELSE handlers_of[n]]
  /\ rtp_pc' = <<"update", 1>>
  /\ UNCHANGED <<line, conns, conn_state, conn_pending, conn_told, startVars, demuxVars,
                 payloaders, mediaStateVars>>

(* A mutated form: one connection is enough. *)
AnyConnected == \E n \in ConnNames : conns[n].made /\ conns[n].connected

AllConnected == \A n \in ConnNames : conns[n].made => conns[n].connected

(* update_conn_state by thread t: the state changes under the lock... *)
update_conn_state(t) ==
  /\ conn_state' = AllConnected
  /\ conn_pending' = [conn_pending EXCEPT ![t] = IF conn_state # AllConnected
                                                 THEN Append(@, AllConnected) ELSE @]

(* ...and is told without it: connection-state-changed, then updateConnectionState. *)
TellConnState(t) ==
  /\ conn_pending[t] # <<>>
  /\ conn_told' = Head(conn_pending[t])
  /\ conn_pending' = [conn_pending EXCEPT ![t] = Tail(@)]
  /\ UNCHANGED <<line, rtp_pc, conns, handlers_of, conn_state, startVars, demuxVars,
                 payloaders, mediaStateVars>>

UpdateConnState ==
  /\ At("update", 1)
  /\ update_conn_state(Negotiator)
  /\ rtp_pc' = <<"media", 1>>
  /\ UNCHANGED <<line, conns, handlers_of, conn_told, startVars, demuxVars, payloaders,
                 mediaStateVars>>

(* A connection becomes connected... *)
Connected(n) ==
  /\ conns[n].made /\ ~conns[n].connected
  /\ conns' = [conns EXCEPT ![n].connected = TRUE]
  /\ UNCHANGED <<line, rtp_pc, handlers_of, conn_state, conn_pending, conn_told, startVars,
                 demuxVars, payloaders, mediaStateVars>>

(* ...and emits "connected", to the handlers there are when the emission begins. *)
EmitConnected(n) ==
  /\ conns[n].connected /\ ~conns[n].emitted
  /\ conns' = [conns EXCEPT ![n].emitted = TRUE, ![n].emitting = handlers_of[n]]
  /\ UNCHANGED <<line, rtp_pc, handlers_of, conn_state, conn_pending, conn_told, startVars,
                 demuxVars, payloaders, mediaStateVars>>

ConnectedSession(n) ==
  /\ conns[n].emitting # <<>> /\ Head(conns[n].emitting) = SessionHandler
  /\ conns' = [conns EXCEPT ![n].emitting = Tail(@)]
  /\ update_conn_state(n)
  /\ UNCHANGED <<line, rtp_pc, handlers_of, conn_told, startVars, demuxVars, payloaders,
                 mediaStateVars>>

-----------------------------------------------------------------------------
(* start_transport_send.                                                   *)

(* process_remote_ssrc: a line that announces no SSRC leaves the one before. *)
process_remote_ssrc(k) ==
  /\ remote_ssrc' = [remote_ssrc EXCEPT ![k] = IF line[k].announced = NoSsrc THEN @
                                               ELSE line[k].announced]
  /\ negotiated' = negotiated \cup {k}

(* The elements of a connection: those of a bundle are added with its first line, and
   every line links what it sends. *)
add_gst_connection_elements(k) ==
  LET n == NameOf(k)
  IN  IF conns[n].type = "bundle"
      THEN /\ conns' = [conns EXCEPT ![n].added = IF conns[n].demux THEN @ ELSE @ + 1,
                                     ![n].demux = TRUE]
           /\ sends' = sends \cup {<<k, n>>}
      ELSE /\ conns' = [conns EXCEPT ![n].added = @ + 1]
           /\ sends' = sends \cup {<<k, n>>}

(* configure_media_connection *)
ConfigureConnection(i) ==
  LET k == Kind_(i)
  IN  /\ At("media", i) /\ conn_pending[Negotiator] = <<>>
      /\ ~Inactive(k) /\ line[k].proto_ok
      /\ process_remote_ssrc(k)
      /\ IF conns[NameOf(k)].made THEN add_gst_connection_elements(k)
         ELSE UNCHANGED <<conns, sends>>
      /\ NextLine("media", i, "remb")
      /\ UNCHANGED <<line, handlers_of, conn_state, conn_pending, conn_told, sessions, demuxVars, payloaders, remb, mediaStateVars>>

SkipConnection(i) ==
  LET k == Kind_(i)
  IN  /\ At("media", i) /\ conn_pending[Negotiator] = <<>>
      /\ Inactive(k) \/ ~line[k].proto_ok
      /\ NextLine("media", i, "remb")
      /\ UNCHANGED <<line, connVars, startVars, demuxVars, payloaders, mediaStateVars>>

(* The REMB managers of the first line with goog-remb; the video session is needed. *)
CreateRembManager ==
  /\ At("remb", 1)
  /\ remb' = IF (\E k \in RtpKind : line[k].remb) /\ "video" \in sessions
             THEN [remb EXCEPT !.rl = TRUE] ELSE remb
  /\ rtp_pc' = <<"attach", 1>>
  /\ UNCHANGED <<line, connVars, sessions, remote_ssrc, negotiated, sends, demuxVars,
                 payloaders, mediaStateVars>>

-----------------------------------------------------------------------------
(* connect_input_elements.  A payloader is connected to the sink pad of    *)
(* the element when its connection is connected.                           *)

(* get_payloader_for_caps: a format has caps and a factory makes an element for them. *)
PayloaderFound(k) == line[k].pts # {}

(* set_media_payloader *)
HasPayloader(k) == ~Inactive(k) /\ PayloaderFound(k) /\ conns[NameOf(k)].made

SkipPayloader(i) ==
  /\ At("attach", i)
  /\ ~HasPayloader(Kind_(i))
  /\ NextLine("attach", i, "done")
  /\ UNCHANGED <<line, connVars, startVars, demuxVars, payloaders, mediaStateVars>>

AttachPayloader(i) ==
  LET k == Kind_(i)
  IN  /\ At("attach", i)
      /\ HasPayloader(k)
      /\ payloaders' = [payloaders EXCEPT ![k].made = TRUE, ![k].handler = TRUE]
      /\ handlers_of' = [handlers_of EXCEPT ![NameOf(k)] = Append(@, k)]
      /\ rtp_pc' = <<"read", i>>
      /\ UNCHANGED <<line, conns, conn_state, conn_pending, conn_told, startVars, demuxVars,
                     mediaStateVars>>

(* A mutated form: without the flag. *)
do_connect_payloader_again(p) == [p EXCEPT !.connected_flag = TRUE, !.times = @ + 1]

(* do_connect_payloader: who sets the flag connects it. *)
do_connect_payloader(p) ==
  IF p.connected_flag THEN p ELSE [p EXCEPT !.connected_flag = TRUE, !.times = @ + 1]

(* connect_payloader_async, after it connected to the signal. *)
ReadConnected(i) ==
  LET k == Kind_(i)
  IN  /\ At("read", i)
      /\ IF conns[NameOf(k)].connected
         THEN /\ payloaders' = [payloaders EXCEPT ![k].handler = FALSE]
              /\ rtp_pc' = <<"connect", i>>
         ELSE /\ NextLine("attach", i, "done")
              /\ UNCHANGED payloaders
      /\ UNCHANGED <<line, connVars, startVars, demuxVars, mediaStateVars>>

ConnectPayloader(i) ==
  /\ At("connect", i)
  /\ payloaders' = [payloaders EXCEPT ![Kind_(i)] = do_connect_payloader(@)]
  /\ NextLine("attach", i, "done")
  /\ UNCHANGED <<line, connVars, startVars, demuxVars, mediaStateVars>>

(* connect_payloader_cb: a handler that was disconnected meanwhile is not called. *)
ConnectedPayloader(n, k) ==
  /\ conns[n].emitting # <<>> /\ Head(conns[n].emitting) = k
  /\ conn_pending[n] = <<>>
  /\ conns' = [conns EXCEPT ![n].emitting = Tail(@)]
  /\ payloaders' = [payloaders EXCEPT ![k] =
       IF @.handler THEN [do_connect_payloader(@) EXCEPT !.handler = FALSE] ELSE @]
  /\ UNCHANGED <<line, rtp_pc, handlers_of, conn_state, conn_pending, conn_told, startVars,
                 demuxVars, mediaStateVars>>

-----------------------------------------------------------------------------
(* Streams of the peer.                                                    *)

(* A mutated form: the reports of the peer are not looked at. *)
MediaOfSsrcAnnounced(s) == {k \in RtpKind : remote_ssrc[k] = s}

(* rtp_ssrc_demux_new_ssrc_pad: the media that announced the SSRC, or whose local SSRC it
   reports about (ssrcs_are_mapped). *)
MediaOfSsrc(s) ==
  {k \in RtpKind : remote_ssrc[k] = s \/ (k \in sessions /\ <<k, s>> \in rr_pairs)}

(* request_rtp_sink: without a media, or one that is not negotiated yet, a fakesink. *)
RtpSink(ks) ==
  CASE ks = {} -> "fakesink"
    [] "audio" \in ks -> IF "audio" \in negotiated THEN "audio" ELSE "fakesink"
    [] OTHER -> IF "video" \in negotiated THEN "video" ELSE "fakesink"

(* The first packet of a stream.  The streams of a bundle are told apart; others come
   through the connection of their line. *)
NewSsrcPad(s) ==
  LET n == NameOf(SsrcKind[s])
  IN  /\ fed[s].to = NoKind
      /\ IF conns[n].type = "bundle" THEN conns[n].demux ELSE conns[n].added > 0
      /\ fed' = [fed EXCEPT ![s] =
           [to |-> IF conns[n].type = "bundle" THEN RtpSink(MediaOfSsrc(s)) ELSE SsrcKind[s],
            known |-> negotiated, paired |-> <<SsrcKind[s], s>> \in rr_pairs,
            jb |-> NoBuffer, depay |-> NoKind]]
      /\ UNCHANGED <<line, rtp_pc, connVars, startVars, rr_pairs, rtcp_fed, payloaders,
                     mediaStateVars>>

(* A receiver report from s about our stream of the same kind: rtcpdemux notes the pair and,
   the first time, on_rtcpdemux_new_ssrc_pad links its pad. *)
ReceiverReport(s) ==
  LET k == SsrcKind[s]
  IN  /\ conns["bundle"].demux /\ line[k].bundled /\ k \in sessions
      /\ <<k, s>> \notin rr_pairs
      /\ rr_pairs' = rr_pairs \cup {<<k, s>>}
      /\ rtcp_fed' = [rtcp_fed EXCEPT ![k] = IF @ # NoKind THEN @ ELSE RtpSink({k})]
      /\ UNCHANGED <<line, rtp_pc, connVars, startVars, fed, payloaders, mediaStateVars>>

(* on_new_ssrc: the first SSRC of a session is its own until it says goodbye. *)
on_new_ssrc(k, s) == ssrc' = [ssrc EXCEPT ![k] = IF @ = NoSsrc THEN s ELSE @]

is_video_rtcp_nack == line["video"].nack

(* new_jitterbuffer: lost packets of video are asked for again if nack was negotiated; the
   buffer is in the statistics of a session that was configured. *)
new_jitterbuffer(k) ==
  [latency |-> "initial", rtx |-> k = "video" /\ is_video_rtcp_nack, in_stats |-> k \in sessions]

(* rtpbin has a stream. *)
StreamStarts(s) ==
  LET k == fed[s].to
  IN  /\ k \in RtpKind /\ fed[s].jb = NoBuffer
      /\ fed' = [fed EXCEPT ![s].jb = new_jitterbuffer(k)]
      /\ on_new_ssrc(k, s)
      /\ UNCHANGED <<line, rtp_pc, connVars, startVars, rr_pairs, rtcp_fed, payloaders, actived,
                     media_state, media_pending, media_told, starts, rtcp_left>>

(* get_caps_for_pt: the first line with the format, whatever the session that asks. *)
CapsForPt(pt) ==
  CASE pt \in line["audio"].pts -> "audio"
    [] pt \notin line["audio"].pts /\ pt \in line["video"].pts -> "video"
    [] OTHER -> NoKind

(* get_depayloader_for_caps, and the fakesink where there is none. *)
depayloader_for_caps(kind) == IF kind = NoKind THEN "fakesink" ELSE kind

(* The latency it gets with its first buffer. *)
set_latency(jb) == [jb EXCEPT !.latency = "ready"]

(* The first buffer leaves the jitter buffer and pad_added links a
   depayloader for the caps of its format. *)
PadAdded(s) ==
  LET k == fed[s].to
  IN  /\ fed[s].jb # NoBuffer /\ fed[s].depay = NoKind
      /\ fed' = [fed EXCEPT ![s].jb = set_latency(@),
                                ![s].depay = depayloader_for_caps(CapsForPt(SsrcPt[s]))]
      /\ remb' = IF k = "video" /\ remb.rl THEN [remb EXCEPT !.event_manager = TRUE] ELSE remb
      /\ starts' = [starts EXCEPT ![k].at_local = "start"]
      /\ UNCHANGED <<line, rtp_pc, connVars, sessions, remote_ssrc, negotiated, sends, rr_pairs,
                     rtcp_fed, payloaders, ssrc, actived, media_state, media_pending, media_told,
                     rtcp_left>>

-----------------------------------------------------------------------------
(* RTCP events of the session of kind k.  Each handler runs to its end     *)
(* before the next one of its session.                                     *)

RtcpReady(k, s) ==
  /\ fed[s].to = k /\ fed[s].jb # NoBuffer
  /\ media_pending[k] = <<>> /\ rtcp_left > 0
  /\ rtcp_left' = rtcp_left - 1

(* set_media_state: the state changes under the element's lock, what is to be emitted
   follows without it. *)
set_media_state(k, active, after) ==
  LET state == active \/ \E j \in RtpKind \ {k} : actived[j]
  IN  /\ actived' = [actived EXCEPT ![k] = active]
      /\ media_state' = state
      /\ media_pending' = [media_pending EXCEPT
           ![k] = (IF media_state # state THEN <<<<"state", state>>>> ELSE <<>>) \o after]

SsrcActive(k, s) ==
  /\ RtcpReady(k, s)
  /\ set_media_state(k, TRUE, <<>>)
  /\ UNCHANGED <<line, rtp_pc, connVars, startVars, demuxVars, payloaders, ssrc, media_told, starts>>

SsrcTimeout(k, s) ==
  /\ RtcpReady(k, s)
  /\ set_media_state(k, FALSE, <<>>)
  /\ UNCHANGED <<line, rtp_pc, connVars, startVars, demuxVars, payloaders, ssrc, media_told, starts>>

(* on_bye_ssrc and on_bye_timeout *)
SsrcBye(k, s) ==
  /\ RtcpReady(k, s)
  /\ set_media_state(k, FALSE, <<<<"stop", s>>>>)
  /\ UNCHANGED <<line, rtp_pc, connVars, startVars, demuxVars, payloaders, ssrc, media_told, starts>>

(* on_ssrc_sdes: only for the SSRC of a session. *)
SsrcSdes(k, s) ==
  /\ RtcpReady(k, s)
  /\ starts' = IF \E j \in RtpKind : ssrc[j] = s THEN [starts EXCEPT ![k].at_remote = "start"] ELSE starts
  /\ UNCHANGED <<line, rtp_pc, connVars, startVars, demuxVars, payloaders, ssrc, actived,
                 media_state, media_pending, media_told>>

(* media-state-changed and updateMediaState *)
TellMediaState(k) ==
  /\ media_pending[k] # <<>> /\ Head(media_pending[k])[1] = "state"
  /\ media_told' = Head(media_pending[k])[2]
  /\ media_pending' = [media_pending EXCEPT ![k] = Tail(@)]
  /\ UNCHANGED <<line, rtp_pc, connVars, startVars, demuxVars, payloaders, ssrc, actived,
                 media_state, starts, rtcp_left>>

(* stop_signal: the end of a session's SSRC is told as that of the remote side. *)
StopSignal(k) ==
  LET s == Head(media_pending[k])[2]
      own == {j \in RtpKind : ssrc[j] = s}
  IN  /\ media_pending[k] # <<>> /\ Head(media_pending[k])[1] = "stop"
      /\ ssrc' = [j \in RtpKind |-> IF j \in own THEN NoSsrc ELSE ssrc[j]]
      /\ starts' = IF own # {} THEN [starts EXCEPT ![k].at_remote = "stop"]
                   ELSE [starts EXCEPT ![k].at_local = "stop"]
      /\ media_pending' = [media_pending EXCEPT ![k] = Tail(@)]
      /\ UNCHANGED <<line, rtp_pc, connVars, startVars, demuxVars, payloaders, actived,
                     media_state, media_told, rtcp_left>>

-----------------------------------------------------------------------------
RtpInit ==
  /\ line \in RtpSetups
  /\ rtp_pc = <<"configure", 1>>
  /\ conns = [n \in ConnNames |-> NoConn]
  /\ handlers_of = [n \in ConnNames |-> <<>>]
  /\ conn_state = FALSE
  /\ conn_pending = [t \in Threads_ |-> <<>>]
  /\ conn_told = FALSE
  /\ sessions = {} /\ negotiated = {} /\ sends = {} /\ rr_pairs = {}
  /\ remote_ssrc = [k \in RtpKind |-> NoSsrc]
  /\ fed = [s \in RtpSsrcs |-> [to |-> NoKind, known |-> {}, paired |-> FALSE,
                                 jb |-> NoBuffer, depay |-> NoKind]]
  /\ rtcp_fed = [k \in RtpKind |-> NoKind]
  /\ payloaders = [k \in RtpKind |-> [made |-> FALSE, handler |-> FALSE,
                                        connected_flag |-> FALSE, times |-> 0]]
  /\ remb = [rl |-> FALSE, event_manager |-> FALSE]
  /\ ssrc = [k \in RtpKind |-> NoSsrc]
  /\ actived = [k \in RtpKind |-> FALSE]
  /\ media_state = FALSE /\ media_told = FALSE
  /\ media_pending = [k \in RtpKind |-> <<>>]
  /\ starts = [k \in RtpKind |-> [at_local |-> "none", at_remote |-> "none"]]
  /\ rtcp_left = MaxRtcp

Negotiate ==
  \/ \E i \in DOMAIN RtpKinds :
       \/ \E ok \in BOOLEAN : ConfigureMedia(i, ok)
       \/ ConfigureConnection(i) \/ SkipConnection(i)
       \/ SkipPayloader(i) \/ AttachPayloader(i) \/ ReadConnected(i) \/ ConnectPayloader(i)
  \/ Subscribe \/ UpdateConnState \/ CreateRembManager

ConnectionNext ==
  \/ \E n \in ConnNames : Connected(n) \/ EmitConnected(n) \/ ConnectedSession(n)
  \/ \E n \in ConnNames, k \in RtpKind : ConnectedPayloader(n, k)
  \/ \E t \in Threads_ : TellConnState(t)

StreamNext == \E s \in RtpSsrcs : NewSsrcPad(s) \/ ReceiverReport(s) \/ StreamStarts(s) \/ PadAdded(s)

RtcpNext ==
  \/ \E k \in RtpKind, s \in RtpSsrcs :
       SsrcActive(k, s) \/ SsrcTimeout(k, s) \/ SsrcBye(k, s) \/ SsrcSdes(k, s)
  \/ \E k \in RtpKind : TellMediaState(k) \/ StopSignal(k)

RtpNext == Negotiate \/ ConnectionNext \/ StreamNext \/ RtcpNext

RtpSpec == RtpInit /\ [][RtpNext]_rtpVars

-----------------------------------------------------------------------------
Handlers_ == {SessionHandler} \cup RtpKind
Places == RtpKind \cup {NoKind, "fakesink"}
Signals == {"none", "start", "stop"}
Steps == {"configure", "subscribe", "update", "media", "remb", "attach", "read", "connect", "done"}

Conn == [made : BOOLEAN, type : {NoKind, "bundle", "mux", "basic"}, added : Nat,
         connected : BOOLEAN, demux : BOOLEAN, emitting : Seq(Handlers_), emitted : BOOLEAN]
Payloader == [made : BOOLEAN, handler : BOOLEAN, connected_flag : BOOLEAN, times : Nat]
Buffer == [latency : {NoKind, "initial", "ready"}, rtx : BOOLEAN, in_stats : BOOLEAN]
Feed == [to : Places, known : SUBSET RtpKind, paired : BOOLEAN, jb : Buffer, depay : Places]
ToTell == ({"state"} \X BOOLEAN) \cup ({"stop"} \X RtpSsrcs)

(* The variables of the endpoint have their types. *)
RtpTypeOK ==
  /\ line \in RtpSetups
  /\ rtp_pc \in Steps \X DOMAIN RtpKinds
  /\ conns \in [ConnNames -> Conn]
  /\ handlers_of \in [ConnNames -> Seq(Handlers_)]
  /\ conn_state \in BOOLEAN /\ conn_told \in BOOLEAN
  /\ conn_pending \in [Threads_ -> Seq(BOOLEAN)]
  /\ sessions \subseteq RtpKind /\ negotiated \subseteq RtpKind
  /\ remote_ssrc \in [RtpKind -> SsrcOrNone]
  /\ sends \subseteq RtpKind \X ConnNames /\ rr_pairs \subseteq RtpKind \X RtpSsrcs
  /\ fed \in [RtpSsrcs -> Feed] /\ rtcp_fed \in [RtpKind -> Places]
  /\ payloaders \in [RtpKind -> Payloader]
  /\ remb \in [rl : BOOLEAN, event_manager : BOOLEAN]
  /\ ssrc \in [RtpKind -> SsrcOrNone] /\ actived \in [RtpKind -> BOOLEAN]
  /\ media_state \in BOOLEAN /\ media_told \in BOOLEAN
  /\ media_pending \in [RtpKind -> Seq(ToTell)]
  /\ starts \in [RtpKind -> [at_local : Signals, at_remote : Signals]]
  /\ rtcp_left \in 0 .. MaxRtcp

(* A payloader is connected to the element's sink pad once, and is when its connection is
   connected and both threads are through, whichever of them came first
   (connect_payloader_async against the "connected" signal). *)
PayloadersConnected ==
  \A k \in RtpKind : LET n == NameOf(k) IN
    /\ payloaders[k].times <= 1
    /\ payloaders[k].times = 1 => conns[n].connected
    /\ (rtp_pc[1] = "done" /\ payloaders[k].made /\ conns[n].emitted /\ conns[n].emitting = <<>>)
         => payloaders[k].times = 1

(* The server object reports CONNECTED only when all connections of the session are, and
   does once they are and nobody has anything left to tell (update_conn_state). *)
ConnectionTold ==
  /\ conn_told => \A n \in ConnNames : conns[n].made => conns[n].connected
  /\ (/\ rtp_pc[1] \notin {"configure", "subscribe", "update"}
      /\ \A t \in Threads_ : conn_pending[t] = <<>>
      /\ \A n \in ConnNames : conns[n].made =>
           conns[n].connected /\ conns[n].emitted /\ conns[n].emitting = <<>>)
       => conn_told

(* A stream of a bundle feeds the RTP session of its kind, or nothing; it feeds nothing only
   when its line was not negotiated by then, or its SSRC was neither announced nor met in a
   report (rtp_ssrc_demux_new_ssrc_pad, start_transport_send).  Its depayloader is one for
   its kind unless the lines share its number (get_caps_for_pt). *)
StreamsFed ==
  \A s \in RtpSsrcs : LET k == SsrcKind[s] IN
    /\ fed[s].to # NoKind =>
         /\ fed[s].to \in {k, "fakesink"}
         /\ fed[s].to = "fakesink" =>
              k \notin fed[s].known \/ (line[k].announced # s /\ ~fed[s].paired)
    /\ (fed[s].depay # NoKind /\ line["audio"].pts \cap line["video"].pts = {}) =>
         fed[s].depay = IF SsrcPt[s] \in line[k].pts THEN k ELSE "fakesink"

(* "CONNECTED: There is an RTCP flow": when nothing is left to tell, the state of the server
   object is that of the sessions (set_media_state, updateMediaState). *)
MediaTold ==
  (\A k \in RtpKind : media_pending[k] = <<>>) => media_told = (\E k \in RtpKind : actived[k])
=============================================================================
