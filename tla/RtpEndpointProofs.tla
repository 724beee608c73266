-------------------------- MODULE RtpEndpointProofs --------------------------
(***************************************************************************)
(* Proofs about RtpEndpoint, for every set of negotiated sessions and of   *)
(* streams of the peer and any number of RTCP events: the variables have   *)
(* their types, each payloader is connected exactly once, the state told   *)
(* of the connections is right, and streams feed the session of their      *)
(* kind.  Each of the last three needs what the threads know between their *)
(* steps; those are the parts of ConnInv and StreamInv.  Then the estimate *)
(* of Remb stays below what was received, for any arrivals and parameters  *)
(* (EstimateInv).  At the end, the packets of RtpSync get the times their  *)
(* sender meant, for any clock and any order of packets and reports within *)
(* a quarter of a cycle of the stamps (SyncInv).                           *)
(***************************************************************************)
EXTENDS RtpEndpoint, Remb, RtpSync, SequenceTheorems, NaturalsInduction, WellFoundedInduction,
        TLAPS

Listed(x, q) == \E j \in 1 .. Len(q) : q[j] = x

(* Until check_conn_status nobody listens to the connections and nothing was told. *)
EarlyInv ==
  rtp_pc[1] \in {"configure", "subscribe"} =>
    /\ ~conn_state /\ ~conn_told
    /\ \A t \in Threads_ : conn_pending[t] = <<>>
    /\ \A n \in ConnNames : handlers_of[n] = <<>> /\ conns[n].emitting = <<>>

(* A connection emits when it is connected. *)
EmitInv ==
  \A n \in ConnNames :
    /\ conns[n].emitted => conns[n].connected
    /\ conns[n].emitting # <<>> => conns[n].emitted

(* Somebody will still work out the state of the connections. *)
StillToCome ==
  \E n \in ConnNames : conns[n].made /\ (~conns[n].emitted \/ Listed(SessionHandler, conns[n].emitting))

(* What is told is CONNECTED and true; as long as the session is not connected, a connection
   will still call its handler. *)
ToldInv ==
  /\ \A t \in Threads_ : \A j \in 1 .. Len(conn_pending[t]) : conn_pending[t][j]
  /\ conn_state => AllConnected
  /\ conn_told => conn_state
  /\ \A t \in Threads_ : conn_pending[t] # <<>> => conn_state
  /\ conn_state => (conn_told \/ \E t \in Threads_ : conn_pending[t] # <<>>)
  /\ rtp_pc[1] \notin {"configure", "subscribe"} =>
       \A n \in ConnNames : conns[n].made => Listed(SessionHandler, handlers_of[n])
  /\ (rtp_pc[1] \notin {"configure", "subscribe", "update"} /\ ~conn_state) => StillToCome

(* The negotiating thread is at a step for kind k. *)
AtKind(step, k) == rtp_pc[1] = step /\ RtpKinds[rtp_pc[2]] = k

(* The handler of the payloader of k is connected and was not called by the emission. *)
Waits(k) ==
  /\ payloaders[k].handler
  /\ Listed(k, handlers_of[NameOf(k)])
  /\ \/ ~conns[NameOf(k)].emitted
     \/ Listed(k, conns[NameOf(k)].emitting)
     \/ AtKind("read", k)

(* A payloader that was made is connected, about to be by the negotiating thread, or waits for
   a signal that comes or for the second look at the connection. *)
PayInv ==
  \A k \in RtpKind :
    /\ payloaders[k].times = IF payloaders[k].connected_flag THEN 1 ELSE 0
    /\ payloaders[k].connected_flag => conns[NameOf(k)].connected
    /\ AtKind("connect", k) => conns[NameOf(k)].connected
    /\ \A n \in ConnNames :
         (Listed(k, handlers_of[n]) \/ Listed(k, conns[n].emitting)) => n = NameOf(k)
    /\ payloaders[k].made => payloaders[k].connected_flag \/ AtKind("connect", k) \/ Waits(k)

(* Reports are about sessions there are and pair streams with those of their kind; the SSRC of
   a line is the announced one, and is known once the line is negotiated. *)
MetInv ==
  /\ \A k \in RtpKind, s \in RtpSsrcs :
       <<k, s>> \in rr_pairs => k = SsrcKind[s] /\ k \in sessions
  /\ \A k \in RtpKind :
       /\ remote_ssrc[k] \in {NoSsrc, line[k].announced}
       /\ k \in negotiated => remote_ssrc[k] = line[k].announced

(* The two inductive invariants: of the connections and of the streams. *)
ConnInv == RtpTypeOK /\ EarlyInv /\ EmitInv /\ ToldInv /\ PayInv
StreamInv == RtpTypeOK /\ MetInv /\ StreamsFed

-----------------------------------------------------------------------------
(* The kinds, the lines and the connections there are. *)
LEMMA KindsAre ==
  /\ RtpKind = {"audio", "video"}
  /\ DOMAIN RtpKinds = {1, 2}
  /\ RtpKinds[1] = "audio" /\ RtpKinds[2] = "video"
  /\ ConnNames = {"bundle", "audio", "video"}
  /\ Threads_ = {"negotiator", "bundle", "audio", "video"}
<1>1. DOMAIN RtpKinds = {1, 2} /\ RtpKinds[1] = "audio" /\ RtpKinds[2] = "video"
  BY DEF RtpKinds
<1>2. RtpKind = {"audio", "video"}
  BY <1>1 DEF RtpKind, Range
<1> QED
  BY <1>1, <1>2 DEF ConnNames, Threads_, Negotiator

(* The lines of a session, and the connection of each. *)
LEMMA LinesAre ==
  ASSUME RtpTypeOK, NEW k \in RtpKind
  PROVE  line[k] \in Lines /\ NameOf(k) \in ConnNames
<1>1. line \in [RtpKind -> Lines]
  BY RtpAssumption DEF RtpTypeOK
<1> QED
  BY <1>1, KindsAre DEF NameOf

(* What a list has after an element is added or its head is taken. *)
LEMMA ListedAppend ==
  ASSUME NEW S, NEW q \in Seq(S), NEW x \in S, NEW y
  PROVE  Listed(y, Append(q, x)) <=> (Listed(y, q) \/ y = x)
<1>1. Len(q) \in Nat /\ Len(Append(q, x)) = Len(q) + 1
  OBVIOUS
<1>2. Append(q, x)[Len(q) + 1] = x
  OBVIOUS
<1>3. \A j \in 1 .. Len(q) : Append(q, x)[j] = q[j]
  OBVIOUS
<1>4. \A j \in 1 .. Len(q) + 1 : j \in 1 .. Len(q) \/ j = Len(q) + 1
  BY <1>1
<1>5. \A j \in 1 .. Len(q) : j \in 1 .. Len(q) + 1
  BY <1>1
<1>6. Len(q) + 1 \in 1 .. Len(q) + 1
  BY <1>1
<1> QED
  BY <1>1, <1>2, <1>3, <1>4, <1>5, <1>6 DEF Listed

(* What is listed in a sequence is its head or listed in the rest. *)
LEMMA ListedTail ==
  ASSUME NEW S, NEW q \in Seq(S), q # <<>>, NEW y
  PROVE  /\ Listed(y, Tail(q)) => Listed(y, q)
         /\ Listed(y, q) => (y = Head(q) \/ Listed(y, Tail(q)))
         /\ Listed(Head(q), q)
<1>1. Len(q) \in Nat \ {0} /\ Len(Tail(q)) = Len(q) - 1 /\ Head(q) = q[1]
  OBVIOUS
<1>2. \A j \in 1 .. Len(Tail(q)) : Tail(q)[j] = q[j + 1] /\ j + 1 \in 1 .. Len(q)
  BY <1>1
<1>3. \A j \in 1 .. Len(q) : j = 1 \/ (j - 1 \in 1 .. Len(Tail(q)) /\ Tail(q)[j - 1] = q[j])
  <2> TAKE j \in 1 .. Len(q)
  <2> SUFFICES ASSUME j # 1
               PROVE  j - 1 \in 1 .. Len(Tail(q)) /\ Tail(q)[j - 1] = q[j]
    OBVIOUS
  <2>1. j - 1 \in 1 .. Len(Tail(q)) /\ (j - 1) + 1 = j
    BY <1>1
  <2> QED
    BY <2>1, <1>2
<1>4. 1 \in 1 .. Len(q)
  BY <1>1
<1> QED
  BY <1>1, <1>2, <1>3, <1>4 DEF Listed

(* Nothing is listed in the empty sequence. *)
LEMMA ListedNone ==
  ASSUME NEW y
  PROVE  ~Listed(y, <<>>)
BY DEF Listed

-----------------------------------------------------------------------------
(* A loop over the lines stays among them. *)
LEMMA NextLineType ==
  ASSUME NEW i \in DOMAIN RtpKinds, NEW step \in Steps, NEW then \in Steps, NextLine(step, i, then)
  PROVE  rtp_pc' \in Steps \X DOMAIN RtpKinds
<1>1. Len(RtpKinds) = 2
  BY DEF RtpKinds
<1> QED
  BY <1>1, KindsAre DEF NextLine

(* A field of a connection changes and the others stay. *)
LEMMA ConnField ==
  ASSUME NEW c \in Conn
  PROVE  /\ [c EXCEPT !.made = TRUE] \in Conn
         /\ \A v \in {NoKind, "bundle", "mux", "basic"} : [c EXCEPT !.type = v] \in Conn
         /\ \A v \in Nat : [c EXCEPT !.added = v] \in Conn
         /\ [c EXCEPT !.connected = TRUE] \in Conn
         /\ [c EXCEPT !.demux = TRUE] \in Conn
         /\ \A q \in Seq(Handlers_) : [c EXCEPT !.emitting = q] \in Conn
         /\ [c EXCEPT !.emitted = TRUE] \in Conn
BY DEF Conn

(* create_connection leaves every connection a connection. *)
LEMMA CreateType ==
  ASSUME RtpTypeOK, NEW k \in RtpKind, NEW ok \in BOOLEAN, create_connection(k, ok)
  PROVE  conns' \in [ConnNames -> Conn]
<1>1. CASE conns[NameOf(k)].made \/ ~ok
  BY <1>1 DEF create_connection, RtpTypeOK
<1>2. CASE ~(conns[NameOf(k)].made \/ ~ok)
  <2> DEFINE n == NameOf(k)
             c == [conns EXCEPT ![n] = [@ EXCEPT !.made = TRUE]]
             v == ConnType(k)
  <2>1. n \in ConnNames
    BY LinesAre
  <2>2. v \in {NoKind, "bundle", "mux", "basic"}
    <3>1. line[k] \in Lines
      BY LinesAre
    <3> QED
      BY <3>1 DEF ConnType, Lines
  <2>3. c \in [ConnNames -> Conn]
    <3>1. conns[n] \in Conn
      BY <2>1 DEF RtpTypeOK
    <3>2. [conns[n] EXCEPT !.made = TRUE] \in Conn
      BY <3>1, ConnField
    <3> QED
      BY <3>2, <2>1 DEF RtpTypeOK
  <2>4. conns' = [c EXCEPT ![n] = [@ EXCEPT !.type = v]]
    BY <1>2 DEF create_connection
  <2> HIDE DEF c, v, n
  <2>5. [c[n] EXCEPT !.type = v] \in Conn
    BY <2>1, <2>2, <2>3, ConnField
  <2> QED
    BY <2>1, <2>3, <2>4, <2>5
<1> QED
  BY <1>1, <1>2

(* The variables have their types after a step that configures or subscribes. *)
LEMMA ConfigureType ==
  ASSUME RtpTypeOK, NEW i \in DOMAIN RtpKinds, NEW ok \in BOOLEAN, ConfigureMedia(i, ok)
  PROVE  RtpTypeOK'
<1> DEFINE k == RtpKinds[i]
<1>1. k \in RtpKind
  BY KindsAre
<1>2. conns' \in [ConnNames -> Conn]
  BY <1>1, CreateType DEF ConfigureMedia, Kind_
<1>3. rtp_pc' \in Steps \X DOMAIN RtpKinds
  <2>1. NextLine("configure", i, "subscribe")
    BY DEF ConfigureMedia
  <2> QED
    BY <2>1, NextLineType DEF Steps
<1>4. sessions' \subseteq RtpKind
  BY <1>1 DEF ConfigureMedia, Kind_, RtpTypeOK
<1> QED
  BY <1>2, <1>3, <1>4 DEF ConfigureMedia, RtpTypeOK, demuxVars, mediaStateVars

(* check_conn_status, which subscribes the session to its connections, keeps the types. *)
LEMMA SubscribeType ==
  ASSUME RtpTypeOK, Subscribe
  PROVE  RtpTypeOK'
<1>1. \A n \in ConnNames : Append(handlers_of[n], SessionHandler) \in Seq(Handlers_)
  BY DEF RtpTypeOK, Handlers_
<1>2. handlers_of' \in [ConnNames -> Seq(Handlers_)]
  BY <1>1 DEF Subscribe, RtpTypeOK
<1>3. rtp_pc' \in Steps \X DOMAIN RtpKinds
  BY KindsAre DEF Subscribe, Steps
<1> QED
  BY <1>2, <1>3 DEF Subscribe, RtpTypeOK, startVars, demuxVars, mediaStateVars

(* update_conn_state keeps the types of what it changes. *)
LEMMA UpdateType ==
  ASSUME RtpTypeOK, NEW t \in Threads_, update_conn_state(t)
  PROVE  conn_state' \in BOOLEAN /\ conn_pending' \in [Threads_ -> Seq(BOOLEAN)]
<1>1. AllConnected \in BOOLEAN
  BY DEF AllConnected
<1>2. Append(conn_pending[t], AllConnected) \in Seq(BOOLEAN)
  BY <1>1 DEF RtpTypeOK
<1> QED
  BY <1>1, <1>2 DEF update_conn_state, RtpTypeOK

(* update_conn_state in the negotiating thread keeps the types. *)
LEMMA UpdateConnType ==
  ASSUME RtpTypeOK, UpdateConnState
  PROVE  RtpTypeOK'
<1>1. conn_state' \in BOOLEAN /\ conn_pending' \in [Threads_ -> Seq(BOOLEAN)]
  BY UpdateType, KindsAre DEF UpdateConnState, Negotiator
<1>2. rtp_pc' \in Steps \X DOMAIN RtpKinds
  BY KindsAre DEF UpdateConnState, Steps
<1> QED
  BY <1>1, <1>2 DEF UpdateConnState, RtpTypeOK, startVars, demuxVars, mediaStateVars

(* The variables have their types after the steps of a connection's thread. *)
LEMMA TellConnType ==
  ASSUME RtpTypeOK, NEW t \in Threads_, TellConnState(t)
  PROVE  RtpTypeOK'
<1>1. conn_pending[t] \in Seq(BOOLEAN) /\ conn_pending[t] # <<>>
  BY DEF RtpTypeOK, TellConnState
<1>2. Head(conn_pending[t]) \in BOOLEAN /\ Tail(conn_pending[t]) \in Seq(BOOLEAN)
  BY <1>1, HeadTailProperties, Zenon
<1>3. conn_told' \in BOOLEAN /\ conn_pending' \in [Threads_ -> Seq(BOOLEAN)]
  BY <1>2 DEF RtpTypeOK, TellConnState
<1> QED
  BY <1>3 DEF TellConnState, RtpTypeOK, startVars, demuxVars, mediaStateVars

(* A connection that comes up keeps the types. *)
LEMMA ConnectedType ==
  ASSUME RtpTypeOK, NEW n \in ConnNames, Connected(n)
  PROVE  RtpTypeOK'
<1>1. [conns[n] EXCEPT !.connected = TRUE] \in Conn
  BY ConnField DEF RtpTypeOK
<1>2. conns' \in [ConnNames -> Conn]
  BY <1>1 DEF Connected, RtpTypeOK
<1> QED
  BY <1>2 DEF Connected, RtpTypeOK, startVars, demuxVars, mediaStateVars

(* The emission of the signal, which takes the handlers of that moment, keeps the types. *)
LEMMA EmitType ==
  ASSUME RtpTypeOK, NEW n \in ConnNames, EmitConnected(n)
  PROVE  RtpTypeOK'
<1> DEFINE c == [conns EXCEPT ![n] = [@ EXCEPT !.emitted = TRUE]]
<1>1. [conns[n] EXCEPT !.emitted = TRUE] \in Conn
  BY ConnField DEF RtpTypeOK
<1>2. c \in [ConnNames -> Conn]
  BY <1>1 DEF RtpTypeOK
<1>3. conns' = [c EXCEPT ![n] = [@ EXCEPT !.emitting = handlers_of[n]]]
  BY DEF EmitConnected
<1> HIDE DEF c
<1>4. [c[n] EXCEPT !.emitting = handlers_of[n]] \in Conn
  BY <1>2, ConnField DEF RtpTypeOK
<1>5. conns' \in [ConnNames -> Conn]
  BY <1>2, <1>3, <1>4
<1> QED
  BY <1>5 DEF EmitConnected, RtpTypeOK, startVars, demuxVars, mediaStateVars

(* The emission goes on to its next handler. *)
LEMMA EmissionType ==
  ASSUME RtpTypeOK, NEW n \in ConnNames, conns[n].emitting # <<>>,
         conns' = [conns EXCEPT ![n].emitting = Tail(@)]
  PROVE  conns' \in [ConnNames -> Conn]
<1>1. conns[n] \in Conn /\ conns[n].emitting \in Seq(Handlers_)
  BY DEF RtpTypeOK, Conn
<1>2. Tail(conns[n].emitting) \in Seq(Handlers_)
  BY <1>1
<1>3. [conns[n] EXCEPT !.emitting = Tail(conns[n].emitting)] \in Conn
  BY <1>1, <1>2, ConnField
<1> QED
  BY <1>1, <1>3 DEF RtpTypeOK

(* The session's handler of the signal keeps the types. *)
LEMMA ConnectedSessionType ==
  ASSUME RtpTypeOK, NEW n \in ConnNames, ConnectedSession(n)
  PROVE  RtpTypeOK'
<1>1. conns' \in [ConnNames -> Conn]
  BY EmissionType DEF ConnectedSession
<1>2. n \in Threads_
  BY KindsAre
<1>3. conn_state' \in BOOLEAN /\ conn_pending' \in [Threads_ -> Seq(BOOLEAN)]
  BY <1>2, UpdateType DEF ConnectedSession
<1> QED
  BY <1>1, <1>3 DEF ConnectedSession, RtpTypeOK, startVars, demuxVars, mediaStateVars

(* The fields of a payloader. *)
LEMMA PayloaderField ==
  ASSUME NEW p \in Payloader
  PROVE  /\ [p EXCEPT !.made = TRUE] \in Payloader
         /\ \A b \in BOOLEAN : [p EXCEPT !.handler = b] \in Payloader
         /\ do_connect_payloader(p) \in Payloader
         /\ do_connect_payloader(p).made = p.made /\ do_connect_payloader(p).handler = p.handler
         /\ do_connect_payloader(p).connected_flag
<1>1. /\ [p EXCEPT !.made = TRUE] \in Payloader
      /\ \A b \in BOOLEAN : [p EXCEPT !.handler = b] \in Payloader
  BY DEF Payloader
<1>2. CASE p.connected_flag
  BY <1>1, <1>2 DEF do_connect_payloader
<1>3. CASE ~p.connected_flag
  <2> DEFINE f == [p EXCEPT !.connected_flag = TRUE]
  <2>1. f \in Payloader /\ f.connected_flag /\ f.made = p.made /\ f.handler = p.handler
    BY DEF Payloader
  <2>2. f.times = p.times /\ p.times + 1 \in Nat
    BY DEF Payloader
  <2>3. do_connect_payloader(p) = [f EXCEPT !.times = p.times + 1]
    BY <1>3, <2>2 DEF do_connect_payloader
  <2> HIDE DEF f
  <2>4. /\ [f EXCEPT !.times = p.times + 1] \in Payloader
        /\ [f EXCEPT !.times = p.times + 1].made = f.made
        /\ [f EXCEPT !.times = p.times + 1].handler = f.handler
        /\ [f EXCEPT !.times = p.times + 1].connected_flag = f.connected_flag
    BY <2>1, <2>2 DEF Payloader
  <2> QED
    BY <1>1, <2>1, <2>3, <2>4
<1> QED
  BY <1>2, <1>3

(* A payloader's handler of the signal keeps the types. *)
LEMMA ConnectedPayloaderType ==
  ASSUME RtpTypeOK, NEW n \in ConnNames, NEW k \in RtpKind, ConnectedPayloader(n, k)
  PROVE  RtpTypeOK'
<1>1. conns' \in [ConnNames -> Conn]
  BY EmissionType DEF ConnectedPayloader
<1> DEFINE p == payloaders[k]
<1>2. p \in Payloader
  BY DEF RtpTypeOK
<1> DEFINE d == do_connect_payloader(p)
<1>3. d \in Payloader
  BY <1>2, PayloaderField
<1>4. payloaders' = [payloaders EXCEPT ![k] = IF p.handler THEN [d EXCEPT !.handler = FALSE] ELSE p]
  BY DEF ConnectedPayloader
<1> HIDE DEF p, d
<1>5. [d EXCEPT !.handler = FALSE] \in Payloader
  BY <1>3, PayloaderField
<1>6. payloaders' \in [RtpKind -> Payloader]
  BY <1>2, <1>4, <1>5 DEF RtpTypeOK
<1> QED
  BY <1>1, <1>6 DEF ConnectedPayloader, RtpTypeOK, startVars, demuxVars, mediaStateVars

(* The variables have their types after the steps that start the transport. *)
LEMMA ConfigureConnectionType ==
  ASSUME RtpTypeOK, NEW i \in DOMAIN RtpKinds, ConfigureConnection(i)
  PROVE  RtpTypeOK'
<1> DEFINE k == RtpKinds[i]
           n == NameOf(k)
<1>1. k \in RtpKind
  BY KindsAre
<1>2. n \in ConnNames /\ line[k] \in Lines
  BY <1>1, LinesAre
<1>3. conns[n] \in Conn /\ conns[n].added \in Nat
  BY <1>2 DEF RtpTypeOK, Conn
<1>4. remote_ssrc' \in [RtpKind -> SsrcOrNone] /\ negotiated' \subseteq RtpKind
  <2>1. process_remote_ssrc(k)
    BY DEF ConfigureConnection, Kind_
  <2>2. line[k].announced \in SsrcOrNone
    BY <1>2 DEF Lines
  <2> QED
    BY <2>1, <2>2, <1>1 DEF process_remote_ssrc, RtpTypeOK
<1>5. rtp_pc' \in Steps \X DOMAIN RtpKinds
  <2>1. NextLine("media", i, "remb")
    BY DEF ConfigureConnection
  <2> QED
    BY <2>1, NextLineType DEF Steps
<1>6. conns' \in [ConnNames -> Conn] /\ sends' \subseteq RtpKind \X ConnNames
  <2>1. CASE ~conns[n].made
    BY <2>1 DEF ConfigureConnection, Kind_, RtpTypeOK
  <2>2. CASE conns[n].made
    <3>1. add_gst_connection_elements(k)
      BY <2>2 DEF ConfigureConnection, Kind_
    <3>2. sends' = sends \cup {<<k, n>>}
      BY <3>1 DEF add_gst_connection_elements
    <3>3. sends' \subseteq RtpKind \X ConnNames
      BY <3>2, <1>1, <1>2 DEF RtpTypeOK
    <3>4. CASE conns[n].type = "bundle"
      <4> DEFINE v == IF conns[n].demux THEN conns[n].added ELSE conns[n].added + 1
                 c == [conns EXCEPT ![n] = [@ EXCEPT !.added = v]]
      <4> v \in Nat
        BY <1>3
      <4> HIDE DEF v
      <4>1. [conns[n] EXCEPT !.added = v] \in Conn
        BY <1>3, ConnField
      <4>2. c \in [ConnNames -> Conn]
        BY <4>1 DEF RtpTypeOK
      <4>3. conns' = [c EXCEPT ![n] = [@ EXCEPT !.demux = TRUE]]
        BY <3>1, <3>4 DEF add_gst_connection_elements, v
      <4> HIDE DEF c, n
      <4>4. [c[n] EXCEPT !.demux = TRUE] \in Conn
        BY <1>2, <4>2, ConnField
      <4> QED
        BY <3>3, <4>2, <4>3, <4>4
    <3>5. CASE conns[n].type # "bundle"
      <4> conns[n].added + 1 \in Nat
        BY <1>3
      <4>1. [conns[n] EXCEPT !.added = conns[n].added + 1] \in Conn
        BY <1>3, ConnField
      <4>2. conns' = [conns EXCEPT ![n] = [conns[n] EXCEPT !.added = conns[n].added + 1]]
        BY <3>1, <3>5 DEF add_gst_connection_elements
      <4> QED
        BY <3>3, <4>1, <4>2 DEF RtpTypeOK
    <3> QED
      BY <3>4, <3>5
  <2> QED
    BY <2>1, <2>2
<1> QED
  BY <1>4, <1>5, <1>6 DEF ConfigureConnection, RtpTypeOK, demuxVars, mediaStateVars

(* The steps of start_transport_send that skip a line, and the REMB manager, keep the types. *)
LEMMA StartType ==
  ASSUME RtpTypeOK, NEW i \in DOMAIN RtpKinds,
         SkipConnection(i) \/ SkipPayloader(i) \/ CreateRembManager
  PROVE  RtpTypeOK'
<1>1. CASE SkipConnection(i)
  <2>1. rtp_pc' \in Steps \X DOMAIN RtpKinds
    BY <1>1, NextLineType DEF SkipConnection, Steps
  <2> QED
    BY <1>1, <2>1 DEF SkipConnection, RtpTypeOK, connVars, startVars, demuxVars, mediaStateVars
<1>2. CASE SkipPayloader(i)
  <2>1. rtp_pc' \in Steps \X DOMAIN RtpKinds
    BY <1>2, NextLineType DEF SkipPayloader, Steps
  <2> QED
    BY <1>2, <2>1 DEF SkipPayloader, RtpTypeOK, connVars, startVars, demuxVars, mediaStateVars
<1>3. CASE CreateRembManager
  <2>1. rtp_pc' \in Steps \X DOMAIN RtpKinds
    BY <1>3, KindsAre DEF CreateRembManager, Steps
  <2>2. remb' \in [rl : BOOLEAN, event_manager : BOOLEAN]
    BY <1>3 DEF CreateRembManager, RtpTypeOK
  <2> QED
    BY <1>3, <2>1, <2>2 DEF CreateRembManager, RtpTypeOK, connVars, demuxVars, mediaStateVars
<1> QED
  BY <1>1, <1>2, <1>3

(* The variables have their types after the steps that connect a payloader. *)
LEMMA AttachType ==
  ASSUME RtpTypeOK, NEW i \in DOMAIN RtpKinds, AttachPayloader(i)
  PROVE  RtpTypeOK'
<1> DEFINE k == RtpKinds[i]
           n == NameOf(k)
           p == [payloaders EXCEPT ![k] = [@ EXCEPT !.made = TRUE]]
<1>1. k \in RtpKind
  BY KindsAre
<1>2. n \in ConnNames
  BY <1>1, LinesAre
<1>3. p \in [RtpKind -> Payloader]
  <2>1. [payloaders[k] EXCEPT !.made = TRUE] \in Payloader
    BY <1>1, PayloaderField DEF RtpTypeOK
  <2> QED
    BY <2>1 DEF RtpTypeOK
<1>4. payloaders' = [p EXCEPT ![k] = [@ EXCEPT !.handler = TRUE]]
  BY DEF AttachPayloader, Kind_
<1>5. handlers_of' = [handlers_of EXCEPT ![n] = Append(handlers_of[n], k)]
  BY DEF AttachPayloader, Kind_
<1>6. rtp_pc' \in Steps \X DOMAIN RtpKinds
  BY DEF AttachPayloader, Steps
<1> HIDE DEF p, n, k
<1>7. [p[k] EXCEPT !.handler = TRUE] \in Payloader
  BY <1>1, <1>3, PayloaderField
<1>8. payloaders' \in [RtpKind -> Payloader]
  BY <1>3, <1>4, <1>7
<1>9. handlers_of' \in [ConnNames -> Seq(Handlers_)]
  <2>1. Append(handlers_of[n], k) \in Seq(Handlers_)
    BY <1>1, <1>2 DEF RtpTypeOK, Handlers_
  <2> QED
    BY <1>5, <2>1 DEF RtpTypeOK
<1> QED
  BY <1>6, <1>8, <1>9 DEF AttachPayloader, RtpTypeOK, startVars, demuxVars, mediaStateVars

(* connect_payloader_async reads whether the connection is up. *)
LEMMA ReadType ==
  ASSUME RtpTypeOK, NEW i \in DOMAIN RtpKinds, ReadConnected(i)
  PROVE  RtpTypeOK'
<1> DEFINE k == RtpKinds[i]
<1>1. k \in RtpKind
  BY KindsAre
<1>2. [payloaders[k] EXCEPT !.handler = FALSE] \in Payloader
  BY <1>1, PayloaderField DEF RtpTypeOK
<1>3. payloaders' \in [RtpKind -> Payloader]
  BY <1>2 DEF ReadConnected, Kind_, RtpTypeOK
<1>4. rtp_pc' \in Steps \X DOMAIN RtpKinds
  <2>1. "attach" \in Steps /\ "done" \in Steps /\ "connect" \in Steps
    BY DEF Steps
  <2> QED
    BY <2>1, NextLineType DEF ReadConnected
<1> QED
  BY <1>3, <1>4 DEF ReadConnected, RtpTypeOK, connVars, startVars, demuxVars, mediaStateVars

(* connect_payloader_async acts on what it has read. *)
LEMMA ConnectType ==
  ASSUME RtpTypeOK, NEW i \in DOMAIN RtpKinds, ConnectPayloader(i)
  PROVE  RtpTypeOK'
<1> DEFINE k == RtpKinds[i]
<1>1. k \in RtpKind
  BY KindsAre
<1>2. do_connect_payloader(payloaders[k]) \in Payloader
  BY <1>1, PayloaderField DEF RtpTypeOK
<1>3. payloaders' \in [RtpKind -> Payloader]
  BY <1>2 DEF ConnectPayloader, Kind_, RtpTypeOK
<1>4. rtp_pc' \in Steps \X DOMAIN RtpKinds
  BY NextLineType DEF ConnectPayloader, Steps
<1> QED
  BY <1>3, <1>4 DEF ConnectPayloader, RtpTypeOK, connVars, startVars, demuxVars, mediaStateVars

(* The variables have their types after a stream or a report arrived. *)
LEMMA SinkType ==
  ASSUME NEW ks
  PROVE  RtpSink(ks) \in Places
BY KindsAre DEF RtpSink, Places

(* The fields of what a stream feeds. *)
LEMMA FeedField ==
  ASSUME NEW f \in Feed
  PROVE  /\ \A b \in Buffer : [f EXCEPT !.jb = b] \in Feed
         /\ \A p \in Places : [f EXCEPT !.depay = p] \in Feed
BY DEF Feed

(* rtp_ssrc_demux_new_ssrc_pad keeps the types. *)
LEMMA NewPadType ==
  ASSUME RtpTypeOK, NEW s \in RtpSsrcs, NewSsrcPad(s)
  PROVE  RtpTypeOK'
<1> DEFINE n == NameOf(SsrcKind[s])
           to == IF conns[n].type = "bundle" THEN RtpSink(MediaOfSsrc(s)) ELSE SsrcKind[s]
           paired == <<SsrcKind[s], s>> \in rr_pairs
<1>1. to \in Places
  BY SinkType, RtpAssumption DEF Places
<1>2. negotiated \in SUBSET RtpKind /\ paired \in BOOLEAN
  BY DEF RtpTypeOK
<1>3. NoBuffer \in Buffer /\ NoKind \in Places
  BY DEF NoBuffer, Buffer, Places, NoKind
<1>4. fed' = [fed EXCEPT ![s] = [to |-> to, known |-> negotiated, paired |-> paired,
                                   jb |-> NoBuffer, depay |-> NoKind]]
  BY DEF NewSsrcPad
<1> HIDE DEF to, paired
<1>5. [to |-> to, known |-> negotiated, paired |-> paired, jb |-> NoBuffer, depay |-> NoKind] \in Feed
  BY <1>1, <1>2, <1>3 DEF Feed
<1>6. fed' \in [RtpSsrcs -> Feed]
  BY <1>4, <1>5 DEF RtpTypeOK
<1> QED
  BY <1>6 DEF NewSsrcPad, RtpTypeOK, connVars, startVars, mediaStateVars

(* rtcpdemux notes the pair of a receiver report: the types are kept. *)
LEMMA ReportType ==
  ASSUME RtpTypeOK, NEW s \in RtpSsrcs, ReceiverReport(s)
  PROVE  RtpTypeOK'
<1>1. SsrcKind[s] \in RtpKind
  BY RtpAssumption
<1>2. rr_pairs' \subseteq RtpKind \X RtpSsrcs
  BY <1>1 DEF ReceiverReport, RtpTypeOK
<1>3. rtcp_fed' \in [RtpKind -> Places]
  BY <1>1, SinkType DEF ReceiverReport, RtpTypeOK
<1> QED
  BY <1>2, <1>3 DEF ReceiverReport, RtpTypeOK, connVars, startVars, mediaStateVars

(* rtpbin starts a jitter buffer: the types are kept. *)
LEMMA StreamType ==
  ASSUME RtpTypeOK, NEW s \in RtpSsrcs, StreamStarts(s)
  PROVE  RtpTypeOK'
<1> DEFINE k == fed[s].to
<1>1. k \in RtpKind
  BY DEF StreamStarts
<1>2. new_jitterbuffer(k) \in Buffer
  <2>1. line["video"].nack \in BOOLEAN
    BY LinesAre, KindsAre DEF Lines
  <2> QED
    BY <2>1 DEF new_jitterbuffer, is_video_rtcp_nack, Buffer
<1>3. [fed[s] EXCEPT !.jb = new_jitterbuffer(k)] \in Feed
  BY <1>2, FeedField DEF RtpTypeOK
<1>4. fed' \in [RtpSsrcs -> Feed]
  BY <1>3 DEF StreamStarts, RtpTypeOK
<1>5. ssrc' \in [RtpKind -> SsrcOrNone]
  BY <1>1 DEF StreamStarts, on_new_ssrc, RtpTypeOK, SsrcOrNone
<1> QED
  BY <1>4, <1>5 DEF StreamStarts, RtpTypeOK, connVars, startVars

(* pad_added, which links a depayloader, keeps the types. *)
LEMMA PadType ==
  ASSUME RtpTypeOK, NEW s \in RtpSsrcs, PadAdded(s)
  PROVE  RtpTypeOK'
<1> DEFINE k == fed[s].to
           b == set_latency(fed[s].jb)
           d == depayloader_for_caps(CapsForPt(SsrcPt[s]))
           f == [fed EXCEPT ![s] = [@ EXCEPT !.jb = b]]
<1>1. fed[s] \in Feed /\ fed[s].jb \in Buffer
  BY DEF RtpTypeOK, Feed
<1>2. b \in Buffer
  BY <1>1 DEF set_latency, Buffer
<1>3. d \in Places
  BY KindsAre DEF depayloader_for_caps, CapsForPt, Places
<1>4. fed' = [f EXCEPT ![s] = [@ EXCEPT !.depay = d]]
  BY DEF PadAdded
<1> HIDE DEF b, d
<1>5. [fed[s] EXCEPT !.jb = b] \in Feed
  BY <1>1, <1>2, FeedField
<1>6. f \in [RtpSsrcs -> Feed]
  BY <1>5 DEF RtpTypeOK
<1> HIDE DEF f
<1>7. [f[s] EXCEPT !.depay = d] \in Feed
  BY <1>3, <1>6, FeedField
<1>8. fed' \in [RtpSsrcs -> Feed]
  BY <1>4, <1>6, <1>7
<1>9. remb' \in [rl : BOOLEAN, event_manager : BOOLEAN]
  BY DEF PadAdded, RtpTypeOK
<1>10. starts' \in [RtpKind -> [at_local : Signals, at_remote : Signals]]
  BY DEF PadAdded, RtpTypeOK, Signals
<1> QED
  BY <1>8, <1>9, <1>10 DEF PadAdded, RtpTypeOK, connVars

(* The variables have their types after an RTCP event. *)
LEMMA MediaStateType ==
  ASSUME RtpTypeOK, NEW k \in RtpKind, NEW active \in BOOLEAN, NEW after \in Seq(ToTell),
         set_media_state(k, active, after)
  PROVE  /\ actived' \in [RtpKind -> BOOLEAN]
         /\ media_state' \in BOOLEAN
         /\ media_pending' \in [RtpKind -> Seq(ToTell)]
<1> DEFINE state == active \/ \E j \in RtpKind \ {k} : actived[j]
           told == IF media_state # state THEN <<<<"state", state>>>> ELSE <<>>
<1>1. /\ actived' = [actived EXCEPT ![k] = active]
      /\ media_state' = state
      /\ media_pending' = [media_pending EXCEPT ![k] = told \o after]
  BY DEF set_media_state
<1>2. state \in BOOLEAN
  OBVIOUS
<1>3. told \in Seq(ToTell)
  <2> HIDE DEF state
  <2>1. <<"state", state>> \in ToTell
    BY <1>2 DEF ToTell
  <2> HIDE DEF told
  <2>2. \A x \in ToTell : <<x>> \in Seq(ToTell)
    OBVIOUS
  <2>3. <<>> \in Seq(ToTell)
    OBVIOUS
  <2>4. <<<<"state", state>>>> \in Seq(ToTell)
    BY <2>1, <2>2, Zenon
  <2> QED
    BY <2>3, <2>4 DEF told
<1> HIDE DEF state, told
<1>4. told \o after \in Seq(ToTell)
  BY <1>3
<1> QED
  BY <1>1, <1>2, <1>4 DEF RtpTypeOK

(* The handlers of what RTCP says of an SSRC keep the types. *)
LEMMA RtcpType ==
  ASSUME RtpTypeOK, NEW k \in RtpKind, NEW s \in RtpSsrcs,
         SsrcActive(k, s) \/ SsrcTimeout(k, s) \/ SsrcBye(k, s) \/ SsrcSdes(k, s)
  PROVE  RtpTypeOK'
<1>1. RtcpReady(k, s)
  BY DEF SsrcActive, SsrcTimeout, SsrcBye, SsrcSdes
<1>2. rtcp_left' \in 0 .. MaxRtcp
  BY <1>1, RtpAssumption DEF RtcpReady, RtpTypeOK
<1>3. <<>> \in Seq(ToTell) /\ <<<<"stop", s>>>> \in Seq(ToTell)
  <2>1. <<"stop", s>> \in ToTell
    BY DEF ToTell
  <2>2. \A x \in ToTell : <<x>> \in Seq(ToTell)
    OBVIOUS
  <2> QED
    BY <2>1, <2>2
<1>4. CASE SsrcActive(k, s) \/ SsrcTimeout(k, s) \/ SsrcBye(k, s)
  <2>1. PICK active \in BOOLEAN, after \in Seq(ToTell) : set_media_state(k, active, after)
    BY <1>3, <1>4 DEF SsrcActive, SsrcTimeout, SsrcBye
  <2>2. /\ actived' \in [RtpKind -> BOOLEAN]
        /\ media_state' \in BOOLEAN
        /\ media_pending' \in [RtpKind -> Seq(ToTell)]
    BY <2>1, MediaStateType
  <2>3. UNCHANGED <<line, rtp_pc, connVars, startVars, demuxVars, payloaders, ssrc, media_told, starts>>
    BY <1>4 DEF SsrcActive, SsrcTimeout, SsrcBye
  <2> QED
    BY <1>2, <2>2, <2>3 DEF RtpTypeOK, connVars, startVars, demuxVars
<1>5. CASE SsrcSdes(k, s)
  <2>1. starts' \in [RtpKind -> [at_local : Signals, at_remote : Signals]]
    BY <1>5 DEF SsrcSdes, RtpTypeOK, Signals
  <2> QED
    BY <1>2, <1>5, <2>1 DEF SsrcSdes, RtpTypeOK, connVars, startVars, demuxVars
<1> QED
  BY <1>4, <1>5

(* The telling of the media state after the unlock keeps the types. *)
LEMMA TellMediaType ==
  ASSUME RtpTypeOK, NEW k \in RtpKind, TellMediaState(k) \/ StopSignal(k)
  PROVE  RtpTypeOK'
<1> DEFINE q == media_pending[k]
<1>1. q \in Seq(ToTell) /\ q # <<>>
  BY DEF RtpTypeOK, TellMediaState, StopSignal
<1>2. media_pending' = [media_pending EXCEPT ![k] = Tail(q)]
  BY DEF TellMediaState, StopSignal
<1> HIDE DEF q
<1>3. Head(q) \in ToTell /\ Tail(q) \in Seq(ToTell)
  BY <1>1, HeadTailProperties, Zenon
<1>4. media_pending' \in [RtpKind -> Seq(ToTell)]
  BY <1>2, <1>3 DEF RtpTypeOK
<1>5. CASE TellMediaState(k)
  <2>1. Head(q)[1] = "state" /\ media_told' = Head(q)[2]
    BY <1>5 DEF TellMediaState, q
  <2>2. Head(q) \in {"state"} \X BOOLEAN
    BY <1>3, <2>1 DEF ToTell
  <2>3. Head(q)[2] \in BOOLEAN
    BY <2>2
  <2>4. media_told' \in BOOLEAN
    BY <2>1, <2>3, Zenon
  <2> QED
    BY <1>4, <1>5, <2>4 DEF TellMediaState, RtpTypeOK, connVars, startVars, demuxVars
<1>6. CASE StopSignal(k)
  <2>1. ssrc' \in [RtpKind -> SsrcOrNone]
    BY <1>6 DEF StopSignal, RtpTypeOK, SsrcOrNone
  <2>2. starts' \in [RtpKind -> [at_local : Signals, at_remote : Signals]]
    <3>1. \/ starts' = [starts EXCEPT ![k].at_remote = "stop"]
          \/ starts' = [starts EXCEPT ![k].at_local = "stop"]
      BY <1>6 DEF StopSignal
    <3>2. starts[k] \in [at_local : Signals, at_remote : Signals] /\ "stop" \in Signals
      BY DEF RtpTypeOK, Signals
    <3>3. /\ [starts[k] EXCEPT !.at_remote = "stop"] \in [at_local : Signals, at_remote : Signals]
          /\ [starts[k] EXCEPT !.at_local = "stop"] \in [at_local : Signals, at_remote : Signals]
      BY <3>2
    <3> QED
      BY <3>1, <3>3 DEF RtpTypeOK
  <2> QED
    BY <1>4, <1>6, <2>1, <2>2 DEF StopSignal, RtpTypeOK, connVars, startVars, demuxVars
<1> QED
  BY <1>5, <1>6

(* The types hold at first and after every step. *)
LEMMA TypeInit ==
  RtpInit => RtpTypeOK
<1> SUFFICES ASSUME RtpInit PROVE RtpTypeOK
  OBVIOUS
<1>1. NoConn \in Conn
  BY DEF NoConn, Conn, NoKind
<1>2. conns \in [ConnNames -> Conn] /\ handlers_of \in [ConnNames -> Seq(Handlers_)]
  BY <1>1 DEF RtpInit
<1>3. conn_pending \in [Threads_ -> Seq(BOOLEAN)] /\ media_pending \in [RtpKind -> Seq(ToTell)]
  BY DEF RtpInit
<1>4. rtp_pc \in Steps \X DOMAIN RtpKinds
  BY KindsAre DEF RtpInit, Steps
<1>5. fed \in [RtpSsrcs -> Feed] /\ rtcp_fed \in [RtpKind -> Places]
  BY DEF RtpInit, Feed, Places, NoKind, NoBuffer, Buffer
<1>6. payloaders \in [RtpKind -> Payloader]
  BY DEF RtpInit, Payloader
<1>7. /\ remote_ssrc \in [RtpKind -> SsrcOrNone] /\ ssrc \in [RtpKind -> SsrcOrNone]
      /\ actived \in [RtpKind -> BOOLEAN]
      /\ starts \in [RtpKind -> [at_local : Signals, at_remote : Signals]]
      /\ remb \in [rl : BOOLEAN, event_manager : BOOLEAN]
      /\ rtcp_left \in 0 .. MaxRtcp
  BY RtpAssumption DEF RtpInit, SsrcOrNone, Signals
<1> QED
  BY <1>2, <1>3, <1>4, <1>5, <1>6, <1>7 DEF RtpInit, RtpTypeOK

(* Every step keeps the types. *)
LEMMA TypeStep ==
  RtpTypeOK /\ [RtpNext]_rtpVars => RtpTypeOK'
<1> SUFFICES ASSUME RtpTypeOK, [RtpNext]_rtpVars PROVE RtpTypeOK'
  OBVIOUS
<1>1. CASE Negotiate
  BY <1>1, KindsAre, ConfigureType, ConfigureConnectionType, StartType, AttachType, ReadType, ConnectType,
     SubscribeType, UpdateConnType DEF Negotiate
<1>2. CASE ConnectionNext
  BY <1>2, ConnectedType, EmitType, ConnectedSessionType, ConnectedPayloaderType, TellConnType
     DEF ConnectionNext
<1>3. CASE StreamNext
  BY <1>3, NewPadType, ReportType, StreamType, PadType DEF StreamNext
<1>4. CASE RtcpNext
  BY <1>4, RtcpType, TellMediaType DEF RtcpNext
<1>5. CASE UNCHANGED rtpVars
  BY <1>5 DEF rtpVars, RtpTypeOK
<1> QED
  BY <1>1, <1>2, <1>3, <1>4, <1>5 DEF RtpNext

(* The variables of the endpoint always have their types: no callback of rtpbin, a connection
   or a session leaves a connection, a payloader or what is to be told half made. *)
THEOREM RtpTypeCorrect == RtpSpec => []RtpTypeOK
<1>1. RtpInit => RtpTypeOK
  BY TypeInit
<1>2. RtpTypeOK /\ [RtpNext]_rtpVars => RtpTypeOK'
  BY TypeStep
<1> QED
  BY <1>1, <1>2, PTL DEF RtpSpec

-----------------------------------------------------------------------------
(* Which steps change what is known of the streams of the peer. *)
LEMMA MetFrame ==
  ASSUME [RtpNext]_rtpVars
  PROVE  \/ \E i \in DOMAIN RtpKinds, ok \in BOOLEAN : ConfigureMedia(i, ok)
         \/ \E i \in DOMAIN RtpKinds : ConfigureConnection(i)
         \/ \E s \in RtpSsrcs : ReceiverReport(s)
         \/ UNCHANGED <<line, sessions, remote_ssrc, negotiated, rr_pairs>>
<1>1. CASE Negotiate
  BY <1>1 DEF Negotiate, SkipConnection, SkipPayloader, AttachPayloader, ReadConnected,
     ConnectPayloader, Subscribe, UpdateConnState, CreateRembManager, startVars, demuxVars
<1>2. CASE ConnectionNext
  BY <1>2 DEF ConnectionNext, Connected, EmitConnected, ConnectedSession, ConnectedPayloader,
     TellConnState, startVars, demuxVars
<1>3. CASE StreamNext
  BY <1>3 DEF StreamNext, NewSsrcPad, StreamStarts, PadAdded, startVars
<1>4. CASE RtcpNext
  BY <1>4 DEF RtcpNext, SsrcActive, SsrcTimeout, SsrcBye, SsrcSdes, TellMediaState, StopSignal,
     startVars, demuxVars
<1>5. CASE UNCHANGED rtpVars
  BY <1>5 DEF rtpVars
<1> QED
  BY <1>1, <1>2, <1>3, <1>4, <1>5 DEF RtpNext

(* Reports pair streams with sessions of their kind, and a negotiated line has the SSRC it
   announces, through every step. *)
LEMMA MetStep ==
  RtpTypeOK /\ MetInv /\ [RtpNext]_rtpVars => MetInv'
<1> SUFFICES ASSUME RtpTypeOK, MetInv, [RtpNext]_rtpVars PROVE MetInv'
  OBVIOUS
<1>1. ASSUME NEW i \in DOMAIN RtpKinds, NEW ok \in BOOLEAN, ConfigureMedia(i, ok)
      PROVE  MetInv'
  BY <1>1 DEF ConfigureMedia, MetInv, demuxVars
<1>2. ASSUME NEW i \in DOMAIN RtpKinds, ConfigureConnection(i)
      PROVE  MetInv'
  <2> DEFINE k == RtpKinds[i]
  <2>1. k \in RtpKind
    BY KindsAre
  <2>2. UNCHANGED <<line, sessions, rr_pairs>>
    BY <1>2 DEF ConfigureConnection, demuxVars
  <2>3. /\ remote_ssrc' = [remote_ssrc EXCEPT ![k] = IF line[k].announced = NoSsrc THEN @
                                                     ELSE line[k].announced]
        /\ negotiated' = negotiated \cup {k}
    BY <1>2 DEF ConfigureConnection, process_remote_ssrc, Kind_
  <2>4. ASSUME NEW j \in RtpKind
        PROVE  /\ remote_ssrc'[j] \in {NoSsrc, line[j].announced}
               /\ j \in negotiated' => remote_ssrc'[j] = line[j].announced
    <3> HIDE DEF k
    <3>1. remote_ssrc \in [RtpKind -> SsrcOrNone]
      BY DEF RtpTypeOK
    <3>2. CASE j = k
      BY <2>1, <2>3, <3>1, <3>2 DEF MetInv
    <3>3. CASE j # k
      BY <2>1, <2>3, <3>1, <3>3 DEF MetInv
    <3> QED
      BY <3>2, <3>3
  <2> QED
    BY <2>2, <2>4 DEF MetInv
<1>3. ASSUME NEW s \in RtpSsrcs, ReceiverReport(s)
      PROVE  MetInv'
  BY <1>3 DEF ReceiverReport, MetInv, startVars
<1>4. CASE UNCHANGED <<line, sessions, remote_ssrc, negotiated, rr_pairs>>
  BY <1>4 DEF MetInv
<1> QED
  BY <1>1, <1>2, <1>3, <1>4, MetFrame

(* Where the first packet of a bundled stream is sent (rtp_ssrc_demux_new_ssrc_pad): the only
   media it can be taken for is that of its kind. *)
LEMMA SinkRight ==
  ASSUME RtpTypeOK, MetInv, NEW s \in RtpSsrcs
  PROVE  LET k == SsrcKind[s]
             to == RtpSink(MediaOfSsrc(s))
         IN  /\ to \in {k, "fakesink"}
             /\ to = "fakesink" =>
                  k \notin negotiated \/ (line[k].announced # s /\ <<k, s>> \notin rr_pairs)
<1> DEFINE k == SsrcKind[s]
<1>1. k \in RtpKind /\ line \in RtpSetups /\ s # NoSsrc
  BY RtpAssumption DEF RtpTypeOK
<1>2. MediaOfSsrc(s) \subseteq {k}
  <2> SUFFICES ASSUME NEW j \in MediaOfSsrc(s) PROVE j = k
    OBVIOUS
  <2>1. j \in RtpKind /\ (remote_ssrc[j] = s \/ <<j, s>> \in rr_pairs)
    BY DEF MediaOfSsrc
  <2>2. CASE remote_ssrc[j] = s
    <3>1. line[j].announced = s
      BY <1>1, <2>1, <2>2 DEF MetInv
    <3> QED
      BY <1>1, <2>1, <3>1, RtpAssumption
  <2>3. CASE <<j, s>> \in rr_pairs
    BY <2>1, <2>3 DEF MetInv
  <2> QED
    BY <2>1, <2>2, <2>3
<1>3. k \in negotiated /\ (line[k].announced = s \/ <<k, s>> \in rr_pairs) => k \in MediaOfSsrc(s)
  BY <1>1 DEF MediaOfSsrc, MetInv
<1>4. MediaOfSsrc(s) = {} \/ MediaOfSsrc(s) = {k}
  BY <1>2
<1>5. RtpSink({}) = "fakesink"
  BY DEF RtpSink
<1>6. RtpSink({k}) = IF k \in negotiated THEN k ELSE "fakesink"
  BY <1>1, KindsAre DEF RtpSink
<1> QED
  BY <1>1, <1>3, <1>4, <1>5, <1>6, KindsAre

(* The depayloader a stream gets (get_caps_for_pt): one of its kind when its line has its
   number, none otherwise, unless the lines share numbers. *)
LEMMA DepayRight ==
  ASSUME RtpTypeOK, NEW s \in RtpSsrcs, line["audio"].pts \cap line["video"].pts = {}
  PROVE  depayloader_for_caps(CapsForPt(SsrcPt[s])) =
           IF SsrcPt[s] \in line[SsrcKind[s]].pts THEN SsrcKind[s] ELSE "fakesink"
<1> DEFINE k == SsrcKind[s]
           pt == SsrcPt[s]
<1>1. k \in {"audio", "video"} /\ line \in RtpSetups
  BY RtpAssumption, KindsAre DEF RtpTypeOK
<1>2. \A j \in {"audio", "video"} : pt \in line[j].pts => pt \in line[k].pts
  BY <1>1, RtpAssumption, KindsAre
<1>3. CASE pt \in line[k].pts
  <2>1. CapsForPt(pt) = k
    BY <1>1, <1>3 DEF CapsForPt
  <2> QED
    BY <1>1, <1>3, <2>1 DEF depayloader_for_caps, NoKind
<1>4. CASE pt \notin line[k].pts
  <2>1. CapsForPt(pt) = NoKind
    BY <1>2, <1>4 DEF CapsForPt
  <2> QED
    BY <1>4, <2>1 DEF depayloader_for_caps
<1> QED
  BY <1>3, <1>4

(* Which steps change what a stream feeds. *)
LEMMA FedFrame ==
  ASSUME [RtpNext]_rtpVars
  PROVE  \/ \E s \in RtpSsrcs : NewSsrcPad(s) \/ StreamStarts(s) \/ PadAdded(s)
         \/ UNCHANGED <<line, fed>>
<1>1. CASE Negotiate
  BY <1>1 DEF Negotiate, ConfigureMedia, ConfigureConnection, SkipConnection, SkipPayloader,
     AttachPayloader, ReadConnected, ConnectPayloader, Subscribe, UpdateConnState,
     CreateRembManager, demuxVars
<1>2. CASE ConnectionNext
  BY <1>2 DEF ConnectionNext, Connected, EmitConnected, ConnectedSession, ConnectedPayloader,
     TellConnState, demuxVars
<1>3. CASE StreamNext
  BY <1>3 DEF StreamNext, ReceiverReport
<1>4. CASE RtcpNext
  BY <1>4 DEF RtcpNext, SsrcActive, SsrcTimeout, SsrcBye, SsrcSdes, TellMediaState, StopSignal,
     demuxVars
<1>5. CASE UNCHANGED rtpVars
  BY <1>5 DEF rtpVars
<1> QED
  BY <1>1, <1>2, <1>3, <1>4, <1>5 DEF RtpNext

(* What StreamsFed says of one stream. *)
FedOf(s, f) ==
  LET k == SsrcKind[s]
  IN  /\ f.to # NoKind =>
           /\ f.to \in {k, "fakesink"}
           /\ f.to = "fakesink" => k \notin f.known \/ (line[k].announced # s /\ ~f.paired)
      /\ (f.depay # NoKind /\ line["audio"].pts \cap line["video"].pts = {}) =>
           f.depay = IF SsrcPt[s] \in line[k].pts THEN k ELSE "fakesink"

(* Only the steps of a stream change what it feeds; a line that was negotiated stays as it is. *)
LEMMA FedStep ==
  RtpTypeOK /\ MetInv /\ StreamsFed /\ [RtpNext]_rtpVars => StreamsFed'
<1> SUFFICES ASSUME RtpTypeOK, MetInv, StreamsFed, [RtpNext]_rtpVars PROVE StreamsFed'
  OBVIOUS
<1>1. ASSUME NEW s \in RtpSsrcs, NewSsrcPad(s) \/ StreamStarts(s) \/ PadAdded(s)
      PROVE  StreamsFed'
  <2>1. fed \in [RtpSsrcs -> Feed] /\ fed[s] \in Feed
    BY DEF RtpTypeOK
  <2>2. PICK f : /\ line' = line /\ fed' = [fed EXCEPT ![s] = f]
                 /\ FedOf(s, f)
    <3>1. CASE NewSsrcPad(s)
      <4> DEFINE k == SsrcKind[s]
                 to == IF conns[NameOf(k)].type = "bundle" THEN RtpSink(MediaOfSsrc(s)) ELSE k
                 f == [to |-> to, known |-> negotiated, paired |-> <<k, s>> \in rr_pairs,
                       jb |-> NoBuffer, depay |-> NoKind]
      <4>1. line' = line /\ fed' = [fed EXCEPT ![s] = f]
        BY <3>1 DEF NewSsrcPad
      <4>2. /\ to \in {k, "fakesink"}
            /\ to = "fakesink" =>
                 k \notin negotiated \/ (line[k].announced # s /\ <<k, s>> \notin rr_pairs)
        <5>1. k # "fakesink"
          BY RtpAssumption, KindsAre
        <5> QED
          BY <5>1, SinkRight
      <4> HIDE DEF to, k
      <4>3. FedOf(s, f)
        BY <4>2 DEF FedOf, k
      <4> HIDE DEF f
      <4> QED
        BY <4>1, <4>3
    <3>2. CASE StreamStarts(s)
      <4> DEFINE f == [fed[s] EXCEPT !.jb = new_jitterbuffer(fed[s].to)]
      <4>1. line' = line /\ fed' = [fed EXCEPT ![s] = f]
        BY <3>2 DEF StreamStarts
      <4>2. f.to = fed[s].to /\ f.known = fed[s].known /\ f.paired = fed[s].paired /\ f.depay = fed[s].depay
        BY <2>1 DEF Feed
      <4>3. FedOf(s, fed[s])
        BY DEF StreamsFed, FedOf
      <4> HIDE DEF f
      <4>4. FedOf(s, f)
        BY <4>2, <4>3 DEF FedOf
      <4> QED
        BY <4>1, <4>4
    <3>3. CASE PadAdded(s)
      <4> DEFINE d == depayloader_for_caps(CapsForPt(SsrcPt[s]))
                 b == set_latency(fed[s].jb)
                 e == [fed[s] EXCEPT !.jb = b]
                 f == [e EXCEPT !.depay = d]
      <4>1. line' = line /\ fed' = [fed EXCEPT ![s] = f]
        BY <3>3 DEF PadAdded
      <4>2. (line["audio"].pts \cap line["video"].pts = {}) =>
              d = IF SsrcPt[s] \in line[SsrcKind[s]].pts THEN SsrcKind[s] ELSE "fakesink"
        BY DepayRight
      <4> HIDE DEF d, b
      <4>3. f.to = fed[s].to /\ f.known = fed[s].known /\ f.paired = fed[s].paired /\ f.depay = d
        BY <2>1 DEF Feed
      <4>4. FedOf(s, fed[s])
        BY DEF StreamsFed, FedOf
      <4> HIDE DEF f
      <4>5. FedOf(s, f)
        BY <4>2, <4>3, <4>4 DEF FedOf
      <4> QED
        BY <4>1, <4>5
    <3> QED
      BY <1>1, <3>1, <3>2, <3>3
  <2>3. ASSUME NEW r \in RtpSsrcs
        PROVE  FedOf(r, fed'[r])
    <3>1. CASE r = s
      BY <2>1, <2>2, <3>1
    <3>2. CASE r # s
      <4>1. fed'[r] = fed[r]
        BY <2>1, <2>2, <3>2
      <4>2. FedOf(r, fed[r])
        BY DEF StreamsFed, FedOf
      <4> QED
        BY <4>1, <4>2
    <3> QED
      BY <3>1, <3>2
  <2> QED
    BY <2>2, <2>3 DEF StreamsFed, FedOf
<1>2. CASE UNCHANGED <<line, fed>>
  BY <1>2 DEF StreamsFed
<1> QED
  BY <1>1, <1>2, FedFrame

(* Every stream of the peer feeds the RTP session of its kind or nothing, and nothing only if
   its line was not negotiated by then or its SSRC was unknown; its depayloader is one for its
   kind unless the lines share its number (rtp_ssrc_demux_new_ssrc_pad, request_rtp_sink,
   get_caps_for_pt). *)
THEOREM StreamsAlwaysFed == RtpSpec => []StreamsFed
<1>1. RtpInit => StreamInv
  <2>1. RtpInit => MetInv
    BY DEF RtpInit, MetInv
  <2>2. RtpInit => StreamsFed
    BY DEF RtpInit, StreamsFed
  <2> QED
    BY <2>1, <2>2, TypeInit DEF StreamInv
<1>2. StreamInv /\ [RtpNext]_rtpVars => StreamInv'
  BY TypeStep, MetStep, FedStep DEF StreamInv
<1>3. StreamInv => StreamsFed
  BY DEF StreamInv
<1> QED
  BY <1>1, <1>2, <1>3, PTL DEF RtpSpec

-----------------------------------------------------------------------------
Early(pc) == pc[1] \in {"configure", "subscribe"}
Started(pc) == pc[1] \notin {"configure", "subscribe", "update"}

(* A loop over the lines is at the same step or at the one after the loop. *)
LEMMA NextLineStep ==
  ASSUME NEW i, NEW step, NEW then, NextLine(step, i, then)
  PROVE  rtp_pc'[1] \in {step, then}
BY DEF NextLine

(* The state told of the connections stays right while nobody works it out: connections may
   only become connected, and the session's handlers stay where they are. *)
LEMMA ToldKeeps ==
  ASSUME RtpTypeOK, RtpTypeOK', ToldInv,
         UNCHANGED <<conn_state, conn_pending, conn_told>>,
         (Started(rtp_pc) /\ Started(rtp_pc')) \/ rtp_pc' = rtp_pc,
         \A n \in ConnNames :
           /\ conns'[n].made <=> conns[n].made
           /\ conns[n].connected => conns'[n].connected
           /\ conns'[n].emitted <=> conns[n].emitted
           /\ Listed(SessionHandler, conns[n].emitting) => Listed(SessionHandler, conns'[n].emitting)
           /\ Listed(SessionHandler, handlers_of[n]) => Listed(SessionHandler, handlers_of'[n])
  PROVE  ToldInv'
<1>1. AllConnected => AllConnected'
  BY DEF AllConnected
<1>2. StillToCome => StillToCome'
  BY DEF StillToCome
<1>3. Started(rtp_pc') => Started(rtp_pc)
  OBVIOUS
<1>4. ~Early(rtp_pc') => ~Early(rtp_pc)
  BY DEF Started, Early
<1>5. ~Early(rtp_pc') => \A n \in ConnNames : conns'[n].made => Listed(SessionHandler, handlers_of'[n])
  BY <1>4 DEF ToldInv, Early
<1>6. Started(rtp_pc') /\ ~conn_state' => StillToCome'
  BY <1>2, <1>3 DEF ToldInv, Started
<1> QED
  BY <1>1, <1>5, <1>6 DEF ToldInv, Early, Started

(* The payloaders stay right while the negotiating thread is not about to connect one, no
   handler is called and connections only become connected. *)
LEMMA PayKeeps ==
  ASSUME RtpTypeOK, RtpTypeOK', PayInv,
         UNCHANGED <<line, payloaders>>,
         \/ rtp_pc[1] \notin {"read", "connect"} /\ rtp_pc'[1] \notin {"read", "connect"}
         \/ rtp_pc' = rtp_pc,
         \A n \in ConnNames :
           /\ conns[n].connected => conns'[n].connected
           /\ conns'[n].emitted <=> conns[n].emitted,
         \A n \in ConnNames, k \in RtpKind :
           /\ Listed(k, handlers_of'[n]) <=> Listed(k, handlers_of[n])
           /\ Listed(k, conns'[n].emitting) <=> Listed(k, conns[n].emitting)
  PROVE  PayInv'
<1>1. \A k \in RtpKind : NameOf(k)' = NameOf(k) /\ NameOf(k) \in ConnNames
  BY LinesAre DEF NameOf
<1>2. \A k \in RtpKind : (AtKind("connect", k)' <=> AtKind("connect", k))
                         /\ (AtKind("read", k)' <=> AtKind("read", k))
  BY DEF AtKind
<1>3. \A k \in RtpKind : Waits(k) => Waits(k)'
  BY <1>1, <1>2 DEF Waits
<1>4. ASSUME NEW k \in RtpKind
      PROVE  /\ payloaders'[k].times = IF payloaders'[k].connected_flag THEN 1 ELSE 0
             /\ payloaders'[k].connected_flag => conns'[NameOf(k)'].connected
             /\ AtKind("connect", k)' => conns'[NameOf(k)'].connected
             /\ \A n \in ConnNames :
                  (Listed(k, handlers_of'[n]) \/ Listed(k, conns'[n].emitting)) => n = NameOf(k)'
             /\ payloaders'[k].made => payloaders'[k].connected_flag \/ AtKind("connect", k)' \/ Waits(k)'
  BY <1>1, <1>2, <1>3 DEF PayInv
<1> QED
  BY <1>4 DEF PayInv

(* No connection changes but by becoming connected. *)
QuietConns ==
  \A n \in ConnNames :
    /\ conns'[n].made <=> conns[n].made
    /\ conns[n].connected => conns'[n].connected
    /\ conns'[n].emitted <=> conns[n].emitted
    /\ conns'[n].emitting = conns[n].emitting

(* A step that changes none of what the threads know of connections and payloaders. *)
LEMMA QuietStep ==
  ASSUME ConnInv, RtpTypeOK', QuietConns,
         UNCHANGED <<line, payloaders, handlers_of, conn_state, conn_pending, conn_told>>,
         \/ /\ Started(rtp_pc) /\ Started(rtp_pc')
            /\ rtp_pc[1] \notin {"read", "connect"} /\ rtp_pc'[1] \notin {"read", "connect"}
         \/ rtp_pc' = rtp_pc
  PROVE  ConnInv'
<1>1. ToldInv'
  BY ToldKeeps DEF ConnInv, QuietConns
<1>2. PayInv'
  BY PayKeeps DEF ConnInv, QuietConns
<1>3. EarlyInv'
  <2>1. Early(rtp_pc') => Early(rtp_pc)
    BY DEF Early, Started
  <2> QED
    BY <2>1 DEF EarlyInv, Early, ConnInv, QuietConns
<1>4. EmitInv'
  BY DEF EmitInv, ConnInv, QuietConns
<1> QED
  BY <1>1, <1>2, <1>3, <1>4 DEF ConnInv

(* A connection becomes connected. *)
LEMMA ConnectedStep ==
  ASSUME ConnInv, NEW n \in ConnNames, Connected(n)
  PROVE  ConnInv'
<1>1. RtpTypeOK'
  BY ConnectedType DEF ConnInv
<1>2. QuietConns
  BY DEF QuietConns, Connected, ConnInv, RtpTypeOK, Conn
<1> QED
  BY <1>1, <1>2, QuietStep DEF Connected

(* Elements are added for the connection of a line (configure_media_connection). *)
LEMMA ConfigureConnectionStep ==
  ASSUME ConnInv, NEW i \in DOMAIN RtpKinds, ConfigureConnection(i)
  PROVE  ConnInv'
<1> DEFINE k == RtpKinds[i]
           n == NameOf(k)
<1>1. RtpTypeOK'
  BY ConfigureConnectionType DEF ConnInv
<1>2. rtp_pc = <<"media", i>> /\ rtp_pc'[1] \in {"media", "remb"}
  BY NextLineStep DEF ConfigureConnection, At
<1>3. QuietConns
  <2>1. \/ conns' = conns
        \/ conns' = [conns EXCEPT ![n].added = IF conns[n].demux THEN @ ELSE @ + 1, ![n].demux = TRUE]
        \/ conns' = [conns EXCEPT ![n].added = @ + 1]
    BY DEF ConfigureConnection, add_gst_connection_elements, Kind_
  <2> HIDE DEF n
  <2>2. conns \in [ConnNames -> Conn]
    BY DEF ConnInv, RtpTypeOK
  <2>3. CASE conns' = conns
    BY <2>3 DEF QuietConns
  <2>4. CASE conns' = [conns EXCEPT ![n].added = @ + 1]
    BY <2>2, <2>4 DEF QuietConns, Conn
  <2>5. CASE conns' = [conns EXCEPT ![n].added = IF conns[n].demux THEN @ ELSE @ + 1, ![n].demux = TRUE]
    BY <2>2, <2>5 DEF QuietConns, Conn
  <2> QED
    BY <2>1, <2>3, <2>4, <2>5
<1> QED
  BY <1>1, <1>2, <1>3, QuietStep DEF ConfigureConnection, Started

(* The other steps of the negotiating thread that leave connections and payloaders alone. *)
LEMMA SkipStep ==
  ASSUME ConnInv, NEW i \in DOMAIN RtpKinds,
         SkipConnection(i) \/ SkipPayloader(i) \/ CreateRembManager
  PROVE  ConnInv'
<1>1. RtpTypeOK'
  BY StartType DEF ConnInv
<1>2. UNCHANGED <<line, connVars, payloaders>>
  BY DEF SkipConnection, SkipPayloader, CreateRembManager
<1>3. QuietConns
  BY <1>2 DEF QuietConns, connVars
<1>4. /\ rtp_pc[1] \in {"media", "remb", "attach"}
      /\ rtp_pc'[1] \in {"media", "remb", "attach", "done"}
  <2>1. CASE SkipConnection(i)
    BY <2>1, NextLineStep DEF SkipConnection, At
  <2>2. CASE SkipPayloader(i)
    BY <2>2, NextLineStep DEF SkipPayloader, At
  <2>3. CASE CreateRembManager
    BY <2>3 DEF CreateRembManager, At
  <2> QED
    BY <2>1, <2>2, <2>3
<1> QED
  BY <1>1, <1>2, <1>3, <1>4, QuietStep DEF connVars, Started

(* A line is configured: connections are made while nobody listens. *)
LEMMA ConfigureStep ==
  ASSUME ConnInv, NEW i \in DOMAIN RtpKinds, NEW ok \in BOOLEAN, ConfigureMedia(i, ok)
  PROVE  ConnInv'
<1> DEFINE k == RtpKinds[i]
           n == NameOf(k)
<1>1. RtpTypeOK'
  BY ConfigureType DEF ConnInv
<1>2. rtp_pc = <<"configure", i>> /\ rtp_pc'[1] \in {"configure", "subscribe"}
  BY NextLineStep DEF ConfigureMedia, At
<1>3. UNCHANGED <<line, payloaders, handlers_of, conn_state, conn_pending, conn_told>>
  BY DEF ConfigureMedia
<1>4. \A m \in ConnNames : /\ conns'[m].connected <=> conns[m].connected
                           /\ conns'[m].emitted <=> conns[m].emitted
                           /\ conns'[m].emitting = conns[m].emitting
  <2> DEFINE v == ConnType(k)
  <2>1. conns' = conns \/ conns' = [conns EXCEPT ![n].made = TRUE, ![n].type = v]
    BY DEF ConfigureMedia, create_connection, Kind_
  <2>2. conns \in [ConnNames -> Conn]
    BY DEF ConnInv, RtpTypeOK
  <2> HIDE DEF n, k, v
  <2>3. CASE conns' = conns
    BY <2>3
  <2>4. CASE conns' = [conns EXCEPT ![n].made = TRUE, ![n].type = v]
    BY <2>2, <2>4 DEF Conn
  <2> QED
    BY <2>1, <2>3, <2>4
<1>5. PayInv'
  BY <1>1, <1>2, <1>3, <1>4, PayKeeps DEF ConnInv
<1>6. /\ ~conn_state /\ ~conn_told
      /\ \A t \in Threads_ : conn_pending[t] = <<>>
      /\ \A m \in ConnNames : handlers_of[m] = <<>> /\ conns[m].emitting = <<>>
  BY <1>2 DEF EarlyInv, ConnInv
<1>7. EarlyInv'
  BY <1>3, <1>4, <1>6 DEF EarlyInv
<1>8. EmitInv'
  BY <1>4 DEF EmitInv, ConnInv
<1>9. ToldInv'
  BY <1>2, <1>3, <1>6 DEF ToldInv, ConnInv
<1> QED
  BY <1>1, <1>5, <1>7, <1>8, <1>9 DEF ConnInv

(* The session listens to its connections (check_conn_status). *)
LEMMA SubscribeStep ==
  ASSUME ConnInv, Subscribe
  PROVE  ConnInv'
<1>1. RtpTypeOK'
  BY SubscribeType DEF ConnInv
<1>2. rtp_pc = <<"subscribe", 1>> /\ rtp_pc' = <<"update", 1>>
  BY DEF Subscribe, At
<1>3. UNCHANGED <<line, payloaders, conns, conn_state, conn_pending, conn_told>>
  BY DEF Subscribe
<1>4. ASSUME NEW m \in ConnNames, NEW x
      PROVE  Listed(x, handlers_of'[m]) <=>
               (Listed(x, handlers_of[m]) \/ (conns[m].made /\ x = SessionHandler))
  <2>1. handlers_of[m] \in Seq(Handlers_) /\ SessionHandler \in Handlers_
    BY DEF ConnInv, RtpTypeOK, Handlers_
  <2>2. Listed(x, Append(handlers_of[m], SessionHandler)) <=>
          (Listed(x, handlers_of[m]) \/ x = SessionHandler)
    BY <2>1, ListedAppend
  <2> QED
    BY <2>2 DEF Subscribe
<1>5. PayInv'
  <2>1. \A k \in RtpKind : k # SessionHandler
    BY KindsAre DEF SessionHandler
  <2>2. \A m \in ConnNames, k \in RtpKind : Listed(k, handlers_of'[m]) <=> Listed(k, handlers_of[m])
    BY <1>4, <2>1
  <2> QED
    BY <1>1, <1>2, <1>3, <2>2, PayKeeps DEF ConnInv
<1>6. ~conn_state /\ ~conn_told /\ \A t \in Threads_ : conn_pending[t] = <<>>
  BY <1>2 DEF EarlyInv, ConnInv
<1>7. EarlyInv'
  BY <1>2 DEF EarlyInv
<1>8. EmitInv'
  BY <1>3 DEF EmitInv, ConnInv
<1>9. ToldInv'
  <2>1. \A m \in ConnNames : conns'[m].made => Listed(SessionHandler, handlers_of'[m])
    BY <1>3, <1>4
  <2> QED
    BY <1>2, <1>3, <1>6, <2>1 DEF ToldInv
<1> QED
  BY <1>1, <1>5, <1>7, <1>8, <1>9 DEF ConnInv

(* What ToldInv says of the state and of what is on its way. *)
ToldState ==
  /\ \A t \in Threads_ : \A j \in 1 .. Len(conn_pending[t]) : conn_pending[t][j]
  /\ conn_state => AllConnected
  /\ conn_told => conn_state
  /\ \A t \in Threads_ : conn_pending[t] # <<>> => conn_state
  /\ conn_state => (conn_told \/ \E t \in Threads_ : conn_pending[t] # <<>>)

(* update_conn_state: the state becomes CONNECTED once, when all connections are, and the
   thread that saw it has it to tell. *)
LEMMA UpdateRight ==
  ASSUME ConnInv, RtpTypeOK', NEW t \in Threads_, update_conn_state(t), conn_told' = conn_told,
         AllConnected' <=> AllConnected
  PROVE  ToldState' /\ (~conn_state' => ~AllConnected)
<1>1. ToldState /\ conn_state \in BOOLEAN /\ conn_pending \in [Threads_ -> Seq(BOOLEAN)]
  BY DEF ConnInv, ToldInv, ToldState, RtpTypeOK
<1>2. conn_state' <=> AllConnected
  BY DEF update_conn_state, AllConnected
<1>3. CASE conn_state
  <2>1. AllConnected
    BY <1>1, <1>3 DEF ToldState
  <2>2. conn_pending' = conn_pending
    <3>1. ~(conn_state # AllConnected)
      BY <1>1, <1>3, <2>1 DEF AllConnected
    <3> QED
      BY <1>1, <3>1 DEF update_conn_state
  <2>3. conn_state' /\ AllConnected'
    BY <1>2, <2>1
  <2>4. conn_told \/ \E u \in Threads_ : conn_pending[u] # <<>>
    BY <1>1, <1>3 DEF ToldState
  <2> QED
    BY <1>1, <2>2, <2>3, <2>4 DEF ToldState
<1>4. CASE ~conn_state
  <2>1. ~conn_told /\ \A u \in Threads_ : conn_pending[u] = <<>>
    BY <1>1, <1>4 DEF ToldState
  <2>2. CASE AllConnected
    <3>1. conn_state # AllConnected
      BY <1>4, <2>2
    <3>2. conn_pending' = [conn_pending EXCEPT ![t] = Append(<<>>, AllConnected)]
      BY <1>1, <2>1, <3>1 DEF update_conn_state
    <3>3. conn_pending'[t] = <<AllConnected>> /\ \A u \in Threads_ \ {t} : conn_pending'[u] = <<>>
      BY <1>1, <2>1, <3>2
    <3>4. conn_pending'[t] # <<>>
      BY <3>3
    <3>5. \A j \in 1 .. Len(conn_pending'[t]) : conn_pending'[t][j]
      <4>1. \A x : Len(<<x>>) = 1 /\ <<x>>[1] = x
        OBVIOUS
      <4>2. Len(conn_pending'[t]) = 1 /\ conn_pending'[t][1] = AllConnected
        BY <3>3, <4>1, Zenon
      <4>3. \A j \in 1 .. 1 : j = 1
        OBVIOUS
      <4> QED
        BY <2>2, <4>2, <4>3, Zenon
    <3>6. \A u \in Threads_ \ {t} : \A j \in 1 .. Len(conn_pending'[u]) : conn_pending'[u][j]
      BY <3>3
    <3>7. conn_state' /\ AllConnected'
      BY <1>2, <2>2
    <3> QED
      BY <3>4, <3>5, <3>6, <3>7 DEF ToldState
  <2>3. CASE ~AllConnected
    <3>1. ~(conn_state # AllConnected)
      BY <1>1, <1>4, <2>3 DEF AllConnected
    <3>2. conn_pending' = conn_pending
      BY <1>1, <3>1 DEF update_conn_state
    <3>3. ~conn_state'
      BY <1>2, <2>3
    <3> QED
      BY <1>1, <2>1, <2>3, <3>2, <3>3 DEF ToldState
  <2> QED
    BY <2>2, <2>3
<1> QED
  BY <1>3, <1>4

(* The negotiating thread works the state out after it subscribed. *)
LEMMA UpdateConnStep ==
  ASSUME ConnInv, UpdateConnState
  PROVE  ConnInv'
<1>1. RtpTypeOK'
  BY UpdateConnType DEF ConnInv
<1>2. rtp_pc = <<"update", 1>> /\ rtp_pc' = <<"media", 1>>
  BY DEF UpdateConnState, At
<1>3. UNCHANGED <<line, payloaders, conns, handlers_of, conn_told>>
  BY DEF UpdateConnState
<1>4. PayInv'
  BY <1>1, <1>2, <1>3, PayKeeps DEF ConnInv
<1>5. EarlyInv'
  BY <1>2 DEF EarlyInv
<1>6. EmitInv'
  BY <1>3 DEF EmitInv, ConnInv
<1>7. AllConnected' <=> AllConnected
  BY <1>3 DEF AllConnected
<1>8. ToldState' /\ (~conn_state' => ~AllConnected)
  BY <1>1, <1>3, <1>7, KindsAre, UpdateRight DEF UpdateConnState, Negotiator
<1>9. ~conn_state' => StillToCome'
  BY <1>3, <1>8 DEF AllConnected, StillToCome, EmitInv, ConnInv
<1>10. \A n \in ConnNames : conns'[n].made => Listed(SessionHandler, handlers_of'[n])
  BY <1>2, <1>3 DEF ToldInv, ConnInv
<1>11. ToldInv'
  BY <1>8, <1>9, <1>10 DEF ToldInv, ToldState
<1> QED
  BY <1>1, <1>4, <1>5, <1>6, <1>11 DEF ConnInv

(* An emission goes on: the list of who is still to be called loses its head. *)
LEMMA EmissionGoesOn ==
  ASSUME RtpTypeOK, NEW n \in ConnNames, conns[n].emitting # <<>>,
         conns' = [conns EXCEPT ![n].emitting = Tail(@)]
  PROVE  /\ \A m \in ConnNames :
              /\ conns'[m].made <=> conns[m].made
              /\ conns'[m].connected <=> conns[m].connected
              /\ conns'[m].emitted <=> conns[m].emitted
              /\ m # n => conns'[m].emitting = conns[m].emitting
         /\ conns'[n].emitting = Tail(conns[n].emitting)
         /\ \A x : Listed(x, conns'[n].emitting) => Listed(x, conns[n].emitting)
         /\ \A x : Listed(x, conns[n].emitting) =>
              (x = Head(conns[n].emitting) \/ Listed(x, conns'[n].emitting))
         /\ Listed(Head(conns[n].emitting), conns[n].emitting)
<1>1. conns \in [ConnNames -> Conn] /\ conns[n] \in Conn
  BY DEF RtpTypeOK
<1>2. conns[n].emitting \in Seq(Handlers_)
  BY <1>1 DEF Conn
<1>3. conns'[n].emitting = Tail(conns[n].emitting)
  BY <1>1 DEF Conn
<1>4. \A m \in ConnNames :
        /\ conns'[m].made <=> conns[m].made
        /\ conns'[m].connected <=> conns[m].connected
        /\ conns'[m].emitted <=> conns[m].emitted
        /\ m # n => conns'[m].emitting = conns[m].emitting
  BY <1>1 DEF Conn
<1> DEFINE q == conns[n].emitting
<1> HIDE DEF q
<1>5. q \in Seq(Handlers_) /\ q # <<>>
  BY <1>2 DEF q
<1>6. \A x : /\ Listed(x, Tail(q)) => Listed(x, q)
             /\ Listed(x, q) => (x = Head(q) \/ Listed(x, Tail(q)))
             /\ Listed(Head(q), q)
  BY <1>5, ListedTail
<1> QED
  BY <1>3, <1>4, <1>6 DEF q

(* The session's handler runs in a connection's thread. *)
LEMMA ConnectedSessionStep ==
  ASSUME ConnInv, NEW n \in ConnNames, ConnectedSession(n)
  PROVE  ConnInv'
<1>1. RtpTypeOK /\ RtpTypeOK'
  BY ConnectedSessionType DEF ConnInv
<1>2. UNCHANGED <<line, rtp_pc, payloaders, handlers_of, conn_told>>
  BY DEF ConnectedSession
<1>3. /\ conns[n].emitting # <<>> /\ Head(conns[n].emitting) = SessionHandler
      /\ conns' = [conns EXCEPT ![n].emitting = Tail(@)]
  BY DEF ConnectedSession
<1>4. /\ \A m \in ConnNames :
           /\ conns'[m].made <=> conns[m].made
           /\ conns'[m].connected <=> conns[m].connected
           /\ conns'[m].emitted <=> conns[m].emitted
           /\ m # n => conns'[m].emitting = conns[m].emitting
      /\ \A x : Listed(x, conns'[n].emitting) => Listed(x, conns[n].emitting)
      /\ \A x : Listed(x, conns[n].emitting) => (x = SessionHandler \/ Listed(x, conns'[n].emitting))
  BY <1>1, <1>3, EmissionGoesOn
<1>5. ~Early(rtp_pc)
  BY <1>3 DEF Early, EarlyInv, ConnInv
<1>6. PayInv'
  <2>1. \A k \in RtpKind : k # SessionHandler
    BY KindsAre DEF SessionHandler
  <2>2. \A m \in ConnNames, k \in RtpKind : Listed(k, conns'[m].emitting) <=> Listed(k, conns[m].emitting)
    BY <1>4, <2>1
  <2> QED
    BY <1>1, <1>2, <1>4, <2>2, PayKeeps DEF ConnInv
<1>7. EarlyInv'
  BY <1>2, <1>5 DEF EarlyInv, Early
<1>8. EmitInv'
  BY <1>3, <1>4 DEF EmitInv, ConnInv
<1>9. AllConnected' <=> AllConnected
  BY <1>4 DEF AllConnected
<1>10. ToldState' /\ (~conn_state' => ~AllConnected)
  BY <1>1, <1>2, <1>9, KindsAre, UpdateRight DEF ConnectedSession
<1>11. ~conn_state' => StillToCome'
  BY <1>4, <1>10 DEF AllConnected, StillToCome, EmitInv, ConnInv
<1>12. \A m \in ConnNames : conns'[m].made => Listed(SessionHandler, handlers_of'[m])
  BY <1>2, <1>4, <1>5 DEF ToldInv, ConnInv, Early
<1>13. ToldInv'
  BY <1>10, <1>11, <1>12 DEF ToldInv, ToldState
<1> QED
  BY <1>1, <1>6, <1>7, <1>8, <1>13 DEF ConnInv

(* What was worked out is told. *)
LEMMA TellConnStep ==
  ASSUME ConnInv, NEW t \in Threads_, TellConnState(t)
  PROVE  ConnInv'
<1>1. RtpTypeOK /\ RtpTypeOK'
  BY TellConnType DEF ConnInv
<1>2. UNCHANGED <<line, rtp_pc, conns, payloaders, handlers_of, conn_state>>
  BY DEF TellConnState
<1> DEFINE q == conn_pending[t]
<1>3. q \in Seq(BOOLEAN) /\ q # <<>>
  BY DEF TellConnState, ConnInv, RtpTypeOK
<1>4. conn_told' = Head(q) /\ conn_pending' = [conn_pending EXCEPT ![t] = Tail(q)]
  BY DEF TellConnState
<1>5. conn_state /\ \A j \in 1 .. Len(q) : q[j]
  BY <1>3 DEF ToldInv, ConnInv
<1>6. PayInv'
  BY <1>1, <1>2, PayKeeps DEF ConnInv
<1>7. ~Early(rtp_pc)
  BY <1>3 DEF Early, EarlyInv, ConnInv
<1>8. EarlyInv' /\ EmitInv'
  BY <1>2, <1>7 DEF EarlyInv, Early, EmitInv, ConnInv
<1> HIDE DEF q
<1>9. Head(q) = q[1] /\ 1 \in 1 .. Len(q)
  BY <1>3
<1>10. conn_told'
  BY <1>4, <1>5, <1>9, Zenon
<1>11. \A j \in 1 .. Len(Tail(q)) : Tail(q)[j] = q[j + 1] /\ j + 1 \in 1 .. Len(q)
  BY <1>3
<1>12. \A j \in 1 .. Len(Tail(q)) : Tail(q)[j]
  BY <1>5, <1>11, Zenon
<1>13. \A u \in Threads_ : \A j \in 1 .. Len(conn_pending'[u]) : conn_pending'[u][j]
  <2>1. conn_pending'[t] = Tail(q) /\ \A u \in Threads_ \ {t} : conn_pending'[u] = conn_pending[u]
    BY <1>1, <1>4 DEF RtpTypeOK
  <2>2. \A u \in Threads_ : \A j \in 1 .. Len(conn_pending[u]) : conn_pending[u][j]
    BY DEF ToldInv, ConnInv
  <2> QED
    BY <1>12, <2>1, <2>2
<1>14. AllConnected'
  BY <1>2, <1>5 DEF ToldInv, ConnInv, AllConnected
<1>15. ToldInv'
  <2>1. \A n \in ConnNames : conns[n].made => Listed(SessionHandler, handlers_of[n])
    BY <1>7 DEF ToldInv, ConnInv, Early
  <2> QED
    BY <1>2, <1>5, <1>10, <1>13, <1>14, <2>1 DEF ToldInv
<1> QED
  BY <1>1, <1>6, <1>8, <1>15 DEF ConnInv

(* An emission begins: it will call the handlers there are. *)
LEMMA EmitStep ==
  ASSUME ConnInv, NEW n \in ConnNames, EmitConnected(n)
  PROVE  ConnInv'
<1>1. RtpTypeOK /\ RtpTypeOK'
  BY EmitType DEF ConnInv
<1>2. UNCHANGED <<line, rtp_pc, payloaders, handlers_of, conn_state, conn_pending, conn_told>>
  BY DEF EmitConnected
<1>3. conns[n].connected /\ ~conns[n].emitted
  BY DEF EmitConnected
<1>4. /\ \A m \in ConnNames :
           /\ conns'[m].made <=> conns[m].made
           /\ conns'[m].connected <=> conns[m].connected
           /\ m # n => (conns'[m].emitted <=> conns[m].emitted) /\ conns'[m].emitting = conns[m].emitting
      /\ conns'[n].emitted /\ conns'[n].emitting = handlers_of[n]
  <2>1. conns \in [ConnNames -> Conn]
    BY <1>1 DEF RtpTypeOK
  <2>2. conns' = [conns EXCEPT ![n].emitted = TRUE, ![n].emitting = handlers_of[n]]
    BY DEF EmitConnected
  <2> QED
    BY <2>1, <2>2 DEF Conn
<1>5. EarlyInv'
  BY <1>2, <1>4 DEF EarlyInv, ConnInv
<1>6. EmitInv'
  BY <1>3, <1>4 DEF EmitInv, ConnInv
<1>7. ToldInv'
  <2>1. AllConnected' <=> AllConnected
    BY <1>4 DEF AllConnected
  <2>2. ASSUME ~Early(rtp_pc), StillToCome PROVE StillToCome'
    <3>1. PICK m \in ConnNames :
            conns[m].made /\ (~conns[m].emitted \/ Listed(SessionHandler, conns[m].emitting))
      BY <2>2 DEF StillToCome
    <3>2. CASE m = n
      <4>1. Listed(SessionHandler, handlers_of[n])
        BY <2>2, <3>1, <3>2 DEF ToldInv, ConnInv, Early
      <4> QED
        BY <1>4, <3>1, <3>2, <4>1 DEF StillToCome
    <3>3. CASE m # n
      BY <1>4, <3>1, <3>3 DEF StillToCome
    <3> QED
      BY <3>2, <3>3
  <2>3. Started(rtp_pc) => ~Early(rtp_pc)
    BY DEF Started, Early
  <2>4. Started(rtp_pc) /\ ~conn_state => StillToCome'
    BY <2>2, <2>3 DEF ToldInv, ConnInv, Started
  <2>5. ToldState /\ (~Early(rtp_pc) => \A m \in ConnNames : conns[m].made => Listed(SessionHandler, handlers_of[m]))
    BY DEF ToldInv, ConnInv, ToldState, Early
  <2> QED
    BY <1>2, <1>4, <2>1, <2>4, <2>5 DEF ToldInv, ToldState, Started, Early
<1>8. PayInv'
  <2> SUFFICES ASSUME NEW k \in RtpKind
               PROVE  /\ payloaders[k].connected_flag => conns'[NameOf(k)].connected
                      /\ AtKind("connect", k) => conns'[NameOf(k)].connected
                      /\ \A m \in ConnNames :
                           (Listed(k, handlers_of[m]) \/ Listed(k, conns'[m].emitting)) => m = NameOf(k)
                      /\ payloaders[k].made => payloaders[k].connected_flag \/ AtKind("connect", k) \/ Waits(k)'
    <3>1. \A k \in RtpKind : /\ NameOf(k)' = NameOf(k)
                             /\ AtKind("connect", k)' <=> AtKind("connect", k)
      BY <1>2 DEF NameOf, AtKind
    <3>2. \A k \in RtpKind : payloaders[k].times = IF payloaders[k].connected_flag THEN 1 ELSE 0
      BY DEF PayInv, ConnInv
    <3> QED
      BY <1>2, <3>1, <3>2 DEF PayInv
  <2>1. NameOf(k) \in ConnNames
    BY <1>1, LinesAre
  <2>2. /\ payloaders[k].connected_flag => conns'[NameOf(k)].connected
        /\ AtKind("connect", k) => conns'[NameOf(k)].connected
    BY <1>4, <2>1 DEF PayInv, ConnInv
  <2>3. \A m \in ConnNames : (Listed(k, handlers_of[m]) \/ Listed(k, conns'[m].emitting)) => m = NameOf(k)
    BY <1>4 DEF PayInv, ConnInv
  <2>4. Waits(k) => Waits(k)'
    BY <1>2, <1>4, <2>1 DEF Waits, NameOf, AtKind
  <2>5. payloaders[k].made => payloaders[k].connected_flag \/ AtKind("connect", k) \/ Waits(k)
    BY DEF PayInv, ConnInv
  <2> QED
    BY <2>2, <2>3, <2>4, <2>5
<1> QED
  BY <1>1, <1>5, <1>6, <1>7, <1>8 DEF ConnInv

(* What PayInv says of one payloader. *)
PayOf(k) ==
  /\ payloaders[k].times = IF payloaders[k].connected_flag THEN 1 ELSE 0
  /\ payloaders[k].connected_flag => conns[NameOf(k)].connected
  /\ AtKind("connect", k) => conns[NameOf(k)].connected
  /\ \A n \in ConnNames :
       (Listed(k, handlers_of[n]) \/ Listed(k, conns[n].emitting)) => n = NameOf(k)
  /\ payloaders[k].made => payloaders[k].connected_flag \/ AtKind("connect", k) \/ Waits(k)

(* The payloader of another kind is not concerned. *)
LEMMA PayOther ==
  ASSUME RtpTypeOK, NEW k \in RtpKind, PayOf(k), line' = line, payloaders'[k] = payloaders[k],
         AtKind("connect", k)' <=> AtKind("connect", k),
         AtKind("read", k)' <=> AtKind("read", k),
         \A n \in ConnNames :
           /\ conns'[n].connected <=> conns[n].connected
           /\ conns'[n].emitted <=> conns[n].emitted
           /\ Listed(k, handlers_of'[n]) <=> Listed(k, handlers_of[n])
           /\ Listed(k, conns'[n].emitting) <=> Listed(k, conns[n].emitting)
  PROVE  PayOf(k)'
<1>1. NameOf(k)' = NameOf(k) /\ NameOf(k) \in ConnNames
  BY LinesAre DEF NameOf
<1>2. Waits(k) => Waits(k)'
  BY <1>1 DEF Waits
<1> QED
  BY <1>1, <1>2 DEF PayOf

(* do_connect_payloader connects what was not connected, once. *)
LEMMA ConnectedOnce ==
  ASSUME NEW p \in Payloader, p.times = IF p.connected_flag THEN 1 ELSE 0
  PROVE  do_connect_payloader(p).times = 1
<1>1. CASE p.connected_flag
  BY <1>1 DEF do_connect_payloader
<1>2. CASE ~p.connected_flag
  <2>1. p.times = 0
    BY <1>2
  <2>2. do_connect_payloader(p) = [p EXCEPT !.connected_flag = TRUE, !.times = p.times + 1]
    BY <1>2 DEF do_connect_payloader, Payloader
  <2> QED
    BY <2>1, <2>2 DEF Payloader
<1> QED
  BY <1>1, <1>2

(* A payloader's handler is connected to the signal. *)
LEMMA AttachStep ==
  ASSUME ConnInv, NEW i \in DOMAIN RtpKinds, AttachPayloader(i)
  PROVE  ConnInv'
<1> DEFINE k == RtpKinds[i]
           n == NameOf(k)
<1>1. RtpTypeOK /\ RtpTypeOK'
  BY AttachType DEF ConnInv
<1>2. UNCHANGED <<line, conns, conn_state, conn_pending, conn_told>>
  BY DEF AttachPayloader
<1>3. rtp_pc = <<"attach", i>> /\ rtp_pc' = <<"read", i>>
  BY DEF AttachPayloader, At
<1>4. k \in RtpKind
  BY KindsAre
<1>5. n \in ConnNames
  BY <1>1, <1>4, LinesAre
<1>6. /\ payloaders' = [payloaders EXCEPT ![k].made = TRUE, ![k].handler = TRUE]
      /\ handlers_of' = [handlers_of EXCEPT ![n] = Append(handlers_of[n], k)]
  BY DEF AttachPayloader, Kind_
<1>7. /\ \A j \in RtpKind : AtKind("read", j)' <=> j = k
      /\ \A j \in RtpKind : ~AtKind("connect", j)' /\ ~AtKind("connect", j) /\ ~AtKind("read", j)
  BY <1>3 DEF AtKind
<1>8. NameOf(k)' = NameOf(k)
  BY <1>2 DEF NameOf
<1> HIDE DEF n, k
<1>9. \A m \in ConnNames, x \in Handlers_ :
        Listed(x, handlers_of'[m]) <=> (Listed(x, handlers_of[m]) \/ (m = n /\ x = k))
  <2>1. handlers_of \in [ConnNames -> Seq(Handlers_)] /\ k \in Handlers_
    BY <1>1, <1>4 DEF RtpTypeOK, Handlers_
  <2> SUFFICES ASSUME NEW m \in ConnNames, NEW x \in Handlers_
               PROVE  Listed(x, handlers_of'[m]) <=> (Listed(x, handlers_of[m]) \/ (m = n /\ x = k))
    OBVIOUS
  <2>2. CASE m = n
    <3>1. handlers_of'[m] = Append(handlers_of[m], k)
      BY <1>6, <2>1, <2>2
    <3> QED
      BY <2>1, <2>2, <3>1, ListedAppend
  <2>3. CASE m # n
    BY <1>6, <2>1, <2>3
  <2> QED
    BY <2>2, <2>3
<1>10. ToldInv'
  <2>1. Started(rtp_pc) /\ Started(rtp_pc')
    BY <1>3 DEF Started
  <2>2. SessionHandler \in Handlers_
    BY DEF Handlers_
  <2>3. \A m \in ConnNames : Listed(SessionHandler, handlers_of[m]) => Listed(SessionHandler, handlers_of'[m])
    BY <1>9, <2>2
  <2> QED
    BY <1>1, <1>2, <2>1, <2>3, ToldKeeps DEF ConnInv
<1>11. EarlyInv' /\ EmitInv'
  BY <1>2, <1>3 DEF EarlyInv, EmitInv, ConnInv
<1>12. \A j \in RtpKind : j \in Handlers_
  BY DEF Handlers_
<1>13. payloaders \in [RtpKind -> Payloader]
  BY <1>1 DEF RtpTypeOK
<1>14. PayOf(k)'
  <2>1. PayOf(k)
    BY <1>4 DEF PayInv, PayOf, ConnInv
  <2>2. /\ payloaders'[k].times = payloaders[k].times
        /\ payloaders'[k].connected_flag <=> payloaders[k].connected_flag
        /\ payloaders'[k].handler
    BY <1>4, <1>6, <1>13 DEF Payloader
  <2>3. Waits(k)'
    <3>1. Listed(k, handlers_of'[n])
      BY <1>4, <1>5, <1>9, <1>12
    <3>2. AtKind("read", k)'
      BY <1>4, <1>7
    <3>3. n = NameOf(k)'
      BY <1>8 DEF n
    <3> QED
      BY <2>2, <3>1, <3>2, <3>3 DEF Waits
  <2>4. \A m \in ConnNames : Listed(k, handlers_of'[m]) => m = NameOf(k)
    BY <1>4, <1>9, <1>12, <2>1 DEF PayOf, n
  <2> QED
    BY <1>2, <1>4, <1>7, <1>8, <2>1, <2>2, <2>3, <2>4 DEF PayOf
<1>15. ASSUME NEW j \in RtpKind, j # k
       PROVE  PayOf(j)'
  <2>1. PayOf(j)
    BY DEF PayInv, PayOf, ConnInv
  <2>2. payloaders'[j] = payloaders[j]
    BY <1>6, <1>13, <1>15
  <2>3. \A m \in ConnNames : Listed(j, handlers_of'[m]) <=> Listed(j, handlers_of[m])
    BY <1>9, <1>12, <1>15
  <2> QED
    BY <1>1, <1>2, <1>7, <1>15, <2>1, <2>2, <2>3, PayOther
<1>16. PayInv'
  BY <1>14, <1>15 DEF PayInv, PayOf
<1> QED
  BY <1>1, <1>10, <1>11, <1>16 DEF ConnInv

(* The second look at the connection: connected, the negotiating thread takes the handler away
   and connects the payloader itself; otherwise the signal is still to come. *)
LEMMA ReadStep ==
  ASSUME ConnInv, NEW i \in DOMAIN RtpKinds, ReadConnected(i)
  PROVE  ConnInv'
<1> DEFINE k == RtpKinds[i]
           n == NameOf(k)
<1>1. RtpTypeOK /\ RtpTypeOK'
  BY ReadType DEF ConnInv
<1>2. UNCHANGED <<line, connVars>>
  BY DEF ReadConnected
<1>3. k \in RtpKind
  BY KindsAre
<1>4. n \in ConnNames
  BY <1>1, <1>3, LinesAre
<1>5. rtp_pc = <<"read", i>> /\ rtp_pc'[1] \in {"connect", "attach", "done"}
  BY NextLineStep DEF ReadConnected, At
<1>6. ToldInv'
  <2>1. Started(rtp_pc) /\ Started(rtp_pc')
    BY <1>5 DEF Started
  <2> QED
    BY <1>1, <1>2, <2>1, ToldKeeps DEF ConnInv, connVars
<1>7. EarlyInv' /\ EmitInv'
  BY <1>2, <1>5 DEF EarlyInv, EmitInv, ConnInv, connVars
<1>8. payloaders \in [RtpKind -> Payloader]
  BY <1>1 DEF RtpTypeOK
<1>9. NameOf(k)' = NameOf(k)
  BY <1>2 DEF NameOf
<1>10. \A j \in RtpKind : PayOf(j)
  BY DEF PayInv, PayOf, ConnInv
<1>11. PayInv'
  <2>1. CASE conns[n].connected
    <3>1. payloaders' = [payloaders EXCEPT ![k].handler = FALSE] /\ rtp_pc' = <<"connect", i>>
      BY <2>1 DEF ReadConnected, Kind_
    <3>2. /\ \A j \in RtpKind : (AtKind("connect", j)' <=> j = k) /\ (AtKind("read", j) <=> j = k)
          /\ \A j \in RtpKind : ~AtKind("connect", j) /\ ~AtKind("read", j)'
      BY <1>5, <3>1 DEF AtKind
    <3> HIDE DEF k
    <3>3. PayOf(k)'
      <4>1. /\ payloaders'[k].times = payloaders[k].times
            /\ payloaders'[k].connected_flag <=> payloaders[k].connected_flag
        BY <1>3, <1>8, <3>1 DEF Payloader
      <4> QED
        BY <1>2, <1>3, <1>9, <1>10, <2>1, <3>2, <4>1 DEF PayOf, connVars
    <3>4. ASSUME NEW j \in RtpKind, j # k
          PROVE  PayOf(j)'
      <4>1. payloaders'[j] = payloaders[j]
        BY <1>8, <3>1, <3>4
      <4> QED
        BY <1>1, <1>2, <1>10, <3>2, <3>4, <4>1, PayOther DEF connVars
    <3> QED
      BY <3>3, <3>4 DEF PayInv, PayOf
  <2>2. CASE ~conns[n].connected
    <3>1. payloaders' = payloaders /\ rtp_pc'[1] \in {"attach", "done"}
      BY <2>2, NextLineStep DEF ReadConnected, Kind_
    <3>2. /\ \A j \in RtpKind : AtKind("read", j) <=> j = k
          /\ \A j \in RtpKind : ~AtKind("connect", j) /\ ~AtKind("connect", j)' /\ ~AtKind("read", j)'
      BY <1>5, <3>1 DEF AtKind
    <3>3. ~conns[n].emitted
      BY <1>4, <2>2 DEF EmitInv, ConnInv
    <3>4. Waits(k) => Waits(k)'
      BY <1>2, <1>9, <3>1, <3>3 DEF Waits, connVars
    <3> HIDE DEF k
    <3>5. PayOf(k)'
      BY <1>2, <1>3, <1>9, <1>10, <3>1, <3>2, <3>4 DEF PayOf, connVars
    <3>6. ASSUME NEW j \in RtpKind, j # k
          PROVE  PayOf(j)'
      BY <1>1, <1>2, <1>10, <3>1, <3>2, <3>6, PayOther DEF connVars
    <3> QED
      BY <3>5, <3>6 DEF PayInv, PayOf
  <2> QED
    BY <2>1, <2>2
<1> QED
  BY <1>1, <1>6, <1>7, <1>11 DEF ConnInv

(* The negotiating thread connects the payloader. *)
LEMMA ConnectStep ==
  ASSUME ConnInv, NEW i \in DOMAIN RtpKinds, ConnectPayloader(i)
  PROVE  ConnInv'
<1> DEFINE k == RtpKinds[i]
<1>1. RtpTypeOK /\ RtpTypeOK'
  BY ConnectType DEF ConnInv
<1>2. UNCHANGED <<line, connVars>>
  BY DEF ConnectPayloader
<1>3. k \in RtpKind
  BY KindsAre
<1>4. rtp_pc = <<"connect", i>> /\ rtp_pc'[1] \in {"attach", "done"}
  BY NextLineStep DEF ConnectPayloader, At
<1>5. ToldInv'
  <2>1. Started(rtp_pc) /\ Started(rtp_pc')
    BY <1>4 DEF Started
  <2> QED
    BY <1>1, <1>2, <2>1, ToldKeeps DEF ConnInv, connVars
<1>6. EarlyInv' /\ EmitInv'
  BY <1>2, <1>4 DEF EarlyInv, EmitInv, ConnInv, connVars
<1>7. payloaders \in [RtpKind -> Payloader]
  BY <1>1 DEF RtpTypeOK
<1>8. \A j \in RtpKind : PayOf(j)
  BY DEF PayInv, PayOf, ConnInv
<1>9. payloaders' = [payloaders EXCEPT ![k] = do_connect_payloader(payloaders[k])]
  BY DEF ConnectPayloader, Kind_
<1>10. /\ \A j \in RtpKind : AtKind("connect", j) <=> j = k
       /\ \A j \in RtpKind : ~AtKind("read", j) /\ ~AtKind("connect", j)' /\ ~AtKind("read", j)'
  BY <1>4 DEF AtKind
<1>11. NameOf(k)' = NameOf(k)
  BY <1>2 DEF NameOf
<1> HIDE DEF k
<1>12. PayOf(k)'
  <2>1. payloaders[k] \in Payloader /\ payloaders[k].times = IF payloaders[k].connected_flag THEN 1 ELSE 0
    BY <1>3, <1>7, <1>8 DEF PayOf
  <2>2. do_connect_payloader(payloaders[k]).times = 1 /\ do_connect_payloader(payloaders[k]).connected_flag
    BY <2>1, ConnectedOnce, PayloaderField
  <2>3. payloaders'[k].times = 1 /\ payloaders'[k].connected_flag
    BY <1>3, <1>7, <1>9, <2>2
  <2>4. conns[NameOf(k)].connected
    BY <1>3, <1>8, <1>10 DEF PayOf
  <2> QED
    BY <1>2, <1>3, <1>8, <1>11, <2>3, <2>4 DEF PayOf, connVars
<1>13. ASSUME NEW j \in RtpKind, j # k
       PROVE  PayOf(j)'
  <2>1. payloaders'[j] = payloaders[j]
    BY <1>7, <1>9, <1>13
  <2> QED
    BY <1>1, <1>2, <1>8, <1>10, <1>13, <2>1, PayOther DEF connVars
<1>14. PayInv'
  BY <1>12, <1>13 DEF PayInv, PayOf
<1> QED
  BY <1>1, <1>5, <1>6, <1>14 DEF ConnInv

(* The "connected" signal calls the handler of a payloader. *)
LEMMA ConnectedPayloaderStep ==
  ASSUME ConnInv, NEW n \in ConnNames, NEW k \in RtpKind, ConnectedPayloader(n, k)
  PROVE  ConnInv'
<1>1. RtpTypeOK /\ RtpTypeOK'
  BY ConnectedPayloaderType DEF ConnInv
<1>2. UNCHANGED <<line, rtp_pc, handlers_of, conn_state, conn_pending, conn_told>>
  BY DEF ConnectedPayloader
<1>3. /\ conns[n].emitting # <<>> /\ Head(conns[n].emitting) = k
      /\ conns' = [conns EXCEPT ![n].emitting = Tail(@)]
  BY DEF ConnectedPayloader
<1>4. /\ \A m \in ConnNames :
           /\ conns'[m].made <=> conns[m].made
           /\ conns'[m].connected <=> conns[m].connected
           /\ conns'[m].emitted <=> conns[m].emitted
           /\ m # n => conns'[m].emitting = conns[m].emitting
      /\ \A x : Listed(x, conns'[n].emitting) => Listed(x, conns[n].emitting)
      /\ \A x : Listed(x, conns[n].emitting) => (x = k \/ Listed(x, conns'[n].emitting))
      /\ Listed(k, conns[n].emitting)
  BY <1>1, <1>3, EmissionGoesOn
<1>5. ToldInv'
  <2>1. k # SessionHandler
    BY KindsAre DEF SessionHandler
  <2>2. \A m \in ConnNames : Listed(SessionHandler, conns[m].emitting) => Listed(SessionHandler, conns'[m].emitting)
    BY <1>4, <2>1
  <2> QED
    BY <1>1, <1>2, <1>4, <2>2, ToldKeeps DEF ConnInv
<1>6. ~Early(rtp_pc)
  BY <1>3 DEF Early, EarlyInv, ConnInv
<1>7. EarlyInv'
  BY <1>2, <1>6 DEF EarlyInv, Early
<1>8. EmitInv'
  BY <1>3, <1>4 DEF EmitInv, ConnInv
<1>9. \A j \in RtpKind : PayOf(j)
  BY DEF PayInv, PayOf, ConnInv
<1>10. n = NameOf(k) /\ NameOf(k)' = NameOf(k)
  BY <1>2, <1>4, <1>9 DEF PayOf, NameOf
<1>11. conns[n].connected
  BY <1>3 DEF EmitInv, ConnInv
<1>12. \A step, j : AtKind(step, j)' <=> AtKind(step, j)
  BY <1>2 DEF AtKind
<1> DEFINE p == payloaders[k]
           d == do_connect_payloader(p)
<1>13. payloaders \in [RtpKind -> Payloader] /\ p \in Payloader
  BY <1>1 DEF RtpTypeOK
<1>14. payloaders' = [payloaders EXCEPT ![k] = IF p.handler THEN [d EXCEPT !.handler = FALSE] ELSE p]
  BY DEF ConnectedPayloader
<1>15. d \in Payloader /\ d.times = 1 /\ d.connected_flag
  BY <1>9, <1>13, PayloaderField, ConnectedOnce DEF PayOf
<1> HIDE DEF d, p
<1>16. \A m \in ConnNames : (Listed(k, handlers_of'[m]) \/ Listed(k, conns'[m].emitting)) => m = NameOf(k)'
  BY <1>2, <1>4, <1>9, <1>10 DEF PayOf
<1>17. PayOf(k)'
  <2>1. CASE p.handler
    <3>1. payloaders'[k] = [d EXCEPT !.handler = FALSE]
      BY <1>13, <1>14, <2>1
    <3>2. payloaders'[k].times = 1 /\ payloaders'[k].connected_flag
      BY <1>15, <3>1 DEF Payloader
    <3>3. conns'[NameOf(k)'].connected
      BY <1>4, <1>10, <1>11
    <3> QED
      BY <1>16, <3>2, <3>3 DEF PayOf
  <2>2. CASE ~p.handler
    <3>1. payloaders'[k] = payloaders[k]
      BY <1>13, <1>14, <2>2 DEF p
    <3>2. ~Waits(k)
      BY <2>2 DEF Waits, p
    <3>3. conns'[NameOf(k)'].connected
      BY <1>4, <1>10, <1>11
    <3> QED
      BY <1>9, <1>12, <1>16, <3>1, <3>2, <3>3 DEF PayOf
  <2> QED
    BY <2>1, <2>2
<1>18. ASSUME NEW j \in RtpKind, j # k
       PROVE  PayOf(j)'
  <2>1. payloaders'[j] = payloaders[j]
    BY <1>13, <1>14, <1>18
  <2>2. \A m \in ConnNames : Listed(j, conns'[m].emitting) <=> Listed(j, conns[m].emitting)
    BY <1>4, <1>18
  <2> QED
    BY <1>1, <1>2, <1>4, <1>9, <1>12, <2>1, <2>2, PayOther
<1>19. PayInv'
  BY <1>17, <1>18 DEF PayInv, PayOf
<1> QED
  BY <1>1, <1>5, <1>7, <1>8, <1>19 DEF ConnInv

(* What the threads know of the connections holds at first and after every step. *)
LEMMA ConnInvInit ==
  RtpInit => ConnInv
<1> SUFFICES ASSUME RtpInit PROVE ConnInv
  OBVIOUS
<1>1. EarlyInv
  BY DEF RtpInit, EarlyInv, NoConn
<1>2. EmitInv
  BY DEF RtpInit, EmitInv, NoConn
<1>3. ToldInv
  BY DEF RtpInit, ToldInv
<1>4. PayInv
  <2>1. \A k \in RtpKind : payloaders[k].times = 0 /\ ~payloaders[k].connected_flag /\ ~payloaders[k].made
    BY DEF RtpInit
  <2>2. \A k \in RtpKind : ~AtKind("connect", k)
    BY DEF RtpInit, AtKind
  <2>3. \A n \in ConnNames : handlers_of[n] = <<>> /\ conns[n].emitting = <<>>
    BY DEF RtpInit, NoConn
  <2> QED
    BY <2>1, <2>2, <2>3, ListedNone DEF PayInv
<1> QED
  BY <1>1, <1>2, <1>3, <1>4, TypeInit DEF ConnInv

(* No step breaks the invariant of connections and payloaders. *)
LEMMA ConnInvStep ==
  ConnInv /\ [RtpNext]_rtpVars => ConnInv'
<1> SUFFICES ASSUME ConnInv, [RtpNext]_rtpVars PROVE ConnInv'
  OBVIOUS
<1>1. CASE Negotiate
  BY <1>1, KindsAre, ConfigureStep, ConfigureConnectionStep, SkipStep, AttachStep, ReadStep,
     ConnectStep, SubscribeStep, UpdateConnStep DEF Negotiate
<1>2. CASE ConnectionNext
  BY <1>2, ConnectedStep, EmitStep, ConnectedSessionStep, ConnectedPayloaderStep, TellConnStep
     DEF ConnectionNext
<1>3. CASE StreamNext \/ RtcpNext \/ UNCHANGED rtpVars
  <2>1. UNCHANGED <<line, rtp_pc, connVars, payloaders>>
    <3>1. CASE StreamNext
      BY <3>1 DEF StreamNext, NewSsrcPad, ReceiverReport, StreamStarts, PadAdded
    <3>2. CASE RtcpNext
      BY <3>2 DEF RtcpNext, SsrcActive, SsrcTimeout, SsrcBye, SsrcSdes, TellMediaState, StopSignal
    <3>3. CASE UNCHANGED rtpVars
      BY <3>3 DEF rtpVars, connVars
    <3> QED
      BY <1>3, <3>1, <3>2, <3>3
  <2>2. RtpTypeOK'
    BY TypeStep DEF ConnInv
  <2>3. QuietConns
    BY <2>1 DEF QuietConns, connVars
  <2> QED
    BY <2>1, <2>2, <2>3, QuietStep DEF connVars
<1> QED
  BY <1>1, <1>2, <1>3 DEF RtpNext

(* The invariant of connections and payloaders holds of every behaviour. *)
LEMMA ConnInvHolds == RtpSpec => []ConnInv
BY ConnInvInit, ConnInvStep, PTL DEF RtpSpec

(* Whichever of the negotiating thread and the "connected" signal comes first, and however
   their steps interleave, a payloader is connected to the sink pad at most once, only when
   its connection is connected, and is when both are through (connect_payloader_async). *)
THEOREM PayloadersAlwaysConnected == RtpSpec => []PayloadersConnected
<1>1. ConnInv => PayloadersConnected
  <2> SUFFICES ASSUME ConnInv, NEW k \in RtpKind
               PROVE  LET n == NameOf(k)
                      IN  /\ payloaders[k].times <= 1
                          /\ payloaders[k].times = 1 => conns[n].connected
                          /\ (/\ rtp_pc[1] = "done" /\ payloaders[k].made /\ conns[n].emitted
                              /\ conns[n].emitting = <<>>) => payloaders[k].times = 1
    BY DEF PayloadersConnected
  <2>1. PayOf(k)
    BY DEF PayInv, PayOf, ConnInv
  <2>2. payloaders[k].times <= 1 /\ (payloaders[k].times = 1 => payloaders[k].connected_flag)
    BY <2>1 DEF PayOf
  <2>3. ASSUME rtp_pc[1] = "done", conns[NameOf(k)].emitted, conns[NameOf(k)].emitting = <<>>
        PROVE  ~Waits(k) /\ ~AtKind("connect", k)
    BY <2>3, ListedNone DEF Waits, AtKind
  <2> QED
    BY <2>1, <2>2, <2>3 DEF PayOf
<1> QED
  BY <1>1, ConnInvHolds, PTL

(* The server object reports CONNECTED only when all connections of the session are connected,
   and does so once they are and every thread has told what it worked out
   (update_conn_state, check_conn_status). *)
THEOREM ConnectionAlwaysTold == RtpSpec => []ConnectionTold
<1>1. ConnInv => ConnectionTold
  <2> SUFFICES ASSUME ConnInv PROVE ConnectionTold
    OBVIOUS
  <2>1. conn_told => \A n \in ConnNames : conns[n].made => conns[n].connected
    BY DEF ConnInv, ToldInv, AllConnected
  <2>2. ASSUME rtp_pc[1] \notin {"configure", "subscribe", "update"},
               \A t \in Threads_ : conn_pending[t] = <<>>,
               \A n \in ConnNames : conns[n].made =>
                 conns[n].connected /\ conns[n].emitted /\ conns[n].emitting = <<>>
        PROVE  conn_told
    <3>1. ~StillToCome
      BY <2>2, ListedNone DEF StillToCome
    <3>2. conn_state
      BY <2>2, <3>1 DEF ConnInv, ToldInv
    <3> QED
      BY <2>2, <3>2 DEF ConnInv, ToldInv
  <2> QED
    BY <2>1, <2>2 DEF ConnectionTold
<1> QED
  BY <1>1, ConnInvHolds, PTL

-----------------------------------------------------------------------------
(* The estimate of the bitrate.                                            *)

(* Division with remainder. *)
LEMMA Division ==
  ASSUME NEW n \in Int, NEW d \in Int, d > 0
  PROVE  /\ n \div d \in Int /\ n % d \in 0..(d - 1)
         /\ n = (n \div d) * d + (n % d)
OBVIOUS

(* Products grow with a factor. *)
LEMMA Product ==
  ASSUME NEW q \in Int, NEW r \in Int, q <= r, NEW d \in Int, d > 0
  PROVE  q * d <= r * d /\ q * d \in Int
OBVIOUS

(* More gives no smaller a quotient. *)
LEMMA QuotientGrows ==
  ASSUME NEW m \in Int, NEW n \in Int, m <= n, NEW d \in Int, d > 0
  PROVE  m \div d <= n \div d
<1> DEFINE q == n \div d
           r == m \div d
           x == n % d
           y == m % d
<1>1. q \in Int /\ n = q * d + x /\ x \in 0..(d - 1)
  BY Division
<1>2. r \in Int /\ m = r * d + y /\ y \in 0..(d - 1)
  BY Division
<1> HIDE DEF q, r, x, y
<1>3. ASSUME q + 1 <= r PROVE FALSE
  <2>1. (q + 1) * d <= r * d
    BY <1>1, <1>2, <1>3, Product
  <2>2. (q + 1) * d = q * d + d
    BY <1>1
  <2> QED
    BY <1>1, <1>2, <2>1, <2>2
<1> QED
  BY <1>1, <1>2, <1>3 DEF q, r

(* A quotient is a number, and no more than what was divided. *)
LEMMA Quotient ==
  ASSUME NEW n \in Nat, NEW d \in Int, d > 0
  PROVE  n \div d \in Nat /\ n \div d <= n
<1>1. 0 \div d = 0
  OBVIOUS
<1>2. n \div d \in Nat
  BY <1>1, QuotientGrows, Division
<1>3. (n \div d) * 1 <= (n \div d) * d
  BY <1>2
<1> QED
  BY <1>2, <1>3, Division

(* A remainder is a number, and no more than what was divided. *)
LEMMA Remainder ==
  ASSUME NEW n \in Nat, NEW d \in Int, d > 0
  PROVE  n % d \in Nat /\ n % d <= n
<1>1. (n \div d) * d >= 0
  BY Quotient
<1> QED
  BY <1>1, Division

(* The counters of a source, those of the last report, and KmsRembLocal, what it sent (s) and
   what the peer reads of that (t) left open. *)
SourceCounters == [packets : Nat, octets : Nat, expected : Nat, fraction : Nat,
                   restarted : BOOLEAN, got : Nat]
SeenCounters == [packets : Nat, octets : Nat, expected : Nat]
Local(s, t) ==
  [params : LocalParams, min_bw : Nat, max_bw : Nat, probed : BOOLEAN, remb : Nat,
   remb_sent : {s}, told : {t}, threshold : Nat, lineal_factor : Nat, record : Nat,
   max_br : Nat, avg_br : Nat, last_time : Nat, last_sent_time : Nat]

EstimateTypes ==
  /\ now \in Nat /\ peak \in Nat /\ unnoticed \in BOOLEAN
  /\ source \in SourceCounters /\ seen \in SeenCounters
  /\ rl \in Local(rl.remb_sent, rl.told)

(* What came since the last report is counted: all of it, if the source did not restart. *)
GotInv ==
  IF source.restarted THEN source.octets <= source.got
  ELSE /\ seen.packets <= source.packets /\ seen.octets <= source.octets
       /\ source.octets - seen.octets <= source.got

(* The record of the bitrates, and the estimate made from it, with a peak of p. *)
RecordBound(r, p) == r.max_br <= p /\ r.avg_br <= p /\ (r.probed => r.remb <= 2 * p)

(* The inductive invariant of the estimate. *)
EstimateInv == EstimateTypes /\ GotInv /\ (unnoticed \/ RecordBound(rl, peak))

(* Tenths of a number are numbers, and not more than it if there are ten at most. *)
LEMMA TenthsOf ==
  ASSUME NEW n \in Nat, NEW f \in Nat
  PROVE  Tenths(n, f) \in Nat /\ (f <= 10 => Tenths(n, f) <= n)
<1>1. n * f \in Nat
  OBVIOUS
<1>2. Tenths(n, f) \in Nat
  BY <1>1, Quotient DEF Tenths
<1>3. ASSUME f <= 10 PROVE Tenths(n, f) <= n
  <2>1. n * f <= n * 10
    BY <1>3
  <2> QED
    BY <1>1, <2>1 DEF Tenths
<1> QED
  BY <1>2, <1>3

(* kms_remb_local_update: whatever branch it takes, the estimate and its record stay below what
   the bitrates allow. *)
LEMMA UpdatedBounds ==
  ASSUME NEW s, NEW t, rl \in Local(s, t), NEW info, NEW p \in Nat,
         info.bitrate \in Nat, info.fraction \in Nat, info.packets \in Nat
  PROVE  /\ Updated(info) \in Local(s, t)
         /\ (info.bitrate <= p /\ RecordBound(rl, p)) => RecordBound(Updated(info), p)
<1> DEFINE q == rl.params
           top == AtLeast(q.packets_recv_interval_top, info.packets)
           record == (rl.record * (top - info.packets) + info.fraction * info.packets) \div top
           begun == IF rl.probed THEN rl.remb ELSE info.bitrate
           max_br == AtLeast(rl.max_br, info.bitrate)
           avg_br == IF rl.avg_br = 0 THEN info.bitrate ELSE (rl.avg_br * 7 + info.bitrate) \div 8
           base0 == AtLeast(begun, max_br)
           grown == IF base0 < rl.threshold THEN base0 + Tenths(base0, q.exponential_factor)
                    ELSE base0 + rl.lineal_factor
           base == AtLeast(begun, avg_br)
           threshold == Tenths(base, q.threshold_factor)
           lineal == AtLeast(q.lineal_factor_min, (base - threshold) \div q.lineal_factor_grade)
           after == [rl EXCEPT !.probed = TRUE, !.record = record, !.max_br = max_br, !.avg_br = avg_br]
           lossy == [after EXCEPT !.threshold = threshold, !.lineal_factor = lineal]
           up == AtLeast(begun, AtMost(grown, max_br * 2))
           keep == AtMost(begun, max_br)
           down == Tenths(base, q.decrement_factor)
           next == CASE record = 0 -> [after EXCEPT !.remb = up]
                     [] record > 0 /\ record < q.up_losses -> [lossy EXCEPT !.remb = keep]
                     [] OTHER -> [lossy EXCEPT !.remb = down, !.record = 0, !.max_br = 0, !.avg_br = 0]
           low == info.bitrate <= p /\ RecordBound(rl, p)
<1>1. /\ q \in LocalParams /\ rl.probed \in BOOLEAN /\ rl.max_bw \in Nat
      /\ {rl.remb, rl.threshold, rl.lineal_factor, rl.record, rl.max_br, rl.avg_br} \subseteq Nat
  BY DEF Local
<1>2. /\ q.packets_recv_interval_top \in Nat /\ q.packets_recv_interval_top > 0
      /\ q.exponential_factor \in Nat /\ q.lineal_factor_min \in Nat
      /\ q.lineal_factor_grade \in Nat /\ q.lineal_factor_grade > 0
      /\ q.decrement_factor \in Nat /\ q.decrement_factor <= 10
      /\ q.threshold_factor \in Nat /\ q.up_losses \in Nat
  BY <1>1, RembAssumption
<1>3. Updated(info) = IF rl.max_bw > 0 THEN [next EXCEPT !.remb = AtMost(@, rl.max_bw)] ELSE next
  BY DEF Updated
<1>4. record \in Nat
  <2>1. top \in Nat /\ top > 0 /\ top >= info.packets
    BY <1>2 DEF AtLeast
  <2> HIDE DEF top, q
  <2>2. rl.record * (top - info.packets) + info.fraction * info.packets \in Nat
    <3>1. top - info.packets \in Nat /\ rl.record \in Nat
      BY <1>1, <2>1
    <3>2. rl.record * (top - info.packets) \in Nat
      BY <3>1
    <3>3. info.fraction * info.packets \in Nat
      OBVIOUS
    <3> QED
      BY <3>2, <3>3
  <2> QED
    BY <2>1, <2>2, Quotient
<1>5. begun \in Nat /\ max_br \in Nat /\ avg_br \in Nat
  BY <1>1 DEF AtLeast
<1>6. low => begun <= 2 * p /\ max_br <= p /\ avg_br <= p
  BY <1>1 DEF AtLeast, RecordBound
<1> HIDE DEF q, top, record, begun, max_br, avg_br
<1>7. base \in Nat /\ base0 \in Nat /\ (low => base <= 2 * p)
  BY <1>5, <1>6 DEF AtLeast
<1>8. threshold \in Nat /\ down \in Nat /\ (low => down <= 2 * p)
  <2> HIDE DEF base, low
  <2>1. Tenths(base, q.threshold_factor) \in Nat
    BY <1>2, <1>7, TenthsOf
  <2>2. Tenths(base, q.decrement_factor) \in Nat /\ Tenths(base, q.decrement_factor) <= base
    BY <1>2, <1>7, TenthsOf
  <2> QED
    BY <1>7, <2>1, <2>2
<1>9. grown \in Nat
  <2> HIDE DEF base0
  <2>1. Tenths(base0, q.exponential_factor) \in Nat
    BY <1>2, <1>7, TenthsOf
  <2> QED
    BY <1>1, <1>7, <2>1
<1> HIDE DEF base, base0, threshold, down, grown
<1>10. lineal \in Nat
  <2>1. (base - threshold) \div q.lineal_factor_grade \in Int
    BY <1>2, <1>7, <1>8, Division
  <2> QED
    BY <1>2, <2>1 DEF AtLeast
<1>11. up \in Nat /\ keep \in Nat /\ (low => up <= 2 * p /\ keep <= 2 * p)
  BY <1>5, <1>6, <1>9 DEF AtLeast, AtMost
<1> HIDE DEF lineal, up, keep
<1>12. /\ after \in Local(s, t) /\ after.probed = TRUE /\ after.max_bw = rl.max_bw
       /\ after.max_br = max_br /\ after.avg_br = avg_br
  BY <1>4, <1>5 DEF Local
<1> HIDE DEF after
<1>13. /\ lossy \in Local(s, t) /\ lossy.probed = TRUE /\ lossy.max_bw = rl.max_bw
       /\ lossy.max_br = max_br /\ lossy.avg_br = avg_br
  BY <1>8, <1>10, <1>12 DEF Local
<1> HIDE DEF lossy
<1>14. next \in Local(s, t) /\ (low => RecordBound(next, p))
  <2>1. CASE record = 0
    <3>1. next = [after EXCEPT !.remb = up]
      BY <2>1
    <3> HIDE DEF next
    <3>2. /\ next \in Local(s, t) /\ next.remb = up /\ next.max_br = max_br /\ next.avg_br = avg_br
      BY <1>11, <1>12, <3>1 DEF Local
    <3> QED
      BY <1>6, <1>11, <3>2 DEF RecordBound
  <2>2. CASE record # 0 /\ record > 0 /\ record < q.up_losses
    <3>1. next = [lossy EXCEPT !.remb = keep]
      BY <2>2
    <3> HIDE DEF next
    <3>2. /\ next \in Local(s, t) /\ next.remb = keep /\ next.max_br = max_br /\ next.avg_br = avg_br
      BY <1>11, <1>13, <3>1 DEF Local
    <3> QED
      BY <1>6, <1>11, <3>2 DEF RecordBound
  <2>3. CASE record # 0 /\ ~(record > 0 /\ record < q.up_losses)
    <3>1. next = [lossy EXCEPT !.remb = down, !.record = 0, !.max_br = 0, !.avg_br = 0]
      BY <2>3
    <3> HIDE DEF next
    <3>2. /\ next \in Local(s, t) /\ next.remb = down /\ next.max_br = 0 /\ next.avg_br = 0
      BY <1>8, <1>13, <3>1 DEF Local
    <3> QED
      BY <1>8, <3>2 DEF RecordBound
  <2> QED
    BY <2>1, <2>2, <2>3
<1> HIDE DEF next, low
<1>15. CASE rl.max_bw > 0
  <2> DEFINE limited == AtMost(next.remb, rl.max_bw)
             end == [next EXCEPT !.remb = limited]
  <2>1. next.remb \in Nat /\ limited \in Nat /\ limited <= next.remb
    BY <1>1, <1>14 DEF Local, AtMost
  <2>2. Updated(info) = end
    BY <1>3, <1>15
  <2> HIDE DEF limited
  <2>3. /\ end \in Local(s, t) /\ end.remb = limited /\ end.max_br = next.max_br
        /\ end.avg_br = next.avg_br /\ (end.probed <=> next.probed)
    BY <1>14, <2>1 DEF Local
  <2> HIDE DEF end
  <2>4. low => RecordBound(end, p)
    BY <1>14, <2>1, <2>3 DEF RecordBound
  <2> QED
    BY <2>2, <2>3, <2>4 DEF low
<1>16. CASE ~(rl.max_bw > 0)
  BY <1>3, <1>14, <1>16 DEF low
<1> QED
  BY <1>15, <1>16

(* kms_rl_remote_session_get_sessions_info: the bitrate is no more than what was received, since
   the last report, unless the source restarted and the counters do not show it. *)
LEMMA InfoBounds ==
  ASSUME EstimateTypes, GotInv, now > rl.last_time
  PROVE  /\ RecvInfo.bitrate \in Nat /\ RecvInfo.fraction \in Nat /\ RecvInfo.packets \in Nat
         /\ LET most == IF rl.last_time = Never THEN source.got
                        ELSE source.got \div (now - rl.last_time)
            IN  /\ most \in Nat
                /\ ~(source.restarted /\ seen.packets <= source.packets) => RecvInfo.bitrate <= most
<1> DEFINE expected == source.expected - LastSeen.expected
           octets == (source.octets - LastSeen.octets) % COUNTER_SIZE
           d == now - rl.last_time
           noticed == ~(source.restarted /\ seen.packets <= source.packets)
<1>1. /\ source.packets \in Nat /\ source.octets \in Nat /\ source.expected \in Nat
      /\ source.fraction \in Nat /\ source.restarted \in BOOLEAN /\ source.got \in Nat
      /\ seen.packets \in Nat /\ seen.octets \in Nat /\ seen.expected \in Nat
      /\ now \in Nat /\ rl.last_time \in Nat
  BY DEF EstimateTypes, SourceCounters, SeenCounters, Local
<1>2. d \in Int /\ d > 0 /\ COUNTER_SIZE \in Nat /\ COUNTER_SIZE > 0
  BY <1>1, RembAssumption
<1>3. /\ LastSeen.packets \in Nat /\ LastSeen.packets <= source.packets
      /\ LastSeen.octets \in Nat /\ LastSeen.expected \in Nat
      /\ noticed => /\ LastSeen.octets <= source.octets
                    /\ source.octets - LastSeen.octets <= source.got
  <2>1. CASE seen.packets > source.packets
    <3>1. LastSeen = NothingSeen
      BY <2>1 DEF LastSeen
    <3>2. noticed => source.octets <= source.got
      BY <1>1, <2>1 DEF GotInv
    <3> QED
      BY <1>1, <3>1, <3>2 DEF NothingSeen
  <2>2. CASE ~(seen.packets > source.packets)
    <3>1. LastSeen = seen
      BY <2>2 DEF LastSeen
    <3>2. seen.packets <= source.packets
      BY <1>1, <2>2
    <3> QED
      BY <1>1, <3>1, <3>2 DEF GotInv
  <2> QED
    BY <2>1, <2>2
<1>4. RecvInfo = [found |-> expected # 0,
                  bitrate |-> IF rl.last_time = Never THEN source.got ELSE octets \div d,
                  fraction |-> IF expected > 0 THEN source.fraction ELSE 0,
                  packets |-> source.packets - LastSeen.packets]
  BY DEF RecvInfo
<1>5. /\ RecvInfo.bitrate = IF rl.last_time = Never THEN source.got ELSE octets \div d
      /\ RecvInfo.fraction = IF expected > 0 THEN source.fraction ELSE 0
      /\ RecvInfo.packets = source.packets - LastSeen.packets
  BY <1>4
<1>6. octets \in Nat /\ (noticed => octets <= source.got)
  <2> DEFINE n == source.octets - LastSeen.octets
  <2>1. n \in Int /\ (noticed => n \in Nat /\ n <= source.got)
    BY <1>1, <1>3
  <2> HIDE DEF n
  <2>2. n % COUNTER_SIZE \in Nat
    BY <1>2, <2>1, Division
  <2>3. n \in Nat => n % COUNTER_SIZE <= n
    BY <1>2, Remainder
  <2>4. octets = n % COUNTER_SIZE
    BY DEF n
  <2> HIDE DEF octets
  <2> QED
    BY <1>1, <2>1, <2>2, <2>3, <2>4
<1> HIDE DEF octets, d, noticed
<1>7. octets \div d \in Nat /\ source.got \div d \in Nat
  BY <1>1, <1>2, <1>6, Quotient
<1>8. noticed => octets \div d <= source.got \div d
  BY <1>1, <1>2, <1>6, QuotientGrows
<1>9. RecvInfo.fraction \in Nat /\ RecvInfo.packets \in Nat
  BY <1>1, <1>3, <1>5
<1> QED
  BY <1>1, <1>5, <1>7, <1>8, <1>9 DEF d, noticed

(* on_sending_rtcp *)
LEMMA SendRtcpKeeps ==
  ASSUME EstimateInv, SendRtcp
  PROVE  EstimateInv'
<1> DEFINE info == RecvInfo
           usable == info.found /\ (rl.probed \/ info.bitrate # 0)
           most == IF rl.last_time = Never THEN source.got ELSE source.got \div (now - rl.last_time)
           hidden == source.restarted /\ seen.packets <= source.packets
<1>1. /\ seen' = [packets |-> source.packets, octets |-> source.octets, expected |-> source.expected]
      /\ unnoticed' = (unnoticed \/ hidden)
      /\ source' = [source EXCEPT !.restarted = FALSE, !.got = IF info.found THEN 0 ELSE @]
      /\ peak' = IF ~info.found THEN peak ELSE AtLeast(peak, most)
      /\ now' = now /\ now > rl.last_time
  BY DEF SendRtcp
<1>2. /\ IF usable
         THEN LET next == Updated(info)
                  limited == IF em'.min > 0 THEN AtMost(next.remb, em'.min) ELSE next.remb
                  sent == AtLeast(AtLeast(limited, rl.min_bw), REMB_MIN)
              IN  rl' = [next EXCEPT !.last_time = now, !.last_sent_time = now,
                           !.remb_sent = sent, !.told = Marshalled(sent)]
         ELSE rl' = IF info.found THEN [rl EXCEPT !.last_time = now] ELSE rl
  BY DEF SendRtcp
<1>3. /\ now \in Nat /\ peak \in Nat /\ unnoticed \in BOOLEAN /\ source \in SourceCounters
      /\ rl \in Local(rl.remb_sent, rl.told)
  BY DEF EstimateInv, EstimateTypes
<1>4. /\ info.bitrate \in Nat /\ info.fraction \in Nat /\ info.packets \in Nat /\ most \in Nat
      /\ ~hidden => info.bitrate <= most
  BY <1>1, InfoBounds DEF EstimateInv
<1>5. unnoticed \/ RecordBound(rl, peak)
  BY DEF EstimateInv
<1>6. hidden \in BOOLEAN
  BY <1>3 DEF SourceCounters
<1> HIDE DEF info, most, hidden
<1>7. /\ source' \in SourceCounters /\ seen' \in SeenCounters /\ GotInv'
  <2>1. /\ source.packets \in Nat /\ source.octets \in Nat /\ source.expected \in Nat
        /\ source.got \in Nat
    BY <1>3 DEF SourceCounters
  <2> DEFINE g == IF info.found THEN 0 ELSE source.got
  <2>2. g \in Nat /\ source' = [source EXCEPT !.restarted = FALSE, !.got = g]
    BY <1>1, <1>3, <2>1 DEF SourceCounters
  <2> HIDE DEF g
  <2>3. /\ source' \in SourceCounters /\ source'.restarted = FALSE /\ source'.got = g
        /\ source'.packets = source.packets /\ source'.octets = source.octets
    BY <1>3, <2>2 DEF SourceCounters
  <2>4. /\ seen' \in SeenCounters /\ seen'.packets = source.packets /\ seen'.octets = source.octets
    BY <1>1, <2>1 DEF SeenCounters
  <2> QED
    BY <2>1, <2>2, <2>3, <2>4 DEF GotInv
<1>8. peak' \in Nat /\ peak <= peak' /\ (info.found => most <= peak')
  BY <1>1, <1>3, <1>4 DEF AtLeast
<1>9. unnoticed' \in BOOLEAN /\ (~unnoticed' => ~unnoticed /\ ~hidden)
  BY <1>1, <1>3, <1>6
<1>10. rl.max_br \in Nat /\ rl.avg_br \in Nat /\ rl.remb \in Nat
  BY <1>3 DEF Local
<1>11. ~unnoticed' => RecordBound(rl, peak')
  BY <1>3, <1>5, <1>8, <1>9, <1>10 DEF RecordBound
<1>12. rl' \in Local(rl'.remb_sent, rl'.told) /\ (~unnoticed' => RecordBound(rl', peak'))
  <2>1. CASE usable
    <3> DEFINE next == Updated(info)
               limited == IF em'.min > 0 THEN AtMost(next.remb, em'.min) ELSE next.remb
               sent == AtLeast(AtLeast(limited, rl.min_bw), REMB_MIN)
    <3>1. rl' = [next EXCEPT !.last_time = now, !.last_sent_time = now,
                   !.remb_sent = sent, !.told = Marshalled(sent)]
      BY <1>2, <2>1
    <3>2. next \in Local(rl.remb_sent, rl.told)
      BY <1>3, <1>4, <1>8, UpdatedBounds
    <3>3. ~unnoticed' => info.bitrate <= peak'
      BY <1>4, <1>8, <1>9, <2>1
    <3>4. ~unnoticed' => RecordBound(next, peak')
      BY <1>3, <1>4, <1>8, <1>11, <3>3, UpdatedBounds
    <3> HIDE DEF next, sent
    <3>5. /\ rl' \in Local(sent, Marshalled(sent)) /\ rl'.remb_sent = sent
          /\ rl'.told = Marshalled(sent) /\ rl'.max_br = next.max_br /\ rl'.avg_br = next.avg_br
          /\ rl'.remb = next.remb /\ (rl'.probed <=> next.probed)
      BY <1>3, <3>1, <3>2 DEF Local
    <3> QED
      BY <3>4, <3>5 DEF RecordBound
  <2>2. CASE ~usable /\ info.found
    <3>1. rl' = [rl EXCEPT !.last_time = now]
      BY <1>2, <2>2
    <3>2. /\ rl' \in Local(rl.remb_sent, rl.told) /\ rl'.remb_sent = rl.remb_sent
          /\ rl'.told = rl.told /\ rl'.max_br = rl.max_br /\ rl'.avg_br = rl.avg_br
          /\ rl'.remb = rl.remb /\ (rl'.probed <=> rl.probed)
      BY <1>3, <3>1 DEF Local
    <3> QED
      BY <1>11, <3>2 DEF RecordBound
  <2>3. CASE ~usable /\ ~info.found
    BY <1>2, <1>3, <1>11, <2>3
  <2> QED
    BY <2>1, <2>2, <2>3
<1>13. EstimateTypes'
  BY <1>1, <1>3, <1>7, <1>8, <1>9, <1>12 DEF EstimateTypes
<1> QED
  BY <1>7, <1>9, <1>12, <1>13 DEF EstimateInv

(* A source gets packets, or is found restarted first. *)
LEMMA TickKeeps ==
  ASSUME EstimateInv, NEW a \in Arrivals \cup SteadyArrivals, NEW restart \in BOOLEAN, Tick(a, restart)
  PROVE  EstimateInv'
<1> DEFINE was == IF restart THEN [source EXCEPT !.packets = 0, !.octets = 0, !.expected = 0,
                                                !.restarted = TRUE] ELSE source
<1>1. /\ now' = now + 1
      /\ source' = [was EXCEPT !.packets = @ + a.packets, !.octets = @ + a.octets,
                               !.expected = @ + a.packets + a.lost,
                               !.fraction = a.fraction, !.got = @ + a.octets]
      /\ UNCHANGED <<seen, rl, peak, unnoticed>>
  BY DEF Tick
<1>2. a.packets \in Nat /\ a.octets \in Nat /\ a.lost \in Nat /\ a.fraction \in Nat
  BY RembAssumption
<1>3. /\ now \in Nat /\ source \in SourceCounters /\ seen \in SeenCounters
  BY DEF EstimateInv, EstimateTypes
<1>4. /\ was \in SourceCounters /\ was.got = source.got
      /\ IF was.restarted THEN was.octets <= was.got
         ELSE /\ seen.packets <= was.packets /\ seen.octets <= was.octets
              /\ was.octets - seen.octets <= was.got
  <2>1. CASE restart
    <3>1. was = [source EXCEPT !.packets = 0, !.octets = 0, !.expected = 0, !.restarted = TRUE]
      BY <2>1
    <3> HIDE DEF was
    <3>2. /\ was \in SourceCounters /\ was.got = source.got /\ was.restarted = TRUE /\ was.octets = 0
      BY <1>3, <3>1 DEF SourceCounters
    <3>3. source.got \in Nat
      BY <1>3 DEF SourceCounters
    <3> QED
      BY <3>2, <3>3
  <2>2. CASE ~restart
    BY <1>3, <2>2 DEF EstimateInv, GotInv
  <2> QED
    BY <2>1, <2>2
<1> HIDE DEF was
<1>5. /\ was.packets \in Nat /\ was.octets \in Nat /\ was.expected \in Nat /\ was.got \in Nat
      /\ was.restarted \in BOOLEAN
  BY <1>4 DEF SourceCounters
<1>6. /\ source'.packets = was.packets + a.packets /\ source'.octets = was.octets + a.octets
      /\ source'.got = was.got + a.octets /\ (source'.restarted <=> was.restarted)
      /\ source' \in SourceCounters
  <2> DEFINE x == was.packets + a.packets
             y == was.octets + a.octets
             z == was.expected + a.packets + a.lost
             g == was.got + a.octets
  <2>1. x \in Nat /\ y \in Nat /\ z \in Nat /\ g \in Nat
    BY <1>2, <1>5
  <2>2. source' = [was EXCEPT !.packets = x, !.octets = y, !.expected = z,
                              !.fraction = a.fraction, !.got = g]
    BY <1>1, <1>4 DEF SourceCounters
  <2> HIDE DEF x, y, z, g
  <2>3. /\ source'.packets = x /\ source'.octets = y /\ source'.got = g
        /\ source'.restarted = was.restarted /\ source' \in SourceCounters
    BY <1>2, <1>4, <2>1, <2>2 DEF SourceCounters
  <2> QED
    BY <2>3 DEF x, y, g
<1>7. seen.packets \in Nat /\ seen.octets \in Nat
  BY <1>3 DEF SeenCounters
<1>8. GotInv'
  BY <1>1, <1>2, <1>4, <1>5, <1>6, <1>7 DEF GotInv
<1> QED
  BY <1>1, <1>3, <1>6, <1>8 DEF EstimateInv, EstimateTypes, RecordBound

(* kms_remb_local_set_params: the record is kept. *)
LEMMA SetParamsKeeps ==
  ASSUME EstimateInv, NEW p \in LocalParams, NEW bitrate, SetRembParams(p, bitrate)
  PROVE  EstimateInv'
<1>1. rl' = [rl EXCEPT !.params = p] /\ UNCHANGED <<now, source, seen, peak, unnoticed>>
  BY DEF SetRembParams
<1>2. rl \in Local(rl.remb_sent, rl.told)
  BY DEF EstimateInv, EstimateTypes
<1>3. /\ rl' \in Local(rl.remb_sent, rl.told) /\ rl'.remb_sent = rl.remb_sent
      /\ rl'.told = rl.told /\ rl'.max_br = rl.max_br /\ rl'.avg_br = rl.avg_br
      /\ rl'.remb = rl.remb /\ (rl'.probed <=> rl.probed)
  BY <1>1, <1>2 DEF Local
<1> QED
  BY <1>1, <1>3 DEF EstimateInv, EstimateTypes, GotInv, RecordBound

(* Nothing was received at first. *)
LEMMA EstimateInvInit == RembInit => EstimateInv
<1> SUFFICES ASSUME RembInit PROVE EstimateInv
  OBVIOUS
<1>1. PICK p \in LocalParams, bw \in Bandwidths : rl = NewLocal(p, bw)
  BY DEF RembInit
<1>2. bw[1] \in Nat /\ bw[2] \in Nat /\ REMB_MAX \in Nat /\ p.lineal_factor_min \in Nat
  BY RembAssumption
<1>3. /\ rl \in Local(REMB_MAX, 0) /\ rl.remb_sent = REMB_MAX /\ rl.told = 0
      /\ rl.probed = FALSE /\ rl.max_br = 0 /\ rl.avg_br = 0
  BY <1>1, <1>2 DEF NewLocal, Local, Never
<1>4. EstimateTypes
  BY <1>3 DEF RembInit, EstimateTypes, SourceCounters, SeenCounters, NothingSeen
<1>5. GotInv
  BY DEF RembInit, GotInv, NothingSeen
<1> QED
  BY <1>3, <1>4, <1>5 DEF RembInit, EstimateInv, RecordBound

(* No step breaks the invariant of the estimate. *)
LEMMA EstimateInvStep == EstimateInv /\ [RembNext]_rembVars => EstimateInv'
<1> SUFFICES ASSUME EstimateInv, [RembNext]_rembVars PROVE EstimateInv'
  OBVIOUS
<1>1. CASE \/ \E a \in Arrivals, restart \in BOOLEAN : Tick(a, restart)
           \/ \E a \in SteadyArrivals : Tick(a, FALSE)
  BY <1>1, TickKeeps
<1>2. CASE Quiet
  <2>1. now' = now + 1 /\ UNCHANGED <<source, seen, rl, peak, unnoticed>>
    BY <1>2 DEF Quiet
  <2> QED
    BY <2>1 DEF EstimateInv, EstimateTypes, GotInv, RecordBound
<1>3. CASE SendRtcp
  BY <1>3, SendRtcpKeeps
<1>4. CASE \/ \E c \in Consumers : CapsArrive(c) \/ \E bitrate \in Asked : RembPacket(c, bitrate)
           \/ \E bitrate \in EncoderBitrates : TagEvent(bitrate) \/ SetMin(bitrate)
           \/ \E v \in EncoderBitrates \cup {0} : SetMax(v)
           \/ UNCHANGED rembVars
  <2>1. UNCHANGED <<now, source, seen, rl, peak, unnoticed>>
    BY <1>4 DEF CapsArrive, RembPacket, TagEvent, SetMin, SetMax, rembVars
  <2> QED
    BY <2>1 DEF EstimateInv, EstimateTypes, GotInv, RecordBound
<1>5. CASE \E p \in LocalParams, bitrate \in Asked : SetRembParams(p, bitrate)
  BY <1>5, SetParamsKeeps
<1> QED
  BY <1>1, <1>2, <1>3, <1>4, <1>5 DEF RembNext

(* kms_remb_local_update and the reset of get_sessions_info: once probed, the estimate told to
   the peer is at most twice the highest bitrate received between two reports, for any arrivals,
   losses, silences, parameters and restarts of the source that its counters show. *)
THEOREM EstimateAlwaysBounded == RembSpec => []EstimateBounded
<1>1. EstimateInv => EstimateBounded
  BY DEF EstimateInv, EstimateTypes, RecordBound, EstimateBounded
<1> QED
  BY <1>1, EstimateInvInit, EstimateInvStep, PTL DEF RembSpec

-----------------------------------------------------------------------------
(* What the consumers ask for.                                             *)

(* A set of natural numbers that is not empty has a least element. *)
LEMMA LeastNumber ==
  ASSUME NEW T \in SUBSET Nat, T # {}
  PROVE  \E x \in T : \A y \in T : x <= y
<1>1. \E x \in T : \A y \in T : ~(<<y, x>> \in OpToRel(<, Nat))
  BY NatLessThanWellFounded, WFMin, Zenon
<1>2. \E x \in T : \A y \in T : ~(y < x)
  BY <1>1 DEF OpToRel
<1> QED
  BY <1>2

(* Min finds it. *)
LEMMA MinIsLeast ==
  ASSUME NEW T \in SUBSET Nat, T # {}
  PROVE  Min(T) \in T /\ \A y \in T : Min(T) <= y
BY LeastNumber DEF Min

(* f is the powers of 2 up to n. *)
Powers(f, n) == f = [i \in 0..n |-> IF i = 0 THEN 1 ELSE 2 * f[i - 1]]

(* There are such: the recursion of PowerOf2 defines a function. *)
LEMMA PowersExist ==
  ASSUME NEW n \in Nat
  PROVE  \E f : Powers(f, n)
<1> DEFINE T == {k \in Nat : ~ \E f : Powers(f, k)}
<1>1. SUFFICES ASSUME T # {} PROVE FALSE
  OBVIOUS
<1>2. PICK k \in T : \A y \in T : k <= y
  BY <1>1, LeastNumber
<1>3. k # 0
  <2>1. [i \in 0..0 |-> 1] = [i \in 0..0 |-> IF i = 0 THEN 1 ELSE 2 * [j \in 0..0 |-> 1][i - 1]]
    OBVIOUS
  <2> QED
    BY <1>2, <2>1 DEF Powers
<1>4. k - 1 \in Nat /\ k - 1 \notin T
  BY <1>2, <1>3
<1>5. PICK f : Powers(f, k - 1)
  BY <1>4
<1> DEFINE g == [i \in 0..k |-> IF i = k THEN 2 * f[k - 1] ELSE f[i]]
<1>6. f = [i \in 0..(k - 1) |-> IF i = 0 THEN 1 ELSE 2 * f[i - 1]]
  BY <1>5 DEF Powers
<1>7. \A i \in 0..k : g[i] = IF i = 0 THEN 1 ELSE 2 * g[i - 1]
  <2> TAKE i \in 0..k
  <2>1. CASE i = k
    BY <1>2, <1>3, <1>4, <2>1
  <2>2. CASE i # k /\ i # 0
    <3>1. i \in 0..(k - 1) /\ i - 1 \in 0..k /\ i - 1 # k
      BY <1>2, <2>2
    <3>2. f[i] = 2 * f[i - 1]
      BY <1>6, <2>2, <3>1
    <3> QED
      BY <2>2, <3>1, <3>2
  <2>3. CASE i = 0
    <3>1. 0 \in 0..(k - 1) /\ 0 \in 0..k /\ 0 # k
      BY <1>2, <1>3
    <3> QED
      BY <1>6, <2>3, <3>1
  <2> QED
    BY <2>1, <2>2, <2>3
<1>8. g = [i \in 0..k |-> IF i = 0 THEN 1 ELSE 2 * g[i - 1]]
  <2>1. g = [i \in 0..k |-> g[i]]
    OBVIOUS
  <2> HIDE DEF g
  <2> QED
    BY <1>7, <2>1
<1> HIDE DEF g
<1> QED
  BY <1>2, <1>8 DEF Powers

(* A power of 2 is a positive number. *)
LEMMA PowerFacts ==
  ASSUME NEW i \in 0..MAX_EXPONENT
  PROVE  PowerOf2[i] \in Nat /\ PowerOf2[i] > 0
<1>1. MAX_EXPONENT \in Nat
  BY RembAssumption
<1>2. PowerOf2 = [j \in 0..MAX_EXPONENT |-> IF j = 0 THEN 1 ELSE 2 * PowerOf2[j - 1]]
  <2>1. PICK f : Powers(f, MAX_EXPONENT)
    BY <1>1, PowersExist
  <2>2. f = [j \in 0..MAX_EXPONENT |-> IF j = 0 THEN 1 ELSE 2 * f[j - 1]]
    BY <2>1 DEF Powers
  <2> QED
    BY <2>2, Zenon DEF PowerOf2
<1> DEFINE T == {j \in 0..MAX_EXPONENT : ~(PowerOf2[j] \in Nat /\ PowerOf2[j] > 0)}
<1>3. ASSUME T # {} PROVE FALSE
  <2>1. PICK j \in T : \A y \in T : j <= y
    <3>1. T \in SUBSET Nat
      BY <1>1
    <3> HIDE DEF T
    <3> QED
      BY <1>3, <3>1, LeastNumber
  <2>2. CASE j = 0
    BY <1>1, <1>2, <2>1, <2>2
  <2>3. CASE j # 0
    <3>1. j - 1 \in 0..MAX_EXPONENT /\ j - 1 \notin T
      BY <1>1, <2>1, <2>3
    <3>2. PowerOf2[j] = 2 * PowerOf2[j - 1]
      BY <1>2, <2>1, <2>3
    <3> QED
      BY <2>1, <3>1, <3>2
  <2> QED
    BY <2>2, <2>3
<1> QED
  BY <1>3

(* kms_rtcp_psfb_afb_remb_marshall_packet: the peer never reads more than was sent. *)
LEMMA MarshalledBounds ==
  ASSUME NEW bitrate \in Nat
  PROVE  Marshalled(bitrate) \in Nat /\ Marshalled(bitrate) <= bitrate
<1> DEFINE exps == {i \in 0..MAX_EXPONENT : bitrate <= (MANTISSA_SIZE - 1) * PowerOf2[i]}
           unit == PowerOf2[Min(exps)]
<1>1. Marshalled(bitrate) = IF exps = {} THEN bitrate % MANTISSA_SIZE ELSE (bitrate \div unit) * unit
  BY DEF Marshalled
<1>2. MANTISSA_SIZE \in Nat /\ MANTISSA_SIZE > 0 /\ MAX_EXPONENT \in Nat
  BY RembAssumption
<1>3. CASE exps = {}
  BY <1>1, <1>2, <1>3, Remainder
<1>4. CASE exps # {}
  <2>1. Min(exps) \in exps
    <3>1. exps \in SUBSET Nat
      BY <1>2
    <3> HIDE DEF exps
    <3> QED
      BY <1>4, <3>1, MinIsLeast
  <2>2. unit \in Nat /\ unit > 0
    BY <2>1, PowerFacts
  <2>3. Marshalled(bitrate) = (bitrate \div unit) * unit
    BY <1>1, <1>4
  <2> HIDE DEF unit
  <2>4. bitrate \div unit \in Nat
    BY <2>2, Quotient
  <2>5. (bitrate \div unit) * unit \in Nat
    BY <2>2, <2>4
  <2>6. bitrate = (bitrate \div unit) * unit + (bitrate % unit) /\ bitrate % unit \in Nat
    BY <2>2, Division
  <2> QED
    BY <2>3, <2>5, <2>6
<1> QED
  BY <1>3, <1>4

(* What the event manager is made of. *)
ManagerType(m) ==
  /\ DOMAIN m.hash \subseteq Consumers /\ m.hash \in [DOMAIN m.hash -> RembEntry]
  /\ m \in [hash : {m.hash}, min : Nat, oldest : Nat \cup {NONE}, tells : Nat \cup {NONE},
            lifted : BOOLEAN]

(* Its minimum is that of its table, and there is one if there are entries, unless it was worked
   out with an entry of 0. *)
ManagerInv(m) ==
  ~m.lifted =>
    /\ \A c \in DOMAIN m.hash : m.min <= m.hash[c].bitrate
    /\ (DOMAIN m.hash # {} /\ \A c \in DOMAIN m.hash : m.hash[c].bitrate # 0) => m.min > 0

(* What a manager x made from m tells, and the entries of m that it keeps besides those in C. *)
TellsChange(x, m) == x.tells = IF m.min # x.min THEN x.min ELSE NONE
KeepsFresh(x, m, C) ==
  \A c \in DOMAIN m.hash \ C :
    now - m.hash[c].ts <= CLEAR_INTERVAL => c \in DOMAIN x.hash /\ x.hash[c] = m.hash[c]

(* What there is to know of a field set in a manager. *)
LEMMA SetMinFacts ==
  ASSUME NEW m, ManagerType(m), NEW v \in Nat
  PROVE  /\ ManagerType(set_min(m, v)) /\ set_min(m, v).hash = m.hash /\ set_min(m, v).min = v
         /\ set_min(m, v).lifted = m.lifted /\ TellsChange(set_min(m, v), m)
<1> DEFINE t == IF m.min # v THEN v ELSE NONE
           x == [m EXCEPT !.min = v, !.tells = t]
<1>1. t \in Nat \cup {NONE}
  OBVIOUS
<1>2. set_min(m, v) = x
  BY DEF set_min
<1>3. TellsChange(x, m) <=> x.tells = IF m.min # x.min THEN x.min ELSE NONE
  BY DEF TellsChange
<1>4. m \in [hash : {m.hash}, min : Nat, oldest : Nat \cup {NONE}, tells : Nat \cup {NONE}, lifted : BOOLEAN]
  BY DEF ManagerType
<1> HIDE DEF t
<1>5. /\ x \in [hash : {m.hash}, min : Nat, oldest : Nat \cup {NONE}, tells : Nat \cup {NONE}, lifted : BOOLEAN]
      /\ x.hash = m.hash /\ x.min = v /\ x.lifted = m.lifted /\ x.tells = t
  BY <1>1, <1>4
<1> HIDE DEF x
<1>6. ManagerType(x)
  BY <1>5 DEF ManagerType
<1> QED
  BY <1>2, <1>3, <1>5, <1>6 DEF t

(* calc_min: entries that are not fresh go, and the minimum is that of the others. *)
LEMMA CalcMinFacts ==
  ASSUME NEW m, ManagerType(m), NEW d \in Nat, now \in Nat, NEW x \in calc_min(m, d)
  PROVE  ManagerType(x) /\ ManagerInv(x) /\ TellsChange(x, m) /\ KeepsFresh(x, m, {})
<1> DEFINE fresh == FreshIn(m.hash)
           times == {m.hash[c].ts : c \in fresh}
           brs == {m.hash[c].bitrate : c \in fresh}
           oldest == IF times = {} THEN NONE ELSE Min(times)
           hash == [c \in fresh |-> m.hash[c]]
           lifted == 0 \in brs
           y == [m EXCEPT !.hash = hash, !.lifted = lifted, !.oldest = oldest]
<1>1. PICK min \in MinsOf(brs) : x = set_min(y, IF min = 0 THEN d ELSE min)
  BY DEF calc_min
<1>2. fresh \subseteq DOMAIN m.hash /\ fresh \subseteq Consumers
  BY DEF FreshIn, ManagerType
<1>3. \A c \in fresh : m.hash[c] \in RembEntry
  BY <1>2 DEF ManagerType
<1>4. \A c \in fresh : m.hash[c].bitrate \in Nat /\ m.hash[c].ts \in Nat
  BY <1>3 DEF RembEntry
<1>5. times \in SUBSET Nat /\ brs \in SUBSET Nat
  BY <1>4
<1>6. \A c \in fresh : m.hash[c].bitrate \in brs
  OBVIOUS
<1>7. brs = {} => fresh = {}
  OBVIOUS
<1>8. /\ DOMAIN hash = fresh /\ \A c \in fresh : hash[c] = m.hash[c]
      /\ \A c \in DOMAIN m.hash : now - m.hash[c].ts <= CLEAR_INTERVAL => c \in fresh
      /\ hash \in [fresh -> RembEntry]
  BY <1>3 DEF FreshIn
<1>9. oldest \in Nat \cup {NONE}
  <2> HIDE DEF times
  <2> QED
    BY <1>5, MinIsLeast
<1> DEFINE v == IF min = 0 THEN d ELSE min
<1>10. /\ v \in Nat
       /\ ~lifted => (\A b \in brs : v <= b) /\ (brs # {} => v > 0)
  <2> HIDE DEF brs
  <2>1. CASE brs = {}
    <3>1. min = 0
      BY <2>1 DEF MinsOf
    <3> QED
      BY <2>1, <3>1
  <2>2. CASE 0 \in brs
    <3>1. min \in Nat
      BY <1>5, <2>2 DEF MinsOf
    <3> QED
      BY <2>2, <3>1
  <2>3. CASE brs # {} /\ 0 \notin brs
    <3>1. min = Min(brs)
      BY <2>3 DEF MinsOf
    <3>2. min \in brs /\ \A b \in brs : min <= b
      BY <1>5, <2>3, <3>1, MinIsLeast
    <3>3. min \in Nat /\ min # 0
      BY <1>5, <2>3, <3>2
    <3> QED
      BY <3>2, <3>3
  <2> QED
    BY <2>1, <2>2, <2>3
<1>11. lifted \in BOOLEAN
  OBVIOUS
<1> HIDE DEF hash, oldest, lifted, fresh, brs, times, v
<1>12. ManagerType(y) /\ y.hash = hash /\ y.min = m.min /\ y.lifted = lifted
  <2>1. m \in [hash : {m.hash}, min : Nat, oldest : Nat \cup {NONE}, tells : Nat \cup {NONE}, lifted : BOOLEAN]
    BY DEF ManagerType
  <2>2. /\ y \in [hash : {hash}, min : Nat, oldest : Nat \cup {NONE}, tells : Nat \cup {NONE}, lifted : BOOLEAN]
        /\ y.hash = hash /\ y.min = m.min /\ y.lifted = lifted
    BY <1>9, <1>11, <2>1
  <2> HIDE DEF y
  <2> QED
    BY <1>2, <1>8, <2>2 DEF ManagerType
<1> HIDE DEF y
<1>13. x = set_min(y, v)
  BY <1>1 DEF v
<1>14. ManagerType(x) /\ x.hash = hash /\ x.min = v /\ x.lifted = lifted /\ TellsChange(x, y)
  BY <1>10, <1>12, <1>13, SetMinFacts
<1>15. TellsChange(x, m)
  BY <1>12, <1>14 DEF TellsChange
<1>16. KeepsFresh(x, m, {})
  BY <1>8, <1>14 DEF KeepsFresh
<1>17. ASSUME ~x.lifted
       PROVE  /\ \A c \in DOMAIN x.hash : x.min <= x.hash[c].bitrate
              /\ DOMAIN x.hash # {} => x.min > 0
  <2>1. ~lifted
    BY <1>14, <1>17
  <2>2. \A c \in fresh : v <= m.hash[c].bitrate
    BY <1>6, <1>10, <2>1
  <2>3. fresh # {} => v > 0
    BY <1>7, <1>10, <2>1
  <2> QED
    BY <1>8, <1>14, <2>2, <2>3
<1> QED
  BY <1>14, <1>15, <1>16, <1>17 DEF ManagerInv

(* remb_event_manager_update_min: the entry of c is there, the fresh ones of others are kept. *)
LEMMA UpdateMinFacts ==
  ASSUME NEW m, ManagerType(m), ManagerInv(m), now \in Nat,
         NEW bitrate \in Nat, NEW c \in Consumers, NEW x \in update_min(m, bitrate, c)
  PROVE  /\ ManagerType(x) /\ ManagerInv(x) /\ TellsChange(x, m) /\ KeepsFresh(x, m, {c})
         /\ c \in DOMAIN x.hash /\ x.hash[c] = [bitrate |-> bitrate, ts |-> now]
<1> DEFINE new_br == c \notin DOMAIN m.hash \/ m.hash[c].bitrate # bitrate
           entry == [bitrate |-> bitrate, ts |-> now]
           hash == [d \in DOMAIN m.hash \cup {c} |-> IF d = c THEN entry ELSE m.hash[d]]
           y == [m EXCEPT !.hash = hash, !.tells = NONE]
<1>1. \/ bitrate < m.min /\ x = set_min(y, bitrate)
      \/ ~(bitrate < m.min) /\ x \in calc_min(y, bitrate)
      \/ /\ ~(bitrate < m.min) /\ x = y
         /\ ~(bitrate >= m.min /\ ((new_br /\ bitrate > m.min) \/ Stale(m)))
  <2>1. update_min(m, bitrate, c) =
          CASE bitrate < m.min -> {set_min(y, bitrate)}
            [] bitrate >= m.min /\ ((new_br /\ bitrate > m.min) \/ Stale(m)) -> calc_min(y, bitrate)
            [] OTHER -> {y}
    BY DEF update_min
  <2>2. m.min \in Nat
    BY DEF ManagerType
  <2> HIDE DEF y, new_br
  <2> QED
    BY <2>1, <2>2
<1>2. /\ DOMAIN m.hash \subseteq Consumers
      /\ \A d \in DOMAIN m.hash : m.hash[d] \in RembEntry
      /\ m \in [hash : {m.hash}, min : Nat, oldest : Nat \cup {NONE}, tells : Nat \cup {NONE}, lifted : BOOLEAN]
  BY DEF ManagerType
<1>3. /\ m.min \in Nat /\ m.lifted \in BOOLEAN
      /\ \A d \in DOMAIN m.hash : m.hash[d].bitrate \in Nat
  BY <1>2 DEF RembEntry
<1>4. entry \in RembEntry /\ entry.bitrate = bitrate /\ entry.ts = now
  BY DEF RembEntry
<1> HIDE DEF entry
<1>5. /\ DOMAIN hash = DOMAIN m.hash \cup {c} /\ hash[c] = entry
      /\ \A d \in DOMAIN m.hash \ {c} : hash[d] = m.hash[d]
      /\ hash \in [DOMAIN m.hash \cup {c} -> RembEntry]
  BY <1>2, <1>4
<1> HIDE DEF hash
<1>6. ManagerType(y) /\ y.hash = hash /\ y.min = m.min /\ y.lifted = m.lifted /\ y.tells = NONE
  <2>1. /\ y \in [hash : {hash}, min : Nat, oldest : Nat \cup {NONE}, tells : Nat \cup {NONE}, lifted : BOOLEAN]
        /\ y.hash = hash /\ y.min = m.min /\ y.lifted = m.lifted /\ y.tells = NONE
    BY <1>2
  <2> HIDE DEF y
  <2> QED
    BY <1>2, <1>5, <2>1 DEF ManagerType
<1> HIDE DEF y
<1>7. KeepsFresh(y, m, {c})
  BY <1>5, <1>6 DEF KeepsFresh
<1>8. CASE bitrate < m.min /\ x = set_min(y, bitrate)
  <2>1. ManagerType(x) /\ x.hash = hash /\ x.min = bitrate /\ x.lifted = m.lifted /\ TellsChange(x, y)
    BY <1>6, <1>8, SetMinFacts
  <2>2. TellsChange(x, m)
    BY <1>6, <2>1 DEF TellsChange
  <2>3. ASSUME ~x.lifted
        PROVE  /\ \A d \in DOMAIN x.hash : x.min <= x.hash[d].bitrate
               /\ (\A d \in DOMAIN x.hash : x.hash[d].bitrate # 0) => x.min > 0
    <3>1. \A d \in DOMAIN m.hash : m.min <= m.hash[d].bitrate
      BY <2>1, <2>3 DEF ManagerInv
    <3>2. \A d \in DOMAIN m.hash \ {c} : bitrate <= m.hash[d].bitrate
      BY <1>3, <1>8, <3>1
    <3> QED
      BY <1>4, <1>5, <2>1, <3>2
  <2> QED
    BY <1>4, <1>5, <1>6, <1>7, <2>1, <2>2, <2>3 DEF ManagerInv, KeepsFresh, entry
<1>9. CASE x \in calc_min(y, bitrate)
  <2>1. ManagerType(x) /\ ManagerInv(x) /\ TellsChange(x, y) /\ KeepsFresh(x, y, {})
    BY <1>6, <1>9, CalcMinFacts
  <2>2. TellsChange(x, m)
    BY <1>6, <2>1 DEF TellsChange
  <2>3. CLEAR_INTERVAL \in Nat
    BY RembAssumption
  <2>4. c \in DOMAIN x.hash /\ x.hash[c] = entry
    BY <1>4, <1>5, <1>6, <2>1, <2>3 DEF KeepsFresh
  <2>5. KeepsFresh(x, m, {c})
    BY <1>5, <1>6, <2>1 DEF KeepsFresh
  <2> QED
    BY <2>1, <2>2, <2>4, <2>5 DEF entry
<1>10. CASE ~(bitrate < m.min) /\ x = y /\ ~(bitrate >= m.min /\ ((new_br /\ bitrate > m.min) \/ Stale(m)))
  <2>1. m.min <= bitrate /\ (bitrate > m.min => ~new_br)
    BY <1>3, <1>10
  <2>2. TellsChange(x, m)
    BY <1>6, <1>10 DEF TellsChange
  <2>3. ASSUME ~m.lifted
        PROVE  /\ \A d \in DOMAIN x.hash : x.min <= x.hash[d].bitrate
               /\ (\A d \in DOMAIN x.hash : x.hash[d].bitrate # 0) => x.min > 0
    <3>1. \A d \in DOMAIN m.hash : m.min <= m.hash[d].bitrate
      BY <2>3 DEF ManagerInv
    <3>2. \A d \in DOMAIN x.hash : x.min <= x.hash[d].bitrate
      BY <1>4, <1>5, <1>6, <1>10, <2>1, <3>1
    <3>3. ASSUME \A d \in DOMAIN x.hash : x.hash[d].bitrate # 0, m.min = 0 PROVE FALSE
      <4>1. bitrate # 0
        BY <1>4, <1>5, <1>6, <1>10, <3>3
      <4>2. ~new_br
        BY <2>1, <3>3, <4>1
      <4>3. \A d \in DOMAIN m.hash : m.hash[d].bitrate # 0
        BY <1>4, <1>5, <1>6, <1>10, <3>3, <4>1, <4>2
      <4> QED
        BY <2>3, <3>3, <4>2, <4>3 DEF ManagerInv
    <3> QED
      BY <1>3, <1>6, <1>10, <3>2, <3>3
  <2> QED
    BY <1>5, <1>6, <1>7, <1>10, <2>2, <2>3 DEF ManagerInv, entry
<1> QED
  BY <1>1, <1>8, <1>9, <1>10

(* kms_utils_remb_event_manager_get_min *)
LEMMA GetMinFacts ==
  ASSUME NEW m, ManagerType(m), ManagerInv(m), now \in Nat, NEW x \in get_min(m)
  PROVE  ManagerType(x) /\ ManagerInv(x) /\ KeepsFresh(x, m, {})
<1> DEFINE y == [m EXCEPT !.tells = NONE]
<1>1. x = y \/ x \in calc_min(y, 0)
  BY DEF get_min
<1>2. ManagerType(y) /\ y.hash = m.hash /\ y.min = m.min /\ y.lifted = m.lifted
  <2>1. m \in [hash : {m.hash}, min : Nat, oldest : Nat \cup {NONE}, tells : Nat \cup {NONE}, lifted : BOOLEAN]
    BY DEF ManagerType
  <2>2. /\ y \in [hash : {m.hash}, min : Nat, oldest : Nat \cup {NONE}, tells : Nat \cup {NONE}, lifted : BOOLEAN]
        /\ y.hash = m.hash /\ y.min = m.min /\ y.lifted = m.lifted
    BY <2>1
  <2> HIDE DEF y
  <2> QED
    BY <2>2 DEF ManagerType
<1> HIDE DEF y
<1>3. CASE x = y
  BY <1>2, <1>3 DEF ManagerInv, KeepsFresh
<1>4. CASE x \in calc_min(y, 0)
  <2>1. ManagerType(x) /\ ManagerInv(x) /\ KeepsFresh(x, y, {})
    BY <1>2, <1>4, CalcMinFacts
  <2> QED
    BY <1>2, <2>1 DEF KeepsFresh
<1> QED
  BY <1>1, <1>3, <1>4

(* What the encoder of a tree bin is made of: its limits leave room. *)
EncoderType(e) ==
  /\ e \in [type : {"VP8", "other"}, remb : Nat \cup {-1}, tag : Nat \cup {-1}, min : Nat,
            max : 1..DEFAULT_MAX_ENCODER_BITRATE, current : Nat, kbps : Nat]
  /\ e.min <= e.max

(* It encodes no more than was asked for, or its minimum. *)
EncoderInv(e) ==
  /\ e.type = "other" => e.kbps = 0
  /\ e.remb > 0 => e.kbps <= AtLeast(e.remb, e.min) \div KBPS

(* kms_enc_tree_bin_set_target_bitrate *)
LEMMA SetTargetFacts ==
  ASSUME NEW e, EncoderType(e), e.type = "other" => e.kbps = 0
  PROVE  /\ EncoderType(set_target_bitrate(e)) /\ EncoderInv(set_target_bitrate(e))
         /\ set_target_bitrate(e).remb = e.remb
<1> DEFINE target == get_bitrate(e)
           x == [e EXCEPT !.current = target, !.kbps = IF e.type = "other" THEN e.kbps ELSE target \div KBPS]
<1>1. /\ e.remb \in Int /\ e.tag \in Int /\ e.min \in Nat /\ e.max \in Nat /\ e.max > 0
      /\ e.current \in Nat /\ e.kbps \in Nat /\ e.min <= e.max /\ KBPS \in Nat /\ KBPS > 0
      /\ e \in [type : {"VP8", "other"}, remb : Nat \cup {-1}, tag : Nat \cup {-1}, min : Nat,
            max : 1..DEFAULT_MAX_ENCODER_BITRATE, current : Nat, kbps : Nat]
  BY RembAssumption DEF EncoderType
<1>2. target \in Int /\ (e.remb > 0 => target > 0 /\ target <= AtLeast(e.remb, e.min))
  BY <1>1 DEF get_bitrate, LIMIT, AtLeast, AtMost
<1>3. set_target_bitrate(e) = IF target <= 0 THEN e ELSE x
  BY <1>1 DEF set_target_bitrate
<1> HIDE DEF target
<1>4. CASE target <= 0
  BY <1>1, <1>2, <1>3, <1>4 DEF EncoderInv
<1>5. CASE ~(target <= 0)
  <2> DEFINE k == IF e.type = "other" THEN e.kbps ELSE target \div KBPS
  <2>1. k \in Nat /\ target \in Nat
    BY <1>1, <1>2, <1>5, Quotient
  <2>2. e.remb > 0 => k <= AtLeast(e.remb, e.min) \div KBPS
    <3>1. AtLeast(e.remb, e.min) \in Nat
      BY <1>1 DEF AtLeast
    <3> DEFINE top == AtLeast(e.remb, e.min)
    <3> HIDE DEF top
    <3>2. top \div KBPS \in Nat /\ (target <= top => target \div KBPS <= top \div KBPS)
      BY <1>1, <1>2, <3>1, Quotient, QuotientGrows DEF top
    <3> QED
      BY <1>2, <3>2 DEF top
  <2>3. e.type = "other" => k = 0
    OBVIOUS
  <2> HIDE DEF k
  <2>4. x = [e EXCEPT !.current = target, !.kbps = k]
    BY DEF k
  <2> HIDE DEF x
  <2>5. /\ x \in [type : {"VP8", "other"}, remb : Nat \cup {-1}, tag : Nat \cup {-1}, min : Nat,
                  max : 1..DEFAULT_MAX_ENCODER_BITRATE, current : Nat, kbps : Nat]
        /\ x.remb = e.remb /\ x.min = e.min /\ x.max = e.max /\ x.type = e.type /\ x.kbps = k
    BY <1>1, <2>1, <2>4
  <2> QED
    BY <1>1, <1>3, <1>5, <2>2, <2>3, <2>5 DEF EncoderType, EncoderInv
<1> QED
  BY <1>4, <1>5

(* bitrate_callback *)
LEMMA CallbackFacts ==
  ASSUME NEW e, EncoderType(e), EncoderInv(e), NEW bitrate \in Nat \cup {NONE}
  PROVE  /\ EncoderType(bitrate_callback(e, bitrate)) /\ EncoderInv(bitrate_callback(e, bitrate))
         /\ bitrate_callback(e, bitrate).remb = IF bitrate > 0 THEN bitrate ELSE e.remb
<1>1. CASE bitrate <= 0
  BY <1>1 DEF bitrate_callback, NONE
<1>2. CASE ~(bitrate <= 0)
  <2> DEFINE x == [e EXCEPT !.remb = bitrate]
  <2>1. bitrate \in Nat /\ bitrate > 0
    BY <1>2 DEF NONE
  <2>2. EncoderType(x) /\ x.remb = bitrate /\ x.type = e.type /\ x.kbps = e.kbps
    BY <2>1 DEF EncoderType
  <2>3. x.type = "other" => x.kbps = 0
    BY <2>2 DEF EncoderInv
  <2> HIDE DEF x
  <2>4. bitrate_callback(e, bitrate) = set_target_bitrate(x)
    BY <1>2 DEF bitrate_callback, x
  <2> QED
    BY <2>1, <2>2, <2>3, <2>4, SetTargetFacts
<1> QED
  BY <1>1, <1>2

(* send_remb_event: what a bitrate becomes within the limits of a remote manager. *)
Limits(r, bitrate) ==
  IF r.max_bw > 0 THEN AtMost(AtLeast(bitrate, r.min_bw), r.max_bw) ELSE AtLeast(bitrate, r.min_bw)

(* What a peer asked for a short time ago, once probed, is in the table. *)
AskedInv ==
  \A c \in Consumers :
    (rm[c].probed /\ asked[c].ts # Never /\ now - asked[c].ts <= CLEAR_INTERVAL) =>
      /\ c \in DOMAIN em.hash
      /\ em.hash[c] = [bitrate |-> Limits(rm[c], asked[c].bitrate), ts |-> asked[c].ts]

(* The encoder was told the minimum. *)
EncoderTold == (role = "encoder" /\ em.min > 0) => enc.remb = em.min

Remotes == [min_bw : Nat, max_bw : Nat, probed : BOOLEAN, remb : Nat, caps : BOOLEAN,
            remb_on_connect : Nat]

ClockTypes ==
  /\ role \in {"estimate", "local", "encoder"} /\ now \in 1..MaxTicks[role] /\ rembs \in 0..MaxRembs
  /\ rm \in [Consumers -> Remotes] /\ asked \in [Consumers -> RembEntry]
  /\ rl.remb_sent \in Nat /\ rl.told \in Nat

(* The inductive invariant of the congestion control. *)
RembInv ==
  /\ EstimateInv /\ ClockTypes
  /\ ManagerType(em) /\ ManagerInv(em) /\ AskedInv
  /\ EncoderType(enc) /\ EncoderInv(enc) /\ EncoderTold

(* What the numbers of a remote manager are. *)
LEMMA RemoteFacts ==
  ASSUME ClockTypes, NEW c \in Consumers
  PROVE  /\ rm[c] \in Remotes /\ asked[c] \in RembEntry /\ asked[c].bitrate \in Nat /\ asked[c].ts \in Nat
         /\ rm[c].min_bw \in Nat /\ rm[c].max_bw \in Nat /\ rm[c].remb_on_connect \in Nat
         /\ rm[c].remb \in Nat /\ rm[c].probed \in BOOLEAN
<1>1. rm[c] \in Remotes /\ asked[c] \in RembEntry
  BY DEF ClockTypes
<1> QED
  BY <1>1 DEF Remotes, RembEntry

(* Limits of a number are a number, no more than it or the minimum. *)
LEMMA LimitsFacts ==
  ASSUME NEW r, r.min_bw \in Nat, r.max_bw \in Nat, NEW b \in Nat
  PROVE  Limits(r, b) \in Nat /\ Limits(r, b) <= AtLeast(b, r.min_bw)
BY DEF Limits, AtMost, AtLeast

(* The clock of the model. *)
LEMMA NowFacts ==
  ASSUME ClockTypes
  PROVE  now \in Nat /\ now > 0
<1>1. MaxTicks[role] \in Nat
  BY RembAssumption DEF ClockTypes
<1> QED
  BY <1>1 DEF ClockTypes

(* send_remb_event: the event manager has the entry of c, and the encoder its minimum. *)
LEMMA RembEventFacts ==
  ASSUME RembInv, NEW c \in Consumers, NEW bitrate \in Nat, RembEvent(c, bitrate), role' = role
  PROVE  /\ ManagerType(em)' /\ ManagerInv(em)' /\ EncoderType(enc)' /\ EncoderInv(enc)' /\ EncoderTold'
         /\ KeepsFresh(em', em, {c}) /\ c \in DOMAIN em'.hash
         /\ em'.hash[c] = [bitrate |-> Limits(rm[c], bitrate), ts |-> now]
<1> DEFINE br == Limits(rm[c], bitrate)
<1>1. /\ em' \in update_min(em, br, c)
      /\ enc' = IF role = "encoder" THEN bitrate_callback(enc, em'.tells) ELSE enc
  BY DEF RembEvent, Limits
<1>2. br \in Nat
  BY RemoteFacts, LimitsFacts DEF RembInv
<1>3. now \in Nat
  BY NowFacts DEF RembInv
<1>4. ManagerType(em) /\ ManagerInv(em) /\ EncoderType(enc) /\ EncoderInv(enc) /\ EncoderTold
  BY DEF RembInv
<1> HIDE DEF br
<1>5. /\ ManagerType(em') /\ ManagerInv(em') /\ TellsChange(em', em) /\ KeepsFresh(em', em, {c})
      /\ c \in DOMAIN em'.hash /\ em'.hash[c] = [bitrate |-> br, ts |-> now]
  BY <1>1, <1>2, <1>3, <1>4, UpdateMinFacts
<1>6. ManagerType(em)' /\ ManagerInv(em)'
  BY <1>5 DEF ManagerType, ManagerInv
<1>7. EncoderType(enc') /\ EncoderInv(enc') /\ EncoderTold'
  <2>1. em.min \in Nat /\ em'.min \in Nat /\ em'.tells \in Nat \cup {NONE}
    BY <1>4, <1>5 DEF ManagerType
  <2>2. em'.tells = IF em.min # em'.min THEN em'.min ELSE NONE
    BY <1>5 DEF TellsChange
  <2>3. CASE role = "encoder"
    <3>1. enc' = bitrate_callback(enc, em'.tells)
      BY <1>1, <2>3
    <3>2. /\ EncoderType(enc') /\ EncoderInv(enc')
          /\ enc'.remb = IF em'.tells > 0 THEN em'.tells ELSE enc.remb
      BY <1>4, <2>1, <3>1, CallbackFacts
    <3>3. em'.min > 0 => enc'.remb = em'.min
      <4>1. em.min > 0 => enc.remb = em.min
        BY <1>4, <2>3 DEF EncoderTold
      <4> QED
        BY <2>1, <2>2, <3>2, <4>1 DEF NONE
    <3> QED
      BY <3>2, <3>3 DEF EncoderTold
  <2>4. CASE role # "encoder"
    BY <1>1, <1>4, <2>4 DEF EncoderTold
  <2> QED
    BY <2>3, <2>4
<1>8. EncoderType(enc)' /\ EncoderInv(enc)'
  BY <1>7 DEF EncoderType, EncoderInv
<1> QED
  BY <1>5, <1>6, <1>7, <1>8 DEF br

(* What was asked stays in the table for the consumers but c. *)
LEMMA OthersKept ==
  ASSUME RembInv, NEW c \in Consumers, NEW d \in Consumers, d # c, KeepsFresh(em', em, {c}),
         now' = now, rm'[d] = rm[d], asked'[d] = asked[d],
         rm'[d].probed /\ asked'[d].ts # Never /\ now' - asked'[d].ts <= CLEAR_INTERVAL
  PROVE  /\ d \in DOMAIN em'.hash
         /\ em'.hash[d] = [bitrate |-> Limits(rm'[d], asked'[d].bitrate), ts |-> asked'[d].ts]
<1>1. d \in DOMAIN em.hash /\ em.hash[d] = [bitrate |-> Limits(rm[d], asked[d].bitrate), ts |-> asked[d].ts]
  BY DEF RembInv, AskedInv
<1>2. now - em.hash[d].ts <= CLEAR_INTERVAL
  BY <1>1
<1>3. d \in DOMAIN em'.hash /\ em'.hash[d] = em.hash[d]
  BY <1>1, <1>2 DEF KeepsFresh
<1> QED
  BY <1>1, <1>3

(* The estimate is kept by what leaves its parts alone. *)
LEMMA FrameKeeps ==
  ASSUME EstimateInv, UNCHANGED <<now, source, seen, rl, peak, unnoticed>>
  PROVE  EstimateInv'
BY DEF EstimateInv, EstimateTypes, GotInv, RecordBound

(* send_remb_event_probe *)
LEMMA CapsArriveKeeps ==
  ASSUME RembInv, NEW c \in Consumers, CapsArrive(c)
  PROVE  RembInv'
<1>1. /\ RembEvent(c, rm[c].remb_on_connect) /\ UNCHANGED <<role, now, source, seen, rl, peak, unnoticed, rembs>>
      /\ rm' = [rm EXCEPT ![c].caps = TRUE] /\ asked' = [asked EXCEPT ![c].ts = Never]
  BY DEF CapsArrive
<1>2. ClockTypes /\ EstimateInv
  BY DEF RembInv
<1>3. /\ ManagerType(em)' /\ ManagerInv(em)' /\ EncoderType(enc)' /\ EncoderInv(enc)' /\ EncoderTold'
      /\ KeepsFresh(em', em, {c})
  BY <1>1, <1>2, RemoteFacts, RembEventFacts
<1>4. EstimateInv'
  BY <1>1, <1>2, FrameKeeps
<1>5. rm' \in [Consumers -> Remotes]
  BY <1>1, <1>2 DEF ClockTypes, Remotes
<1>6. asked' \in [Consumers -> RembEntry] /\ asked'[c].ts = Never
  BY <1>1, <1>2 DEF ClockTypes, RembEntry, Never
<1>7. ClockTypes'
  BY <1>1, <1>2, <1>5, <1>6 DEF ClockTypes
<1>8. \A d \in Consumers : d # c => rm'[d] = rm[d] /\ asked'[d] = asked[d]
  BY <1>1, <1>2 DEF ClockTypes
<1>9. AskedInv'
  <2> SUFFICES ASSUME NEW d \in Consumers,
                      rm'[d].probed /\ asked'[d].ts # Never /\ now' - asked'[d].ts <= CLEAR_INTERVAL
               PROVE  /\ d \in DOMAIN em'.hash
                      /\ em'.hash[d] = [bitrate |-> Limits(rm'[d], asked'[d].bitrate), ts |-> asked'[d].ts]
    BY DEF AskedInv, Limits
  <2>1. d # c
    BY <1>6
  <2> QED
    BY <1>1, <1>3, <1>8, <2>1, OthersKept
<1> QED
  BY <1>3, <1>4, <1>7, <1>9 DEF RembInv

(* process_psfb_afb: the table has what was asked, if it was not raised. *)
LEMMA RembPacketKeeps ==
  ASSUME RembInv, NEW c \in Consumers, NEW bitrate \in Asked, RembPacket(c, bitrate)
  PROVE  RembInv'
<1> DEFINE raise == ~rm[c].probed /\ bitrate < rm[c].remb_on_connect /\ bitrate >= rm[c].remb
           used == IF raise THEN rm[c].remb_on_connect ELSE bitrate
<1>1. /\ RembEvent(c, used) /\ UNCHANGED <<role, now, source, seen, rl, peak, unnoticed>>
      /\ rm' = [rm EXCEPT ![c].probed = ~raise, ![c].remb = bitrate]
      /\ asked' = [asked EXCEPT ![c] = [bitrate |-> bitrate, ts |-> now]]
      /\ rembs < MaxRembs /\ rembs' = rembs + 1
  BY DEF RembPacket
<1>2. ClockTypes /\ EstimateInv
  BY DEF RembInv
<1>3. bitrate \in Nat /\ MaxRembs \in Nat
  BY RembAssumption
<1>4. used \in Nat /\ (~raise => used = bitrate) /\ raise \in BOOLEAN
  BY <1>2, <1>3, RemoteFacts
<1> HIDE DEF raise, used
<1>5. /\ ManagerType(em)' /\ ManagerInv(em)' /\ EncoderType(enc)' /\ EncoderInv(enc)' /\ EncoderTold'
      /\ KeepsFresh(em', em, {c}) /\ c \in DOMAIN em'.hash
      /\ em'.hash[c] = [bitrate |-> Limits(rm[c], used), ts |-> now]
  BY <1>1, <1>4, RembEventFacts
<1>6. EstimateInv'
  BY <1>1, <1>2, FrameKeeps
<1>7. /\ rm' \in [Consumers -> Remotes] /\ rm'[c].probed = ~raise
      /\ rm'[c].min_bw = rm[c].min_bw /\ rm'[c].max_bw = rm[c].max_bw
  BY <1>1, <1>2, <1>3, <1>4 DEF ClockTypes, Remotes
<1>8. /\ asked' \in [Consumers -> RembEntry] /\ asked'[c] = [bitrate |-> bitrate, ts |-> now]
  BY <1>1, <1>2, <1>3, NowFacts DEF ClockTypes, RembEntry
<1>9. ClockTypes'
  BY <1>1, <1>2, <1>3, <1>7, <1>8 DEF ClockTypes
<1>10. \A d \in Consumers : d # c => rm'[d] = rm[d] /\ asked'[d] = asked[d]
  BY <1>1, <1>2 DEF ClockTypes
<1>11. AskedInv'
  <2> SUFFICES ASSUME NEW d \in Consumers,
                      rm'[d].probed /\ asked'[d].ts # Never /\ now' - asked'[d].ts <= CLEAR_INTERVAL
               PROVE  /\ d \in DOMAIN em'.hash
                      /\ em'.hash[d] = [bitrate |-> Limits(rm'[d], asked'[d].bitrate), ts |-> asked'[d].ts]
    BY DEF AskedInv, Limits
  <2>1. CASE d = c
    <3>1. used = bitrate
      BY <1>4, <1>7, <2>1
    <3>2. Limits(rm'[c], bitrate) = Limits(rm[c], bitrate)
      BY <1>7 DEF Limits
    <3> QED
      BY <1>5, <1>8, <2>1, <3>1, <3>2
  <2>2. CASE d # c
    BY <1>1, <1>5, <1>10, <2>2, OthersKept
  <2> QED
    BY <2>1, <2>2
<1> QED
  BY <1>5, <1>6, <1>9, <1>11 DEF RembInv

(* A tag, or a property of the agnostic bin: the encoder alone changes. *)
LEMMA EncoderKeeps ==
  ASSUME RembInv, NEW e, EncoderType(e), e.remb = enc.remb, e.type = enc.type, e.kbps = enc.kbps,
         enc' = set_target_bitrate(e), rembs < MaxRembs, rembs' = rembs + 1,
         UNCHANGED <<role, now, source, seen, rl, rm, em, asked, peak, unnoticed>>
  PROVE  RembInv'
<1>1. e.type = "other" => e.kbps = 0
  BY DEF RembInv, EncoderInv
<1>2. EncoderType(enc') /\ EncoderInv(enc') /\ enc'.remb = enc.remb
  BY <1>1, SetTargetFacts
<1>3. EncoderType(enc)' /\ EncoderInv(enc)'
  BY <1>2 DEF EncoderType, EncoderInv
<1>4. EncoderTold'
  BY <1>2 DEF RembInv, EncoderTold
<1>5. MaxRembs \in Nat
  BY RembAssumption
<1>6. ClockTypes'
  BY <1>5 DEF RembInv, ClockTypes
<1>7. EstimateInv'
  BY FrameKeeps DEF RembInv
<1>8. ManagerType(em)' /\ ManagerInv(em)' /\ AskedInv'
  BY DEF RembInv, ManagerType, ManagerInv, AskedInv, Limits
<1> QED
  BY <1>3, <1>4, <1>6, <1>7, <1>8 DEF RembInv

(* The clock runs on. *)
LEMMA ClockKeeps ==
  ASSUME RembInv, EstimateInv', now < MaxTicks[role], now' = now + 1,
         UNCHANGED <<role, rl, rm, em, enc, asked, rembs>>
  PROVE  RembInv'
<1>1. MaxTicks[role] \in Nat /\ CLEAR_INTERVAL \in Nat
  BY RembAssumption DEF RembInv, ClockTypes
<1>2. now \in Nat
  BY NowFacts DEF RembInv
<1>3. ClockTypes'
  BY <1>1 DEF RembInv, ClockTypes
<1>4. \A c \in Consumers : asked[c].ts \in Nat
  BY RemoteFacts DEF RembInv
<1>5. AskedInv'
  BY <1>1, <1>2, <1>4 DEF RembInv, AskedInv, Limits
<1>6. ManagerType(em)' /\ ManagerInv(em)' /\ EncoderType(enc)' /\ EncoderInv(enc)' /\ EncoderTold'
  BY DEF RembInv, ManagerType, ManagerInv, EncoderType, EncoderInv, EncoderTold
<1> QED
  BY <1>3, <1>5, <1>6 DEF RembInv

(* The greatest of a few numbers is no less than each. *)
LEMMA MaxOfThree ==
  ASSUME NEW a \in Nat, NEW b \in Nat, NEW d \in Nat
  PROVE  a <= Max({a, b, d}) /\ b <= Max({a, b, d}) /\ d <= Max({a, b, d}) /\ Max({a, b, d}) \in Nat
<1>1. \E g \in {a, b, d} : \A x \in {a, b, d} : x <= g
  <2>1. CASE a >= b /\ a >= d
    BY <2>1
  <2>2. CASE b >= a /\ b >= d
    BY <2>2
  <2>3. CASE d >= a /\ d >= b
    BY <2>3
  <2> QED
    BY <2>1, <2>2, <2>3
<1>2. Max({a, b, d}) \in {a, b, d} /\ \A x \in {a, b, d} : Max({a, b, d}) >= x
  BY <1>1 DEF Max
<1> QED
  BY <1>2

(* The same for four. *)
LEMMA MaxOfFour ==
  ASSUME NEW a \in Nat, NEW b \in Nat, NEW d \in Nat, NEW e \in Nat
  PROVE  /\ a <= Max({a, b, d, e}) /\ b <= Max({a, b, d, e}) /\ d <= Max({a, b, d, e})
         /\ e <= Max({a, b, d, e}) /\ Max({a, b, d, e}) \in Nat
<1>1. \E g \in {a, b, d, e} : \A x \in {a, b, d, e} : x <= g
  <2>1. CASE a >= b /\ a >= d /\ a >= e
    BY <2>1
  <2>2. CASE b >= a /\ b >= d /\ b >= e
    BY <2>2
  <2>3. CASE d >= a /\ d >= b /\ d >= e
    BY <2>3
  <2>4. CASE e >= a /\ e >= b /\ e >= d
    BY <2>4
  <2> QED
    BY <2>1, <2>2, <2>3, <2>4
<1>2. Max({a, b, d, e}) \in {a, b, d, e} /\ \A x \in {a, b, d, e} : Max({a, b, d, e}) >= x
  BY <1>1 DEF Max
<1> QED
  BY <1>2

(* A consumer whose wish counts: the minimum is there and no more than the wish. *)
MinRespects ==
  \A c \in Slowest : /\ em.min \in Nat /\ em.min > 0
                     /\ em.min <= AtLeast(asked[c].bitrate, rm[c].min_bw)
                     /\ asked[c].bitrate \in Nat /\ rm[c].min_bw \in Nat

(* A fresh entry of the table is what its peer asked for. *)
LEMMA SlowestFacts == RembInv => MinRespects
<1> SUFFICES ASSUME RembInv, NEW c \in Slowest
             PROVE  /\ em.min \in Nat /\ em.min > 0
                    /\ em.min <= AtLeast(asked[c].bitrate, rm[c].min_bw)
                    /\ asked[c].bitrate \in Nat /\ rm[c].min_bw \in Nat
  BY DEF MinRespects
<1>1. /\ c \in Consumers /\ rm[c].probed /\ asked[c].ts # Never
      /\ now - asked[c].ts <= CLEAR_INTERVAL /\ ~em.lifted
      /\ \A d \in DOMAIN em.hash : em.hash[d].bitrate # 0
  BY DEF Slowest
<1>2. ManagerType(em) /\ ManagerInv(em) /\ AskedInv /\ ClockTypes
  BY DEF RembInv
<1>3. c \in DOMAIN em.hash /\ em.hash[c].bitrate = Limits(rm[c], asked[c].bitrate)
  <2>1. c \in DOMAIN em.hash /\ em.hash[c] = [bitrate |-> Limits(rm[c], asked[c].bitrate), ts |-> asked[c].ts]
    BY <1>1, <1>2, Zenon DEF AskedInv
  <2> QED
    BY <2>1
<1>4. em.min > 0 /\ em.min <= em.hash[c].bitrate
  BY <1>1, <1>2, <1>3 DEF ManagerInv
<1>5. em.min \in Nat
  BY <1>2 DEF ManagerType
<1>6. /\ asked[c].bitrate \in Nat /\ rm[c].min_bw \in Nat
      /\ Limits(rm[c], asked[c].bitrate) \in Nat
      /\ Limits(rm[c], asked[c].bitrate) <= AtLeast(asked[c].bitrate, rm[c].min_bw)
  BY <1>1, <1>2, RemoteFacts, LimitsFacts
<1>7. AtLeast(asked[c].bitrate, rm[c].min_bw) \in Nat
  BY <1>6 DEF AtLeast
<1> QED
  BY <1>1, <1>3, <1>4, <1>5, <1>6, <1>7

(* on_sending_rtcp: what is sent is a number, and no more than the minimum allows. *)
LEMMA SendRtcpSends ==
  ASSUME RembInv, SendRtcp
  PROVE  /\ RembInv'
         /\ rl'.last_sent_time # rl.last_sent_time =>
              /\ rl'.min_bw \in Nat /\ rl'.told \in Nat /\ rl'.min_bw = rl.min_bw
              /\ em'.min > 0 => rl'.told <= AtLeast(AtLeast(em'.min, rl.min_bw), REMB_MIN)
<1> DEFINE info == RecvInfo
           usable == info.found /\ (rl.probed \/ info.bitrate # 0)
<1>1. EstimateInv /\ ClockTypes /\ ManagerType(em) /\ ManagerInv(em) /\ AskedInv
  BY DEF RembInv
<1>2. EstimateInv'
  BY <1>1, SendRtcpKeeps
<1>3. now \in Nat /\ REMB_MIN \in Nat
  BY <1>1, NowFacts, RembAssumption
<1>4. /\ role # "encoder" /\ UNCHANGED <<role, now, rm, enc, asked, rembs>> /\ now > rl.last_time
      /\ IF usable THEN em' \in get_min(em) ELSE em' = [em EXCEPT !.tells = NONE]
  BY DEF SendRtcp
<1>5. IF usable
      THEN LET next == Updated(info)
               limited == IF em'.min > 0 THEN AtMost(next.remb, em'.min) ELSE next.remb
               sent == AtLeast(AtLeast(limited, rl.min_bw), REMB_MIN)
           IN  rl' = [next EXCEPT !.last_time = now, !.last_sent_time = now,
                        !.remb_sent = sent, !.told = Marshalled(sent)]
      ELSE rl' = IF info.found THEN [rl EXCEPT !.last_time = now] ELSE rl
  BY DEF SendRtcp
<1>6. info.bitrate \in Nat /\ info.fraction \in Nat /\ info.packets \in Nat
  BY <1>1, <1>4, InfoBounds DEF EstimateInv
<1> HIDE DEF info
<1>7. ManagerType(em') /\ ManagerInv(em') /\ KeepsFresh(em', em, {})
  <2>1. CASE usable
    BY <1>1, <1>3, <1>4, <2>1, GetMinFacts
  <2>2. CASE ~usable
    <3>1. em' = [em EXCEPT !.tells = NONE]
      BY <1>4, <2>2
    <3>2. /\ em'.hash = em.hash /\ em'.min = em.min /\ em'.lifted = em.lifted
          /\ em' \in [hash : {em.hash}, min : Nat, oldest : Nat \cup {NONE}, tells : Nat \cup {NONE},
                      lifted : BOOLEAN]
      BY <1>1, <3>1 DEF ManagerType
    <3> QED
      BY <1>1, <3>2 DEF ManagerType, ManagerInv, KeepsFresh
  <2> QED
    BY <2>1, <2>2
<1>8. ManagerType(em)' /\ ManagerInv(em)'
  BY <1>7 DEF ManagerType, ManagerInv
<1>9. AskedInv'
  <2> SUFFICES ASSUME NEW d \in Consumers,
                      rm'[d].probed /\ asked'[d].ts # Never /\ now' - asked'[d].ts <= CLEAR_INTERVAL
               PROVE  /\ d \in DOMAIN em'.hash
                      /\ em'.hash[d] = [bitrate |-> Limits(rm'[d], asked'[d].bitrate), ts |-> asked'[d].ts]
    BY DEF AskedInv, Limits
  <2>1. d \in DOMAIN em.hash /\ em.hash[d] = [bitrate |-> Limits(rm[d], asked[d].bitrate), ts |-> asked[d].ts]
    BY <1>1, <1>4 DEF AskedInv
  <2>2. now - em.hash[d].ts <= CLEAR_INTERVAL
    BY <1>4, <2>1
  <2>3. d \in DOMAIN em'.hash /\ em'.hash[d] = em.hash[d]
    BY <1>7, <2>1, <2>2 DEF KeepsFresh
  <2> QED
    BY <1>4, <2>1, <2>3
<1>10. rl \in Local(rl.remb_sent, rl.told) /\ rl.min_bw \in Nat
  BY <1>1 DEF EstimateInv, EstimateTypes, Local
<1>11. /\ rl'.remb_sent \in Nat /\ rl'.told \in Nat
       /\ rl'.last_sent_time # rl.last_sent_time =>
            /\ rl'.min_bw = rl.min_bw
            /\ em'.min > 0 => rl'.told <= AtLeast(AtLeast(em'.min, rl.min_bw), REMB_MIN)
  <2>1. CASE usable
    <3> DEFINE next == Updated(info)
               limited == IF em'.min > 0 THEN AtMost(next.remb, em'.min) ELSE next.remb
               sent == AtLeast(AtLeast(limited, rl.min_bw), REMB_MIN)
    <3>1. rl' = [next EXCEPT !.last_time = now, !.last_sent_time = now,
                   !.remb_sent = sent, !.told = Marshalled(sent)]
      BY <1>5, <2>1
    <3>2. next \in Local(rl.remb_sent, rl.told)
      BY <1>6, <1>10, UpdatedBounds
    <3>3. next.min_bw = rl.min_bw
      BY <1>10 DEF Updated
    <3>4. em'.min \in Nat
      BY <1>7 DEF ManagerType
    <3>5. next.remb \in Nat
      BY <3>2 DEF Local
    <3> HIDE DEF next
    <3>6. sent \in Nat /\ (em'.min > 0 => sent <= AtLeast(AtLeast(em'.min, rl.min_bw), REMB_MIN))
      BY <1>3, <1>10, <3>4, <3>5 DEF AtLeast, AtMost
    <3> HIDE DEF sent
    <3>7. Marshalled(sent) \in Nat /\ Marshalled(sent) <= sent
      BY <3>6, MarshalledBounds
    <3>8. rl'.remb_sent = sent /\ rl'.told = Marshalled(sent) /\ rl'.min_bw = rl.min_bw
      BY <3>1, <3>2, <3>3 DEF Local
    <3>9. AtLeast(AtLeast(em'.min, rl.min_bw), REMB_MIN) \in Nat
      BY <1>3, <1>10, <3>4 DEF AtLeast
    <3> QED
      BY <3>6, <3>7, <3>8, <3>9
  <2>2. CASE ~usable
    <3>1. /\ rl'.remb_sent = rl.remb_sent /\ rl'.told = rl.told
          /\ rl'.last_sent_time = rl.last_sent_time
      BY <1>5, <1>10, <2>2 DEF Local
    <3> QED
      BY <1>1, <3>1 DEF ClockTypes
  <2> QED
    BY <2>1, <2>2
<1>12. ClockTypes'
  BY <1>1, <1>4, <1>11 DEF ClockTypes
<1>13. EncoderType(enc)' /\ EncoderInv(enc)' /\ EncoderTold'
  BY <1>4 DEF RembInv, EncoderType, EncoderInv, EncoderTold
<1> QED
  BY <1>2, <1>8, <1>9, <1>10, <1>11, <1>12, <1>13 DEF RembInv

(* kms_remb_remote_set_params: only what new consumers start from changes. *)
LEMMA RembParamsKeep ==
  ASSUME RembInv, NEW p \in LocalParams, NEW on_connect \in Asked, SetRembParams(p, on_connect),
         role # "encoder"
  PROVE  RembInv' /\ rl'.last_sent_time = rl.last_sent_time
<1>1. /\ rl' = [rl EXCEPT !.params = p]
      /\ rm' = [c \in Consumers |-> [rm[c] EXCEPT !.remb_on_connect = on_connect]]
      /\ rembs < MaxRembs /\ rembs' = rembs + 1
      /\ UNCHANGED <<role, now, source, seen, em, enc, asked, peak, unnoticed>>
  BY DEF SetRembParams
<1>2. EstimateInv /\ ClockTypes /\ AskedInv
  BY DEF RembInv
<1>3. EstimateInv'
  BY <1>2, SetParamsKeeps
<1>4. rl \in Local(rl.remb_sent, rl.told)
  BY <1>2 DEF EstimateInv, EstimateTypes
<1>5. rl'.remb_sent = rl.remb_sent /\ rl'.told = rl.told /\ rl'.last_sent_time = rl.last_sent_time
  BY <1>1, <1>4 DEF Local
<1>6. MaxRembs \in Nat /\ on_connect \in Nat
  BY RembAssumption
<1>7. /\ rm' \in [Consumers -> Remotes]
      /\ \A c \in Consumers : /\ (rm'[c].probed <=> rm[c].probed) /\ rm'[c].min_bw = rm[c].min_bw
                              /\ rm'[c].max_bw = rm[c].max_bw
  BY <1>1, <1>2, <1>6 DEF ClockTypes, Remotes
<1>8. ClockTypes'
  BY <1>1, <1>2, <1>5, <1>6, <1>7 DEF ClockTypes
<1>9. AskedInv'
  <2> SUFFICES ASSUME NEW d \in Consumers,
                      rm'[d].probed /\ asked'[d].ts # Never /\ now' - asked'[d].ts <= CLEAR_INTERVAL
               PROVE  /\ d \in DOMAIN em'.hash
                      /\ em'.hash[d] = [bitrate |-> Limits(rm'[d], asked'[d].bitrate), ts |-> asked'[d].ts]
    BY DEF AskedInv, Limits
  <2>1. Limits(rm'[d], asked[d].bitrate) = Limits(rm[d], asked[d].bitrate)
    BY <1>7 DEF Limits
  <2> QED
    BY <1>1, <1>2, <1>7, <2>1 DEF AskedInv
<1>10. ManagerType(em)' /\ ManagerInv(em)' /\ EncoderType(enc)' /\ EncoderInv(enc)' /\ EncoderTold'
  BY <1>1 DEF RembInv, ManagerType, ManagerInv, EncoderType, EncoderInv, EncoderTold
<1> QED
  BY <1>3, <1>5, <1>8, <1>9, <1>10 DEF RembInv

(* Nothing was asked for at first. *)
LEMMA RembInvInit == RembInit => RembInv
<1> SUFFICES ASSUME RembInit PROVE RembInv
  OBVIOUS
<1>1. PICK p \in LocalParams, bw \in Bandwidths :
        rl = NewLocal(p, bw) /\ rm = [c \in Consumers |-> NewRemote(bw)]
  BY DEF RembInit
<1>2. /\ bw[1] \in Nat /\ bw[2] \in Nat /\ REMB_MAX \in Nat /\ REMB_MAX > 0
      /\ DEFAULT_MAX_ENCODER_BITRATE \in Nat /\ DEFAULT_MAX_ENCODER_BITRATE > 0
      /\ DEFAULT_REMB_ON_CONNECT \in Nat /\ DEFAULT_TARGET_ENCODER_BITRATE \in Nat
      /\ KBPS \in Nat /\ KBPS > 0 /\ MaxRembs \in Nat
  BY RembAssumption
<1>3. rm \in [Consumers -> Remotes] /\ \A c \in Consumers : rm[c].probed = FALSE
  BY <1>1, <1>2 DEF NewRemote, Remotes
<1>4. asked \in [Consumers -> RembEntry]
  BY DEF RembInit, RembEntry, Never
<1>5. rl.remb_sent \in Nat /\ rl.told \in Nat
  BY <1>1, <1>2 DEF NewLocal
<1>6. ClockTypes
  <2>1. role \in {"estimate", "local", "encoder"} /\ now = 1 /\ rembs = 0
    BY DEF RembInit
  <2>2. MaxTicks[role] \in Nat /\ MaxTicks[role] > 0
    BY <2>1, RembAssumption
  <2> QED
    BY <1>2, <1>3, <1>4, <1>5, <2>1, <2>2 DEF ClockTypes
<1>7. em.hash = <<>> /\ em.min = 0 /\ em.oldest = 1 /\ em.tells = NONE /\ em.lifted = FALSE
      /\ em \in [hash : {<<>>}, min : Nat, oldest : Nat \cup {NONE}, tells : Nat \cup {NONE}, lifted : BOOLEAN]
  BY DEF RembInit, NewManager
<1>8. DOMAIN <<>> = {} /\ <<>> \in [{} -> RembEntry]
  OBVIOUS
<1>9. ManagerType(em) /\ ManagerInv(em)
  BY <1>7, <1>8 DEF ManagerType, ManagerInv
<1>10. AskedInv
  BY <1>3 DEF AskedInv
<1>11. EncoderType(enc) /\ EncoderInv(enc)
  <2>1. PICK type \in {"VP8", "other"} : enc = NewEncoder(type)
    BY DEF RembInit
  <2> DEFINE k == IF type = "other" THEN 0 ELSE DEFAULT_TARGET_ENCODER_BITRATE \div KBPS
  <2>2. k \in Nat /\ (type = "other" => k = 0)
    BY <1>2, Quotient
  <2> HIDE DEF k
  <2>3. enc = [type |-> type, remb |-> -1, tag |-> -1, min |-> 0, max |-> DEFAULT_MAX_ENCODER_BITRATE,
               current |-> DEFAULT_TARGET_ENCODER_BITRATE, kbps |-> k]
    BY <2>1 DEF NewEncoder, k
  <2> QED
    BY <1>2, <2>2, <2>3 DEF EncoderType, EncoderInv
<1>12. EncoderTold
  BY <1>7 DEF EncoderTold
<1> QED
  BY <1>6, <1>9, <1>10, <1>11, <1>12, EstimateInvInit DEF RembInv

(* No step breaks the invariant, and only on_sending_rtcp sends. *)
LEMMA RembInvStep ==
  ASSUME RembInv, [RembNext]_rembVars
  PROVE  /\ RembInv'
         /\ rl'.last_sent_time # rl.last_sent_time => SendRtcp
<1>1. EstimateInv'
  BY EstimateInvStep DEF RembInv
<1>2. CASE \/ \E a \in Arrivals, restart \in BOOLEAN : Tick(a, restart)
           \/ \E a \in SteadyArrivals : Tick(a, FALSE)
           \/ Quiet
  <2>1. now < MaxTicks[role] /\ now' = now + 1 /\ UNCHANGED <<role, rl, rm, em, enc, asked, rembs>>
    <3>1. \A a \in Arrivals \cup SteadyArrivals, restart \in BOOLEAN :
            Tick(a, restart) => /\ now < MaxTicks[role] /\ now' = now + 1
                                /\ UNCHANGED <<role, rl, rm, em, enc, asked, rembs>>
      BY DEF Tick
    <3> QED
      BY <1>2, <3>1 DEF Quiet
  <2> QED
    BY <1>1, <2>1, ClockKeeps
<1>3. CASE SendRtcp
  BY <1>3, SendRtcpSends
<1>4. CASE \E c \in Consumers : CapsArrive(c)
  BY <1>4, CapsArriveKeeps DEF CapsArrive
<1>5. CASE \E c \in Consumers, bitrate \in Asked : RembPacket(c, bitrate)
  BY <1>5, RembPacketKeeps DEF RembPacket
<1>6. CASE \E bitrate \in EncoderBitrates : TagEvent(bitrate) \/ SetMin(bitrate)
  <2>1. PICK v \in EncoderBitrates : TagEvent(v) \/ SetMin(v)
    BY <1>6
  <2>2. v \in Nat /\ EncoderType(enc)
    BY RembAssumption DEF RembInv
  <2>3. PICK e \in {[enc EXCEPT !.tag = v], [enc EXCEPT !.min = AtMost(v, enc.max)]} :
          /\ enc' = set_target_bitrate(e) /\ rembs < MaxRembs /\ rembs' = rembs + 1
          /\ UNCHANGED <<role, now, source, seen, rl, rm, em, asked, peak, unnoticed>>
    BY <2>1 DEF TagEvent, SetMin
  <2>4. EncoderType(e) /\ e.remb = enc.remb /\ e.type = enc.type /\ e.kbps = enc.kbps
    <3>1. CASE e = [enc EXCEPT !.tag = v]
      BY <2>2, <3>1 DEF EncoderType
    <3>2. CASE e = [enc EXCEPT !.min = AtMost(v, enc.max)]
      <4> DEFINE w == AtMost(v, enc.max)
      <4>1. w \in Nat /\ w <= enc.max
        BY <2>2 DEF EncoderType, AtMost
      <4> HIDE DEF w
      <4>2. e = [enc EXCEPT !.min = w]
        BY <3>2 DEF w
      <4> QED
        BY <2>2, <4>1, <4>2 DEF EncoderType
    <3> QED
      BY <2>3, <3>1, <3>2
  <2> QED
    BY <2>3, <2>4, EncoderKeeps
<1>7. CASE \E v \in EncoderBitrates \cup {0} : SetMax(v)
  <2>1. PICK v \in EncoderBitrates \cup {0} : SetMax(v)
    BY <1>7
  <2>2. /\ v \in Nat /\ v <= DEFAULT_MAX_ENCODER_BITRATE /\ EncoderType(enc)
        /\ DEFAULT_MAX_ENCODER_BITRATE \in Nat /\ DEFAULT_MAX_ENCODER_BITRATE > 0
    BY RembAssumption DEF RembInv
  <2> DEFINE w == IF v = 0 THEN DEFAULT_MAX_ENCODER_BITRATE ELSE AtLeast(v, enc.min)
             e == [enc EXCEPT !.max = w]
  <2>3. w \in 1..DEFAULT_MAX_ENCODER_BITRATE /\ enc.min <= w
    BY <2>2 DEF EncoderType, AtLeast
  <2>4. /\ enc' = set_target_bitrate(e) /\ rembs < MaxRembs /\ rembs' = rembs + 1
        /\ UNCHANGED <<role, now, source, seen, rl, rm, em, asked, peak, unnoticed>>
    BY <2>1 DEF SetMax
  <2> HIDE DEF w
  <2>5. EncoderType(e) /\ e.remb = enc.remb /\ e.type = enc.type /\ e.kbps = enc.kbps
    BY <2>2, <2>3 DEF EncoderType
  <2> HIDE DEF e
  <2> QED
    BY <2>4, <2>5, EncoderKeeps
<1>8. CASE \E p \in LocalParams, bitrate \in Asked : role # "encoder" /\ SetRembParams(p, bitrate)
  BY <1>8, RembParamsKeep
<1>9. CASE UNCHANGED rembVars
  <2>1. AskedInv' /\ EncoderTold' /\ ClockTypes'
    BY <1>9 DEF rembVars, RembInv, AskedInv, Limits, EncoderTold, ClockTypes
  <2>2. ManagerType(em)' /\ ManagerInv(em)' /\ EncoderType(enc)' /\ EncoderInv(enc)'
    BY <1>9 DEF rembVars, RembInv, ManagerType, ManagerInv, EncoderType, EncoderInv
  <2>3. rl'.last_sent_time = rl.last_sent_time
    BY <1>9 DEF rembVars
  <2> QED
    BY <1>1, <2>1, <2>2, <2>3 DEF RembInv
<1> QED
  BY <1>2, <1>3, <1>4, <1>5, <1>6, <1>7, <1>8, <1>9 DEF RembNext

(* What a video is for does not change. *)
LEMMA RoleStays ==
  ASSUME [RembNext]_rembVars
  PROVE  role' = role
<1>1. \A a, restart : Tick(a, restart) => role' = role
  BY DEF Tick
<1>2. Quiet \/ SendRtcp => role' = role
  BY DEF Quiet, SendRtcp
<1>3. \A c : CapsArrive(c) => role' = role
  BY DEF CapsArrive
<1>4. \A c, bitrate : RembPacket(c, bitrate) \/ SetRembParams(c, bitrate) => role' = role
  BY DEF RembPacket, SetRembParams
<1>5. \A v : TagEvent(v) \/ SetMin(v) \/ SetMax(v) => role' = role
  BY DEF TagEvent, SetMin, SetMax
<1>6. UNCHANGED rembVars => role' = role
  BY DEF rembVars
<1> QED
  BY <1>1, <1>2, <1>3, <1>4, <1>5, <1>6 DEF RembNext

(* The invariant of the congestion control holds always. *)
THEOREM RembInvHolds == RembSpec => []RembInv
<1>1. RembInv /\ [RembNext]_rembVars => RembInv'
  BY RembInvStep
<1> QED
  BY <1>1, RembInvInit, PTL DEF RembSpec

(* The managers of a video and its encoder keep to their types: counters, bitrates and times are
   natural numbers, the table has entries of consumers only, and the encoder's limits leave room. *)
THEOREM RembTypeCorrect == RembSpec => []RembTypeOK
<1>1. RembInv => RembTypeOK
  <2> SUFFICES ASSUME RembInv PROVE RembTypeOK
    OBVIOUS
  <2>1. EstimateTypes /\ ClockTypes /\ ManagerType(em) /\ EncoderType(enc)
    BY DEF RembInv, EstimateInv
  <2>2. rl \in [params : LocalParams, min_bw : Nat, max_bw : Nat, probed : BOOLEAN, remb : Nat,
                remb_sent : Nat, told : Nat, threshold : Nat, lineal_factor : Nat, record : Nat,
                max_br : Nat, avg_br : Nat, last_time : Nat, last_sent_time : Nat]
    <3>1. rl \in Local(rl.remb_sent, rl.told) /\ rl.remb_sent \in Nat /\ rl.told \in Nat
      BY <2>1 DEF EstimateTypes, ClockTypes
    <3> DEFINE s == rl.remb_sent
               t == rl.told
    <3> HIDE DEF s, t
    <3>2. rl \in Local(s, t) /\ s \in Nat /\ t \in Nat
      BY <3>1 DEF s, t
    <3> QED
      BY <3>2 DEF Local
  <2> QED
    BY <2>1, <2>2 DEF RembTypeOK, EstimateTypes, SourceCounters, SeenCounters, ClockTypes, Remotes,
       ManagerType, EncoderType
<1> QED
  BY <1>1, RembInvHolds, PTL

(* RembEventManager: what the endpoint tells its peer, and what the encoder is set to, is never more
   than the peer of a consumer last asked for, or the configured minima: for any number of consumers,
   any bitrates in any order, and while entries come and go. *)
THEOREM SlowestAlwaysRespected == RembSpec => SlowestRespected
<1> DEFINE Respected ==
      \A c \in Slowest' :
        /\ rl'.last_sent_time # rl.last_sent_time =>
             rl'.told <= Max({asked'[c].bitrate, rm'[c].min_bw, rl'.min_bw, REMB_MIN})
        /\ (role = "encoder" /\ em'.min > 0) =>
             enc'.kbps <= Max({asked'[c].bitrate, rm'[c].min_bw, enc'.min}) \div KBPS
<1>1. RembInv /\ RembInv' /\ MinRespects' /\ [RembNext]_rembVars => [Respected]_rembVars
  <2> SUFFICES ASSUME RembInv, RembInv', MinRespects', [RembNext]_rembVars, NEW c \in Slowest'
               PROVE  /\ rl'.last_sent_time # rl.last_sent_time =>
                           rl'.told <= Max({asked'[c].bitrate, rm'[c].min_bw, rl'.min_bw, REMB_MIN})
                      /\ (role = "encoder" /\ em'.min > 0) =>
                           enc'.kbps <= Max({asked'[c].bitrate, rm'[c].min_bw, enc'.min}) \div KBPS
    OBVIOUS
  <2>1. em'.min \in Nat /\ em'.min > 0 /\ em'.min <= AtLeast(asked'[c].bitrate, rm'[c].min_bw)
    BY DEF MinRespects
  <2>2. asked'[c].bitrate \in Nat /\ rm'[c].min_bw \in Nat
    BY DEF MinRespects
  <2> DEFINE a == asked'[c].bitrate
             b == rm'[c].min_bw
             l == rl'.min_bw
             m == enc'.min
  <2>3. ASSUME rl'.last_sent_time # rl.last_sent_time
        PROVE  rl'.told <= Max({a, b, l, REMB_MIN})
    <3>1. /\ l \in Nat /\ rl'.told \in Nat
          /\ rl'.told <= AtLeast(AtLeast(em'.min, l), REMB_MIN) /\ REMB_MIN \in Nat
      BY <2>1, <2>3, RembInvStep, SendRtcpSends, RembAssumption
    <3> HIDE DEF a, b, l
    <3>2. /\ a <= Max({a, b, l, REMB_MIN}) /\ b <= Max({a, b, l, REMB_MIN})
          /\ l <= Max({a, b, l, REMB_MIN}) /\ REMB_MIN <= Max({a, b, l, REMB_MIN})
          /\ Max({a, b, l, REMB_MIN}) \in Nat
      BY <2>2, <3>1, MaxOfFour DEF a, b
    <3> QED
      BY <2>1, <2>2, <3>1, <3>2 DEF AtLeast, a, b
  <2>4. ASSUME role = "encoder", em'.min > 0
        PROVE  enc'.kbps <= Max({a, b, m}) \div KBPS
    <3>1. enc'.remb = em'.min
      BY <2>4, RoleStays DEF RembInv, EncoderTold
    <3>2. /\ m \in Nat /\ enc'.kbps \in Nat /\ KBPS \in Nat /\ KBPS > 0
          /\ enc'.kbps <= AtLeast(em'.min, m) \div KBPS
      BY <2>1, <3>1, RembAssumption DEF RembInv, EncoderType, EncoderInv
    <3> HIDE DEF a, b, m
    <3>3. a <= Max({a, b, m}) /\ b <= Max({a, b, m}) /\ m <= Max({a, b, m}) /\ Max({a, b, m}) \in Nat
      BY <2>2, <3>2, MaxOfThree DEF a, b
    <3>4. AtLeast(em'.min, m) <= Max({a, b, m}) /\ AtLeast(em'.min, m) \in Nat
      BY <2>1, <2>2, <3>2, <3>3 DEF AtLeast, a, b
    <3>5. AtLeast(em'.min, m) \div KBPS <= Max({a, b, m}) \div KBPS
      BY <3>2, <3>3, <3>4, QuotientGrows
    <3>6. AtLeast(em'.min, m) \div KBPS \in Int /\ Max({a, b, m}) \div KBPS \in Int
      BY <3>2, <3>3, <3>4, Division
    <3> QED
      BY <3>2, <3>5, <3>6
  <2> QED
    BY <2>3, <2>4
<1> QED
  BY <1>1, RembInvHolds, SlowestFacts, PTL DEF RembSpec, SlowestRespected

-----------------------------------------------------------------------------
(* What the constants of the clock are. *)
LEMMA ClockFacts ==
  /\ CYCLE \in Nat /\ CYCLE > 0 /\ SECOND \in Nat /\ SECOND > 0
  /\ CLOCK_RATE \in Nat /\ CLOCK_RATE > 0 /\ MAX_TIME \in Nat
  /\ Half \in Nat /\ CYCLE = 2 * Half
BY SyncAssumption DEF Half

(* A number of cycles, and what a packet carries of a media time. *)
Cycles(i) == CYCLE * i
StampOf(m) == m % CYCLE

(* A media time, as cycles and a stamp. *)
LEMMA StampFacts ==
  ASSUME NEW m \in Nat
  PROVE  \E d \in Nat, r \in Nat :
           /\ m \div CYCLE = d /\ StampOf(m) = r
           /\ r < CYCLE /\ Cycles(d) \in Nat /\ d * CYCLE = Cycles(d) /\ m = Cycles(d) + r
<1>1. CYCLE \in Nat \ {0}
  BY ClockFacts
<1>2. m % CYCLE \in 0..(CYCLE - 1) /\ m \div CYCLE \in Nat
  BY <1>1
<1>3. m % CYCLE = m - CYCLE * (m \div CYCLE)
  BY <1>1, SMTT(60)
<1> DEFINE d == m \div CYCLE
           r == m % CYCLE
           x == CYCLE * d
<1>4. d \in Nat /\ r \in Nat /\ r < CYCLE /\ r = m - x
  BY <1>1, <1>2, <1>3
<1>5. \A i \in Nat : CYCLE * i \in Nat /\ i * CYCLE = CYCLE * i
  BY <1>1
<1>6. m \div CYCLE = d /\ m % CYCLE = r
  OBVIOUS
<1> HIDE DEF d, r
<1>7. x \in Nat /\ d * CYCLE = x
  BY <1>4, <1>5
<1>8. m = x + r
  <2> HIDE DEF x
  <2> QED
    BY <1>4, <1>7
<1> QED
  BY <1>4, <1>6, <1>7, <1>8 DEF Cycles, StampOf

(* Cycles are apart by cycles. *)
LEMMA CyclesApart ==
  ASSUME NEW i \in Int, NEW j \in Int
  PROVE  /\ Cycles(i) \in Int
         /\ i < j => Cycles(i) + CYCLE <= Cycles(j)
         /\ Cycles(i + j) = Cycles(i) + Cycles(j)
         /\ Cycles(i + 1) = Cycles(i) + CYCLE
BY ClockFacts DEF Cycles

(* The three readings of a stamp, as gst_rtp_buffer_ext_timestamp chooses among them. *)
LEMMA Readings ==
  ASSUME NEW ext \in Nat, NEW stamp \in Nat, NEW same \in Nat,
         same = stamp + (ext \div CYCLE) * CYCLE
  PROVE  /\ ext - same >= Half =>
              ext_timestamp(ext, stamp) = [value |-> same + CYCLE, ext |-> same + CYCLE, kept |-> TRUE]
         /\ same - ext >= Half =>
              ext_timestamp(ext, stamp) =
                [value |-> IF same < CYCLE THEN 0 ELSE same - CYCLE, ext |-> ext, kept |-> FALSE]
         /\ ext - same < Half /\ same - ext < Half =>
              ext_timestamp(ext, stamp) = [value |-> same, ext |-> same, kept |-> TRUE]
<1> DEFINE down == IF same < CYCLE THEN 0 ELSE same - CYCLE
           up == same + CYCLE
           d == ext - same
           u == same - ext
<1>1. ext_timestamp(ext, stamp) =
        CASE ext = NO_STAMP -> [value |-> stamp, ext |-> stamp, kept |-> TRUE]
          [] ext # NO_STAMP /\ d >= Half -> [value |-> up, ext |-> up, kept |-> TRUE]
          [] ext # NO_STAMP /\ u >= Half -> [value |-> down, ext |-> ext, kept |-> FALSE]
          [] OTHER -> [value |-> same, ext |-> same, kept |-> TRUE]
  BY DEF ext_timestamp
<1>2. ext # NO_STAMP /\ Half \in Nat /\ Half > 0 /\ d \in Int /\ u \in Int /\ d = -u
  BY ClockFacts DEF NO_STAMP
<1> HIDE DEF down, up, d, u
<1>3. ~(d >= Half /\ u >= Half)
  BY <1>2
<1>4. /\ d >= Half => ext_timestamp(ext, stamp) = [value |-> up, ext |-> up, kept |-> TRUE]
      /\ u >= Half => ext_timestamp(ext, stamp) = [value |-> down, ext |-> ext, kept |-> FALSE]
      /\ ~(d >= Half) /\ ~(u >= Half) =>
           ext_timestamp(ext, stamp) = [value |-> same, ext |-> same, kept |-> TRUE]
  BY <1>1, <1>2, <1>3
<1>5. (d < Half => ~(d >= Half)) /\ (u < Half => ~(u >= Half))
  BY <1>2
<1> QED
  BY <1>4, <1>5 DEF down, up, d, u

(* A stamp near the newest is understood: with ext the last stamp kept, of media time
   ext + Cycles(j), the stamp of m is extended to m - Cycles(j), or m is from before the last
   wrap and the stamp is not kept. *)
LEMMA ExtRight ==
  ASSUME NEW m \in Nat, NEW ext \in Nat, NEW j \in Nat, NEW n \in Nat,
         ext + Cycles(j) <= n, 4 * (n - (ext + Cycles(j))) < CYCLE,
         4 * (m - n) > -CYCLE, 4 * (m - n) < CYCLE,
         NEW e, e = ext_timestamp(ext, StampOf(m))
  PROVE  /\ e.kept \in BOOLEAN /\ e.value \in Nat /\ e.ext \in Nat
         /\ e.kept => e.value = m - Cycles(j) /\ e.ext = m - Cycles(j)
         /\ ~e.kept => e.ext = ext /\ m <= n
<1>1. PICK a \in Nat, r \in Nat : /\ StampOf(m) = r /\ r < CYCLE /\ Cycles(a) \in Nat
                                  /\ m = Cycles(a) + r
  BY StampFacts
<1>2. PICK b \in Nat, q \in Nat : /\ ext \div CYCLE = b /\ q < CYCLE /\ Cycles(b) \in Nat
                                  /\ b * CYCLE = Cycles(b) /\ ext = Cycles(b) + q
  BY StampFacts
<1> DEFINE same == r + Cycles(b)
<1>3. Cycles(j) \in Int
  BY CyclesApart
<1>4. CYCLE \in Nat /\ CYCLE > 0 /\ Half \in Nat /\ CYCLE = 2 * Half
  BY ClockFacts
<1>5. \/ Cycles(a) = Cycles(b) + Cycles(j) /\ r - q < Half /\ q - r < Half
      \/ Cycles(a) = Cycles(b) + Cycles(j) + CYCLE /\ q - r >= Half
      \/ Cycles(a) + CYCLE = Cycles(b) + Cycles(j) /\ r - q >= Half /\ Cycles(a) + r <= n
  <2> DEFINE s == b + j
  <2>1. CYCLE \in Nat /\ CYCLE > 0 /\ Half \in Nat /\ CYCLE = 2 * Half /\ r < CYCLE /\ q < CYCLE
    BY <1>1, <1>2, <1>4
  <2>11. /\ Cycles(b) + q + Cycles(j) <= n /\ 4 * (n - (Cycles(b) + q + Cycles(j))) < CYCLE
        /\ 4 * (Cycles(a) + r - n) > -CYCLE /\ 4 * (Cycles(a) + r - n) < CYCLE
    BY <1>1, <1>2, <1>3
  <2>2. /\ Cycles(a) \in Int /\ Cycles(b) \in Int /\ Cycles(j) \in Int /\ s \in Int
        /\ Cycles(s) = Cycles(b) + Cycles(j)
    <3>1. b \in Int /\ j \in Int /\ s \in Int
      OBVIOUS
    <3>2. Cycles(b + j) = Cycles(b) + Cycles(j)
      BY <3>1, CyclesApart
    <3> QED
      BY <1>1, <1>2, <1>3, <3>1, <3>2
  <2> HIDE DEF s
  <2>3. Cycles(s) \in Int /\ a \in Int /\ a + 1 \in Int /\ s + 1 \in Int
    BY <2>2
  <2>4. Cycles(a + 1) = Cycles(a) + CYCLE /\ Cycles(s + 1) = Cycles(s) + CYCLE
    BY <2>2, CyclesApart
  <2>5. /\ a + 1 < s => Cycles(a + 1) + CYCLE <= Cycles(s)
        /\ s + 1 < a => Cycles(s + 1) + CYCLE <= Cycles(a)
    BY <2>2, <2>3, CyclesApart
  <2>6. a + 1 < s \/ a + 1 = s \/ a = s \/ a = s + 1 \/ s + 1 < a
    BY <2>2
  <2>7. ~(a + 1 < s) /\ ~(s + 1 < a)
    BY <2>1, <2>2, <2>4, <2>5, <2>11
  <2>8. CASE a = s
    <3>1. Cycles(a) = Cycles(b) + Cycles(j)
      BY <2>2, <2>8
    <3> QED
      BY <2>1, <2>2, <2>11, <3>1
  <2>9. CASE a = s + 1
    <3>1. Cycles(a) = Cycles(b) + Cycles(j) + CYCLE
      BY <2>2, <2>4, <2>9
    <3> QED
      BY <2>1, <2>2, <2>11, <3>1
  <2>10. CASE a + 1 = s
    <3>1. Cycles(a) + CYCLE = Cycles(b) + Cycles(j)
      BY <2>2, <2>4, <2>10
    <3> QED
      BY <2>1, <2>2, <2>11, <3>1
  <2> QED
    BY <2>6, <2>7, <2>8, <2>9, <2>10
<1>6. same \in Nat /\ same = r + (ext \div CYCLE) * CYCLE /\ e = ext_timestamp(ext, r)
  BY <1>1, <1>2
<1>7. ext - same = q - r /\ same - ext = r - q /\ m = Cycles(a) + r
  BY <1>1, <1>2
<1>8. CASE Cycles(a) = Cycles(b) + Cycles(j) /\ r - q < Half /\ q - r < Half
  <2>1. same = m - Cycles(j)
    BY <1>1, <1>2, <1>3, <1>8
  <2> HIDE DEF same
  <2>2. e = [value |-> same, ext |-> same, kept |-> TRUE]
    BY <1>6, <1>7, <1>8, Readings
  <2> QED
    BY <1>6, <2>1, <2>2
<1>9. CASE Cycles(a) = Cycles(b) + Cycles(j) + CYCLE /\ q - r >= Half
  <2>1. same + CYCLE = m - Cycles(j) /\ same + CYCLE \in Nat
    BY <1>1, <1>2, <1>3, <1>4, <1>9
  <2> HIDE DEF same
  <2>2. e = [value |-> same + CYCLE, ext |-> same + CYCLE, kept |-> TRUE]
    BY <1>6, <1>7, <1>9, Readings
  <2> QED
    BY <1>6, <2>1, <2>2
<1>10. CASE Cycles(a) + CYCLE = Cycles(b) + Cycles(j) /\ r - q >= Half /\ Cycles(a) + r <= n
  <2> HIDE DEF same
  <2>1. e = [value |-> IF same < CYCLE THEN 0 ELSE same - CYCLE, ext |-> ext, kept |-> FALSE]
    BY <1>6, <1>7, <1>10, Readings
  <2>2. (IF same < CYCLE THEN 0 ELSE same - CYCLE) \in Nat
    BY <1>4, <1>6
  <2>3. m <= n
    BY <1>7, <1>10
  <2> QED
    BY <2>1, <2>2, <2>3
<1> QED
  BY <1>5, <1>8, <1>9, <1>10

(* Distances in nanoseconds are numbers, grow with the distance, and add up to one nanosecond
   of rounding. *)
LEMMA NanosecondsSum ==
  ASSUME NEW a \in Nat, NEW b \in Nat
  PROVE  /\ Nanoseconds(a) \in Nat
         /\ Nanoseconds(a) + Nanoseconds(b) <= Nanoseconds(a + b)
         /\ Nanoseconds(a + b) <= Nanoseconds(a) + Nanoseconds(b) + 1
<1> DEFINE p == a * SECOND
           q == b * SECOND
           R == CLOCK_RATE
<1>1. R \in Nat /\ R > 0 /\ p \in Nat /\ q \in Nat /\ (a + b) * SECOND = p + q
  BY ClockFacts
<1>2. Nanoseconds(a) = p \div R /\ Nanoseconds(b) = q \div R /\ Nanoseconds(a + b) = (p + q) \div R
  BY <1>1 DEF Nanoseconds
<1> HIDE DEF p, q, R
<1> DEFINE x == p \div R
           y == q \div R
           z == (p + q) \div R
<1>3. /\ x \in Nat /\ p % R \in 0..(R - 1) /\ p = x * R + (p % R)
      /\ y \in Nat /\ q % R \in 0..(R - 1) /\ q = y * R + (q % R)
  BY <1>1, Division, Quotient
<1>4. z \in Nat /\ (p + q) % R \in 0..(R - 1) /\ p + q = z * R + ((p + q) % R)
  BY <1>1, Division, Quotient
<1>5. Nanoseconds(a) = x /\ Nanoseconds(b) = y /\ Nanoseconds(a + b) = z
  BY <1>2
<1> HIDE DEF x, y, z
<1>6. x * R \in Int /\ y * R \in Int /\ z * R \in Int /\ (x + y) * R = x * R + y * R
  BY <1>1, <1>3, <1>4
<1>7. ASSUME z + 1 <= x + y PROVE FALSE
  <2>1. (z + 1) * R <= (x + y) * R /\ (z + 1) * R = z * R + R
    BY <1>1, <1>3, <1>4, <1>7, Product
  <2> QED
    BY <1>1, <1>3, <1>4, <1>6, <2>1
<1>8. ASSUME x + y + 2 <= z PROVE FALSE
  <2>1. (x + y + 2) * R <= z * R
    BY <1>1, <1>3, <1>4, <1>8, Product
  <2>2. (x + y + 2) * R = (x + y) * R + R + R
    BY <1>1, <1>3
  <2> QED
    BY <1>1, <1>3, <1>4, <1>6, <2>1, <2>2
<1> QED
  BY <1>3, <1>4, <1>5, <1>7, <1>8

(* A later media time has no fewer nanoseconds. *)
LEMMA NanosecondsGrow ==
  ASSUME NEW a \in Nat, NEW b \in Nat, a <= b
  PROVE  Nanoseconds(a) \in Nat /\ Nanoseconds(b) \in Nat /\ Nanoseconds(a) <= Nanoseconds(b)
<1> DEFINE c == b - a
<1>1. c \in Nat /\ a + c = b
  OBVIOUS
<1> HIDE DEF c
<1>2. Nanoseconds(a) \in Nat /\ Nanoseconds(c) \in Nat /\ Nanoseconds(b) \in Nat
  BY <1>1, NanosecondsSum
<1>3. Nanoseconds(a) + Nanoseconds(c) <= Nanoseconds(b)
  BY <1>1, NanosecondsSum
<1> QED
  BY <1>2, <1>3

(* How far two media times are apart is the difference of their nanoseconds, up to one. *)
LEMMA ApartNear ==
  ASSUME NEW m \in Nat, NEW n \in Nat
  PROVE  /\ Nanoseconds(m) \in Nat /\ Nanoseconds(n) \in Nat /\ Apart(m, n) \in Int
         /\ Nanoseconds(m) - Nanoseconds(n) - Apart(m, n) \in -1..1
<1>1. CASE m >= n
  <2> DEFINE c == m - n
  <2>1. c \in Nat /\ n + c = m /\ Apart(m, n) = Nanoseconds(c)
    BY <1>1 DEF Apart
  <2> HIDE DEF c
  <2>2. /\ Nanoseconds(n) \in Nat /\ Nanoseconds(c) \in Nat /\ Nanoseconds(m) \in Nat
        /\ Nanoseconds(n) + Nanoseconds(c) <= Nanoseconds(m)
        /\ Nanoseconds(m) <= Nanoseconds(n) + Nanoseconds(c) + 1
    BY <2>1, NanosecondsSum
  <2> QED
    BY <2>1, <2>2
<1>2. CASE m < n
  <2> DEFINE c == n - m
  <2>1. c \in Nat /\ m + c = n /\ Apart(m, n) = -Nanoseconds(c)
    BY <1>2 DEF Apart
  <2> HIDE DEF c
  <2>2. /\ Nanoseconds(m) \in Nat /\ Nanoseconds(c) \in Nat /\ Nanoseconds(n) \in Nat
        /\ Nanoseconds(m) + Nanoseconds(c) <= Nanoseconds(n)
        /\ Nanoseconds(n) <= Nanoseconds(m) + Nanoseconds(c) + 1
    BY <2>1, NanosecondsSum
  <2> QED
    BY <2>1, <2>2
<1> QED
  BY <1>1, <1>2

(* Two distances through a time in between: three roundings give at most two nanoseconds. *)
LEMMA ApartThrough ==
  ASSUME NEW m \in Nat, NEW y \in Nat, NEW s \in Nat
  PROVE  Nanoseconds(y) - Nanoseconds(s) + Apart(m, y) - Apart(m, s) \in Rounding
<1>1. /\ Nanoseconds(m) \in Nat /\ Nanoseconds(y) \in Nat /\ Apart(m, y) \in Int
      /\ Nanoseconds(m) - Nanoseconds(y) - Apart(m, y) \in -1..1
  BY ApartNear
<1>2. /\ Nanoseconds(s) \in Nat /\ Apart(m, s) \in Int
      /\ Nanoseconds(m) - Nanoseconds(s) - Apart(m, s) \in -1..1
  BY ApartNear
<1> QED
  BY <1>1, <1>2 DEF Rounding

(* How far media times of the run are apart. *)
LEMMA ApartBounded ==
  ASSUME NEW m \in 0..MaxAhead, NEW n \in 0..MaxAhead
  PROVE  /\ Nanoseconds(MaxAhead) \in Nat
         /\ Apart(m, n) \in Int /\ Apart(m, n) <= Nanoseconds(MaxAhead)
         /\ -Nanoseconds(MaxAhead) <= Apart(m, n)
<1>1. MaxAhead \in Nat /\ m \in Nat /\ n \in Nat
  BY SyncAssumption
<1>2. CASE m >= n
  <2> DEFINE c == m - n
  <2>1. c \in Nat /\ c <= MaxAhead /\ Apart(m, n) = Nanoseconds(c)
    BY <1>1, <1>2 DEF Apart
  <2> HIDE DEF c
  <2> QED
    BY <1>1, <2>1, NanosecondsGrow
<1>3. CASE m < n
  <2> DEFINE c == n - m
  <2>1. c \in Nat /\ c <= MaxAhead /\ Apart(m, n) = -Nanoseconds(c)
    BY <1>1, <1>3 DEF Apart
  <2> HIDE DEF c
  <2> QED
    BY <1>1, <2>1, NanosecondsGrow
<1> QED
  BY <1>1, <1>2, <1>3

(* Numbers of 64 bits, as they are and after one wrap up or down. *)
LEMMA U64Facts ==
  ASSUME NEW x \in Int
  PROVE  /\ U64(x) \in Times
         /\ x \in Times => U64(x) = x
         /\ x < 0 /\ x + MAX_TIME >= -1 => U64(x) = x + MAX_TIME + 1
         /\ x > MAX_TIME /\ x - MAX_TIME - 1 <= MAX_TIME => U64(x) = x - MAX_TIME - 1
<1> DEFINE w == MAX_TIME + 1
           q == x \div w
           r == x % w
<1>1. w \in Nat /\ w > 0 /\ w = MAX_TIME + 1 /\ MAX_TIME \in Nat
  BY ClockFacts
<1>2. U64(x) = r
  BY DEF U64
<1> HIDE DEF w
<1>3. q \in Int /\ r \in 0..(w - 1) /\ x = q * w + r
  BY <1>1, Division
<1> HIDE DEF q, r
<1>4. 0 * w = 0 /\ 1 * w = w /\ (-1) * w = -w /\ (-2) * w = -w - w /\ 2 * w = w + w
  BY <1>1
<1>5. q * w \in Int
  BY <1>1, <1>3
<1>6. /\ q <= -1 => q * w <= (-1) * w
      /\ q >= 0 => 0 * w <= q * w
      /\ q >= 1 => 1 * w <= q * w
      /\ q >= 2 => 2 * w <= q * w
      /\ q <= -2 => q * w <= (-2) * w
  BY <1>1, <1>3, Product
<1>7. x \in Times => q = 0
  BY <1>1, <1>3, <1>4, <1>5, <1>6 DEF Times
<1>8. x < 0 /\ x + MAX_TIME >= -1 => q = -1
  BY <1>1, <1>3, <1>4, <1>5, <1>6
<1>9. x > MAX_TIME /\ x - MAX_TIME - 1 <= MAX_TIME => q = 1
  BY <1>1, <1>3, <1>4, <1>5, <1>6
<1> QED
  BY <1>1, <1>2, <1>3, <1>4, <1>7, <1>8, <1>9 DEF Times

(* A scaled distance is a time, and the distance itself unless that is none. *)
LEMMA ScaleFacts ==
  ASSUME NEW d \in Nat
  PROVE  /\ uint64_scale_int(d) \in Times
         /\ Nanoseconds(d) <= MAX_TIME => uint64_scale_int(d) = Nanoseconds(d)
<1>1. MAX_TIME \in Nat /\ Nanoseconds(d) \in Nat
  BY ClockFacts, NanosecondsSum
<1> QED
  BY <1>1 DEF uint64_scale_int, Times

(* The differences are times, and so is what rtp_diff_full makes of them. *)
LEMMA DiffTyped ==
  ASSUME NEW pts \in Times, NEW ext \in Int, NEW last \in Int, NEW down, NEW up
  PROVE  rtp_diff_full(pts, ext, last, down, up) \in Times
<1>1. MAX_TIME \in Nat /\ 0 \in Times /\ MAX_TIME \in Times /\ pts \in Int
  BY ClockFacts DEF Times
<1>2. ASSUME NEW diff \in Times
      PROVE  DiffAhead(pts, diff, down, up) \in Times /\ DiffBehind(pts, diff, down, up) \in Times
  <2>1. pts + diff \in Int /\ pts - diff \in Int
    BY <1>1 DEF Times
  <2>2. U64(pts + diff) \in Times /\ U64(pts - diff) \in Times
    BY <2>1, U64Facts
  <2> QED
    BY <1>1, <2>2 DEF DiffAhead, DiffBehind
<1>3. CASE ext > last
  <2>1. uint64_scale_int(ext - last) \in Times
    BY <1>3, ScaleFacts
  <2> QED
    BY <1>2, <1>3, <2>1 DEF rtp_diff_full
<1>4. CASE ext < last
  <2>1. uint64_scale_int(last - ext) \in Times
    BY <1>4, ScaleFacts
  <2>2. ~(ext > last)
    BY <1>4
  <2> QED
    BY <1>2, <1>4, <2>1, <2>2 DEF rtp_diff_full
<1>5. CASE ext = last
  <2>1. ~(ext > last) /\ ~(ext < last)
    BY <1>5
  <2> QED
    BY <1>1, <2>1 DEF rtp_diff_full
<1> QED
  BY <1>3, <1>4, <1>5

(* What SyncedTime works out of the base time, what passed between the reports, and the stamps
   of the packet and of the last report. *)
Synced(base, passed, ext, last) ==
  rtp_diff_full(U64(base + passed), ext, last, base < -passed, passed > MAX_TIME - base)

(* The unsigned detour over the base time is right: a time that is one comes out of it, and a
   negative one becomes 0, but for -1, which may become MAX_TIME. *)
LEMMA SyncedRight ==
  ASSUME NEW base \in Times, NEW passed \in Int, -MAX_TIME <= passed, passed <= MAX_TIME,
         NEW ext \in Int, NEW last \in Int,
         ext > last => Nanoseconds(ext - last) <= MAX_TIME,
         ext < last => Nanoseconds(last - ext) <= MAX_TIME,
         NEW t, t = base + passed + Apart(ext, last)
  PROVE  /\ t \in Int
         /\ t \in Times => Synced(base, passed, ext, last) = t
         /\ t < 0 => \/ Synced(base, passed, ext, last) = 0
                     \/ t = -1 /\ Synced(base, passed, ext, last) = MAX_TIME
<1> DEFINE x == base + passed
           pts == U64(x)
           down == base < -passed
           up == passed > MAX_TIME - base
           z == Synced(base, passed, ext, last)
<1>1. MAX_TIME \in Nat /\ base \in Nat /\ base <= MAX_TIME /\ x \in Int
  BY ClockFacts DEF Times
<1>2. z = rtp_diff_full(pts, ext, last, down, up)
  BY DEF Synced
<1>3. /\ up <=> x > MAX_TIME
      /\ down <=> x < 0
      /\ -MAX_TIME <= x /\ x <= MAX_TIME + MAX_TIME
  BY <1>1
<1>4. /\ pts \in Int
      /\ up => pts = x - MAX_TIME - 1
      /\ down => pts = x + MAX_TIME + 1
      /\ ~up /\ ~down => pts = x
  BY <1>1, <1>3, U64Facts DEF Times
<1>5. t = x + Apart(ext, last)
  OBVIOUS
<1> HIDE DEF x, pts, down, up, z
<1>6. CASE ext > last
  <2> DEFINE d == ext - last
             n == Nanoseconds(d)
  <2>1. d \in Nat
    BY <1>6
  <2>2. Apart(ext, last) = n
    BY <1>6 DEF Apart
  <2>3. n \in Nat /\ n <= MAX_TIME /\ uint64_scale_int(d) = n
    BY <1>6, <2>1, ScaleFacts, NanosecondsSum
  <2>4. z = DiffAhead(pts, n, down, up)
    BY <1>2, <1>6, <2>3 DEF rtp_diff_full
  <2> HIDE DEF d, n
  <2>5. t \in Int /\ t = x + n
    BY <1>1, <1>5, <2>2, <2>3
  <2>6. CASE up
    BY <1>1, <1>3, <2>3, <2>5, <2>6 DEF Times
  <2>7. CASE down /\ ~up
    <3>1. n < MAX_TIME - pts => z = 0
      BY <2>4, <2>7 DEF DiffAhead
    <3>2. ~(n < MAX_TIME - pts) => z = U64(pts + n)
      BY <2>4, <2>7 DEF DiffAhead
    <3>3. n < MAX_TIME - pts <=> t < -1
      BY <1>1, <1>4, <2>3, <2>5, <2>7
    <3>4. pts + n = t + MAX_TIME + 1 /\ pts + n \in Int
      BY <1>1, <1>4, <2>3, <2>5, <2>7
    <3>5. t = -1 => U64(pts + n) = MAX_TIME
      BY <1>1, <3>4, U64Facts DEF Times
    <3>6. t \in Times => U64(pts + n) = t
      <4> SUFFICES ASSUME t \in Times PROVE U64(pts + n) = t
        OBVIOUS
      <4> DEFINE y == pts + n
      <4>1. y \in Int /\ y > MAX_TIME /\ y - MAX_TIME - 1 <= MAX_TIME /\ y - MAX_TIME - 1 = t
        BY <1>1, <3>4 DEF Times
      <4> HIDE DEF y
      <4>2. U64(y) = y - MAX_TIME - 1
        BY <4>1, U64Facts
      <4> QED
        BY <4>1, <4>2 DEF y
    <3>7. t < 0 => t < -1 \/ t = -1
      BY <2>5
    <3>8. t \in Times => ~(t < -1)
      BY <1>1 DEF Times
    <3>9. t = -1 => ~(t < -1)
      OBVIOUS
    <3> QED
      BY <2>5, <3>1, <3>2, <3>3, <3>5, <3>6, <3>7, <3>8, <3>9 DEF z
  <2>8. CASE ~down /\ ~up
    <3>1. n > MAX_TIME - pts <=> t > MAX_TIME
      BY <1>1, <1>4, <2>3, <2>5, <2>8
    <3>2. ~(n > MAX_TIME - pts) => z = U64(pts + n)
      BY <2>4, <2>8 DEF DiffAhead
    <3>3. pts + n = t /\ ~(t < 0)
      BY <1>1, <1>3, <1>4, <2>3, <2>5, <2>8
    <3>4. t \in Times => ~(t > MAX_TIME)
      BY <1>1 DEF Times
    <3> QED
      BY <2>5, <3>1, <3>2, <3>3, <3>4, U64Facts DEF z
  <2> QED
    BY <2>6, <2>7, <2>8
<1>7. CASE ext < last
  <2> DEFINE d == last - ext
             n == Nanoseconds(d)
  <2>1. d \in Nat
    BY <1>7
  <2>2. Apart(ext, last) = -n /\ ~(ext > last)
    BY <1>7 DEF Apart
  <2>3. n \in Nat /\ n <= MAX_TIME /\ uint64_scale_int(d) = n
    BY <1>7, <2>1, ScaleFacts, NanosecondsSum
  <2>4. z = DiffBehind(pts, n, down, up)
    BY <1>2, <1>7, <2>2, <2>3 DEF rtp_diff_full
  <2> HIDE DEF d, n
  <2>5. t \in Int /\ t = x - n
    BY <1>1, <1>5, <2>2, <2>3
  <2>6. CASE down
    <3>1. z = 0 /\ ~(t \in Times)
      BY <1>1, <1>3, <2>3, <2>4, <2>5, <2>6 DEF DiffBehind, Times
    <3> QED
      BY <2>5, <3>1 DEF z
  <2>7. CASE up /\ ~down
    <3>1. ~(n < pts) => z = U64(pts - n)
      BY <2>4, <2>7 DEF DiffBehind
    <3>2. ~(t < 0) /\ pts - n = t - MAX_TIME - 1 /\ pts - n \in Int
      BY <1>1, <1>3, <1>4, <2>3, <2>5, <2>7
    <3>3. t \in Times => ~(n < pts)
      BY <1>1, <1>3, <1>4, <2>3, <2>5, <2>7 DEF Times
    <3>4. t \in Times => U64(pts - n) = t
      <4> SUFFICES ASSUME t \in Times PROVE U64(pts - n) = t
        OBVIOUS
      <4> DEFINE y == pts - n
      <4>1. y \in Int /\ y < 0 /\ y + MAX_TIME >= -1 /\ y + MAX_TIME + 1 = t
        BY <1>1, <3>2 DEF Times
      <4> HIDE DEF y
      <4>2. U64(y) = y + MAX_TIME + 1
        BY <4>1, U64Facts
      <4> QED
        BY <4>1, <4>2 DEF y
    <3> QED
      BY <2>5, <3>1, <3>2, <3>3, <3>4 DEF z
  <2>8. CASE ~down /\ ~up
    <3>1. n > pts => z = 0
      BY <2>4, <2>8 DEF DiffBehind
    <3>2. ~(n > pts) => z = U64(pts - n)
      BY <2>4, <2>8 DEF DiffBehind
    <3>3. pts - n = t /\ (n > pts <=> t < 0)
      BY <1>1, <1>4, <2>3, <2>5, <2>8
    <3>4. t \in Times => ~(t < 0)
      BY DEF Times
    <3> QED
      BY <2>5, <3>1, <3>2, <3>3, <3>4, U64Facts DEF z
  <2> QED
    BY <2>6, <2>7, <2>8
<1>8. CASE ext = last
  <2>1. ~(ext > last) /\ ~(ext < last) /\ ext >= last /\ ext - last = 0
    BY <1>8
  <2>2. Nanoseconds(0) = 0
    BY ClockFacts DEF Nanoseconds
  <2>3. t = x
    BY <1>1, <1>5, <2>1, <2>2 DEF Apart
  <2>4. z = IF down THEN 0 ELSE IF up THEN MAX_TIME ELSE pts
    BY <1>2, <2>1 DEF rtp_diff_full
  <2> QED
    BY <1>1, <1>3, <1>4, <2>3, <2>4 DEF Times, z
<1> QED
  BY <1>6, <1>7, <1>8

-----------------------------------------------------------------------------
(* The invariant of the synchroniser: the extended stamps are media times less a number j of
   cycles that never changes once the first stamp was read, and so are the stamps of the last
   report and of the last packet; the last stamp read is within a quarter of a cycle of the
   newest; the base times are those of the first report. *)
SyncBased ==
  sync.base_initiated =>
    /\ sync.base_sync_time <= Nanoseconds(MaxAhead) + delay
    /\ wall = EPOCH => /\ sr_media \in 0..MaxAhead
                       /\ sync.base_ntp_time = Nanoseconds(sr_media) + EPOCH

SyncFresh ==
  sync.rtp_ext_ts = NO_STAMP =>
    newest = start /\ ~sync.base_initiated /\ sync.fs_last_rtp_ext_ts = NO_STAMP

SyncTracks(j) ==
  /\ sync.rtp_ext_ts \in Nat
  /\ sync.rtp_ext_ts + Cycles(j) <= newest
  /\ 4 * (newest - (sync.rtp_ext_ts + Cycles(j))) < CYCLE
  /\ sync.base_initiated /\ wall = EPOCH /\ sr_kept =>
       /\ sync.last_rtcp_ext_ts + Cycles(j) \in 0..MaxAhead
       /\ sync.last_rtcp_ntp_time = Nanoseconds(sync.last_rtcp_ext_ts + Cycles(j)) + EPOCH
  /\ sync.feeded_sorted /\ out.kept /\ sync.fs_last_rtp_ext_ts # NO_STAMP =>
       out.media = sync.fs_last_rtp_ext_ts + Cycles(j)

SyncInv ==
  /\ SyncTypeOK /\ SyncBased /\ SyncFresh
  /\ sync.rtp_ext_ts # NO_STAMP => \E j \in Nat : SyncTracks(j)

(* The times of the clocks are times of 64 bits, and ours are valid ones. *)
LEMMA ClockTimes ==
  ASSUME SyncTypeOK, NEW m \in 0..MaxAhead
  PROVE  /\ Arrival(m) \in Times /\ Arrival(m) # NO_TIME
         /\ Arrival(m) <= Nanoseconds(MaxAhead) + delay
         /\ Nanoseconds(m) + wall \in Times
<1>1. /\ MAX_TIME \in Nat /\ MaxAhead \in Nat /\ EPOCH \in Nat /\ m \in Nat /\ m <= MaxAhead
      /\ delay \in Delays /\ delay \in Nat
  BY ClockFacts, SyncAssumption DEF SyncTypeOK
<1>2. Nanoseconds(m) \in Nat /\ Nanoseconds(MaxAhead) \in Nat /\ Nanoseconds(m) <= Nanoseconds(MaxAhead)
  BY <1>1, NanosecondsGrow
<1>3. 2 * Nanoseconds(MaxAhead) + delay + 2 < MAX_TIME
  BY <1>1, SyncAssumption
<1>4. PICK step \in {0} \cup ClockSteps : wall = EPOCH + step
  BY DEF SyncTypeOK
<1>5. step \in Int /\ EPOCH + step >= 0 /\ Nanoseconds(MaxAhead) + EPOCH + step <= MAX_TIME
  BY SyncAssumption
<1> QED
  BY <1>1, <1>2, <1>3, <1>4, <1>5 DEF Arrival, Times, NO_TIME

(* What a packet does to the synchroniser (process_rtp_buffer_mapped): its stamp is read; in
   sorted mode it is the last one; once there was a report its time is the one the report
   tells, or the last time given, or its own. *)
LEMMA ProcessRtpFacts ==
  ASSUME NEW s \in SyncState, NEW stamp, NEW pts \in Times,
         NEW e, e = ext_timestamp(s.rtp_ext_ts, stamp), e.value \in Nat, e.ext \in Nat,
         NEW r, r = process_rtp(s, stamp, pts),
         NEW told, told = Synced(s.base_sync_time, s.last_rtcp_ntp_time - s.base_ntp_time,
                                 e.ext, s.last_rtcp_ext_ts)
  PROVE  /\ r.sync \in SyncState /\ r.pts \in Times
         /\ r.sync.rtp_ext_ts = e.ext
         /\ r.sync.base_initiated = s.base_initiated
         /\ r.sync.base_ntp_time = s.base_ntp_time
         /\ r.sync.base_sync_time = s.base_sync_time
         /\ r.sync.last_rtcp_ext_ts = s.last_rtcp_ext_ts
         /\ r.sync.last_rtcp_ntp_time = s.last_rtcp_ntp_time
         /\ r.sync.feeded_sorted => s.feeded_sorted /\ r.sync.fs_last_rtp_ext_ts = e.value
         /\ s.base_initiated =>
              \/ r.pts = told
              \/ /\ r.sync.feeded_sorted /\ r.pts = s.fs_last_pts
                 /\ r.pts > told \/ e.value = s.fs_last_rtp_ext_ts
              \/ /\ r.sync.feeded_sorted /\ s.fs_last_pts = NO_TIME
                 /\ e.value = s.fs_last_rtp_ext_ts /\ r.pts = pts
<1> DEFINE back == s.feeded_sorted /\ s.fs_last_rtp_ext_ts # NO_STAMP /\ e.value < s.fs_last_rtp_ext_ts
           read == [s EXCEPT !.rtp_ext_ts = e.ext]
           s1 == [read EXCEPT !.feeded_sorted = @ /\ ~back]
           t == Timed(s1, pts)
           u == Sorted(t, e.value)
<1>1. r = IF s.feeded_sorted /\ e.value = s.fs_last_rtp_ext_ts
          THEN [sync |-> read, pts |-> IF s.fs_last_pts = NO_TIME THEN pts ELSE s.fs_last_pts]
          ELSE u
  BY DEF process_rtp
<1>2. e.value \in Stamps /\ e.ext \in Stamps /\ Stamps \subseteq Int /\ Times \subseteq Int
  BY DEF Stamps, NO_STAMP, Times
<1>3. /\ read \in SyncState
      /\ read.rtp_ext_ts = e.ext /\ read.feeded_sorted = s.feeded_sorted
      /\ read.base_initiated = s.base_initiated /\ read.base_ntp_time = s.base_ntp_time
      /\ read.base_sync_time = s.base_sync_time /\ read.last_rtcp_ext_ts = s.last_rtcp_ext_ts
      /\ read.last_rtcp_ntp_time = s.last_rtcp_ntp_time
      /\ read.fs_last_rtp_ext_ts = s.fs_last_rtp_ext_ts /\ read.fs_last_pts = s.fs_last_pts
      /\ read.base_interpolate_pts = s.base_interpolate_pts
      /\ read.base_interpolate_ext_ts = s.base_interpolate_ext_ts
  BY <1>2 DEF SyncState
<1>4. CASE s.feeded_sorted /\ e.value = s.fs_last_rtp_ext_ts
  <2>1. r.sync = read /\ r.pts = IF s.fs_last_pts = NO_TIME THEN pts ELSE s.fs_last_pts
    BY <1>1, <1>4
  <2>2. s.fs_last_pts \in Times
    BY DEF SyncState
  <2> HIDE DEF read
  <2> QED
    BY <1>3, <1>4, <2>1, <2>2
<1>5. CASE ~(s.feeded_sorted /\ e.value = s.fs_last_rtp_ext_ts)
  <2>1. r = u
    BY <1>1, <1>5
  <2>2. back \in BOOLEAN
    OBVIOUS
  <2> HIDE DEF read, back
  <2>3. /\ s1 \in SyncState
        /\ s1.rtp_ext_ts = e.ext /\ (s1.feeded_sorted => s.feeded_sorted)
        /\ s1.base_initiated = s.base_initiated /\ s1.base_ntp_time = s.base_ntp_time
        /\ s1.base_sync_time = s.base_sync_time /\ s1.last_rtcp_ext_ts = s.last_rtcp_ext_ts
        /\ s1.last_rtcp_ntp_time = s.last_rtcp_ntp_time
        /\ s1.fs_last_rtp_ext_ts = s.fs_last_rtp_ext_ts /\ s1.fs_last_pts = s.fs_last_pts
        /\ s1.base_interpolate_pts = s.base_interpolate_pts
        /\ s1.base_interpolate_ext_ts = s.base_interpolate_ext_ts
    BY <1>3, <2>2 DEF SyncState
  <2>7. /\ s.base_sync_time \in Times /\ s.last_rtcp_ntp_time \in Times /\ s.base_ntp_time \in Times
        /\ s.last_rtcp_ext_ts \in Stamps /\ s.base_interpolate_pts \in Times
        /\ s.base_interpolate_ext_ts \in Stamps /\ s.fs_last_pts \in Times
    BY DEF SyncState
  <2> HIDE DEF s1
  <2>4. /\ t.sync \in SyncState /\ t.pts \in Times
        /\ t.sync.rtp_ext_ts = e.ext /\ (t.sync.feeded_sorted => s.feeded_sorted)
        /\ t.sync.base_initiated = s.base_initiated /\ t.sync.base_ntp_time = s.base_ntp_time
        /\ t.sync.base_sync_time = s.base_sync_time
        /\ t.sync.last_rtcp_ext_ts = s.last_rtcp_ext_ts
        /\ t.sync.last_rtcp_ntp_time = s.last_rtcp_ntp_time
        /\ t.sync.fs_last_rtp_ext_ts = s.fs_last_rtp_ext_ts /\ t.sync.fs_last_pts = s.fs_last_pts
        /\ s.base_initiated => t.pts = told
    <3>1. CASE s1.base_initiated
      <4>1. t = [sync |-> s1, pts |-> SyncedTime(s1)]
        BY <3>1 DEF Timed
      <4>2. SyncedTime(s1) = told
        BY <2>3 DEF SyncedTime, Synced
      <4>3. told \in Times
        <5> DEFINE x == s.base_sync_time + (s.last_rtcp_ntp_time - s.base_ntp_time)
        <5>3. /\ s.base_sync_time \in Int /\ s.last_rtcp_ntp_time \in Int /\ s.base_ntp_time \in Int
              /\ s.last_rtcp_ext_ts \in Int
          BY <1>2, <2>7
        <5>1. x \in Int /\ e.ext \in Int /\ s.last_rtcp_ext_ts \in Int
          BY <5>3
        <5> HIDE DEF x
        <5>2. U64(x) \in Times
          BY <5>1, U64Facts
        <5> QED
          BY <5>1, <5>2, DiffTyped DEF Synced, x
      <4>4. t.sync = s1 /\ t.pts = told
        BY <4>1, <4>2
      <4> HIDE DEF t
      <4> QED
        BY <2>3, <4>3, <4>4
    <3>2. CASE ~s1.base_initiated /\ s1.base_interpolate_initiated
      <4>1. t = [sync |-> s1, pts |-> InterpolatedTime(s1)]
        BY <3>2 DEF Timed
      <4>2. InterpolatedTime(s1) \in Times
        BY <1>2, <2>3, <2>7, DiffTyped DEF InterpolatedTime
      <4> QED
        BY <2>3, <3>2, <4>1, <4>2
    <3>3. CASE ~s1.base_initiated /\ ~s1.base_interpolate_initiated
      <4> DEFINE s2 == [s1 EXCEPT !.base_interpolate_initiated = TRUE,
                                  !.base_interpolate_ext_ts = s1.rtp_ext_ts,
                                  !.base_interpolate_pts = pts]
      <4>1. t = [sync |-> s2, pts |-> pts]
        BY <3>3 DEF Timed
      <4>2. s2 \in SyncState
        <5>1. s1.rtp_ext_ts \in Stamps /\ s1 \in SyncState
          BY <1>2, <2>3
        <5> QED
          BY <5>1 DEF SyncState
      <4>3. /\ s2.rtp_ext_ts = s1.rtp_ext_ts /\ s2.feeded_sorted = s1.feeded_sorted
            /\ s2.base_initiated = s1.base_initiated /\ s2.base_ntp_time = s1.base_ntp_time
            /\ s2.base_sync_time = s1.base_sync_time
            /\ s2.last_rtcp_ext_ts = s1.last_rtcp_ext_ts
            /\ s2.last_rtcp_ntp_time = s1.last_rtcp_ntp_time
            /\ s2.fs_last_rtp_ext_ts = s1.fs_last_rtp_ext_ts /\ s2.fs_last_pts = s1.fs_last_pts
        BY <2>3 DEF SyncState
      <4>4. t.sync = s2 /\ t.pts = pts
        BY <4>1
      <4> HIDE DEF s2, t
      <4> QED
        BY <2>3, <3>3, <4>2, <4>3, <4>4
    <3> QED
      BY <3>1, <3>2, <3>3
  <2> HIDE DEF t
  <2>5. CASE ~t.sync.feeded_sorted
    <3>1. u = t
      BY <2>5 DEF Sorted
    <3> QED
      BY <2>1, <2>4, <2>5, <3>1
  <2>6. CASE t.sync.feeded_sorted
    <3> DEFINE fixed == IF t.sync.fs_last_pts # NO_TIME /\ t.pts < t.sync.fs_last_pts
                        THEN t.sync.fs_last_pts ELSE t.pts
               s3 == [t.sync EXCEPT !.fs_last_rtp_ext_ts = e.value, !.fs_last_pts = fixed]
    <3>1. u = [sync |-> s3, pts |-> fixed]
      BY <2>6 DEF Sorted
    <3>3. fixed \in Times
      BY <2>4, <2>7
    <3>4. s.base_initiated => fixed = told \/ (fixed = s.fs_last_pts /\ fixed > told)
      BY <1>2, <2>4, <2>7
    <3> HIDE DEF fixed
    <3>7. s3 \in SyncState
      BY <1>2, <2>4, <3>3 DEF SyncState
    <3>5. /\ s3.rtp_ext_ts = t.sync.rtp_ext_ts /\ s3.feeded_sorted
          /\ s3.base_initiated = t.sync.base_initiated /\ s3.base_ntp_time = t.sync.base_ntp_time
          /\ s3.base_sync_time = t.sync.base_sync_time
          /\ s3.last_rtcp_ext_ts = t.sync.last_rtcp_ext_ts
          /\ s3.last_rtcp_ntp_time = t.sync.last_rtcp_ntp_time
          /\ s3.fs_last_rtp_ext_ts = e.value /\ s3.fs_last_pts = fixed
      BY <2>4, <2>6, <3>3 DEF SyncState
    <3> HIDE DEF s3
    <3>6. r.sync = s3 /\ r.pts = fixed
      BY <2>1, <3>1
    <3> QED
      BY <2>4, <2>6, <3>3, <3>4, <3>5, <3>6, <3>7
  <2> QED
    BY <2>5, <2>6
<1> QED
  BY <1>4, <1>5

(* The first stamp is read as it is, and only then. *)
LEMMA FirstReading ==
  ASSUME NEW stamp
  PROVE  ext_timestamp(NO_STAMP, stamp) = [value |-> stamp, ext |-> stamp, kept |-> TRUE]
BY DEF ext_timestamp, NO_STAMP

(* How a stamp of a media time near the newest is read, whatever was read before: some
   number of cycles tells, before and after it, how far the extended stamps are behind. *)
SyncRead(m, e, j, newer) ==
  /\ e.kept \in BOOLEAN /\ e.value \in Nat /\ e.ext \in Nat
  /\ e.ext + Cycles(j) <= newer /\ 4 * (newer - (e.ext + Cycles(j))) < CYCLE
  /\ e.kept => e.value + Cycles(j) = m /\ e.ext + Cycles(j) = m

(* There is such a number whenever a stamp is read: the one so far, or for the first stamp the
   cycles of its media time. *)
LEMMA StampRead ==
  ASSUME SyncInv, NEW m \in Nat, m >= start, Near(m),
         NEW e, e = ext_timestamp(sync.rtp_ext_ts, m % CYCLE),
         NEW newer, newer = IF m > newest THEN m ELSE newest
  PROVE  \E j \in Nat : /\ SyncRead(m, e, j, newer)
                        /\ sync.rtp_ext_ts # NO_STAMP => SyncTracks(j)
                        /\ sync.rtp_ext_ts = NO_STAMP => e.kept
<1>1. CYCLE \in Nat /\ CYCLE > 0 /\ newest \in Nat /\ start \in Nat
  BY ClockFacts, SyncAssumption DEF SyncInv, SyncTypeOK
<1>2. 4 * (m - newest) > -CYCLE /\ 4 * (m - newest) < CYCLE
  <2> DEFINE x == 4 * (m - newest)
  <2>1. x \in Int /\ x \in -CYCLE + 1..CYCLE - 1
    BY <1>1 DEF Near
  <2> HIDE DEF x
  <2>2. x > -CYCLE /\ x < CYCLE
    BY <1>1, <2>1
  <2> QED
    BY <2>2 DEF x
<1>3. e = ext_timestamp(sync.rtp_ext_ts, StampOf(m))
  BY DEF StampOf
<1>4. CASE sync.rtp_ext_ts = NO_STAMP
  <2>1. PICK j \in Nat, r \in Nat : /\ StampOf(m) = r /\ r < CYCLE /\ Cycles(j) \in Nat
                                    /\ m = Cycles(j) + r
    BY StampFacts
  <2>2. newest = start
    BY <1>4 DEF SyncInv, SyncFresh
  <2>3. newer = m
    BY <1>1, <2>2
  <2>4. e.value = r /\ e.ext = r /\ e.kept = TRUE
    BY <1>3, <1>4, <2>1, FirstReading
  <2>6. r + Cycles(j) = m /\ m <= m /\ 4 * (m - m) < CYCLE
    BY <1>1, <2>1
  <2>5. SyncRead(m, e, j, newer)
    BY <2>3, <2>4, <2>6 DEF SyncRead
  <2> QED
    BY <1>4, <2>4, <2>5
<1>5. CASE sync.rtp_ext_ts # NO_STAMP
  <2>1. PICK j \in Nat : SyncTracks(j)
    BY <1>5 DEF SyncInv
  <2> DEFINE ext == sync.rtp_ext_ts
  <2>2. /\ ext \in Nat /\ ext + Cycles(j) <= newest
        /\ 4 * (newest - (ext + Cycles(j))) < CYCLE
    BY <2>1 DEF SyncTracks
  <2>3. e = ext_timestamp(ext, StampOf(m))
    BY <1>3
  <2>4. Cycles(j) \in Int
    BY CyclesApart
  <2> HIDE DEF ext
  <2>5. /\ e.kept \in BOOLEAN /\ e.value \in Nat /\ e.ext \in Nat
        /\ e.kept => e.value = m - Cycles(j) /\ e.ext = m - Cycles(j)
        /\ ~e.kept => e.ext = ext /\ m <= newest
    BY <1>1, <1>2, <2>2, <2>3, ExtRight
  <2>6. CASE e.kept
    <3>1. e.value + Cycles(j) = m /\ e.ext + Cycles(j) = m
      BY <2>4, <2>5, <2>6
    <3>2. newer \in Nat /\ m <= newer /\ 4 * (newer - m) < CYCLE
      BY <1>1, <1>2
    <3>3. SyncRead(m, e, j, newer)
      BY <2>5, <3>1, <3>2 DEF SyncRead
    <3> QED
      BY <1>5, <2>1, <3>3
  <2>7. CASE ~e.kept
    <3>1. newer = newest /\ e.ext = ext
      BY <1>1, <2>5, <2>7
    <3>2. SyncRead(m, e, j, newer)
      BY <2>2, <2>5, <2>7, <3>1 DEF SyncRead
    <3> QED
      BY <1>5, <2>1, <3>2
  <2> QED
    BY <2>6, <2>7
<1> QED
  BY <1>4, <1>5

(* The time of a packet, after the first report and before the sender's clock is set, once the
   stamps tell m for it and y for the last report: t, which is at most two nanoseconds from
   what the first report, at s, and m say. *)
LEMMA ToldRight ==
  ASSUME SyncTypeOK, SyncBased, sync.base_initiated, wall = EPOCH,
         NEW j \in Nat, NEW y \in 0..MaxAhead, sync.last_rtcp_ext_ts + Cycles(j) = y,
         sync.last_rtcp_ntp_time = Nanoseconds(y) + EPOCH,
         NEW m \in 0..MaxAhead, NEW ext \in Nat, ext + Cycles(j) = m,
         NEW told, told = Synced(sync.base_sync_time, sync.last_rtcp_ntp_time - sync.base_ntp_time,
                                 ext, sync.last_rtcp_ext_ts)
  PROVE  \E r \in Rounding :
           LET meant == sync.base_sync_time + Apart(m, sr_media) + r
           IN  \/ told = IF meant < 0 THEN 0 ELSE meant
               \/ meant = -1 /\ told = NO_TIME
<1> DEFINE base == sync.base_sync_time
           last == sync.last_rtcp_ext_ts
           passed == sync.last_rtcp_ntp_time - sync.base_ntp_time
           t == base + passed + Apart(ext, last)
           r == t - (base + Apart(m, sr_media))
           Far == Nanoseconds(MaxAhead)
<1>1. /\ base \in Times /\ last \in Int /\ sr_media \in 0..MaxAhead
      /\ sync.base_ntp_time = Nanoseconds(sr_media) + EPOCH /\ base <= Far + delay
  BY DEF SyncTypeOK, SyncState, SyncBased, Stamps, NO_STAMP
<1>2. /\ MaxAhead \in Nat /\ MAX_TIME \in Nat /\ EPOCH \in Nat /\ Cycles(j) \in Int
      /\ m \in Nat /\ y \in Nat /\ sr_media \in Nat
  BY <1>1, SyncAssumption, ClockFacts, CyclesApart
<1>3. delay \in Nat /\ 2 * Far + delay + 2 < MAX_TIME
  BY SyncAssumption DEF SyncTypeOK
<1>4. /\ Far \in Nat
      /\ Nanoseconds(y) \in Nat /\ Nanoseconds(y) <= Far
      /\ Nanoseconds(sr_media) \in Nat /\ Nanoseconds(sr_media) <= Far
  BY <1>1, <1>2, NanosecondsGrow
<1>5. passed = Nanoseconds(y) - Nanoseconds(sr_media) /\ passed \in Int
  BY <1>1, <1>2, <1>4
<1>6. -MAX_TIME <= passed /\ passed <= MAX_TIME
  <2> HIDE DEF passed, Far
  <2> QED
    BY <1>2, <1>3, <1>4, <1>5
<1>7. ext - last = m - y /\ last - ext = y - m /\ (ext > last <=> m > y) /\ (ext >= last <=> m >= y)
      /\ (ext < last <=> m < y)
  BY <1>1, <1>2
<1>8. Apart(ext, last) = Apart(m, y)
  BY <1>7 DEF Apart
<1>9. /\ ext > last => Nanoseconds(ext - last) <= MAX_TIME
      /\ ext < last => Nanoseconds(last - ext) <= MAX_TIME
  <2>1. CASE m > y
    <3> DEFINE c == m - y
    <3>1. c \in Nat /\ c <= MaxAhead
      BY <1>2, <2>1
    <3>2. Nanoseconds(c) \in Nat /\ Nanoseconds(c) <= Far
      BY <1>2, <3>1, NanosecondsGrow
    <3>3. Nanoseconds(c) <= MAX_TIME
      <4> HIDE DEF Far, c
      <4> QED
        BY <1>2, <1>3, <1>4, <3>2
    <3> QED
      BY <1>2, <1>7, <2>1, <3>3
  <2>2. CASE m < y
    <3> DEFINE c == y - m
    <3>1. c \in Nat /\ c <= MaxAhead
      BY <1>2, <2>2
    <3>2. Nanoseconds(c) \in Nat /\ Nanoseconds(c) <= Far
      BY <1>2, <3>1, NanosecondsGrow
    <3>3. Nanoseconds(c) <= MAX_TIME
      <4> HIDE DEF Far, c
      <4> QED
        BY <1>2, <1>3, <1>4, <3>2
    <3> QED
      BY <1>2, <1>7, <2>2, <3>3
  <2>3. CASE m = y
    BY <1>2, <1>7, <2>3
  <2> QED
    BY <1>2, <2>1, <2>2, <2>3
<1>10. ext \in Int /\ told = Synced(base, passed, ext, last) /\ t = base + passed + Apart(ext, last)
  OBVIOUS
<1>15. Apart(m, sr_media) \in Int /\ Apart(m, sr_media) <= Far
  BY <1>1, ApartBounded
<1>16. Apart(m, y) \in Int
  BY ApartBounded
<1>11. passed + Apart(m, y) - Apart(m, sr_media) \in Rounding
  BY <1>2, <1>5, ApartThrough
<1> HIDE DEF base, last, passed, t, Far
<1>12. /\ t \in Int
       /\ t \in Times => told = t
       /\ t < 0 => told = 0 \/ (t = -1 /\ told = MAX_TIME)
  BY <1>1, <1>5, <1>6, <1>9, <1>10, SyncedRight
<1>13. base \in Int /\ base \in Nat
  BY <1>1 DEF Times
<1>14. r \in Rounding /\ base + Apart(m, sr_media) + r = t
  BY <1>5, <1>8, <1>10, <1>11, <1>12, <1>13, <1>15, <1>16 DEF Rounding
<1> HIDE DEF r
<1>17. r \in -2..2 /\ t <= MAX_TIME
  BY <1>1, <1>2, <1>3, <1>4, <1>13, <1>14, <1>15 DEF Rounding
<1>18. t < 0 \/ t \in Times
  BY <1>2, <1>12, <1>17 DEF Times
<1>19. \/ told = IF t < 0 THEN 0 ELSE t
       \/ t = -1 /\ told = NO_TIME
  BY <1>12, <1>18 DEF NO_TIME, Times
<1> QED
  BY <1>14, <1>19 DEF base

(* What a step of a packet does, in terms of the invariant and of the time it gives. *)
LEMMA PacketStep ==
  ASSUME SyncInv, NEW m \in 0..MaxAhead, RtpPacket(m)
  PROVE  /\ SyncInv'
         /\ (sync'.base_initiated /\ wall = EPOCH /\ out.kept /\ out'.kept /\ sr_kept) =>
              \E r \in Rounding :
                LET meant == sync'.base_sync_time + Apart(out'.media, sr_media) + r
                    due == IF meant < 0 THEN 0 ELSE meant
                IN  \/ out'.pts = due
                    \/ meant = -1 /\ out'.pts = NO_TIME
                    \/ /\ sync'.feeded_sorted
                       /\ out'.pts = sync.fs_last_pts
                       /\ out'.pts > due \/ out'.media = out.media
                    \/ /\ sync'.feeded_sorted /\ sync.fs_last_pts = NO_TIME
                       /\ out'.media = out.media /\ out'.pts = Arrival(out'.media)
<1> DEFINE e == ext_timestamp(sync.rtp_ext_ts, m % CYCLE)
           newer == IF m > newest THEN m ELSE newest
           pts == Arrival(m)
           r == process_rtp(sync, m % CYCLE, pts)
           told == Synced(sync.base_sync_time, sync.last_rtcp_ntp_time - sync.base_ntp_time,
                          e.ext, sync.last_rtcp_ext_ts)
<1>1. /\ m >= start /\ Near(m)
      /\ sync' = r.sync /\ newest' = newer
      /\ out' = [media |-> m, pts |-> r.pts, kept |-> e.kept]
      /\ start' = start /\ delay' = delay /\ wall' = wall /\ sr_media' = sr_media /\ sr_kept' = sr_kept
      /\ sync_ops < MaxSyncOps /\ sync_ops' = sync_ops + 1
  BY DEF RtpPacket
<1>17. m \in Nat /\ MaxSyncOps \in Nat /\ MaxAhead \in Nat
  BY SyncAssumption
<1>2. PICK j \in Nat : /\ SyncRead(m, e, j, newer)
                       /\ sync.rtp_ext_ts # NO_STAMP => SyncTracks(j)
                       /\ sync.rtp_ext_ts = NO_STAMP => e.kept
  BY <1>1, <1>17, StampRead
<1>3. SyncTypeOK /\ SyncBased /\ SyncFresh
  BY DEF SyncInv
<1>4. newer \in 0..MaxAhead
  BY <1>3, <1>17 DEF SyncTypeOK
<1>5. pts \in Times
  BY <1>3, ClockTimes
<1>6. e.kept \in BOOLEAN /\ e.value \in Nat /\ e.ext \in Nat /\ e.value # NO_STAMP /\ e.ext # NO_STAMP
  BY <1>2 DEF SyncRead, NO_STAMP
<1>18. e = ext_timestamp(sync.rtp_ext_ts, m % CYCLE) /\ r = process_rtp(sync, m % CYCLE, pts)
  OBVIOUS
<1>19. told = Synced(sync.base_sync_time, sync.last_rtcp_ntp_time - sync.base_ntp_time,
                     e.ext, sync.last_rtcp_ext_ts)
  OBVIOUS
<1> HIDE DEF e, newer, pts, told, r
<1>7. /\ r.sync \in SyncState /\ r.pts \in Times
      /\ r.sync.rtp_ext_ts = e.ext
      /\ r.sync.base_initiated = sync.base_initiated
      /\ r.sync.base_ntp_time = sync.base_ntp_time
      /\ r.sync.base_sync_time = sync.base_sync_time
      /\ r.sync.last_rtcp_ext_ts = sync.last_rtcp_ext_ts
      /\ r.sync.last_rtcp_ntp_time = sync.last_rtcp_ntp_time
      /\ r.sync.feeded_sorted => sync.feeded_sorted /\ r.sync.fs_last_rtp_ext_ts = e.value
      /\ sync.base_initiated =>
           \/ r.pts = told
           \/ /\ r.sync.feeded_sorted /\ r.pts = sync.fs_last_pts
              /\ r.pts > told \/ e.value = sync.fs_last_rtp_ext_ts
           \/ /\ r.sync.feeded_sorted /\ sync.fs_last_pts = NO_TIME
              /\ e.value = sync.fs_last_rtp_ext_ts /\ r.pts = pts
  <2>1. sync \in SyncState
    BY <1>3 DEF SyncTypeOK
  <2> DEFINE stamp == m % CYCLE
  <2>2. e = ext_timestamp(sync.rtp_ext_ts, stamp) /\ r = process_rtp(sync, stamp, pts)
    BY <1>18
  <2> HIDE DEF stamp
  <2> QED
    BY <1>5, <1>6, <1>19, <2>1, <2>2, ProcessRtpFacts
<1>8. Cycles(j) \in Int
  BY CyclesApart
<1>9. /\ out'.media = m /\ out'.pts = r.pts /\ out'.kept = e.kept
      /\ out' \in [media : Stamps, pts : Times, kept : BOOLEAN]
  BY <1>1, <1>6, <1>7, <1>17 DEF Stamps
<1>10. SyncTypeOK'
  BY <1>1, <1>3, <1>4, <1>7, <1>9, <1>17 DEF SyncTypeOK
<1>11. SyncBased'
  BY <1>1, <1>3, <1>7 DEF SyncBased
<1>12. SyncFresh' /\ sync'.rtp_ext_ts # NO_STAMP
  BY <1>1, <1>6, <1>7 DEF SyncFresh
<1>13. sync.base_initiated => sync.rtp_ext_ts # NO_STAMP
  BY <1>3 DEF SyncFresh
<1>14. SyncTracks(j)'
  <2>1. /\ sync'.rtp_ext_ts \in Nat
        /\ sync'.rtp_ext_ts + Cycles(j) <= newest'
        /\ 4 * (newest' - (sync'.rtp_ext_ts + Cycles(j))) < CYCLE
    BY <1>1, <1>2, <1>7 DEF SyncRead
  <2>2. sync'.base_initiated /\ wall' = EPOCH /\ sr_kept' =>
          /\ sync'.last_rtcp_ext_ts + Cycles(j) \in 0..MaxAhead
          /\ sync'.last_rtcp_ntp_time = Nanoseconds(sync'.last_rtcp_ext_ts + Cycles(j)) + EPOCH
    BY <1>1, <1>2, <1>7, <1>13 DEF SyncTracks
  <2>3. sync'.feeded_sorted /\ out'.kept /\ sync'.fs_last_rtp_ext_ts # NO_STAMP =>
          out'.media = sync'.fs_last_rtp_ext_ts + Cycles(j)
    BY <1>1, <1>2, <1>7, <1>9 DEF SyncRead
  <2> QED
    BY <2>1, <2>2, <2>3 DEF SyncTracks
<1>15. SyncInv'
  BY <1>10, <1>11, <1>12, <1>14 DEF SyncInv
<1>16. ASSUME sync'.base_initiated, wall = EPOCH, out.kept, out'.kept, sr_kept
       PROVE  \E q \in Rounding :
                LET meant == sync'.base_sync_time + Apart(out'.media, sr_media) + q
                    due == IF meant < 0 THEN 0 ELSE meant
                IN  \/ out'.pts = due
                    \/ meant = -1 /\ out'.pts = NO_TIME
                    \/ /\ sync'.feeded_sorted
                       /\ out'.pts = sync.fs_last_pts
                       /\ out'.pts > due \/ out'.media = out.media
                    \/ /\ sync'.feeded_sorted /\ sync.fs_last_pts = NO_TIME
                       /\ out'.media = out.media /\ out'.pts = Arrival(out'.media)
  <2> DEFINE y == sync.last_rtcp_ext_ts + Cycles(j)
             meant(q) == sync'.base_sync_time + Apart(m, sr_media) + q
             due(q) == IF meant(q) < 0 THEN 0 ELSE meant(q)
  <2>1. sync.base_initiated /\ SyncTracks(j)
    BY <1>1, <1>2, <1>7, <1>13, <1>16
  <2>2. y \in 0..MaxAhead /\ sync.last_rtcp_ntp_time = Nanoseconds(y) + EPOCH
    BY <1>16, <2>1 DEF SyncTracks
  <2>3. e.value + Cycles(j) = m /\ e.ext + Cycles(j) = m
    BY <1>2, <1>9, <1>16 DEF SyncRead
  <2>4. y = sync.last_rtcp_ext_ts + Cycles(j) /\ sync'.base_sync_time = sync.base_sync_time
    BY <1>1, <1>7
  <2> HIDE DEF y
  <2>5. PICK q \in Rounding : \/ told = due(q)
                              \/ meant(q) = -1 /\ told = NO_TIME
    BY <1>3, <1>6, <1>16, <1>19, <2>1, <2>2, <2>3, <2>4, ToldRight
  <2>6. e.value = sync.fs_last_rtp_ext_ts /\ sync.feeded_sorted => out'.media = out.media
    BY <1>6, <1>9, <1>16, <2>1, <2>3 DEF SyncTracks
  <2>7. r.pts > told => told # NO_TIME
    BY <1>7, ClockFacts DEF NO_TIME, Times
  <2>8. pts = Arrival(m)
    BY DEF pts
  <2> HIDE DEF meant, due
  <2>9. \/ out'.pts = due(q)
        \/ meant(q) = -1 /\ out'.pts = NO_TIME
        \/ /\ sync'.feeded_sorted
           /\ out'.pts = sync.fs_last_pts
           /\ out'.pts > due(q) \/ out'.media = out.media
        \/ /\ sync'.feeded_sorted /\ sync.fs_last_pts = NO_TIME
           /\ out'.media = out.media /\ out'.pts = Arrival(out'.media)
    <3>1. CASE r.pts = told
      BY <1>9, <2>5, <3>1
    <3>2. CASE r.sync.feeded_sorted /\ r.pts = sync.fs_last_pts
               /\ (r.pts > told \/ e.value = sync.fs_last_rtp_ext_ts)
      BY <1>1, <1>7, <1>9, <2>5, <2>6, <2>7, <3>2
    <3>3. CASE r.sync.feeded_sorted /\ sync.fs_last_pts = NO_TIME
               /\ e.value = sync.fs_last_rtp_ext_ts /\ r.pts = pts
      BY <1>1, <1>7, <1>9, <2>6, <2>8, <3>3
    <3> QED
      BY <1>7, <2>1, <3>1, <3>2, <3>3
  <2> QED
    BY <1>9, <2>9 DEF meant, due
<1> QED
  BY <1>15, <1>16

(* What a report does (process_rtcp_packet). *)
LEMMA ReportStep ==
  ASSUME SyncInv, NEW m \in 0..MaxAhead, SenderReport(m)
  PROVE  SyncInv'
<1> DEFINE e == ext_timestamp(sync.rtp_ext_ts, m % CYCLE)
           newer == IF m > newest THEN m ELSE newest
           ntp == Nanoseconds(m) + wall
           current == Arrival(newest)
           based == IF sync.base_initiated THEN sync
                    ELSE [sync EXCEPT !.base_initiated = TRUE, !.base_ntp_time = ntp,
                                      !.base_sync_time = current]
<1>1. /\ m >= start /\ Near(m)
      /\ sync' = [based EXCEPT !.rtp_ext_ts = e.ext, !.last_rtcp_ext_ts = e.value,
                               !.last_rtcp_ntp_time = ntp]
      /\ newest' = newer
      /\ sr_media' = (IF sync.base_initiated THEN sr_media ELSE m)
      /\ sr_kept' = e.kept
      /\ start' = start /\ delay' = delay /\ wall' = wall /\ out' = out
      /\ sync_ops < MaxSyncOps /\ sync_ops' = sync_ops + 1
  BY DEF SenderReport, process_rtcp, ReportedTime
<1>15. m \in Nat /\ MaxSyncOps \in Nat /\ MaxAhead \in Nat
  BY SyncAssumption
<1>2. PICK j \in Nat : /\ SyncRead(m, e, j, newer)
                       /\ sync.rtp_ext_ts # NO_STAMP => SyncTracks(j)
                       /\ sync.rtp_ext_ts = NO_STAMP => e.kept
  BY <1>1, <1>15, StampRead
<1>3. SyncTypeOK /\ SyncBased /\ SyncFresh
  BY DEF SyncInv
<1>4. newer \in 0..MaxAhead /\ newest \in 0..MaxAhead /\ sync \in SyncState
  BY <1>3, <1>15 DEF SyncTypeOK
<1>5. ntp \in Times /\ current \in Times /\ current <= Nanoseconds(MaxAhead) + delay
  BY <1>3, <1>4, ClockTimes
<1>6. /\ e.kept \in BOOLEAN /\ e.value \in Nat /\ e.ext \in Nat /\ e.ext # NO_STAMP
      /\ e.ext \in Stamps /\ e.value \in Stamps
  BY <1>2 DEF SyncRead, NO_STAMP, Stamps
<1>7. wall = EPOCH => ntp = Nanoseconds(m) + EPOCH
  OBVIOUS
<1> HIDE DEF e, newer, ntp, current
<1>8. /\ based \in SyncState /\ based.base_initiated = TRUE
      /\ based.base_ntp_time = (IF sync.base_initiated THEN sync.base_ntp_time ELSE ntp)
      /\ based.base_sync_time = (IF sync.base_initiated THEN sync.base_sync_time ELSE current)
      /\ based.feeded_sorted = sync.feeded_sorted
      /\ based.fs_last_rtp_ext_ts = sync.fs_last_rtp_ext_ts
  <2>1. CASE sync.base_initiated
    <3>1. based = sync /\ sync.base_initiated \in BOOLEAN
      BY <1>4, <2>1 DEF SyncState
    <3> QED
      BY <1>4, <2>1, <3>1
  <2>2. CASE ~sync.base_initiated
    BY <1>4, <1>5, <2>2 DEF SyncState
  <2> QED
    BY <2>1, <2>2
<1> HIDE DEF based
<1>9. sync' \in SyncState
  BY <1>1, <1>5, <1>6, <1>8 DEF SyncState
<1>10. /\ sync'.rtp_ext_ts = e.ext /\ sync'.last_rtcp_ext_ts = e.value
       /\ sync'.last_rtcp_ntp_time = ntp
       /\ sync'.base_initiated = TRUE /\ sync'.base_ntp_time = based.base_ntp_time
       /\ sync'.base_sync_time = based.base_sync_time
       /\ sync'.feeded_sorted = sync.feeded_sorted
       /\ sync'.fs_last_rtp_ext_ts = sync.fs_last_rtp_ext_ts
  BY <1>1, <1>8 DEF SyncState
<1>16. sr_media' \in Stamps
  BY <1>1, <1>3, <1>15 DEF SyncTypeOK, Stamps
<1>11. SyncTypeOK'
  BY <1>1, <1>3, <1>4, <1>6, <1>9, <1>15, <1>16 DEF SyncTypeOK
<1>12. SyncBased'
  <2>1. CASE sync.base_initiated
    BY <1>1, <1>3, <1>8, <1>10, <2>1 DEF SyncBased
  <2>2. CASE ~sync.base_initiated
    <3>1. sync'.base_sync_time = current /\ sync'.base_ntp_time = ntp /\ sr_media' = m
      BY <1>1, <1>8, <1>10, <2>2
    <3> QED
      BY <1>1, <1>5, <1>7, <3>1 DEF SyncBased
  <2> QED
    BY <2>1, <2>2
<1>13. SyncFresh' /\ sync'.rtp_ext_ts # NO_STAMP
  BY <1>3, <1>6, <1>10 DEF SyncFresh
<1>14. SyncTracks(j)'
  <2>1. /\ sync'.rtp_ext_ts \in Nat
        /\ sync'.rtp_ext_ts + Cycles(j) <= newest'
        /\ 4 * (newest' - (sync'.rtp_ext_ts + Cycles(j))) < CYCLE
    BY <1>1, <1>2, <1>10 DEF SyncRead
  <2>2. sync'.base_initiated /\ wall' = EPOCH /\ sr_kept' =>
          /\ sync'.last_rtcp_ext_ts + Cycles(j) \in 0..MaxAhead
          /\ sync'.last_rtcp_ntp_time = Nanoseconds(sync'.last_rtcp_ext_ts + Cycles(j)) + EPOCH
    BY <1>1, <1>2, <1>7, <1>10 DEF SyncRead
  <2>3. sync'.feeded_sorted /\ out'.kept /\ sync'.fs_last_rtp_ext_ts # NO_STAMP =>
          out'.media = sync'.fs_last_rtp_ext_ts + Cycles(j)
    BY <1>1, <1>2, <1>3, <1>10 DEF SyncTracks, SyncFresh
  <2> QED
    BY <2>1, <2>2, <2>3 DEF SyncTracks
<1> QED
  BY <1>11, <1>12, <1>13, <1>14 DEF SyncInv

(* The steps that leave the stamps alone. *)
LEMMA RestStep ==
  ASSUME SyncInv,
         \/ SetClockRate
         \/ \E step \in ClockSteps : SetWallClock(step)
         \/ UNCHANGED syncVars
  PROVE  SyncInv' /\ out' = out
<1>1. CASE UNCHANGED syncVars
  BY <1>1 DEF syncVars, SyncInv, SyncTypeOK, SyncBased, SyncFresh, SyncTracks
<1>2. CASE SetClockRate
  <2>1. /\ sync' = [sync EXCEPT !.clock_rate_set = TRUE]
        /\ UNCHANGED <<start, newest, delay, wall, sr_media, sr_kept, out, sync_ops>>
    BY <1>2 DEF SetClockRate
  <2>2. sync \in SyncState
    BY DEF SyncInv, SyncTypeOK
  <2>3. /\ sync' \in SyncState
        /\ sync'.rtp_ext_ts = sync.rtp_ext_ts /\ sync'.last_rtcp_ext_ts = sync.last_rtcp_ext_ts
        /\ sync'.last_rtcp_ntp_time = sync.last_rtcp_ntp_time
        /\ sync'.base_initiated = sync.base_initiated /\ sync'.base_ntp_time = sync.base_ntp_time
        /\ sync'.base_sync_time = sync.base_sync_time
        /\ sync'.feeded_sorted = sync.feeded_sorted
        /\ sync'.fs_last_rtp_ext_ts = sync.fs_last_rtp_ext_ts
    BY <2>1, <2>2 DEF SyncState
  <2>4. SyncTypeOK' /\ SyncBased' /\ SyncFresh'
    BY <2>1, <2>3 DEF SyncInv, SyncTypeOK, SyncBased, SyncFresh
  <2>5. \A j \in Nat : SyncTracks(j) => SyncTracks(j)'
    BY <2>1, <2>3 DEF SyncTracks
  <2> QED
    BY <2>1, <2>3, <2>4, <2>5 DEF SyncInv
<1>3. ASSUME NEW step \in ClockSteps, SetWallClock(step)
      PROVE  SyncInv' /\ out' = out
  <2>1. /\ wall = EPOCH /\ wall' = EPOCH + step /\ step \in Int /\ sync_ops' \in 0..MaxSyncOps
        /\ UNCHANGED <<start, newest, delay, sync, sr_media, sr_kept, out>>
    BY <1>3, SyncAssumption DEF SetWallClock, SyncInv, SyncTypeOK
  <2>4. wall' \in {EPOCH + x : x \in {0} \cup ClockSteps}
    BY <2>1
  <2>2. SyncTypeOK'
    BY <2>1, <2>4 DEF SyncInv, SyncTypeOK
  <2>5. wall' = EPOCH => wall = EPOCH
    BY <2>1
  <2>6. SyncBased' /\ SyncFresh'
    BY <2>1, <2>5 DEF SyncInv, SyncBased, SyncFresh
  <2>3. \A j \in Nat : SyncTracks(j) => SyncTracks(j)'
    BY <2>1, <2>5 DEF SyncTracks
  <2> QED
    BY <2>1, <2>2, <2>3, <2>6 DEF SyncInv
<1> QED
  BY <1>1, <1>2, <1>3

(* A new synchroniser has read no stamp. *)
LEMMA SyncInitInv == SyncInit => SyncInv
<1> SUFFICES ASSUME SyncInit PROVE SyncInv
  OBVIOUS
<1>1. PICK sorted \in BOOLEAN : sync = NewSynchronizer(sorted)
  BY DEF SyncInit
<1>2. NO_TIME \in Times /\ NO_STAMP \in Stamps
  BY ClockFacts DEF NO_TIME, Times, Stamps
<1>3. /\ sync \in SyncState
      /\ sync.rtp_ext_ts = NO_STAMP /\ sync.base_initiated = FALSE
      /\ sync.fs_last_rtp_ext_ts = NO_STAMP
  BY <1>1, <1>2 DEF NewSynchronizer, SyncState
<1>4. wall \in {EPOCH + x : x \in {0} \cup ClockSteps}
  <2>1. wall = EPOCH + 0
    BY SyncAssumption DEF SyncInit
  <2> QED
    BY <2>1
<1>5. SyncTypeOK
  BY <1>2, <1>3, <1>4, SyncAssumption DEF SyncInit, SyncTypeOK
<1> QED
  BY <1>3, <1>5 DEF SyncInit, SyncInv, SyncBased, SyncFresh

(* Every step keeps the invariant of the synchroniser. *)
LEMMA SyncStep ==
  ASSUME SyncInv, [SyncNext]_syncVars
  PROVE  SyncInv'
<1>1. ASSUME NEW m \in 0..MaxAhead, SenderReport(m)
      PROVE  SyncInv'
  BY <1>1, ReportStep
<1>2. ASSUME NEW m \in 0..MaxAhead, RtpPacket(m)
      PROVE  SyncInv'
  BY <1>2, PacketStep
<1>3. ASSUME \/ SetClockRate
             \/ \E step \in ClockSteps : SetWallClock(step)
             \/ UNCHANGED syncVars
      PROVE  SyncInv'
  BY <1>3, RestStep
<1> QED
  BY <1>1, <1>2, <1>3 DEF SyncNext

(* Packets get the time their sender meant, up to the rounding of whole nanoseconds, whatever
   the length of a cycle, the clock rate, the delay and the number of packets: the action
   property of the run, from the invariant SyncInv, with the comparisons of rtp_diff_full as
   they are (SyncedRight).  Excepted, as in the property, are what comes from before the last
   wrap of the stamps and a time of -1, which becomes GST_CLOCK_TIME_NONE. *)
THEOREM TimesAsMeant == SyncSpec => TimesMeant
<1> DEFINE Meant ==
      Comparable =>
       \E r \in Rounding :
         LET meant == sync'.base_sync_time + Apart(out'.media, sr_media) + r
             due == IF meant < 0 THEN 0 ELSE meant
         IN  \/ out'.pts = due
             \/ meant = -1 /\ out'.pts = NO_TIME
             \/ /\ sync'.feeded_sorted
                /\ out'.pts = sync.fs_last_pts
                /\ out'.pts > due \/ out'.media = out.media
             \/ /\ sync'.feeded_sorted /\ sync.fs_last_pts = NO_TIME
                /\ out'.media = out.media /\ out'.pts = Arrival(out'.media)
<1>1. SyncInit => SyncInv
  BY SyncInitInv
<1>2. SyncInv /\ [SyncNext]_syncVars => SyncInv'
  BY SyncStep
<1>3. SyncInv /\ [SyncNext]_syncVars => [Meant]_syncVars
  <2> SUFFICES ASSUME SyncInv, [SyncNext]_syncVars
               PROVE  Meant
    OBVIOUS
  <2>1. ASSUME NEW m \in 0..MaxAhead, RtpPacket(m)
        PROVE  Meant
    BY <2>1, PacketStep DEF Comparable
  <2>2. ASSUME \/ \E m \in 0..MaxAhead : SenderReport(m)
               \/ SetClockRate
               \/ \E step \in ClockSteps : SetWallClock(step)
               \/ UNCHANGED syncVars
        PROVE  Meant
    <3>1. out' = out
      BY <2>2, RestStep DEF SenderReport
    <3> QED
      BY <3>1 DEF Comparable
  <2> HIDE DEF Meant
  <2> QED
    BY <2>1, <2>2 DEF SyncNext
<1>4. SyncSpec => [][Meant]_syncVars
  <2> HIDE DEF Meant
  <2> QED
    BY <1>1, <1>2, <1>3, PTL DEF SyncSpec
<1> QED
  BY <1>4 DEF TimesMeant

(* Every time the synchroniser keeps or gives stays a number of 64 bits, whatever packets and
   reports come and however the sender's clock is set. *)
THEOREM SyncTypeCorrect == SyncSpec => []SyncTypeOK
<1>1. SyncInit => SyncInv
  BY SyncInitInv
<1>2. SyncInv /\ [SyncNext]_syncVars => SyncInv'
  BY SyncStep
<1>3. SyncInv => SyncTypeOK
  BY DEF SyncInv
<1> QED
  BY <1>1, <1>2, <1>3, PTL DEF SyncSpec
=============================================================================
