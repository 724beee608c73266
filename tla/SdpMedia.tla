------------------------------ MODULE SdpMedia ------------------------------
(***************************************************************************)
(* The media handlers of the SDP agent for RTP: kmssdpmediahandler.c and   *)
(* its heirs kmssdprtpmediahandler.c, kmssdprtpavpmediahandler.c and       *)
(* kmssdprtpavpfmediahandler.c, the payload manager that numbers their     *)
(* codecs, the direction, ulpfec and red extensions, and the functions of  *)
(* sdp_utils.c that they are built from.                                   *)
(*                                                                         *)
(* Two endpoints negotiate lines, one of them possibly of another make.    *)
(* SdpAgent models the agent above the handlers and leaves the contents of *)
(* a line open; here they are what the handlers write, and the exchange is *)
(* one line at a time.  A line that was rejected takes no further part:    *)
(* the agent offers it again through its reject handler, as in SdpAgent.   *)
(*                                                                         *)
(* A codec stands for a name with clock rate and channels ("VP8/90000"):   *)
(* two spellings that cmp_static_payload or g_ascii_strcasecmp take for    *)
(* the same are the same codec.  Attributes without effect on either side  *)
(* (framerate, lang, quality...) and addresses are left out.               *)
(***************************************************************************)
EXTENDS Integers, Sequences, FiniteSets, SequencesExt, FiniteSetsExt

CONSTANTS
  Sides,               \* the two endpoints
  MediaLines,          \* m= lines, MediaKind[l] their kind
  MediaKind,
  CodecsOf,            \* CodecsOf[s][kind]: audio-codecs and video-codecs of an endpoint
  StaticPayload,       \* StaticPayload[c]: the number of rfc3551 for codec c, or -1
  MIN_DYNAMIC_PAYLOAD, MAX_DYNAMIC_PAYLOAD,
  PeerLines,           \* lines that endpoints of another make offer
  Configs,             \* the properties an endpoint may have; foreign: of another make
  MaxExchanges         \* bound: offers made

NONE == "none"
MediaKinds == {"audio", "video"}
Codec == DOMAIN StaticPayload
Protos == {"RTP/AVP", "RTP/AVPF", "RTP/SAVP", "RTP/SAVPF"}
WithFeedback == {"RTP/AVPF", "RTP/SAVPF"}
Directions == {"sendonly", "recvonly", "sendrecv", "inactive"}
DEFAULT_RTP_VIDEO_BASE_PAYLOAD == 24
LastStatic == 34       \* of the table of rfc3551
Dynamic == MIN_DYNAMIC_PAYLOAD .. MAX_DYNAMIC_PAYLOAD
IsStatic(pt) == pt \in 0 .. LastStatic
Payloads == 0 .. MAX_DYNAMIC_PAYLOAD

(* A line has a number once. *)
IsLine(m) ==
  /\ m.media \in MediaKinds
  /\ m.fmts \in Seq(Nat) /\ \A i, j \in DOMAIN m.fmts : m.fmts[i] = m.fmts[j] => i = j
  /\ m.rtpmap \in SUBSET (Nat \X Codec)

ASSUME MediaAssumption ==
  /\ MediaKind \in [MediaLines -> MediaKinds]
  /\ CodecsOf \in [Sides -> [MediaKinds -> Seq(Codec)]]
  /\ NONE \notin Codec
  /\ \A c \in Codec : StaticPayload[c] \in 0 .. LastStatic \cup {-1}
  /\ \A c, d \in Codec : StaticPayload[c] = StaticPayload[d] => c = d \/ StaticPayload[c] = -1
  /\ {MIN_DYNAMIC_PAYLOAD, MAX_DYNAMIC_PAYLOAD, MaxExchanges} \subseteq Nat
  /\ LastStatic < MIN_DYNAMIC_PAYLOAD /\ MIN_DYNAMIC_PAYLOAD <= MAX_DYNAMIC_PAYLOAD
  /\ \A cf \in Configs : cf.offer_dir \in Directions /\ cf.share \in BOOLEAN
  /\ \A m \in PeerLines : IsLine(m) /\ m.dir \in Directions \cup {NONE}

VARIABLES
  config,       \* config[s]: rtcp-mux, nack, goog-remb... and share_pts of endpoint s
  counter,      \* counter[s]: the next number of the payload manager of endpoint s
  codecs,       \* codecs[s][pt]: the codec it has for pt
  brought,      \* brought[s][pt]: the codec peers use pt for, as endpoint s saw it
  handler,      \* handler[s][l]: the formats of the handler of line l, NoHandler before
  reclaimed,    \* reclaimed[s]: a line offered again took the number of a codec peers brought
  localLine,    \* localLine[s][l]: the line as endpoint s described it last
  pending,      \* the offer on its way
  last,         \* the exchange that ended last
  exchanges     \* offers made

mediaVars == <<config, counter, codecs, brought, reclaimed, handler, localLine, pending, last, exchanges>>

NoHandler == [fmts |-> <<>>, made |-> FALSE, rejected |-> FALSE]
NoLine == [media |-> NONE]
HasFormat(m, pt) == \E i \in DOMAIN m.fmts : m.fmts[i] = pt
Rtpmaps(m, pt) == {r[2] : r \in {x \in m.rtpmap : x[1] = pt}}

(* The elements of a list that are in S, in their order. *)
Kept(s, S) ==
  LET upTo[n \in 0 .. Len(s)] ==
        IF n = 0 THEN <<>> ELSE IF s[n] \in S THEN Append(upTo[n - 1], s[n]) ELSE upTo[n - 1]
  IN  upTo[Len(s)]

-----------------------------------------------------------------------------
(* The payload manager.                                                    *)

(* register_dynamic_payload: the number is the codec's, which has no other one. *)
Register(table, pt, c) ==
  [i \in Dynamic |-> IF i = pt THEN c ELSE IF table[i] = c THEN NONE ELSE table[i]]

(* The next number of the counter.  It goes on counting when there is none left. *)
get_next_int(n) == IF n <= MAX_DYNAMIC_PAYLOAD THEN n ELSE -1

(* A mutated form: numbers that peers use are given out again. *)
get_dynamic_pt_taken(pm, share, c) ==
  LET has == {i \in Dynamic : pm.codecs[i] = c}
      pt  == get_next_int(pm.counter)
  IN  CASE share /\ has # {} -> [pm EXCEPT !.pt = Min(has)]
        [] OTHER -> [pm EXCEPT !.pt = pt, !.counter = @ + 1,
                               !.codecs = IF pt = -1 THEN @ ELSE Register(@, pt, c)]

(* get_dynamic_pt: a manager that shares numbers gives a codec the one it has and passes
   over those that peers use.  pm.pt is the result. *)
get_dynamic_pt(pm, share, c) ==
  LET has  == {i \in Dynamic : pm.codecs[i] = c}
      free == {i \in pm.counter .. MAX_DYNAMIC_PAYLOAD : pm.codecs[i] = NONE}
  IN  CASE ~share -> [pm EXCEPT !.pt = get_next_int(pm.counter), !.counter = @ + 1]
        [] share /\ has # {} -> [pm EXCEPT !.pt = Min(has)]
        [] share /\ has = {} /\ free # {} ->
             [pt |-> Min(free), counter |-> Min(free) + 1,
              codecs |-> Register(pm.codecs, Min(free), c)]
        [] OTHER -> [pm EXCEPT !.pt = -1,
                               !.counter = Max({@, MAX_DYNAMIC_PAYLOAD + 1}) + 1]

-----------------------------------------------------------------------------
(* The formats of a handler.                                               *)

(* The number of a codec in the table of rfc3551, or -1. *)
get_static_payload_for_codec_name(c) == StaticPayload[c]

(* add_codec.  A codec that is there already, or for which no number is left, is not
   added.  H264 gets format parameters. *)
add_codec(h, share, kind, c) ==
  LET used == \E i \in DOMAIN h.fmts[kind] : h.fmts[kind][i].name = c
      st   == get_static_payload_for_codec_name(c)
      pm   == IF st >= 0 THEN [h.pm EXCEPT !.pt = st]
              ELSE get_dynamic_pt(h.pm, share, c)
      fmt  == [payload |-> pm.pt, name |-> c, fmtp |-> c = "H264"]
  IN  CASE used -> h
        [] ~used /\ pm.pt < 0 -> [h EXCEPT !.pm = pm]
        [] OTHER -> [fmts |-> [h.fmts EXCEPT ![kind] = Append(@, fmt)], pm |-> pm]

add_codecs(h, share, kind, cs) ==
  LET upTo[n \in 0 .. Len(cs)] == IF n = 0 THEN h ELSE add_codec(upTo[n - 1], share, kind, cs[n])
  IN  upTo[Len(cs)]

(* create_media_handler: every handler gets the audio and the video codecs.  Handlers are
   made for the line that is negotiated next. *)
CreateHandler(s, l) ==
  LET empty == [fmts |-> [k \in MediaKinds |-> <<>>],
                pm   |-> [pt |-> -1, counter |-> counter[s], codecs |-> codecs[s]]]
      audio == add_codecs(empty, config[s].share, "audio", CodecsOf[s].audio)
      new   == add_codecs(audio, config[s].share, "video", CodecsOf[s].video)
  IN  /\ ~handler[s][l].made /\ ~config[s].foreign
      /\ \A k \in MediaLines : handler[s][k].made => localLine[s][k] # NoLine
      /\ handler' = [handler EXCEPT ![s][l] = [fmts |-> new.fmts, made |-> TRUE, rejected |-> FALSE]]
      /\ counter' = [counter EXCEPT ![s] = new.pm.counter]
      /\ codecs' = [codecs EXCEPT ![s] = new.pm.codecs]
      /\ UNCHANGED <<config, brought, reclaimed, localLine, pending, last, exchanges>>

(* encoding_supported *)
encoding_supported(h, kind, c) ==
  \E i \in DOMAIN h.fmts[kind] : h.fmts[kind][i].name = c

(* The codec a line means by pt: its rtpmap, or the table of static payloads. *)
get_attr_map_value(m, pt) ==
  IF Rtpmaps(m, pt) # {} THEN Rtpmaps(m, pt)
  ELSE {c \in Codec : StaticPayload[c] = pt}

(* format_supported *)
format_supported(h, m, pt) ==
  \E c \in get_attr_map_value(m, pt) : encoding_supported(h, m.media, c)

(* set_supported_fmts and the loop of add_answer_attributes: the formats of a line that the
   handler supports, in its order... *)
SupportedFmts(h, m) == Kept(m.fmts, {pt \in ToSet(m.fmts) : format_supported(h, m, pt)})

(* ...and the manager, told of every dynamic one by encoding_supported. *)
register_fmt(table, m, pt) ==
  IF \E c \in Rtpmaps(m, pt) : StaticPayload[c] < 0
  THEN Register(table, pt, CHOOSE c \in Rtpmaps(m, pt) : TRUE) ELSE table
Registered(h, m, share, table) ==
  LET fmts == SupportedFmts(h, m)
      upTo[n \in 0 .. Len(fmts)] == IF n = 0 THEN table ELSE register_fmt(upTo[n - 1], m, fmts[n])
  IN  IF share THEN upTo[Len(fmts)] ELSE table

-----------------------------------------------------------------------------
(* Offers.                                                                 *)

(* manage_protocol of the four classes.  The regular expressions of the secure ones are
   anchored at the start only, so that RTP/SAVP takes RTP/SAVPF too. *)
manage_protocol(proto, p) ==
  CASE proto = "RTP/AVP"  -> p = "RTP/AVP"
    [] proto = "RTP/AVPF" -> p \in {"RTP/AVPF", "RTP/AVP"}
    [] proto \in {"RTP/SAVP", "RTP/SAVPF"} -> p \in {"RTP/SAVPF", "RTP/SAVP"}

(* add_supported_fmts fails for a static number of the other kind of media. *)
add_supported_fmts(h, kind) ==
  \A i \in DOMAIN h.fmts[kind] :
    LET pt == h.fmts[kind][i].payload
    IN  IsStatic(pt) => (kind = "audio" <=> pt < DEFAULT_RTP_VIDEO_BASE_PAYLOAD)

(* rtcp_fb_attrs: the feedback of a video codec. *)
rtcp_fb_attrs(cf, pt, c) ==
  {<<pt, "ccm fir">>}
  \cup (IF cf.nack THEN {<<pt, "nack">>, <<pt, "nack pli">>} ELSE {})
  \cup (IF cf.remb /\ c = "VP8" THEN {<<pt, "goog-remb">>} ELSE {})

add_rtcp_fb_attrs(cf, m) ==
  IF cf.proto \notin WithFeedback \/ m.media # "video" THEN {}
  ELSE UNION {rtcp_fb_attrs(cf, r[1], r[2]) :
              r \in {x \in m.rtpmap : x[2] \in {"VP8", "H264"}}}

BareLine(media, proto, port, setup) ==
  [media |-> media, proto |-> proto, port |-> port, setup |-> setup, fmts |-> <<>>,
   rtpmap |-> {}, fmtp |-> {}, ext |-> {}, dir |-> NONE, fb |-> {}, rtcp |-> FALSE,
   mux |-> FALSE]
init_new_offer(cf, kind) == BareLine(kind, cf.proto, 1, "actpass")
init_renegotiated_offer(prev) == BareLine(prev.media, prev.proto, prev.port, NONE)
init_answer(offer) == BareLine(offer.media, offer.proto, 1, NONE)

(* add_rtpmap_attrs, and the parameters of the formats that have some. *)
add_rtpmap_attrs(fs) ==
  {<<fs[i].payload, fs[i].name>> : i \in {j \in DOMAIN fs : ~IsStatic(fs[j].payload)}}
add_fmtp_attrs(fs) == {fs[i].payload : i \in {j \in DOMAIN fs : fs[j].fmtp}}

(* add_new_offer_attributes: formats, header extensions and rtpmaps of the handler, without
   an rtpmap for static numbers. *)
NewOffer(cf, h, kind) ==
  LET fs == h.fmts[kind]
  IN  [init_new_offer(cf, kind) EXCEPT
         !.fmts = [i \in DOMAIN fs |-> fs[i].payload], !.rtpmap = add_rtpmap_attrs(fs),
         !.fmtp = add_fmtp_attrs(fs), !.ext = cf.extmaps]

(* add_supported_rtpmap_attrs: rtpmaps for the formats of a line that is not rejected. *)
SupportedRtpmaps(from, fmts, port) ==
  {r \in from.rtpmap : port # 0 /\ \E i \in DOMAIN fmts : fmts[i] = r[1]}

(* add_supported_fmtp looks the parameters up by position in the previous line. *)
add_supported_fmtp(prev, fmts) == {prev.fmts[i] : i \in DOMAIN fmts} \cap prev.fmtp

add_supported_extmaps(cf, m) == {e \in m.ext : \E x \in cf.extmaps : x[2] = e[2]}

(* A mutated form: what was agreed on before is offered again as it is. *)
NegotiatedOfferAll(cf, h, prev) ==
  [prev EXCEPT !.setup = NONE, !.dir = NONE, !.fb = {}, !.rtcp = FALSE, !.mux = FALSE]

(* add_negotiated_offer_attributes *)
NegotiatedOffer(cf, h, prev) ==
  LET fmts == SupportedFmts(h, prev)
      port == IF fmts = <<>> THEN 0 ELSE prev.port
  IN  [init_renegotiated_offer(prev) EXCEPT
         !.port = port, !.fmts = fmts, !.rtpmap = SupportedRtpmaps(prev, fmts, port),
         !.fmtp = add_supported_fmtp(prev, fmts), !.ext = add_supported_extmaps(cf, prev)]

(* The attributes the parents chain up to: rtcp, rtcp-mux, the direction, feedback. *)
add_offer_attributes(cf, m) ==
  [m EXCEPT !.rtcp = cf.entry, !.mux = cf.mux, !.dir = cf.offer_dir,
            !.fb = add_rtcp_fb_attrs(cf, m)]

(* The numbers that peers brought are those of the manager's table. *)
InStep(numbers, table) == \A pt \in Dynamic : numbers[pt] \in {NONE, table[pt]}

(* create_offer: a new line, or the previous one again with what is still supported. *)
CreateMediaOffer(s, l) ==
  LET cf == config[s]
      h  == handler[s][l]
      m  == IF localLine[s][l] = NoLine THEN NewOffer(cf, h, MediaKind[l])
            ELSE NegotiatedOffer(cf, h, localLine[s][l])
      ok == IF localLine[s][l] = NoLine THEN add_supported_fmts(h, MediaKind[l])
            ELSE manage_protocol(cf.proto, localLine[s][l].proto)
  IN  /\ h.made /\ ~h.rejected /\ pending = NoLine /\ exchanges < MaxExchanges
      /\ IF ok THEN pending' = [from |-> s, line |-> l, offer |-> add_offer_attributes(cf, m),
                                media |-> MediaKind[l]]
               ELSE UNCHANGED pending
      /\ codecs' = IF ok /\ localLine[s][l] # NoLine
                   THEN [codecs EXCEPT ![s] = Registered(h, localLine[s][l], cf.share, @)]
                   ELSE codecs
      /\ reclaimed' = [reclaimed EXCEPT ![s] = @ \/ (cf.share /\ ~InStep(brought[s], codecs'[s]))]
      /\ exchanges' = exchanges + 1
      /\ UNCHANGED <<config, counter, brought, handler, localLine, last>>

(* An endpoint of another make offers, and keeps to the numbers agreed on before... *)
PeerOffer(s, l, m) ==
  /\ config[s].foreign /\ pending = NoLine /\ exchanges < MaxExchanges
  /\ m.media = MediaKind[l]
  /\ \A r \in m.rtpmap, x \in Sides, k \in MediaLines :
       localLine[x][k] # NoLine => \A q \in localLine[x][k].rtpmap : q[1] = r[1] => q[2] = r[2]
  /\ pending' = [from |-> s, line |-> l, offer |-> m, media |-> m.media]
  /\ exchanges' = exchanges + 1
  /\ UNCHANGED <<config, counter, codecs, brought, reclaimed, handler, localLine, last>>

(* ...and takes an offer. *)
PeerAnswer(s, l) ==
  /\ config[s].foreign /\ pending # NoLine /\ pending.line = l /\ pending.from # s
  /\ pending' = NoLine
  /\ localLine' = [localLine EXCEPT ![pending.from][l] = pending.offer]
  /\ last' = NoLine
  /\ UNCHANGED <<config, counter, codecs, brought, reclaimed, handler, exchanges>>

-----------------------------------------------------------------------------
(* Answers.                                                                *)

(* sdp_utils_get_data_from_rtpmap_codec: the first rtpmap of the codec with its number
   among the formats. *)
PtOfCodec(m, c) == {r[1] : r \in {x \in m.rtpmap : x[2] = c /\ HasFormat(m, x[1])}}

(* add_ulp_fec_attrs and add_redundant_attrs: the number the offer has for the protection
   is added to the formats of the answer, unless these have it. *)
AddProtection(cf, offer, fmts, c) ==
  LET pts == PtOfCodec(offer, c)
  IN  IF ~cf.fec \/ pts = {} \/ fmts = <<>> \/ \E i \in DOMAIN fmts : fmts[i] \in pts
      THEN fmts ELSE Append(fmts, CHOOSE pt \in pts : TRUE)

(* The formats of the answer: those supported, or the first one of a rejected line, and
   the protection. *)
AnswerFmts(cf, h, offer) ==
  LET own  == SupportedFmts(h, offer)
      base == IF own # <<>> THEN own ELSE SubSeq(offer.fmts, 1, Min({1, Len(offer.fmts)}))
  IN  AddProtection(cf, offer, AddProtection(cf, offer, base, "ulpfec"), "red")

(* A mutated form: the direction is copied. *)
AnswerDirectionCopied(d) == IF d = NONE THEN "sendrecv" ELSE d

(* on_answer_media_direction *)
AnswerDirection(d) ==
  CASE d = "sendonly" -> "recvonly" [] d = "recvonly" -> "sendonly"
    [] d = "inactive" -> "inactive" [] OTHER -> "sendrecv"

(* sdp_utils_add_setup_attribute *)
AnswerSetup(a) ==
  CASE a = NONE -> NONE [] a = "active" -> "passive"
    [] a \in {"passive", "actpass"} -> "active" [] OTHER -> "holdconn"

(* filter_rtcp_fb_attrs *)
filter_rtcp_fb_attrs(cf, offer, fmts) ==
  {f \in offer.fb : /\ \E i \in DOMAIN fmts : fmts[i] = f[1]
                    /\ (f[2] \in {"nack", "nack pli"}) => cf.nack
                    /\ (f[2] = "goog-remb") => cf.remb
                    /\ f[2] \in {"nack", "nack pli", "goog-remb", "ccm fir"}}

(* The answer's feedback: none when the offer is for plain RTP/AVP. *)
AnswerFeedback(cf, offer, fmts) ==
  IF cf.proto \in WithFeedback /\ offer.proto # "RTP/AVP"
  THEN filter_rtcp_fb_attrs(cf, offer, fmts) ELSE {}

(* accept_fmtp_attribute *)
accept_fmtp(offer, fmts) == {pt \in offer.fmtp : \E i \in DOMAIN fmts : fmts[i] = pt}

(* can_insert_attribute of the RTP handler: rtcp-mux needs the rtcp entry too. *)
can_insert_mux(cf, offer) == offer.mux /\ cf.mux /\ cf.entry

(* intersect_attribute: what of the offer's attributes the answer takes over. *)
Intersect(cf, offer, a) ==
  [a EXCEPT !.setup = AnswerSetup(offer.setup), !.fmtp = accept_fmtp(offer, a.fmts),
            !.mux = can_insert_mux(cf, offer)]

(* create_answer: init_answer, add_answer_attributes up the classes, and
   intersect_sdp_medias. *)
Answer(cf, h, offer) ==
  LET fmts == AnswerFmts(cf, h, offer)
      port == IF SupportedFmts(h, offer) = <<>> THEN 0 ELSE 1
  IN  Intersect(cf, offer,
        [init_answer(offer) EXCEPT
           !.port = port, !.fmts = fmts, !.rtpmap = SupportedRtpmaps(offer, fmts, port),
           !.ext = add_supported_extmaps(cf, offer), !.dir = AnswerDirection(offer.dir),
           !.fb = AnswerFeedback(cf, offer, fmts), !.rtcp = cf.entry])

(* add_supported_rtpmap_attrs fails at a format with neither an rtpmap nor a static number
   that is supported. *)
AnswerFails(cf, h, offer, a) ==
  \/ ~manage_protocol(cf.proto, offer.proto)
  \/ /\ a.port # 0
     /\ \E i \in DOMAIN a.fmts : /\ Rtpmaps(offer, a.fmts[i]) = {}
                                 /\ ~format_supported(h, offer, a.fmts[i])

(* The other side answers and the offerer takes the answer. *)
CreateMediaAnswer(s, l) ==
  LET offer == pending.offer
      cf    == config[s]
      h     == handler[s][l]
      a     == Answer(cf, h, offer)
  IN  /\ pending # NoLine /\ pending.line = l /\ pending.from # s
      /\ h.made /\ ~h.rejected
      /\ pending' = NoLine
      /\ IF manage_protocol(cf.proto, offer.proto)
         THEN /\ codecs' = [codecs EXCEPT ![s] = Registered(h, offer, cf.share, @)]
              /\ brought' = [brought EXCEPT ![s] = Registered(h, offer, TRUE, @)]
         ELSE UNCHANGED <<codecs, brought>>
      /\ IF AnswerFails(cf, h, offer, a)
         THEN /\ last' = [offerer |-> pending.from, answerer |-> s, line |-> l, offer |-> offer,
                          answer |-> NoLine]
              /\ UNCHANGED <<handler, localLine>>
         ELSE /\ last' = [offerer |-> pending.from, answerer |-> s, line |-> l, offer |-> offer,
                          answer |-> a]
              /\ handler' = [x \in Sides |-> IF x \in {s, pending.from}
                                             THEN [handler[x] EXCEPT ![l].rejected = a.port = 0]
                                             ELSE handler[x]]
              /\ localLine' = [x \in Sides |-> CASE x = s -> [localLine[x] EXCEPT ![l] = a]
                                             [] x = pending.from -> [localLine[x] EXCEPT ![l] = offer]
                                             [] OTHER -> localLine[x]]
      /\ UNCHANGED <<config, counter, reclaimed, exchanges>>

-----------------------------------------------------------------------------
MediaInit ==
  /\ config \in [Sides -> Configs]
  /\ counter = [s \in Sides |-> MIN_DYNAMIC_PAYLOAD]
  /\ codecs = [s \in Sides |-> [pt \in Dynamic |-> NONE]]
  /\ brought = codecs
  /\ reclaimed = [s \in Sides |-> FALSE]
  /\ handler = [s \in Sides |-> [l \in MediaLines |-> NoHandler]]
  /\ localLine = [s \in Sides |-> [l \in MediaLines |-> NoLine]]
  /\ pending = NoLine /\ last = NoLine /\ exchanges = 0

MediaNext ==
  \E s \in Sides, l \in MediaLines :
    \/ CreateHandler(s, l)
    \/ CreateMediaOffer(s, l)
    \/ CreateMediaAnswer(s, l)
    \/ \E m \in PeerLines : PeerOffer(s, l, m)
    \/ PeerAnswer(s, l)

MediaSpec == MediaInit /\ [][MediaNext]_mediaVars

-----------------------------------------------------------------------------
Sends(m) == m.dir \in {"sendonly", "sendrecv", NONE}
Receives(m) == m.dir \in {"recvonly", "sendrecv", NONE}
Answered == last # NoLine /\ last.answer # NoLine
Place(m, pt) == CHOOSE i \in DOMAIN m.fmts : m.fmts[i] = pt

(* RFC 3264, as the handlers promise it: an answer takes formats of the offer in their
   order and with their meaning, has at least one even when the line is rejected, sends
   what the offerer receives and receives what it sends, and asks for feedback only on
   formats it takes. *)
FitsOffer(a, o) ==
  LET main == Kept(a.fmts, {pt \in ToSet(a.fmts) :
                              get_attr_map_value(o, pt) \cap {"red", "ulpfec"} = {}})
  IN  /\ \A i \in DOMAIN a.fmts : HasFormat(o, a.fmts[i])
      /\ \A i, j \in DOMAIN main : i < j => Place(o, main[i]) < Place(o, main[j])
      /\ (o.fmts # <<>>) => (a.fmts # <<>>)
      /\ (a.port # 0) => \A i \in DOMAIN a.fmts :
           get_attr_map_value(a, a.fmts[i]) = get_attr_map_value(o, a.fmts[i])
      /\ (Sends(a) <=> Receives(o)) /\ (Receives(a) <=> Sends(o))
      /\ \A f \in a.fb : HasFormat(a, f[1]) /\ f \in o.fb

AnswerFits == Answered => FitsOffer(last.answer, last.offer)

(* Every offer of a managed protocol gets an answer: no combination of static numbers,
   rtpmaps and protection makes add_supported_rtpmap_attrs give up on a format that
   add_answer_attributes put there. *)
AnswerGiven ==
  (last # NoLine /\ manage_protocol(config[last.answerer].proto, last.offer.proto))
    => last.answer # NoLine

(* An offer a handler can manage gets an answer, and the answer fits it
   (kms_sdp_agent_create_media_answer through the chain of handlers). *)
AnswerRight == AnswerFits /\ AnswerGiven

(* An offer o has what handler h supports of a line: the formats, their meaning and their
   parameters. *)
OffersAgain(h, prev, o) ==
  /\ ToSet(o.fmts) = {prev.fmts[i] : i \in {j \in DOMAIN prev.fmts :
                                              format_supported(h, prev, prev.fmts[j])}}
  /\ \A i \in DOMAIN o.fmts :
       /\ o.port # 0 => get_attr_map_value(o, o.fmts[i]) = get_attr_map_value(prev, o.fmts[i])
       /\ o.fmts[i] \in prev.fmtp <=> o.fmts[i] \in o.fmtp

(* What was agreed on can be offered again: a line that an endpoint of this server offers
   anew has the formats, numbers and format parameters of the last exchange. *)
Reoffered ==
  (pending # NoLine /\ ~config[pending.from].foreign /\ localLine[pending.from][pending.line] # NoLine) =>
    OffersAgain(handler[pending.from][pending.line], localLine[pending.from][pending.line],
                pending.offer)

(* A manager that shares numbers keeps them apart over the lines of an endpoint: a handler
   made later gives out no number that peers use for another codec, whatever numbers they
   brought and whichever codecs lost theirs to them.  A line offered again takes its old
   numbers back (encoding_supported), also from codecs for which peers use them since, or use
   another one: that is excepted (reclaimed). *)
NumbersKept ==
  [][\A s \in Sides, l \in MediaLines :
       (handler'[s][l].made /\ ~handler[s][l].made /\ config[s].share /\ ~reclaimed[s]) =>
         \A k \in MediaKinds : \A i \in DOMAIN handler'[s][l].fmts[k] :
           LET f == handler'[s][l].fmts[k][i]
           IN  f.payload \in Dynamic => brought[s][f.payload] \in {NONE, f.name}]_mediaVars

(* The type invariant. *)
MediaTypeOK ==
  /\ config \in [Sides -> Configs]
  /\ counter \in [Sides -> Nat] /\ exchanges \in 0 .. MaxExchanges
  /\ \A s \in Sides : \A pt \in Dynamic : codecs[s][pt] \in Codec \cup {NONE}
  /\ \A s \in Sides, l \in MediaLines : \A k \in MediaKinds :
       handler[s][l].made => \A i \in DOMAIN handler[s][l].fmts[k] :
         handler[s][l].fmts[k][i].payload \in Payloads
=============================================================================
