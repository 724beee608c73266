------------------------------ MODULE SdpAgent ------------------------------
(***************************************************************************)
(* The SDP agent (kmssdpagent.c): the offer/answer exchange of one session *)
(* with one peer, several times over.                                      *)
(*                                                                         *)
(* The agent keeps the handlers its user registered (handlers) and the     *)
(* handlers behind the m= lines of the session, by position                *)
(* (offer_handlers).  Every m= line is answered, offered again, refused or *)
(* reused through the handler at its position, so the two lists, the flags *)
(* of each handler and the two descriptions have to stay in step through   *)
(* renegotiation, removal, cancelled offers and failures.                  *)
(*                                                                         *)
(* A description is a version and, per m= line, a kind of media and        *)
(* whether the port is not zero.  A kind stands for a media type with its  *)
(* protocol.  Attributes, codecs and groups are left out; whether a media  *)
(* handler accepts, refuses or fails is chosen freely.  Each operation     *)
(* holds the agent's mutex from end to end.                                *)
(***************************************************************************)
EXTENDS Integers, Sequences, FiniteSets

CONSTANTS
  Kinds,        \* kinds of media
  RtpKinds,     \* the kinds that RTP handlers carry
  PerKind,      \* handlers the user supplies or registers before it supplies no more
  Cancels,      \* whether the user cancels offers
  Removes,      \* whether the user removes handlers
  Failures,     \* whether media handlers fail
  PeerReuses,   \* whether the peer puts new media in slots whose port is zero
  MaxMedias,    \* bound: m= lines of a description
  MaxHandlers,  \* bound: handlers made in a behaviour
  MaxVersion,   \* bound: versions of a description
  MaxRounds     \* bound: negotiations started

ASSUME AgentAssumption ==
  /\ RtpKinds \subseteq Kinds /\ PerKind \in Nat
  /\ {Cancels, Removes, Failures, PeerReuses} \subseteq BOOLEAN
  /\ MaxMedias \in Nat /\ MaxHandlers \in Nat /\ MaxVersion \in Nat \ {0} /\ MaxRounds \in Nat

Media == [kind : Kinds, on : BOOLEAN]
Medias == UNION {[1..n -> Media] : n \in 0..MaxMedias}
NoSdp == [ver |-> 0, medias |-> <<>>]
Sdp == [ver : 0..MaxVersion, medias : Seq(Media)]

(* SdpHandler and the KmsSdpHandler in it.  index is one more than the code's. *)
Handler == [kind : Kinds, disabled : BOOLEAN, unsupported : BOOLEAN, rejected : BOOLEAN,
            offer : BOOLEAN, negotiated : BOOLEAN, index : Nat \ {0}]

NewHandler(k, unsup) ==
  [kind |-> k, disabled |-> FALSE, unsupported |-> unsup, rejected |-> FALSE,
   offer |-> FALSE, negotiated |-> FALSE, index |-> 1]

VARIABLES
  state,
  handlers,       \* ids of the registered handlers, in order
  offerHandlers,  \* ids of the handlers behind the m= lines, by position
  h,              \* h[id]: the handler with this id
  localDesc,      \* local_description
  remoteDesc,     \* the m= lines of remote_description
  prevSdp,        \* whether prev_sdp is set
  local, remote,  \* session versions, 0 when not set
  rounds,         \* negotiations started so far
  made            \* the offer or answer returned last, until it is set or dropped

lists == <<handlers, offerHandlers, h>>
descs == <<localDesc, remoteDesc, prevSdp>>
vars  == <<state, lists, descs, local, remote, rounds, made>>

States == {"unnegotiated", "local_offer", "remote_offer", "wait_nego", "negotiated"}

(* The type invariant. *)
TypeOK ==
  /\ state \in States
  /\ handlers \in Seq(Nat) /\ offerHandlers \in Seq(Nat)
  /\ h \in Seq(Handler)
  /\ localDesc \in Sdp /\ remoteDesc \in Seq(Media) /\ made \in Sdp
  /\ prevSdp \in BOOLEAN /\ rounds \in 0..MaxRounds
  /\ local \in 0..MaxVersion /\ remote \in 0..MaxVersion

Init ==
  /\ state = "unnegotiated"
  /\ handlers = <<>> /\ offerHandlers = <<>> /\ h = <<>>
  /\ localDesc = NoSdp /\ remoteDesc = <<>> /\ prevSdp = FALSE
  /\ local = 0 /\ remote = 0 /\ rounds = 0 /\ made = NoSdp

(* A negotiation starts. *)
Round == rounds < MaxRounds /\ rounds' = rounds + 1

Elems(s) == {s[i] : i \in DOMAIN s}
Quiet == {"unnegotiated", "negotiated"}

-----------------------------------------------------------------------------
(* Handlers.                                                               *)

(* kms_sdp_agent_add_proto_handler *)
AddHandler(k) ==
  /\ state \in Quiet /\ Len(h) < MaxHandlers
  /\ h' = Append(h, NewHandler(k, FALSE))
  /\ handlers' = Append(handlers, Len(h'))
  /\ UNCHANGED <<state, offerHandlers, descs, local, remote, rounds, made>>

(* The elements of s that are in S, in order. *)
Those(s, S) ==
  LET upTo[n \in 0..Len(s)] ==
        IF n = 0 THEN <<>>
        ELSE IF s[n] \in S THEN Append(upTo[n - 1], s[n]) ELSE upTo[n - 1]
  IN  upTo[Len(s)]

Without(s, drop) == Those(s, Elems(s) \ drop)

(* kms_sdp_agent_remove_proto_handler.  The user knows the ids of the handlers it
   registered and removes each once. *)
RemoveHandler(i) ==
  /\ Removes /\ state \in Quiet
  /\ i \in Elems(handlers) /\ ~h[i].disabled
  /\ IF h[i].negotiated
     THEN h' = [h EXCEPT ![i].disabled = TRUE] /\ UNCHANGED handlers
     ELSE handlers' = Without(handlers, {i}) /\ UNCHANGED h
  /\ UNCHANGED <<state, offerHandlers, descs, local, remote, rounds, made>>

(* kms_sdp_agent_commit_state_operations on entering the state negotiated. *)
CommitNegotiated(hs) ==
  /\ h' = IF state = "local_offer" THEN hs
          ELSE [i \in DOMAIN h |-> IF i \in Elems(offerHandlers)
                              THEN [hs[i] EXCEPT !.negotiated = TRUE] ELSE hs[i]]
  /\ handlers' = Without(handlers, {i \in DOMAIN hs : hs[i].disabled})

(* kms_sdp_agent_get_negotiated_media: the agreed media of handler g, or none. *)
NegotiatedMedia(g) ==
  LET desc == IF g.offer THEN remoteDesc ELSE localDesc.medias
  IN  IF g.negotiated /\ g.index \in DOMAIN desc THEN <<desc[g.index]>> ELSE <<>>

Rejected(m) == [m EXCEPT !.on = FALSE]

-----------------------------------------------------------------------------
(* kms_sdp_agent_create_offer                                              *)

(* A mutated form: handlers that are in the list already count as new. *)
FreshListed == Those(handlers, {i \in DOMAIN h : ~h[i].negotiated})

(* New handlers, in order: registered, not negotiated and not in the list yet. *)
Fresh == Those(handlers, {i \in DOMAIN h : ~h[i].negotiated /\ i \notin Elems(offerHandlers)})

Reusable(i) == h[i].disabled \/ h[i].unsupported

(* The place of position p among the reusable slots. *)
Rank(p) == Cardinality({q \in 1..p : Reusable(offerHandlers[q])})

(* kms_sdp_agent_merge_offer_handlers *)
MergeOfferHandlers ==
  IF state = "unnegotiated" THEN handlers
  ELSE LET slots == Cardinality({q \in DOMAIN offerHandlers : Reusable(offerHandlers[q])})
           merged == [p \in DOMAIN offerHandlers |->
                        IF Reusable(offerHandlers[p]) /\ Rank(p) <= Len(Fresh)
                        THEN Fresh[Rank(p)] ELSE offerHandlers[p]]
       IN  merged \o SubSeq(Fresh, slots + 1, Len(Fresh))

(* kms_sdp_agent_create_proper_media_offer for the handler at position p of the
   merged list; the result is empty when it fails.  An RTP handler takes over the
   port of the previous local description, an SCTP handler does not. *)
MediaOffer(p, list) ==
  LET g == h[list[p]]
      agreed == NegotiatedMedia(g)
  IN  IF g.disabled \/ g.rejected
      THEN IF agreed = <<>> THEN <<>> ELSE <<Rejected(agreed[1])>>
      ELSE IF g.unsupported THEN <<[kind |-> g.kind, on |-> FALSE]>>
      ELSE IF ~g.negotiated THEN <<[kind |-> g.kind, on |-> TRUE]>>
      ELSE IF p \notin DOMAIN localDesc.medias THEN <<>>
      ELSE <<[kind |-> g.kind, on |-> g.kind \in RtpKinds => localDesc.medias[p].on]>>

(* A media handler is asked to create the media at position p. *)
AsksHandler(p, list) ==
  LET g == h[list[p]] IN ~g.disabled /\ ~g.rejected /\ ~g.unsupported

(* A mutated form: counts on from the version of the last offer, set or not. *)
OfferVersionOfLast(medias, changed) ==
  IF localDesc = NoSdp THEN 1
  ELSE IF changed \/ medias # localDesc.medias THEN local + 1 ELSE local

(* kms_sdp_agent_update_session_version; without a previous description the version
   is a new time stamp. *)
OfferVersion(medias, changed) ==
  IF localDesc = NoSdp THEN 1
  ELSE IF changed \/ medias # localDesc.medias THEN localDesc.ver + 1 ELSE localDesc.ver

(* A mutated form: the index is not updated. *)
OfferedStale(n, list) ==
  [i \in DOMAIN h |->
     IF \E p \in 1..n : list[p] = i /\ AsksHandler(p, list) /\ ~h[i].negotiated
     THEN [h[i] EXCEPT !.offer = TRUE] ELSE h[i]]

(* What kms_sdp_agent_make_media_offer leaves in the first n handlers of the list. *)
Offered(n, list) ==
  LET at(i) == CHOOSE p \in 1..n : list[p] = i
  IN  [i \in DOMAIN h |->
         IF i \in {list[p] : p \in 1..n}
         THEN [h[i] EXCEPT !.index = at(i),
                           !.offer = @ \/ (AsksHandler(at(i), list) /\ ~h[i].negotiated)]
         ELSE h[i]]

(* changed: the offer differs from the previous description in an attribute. *)
CreateOffer(changed) ==
  LET list == MergeOfferHandlers
      medias == [p \in DOMAIN list |-> MediaOffer(p, list)[1]]
      ver == OfferVersion(medias, changed)
  IN  /\ state \in Quiet /\ Round
      /\ Len(list) <= MaxMedias
      /\ \A p \in DOMAIN list : MediaOffer(p, list) # <<>>
      /\ ver <= MaxVersion
      /\ state' = "local_offer"
      /\ offerHandlers' = list
      /\ h' = Offered(Len(list), list)
      /\ local' = ver
      /\ made' = [ver |-> ver, medias |-> medias]
      /\ UNCHANGED <<handlers, descs, remote>>

(* The version an offer starts from: that of the last description, or a new time stamp. *)
LastVersion == IF localDesc = NoSdp THEN 1 ELSE localDesc.ver
ChangedVersion == OfferVersion(<<>>, TRUE)

(* A session extension fails before any media: the handlers are not merged. *)
CreateOfferFailsEarly ==
  /\ state \in Quiet /\ Round
  /\ Failures
  /\ local' = LastVersion
  /\ UNCHANGED <<state, lists, descs, remote, made>>

(* The first n media are created and the next one is not, or a session extension
   fails after all of them, when the version may be updated: the list is put back, unless it
   was empty. *)
CreateOfferFails(n) ==
  LET list == MergeOfferHandlers
  IN  /\ state \in Quiet /\ Round
      /\ Len(list) <= MaxMedias
      /\ n \in 0..Len(list)
      /\ \A p \in 1..n : MediaOffer(p, list) # <<>>
      /\ IF n = Len(list) THEN Failures
         ELSE MediaOffer(n + 1, list) = <<>> \/ (Failures /\ AsksHandler(n + 1, list))
      /\ offerHandlers' = IF offerHandlers = <<>> THEN list ELSE offerHandlers
      /\ h' = Offered(n, list)
      /\ \/ local' = LastVersion
         \/ n = Len(list) /\ local' = ChangedVersion /\ ChangedVersion <= MaxVersion
      /\ UNCHANGED <<state, handlers, descs, remote, made>>

(* A mutated form: the previous negotiation is forgotten. *)
CancelOfferForgets ==
  /\ Cancels /\ state = "local_offer"
  /\ state' = "unnegotiated"
  /\ offerHandlers' = <<>> /\ local' = 0 /\ remote' = 0 /\ made' = NoSdp
  /\ UNCHANGED <<h, handlers, descs, rounds>>

(* kms_sdp_agent_cancel_offer *)
CancelOffer ==
  /\ Cancels /\ state = "local_offer"
  /\ \/ /\ prevSdp
        /\ state' = "negotiated"
        /\ CommitNegotiated(h)
        /\ UNCHANGED <<offerHandlers, local, remote>>
     \/ /\ ~prevSdp
        /\ state' = "unnegotiated"
        /\ offerHandlers' = <<>> /\ local' = 0 /\ remote' = 0
        /\ UNCHANGED <<h, handlers>>
  /\ made' = NoSdp
  /\ UNCHANGED <<descs, rounds>>

-----------------------------------------------------------------------------
(* kms_sdp_agent_create_answer.  The answer is made media by media; the state  *)
(* threaded through is                                                          *)
(*   [hs, os, h : the two lists and the handlers,                               *)
(*    out : the media answered, ok : whether none failed, sel : the handler]    *)

Make(a, g) == [a EXCEPT !.h = Append(@, g), !.sel = Len(a.h) + 1]

(* on_handler_required: the user counts the handlers of a kind it ever made. *)
Supplies(a, m) ==
  Cardinality({i \in DOMAIN a.h : a.h[i].kind = m.kind /\ ~a.h[i].unsupported}) < PerKind

(* A mutated form: any free handler will do. *)
HandlerForAnyMedia(a, m) ==
  LET free == Those(a.hs, {i \in DOMAIN a.h : ~a.h[i].negotiated /\ i \notin Elems(a.os)})
  IN  IF free # <<>> THEN [a EXCEPT !.sel = free[1]] ELSE [a EXCEPT !.sel = 0]

(* kms_sdp_agent_get_handler_for_media: a registered handler that is free, or one
   the user supplies on request, or 0. *)
HandlerForMedia(a, m) ==
  LET free == Those(a.hs, {i \in DOMAIN a.h : /\ ~a.h[i].negotiated /\ a.h[i].kind = m.kind
                                               /\ i \notin Elems(a.os)})
  IN  IF free # <<>> THEN [a EXCEPT !.sel = free[1]]
      ELSE IF ~Supplies(a, m) THEN [a EXCEPT !.sel = 0]
      ELSE LET b == Make(a, NewHandler(m.kind, FALSE)) IN [b EXCEPT !.hs = Append(@, b.sel)]

(* ...or an internal handler that refuses the media. *)
OrReject(a, m) == IF a.sel = 0 THEN Make(a, NewHandler(m.kind, TRUE)) ELSE a

(* kms_sdp_agent_replace_offered_handler at position p *)
ReplaceOfferedHandler(a, p, m) ==
  LET b == OrReject(HandlerForMedia(a, m), m) IN [b EXCEPT !.os[p] = b.sel]

(* kms_sdp_agent_get_proper_handler for the handler at position p: a slot that the
   peer had set to port zero and now uses again. *)
ProperHandler(a, p, m) ==
  LET i == a.os[p]
      g == a.h[i]
      b == [a EXCEPT !.h[i] = [@ EXCEPT !.negotiated = FALSE, !.rejected = FALSE, !.offer = FALSE],
                     !.sel = i]
  IN  IF ~g.rejected \/ ~m.on THEN [a EXCEPT !.sel = i]
      ELSE IF g.kind = m.kind /\ ~g.unsupported THEN b
      ELSE ReplaceOfferedHandler(b, p, m)

(* kms_sdp_agent_select_handler_to_answer_media *)
SelectHandler(a, p, m) ==
  IF p \in DOMAIN a.os THEN ProperHandler(a, p, m)
  ELSE OrReject(HandlerForMedia(a, m), m)

(* A mutated form: a port of zero is answered with what was agreed before. *)
AnswerMediaKept(a, p, m, reply) ==
  LET b == SelectHandler(a, p, m)
      g == b.h[b.sel]
      agreed == NegotiatedMedia(g)
      known == b.sel \in Elems(b.os)
      x == IF ~m.on /\ agreed # <<>> THEN agreed[1] ELSE [m EXCEPT !.on = @ /\ ~g.unsupported]
  IN  [b EXCEPT !.out = Append(@, x),
                !.os = IF known THEN @ ELSE Append(@, b.sel),
                !.h[b.sel].index = IF known THEN @ ELSE p]

(* create_media_answer: reply is what the media handler does.  An RTP handler fails on
   data and an SCTP handler on audio and video; SCTP refuses nothing. *)
AnswerMedia(a, p, m, reply) ==
  LET b == SelectHandler(a, p, m)
      g == b.h[b.sel]
      agreed == NegotiatedMedia(g)
      known == b.sel \in Elems(b.os)
      Answered(x) ==
        [b EXCEPT !.out = Append(@, x),
                  !.os = IF known THEN @ ELSE Append(@, b.sel),
                  !.h[b.sel].index = IF known THEN @ ELSE p]
  IN  IF ~m.on /\ g.negotiated
      THEN IF agreed = <<>> THEN [b EXCEPT !.ok = FALSE] ELSE Answered(Rejected(agreed[1]))
      ELSE IF ~m.on \/ g.unsupported THEN Answered(Rejected(m))
      ELSE IF reply = "fail" \/ (g.kind \in RtpKinds) # (m.kind \in RtpKinds)
      THEN [b EXCEPT !.ok = FALSE]
      ELSE Answered([m EXCEPT !.on = reply = "accept" \/ g.kind \notin RtpKinds])

(* kms_sdp_agent_generate_answer: the media in order, until one fails. *)
GenerateAnswer(replies) ==
  LET medias == remoteDesc
      start == [hs |-> handlers, os |-> offerHandlers, h |-> h, out |-> <<>>,
                ok |-> TRUE, sel |-> 0]
      upTo[p \in 0..Len(medias)] ==
        IF p = 0 THEN start
        ELSE IF ~upTo[p - 1].ok THEN upTo[p - 1]
        ELSE AnswerMedia(upTo[p - 1], p, medias[p], replies[p])
  IN  upTo[Len(medias)]

Replies == {"accept", "reject"} \cup (IF Failures THEN {"fail"} ELSE {})

CreateAnswer(replies) ==
  LET a == GenerateAnswer(replies)
  IN  /\ state = "remote_offer"
      /\ Len(a.h) <= MaxHandlers
      /\ handlers' = a.hs /\ offerHandlers' = a.os /\ h' = a.h
      /\ local' = IF local = 0 THEN 1 ELSE local
      /\ made' = IF a.ok THEN [ver |-> local', medias |-> a.out] ELSE NoSdp
      /\ UNCHANGED <<state, descs, remote, rounds>>

-----------------------------------------------------------------------------
(* Descriptions.                                                           *)

(* kms_sdp_agent_set_local_description with the description made last *)
SetLocalOffer ==
  /\ state = "local_offer"
  /\ localDesc' = made /\ made' = NoSdp
  /\ state' = "wait_nego"
  /\ UNCHANGED <<lists, remoteDesc, prevSdp, local, remote, rounds>>

SetLocalAnswer ==
  /\ state = "remote_offer" /\ made # NoSdp
  /\ localDesc' = made /\ made' = NoSdp /\ prevSdp' = TRUE
  /\ state' = "negotiated"
  /\ CommitNegotiated(h)
  /\ UNCHANGED <<offerHandlers, remoteDesc, local, remote, rounds>>

(* is_valid_session_version *)
ValidVersion(v) == v \in {remote, remote + 1}

(* update_rejected_medias *)
UpdateRejected(medias) ==
  [i \in DOMAIN h |->
     IF \E p \in DOMAIN medias \cap DOMAIN offerHandlers : offerHandlers[p] = i /\ ~medias[p].on
     THEN [h[i] EXCEPT !.rejected = TRUE] ELSE h[i]]

(* kms_sdp_agent_set_remote_description: an answer... *)
SetRemoteAnswer(medias, v) ==
  /\ state = "wait_nego"
  /\ remote = 0 \/ ValidVersion(v)
  /\ remote' = v
  /\ remoteDesc' = medias /\ prevSdp' = TRUE
  /\ state' = "negotiated"
  /\ CommitNegotiated(UpdateRejected(medias))
  /\ UNCHANGED <<offerHandlers, localDesc, local, rounds, made>>

(* ...or an offer. *)
SetRemoteOffer(medias, v) ==
  /\ state \in Quiet /\ Round
  /\ state = "unnegotiated" \/ ValidVersion(v)
  /\ remote' = v
  /\ remoteDesc' = medias
  /\ h' = IF state = "negotiated" THEN UpdateRejected(medias) ELSE h
  /\ state' = "remote_offer"
  /\ made' = NoSdp
  /\ UNCHANGED <<handlers, offerHandlers, localDesc, prevSdp, local>>

-----------------------------------------------------------------------------
(* The peer follows RFC 3264: it answers every m= line of an offer with one of  *)
(* its kind, leaves port zero where it is, keeps the lines of the session in its *)
(* offers and uses a line again only when its port is zero.                      *)

PeerAnswers(offer) ==
  {ms \in [DOMAIN offer -> Media] :
     \A p \in DOMAIN offer : ms[p].kind = offer[p].kind /\ (ms[p].on => offer[p].on)}

(* Line p is in use by both sides. *)
Active(p) ==
  /\ p \in DOMAIN localDesc.medias \cap DOMAIN remoteDesc
  /\ localDesc.medias[p].on /\ remoteDesc[p].on

PeerOffers ==
  {ms \in Medias :
     /\ Len(ms) >= Len(remoteDesc) /\ ms # <<>>
     /\ \A p \in DOMAIN remoteDesc :
          \/ ms[p].kind = remoteDesc[p].kind /\ (ms[p].on => Active(p))
          \/ PeerReuses /\ ~Active(p) /\ ms[p].on}

(* The versions the peer may put on ms: a description that changed has a new one. *)
PeerVersions(ms) ==
  {v \in 1..MaxVersion : v > remote \/ (v = remote /\ ms = remoteDesc)}

Next ==
  \/ \E k \in Kinds : AddHandler(k)
  \/ \E i \in DOMAIN h : RemoveHandler(i)
  \/ \E changed \in BOOLEAN : CreateOffer(changed)
  \/ CreateOfferFailsEarly
  \/ \E n \in 0..MaxMedias : CreateOfferFails(n)
  \/ CancelOffer
  \/ \E replies \in [DOMAIN remoteDesc -> Replies] :
       CreateAnswer(replies)
  \/ SetLocalOffer \/ SetLocalAnswer
  \/ \E ms \in PeerAnswers(localDesc.medias) : \E v \in PeerVersions(ms) : SetRemoteAnswer(ms, v)
  \/ \E ms \in PeerOffers : \E v \in PeerVersions(ms) : SetRemoteOffer(ms, v)

Spec == Init /\ [][Next]_vars

-----------------------------------------------------------------------------
(* Properties.                                                             *)

Answering == state = "remote_offer" /\ made # NoSdp
HandlerAt(p) == h[offerHandlers[p]]

(* Every m= line of a description that is about to be agreed has a handler:
   process_answered_description asserts it (kmssdpagent.c, "No handler for media at
   position"), whatever was removed, cancelled, refused or failed before. *)
HandlerPerMedia ==
  /\ Answering => Len(made.medias) <= Len(offerHandlers)
  /\ state = "wait_nego" => Len(localDesc.medias) = Len(offerHandlers)

(* No handler is behind two m= lines: create_offer gives a handler an index and an
   answer finds it by position, so a handler that merge_offer_handlers or an answer
   put in twice would be offered twice. *)
OwnSlot == \A p, q \in DOMAIN offerHandlers : offerHandlers[p] = offerHandlers[q] => p = q

(* Every line has a handler and no handler two lines. *)
SlotsInStep == HandlerPerMedia /\ OwnSlot

(* An answer has the lines of the offer, kind by kind, leaves a port of zero at zero ("MUST
   be marked with port zero in the answer", create_media_answer), also when it copies a line
   of an older description through a handler's index, and leaves every line in use to a
   handler of its kind ("This handler can not manage this media"), whatever negotiation
   filled the position the handler is taken from. *)
AnswerMatches ==
  Answering =>
    /\ DOMAIN made.medias = DOMAIN remoteDesc
    /\ \A p \in DOMAIN made.medias :
         /\ made.medias[p].kind = remoteDesc[p].kind
         /\ made.medias[p].on => remoteDesc[p].on
         /\ HandlerAt(p).kind = remoteDesc[p].kind \/ HandlerAt(p).unsupported \/ ~remoteDesc[p].on

(* When no media handler fails on media of its own kind, create_answer succeeds on
   every offer of a peer that follows RFC 3264. *)
AnswerPossible ==
  state = "remote_offer" => GenerateAnswer([p \in DOMAIN remoteDesc |-> "accept"]).ok

(* In the states in which the diagram allows create_local_offer the agent can make an
   offer, unless a media handler fails. *)
OfferPossible ==
  state \in Quiet => LET list == MergeOfferHandlers
                     IN  \A p \in DOMAIN list : MediaOffer(p, list) # <<>>

(* The agent is never stuck: where its diagram lets it make an offer or an answer, it can
   (create_offer_impl, generate_answer). *)
NeverStuck == AnswerPossible /\ OfferPossible

(* Between negotiations the handlers are in step with the lines: the index kept in a
   negotiated handler, by which get_negotiated_media reads what was agreed, is its position,
   and the handler of a line both sides use was negotiated and does not refuse media, so
   that the next offer keeps the line. *)
LinesInStep ==
  state = "negotiated" =>
    \A p \in DOMAIN offerHandlers :
      /\ HandlerAt(p).negotiated => HandlerAt(p).index = p
      /\ Active(p) => HandlerAt(p).negotiated /\ ~HandlerAt(p).unsupported

(* The version of the local description goes up by at most one from one description
   to the next ("MUST increment by one from the previous SDP", update_session_version),
   also when offers were cancelled or failed in between. *)
VersionStep ==
  [][localDesc # NoSdp => localDesc'.ver \in {localDesc.ver, localDesc.ver + 1}]_vars

Diagram == INSTANCE SdpAgentStates
             WITH Media <- Nat, agreed <- prevSdp,
                  media <- {i \in Elems(handlers) : ~h[i].disabled}
(* The agent implements the state diagram of kmssdpagent.c, and what the user
   registered changes only where the text above the diagram allows it. *)
FollowsDiagram == Diagram!Spec
=============================================================================
