---------------------------- MODULE SdpEndpoint ----------------------------
(***************************************************************************)
(* SdpEndpointImpl with the element and the session below it               *)
(* (kmsbasesdpendpoint.c, kmssdpsession.c): one negotiation, asked for by  *)
(* several request threads at once.                                        *)
(*                                                                         *)
(* SdpEndpointImpl guards its operations with three atomic flags that it   *)
(* reads and sets outside of any lock.  The signal it emits between runs   *)
(* under the lock of the element, so that it is one step here, and drives  *)
(* the SDP agent, of which only the state of its diagram is kept.          *)
(*                                                                         *)
(* A description is the number of m= lines in use, by kind of media.       *)
(***************************************************************************)
EXTENDS Integers, Sequences, FiniteSets

CONSTANTS
  Threads,    \* request threads
  Kinds,      \* the kinds of media, in the order init_sdp_handlers takes them
  Medias,     \* num-audio-medias, num-video-medias: m= lines per kind, as configured
  MaxFailures,\* bound: failures of media handlers
  MaxLines,   \* bound: m= lines of a kind in an offer of the peer
  MaxOps      \* bound: requests made

ASSUME EndpointAssumption ==
  /\ Kinds \in Seq(STRING) /\ Kinds # <<>> /\ Medias \in Nat /\ MaxFailures \in Nat
  /\ MaxLines \in Nat /\ MaxOps \in Nat

Kind == {Kinds[i] : i \in DOMAIN Kinds}
Lines == [Kind -> Nat]
NoSdp == [k \in Kind |-> -1]
Fits(a, b) == \A k \in Kind : a[k] <= b[k]

VARIABLES
  offerInProcess, waitingAnswer, answerProcessed,
  numMedias,    \* numMedias[k]: the lines of kind k to negotiate
  handlers,     \* handlers[k]: handlers of kind k made so far
  agent,        \* the state of the session's SDP agent
  localSdp, remoteSdp, negSdp, firstNegSdp,
  started,      \* how often media was started
  events,       \* how often MediaSessionStarted was raised
  failed,       \* failures of media handlers so far
  pc,           \* pc[t]: where thread t is
  result,       \* result[t]: what the last request of thread t returned
  ops           \* requests made so far

flags   == <<offerInProcess, waitingAnswer, answerProcessed>>
element == <<handlers, agent, localSdp, remoteSdp, negSdp, firstNegSdp, started>>
vars    == <<flags, numMedias, element, events, failed, pc, result, ops>>

Agents  == {"unnegotiated", "remote_offer", "wait_nego", "negotiated"}
Steps   == {"idle", "generate", "generated", "generate_failed", "offer", "offered",
            "offer_failed", "answer", "answered"}
Results == {"none", "ok", "already_negotiated", "generate_offer_error", "process_offer_error",
            "not_offer_generated", "answer_already_processed"}

(* The type invariant. *)
TypeOK ==
  /\ offerInProcess \in BOOLEAN /\ waitingAnswer \in BOOLEAN /\ answerProcessed \in BOOLEAN
  /\ numMedias \in Lines /\ handlers \in Lines /\ agent \in Agents
  /\ \A d \in {localSdp, remoteSdp, negSdp, firstNegSdp} : d \in Lines \cup {NoSdp}
  /\ started \in Nat /\ events \in Nat /\ ops \in 0..MaxOps
  /\ failed \in 0..MaxFailures
  /\ pc \in [Threads -> Steps] /\ result \in [Threads -> Results]

Init ==
  /\ offerInProcess = FALSE /\ waitingAnswer = FALSE /\ answerProcessed = FALSE
  /\ numMedias = [k \in Kind |-> Medias]
  /\ handlers = [k \in Kind |-> 0]
  /\ agent = "unnegotiated"
  /\ localSdp = NoSdp /\ remoteSdp = NoSdp /\ negSdp = NoSdp /\ firstNegSdp = NoSdp
  /\ started = 0 /\ events = 0 /\ failed = 0 /\ ops = 0
  /\ pc = [t \in Threads |-> "idle"] /\ result = [t \in Threads |-> "none"]

Goto(t, p) == pc' = [pc EXCEPT ![t] = p]
Return(t, r) == Goto(t, "idle") /\ result' = [result EXCEPT ![t] = r]
Request(t) == pc[t] = "idle" /\ ops < MaxOps /\ ops' = ops + 1

-----------------------------------------------------------------------------
(* generateOffer.  The options are put into the element before the offer is made. *)

GenerateOffer(t, without) ==
  /\ Request(t)
  /\ \/ /\ offerInProcess
        /\ Return(t, "already_negotiated")
        /\ UNCHANGED <<flags, numMedias>>
     \/ /\ ~offerInProcess
        /\ offerInProcess' = TRUE
        /\ numMedias' = [k \in Kind |-> IF k \in without THEN 0 ELSE numMedias[k]]
        /\ Goto(t, "generate")
        /\ UNCHANGED <<waitingAnswer, answerProcessed, result>>
  /\ UNCHANGED <<element, events, failed>>

(* The handlers after init_sdp_handlers: one more for every media to negotiate. *)
HandlersAdded == [k \in Kind |-> handlers[k] + numMedias[k]]

(* ...or after it failed at a handler of kind Kinds[i] with n of that kind added. *)
HandlersUpTo(i, n) ==
  [k \in Kind |-> handlers[k] + CASE \E j \in 1..(i - 1) : Kinds[j] = k -> numMedias[k]
                                  [] Kinds[i] = k -> n
                                  [] OTHER -> 0]

(* The signal generate-offer. *)
EmitGenerateOffer(t) ==
  /\ pc[t] = "generate" /\ agent \in {"unnegotiated", "negotiated"}
  /\ handlers' = HandlersAdded
  /\ localSdp' = handlers'
  /\ agent' = "wait_nego"
  /\ Goto(t, "generated")
  /\ UNCHANGED <<flags, numMedias, remoteSdp, negSdp, firstNegSdp, started, events, failed, result, ops>>

(* It fails in a state in which the agent takes no handlers and makes no offer, at a
   handler that cannot be made, or in the agent's create_offer. *)
EmitGenerateOfferFails(t) ==
  /\ pc[t] = "generate"
  /\ IF agent \in {"unnegotiated", "negotiated"}
     THEN /\ failed < MaxFailures /\ failed' = failed + 1
          /\ \/ handlers' = HandlersAdded
             \/ \E i \in DOMAIN Kinds : \E n \in 0..(numMedias[Kinds[i]] - 1) :
                  handlers' = HandlersUpTo(i, n)
     ELSE UNCHANGED <<handlers, failed>>
  /\ Goto(t, "generate_failed")
  /\ UNCHANGED <<flags, numMedias, agent, localSdp, remoteSdp, negSdp, firstNegSdp, started,
                 events, result, ops>>

OfferGenerated(t) ==
  /\ pc[t] = "generated"
  /\ waitingAnswer' = TRUE
  /\ Return(t, "ok")
  /\ UNCHANGED <<offerInProcess, answerProcessed, numMedias, element, events, failed, ops>>

OfferNotGenerated(t) ==
  /\ pc[t] = "generate_failed"
  /\ offerInProcess' = FALSE
  /\ Return(t, "generate_offer_error")
  /\ UNCHANGED <<waitingAnswer, answerProcessed, numMedias, element, events, failed, ops>>

-----------------------------------------------------------------------------
(* processOffer                                                            *)

(* A mutated form: the flag is set without looking at it. *)
ProcessOfferUnchecked(t) ==
  /\ Request(t)
  /\ offerInProcess' = TRUE
  /\ Goto(t, "offer")
  /\ UNCHANGED <<waitingAnswer, answerProcessed, result, numMedias, element, events, failed>>

ProcessOffer(t) ==
  /\ Request(t)
  /\ \/ /\ offerInProcess
        /\ Return(t, "already_negotiated")
        /\ UNCHANGED flags
     \/ /\ ~offerInProcess
        /\ offerInProcess' = TRUE
        /\ Goto(t, "offer")
        /\ UNCHANGED <<waitingAnswer, answerProcessed, result>>
  /\ UNCHANGED <<numMedias, element, events, failed>>

(* A mutated form: the limit is not looked at. *)
HandlersRequiredAll(offer) == offer

(* on_handler_required, asked for the lines of an offer that no handler is left for. *)
HandlersRequired(offer) ==
  [k \in Kind |-> LET wanted == IF offer[k] < numMedias[k] THEN offer[k] ELSE numMedias[k]
                  IN  IF handlers[k] > wanted THEN handlers[k] ELSE wanted]

(* The answers the agent may give: it refuses what it has no handler for, and a media
   handler may refuse too. *)
Answers(offer) ==
  {a \in [Kind -> 0..MaxLines] : Fits(a, offer) /\ Fits(a, HandlersRequired(offer))}

(* The negotiation is complete: the element keeps what was agreed and starts media. *)
Negotiated(sdp) ==
  /\ agent' = "negotiated"
  /\ negSdp' = sdp
  /\ firstNegSdp' = IF firstNegSdp = NoSdp THEN sdp ELSE firstNegSdp
  /\ started' = started + 1

(* The signal process-offer: set_remote_description, create_answer and
   set_local_description of the agent. *)
EmitProcessOffer(t, offer) ==
  /\ pc[t] = "offer" /\ agent \in {"unnegotiated", "negotiated"}
  /\ remoteSdp' = offer
  /\ handlers' = HandlersRequired(offer)
  /\ localSdp' \in Answers(offer)
  /\ Negotiated(localSdp')
  /\ Goto(t, "offered")
  /\ UNCHANGED <<flags, numMedias, events, failed, result, ops>>

(* It fails in create_answer, or because the agent takes no offer in its state (an agent
   that waits for an answer would take the offer for one: see AgentExpects). *)
EmitProcessOfferFails(t, offer) ==
  /\ pc[t] = "offer" /\ agent # "wait_nego"
  /\ remoteSdp' = offer
  /\ IF agent \in {"unnegotiated", "negotiated"}
     THEN /\ failed < MaxFailures /\ failed' = failed + 1
          /\ agent' = "remote_offer"
          /\ handlers' \in {g \in [Kind -> 0..(MaxLines + MaxOps * Medias)] :
                              Fits(handlers, g) /\ Fits(g, HandlersRequired(offer))}
     ELSE UNCHANGED <<agent, handlers, failed>>
  /\ Goto(t, "offer_failed")
  /\ UNCHANGED <<flags, numMedias, localSdp, negSdp, firstNegSdp, started, events, result, ops>>

OfferProcessed(t) ==
  /\ pc[t] = "offered"
  /\ events' = events + 1
  /\ Return(t, "ok")
  /\ UNCHANGED <<flags, numMedias, element, failed, ops>>

(* A mutated form: every error allows a new attempt to answer, too. *)
OfferNotProcessedReset(t) ==
  /\ pc[t] = "offer_failed"
  /\ offerInProcess' = FALSE /\ waitingAnswer' = TRUE
  /\ Return(t, "process_offer_error")
  /\ UNCHANGED <<answerProcessed, numMedias, element, events, failed, ops>>

OfferNotProcessed(t) ==
  /\ pc[t] = "offer_failed"
  /\ offerInProcess' = FALSE
  /\ Return(t, "process_offer_error")
  /\ UNCHANGED <<waitingAnswer, answerProcessed, numMedias, element, events, failed, ops>>

-----------------------------------------------------------------------------
(* processAnswer                                                           *)

(* A mutated form: the second flag is not taken. *)
ProcessAnswerTwice(t) ==
  /\ Request(t)
  /\ IF waitingAnswer THEN Goto(t, "answer") /\ UNCHANGED <<flags, result>>
     ELSE Return(t, "not_offer_generated") /\ UNCHANGED flags
  /\ UNCHANGED <<numMedias, element, events, failed>>

ProcessAnswer(t) ==
  /\ Request(t)
  /\ \/ /\ ~waitingAnswer
        /\ Return(t, "not_offer_generated")
        /\ UNCHANGED flags
     \/ /\ waitingAnswer /\ answerProcessed
        /\ Return(t, "answer_already_processed")
        /\ UNCHANGED flags
     \/ /\ waitingAnswer /\ ~answerProcessed
        /\ answerProcessed' = TRUE
        /\ Goto(t, "answer")
        /\ UNCHANGED <<offerInProcess, waitingAnswer, result>>
  /\ UNCHANGED <<numMedias, element, events, failed>>

(* The signal process-answer.  AgentExpects shows that the session made an offer and that
   the agent waits for the answer, so that the signal does not fail. *)
EmitProcessAnswer(t, answer) ==
  /\ pc[t] = "answer" /\ localSdp # NoSdp /\ agent = "wait_nego"
  /\ remoteSdp' = answer
  /\ Negotiated(answer)
  /\ Goto(t, "answered")
  /\ UNCHANGED <<flags, numMedias, handlers, localSdp, events, failed, result, ops>>

AnswerProcessed(t) ==
  /\ pc[t] = "answered"
  /\ events' = events + 1
  /\ Return(t, "ok")
  /\ UNCHANGED <<flags, numMedias, element, failed, ops>>

-----------------------------------------------------------------------------
PeerOffers == [Kind -> 0..MaxLines] \ {[k \in Kind |-> 0]}
PeerAnswers == {a \in [Kind -> 0..(MaxOps * Medias)] : Fits(a, localSdp)}

Next ==
  \E t \in Threads :
    \/ \E without \in SUBSET Kind : GenerateOffer(t, without)
    \/ EmitGenerateOffer(t) \/ EmitGenerateOfferFails(t)
    \/ OfferGenerated(t) \/ OfferNotGenerated(t)
    \/ ProcessOffer(t)
    \/ \E offer \in PeerOffers : EmitProcessOffer(t, offer) \/ EmitProcessOfferFails(t, offer)
    \/ OfferProcessed(t) \/ OfferNotProcessed(t)
    \/ ProcessAnswer(t)
    \/ \E answer \in PeerAnswers : EmitProcessAnswer(t, answer)
    \/ AnswerProcessed(t)

Spec == Init /\ [][Next]_vars

-----------------------------------------------------------------------------
(* Properties.                                                             *)

(* The flags of SdpEndpointImpl, taken before the lock of the element, are right about
   the agent when the signal comes to run: an answer meets a session that made an offer
   and an agent that waits for it, and neither an offer to process nor one to generate
   meets an agent that waits or has negotiated. *)
AgentExpects ==
  \A t \in Threads :
    /\ pc[t] = "answer" => localSdp # NoSdp /\ agent = "wait_nego"
    /\ pc[t] \in {"offer", "generate"} => agent \in {"unnegotiated", "remote_offer"}

(* Media starts and MediaSessionStarted is raised at most once in the life of an
   endpoint, and an event means that the negotiation is complete. *)
StartsOnce ==
  /\ events <= started /\ started <= 1 /\ firstNegSdp = negSdp
  /\ (started = 1) = (agent = "negotiated")

Offering == {"generate", "generated", "generate_failed", "offer", "offered", "offer_failed"}

(* Of all requests to negotiate, whoever makes them and whenever they fail, one side's
   offer wins: an endpoint that processed an offer has none of its own outstanding. *)
OneOffer ==
  /\ \A t, u \in Threads : pc[t] \in Offering /\ pc[u] \in Offering => t = u
  /\ waitingAnswer => offerInProcess /\ agent \in {"wait_nego", "negotiated"}

(* "Number of audio medias to be negotiated" (num-audio-medias, kmsbasesdpendpoint.c):
   no description of the endpoint has more lines of a kind in use than were configured,
   as long as no media handler failed; every failure can leave as many handlers behind,
   which a later offer negotiates again. *)
WithinMedias == \A k \in Kind : localSdp[k] <= (failed + 1) * Medias
=============================================================================
