-------------------------- MODULE SdpEndpointProofs --------------------------
(***************************************************************************)
(* Proofs about SdpEndpoint for any number of request threads, kinds of    *)
(* media, requests and lines, about the media handlers of SdpMedia for any *)
(* endpoints, lines, codecs, numbers and exchanges, and about the names    *)
(* and groups of SdpGroups for any lines, handlers and operations.         *)
(*                                                                         *)
(* The flags are taken in one step and the signal runs in a later one, so  *)
(* what a property says of the agent depends on which threads are between  *)
(* the two: FlagsRight ties the flags, the agent and the program counters  *)
(* together, OneEach says that the flags admit one thread at a time, and   *)
(* StartCounts counts the starts of media.                                 *)
(*                                                                         *)
(* What the handlers promise rests on what their loops do over lists of    *)
(* formats (KeptLeft, CodecsAdded, RegisteredInStep) and on MediaInv: the  *)
(* formats of a line that its handler supports are its first ones, numbers *)
(* are in a list once, and the manager has those that peers brought.       *)
(***************************************************************************)
EXTENDS SdpEndpoint, SdpMedia, SdpGroups, SequenceTheorems, FiniteSetTheorems,
        WellFoundedInduction, TLAPS

Started == {"offered", "answered"}
FlagsRight ==
  /\ offerInProcess \/ (agent \in {"unnegotiated", "remote_offer"} /\ ~waitingAnswer)
  /\ waitingAnswer => /\ offerInProcess /\ agent \in {"wait_nego", "negotiated"}
                      /\ localSdp # NoSdp
                      /\ ~answerProcessed => agent = "wait_nego"
  /\ \A t \in Threads :
       /\ pc[t] \in Offering => offerInProcess /\ ~waitingAnswer
       /\ pc[t] \in {"offer", "generate", "offer_failed", "generate_failed"} =>
            agent \in {"unnegotiated", "remote_offer"}
       /\ pc[t] = "generated" => agent = "wait_nego" /\ localSdp # NoSdp /\ ~answerProcessed
       /\ pc[t] = "answer" => waitingAnswer /\ answerProcessed /\ agent = "wait_nego"
       /\ pc[t] \in Started => agent = "negotiated" /\ events = 0
  /\ answerProcessed => waitingAnswer
OneEach ==
  \A t, u \in Threads :
    \/ pc[t] \in Offering /\ pc[u] \in Offering
    \/ pc[t] = "answer" /\ pc[u] = "answer"
    \/ pc[t] \in Started /\ pc[u] \in Started
    => t = u
StartCounts ==
  /\ started = (IF agent = "negotiated" THEN 1 ELSE 0)
  /\ events <= started
  /\ agent # "negotiated" => negSdp = NoSdp /\ firstNegSdp = NoSdp
  /\ firstNegSdp = negSdp
IInv == TypeOK /\ FlagsRight /\ OneEach /\ StartCounts

-----------------------------------------------------------------------------
(* Lemmas about descriptions. *)

(* A description that was made is not the missing one. *)
LEMMA MadeIsThere ==
  ASSUME NEW d \in Lines
  PROVE  d # NoSdp
<1>1. 1 \in DOMAIN Kinds
  BY EndpointAssumption
<1>2. Kinds[1] \in Kind
  BY <1>1 DEF Kind
<1>3. d[Kinds[1]] \in Nat /\ NoSdp[Kinds[1]] = -1
  BY <1>2 DEF Lines, NoSdp
<1> QED
  BY <1>3

(* The handlers made for an offer are counted in natural numbers, as are the lines that
   any of these functions gives. *)
LEMMA LinesOf ==
  ASSUME TypeOK
  PROVE  /\ HandlersAdded \in Lines
         /\ \A i \in DOMAIN Kinds, n \in Nat : HandlersUpTo(i, n) \in Lines
         /\ \A offer \in Lines : HandlersRequired(offer) \in Lines
         /\ \A offer \in Lines : Answers(offer) \subseteq Lines
         /\ PeerOffers \subseteq Lines /\ PeerAnswers \subseteq Lines
<1>1. HandlersAdded \in Lines
  BY DEF TypeOK, HandlersAdded, Lines
<1>2. ASSUME NEW i \in DOMAIN Kinds, NEW n \in Nat
      PROVE  HandlersUpTo(i, n) \in Lines
  <2>1. ASSUME NEW k \in Kind
        PROVE  (CASE \E j \in 1..(i - 1) : Kinds[j] = k -> numMedias[k]
                  [] Kinds[i] = k -> n
                  [] OTHER -> 0) \in Nat
    BY DEF TypeOK, Lines
  <2> QED
    BY <2>1 DEF TypeOK, HandlersUpTo, Lines
<1>3. \A offer \in Lines : HandlersRequired(offer) \in Lines
  BY DEF TypeOK, HandlersRequired, Lines
<1>4. \A offer \in Lines : Answers(offer) \subseteq Lines
  BY EndpointAssumption DEF Answers, Lines
<1>5. PeerOffers \subseteq Lines /\ PeerAnswers \subseteq Lines
  BY EndpointAssumption DEF PeerOffers, PeerAnswers, Lines
<1> QED
  BY <1>1, <1>2, <1>3, <1>4, <1>5

-----------------------------------------------------------------------------
(* Each action keeps the types... *)
LEMMA TypeStep ==
  ASSUME TypeOK, [Next]_vars
  PROVE  TypeOK'
<1> USE DEF flags, element, Request, Return, Goto
<1>1. CASE UNCHANGED vars
  BY <1>1 DEF TypeOK, vars
<1>2. CASE Next
  <2>1. PICK t \in Threads :
          \/ \E without \in SUBSET Kind : GenerateOffer(t, without)
          \/ EmitGenerateOffer(t) \/ EmitGenerateOfferFails(t)
          \/ OfferGenerated(t) \/ OfferNotGenerated(t)
          \/ ProcessOffer(t)
          \/ \E offer \in PeerOffers : EmitProcessOffer(t, offer) \/ EmitProcessOfferFails(t, offer)
          \/ OfferProcessed(t) \/ OfferNotProcessed(t)
          \/ ProcessAnswer(t)
          \/ \E answer \in PeerAnswers : EmitProcessAnswer(t, answer)
          \/ AnswerProcessed(t)
    BY <1>2 DEF Next
  <2>2. ASSUME NEW without \in SUBSET Kind, GenerateOffer(t, without)
        PROVE  TypeOK'
    <3>1. numMedias' \in Lines
      BY <2>2 DEF TypeOK, GenerateOffer, Lines
    <3>2. ops' \in 0..MaxOps
      BY <2>2, EndpointAssumption DEF TypeOK, GenerateOffer
    <3>3. pc' \in [Threads -> Steps] /\ result' \in [Threads -> Results]
      BY <2>2 DEF TypeOK, GenerateOffer, Steps, Results
    <3>4. offerInProcess' \in BOOLEAN /\ waitingAnswer' \in BOOLEAN /\ answerProcessed' \in BOOLEAN
      BY <2>2 DEF TypeOK, GenerateOffer
    <3>5. UNCHANGED <<element, events, failed>>
      BY <2>2 DEF GenerateOffer
    <3> QED
      BY <3>1, <3>2, <3>3, <3>4, <3>5 DEF TypeOK
  <2>3. CASE EmitGenerateOffer(t)
    BY <2>3, LinesOf DEF TypeOK, EmitGenerateOffer, Steps, Agents
  <2>4. CASE EmitGenerateOfferFails(t)
    <3>1. handlers' \in Lines
      BY <2>4, LinesOf DEF TypeOK, EmitGenerateOfferFails, Lines
    <3>2. failed' \in 0..MaxFailures
      BY <2>4, EndpointAssumption DEF TypeOK, EmitGenerateOfferFails
    <3> QED
      BY <2>4, <3>1, <3>2 DEF TypeOK, EmitGenerateOfferFails, Steps
  <2>5. ASSUME NEW offer \in PeerOffers, EmitProcessOffer(t, offer)
        PROVE  TypeOK'
    <3>1. offer \in Lines /\ handlers' \in Lines /\ localSdp' \in Lines
      BY <2>5, LinesOf DEF EmitProcessOffer
    <3> QED
      BY <2>5, <3>1 DEF TypeOK, EmitProcessOffer, Negotiated, Steps, Agents
  <2>6. ASSUME NEW offer \in PeerOffers, EmitProcessOfferFails(t, offer)
        PROVE  TypeOK'
    <3>1. MaxLines + MaxOps * Medias \in Nat
      BY EndpointAssumption
    <3>2. offer \in Lines /\ handlers' \in Lines
      BY <2>6, <3>1, LinesOf DEF TypeOK, EmitProcessOfferFails, Lines
    <3>3. failed' \in 0..MaxFailures
      BY <2>6, EndpointAssumption DEF TypeOK, EmitProcessOfferFails
    <3> QED
      BY <2>6, <3>2, <3>3 DEF TypeOK, EmitProcessOfferFails, Steps, Agents
  <2>7. ASSUME NEW answer \in PeerAnswers, EmitProcessAnswer(t, answer)
        PROVE  TypeOK'
    BY <2>7, LinesOf DEF TypeOK, EmitProcessAnswer, Negotiated, Steps, Agents
  <2>8. CASE OfferGenerated(t)
    BY <2>8, EndpointAssumption DEF TypeOK, OfferGenerated, Steps, Results
  <2>9. CASE OfferNotGenerated(t)
    BY <2>9, EndpointAssumption DEF TypeOK, OfferNotGenerated, Steps, Results
  <2>10. CASE ProcessOffer(t)
    <3>1. ops' \in 0..MaxOps
      BY <2>10, EndpointAssumption DEF TypeOK, ProcessOffer
    <3>2. pc' \in [Threads -> Steps] /\ result' \in [Threads -> Results]
      BY <2>10 DEF TypeOK, ProcessOffer, Steps, Results
    <3>3. offerInProcess' \in BOOLEAN /\ waitingAnswer' \in BOOLEAN /\ answerProcessed' \in BOOLEAN
      BY <2>10 DEF TypeOK, ProcessOffer
    <3>4. UNCHANGED <<element, events, failed>> /\ UNCHANGED numMedias
      BY <2>10 DEF ProcessOffer
    <3> QED
      BY <3>1, <3>2, <3>3, <3>4 DEF TypeOK
  <2>11. CASE OfferProcessed(t)
    BY <2>11, EndpointAssumption DEF TypeOK, OfferProcessed, Steps, Results
  <2>12. CASE OfferNotProcessed(t)
    BY <2>12, EndpointAssumption DEF TypeOK, OfferNotProcessed, Steps, Results
  <2>13. CASE ProcessAnswer(t)
    <3>1. ops' \in 0..MaxOps
      BY <2>13, EndpointAssumption DEF TypeOK, ProcessAnswer
    <3>2. pc' \in [Threads -> Steps] /\ result' \in [Threads -> Results]
      BY <2>13 DEF TypeOK, ProcessAnswer, Steps, Results
    <3>3. offerInProcess' \in BOOLEAN /\ waitingAnswer' \in BOOLEAN /\ answerProcessed' \in BOOLEAN
      BY <2>13 DEF TypeOK, ProcessAnswer
    <3>4. UNCHANGED <<element, events, failed>> /\ UNCHANGED numMedias
      BY <2>13 DEF ProcessAnswer
    <3> QED
      BY <3>1, <3>2, <3>3, <3>4 DEF TypeOK
  <2>14. CASE AnswerProcessed(t)
    BY <2>14, EndpointAssumption DEF TypeOK, AnswerProcessed, Steps, Results
  <2> QED
    BY <2>1, <2>2, <2>3, <2>4, <2>5, <2>6, <2>7, <2>8, <2>9, <2>10, <2>11, <2>12, <2>13, <2>14
<1> QED
  BY <1>1, <1>2

(* ...and the inductive invariant. *)
LEMMA InvStep ==
  ASSUME IInv, [Next]_vars
  PROVE  IInv'
<1> USE DEF flags, element, Request, Return, Goto, Offering, Started
<1>0. TypeOK /\ TypeOK'
  BY TypeStep DEF IInv
<1>1. CASE UNCHANGED vars
  BY <1>0, <1>1 DEF IInv, FlagsRight, OneEach, StartCounts, vars
<1>2. CASE Next
  <2>1. PICK t \in Threads :
          \/ \E without \in SUBSET Kind : GenerateOffer(t, without)
          \/ EmitGenerateOffer(t) \/ EmitGenerateOfferFails(t)
          \/ OfferGenerated(t) \/ OfferNotGenerated(t)
          \/ ProcessOffer(t)
          \/ \E offer \in PeerOffers : EmitProcessOffer(t, offer) \/ EmitProcessOfferFails(t, offer)
          \/ OfferProcessed(t) \/ OfferNotProcessed(t)
          \/ ProcessAnswer(t)
          \/ \E answer \in PeerAnswers : EmitProcessAnswer(t, answer)
          \/ AnswerProcessed(t)
    BY <1>2 DEF Next
  <2>2. ASSUME NEW without \in SUBSET Kind, GenerateOffer(t, without)
        PROVE  IInv'
    <3>1. FlagsRight'
      BY <1>0, <2>2 DEF IInv, TypeOK, FlagsRight, OneEach, StartCounts, GenerateOffer
    <3>2. OneEach'
      BY <1>0, <2>2 DEF IInv, TypeOK, FlagsRight, OneEach, GenerateOffer
    <3>3. StartCounts'
      BY <1>0, <2>2 DEF IInv, TypeOK, FlagsRight, OneEach, StartCounts, GenerateOffer
    <3> QED
      BY <1>0, <3>1, <3>2, <3>3 DEF IInv
  <2>3. CASE EmitGenerateOffer(t)
    <3>1. FlagsRight'
      BY <1>0, <2>3, LinesOf, MadeIsThere DEF IInv, TypeOK, FlagsRight, OneEach, StartCounts, EmitGenerateOffer
    <3>2. OneEach'
      BY <1>0, <2>3 DEF IInv, TypeOK, FlagsRight, OneEach, EmitGenerateOffer
    <3>3. StartCounts'
      BY <1>0, <2>3 DEF IInv, TypeOK, FlagsRight, OneEach, StartCounts, EmitGenerateOffer
    <3> QED
      BY <1>0, <3>1, <3>2, <3>3 DEF IInv
  <2>4. CASE EmitGenerateOfferFails(t)
    <3>1. FlagsRight'
      BY <1>0, <2>4 DEF IInv, TypeOK, FlagsRight, OneEach, StartCounts, EmitGenerateOfferFails
    <3>2. OneEach'
      BY <1>0, <2>4 DEF IInv, TypeOK, FlagsRight, OneEach, EmitGenerateOfferFails
    <3>3. StartCounts'
      BY <1>0, <2>4 DEF IInv, TypeOK, FlagsRight, OneEach, StartCounts, EmitGenerateOfferFails
    <3> QED
      BY <1>0, <3>1, <3>2, <3>3 DEF IInv
  <2>5. ASSUME NEW offer \in PeerOffers, EmitProcessOffer(t, offer)
        PROVE  IInv'
    <3>1. FlagsRight'
      BY <1>0, <2>5 DEF IInv, TypeOK, FlagsRight, OneEach, StartCounts, EmitProcessOffer, Negotiated
    <3>2. OneEach'
      BY <1>0, <2>5 DEF IInv, TypeOK, FlagsRight, OneEach, EmitProcessOffer, Negotiated
    <3>3. StartCounts'
      BY <1>0, <2>5 DEF IInv, TypeOK, FlagsRight, OneEach, StartCounts, EmitProcessOffer, Negotiated
    <3> QED
      BY <1>0, <3>1, <3>2, <3>3 DEF IInv
  <2>6. ASSUME NEW offer \in PeerOffers, EmitProcessOfferFails(t, offer)
        PROVE  IInv'
    <3>1. FlagsRight'
      BY <1>0, <2>6 DEF IInv, TypeOK, FlagsRight, OneEach, StartCounts, EmitProcessOfferFails
    <3>2. OneEach'
      BY <1>0, <2>6 DEF IInv, TypeOK, FlagsRight, OneEach, EmitProcessOfferFails
    <3>3. StartCounts'
      BY <1>0, <2>6 DEF IInv, TypeOK, FlagsRight, OneEach, StartCounts, EmitProcessOfferFails
    <3> QED
      BY <1>0, <3>1, <3>2, <3>3 DEF IInv
  <2>7. ASSUME NEW answer \in PeerAnswers, EmitProcessAnswer(t, answer)
        PROVE  IInv'
    <3>1. FlagsRight'
      BY <1>0, <2>7 DEF IInv, TypeOK, FlagsRight, OneEach, StartCounts, EmitProcessAnswer, Negotiated
    <3>2. OneEach'
      BY <1>0, <2>7 DEF IInv, TypeOK, FlagsRight, OneEach, EmitProcessAnswer, Negotiated
    <3>3. StartCounts'
      BY <1>0, <2>7 DEF IInv, TypeOK, FlagsRight, OneEach, StartCounts, EmitProcessAnswer, Negotiated
    <3> QED
      BY <1>0, <3>1, <3>2, <3>3 DEF IInv
  <2>8. CASE OfferGenerated(t)
    <3>1. FlagsRight'
      BY <1>0, <2>8 DEF IInv, TypeOK, FlagsRight, OneEach, StartCounts, OfferGenerated
    <3>2. OneEach'
      BY <1>0, <2>8 DEF IInv, TypeOK, FlagsRight, OneEach, OfferGenerated
    <3>3. StartCounts'
      BY <1>0, <2>8 DEF IInv, TypeOK, FlagsRight, OneEach, StartCounts, OfferGenerated
    <3> QED
      BY <1>0, <3>1, <3>2, <3>3 DEF IInv
  <2>9. CASE OfferNotGenerated(t)
    <3>1. FlagsRight'
      BY <1>0, <2>9 DEF IInv, TypeOK, FlagsRight, OneEach, StartCounts, OfferNotGenerated
    <3>2. OneEach'
      BY <1>0, <2>9 DEF IInv, TypeOK, FlagsRight, OneEach, OfferNotGenerated
    <3>3. StartCounts'
      BY <1>0, <2>9 DEF IInv, TypeOK, FlagsRight, OneEach, StartCounts, OfferNotGenerated
    <3> QED
      BY <1>0, <3>1, <3>2, <3>3 DEF IInv
  <2>10. CASE ProcessOffer(t)
    <3>1. FlagsRight'
      BY <1>0, <2>10 DEF IInv, TypeOK, FlagsRight, OneEach, StartCounts, ProcessOffer
    <3>2. OneEach'
      BY <1>0, <2>10 DEF IInv, TypeOK, FlagsRight, OneEach, ProcessOffer
    <3>3. StartCounts'
      BY <1>0, <2>10 DEF IInv, TypeOK, FlagsRight, OneEach, StartCounts, ProcessOffer
    <3> QED
      BY <1>0, <3>1, <3>2, <3>3 DEF IInv
  <2>11. CASE OfferProcessed(t)
    <3>1. FlagsRight'
      BY <1>0, <2>11 DEF IInv, TypeOK, FlagsRight, OneEach, StartCounts, OfferProcessed
    <3>2. OneEach'
      BY <1>0, <2>11 DEF IInv, TypeOK, FlagsRight, OneEach, OfferProcessed
    <3>3. StartCounts'
      BY <1>0, <2>11 DEF IInv, TypeOK, FlagsRight, OneEach, StartCounts, OfferProcessed
    <3> QED
      BY <1>0, <3>1, <3>2, <3>3 DEF IInv
  <2>12. CASE OfferNotProcessed(t)
    <3>1. FlagsRight'
      BY <1>0, <2>12 DEF IInv, TypeOK, FlagsRight, OneEach, StartCounts, OfferNotProcessed
    <3>2. OneEach'
      BY <1>0, <2>12 DEF IInv, TypeOK, FlagsRight, OneEach, OfferNotProcessed
    <3>3. StartCounts'
      BY <1>0, <2>12 DEF IInv, TypeOK, FlagsRight, OneEach, StartCounts, OfferNotProcessed
    <3> QED
      BY <1>0, <3>1, <3>2, <3>3 DEF IInv
  <2>13. CASE ProcessAnswer(t)
    <3>1. FlagsRight'
      BY <1>0, <2>13 DEF IInv, TypeOK, FlagsRight, OneEach, StartCounts, ProcessAnswer
    <3>2. OneEach'
      BY <1>0, <2>13 DEF IInv, TypeOK, FlagsRight, OneEach, ProcessAnswer
    <3>3. StartCounts'
      BY <1>0, <2>13 DEF IInv, TypeOK, FlagsRight, OneEach, StartCounts, ProcessAnswer
    <3> QED
      BY <1>0, <3>1, <3>2, <3>3 DEF IInv
  <2>14. CASE AnswerProcessed(t)
    <3>1. FlagsRight'
      BY <1>0, <2>14 DEF IInv, TypeOK, FlagsRight, OneEach, StartCounts, AnswerProcessed
    <3>2. OneEach'
      BY <1>0, <2>14 DEF IInv, TypeOK, FlagsRight, OneEach, AnswerProcessed
    <3>3. StartCounts'
      BY <1>0, <2>14 DEF IInv, TypeOK, FlagsRight, OneEach, StartCounts, AnswerProcessed
    <3> QED
      BY <1>0, <3>1, <3>2, <3>3 DEF IInv
  <2> QED
    BY <2>1, <2>2, <2>3, <2>4, <2>5, <2>6, <2>7, <2>8, <2>9, <2>10, <2>11, <2>12, <2>13, <2>14
<1> QED
  BY <1>1, <1>2

(* The invariant holds initially. *)
LEMMA InvInit ==
  ASSUME Init
  PROVE  IInv
<1>1. TypeOK
  <2>1. numMedias \in Lines /\ handlers \in Lines
    BY EndpointAssumption DEF Init, Lines
  <2>2. pc \in [Threads -> Steps] /\ result \in [Threads -> Results]
    BY DEF Init, Steps, Results
  <2>3. started \in Nat /\ events \in Nat /\ ops \in 0..MaxOps /\ agent \in Agents
        /\ failed \in 0..MaxFailures
    BY EndpointAssumption DEF Init, Agents
  <2>4. offerInProcess \in BOOLEAN /\ waitingAnswer \in BOOLEAN /\ answerProcessed \in BOOLEAN
    BY DEF Init
  <2>5. \A d \in {localSdp, remoteSdp, negSdp, firstNegSdp} : d \in Lines \cup {NoSdp}
    BY DEF Init
  <2> QED
    BY <2>1, <2>2, <2>3, <2>4, <2>5 DEF TypeOK
<1>2. FlagsRight /\ OneEach /\ StartCounts
  BY DEF Init, FlagsRight, OneEach, StartCounts, Offering, Started
<1> QED
  BY <1>1, <1>2 DEF IInv

(* The inductive invariant of the specification. *)
LEMMA InvHolds == Spec => []IInv
  BY InvInit, InvStep, PTL DEF Spec

-----------------------------------------------------------------------------
(* The variables of an endpoint keep their types. *)
THEOREM TypeCorrect == Spec => []TypeOK
<1>1. IInv => TypeOK
  BY DEF IInv
<1> QED
  BY <1>1, InvHolds, PTL

(* The flags SdpEndpointImpl takes outside of the element's lock are right about the
   agent when the signal runs, for any number of request threads. *)
THEOREM AgentExpectsHolds == Spec => []AgentExpects
<1>1. IInv => AgentExpects
  BY DEF IInv, FlagsRight, AgentExpects
<1> QED
  BY <1>1, InvHolds, PTL

(* An endpoint starts media and raises MediaSessionStarted at most once. *)
THEOREM StartsOnceHolds == Spec => []StartsOnce
<1>1. IInv => StartsOnce
  BY DEF IInv, TypeOK, StartCounts, StartsOnce
<1> QED
  BY <1>1, InvHolds, PTL

(* One request at a time offers or is offered to, and an endpoint waits for an answer
   only after its own offer. *)
THEOREM OneOfferHolds == Spec => []OneOffer
<1>1. IInv => OneOffer
  BY DEF IInv, FlagsRight, OneEach, OneOffer
<1> QED
  BY <1>1, InvHolds, PTL

-----------------------------------------------------------------------------
(* How many handlers an endpoint can have: nothing is negotiated twice, and every failure
   leaves at most one set of handlers behind. *)
Spare == failed * Medias

HandlersBounded ==
  /\ \A k \in Kind : numMedias[k] <= Medias
  /\ agent \in {"unnegotiated", "remote_offer"} => \A k \in Kind : handlers[k] <= Spare
  /\ WithinMedias

(* One more failure leaves room for one more set of handlers. *)
LEMMA SpareGrows ==
  ASSUME TypeOK
  PROVE  /\ Spare \in Nat /\ Medias \in Nat
         /\ (failed + 1) * Medias = Spare + Medias
         /\ failed' = failed + 1 => Spare' = Spare + Medias
<1>1. failed \in Nat /\ Medias \in Nat
  BY EndpointAssumption DEF TypeOK
<1>2. (failed + 1) * Medias = failed * Medias + Medias
  BY <1>1
<1>3. failed * Medias \in Nat
  BY <1>1
<1> QED
  BY <1>1, <1>2, <1>3 DEF Spare

(* What init_sdp_handlers and on_handler_required add stays within one set. *)
LEMMA OneSetMore ==
  ASSUME TypeOK, HandlersBounded, agent \in {"unnegotiated", "remote_offer"}, NEW k \in Kind
  PROVE  /\ HandlersAdded[k] <= Spare + Medias
         /\ \A i \in DOMAIN Kinds : \A n \in 0..(numMedias[Kinds[i]] - 1) :
              HandlersUpTo(i, n)[k] <= Spare + Medias
         /\ \A offer \in Lines : HandlersRequired(offer)[k] <= Spare + Medias
<1>1. /\ handlers[k] \in Nat /\ numMedias[k] \in Nat /\ Spare \in Nat /\ Medias \in Nat
      /\ handlers[k] <= Spare /\ numMedias[k] <= Medias
  BY SpareGrows DEF TypeOK, Lines, HandlersBounded
<1>2. HandlersAdded[k] <= Spare + Medias
  BY <1>1 DEF HandlersAdded
<1>3. ASSUME NEW i \in DOMAIN Kinds, NEW n \in 0..(numMedias[Kinds[i]] - 1)
      PROVE  HandlersUpTo(i, n)[k] <= Spare + Medias
  <2> DEFINE more == CASE \E j \in 1..(i - 1) : Kinds[j] = k -> numMedias[k]
                       [] Kinds[i] = k -> n
                       [] OTHER -> 0
  <2>1. Kinds[i] \in Kind
    BY DEF Kind
  <2>2. numMedias[Kinds[i]] \in Nat /\ numMedias[Kinds[i]] <= Medias
    BY <2>1 DEF TypeOK, Lines, HandlersBounded
  <2>3. n \in Nat /\ n <= Medias
    BY <1>1, <2>2
  <2>4. more \in Nat /\ more <= Medias
    BY <1>1, <2>3
  <2>5. HandlersUpTo(i, n)[k] = handlers[k] + more
    BY DEF HandlersUpTo
  <2> HIDE DEF more
  <2> QED
    BY <1>1, <2>4, <2>5
<1>4. ASSUME NEW offer \in Lines
      PROVE  HandlersRequired(offer)[k] <= Spare + Medias
  <2>1. offer[k] \in Nat
    BY DEF Lines
  <2> QED
    BY <1>1, <2>1 DEF HandlersRequired
<1> QED
  BY <1>2, <1>3, <1>4

(* A description made of the handlers there are is within one set more. *)
LEMMA WithinOneSet ==
  ASSUME TypeOK, failed' = failed, \A k \in Kind : localSdp'[k] <= Spare + Medias
  PROVE  WithinMedias'
<1>1. (failed' + 1) * Medias = Spare + Medias
  BY SpareGrows
<1> QED
  BY <1>1 DEF WithinMedias

(* What is within the bound stays so when one more handler fails. *)
LEMMA OneMoreFailure ==
  ASSUME TypeOK, HandlersBounded, failed' = failed + 1, localSdp' = localSdp
  PROVE  WithinMedias'
<1>1. failed \in Nat /\ Medias \in Nat
  BY EndpointAssumption DEF TypeOK
<1>2. (failed' + 1) * Medias = (failed + 1) * Medias + Medias
  BY <1>1
<1>3. (failed + 1) * Medias \in Nat
  BY <1>1
<1>4. \A k \in Kind : localSdp[k] \in Int /\ localSdp[k] <= (failed + 1) * Medias
  BY DEF TypeOK, Lines, NoSdp, HandlersBounded, WithinMedias
<1> HIDE DEF WithinMedias
<1>5. \A k \in Kind : localSdp[k] <= (failed + 1) * Medias + Medias
  BY <1>1, <1>3, <1>4
<1> QED
  BY <1>2, <1>5 DEF WithinMedias

(* Every step keeps the numbers of handlers and of lines within their bounds. *)
LEMMA BoundedStep ==
  ASSUME IInv, HandlersBounded, [Next]_vars
  PROVE  HandlersBounded'
<1>1. TypeOK /\ Spare \in Nat /\ Medias \in Nat /\ failed \in Nat
  BY SpareGrows DEF IInv, TypeOK
<1>2. ASSUME UNCHANGED <<numMedias, element, failed>>
      PROVE  HandlersBounded'
  BY <1>2 DEF HandlersBounded, WithinMedias, Spare, element
<1>3. CASE UNCHANGED vars
  BY <1>2, <1>3 DEF vars
<1>4. ASSUME NEW t \in Threads, NEW without \in SUBSET Kind, GenerateOffer(t, without)
      PROVE  HandlersBounded'
  <2>1. UNCHANGED <<element, failed>>
    BY <1>4 DEF GenerateOffer
  <2>2. \A k \in Kind : numMedias'[k] = numMedias[k] \/ numMedias'[k] = 0
    BY <1>4 DEF GenerateOffer
  <2>3. \A k \in Kind : numMedias'[k] <= Medias
    BY <1>1, <2>2 DEF HandlersBounded
  <2> QED
    BY <2>1, <2>3 DEF HandlersBounded, WithinMedias, Spare, element
<1>5. ASSUME NEW t \in Threads, EmitGenerateOffer(t)
      PROVE  HandlersBounded'
  <2>1. agent \in {"unnegotiated", "remote_offer"}
    BY <1>5 DEF EmitGenerateOffer, IInv, FlagsRight
  <2>2. /\ localSdp' = HandlersAdded /\ agent' = "wait_nego"
        /\ numMedias' = numMedias /\ failed' = failed
    BY <1>5 DEF EmitGenerateOffer
  <2>3. \A k \in Kind : localSdp'[k] <= Spare + Medias
    BY <1>1, <2>1, <2>2, OneSetMore
  <2>4. WithinMedias'
    BY <1>1, <2>2, <2>3, WithinOneSet
  <2> QED
    BY <2>2, <2>4 DEF HandlersBounded
<1>6. ASSUME NEW t \in Threads, EmitGenerateOfferFails(t)
      PROVE  HandlersBounded'
  <2>1. agent \in {"unnegotiated", "remote_offer"}
    BY <1>6 DEF EmitGenerateOfferFails, IInv, FlagsRight
  <2>2. UNCHANGED <<numMedias, agent, localSdp>>
    BY <1>6 DEF EmitGenerateOfferFails
  <2>3. CASE agent \in {"unnegotiated", "negotiated"}
    <3>1. failed' = failed + 1
      BY <1>6, <2>3 DEF EmitGenerateOfferFails
    <3>2. \/ handlers' = HandlersAdded
          \/ \E i \in DOMAIN Kinds : \E n \in 0..(numMedias[Kinds[i]] - 1) :
               handlers' = HandlersUpTo(i, n)
      BY <1>6, <2>3 DEF EmitGenerateOfferFails
    <3>3. \A k \in Kind : handlers'[k] <= Spare + Medias
      BY <1>1, <2>1, <3>2, OneSetMore
    <3>4. Spare' = Spare + Medias
      BY <1>1, <3>1, SpareGrows
    <3>5. WithinMedias'
      BY <1>1, <2>2, <3>1, OneMoreFailure
    <3> QED
      BY <2>2, <3>3, <3>4, <3>5 DEF HandlersBounded
  <2>4. CASE agent \notin {"unnegotiated", "negotiated"}
    <3>1. UNCHANGED <<handlers, failed>>
      BY <1>6, <2>4 DEF EmitGenerateOfferFails
    <3> QED
      BY <2>2, <3>1 DEF HandlersBounded, WithinMedias, Spare
  <2> QED
    BY <2>3, <2>4
<1>7. ASSUME NEW t \in Threads, NEW offer \in PeerOffers, EmitProcessOffer(t, offer)
      PROVE  HandlersBounded'
  <2>1. agent \in {"unnegotiated", "remote_offer"}
    BY <1>7 DEF EmitProcessOffer, IInv, FlagsRight
  <2>2. offer \in Lines
    BY <1>1, LinesOf
  <2>3. /\ localSdp' \in Answers(offer) /\ agent' = "negotiated"
        /\ numMedias' = numMedias /\ failed' = failed
    BY <1>7 DEF EmitProcessOffer, Negotiated
  <2>4. ASSUME NEW k \in Kind
        PROVE  localSdp'[k] <= Spare + Medias
    <3>1. localSdp' \in Lines /\ HandlersRequired(offer) \in Lines
      BY <1>1, <2>2, <2>3, LinesOf
    <3>2. localSdp'[k] \in Nat /\ HandlersRequired(offer)[k] \in Nat
      BY <3>1 DEF Lines
    <3>3. localSdp'[k] <= HandlersRequired(offer)[k]
      BY <2>3 DEF Answers, Fits
    <3>4. HandlersRequired(offer)[k] <= Spare + Medias
      BY <1>1, <2>1, <2>2, OneSetMore
    <3> QED
      BY <1>1, <3>2, <3>3, <3>4
  <2>5. WithinMedias'
    BY <1>1, <2>3, <2>4, WithinOneSet
  <2> QED
    BY <2>3, <2>5 DEF HandlersBounded
<1>8. ASSUME NEW t \in Threads, NEW offer \in PeerOffers, EmitProcessOfferFails(t, offer)
      PROVE  HandlersBounded'
  <2>1. agent \in {"unnegotiated", "remote_offer"}
    BY <1>8 DEF EmitProcessOfferFails, IInv, FlagsRight
  <2>2. offer \in Lines /\ HandlersRequired(offer) \in Lines
    BY <1>1, LinesOf
  <2>3. UNCHANGED <<numMedias, localSdp>>
    BY <1>8 DEF EmitProcessOfferFails
  <2>4. CASE agent \in {"unnegotiated", "negotiated"}
    <3>1. failed' = failed + 1
      BY <1>8, <2>4 DEF EmitProcessOfferFails
    <3>2. /\ handlers' \in [Kind -> 0..(MaxLines + MaxOps * Medias)]
          /\ Fits(handlers', HandlersRequired(offer))
      BY <1>8, <2>4 DEF EmitProcessOfferFails
    <3>3. ASSUME NEW k \in Kind PROVE handlers'[k] <= Spare + Medias
      <4> DEFINE top == MaxLines + MaxOps * Medias
      <4> HIDE DEF top
      <4>1. handlers'[k] \in 0..top
        BY <3>2 DEF top
      <4>2. handlers'[k] \in Int /\ HandlersRequired(offer)[k] \in Nat
        BY <2>2, <4>1 DEF Lines
      <4>3. handlers'[k] <= HandlersRequired(offer)[k]
        BY <3>2 DEF Fits
      <4>4. HandlersRequired(offer)[k] <= Spare + Medias
        BY <1>1, <2>1, <2>2, OneSetMore
      <4> QED
        BY <1>1, <4>2, <4>3, <4>4
    <3>4. Spare' = Spare + Medias
      BY <1>1, <3>1, SpareGrows
    <3>5. WithinMedias'
      BY <1>1, <2>3, <3>1, OneMoreFailure
    <3> QED
      BY <2>3, <3>3, <3>4, <3>5 DEF HandlersBounded
  <2>5. CASE agent \notin {"unnegotiated", "negotiated"}
    <3>1. UNCHANGED <<agent, handlers, failed>>
      BY <1>8, <2>5 DEF EmitProcessOfferFails
    <3> QED
      BY <2>3, <3>1 DEF HandlersBounded, WithinMedias, Spare
  <2> QED
    BY <2>4, <2>5
<1>9. ASSUME NEW t \in Threads, NEW answer \in PeerAnswers, EmitProcessAnswer(t, answer)
      PROVE  HandlersBounded'
  <2>1. agent' = "negotiated" /\ UNCHANGED <<numMedias, localSdp, failed>>
    BY <1>9 DEF EmitProcessAnswer, Negotiated
  <2> QED
    BY <2>1 DEF HandlersBounded, WithinMedias
<1>10. ASSUME NEW t \in Threads,
              \/ OfferGenerated(t) \/ OfferNotGenerated(t) \/ ProcessOffer(t) \/ OfferProcessed(t)
              \/ OfferNotProcessed(t) \/ ProcessAnswer(t) \/ AnswerProcessed(t)
       PROVE  HandlersBounded'
  <2>1. UNCHANGED <<numMedias, element, failed>>
    BY <1>10 DEF OfferGenerated, OfferNotGenerated, ProcessOffer, OfferProcessed, OfferNotProcessed,
       ProcessAnswer, AnswerProcessed
  <2> QED
    BY <1>2, <2>1
<1> QED
  BY <1>3, <1>4, <1>5, <1>6, <1>7, <1>8, <1>9, <1>10 DEF Next

(* No description of the endpoint has more lines of a kind than num-audio-medias and
   num-video-medias allow, one set more for each failure of a media handler
   (init_sdp_handlers, on_handler_required), for any number of threads and requests. *)
THEOREM WithinMediasHolds == Spec => []WithinMedias
<1>1. Init => HandlersBounded
  <2> SUFFICES ASSUME Init PROVE HandlersBounded
    OBVIOUS
  <2>1. Medias \in Nat /\ Spare = 0 /\ (failed + 1) * Medias = Medias
    BY EndpointAssumption DEF Init, Spare
  <2>2. \A k \in Kind : numMedias[k] = Medias /\ handlers[k] = 0 /\ localSdp[k] = -1
    BY DEF Init, NoSdp
  <2> QED
    BY <2>1, <2>2 DEF HandlersBounded, WithinMedias
<1>2. IInv /\ HandlersBounded /\ [Next]_vars => HandlersBounded'
  BY BoundedStep
<1>3. HandlersBounded => WithinMedias
  BY DEF HandlersBounded
<1> QED
  BY <1>1, <1>2, <1>3, InvHolds, PTL DEF Spec

-----------------------------------------------------------------------------
(* The media handlers.                                                     *)

(* A set of natural numbers that is not empty has a least element. *)
LEMMA LeastNumber ==
  ASSUME NEW T \in SUBSET Nat, T # {}
  PROVE  \E x \in T : \A y \in T : x <= y
<1>1. \E x \in T : \A y \in T : ~(<<y, x>> \in OpToRel(<, Nat))
  BY NatLessThanWellFounded, WFMin, Zenon
<1>2. \E x \in T : \A y \in T : ~(y < x)
  BY <1>1 DEF OpToRel
<1> QED
  BY <1>2

(* Min finds it. *)
LEMMA MinIsLeast ==
  ASSUME NEW T \in SUBSET Nat, T # {}
  PROVE  Min(T) \in T /\ \A y \in T : Min(T) <= y
BY LeastNumber DEF Min

(* One turn of the loop of Kept. *)
KeepOne(v, x, S) == IF x \in S THEN Append(v, x) ELSE v
IsKept(f, s, S, k) == f = [n \in 0..k |-> IF n = 0 THEN <<>> ELSE KeepOne(f[n - 1], s[n], S)]
KeptUpTo(s, S) == CHOOSE f : IsKept(f, s, S, Len(s))

(* The loop has a result for a list of any length. *)
LEMMA KeptExists ==
  ASSUME NEW s, NEW S, NEW len \in Nat
  PROVE  \E f : IsKept(f, s, S, len)
<1> DEFINE Bad == {k \in Nat : ~\E f : IsKept(f, s, S, k)}
<1>1. ASSUME Bad # {}
      PROVE  FALSE
  <2>1. PICK k \in Bad : \A j \in Bad : k <= j
    BY <1>1, LeastNumber
  <2>2. k # 0
    <3>1. IsKept([n \in 0..0 |-> <<>>], s, S, 0)
      BY DEF IsKept
    <3> QED
      BY <3>1
  <2>3. k - 1 \in Nat /\ k - 1 \notin Bad
    BY <2>1, <2>2
  <2>4. PICK g : IsKept(g, s, S, k - 1)
    BY <2>3
  <2> DEFINE f == [n \in 0..k |-> IF n = k THEN KeepOne(g[k - 1], s[k], S) ELSE g[n]]
  <2>5. IsKept(f, s, S, k)
    <3>1. ASSUME NEW n \in 0..k
          PROVE  f[n] = IF n = 0 THEN <<>> ELSE KeepOne(f[n - 1], s[n], S)
      <4>1. CASE n = k
        <5>1. f[n] = KeepOne(g[k - 1], s[k], S)
          BY <4>1
        <5>2. n - 1 \in 0..k /\ n - 1 # k
          BY <2>2, <4>1
        <5>3. f[n - 1] = g[k - 1]
          BY <5>2, <4>1
        <5> HIDE DEF f
        <5> QED
          BY <5>1, <5>3, <2>2, <4>1
      <4>2. CASE n # k
        <5>1. f[n] = g[n] /\ n \in 0..(k - 1)
          BY <4>2
        <5>2. g[n] = IF n = 0 THEN <<>> ELSE KeepOne(g[n - 1], s[n], S)
          BY <2>4, <5>1 DEF IsKept
        <5>3. n # 0 => f[n - 1] = g[n - 1]
          BY <4>2
        <5> HIDE DEF f
        <5> QED
          BY <5>1, <5>2, <5>3
      <4> QED
        BY <4>1, <4>2
    <3>2. f = [n \in 0..k |-> f[n]]
      OBVIOUS
    <3> HIDE DEF f
    <3> QED
      BY <3>1, <3>2 DEF IsKept
  <2> HIDE DEF f
  <2> QED
    BY <2>5
<1> QED
  BY <1>1

(* Kept is where the loop ends. *)
LEMMA KeptIsLoop ==
  ASSUME NEW T, NEW s \in Seq(T), NEW S
  PROVE  /\ Kept(s, S) = KeptUpTo(s, S)[Len(s)]
         /\ KeptUpTo(s, S)[0] = <<>>
         /\ \A n \in 1..Len(s) : KeptUpTo(s, S)[n] = KeepOne(KeptUpTo(s, S)[n - 1], s[n], S)
<1>0. Len(s) \in Nat
  BY LenProperties
<1>1. Kept(s, S) = KeptUpTo(s, S)[Len(s)]
  BY DEF Kept, KeptUpTo, IsKept, KeepOne
<1>2. IsKept(KeptUpTo(s, S), s, S, Len(s))
  BY KeptExists, <1>0, Zenon DEF KeptUpTo
<1>3. \A n \in 0..Len(s) :
        KeptUpTo(s, S)[n] = IF n = 0 THEN <<>> ELSE KeepOne(KeptUpTo(s, S)[n - 1], s[n], S)
  BY <1>2, Zenon DEF IsKept
<1> QED
  BY <1>0, <1>1, <1>3

(* What is left of a list are the elements asked for, in the order of the list. *)
LEMMA KeptLeft ==
  ASSUME NEW T, NEW s \in Seq(T), NEW S
  PROVE  /\ Kept(s, S) \in Seq(T)
         /\ ToSet(Kept(s, S)) = ToSet(s) \cap S
         /\ \A i, j \in DOMAIN Kept(s, S) : i < j =>
              \E p, q \in DOMAIN s : p < q /\ s[p] = Kept(s, S)[i] /\ s[q] = Kept(s, S)[j]
<1> DEFINE f == KeptUpTo(s, S)
           Before(n) == {s[i] : i \in 1..n}
           Ordered(n) == \A i, j \in DOMAIN f[n] : i < j =>
                           \E p, q \in 1..n : p < q /\ s[p] = f[n][i] /\ s[q] = f[n][j]
           Right(n) == f[n] \in Seq(T) /\ ToSet(f[n]) = Before(n) \cap S /\ Ordered(n)
           Bad == {n \in 0..Len(s) : ~Right(n)}
<1>0. /\ Len(s) \in Nat /\ DOMAIN s = 1..Len(s)
      /\ \A n \in 1..Len(s) : s[n] \in T
  BY LenProperties, ElementOfSeq
<1>1. /\ Kept(s, S) = f[Len(s)] /\ f[0] = <<>>
      /\ \A n \in 1..Len(s) : f[n] = KeepOne(f[n - 1], s[n], S)
  BY KeptIsLoop
<1> HIDE DEF f
<1>2. Right(0)
  <2>1. <<>> \in Seq(T) /\ DOMAIN <<>> = {}
    BY EmptySeq
  <2>2. Before(0) = {}
    OBVIOUS
  <2> QED
    BY <1>1, <2>1, <2>2 DEF ToSet
<1>3. ASSUME NEW n \in 1..Len(s), Right(n - 1)
      PROVE  Right(n)
  <2>1. n - 1 \in 0..Len(s) /\ s[n] \in T /\ n \in Nat
    BY <1>0
  <2>2. Before(n) = Before(n - 1) \cup {s[n]}
    <3>1. 1..n = 1..(n - 1) \cup {n}
      BY <1>0
    <3> QED
      BY <3>1
  <2>3. CASE s[n] \in S
    <3> DEFINE v == f[n - 1]
    <3>0. v \in Seq(T) /\ Len(v) \in Nat /\ DOMAIN v = 1..Len(v)
      BY <1>3, LenProperties
    <3>1. f[n] = Append(v, s[n])
      BY <1>1, <2>3 DEF KeepOne
    <3>2. /\ f[n] \in Seq(T) /\ DOMAIN f[n] = 1..(Len(v) + 1)
          /\ \A i \in 1..Len(v) : f[n][i] = v[i]
          /\ f[n][Len(v) + 1] = s[n]
      BY <3>0, <3>1, <2>1, AppendProperties, LenProperties
    <3>3. ToSet(v) = Before(n - 1) \cap S
      BY <1>3
    <3>4. Ordered(n - 1)
      BY <1>3
    <3> HIDE DEF v
    <3>5. ToSet(f[n]) = ToSet(v) \cup {s[n]}
      <4>1. ASSUME NEW y \in ToSet(f[n])
            PROVE  y \in ToSet(v) \cup {s[n]}
        BY <3>0, <3>2 DEF ToSet
      <4>2. ASSUME NEW y \in ToSet(v)
            PROVE  y \in ToSet(f[n])
        <5>1. PICK i \in 1..Len(v) : y = v[i]
          BY <3>0 DEF ToSet
        <5>2. i \in DOMAIN f[n] /\ f[n][i] = y
          BY <5>1, <3>0, <3>2
        <5> QED
          BY <5>2 DEF ToSet
      <4>3. s[n] \in ToSet(f[n])
        <5>1. Len(v) + 1 \in DOMAIN f[n]
          BY <3>0, <3>2
        <5> QED
          BY <5>1, <3>2 DEF ToSet
      <4> QED
        BY <4>1, <4>2, <4>3
    <3>6. ASSUME NEW i \in DOMAIN f[n], NEW j \in DOMAIN f[n], i < j
          PROVE  \E p, q \in 1..n : p < q /\ s[p] = f[n][i] /\ s[q] = f[n][j]
      <4>1. i \in 1..Len(v) /\ f[n][i] = v[i]
        BY <3>6, <3>0, <3>2
      <4>2. CASE j \in 1..Len(v)
        <5>1. PICK p \in 1..(n - 1), q \in 1..(n - 1) : p < q /\ s[p] = v[i] /\ s[q] = v[j]
          BY <4>1, <4>2, <3>0, <3>4, <3>6 DEF v
        <5>2. p \in 1..n /\ q \in 1..n
          BY <2>1
        <5> QED
          BY <4>1, <4>2, <5>1, <5>2, <3>2
      <4>3. CASE j = Len(v) + 1
        <5>1. v[i] \in Before(n - 1)
          <6>1. v[i] \in ToSet(v)
            BY <4>1, <3>0 DEF ToSet
          <6> QED
            BY <6>1, <3>3
        <5>2. PICK p \in 1..(n - 1) : s[p] = v[i]
          BY <5>1
        <5>3. p \in 1..n /\ n \in 1..n /\ p < n
          BY <2>1
        <5> QED
          BY <4>1, <4>3, <5>2, <5>3, <3>2
      <4> QED
        BY <4>2, <4>3, <3>0, <3>2
    <3>7. (Before(n - 1) \cap S) \cup {s[n]} = Before(n) \cap S
      BY <2>2, <2>3
    <3> QED
      BY <3>2, <3>3, <3>5, <3>6, <3>7
  <2>4. CASE s[n] \notin S
    <3>1. f[n] = f[n - 1]
      BY <1>1, <2>4 DEF KeepOne
    <3>2. Before(n) \cap S = Before(n - 1) \cap S
      BY <2>2, <2>4
    <3>3. Ordered(n)
      <4>1. 1..(n - 1) \subseteq 1..n
        BY <2>1
      <4>2. ASSUME NEW i \in DOMAIN f[n], NEW j \in DOMAIN f[n], i < j
            PROVE  \E p, q \in 1..n : p < q /\ s[p] = f[n][i] /\ s[q] = f[n][j]
        <5>1. i \in DOMAIN f[n - 1] /\ j \in DOMAIN f[n - 1]
          BY <3>1
        <5>2. PICK p \in 1..(n - 1), q \in 1..(n - 1) :
                p < q /\ s[p] = f[n - 1][i] /\ s[q] = f[n - 1][j]
          BY <5>1, <4>2, <1>3
        <5> QED
          BY <5>2, <4>1, <3>1
      <4> QED
        BY <4>2
    <3> QED
      BY <3>1, <3>2, <3>3, <1>3
  <2> QED
    BY <2>3, <2>4
<1>4. Before(Len(s)) = ToSet(s)
  BY <1>0 DEF ToSet
<1>5. Right(Len(s))
  <2> HIDE DEF Right
  <2>1. ASSUME Bad # {}
        PROVE  FALSE
    <3>1. Bad \in SUBSET Nat
      BY <1>0
    <3>2. PICK k \in Bad : \A j \in Bad : k <= j
      BY <2>1, <3>1, LeastNumber
    <3>3. k \in 1..Len(s)
      BY <1>0, <1>2
    <3>4. k - 1 \in 0..Len(s) /\ k - 1 \notin Bad
      BY <1>0, <3>2, <3>3
    <3> QED
      BY <1>3, <3>3, <3>4
  <2>2. Len(s) \in 0..Len(s)
    BY <1>0
  <2> QED
    BY <2>1, <2>2
<1>6. f[Len(s)] \in Seq(T) /\ ToSet(f[Len(s)]) = Before(Len(s)) \cap S /\ Ordered(Len(s))
  BY <1>5
<1>7. Kept(s, S) \in Seq(T) /\ ToSet(Kept(s, S)) = ToSet(s) \cap S
  <2> HIDE DEF Before, Ordered
  <2> QED
    BY <1>1, <1>4, <1>6
<1>8. ASSUME NEW i \in DOMAIN Kept(s, S), NEW j \in DOMAIN Kept(s, S), i < j
      PROVE  \E p, q \in DOMAIN s : p < q /\ s[p] = Kept(s, S)[i] /\ s[q] = Kept(s, S)[j]
  <2>1. i \in DOMAIN f[Len(s)] /\ j \in DOMAIN f[Len(s)]
    BY <1>1
  <2>2. \E p, q \in 1..Len(s) : p < q /\ s[p] = f[Len(s)][i] /\ s[q] = f[Len(s)][j]
    BY <1>6, <1>8, <2>1
  <2> QED
    BY <1>0, <1>1, <2>2
<1> QED
  BY <1>7, <1>8

(* When the elements asked for are the first ones, they keep their places. *)
LEMMA KeptFirst ==
  ASSUME NEW T, NEW s \in Seq(T), NEW S, NEW k \in 0..Len(s),
         \A i \in 1..Len(s) : s[i] \in S <=> i <= k
  PROVE  Len(Kept(s, S)) = k /\ \A i \in 1..k : Kept(s, S)[i] = s[i]
<1> DEFINE f == KeptUpTo(s, S)
           Size(n) == IF n <= k THEN n ELSE k
           Right(n) == /\ f[n] \in Seq(T) /\ Len(f[n]) = Size(n)
                       /\ \A i \in 1..Size(n) : f[n][i] = s[i]
           Bad == {n \in 0..Len(s) : ~Right(n)}
<1>0. /\ Len(s) \in Nat /\ DOMAIN s = 1..Len(s) /\ k \in Nat /\ k <= Len(s)
      /\ \A n \in 1..Len(s) : s[n] \in T
  BY LenProperties, ElementOfSeq
<1>1. /\ Kept(s, S) = f[Len(s)] /\ f[0] = <<>>
      /\ \A n \in 1..Len(s) : f[n] = KeepOne(f[n - 1], s[n], S)
  BY KeptIsLoop
<1> HIDE DEF f
<1>2. Right(0)
  BY <1>0, <1>1, EmptySeq
<1>3. ASSUME NEW n \in 1..Len(s), Right(n - 1)
      PROVE  Right(n)
  <2>1. n - 1 \in 0..Len(s) /\ s[n] \in T /\ n \in Nat
    BY <1>0
  <2>2. CASE n <= k
    <3> DEFINE v == f[n - 1]
    <3>1. v \in Seq(T) /\ Len(v) = n - 1 /\ \A i \in 1..(n - 1) : v[i] = s[i]
      BY <1>0, <1>3, <2>1, <2>2
    <3>2. f[n] = Append(v, s[n])
      BY <1>1, <2>2 DEF KeepOne
    <3> HIDE DEF v
    <3>3. /\ f[n] \in Seq(T) /\ Len(f[n]) = n
          /\ \A i \in 1..(n - 1) : f[n][i] = v[i]
          /\ f[n][n] = s[n]
      BY <3>1, <3>2, <2>1, AppendProperties
    <3> QED
      BY <3>1, <3>3, <2>1, <2>2
  <2>3. CASE ~(n <= k)
    <3>1. f[n] = f[n - 1]
      BY <1>1, <2>3 DEF KeepOne
    <3>2. Size(n) = Size(n - 1)
      BY <1>0, <2>1, <2>3
    <3> QED
      BY <3>1, <3>2, <1>3
  <2> QED
    BY <2>2, <2>3
<1>4. Size(Len(s)) = k
  <2>0. Len(s) \in Int /\ k \in Int /\ k <= Len(s)
    BY <1>0
  <2>1. ASSUME Len(s) <= k
        PROVE  Len(s) = k
    BY <2>0, <2>1
  <2>2. CASE Len(s) <= k
    BY <2>1, <2>2
  <2>3. CASE ~(Len(s) <= k)
    BY <2>3
  <2> QED
    BY <2>2, <2>3
<1>5. Right(Len(s))
  <2> HIDE DEF Right
  <2>1. ASSUME Bad # {}
        PROVE  FALSE
    <3>1. Bad \in SUBSET Nat
      BY <1>0
    <3>2. PICK j \in Bad : \A i \in Bad : j <= i
      BY <2>1, <3>1, LeastNumber
    <3>3. j \in 1..Len(s)
      BY <1>0, <1>2
    <3>4. j - 1 \in 0..Len(s) /\ j - 1 \notin Bad
      BY <1>0, <3>2, <3>3
    <3> QED
      BY <1>3, <3>3, <3>4
  <2>2. Len(s) \in 0..Len(s)
    BY <1>0
  <2> QED
    BY <2>1, <2>2
<1> QED
  BY <1>1, <1>4, <1>5

-----------------------------------------------------------------------------
(* Numbers given to codecs.                                                *)

Tables == [Dynamic -> Codec \cup {NONE}]
Managers == [pt : Int, counter : Nat, codecs : Tables]
Formats == {f \in [payload : Payloads, name : Codec, fmtp : BOOLEAN] :
              f.payload \in Dynamic \/ f.payload = StaticPayload[f.name]}
FormatLists == [MediaKinds -> Seq(Formats)]

(* Nothing of the table t is lost in u. *)
Extends(t, u) == \A pt \in Dynamic : t[pt] # NONE => u[pt] = t[pt]

(* No number is twice in a list of formats. *)
OneNumberEach(fs) == \A i, j \in DOMAIN fs : fs[i].payload = fs[j].payload => i = j

(* The dynamic numbers in a list are those of the table, or behind the counter of a manager
   that does not share them. *)
GivenOut(fs, pm, share) ==
  \A i \in DOMAIN fs : fs[i].payload \in Dynamic =>
    IF share THEN pm.codecs[fs[i].payload] = fs[i].name ELSE fs[i].payload < pm.counter

(* The formats of a handler in the making, and the manager. *)
Numbered(h, share) ==
  /\ h \in [fmts : FormatLists, pm : Managers] /\ h.pm.counter >= MIN_DYNAMIC_PAYLOAD
  /\ \A k \in MediaKinds : OneNumberEach(h.fmts[k]) /\ GivenOut(h.fmts[k], h.pm, share)

(* The numbers of rfc3551 are not dynamic ones. *)
LEMMA NumberRanges ==
  /\ MIN_DYNAMIC_PAYLOAD \in Nat /\ MAX_DYNAMIC_PAYLOAD \in Nat
  /\ Dynamic \subseteq Nat /\ Dynamic \subseteq Payloads /\ Payloads \subseteq Nat
  /\ \A pt \in Dynamic : ~IsStatic(pt) /\ pt >= MIN_DYNAMIC_PAYLOAD /\ pt <= MAX_DYNAMIC_PAYLOAD
  /\ \A c \in Codec : StaticPayload[c] \in Int /\ StaticPayload[c] \notin Dynamic
  /\ \A c \in Codec : StaticPayload[c] >= 0 => IsStatic(StaticPayload[c]) /\ StaticPayload[c] \in Payloads
<1>1. /\ MIN_DYNAMIC_PAYLOAD \in Nat /\ MAX_DYNAMIC_PAYLOAD \in Nat
      /\ 34 < MIN_DYNAMIC_PAYLOAD /\ MIN_DYNAMIC_PAYLOAD <= MAX_DYNAMIC_PAYLOAD
  BY MediaAssumption DEF LastStatic
<1>2. \A c \in Codec : StaticPayload[c] \in 0..34 \/ StaticPayload[c] = -1
  BY MediaAssumption DEF LastStatic
<1>3. \A pt \in Dynamic : pt \in Nat /\ pt >= MIN_DYNAMIC_PAYLOAD /\ pt <= MAX_DYNAMIC_PAYLOAD
  BY <1>1 DEF Dynamic
<1>4. \A pt \in Dynamic : ~IsStatic(pt) /\ pt \in Payloads
  BY <1>1, <1>3 DEF IsStatic, LastStatic, Payloads
<1>5. \A c \in Codec : StaticPayload[c] \in Int /\ StaticPayload[c] \notin Dynamic
  BY <1>1, <1>2, <1>3
<1>6. ASSUME NEW c \in Codec, StaticPayload[c] >= 0
      PROVE  IsStatic(StaticPayload[c]) /\ StaticPayload[c] \in Payloads
  <2>1. StaticPayload[c] \in 0..34
    BY <1>2, <1>6
  <2> QED
    BY <2>1, <1>1 DEF IsStatic, LastStatic, Payloads
<1>7. Payloads \subseteq Nat
  BY <1>1 DEF Payloads
<1> QED
  BY <1>1, <1>3, <1>4, <1>5, <1>6, <1>7

(* A codec registered for a number without one, and that has none, is added to the table. *)
LEMMA RegisterAdds ==
  ASSUME NEW t \in Tables, NEW pt \in Dynamic, NEW c \in Codec, t[pt] = NONE,
         \A i \in Dynamic : t[i] # c
  PROVE  Register(t, pt, c) \in Tables /\ Register(t, pt, c)[pt] = c /\ Extends(t, Register(t, pt, c))
<1>1. c # NONE
  BY MediaAssumption
<1>2. \A i \in Dynamic : Register(t, pt, c)[i] = IF i = pt THEN c ELSE t[i]
  BY DEF Register
<1>3. Register(t, pt, c) \in Tables
  BY DEF Register, Tables
<1> QED
  BY <1>2, <1>3 DEF Extends

(* get_dynamic_pt: the number is new, or the one the table has for the codec. *)
LEMMA NumberGiven ==
  ASSUME NEW pm \in Managers, pm.counter >= MIN_DYNAMIC_PAYLOAD, NEW share \in BOOLEAN,
         NEW c \in Codec
  PROVE  LET r == get_dynamic_pt(pm, share, c)
         IN  /\ r \in Managers /\ r.counter >= pm.counter
             /\ Extends(pm.codecs, r.codecs)
             /\ r.pt = -1 \/ r.pt \in Dynamic
             /\ r.pt # -1 => IF share THEN r.codecs[r.pt] = c
                                      ELSE r.pt >= pm.counter /\ r.pt < r.counter
<1> DEFINE r == get_dynamic_pt(pm, share, c)
           has == {i \in Dynamic : pm.codecs[i] = c}
           free == {i \in pm.counter .. MAX_DYNAMIC_PAYLOAD : pm.codecs[i] = NONE}
<1>0. /\ pm.pt \in Int /\ pm.counter \in Nat /\ pm.codecs \in Tables
      /\ pm = [pt |-> pm.pt, counter |-> pm.counter, codecs |-> pm.codecs]
  BY DEF Managers
<1>1. MAX_DYNAMIC_PAYLOAD \in Nat /\ MIN_DYNAMIC_PAYLOAD \in Nat /\ Dynamic \subseteq Nat
  BY NumberRanges
<1>2. Extends(pm.codecs, pm.codecs)
  BY DEF Extends
<1>3. free \subseteq Dynamic /\ free \in SUBSET Nat
  BY <1>0, <1>1 DEF Dynamic
<1>4. has \in SUBSET Nat /\ has \subseteq Dynamic
  BY <1>1
<1>5. CASE ~share
  <2> DEFINE n == get_next_int(pm.counter)
  <2>1. r = [pt |-> n, counter |-> pm.counter + 1, codecs |-> pm.codecs]
    BY <1>5, <1>0 DEF get_dynamic_pt
  <2>2. n = -1 \/ (n \in Dynamic /\ n = pm.counter)
    <3>1. CASE pm.counter <= MAX_DYNAMIC_PAYLOAD
      <4>1. n = pm.counter
        BY <3>1 DEF get_next_int
      <4>2. pm.counter \in Dynamic
        BY <1>0, <1>1, <3>1 DEF Dynamic
      <4> HIDE DEF n
      <4> QED
        BY <4>1, <4>2
    <3>2. CASE ~(pm.counter <= MAX_DYNAMIC_PAYLOAD)
      BY <3>2 DEF get_next_int
    <3> HIDE DEF n
    <3> QED
      BY <3>1, <3>2
  <2>3. n \in Int /\ pm.counter + 1 \in Nat
    BY <1>0, <1>1, <2>2
  <2> HIDE DEF n, r
  <2>4. r \in Managers
    BY <2>1, <2>3, <1>0 DEF Managers
  <2>5. r.pt = n /\ r.counter = pm.counter + 1 /\ r.codecs = pm.codecs
    BY <2>1
  <2> QED
    BY <1>0, <1>2, <1>5, <2>2, <2>4, <2>5 DEF r
<1>6. CASE share /\ has # {}
  <2> DEFINE x == Min(has)
  <2>1. x \in has
    BY <1>4, <1>6, MinIsLeast
  <2>2. r = [pt |-> x, counter |-> pm.counter, codecs |-> pm.codecs]
    BY <1>6, <1>0 DEF get_dynamic_pt
  <2> HIDE DEF r, x
  <2>3. x \in Dynamic /\ pm.codecs[x] = c /\ x \in Int
    BY <2>1, <1>1
  <2> HIDE DEF has
  <2>4. r \in Managers
    BY <2>2, <2>3, <1>0 DEF Managers
  <2>5. r.pt = x /\ r.counter = pm.counter /\ r.codecs = pm.codecs
    BY <2>2
  <2>6. share /\ r.codecs[r.pt] = c /\ r.pt \in Dynamic
    BY <1>6, <2>3, <2>5
  <2>7. r.counter >= pm.counter /\ Extends(pm.codecs, r.codecs)
    BY <1>0, <1>2, <2>5
  <2> QED
    BY <2>4, <2>6, <2>7 DEF r
<1>7. CASE share /\ has = {} /\ free # {}
  <2> DEFINE x == Min(free)
             t == Register(pm.codecs, x, c)
  <2>1. x \in free
    BY <1>3, <1>7, MinIsLeast
  <2>2. r = [pt |-> x, counter |-> x + 1, codecs |-> t]
    BY <1>7 DEF get_dynamic_pt
  <2> HIDE DEF r, x
  <2>3. x \in Dynamic /\ pm.codecs[x] = NONE /\ x \in Nat /\ x >= pm.counter
    BY <2>1, <1>3, <1>0, <1>1
  <2>4. \A i \in Dynamic : pm.codecs[i] # c
    BY <1>7
  <2> HIDE DEF has, free
  <2>5. t \in Tables /\ t[x] = c /\ Extends(pm.codecs, t)
    BY <2>3, <2>4, <1>0, RegisterAdds
  <2> HIDE DEF t
  <2>6. r \in Managers
    BY <2>2, <2>3, <2>5 DEF Managers
  <2>7. r.pt = x /\ r.counter = x + 1 /\ r.codecs = t
    BY <2>2
  <2>8. share /\ r.codecs[r.pt] = c /\ r.pt \in Dynamic /\ r.counter >= pm.counter
    BY <1>7, <1>0, <2>3, <2>5, <2>7
  <2> QED
    BY <2>5, <2>6, <2>7, <2>8 DEF r
<1>8. CASE share /\ has = {} /\ free = {}
  <2> DEFINE top == MAX_DYNAMIC_PAYLOAD + 1
             m == Max({pm.counter, top})
  <2>1. m \in {pm.counter, top} /\ \A y \in {pm.counter, top} : m >= y
    <3>1. \E x \in {pm.counter, top} : \A y \in {pm.counter, top} : x >= y
      BY <1>0, <1>1
    <3> QED
      BY <3>1 DEF Max
  <2>2. r = [pt |-> -1, counter |-> m + 1, codecs |-> pm.codecs]
    BY <1>8, <1>0 DEF get_dynamic_pt
  <2>3. m \in Nat /\ m >= pm.counter /\ m + 1 \in Nat
    BY <2>1, <1>0, <1>1
  <2> HIDE DEF r, m, has, free
  <2>4. r \in Managers
    BY <2>2, <2>3, <1>0 DEF Managers
  <2>5. r.pt = -1 /\ r.counter = m + 1 /\ r.codecs = pm.codecs
    BY <2>2
  <2> QED
    BY <1>0, <1>2, <2>3, <2>4, <2>5 DEF r
<1> QED
  BY <1>5, <1>6, <1>7, <1>8

(* Formats that were given numbers keep them when the manager goes on. *)
LEMMA StillGivenOut ==
  ASSUME NEW fs \in Seq(Formats), NEW pm \in Managers, NEW r \in Managers, NEW share \in BOOLEAN,
         GivenOut(fs, pm, share), r.counter >= pm.counter, Extends(pm.codecs, r.codecs)
  PROVE  GivenOut(fs, r, share)
<1> SUFFICES ASSUME NEW i \in DOMAIN fs, fs[i].payload \in Dynamic
             PROVE  IF share THEN r.codecs[fs[i].payload] = fs[i].name
                             ELSE fs[i].payload < r.counter
  BY DEF GivenOut
<1>1. fs[i] \in Formats
  BY LenProperties, ElementOfSeq
<1>2. fs[i].name \in Codec /\ fs[i].payload \in Nat
  BY <1>1, NumberRanges DEF Formats
<1>3. fs[i].name # NONE
  BY <1>2, MediaAssumption
<1>4. pm.counter \in Nat /\ r.counter \in Nat
  BY DEF Managers
<1>5. CASE share
  <2>1. pm.codecs[fs[i].payload] = fs[i].name
    BY <1>5 DEF GivenOut
  <2> QED
    BY <1>3, <1>5, <2>1 DEF Extends
<1>6. CASE ~share
  <2>1. fs[i].payload < pm.counter
    BY <1>6 DEF GivenOut
  <2> QED
    BY <1>2, <1>4, <1>6, <2>1
<1> QED
  BY <1>5, <1>6

(* add_codec: the formats of a handler keep different numbers. *)
LEMMA CodecAdded ==
  ASSUME NEW h, NEW share \in BOOLEAN, Numbered(h, share), NEW kind \in MediaKinds, NEW c \in Codec
  PROVE  LET g == add_codec(h, share, kind, c)
         IN  Numbered(g, share) /\ Extends(h.pm.codecs, g.pm.codecs)
<1> DEFINE fs == h.fmts[kind]
           used == \E i \in DOMAIN fs : fs[i].name = c
           st == StaticPayload[c]
           pm == IF st >= 0 THEN [h.pm EXCEPT !.pt = st] ELSE get_dynamic_pt(h.pm, share, c)
           fmt == [payload |-> pm.pt, name |-> c, fmtp |-> c = "H264"]
           g == add_codec(h, share, kind, c)
<1>0. /\ h.fmts \in FormatLists /\ h.pm \in Managers /\ h = [fmts |-> h.fmts, pm |-> h.pm]
      /\ h.pm.counter >= MIN_DYNAMIC_PAYLOAD
      /\ \A k \in MediaKinds : OneNumberEach(h.fmts[k]) /\ GivenOut(h.fmts[k], h.pm, share)
  BY DEF Numbered
<1>1. /\ h.pm.pt \in Int /\ h.pm.counter \in Nat /\ h.pm.codecs \in Tables
      /\ h.pm = [pt |-> h.pm.pt, counter |-> h.pm.counter, codecs |-> h.pm.codecs]
  BY <1>0 DEF Managers
<1>2. MIN_DYNAMIC_PAYLOAD \in Nat /\ st \in Int /\ st \notin Dynamic /\ Dynamic \subseteq Nat
  BY NumberRanges
<1>3. g = CASE used -> h
            [] ~used /\ pm.pt < 0 -> [h EXCEPT !.pm = pm]
            [] OTHER -> [fmts |-> [h.fmts EXCEPT ![kind] = Append(@, fmt)], pm |-> pm]
  BY DEF add_codec, get_static_payload_for_codec_name
<1>4. /\ pm \in Managers /\ pm.counter >= h.pm.counter /\ Extends(h.pm.codecs, pm.codecs)
      /\ pm.pt >= 0 => pm.pt = st \/ pm.pt \in Dynamic
      /\ pm.pt \in Dynamic => IF share THEN pm.codecs[pm.pt] = c
                              ELSE pm.pt >= h.pm.counter /\ pm.pt < pm.counter
  <2>1. CASE st >= 0
    <3>1. pm = [pt |-> st, counter |-> h.pm.counter, codecs |-> h.pm.codecs]
      BY <2>1, <1>1
    <3> HIDE DEF pm
    <3>2. pm.pt = st /\ pm.counter = h.pm.counter /\ pm.codecs = h.pm.codecs
      BY <3>1
    <3>3. pm \in Managers
      BY <3>1, <1>1, <1>2 DEF Managers
    <3>4. Extends(h.pm.codecs, pm.codecs) /\ pm.counter >= h.pm.counter
      BY <3>2, <1>1 DEF Extends
    <3> QED
      BY <3>2, <3>3, <3>4, <1>2
  <2>2. CASE ~(st >= 0)
    <3>1. pm = get_dynamic_pt(h.pm, share, c)
      BY <2>2
    <3>2. /\ pm \in Managers /\ pm.counter >= h.pm.counter
          /\ Extends(h.pm.codecs, pm.codecs)
          /\ pm.pt = -1 \/ pm.pt \in Dynamic
          /\ pm.pt # -1 => IF share THEN pm.codecs[pm.pt] = c
                                    ELSE pm.pt >= h.pm.counter /\ pm.pt < pm.counter
      <4> HIDE DEF pm
      <4> QED
        BY <3>1, <1>0, NumberGiven
    <3> HIDE DEF pm
    <3>3. pm.pt \in Dynamic => pm.pt # -1
      BY <1>2
    <3> QED
      BY <3>2, <3>3
  <2> QED
    BY <2>1, <2>2
<1> HIDE DEF pm
<1>5. pm.pt \in Int /\ pm.counter \in Nat /\ pm.counter >= MIN_DYNAMIC_PAYLOAD /\ pm.codecs \in Tables
  BY <1>0, <1>1, <1>2, <1>4 DEF Managers
<1>6. \A k \in MediaKinds : h.fmts[k] \in Seq(Formats) /\ GivenOut(h.fmts[k], pm, share)
  BY <1>0, <1>4, StillGivenOut DEF FormatLists
<1>7. CASE used
  <2>1. g = h
    BY <1>3, <1>7
  <2> QED
    BY <2>1 DEF Extends
<1>8. CASE ~used /\ pm.pt < 0
  <2>1. g = [fmts |-> h.fmts, pm |-> pm]
    BY <1>3, <1>8, <1>0
  <2> HIDE DEF g
  <2>2. g.fmts = h.fmts /\ g.pm = pm /\ g \in [fmts : FormatLists, pm : Managers]
    BY <2>1, <1>0, <1>4
  <2>3. Numbered(g, share)
    BY <2>2, <1>0, <1>5, <1>6 DEF Numbered
  <2> QED
    BY <2>2, <2>3, <1>4 DEF g
<1>9. CASE ~used /\ ~(pm.pt < 0)
  <2> DEFINE new == Append(fs, fmt)
  <2>1. g = [fmts |-> [h.fmts EXCEPT ![kind] = new], pm |-> pm]
    BY <1>3, <1>9
  <2>2. pm.pt \in Payloads /\ (pm.pt = st \/ pm.pt \in Dynamic)
    BY <1>4, <1>5, <1>9, NumberRanges
  <2>3. fmt \in Formats /\ fmt.payload = pm.pt /\ fmt.name = c
    BY <2>2 DEF Formats
  <2>4. fs \in Seq(Formats) /\ Len(fs) \in Nat /\ DOMAIN fs = 1..Len(fs)
    BY <1>6, LenProperties
  <2> HIDE DEF g, fmt
  <2>5. /\ new \in Seq(Formats) /\ DOMAIN new = 1..(Len(fs) + 1)
        /\ \A i \in 1..Len(fs) : new[i] = fs[i]
        /\ new[Len(fs) + 1] = fmt
    BY <2>3, <2>4, AppendProperties, LenProperties
  <2> HIDE DEF new
  <2>6. ASSUME NEW i \in 1..Len(fs)
        PROVE  fs[i].payload # pm.pt
    <3>1. fs[i] \in Formats /\ fs[i].name # c
      BY <2>4, <1>9, ElementOfSeq
    <3>2. fs[i].name \in Codec /\ fs[i].payload \in Nat
          /\ (fs[i].payload \in Dynamic \/ fs[i].payload = StaticPayload[fs[i].name])
      BY <3>1, NumberRanges DEF Formats
    <3>3. CASE pm.pt \in Dynamic
      <4>1. fs[i].payload = pm.pt =>
              IF share THEN pm.codecs[pm.pt] = fs[i].name /\ pm.codecs[pm.pt] = c
              ELSE fs[i].payload < h.pm.counter /\ pm.pt >= h.pm.counter
        BY <3>3, <1>0, <1>4, <1>6, <2>4 DEF GivenOut
      <4> QED
        BY <4>1, <3>1, <3>2, <1>1, <1>5
    <3>4. CASE pm.pt \notin Dynamic
      <4>1. pm.pt = st /\ st # -1
        BY <3>4, <2>2, <1>9, <1>5
      <4>2. fs[i].payload = pm.pt => StaticPayload[fs[i].name] = StaticPayload[c]
        BY <4>1, <3>2, <3>4
      <4> QED
        BY <4>1, <4>2, <3>1, <3>2, MediaAssumption
    <3> QED
      BY <3>3, <3>4
  <2>7. OneNumberEach(new)
    <3> SUFFICES ASSUME NEW i \in DOMAIN new, NEW j \in DOMAIN new, new[i].payload = new[j].payload
                 PROVE  i = j
      BY DEF OneNumberEach
    <3>1. OneNumberEach(fs)
      BY <1>0
    <3>2. CASE i \in 1..Len(fs) /\ j \in 1..Len(fs)
      BY <3>1, <3>2, <2>4, <2>5 DEF OneNumberEach
    <3>3. CASE i = Len(fs) + 1 \/ j = Len(fs) + 1
      <4>1. ASSUME NEW k \in 1..Len(fs)
            PROVE  new[k].payload # new[Len(fs) + 1].payload
        BY <2>3, <2>5, <2>6
      <4> QED
        BY <4>1, <3>3, <2>4, <2>5
    <3> QED
      BY <3>2, <3>3, <2>4, <2>5
  <2>8. GivenOut(new, pm, share)
    <3> SUFFICES ASSUME NEW i \in DOMAIN new, new[i].payload \in Dynamic
                 PROVE  IF share THEN pm.codecs[new[i].payload] = new[i].name
                                 ELSE new[i].payload < pm.counter
      BY DEF GivenOut
    <3>1. CASE i \in 1..Len(fs)
      BY <3>1, <1>6, <2>4, <2>5 DEF GivenOut
    <3>2. CASE i = Len(fs) + 1
      <4>1. new[i] = fmt
        BY <3>2, <2>5
      <4> QED
        BY <4>1, <2>3, <1>4
    <3> QED
      BY <3>1, <3>2, <2>4, <2>5
  <2>9. /\ g.fmts = [h.fmts EXCEPT ![kind] = new] /\ g.pm = pm
        /\ g.fmts \in FormatLists
        /\ g \in [fmts : FormatLists, pm : Managers]
    <3>1. g.fmts = [h.fmts EXCEPT ![kind] = new] /\ g.pm = pm
      BY <2>1
    <3>2. g.fmts \in FormatLists
      BY <3>1, <1>0, <2>5 DEF FormatLists
    <3>3. g = [fmts |-> g.fmts, pm |-> g.pm]
      BY <2>1, <3>1
    <3> QED
      BY <3>1, <3>2, <3>3, <1>4
  <2>10. \A k \in MediaKinds : g.fmts[k] = IF k = kind THEN new ELSE h.fmts[k]
    BY <2>9, <1>0 DEF FormatLists
  <2>11. \A k \in MediaKinds : OneNumberEach(g.fmts[k]) /\ GivenOut(g.fmts[k], pm, share)
    BY <2>7, <2>8, <2>10, <1>0, <1>6
  <2>12. Numbered(g, share)
    BY <2>9, <2>11, <1>5 DEF Numbered
  <2> QED
    BY <2>9, <2>12, <1>4 DEF g
<1> QED
  BY <1>7, <1>8, <1>9

IsAdded(f, h, share, kind, cs, k) ==
  f = [n \in 0..k |-> IF n = 0 THEN h ELSE add_codec(f[n - 1], share, kind, cs[n])]
AddedUpTo(h, share, kind, cs) == CHOOSE f : IsAdded(f, h, share, kind, cs, Len(cs))

(* The loop of add_codecs has a result for a list of any length. *)
LEMMA AddedExists ==
  ASSUME NEW h, NEW share, NEW kind, NEW cs, NEW len \in Nat
  PROVE  \E f : IsAdded(f, h, share, kind, cs, len)
<1> DEFINE Bad == {k \in Nat : ~\E f : IsAdded(f, h, share, kind, cs, k)}
<1>1. ASSUME Bad # {}
      PROVE  FALSE
  <2>1. PICK k \in Bad : \A j \in Bad : k <= j
    BY <1>1, LeastNumber
  <2>2. k # 0
    <3>1. IsAdded([n \in 0..0 |-> h], h, share, kind, cs, 0)
      BY DEF IsAdded
    <3> QED
      BY <3>1
  <2>3. k - 1 \in Nat /\ k - 1 \notin Bad
    BY <2>1, <2>2
  <2>4. PICK g : IsAdded(g, h, share, kind, cs, k - 1)
    BY <2>3
  <2> DEFINE f == [n \in 0..k |-> IF n = k THEN add_codec(g[k - 1], share, kind, cs[k]) ELSE g[n]]
  <2>5. IsAdded(f, h, share, kind, cs, k)
    <3>1. ASSUME NEW n \in 0..k
          PROVE  f[n] = IF n = 0 THEN h ELSE add_codec(f[n - 1], share, kind, cs[n])
      <4>1. CASE n = k
        <5>1. f[n] = add_codec(g[k - 1], share, kind, cs[k])
          BY <4>1
        <5>2. n - 1 \in 0..k /\ n - 1 # k
          BY <2>2, <4>1
        <5>3. f[n - 1] = g[k - 1]
          BY <5>2, <4>1
        <5> HIDE DEF f
        <5> QED
          BY <5>1, <5>3, <2>2, <4>1
      <4>2. CASE n # k
        <5>1. f[n] = g[n] /\ n \in 0..(k - 1)
          BY <4>2
        <5>2. g[n] = IF n = 0 THEN h ELSE add_codec(g[n - 1], share, kind, cs[n])
          BY <2>4, <5>1 DEF IsAdded
        <5>3. n # 0 => f[n - 1] = g[n - 1]
          BY <4>2
        <5> HIDE DEF f
        <5> QED
          BY <5>1, <5>2, <5>3
      <4> QED
        BY <4>1, <4>2
    <3>2. f = [n \in 0..k |-> f[n]]
      OBVIOUS
    <3> HIDE DEF f
    <3> QED
      BY <3>1, <3>2 DEF IsAdded
  <2> HIDE DEF f
  <2> QED
    BY <2>5
<1> QED
  BY <1>1

(* add_codecs: the formats of a handler keep different numbers. *)
LEMMA CodecsAdded ==
  ASSUME NEW h, NEW share \in BOOLEAN, Numbered(h, share), NEW kind \in MediaKinds,
         NEW cs \in Seq(Codec)
  PROVE  LET g == add_codecs(h, share, kind, cs)
         IN  Numbered(g, share) /\ Extends(h.pm.codecs, g.pm.codecs)
<1> DEFINE f == AddedUpTo(h, share, kind, cs)
           Right(n) == Numbered(f[n], share) /\ Extends(h.pm.codecs, f[n].pm.codecs)
           Bad == {n \in 0..Len(cs) : ~Right(n)}
<1>0. Len(cs) \in Nat /\ \A n \in 1..Len(cs) : cs[n] \in Codec
  BY LenProperties, ElementOfSeq
<1>1. add_codecs(h, share, kind, cs) = f[Len(cs)]
  BY DEF add_codecs, AddedUpTo, IsAdded
<1>2. IsAdded(f, h, share, kind, cs, Len(cs))
  BY AddedExists, <1>0, Zenon DEF AddedUpTo
<1> HIDE DEF f
<1>3. \A n \in 0..Len(cs) : f[n] = IF n = 0 THEN h ELSE add_codec(f[n - 1], share, kind, cs[n])
  BY <1>2, Zenon DEF IsAdded
<1>4. Right(0)
  <2>1. f[0] = h
    BY <1>0, <1>3
  <2> QED
    BY <2>1 DEF Extends
<1>5. ASSUME NEW n \in 1..Len(cs), Right(n - 1)
      PROVE  Right(n)
  <2> DEFINE v == f[n - 1]
             g == add_codec(v, share, kind, cs[n])
  <2>1. f[n] = g
    BY <1>0, <1>3
  <2>2. Numbered(v, share) /\ Extends(h.pm.codecs, v.pm.codecs)
    BY <1>5
  <2>3. cs[n] \in Codec
    BY <1>0
  <2> HIDE DEF v
  <2>4. Numbered(g, share) /\ Extends(v.pm.codecs, g.pm.codecs)
    BY <2>2, <2>3, CodecAdded
  <2> HIDE DEF g
  <2>5. Extends(h.pm.codecs, g.pm.codecs)
    BY <2>2, <2>4 DEF Extends
  <2> QED
    BY <2>1, <2>4, <2>5
<1> HIDE DEF Right
<1>6. Right(Len(cs))
  <2>1. ASSUME Bad # {}
        PROVE  FALSE
    <3>1. Bad \in SUBSET Nat
      BY <1>0
    <3>2. PICK k \in Bad : \A j \in Bad : k <= j
      BY <2>1, <3>1, LeastNumber
    <3>3. k \in 1..Len(cs)
      BY <1>0, <1>4
    <3>4. k - 1 \in 0..Len(cs) /\ k - 1 \notin Bad
      BY <1>0, <3>2, <3>3
    <3> QED
      BY <1>5, <3>3, <3>4
  <2>2. Len(cs) \in 0..Len(cs)
    BY <1>0
  <2> QED
    BY <2>1, <2>2
<1> QED
  BY <1>1, <1>6 DEF Right

-----------------------------------------------------------------------------
(* Numbers that peers bring.                                               *)

IsTold(f, table, m, fmts, k) ==
  f = [n \in 0..k |-> IF n = 0 THEN table ELSE register_fmt(f[n - 1], m, fmts[n])]
ToldUpTo(table, m, fmts) == CHOOSE f : IsTold(f, table, m, fmts, Len(fmts))

(* The loop of Registered has a result for a list of any length. *)
LEMMA ToldExists ==
  ASSUME NEW table, NEW m, NEW fmts, NEW len \in Nat
  PROVE  \E f : IsTold(f, table, m, fmts, len)
<1> DEFINE Bad == {k \in Nat : ~\E f : IsTold(f, table, m, fmts, k)}
<1>1. ASSUME Bad # {}
      PROVE  FALSE
  <2>1. PICK k \in Bad : \A j \in Bad : k <= j
    BY <1>1, LeastNumber
  <2>2. k # 0
    <3>1. IsTold([n \in 0..0 |-> table], table, m, fmts, 0)
      BY DEF IsTold
    <3> QED
      BY <3>1
  <2>3. k - 1 \in Nat /\ k - 1 \notin Bad
    BY <2>1, <2>2
  <2>4. PICK g : IsTold(g, table, m, fmts, k - 1)
    BY <2>3
  <2> DEFINE f == [n \in 0..k |-> IF n = k THEN register_fmt(g[k - 1], m, fmts[k]) ELSE g[n]]
  <2>5. IsTold(f, table, m, fmts, k)
    <3>1. ASSUME NEW n \in 0..k
          PROVE  f[n] = IF n = 0 THEN table ELSE register_fmt(f[n - 1], m, fmts[n])
      <4>1. CASE n = k
        <5>1. f[n] = register_fmt(g[k - 1], m, fmts[k])
          BY <4>1
        <5>2. n - 1 \in 0..k /\ n - 1 # k
          BY <2>2, <4>1
        <5>3. f[n - 1] = g[k - 1]
          BY <5>2, <4>1
        <5> HIDE DEF f
        <5> QED
          BY <5>1, <5>3, <2>2, <4>1
      <4>2. CASE n # k
        <5>1. f[n] = g[n] /\ n \in 0..(k - 1)
          BY <4>2
        <5>2. g[n] = IF n = 0 THEN table ELSE register_fmt(g[n - 1], m, fmts[n])
          BY <2>4, <5>1 DEF IsTold
        <5>3. n # 0 => f[n - 1] = g[n - 1]
          BY <4>2
        <5> HIDE DEF f
        <5> QED
          BY <5>1, <5>2, <5>3
      <4> QED
        BY <4>1, <4>2
    <3>2. f = [n \in 0..k |-> f[n]]
      OBVIOUS
    <3> HIDE DEF f
    <3> QED
      BY <3>1, <3>2 DEF IsTold
  <2> HIDE DEF f
  <2> QED
    BY <2>5
<1> QED
  BY <1>1

(* Registering a number keeps a table in step with the numbers that peers brought. *)
LEMMA ToldInStep ==
  ASSUME NEW a \in Tables, NEW b \in Tables, NEW m, m.rtpmap \in SUBSET (Nat \X Codec), NEW pt
  PROVE  /\ register_fmt(a, m, pt) \in Tables
         /\ InStep(a, b) => InStep(register_fmt(a, m, pt), register_fmt(b, m, pt))
<1>1. CASE \E c \in Rtpmaps(m, pt) : StaticPayload[c] < 0
  <2> DEFINE c == CHOOSE x \in Rtpmaps(m, pt) : TRUE
  <2>1. c \in Rtpmaps(m, pt)
    BY <1>1
  <2>2. c \in Codec
    BY <2>1 DEF Rtpmaps
  <2>3. register_fmt(a, m, pt) = Register(a, pt, c) /\ register_fmt(b, m, pt) = Register(b, pt, c)
    BY <1>1 DEF register_fmt
  <2> HIDE DEF c
  <2>4. Register(a, pt, c) \in Tables
    BY <2>2 DEF Register, Tables
  <2>5. ASSUME InStep(a, b), NEW i \in Dynamic
        PROVE  Register(a, pt, c)[i] \in {NONE, Register(b, pt, c)[i]}
    <3>1. /\ Register(a, pt, c)[i] = IF i = pt THEN c ELSE IF a[i] = c THEN NONE ELSE a[i]
          /\ Register(b, pt, c)[i] = IF i = pt THEN c ELSE IF b[i] = c THEN NONE ELSE b[i]
      BY DEF Register
    <3>2. a[i] \in {NONE, b[i]}
      BY <2>5 DEF InStep
    <3> QED
      BY <3>1, <3>2
  <2> QED
    BY <2>3, <2>4, <2>5 DEF InStep
<1>2. CASE ~\E c \in Rtpmaps(m, pt) : StaticPayload[c] < 0
  BY <1>2 DEF register_fmt
<1> QED
  BY <1>1, <1>2

(* Registered: the tables of codecs and of numbers brought are told the same. *)
LEMMA RegisteredInStep ==
  ASSUME NEW a \in Tables, NEW b \in Tables, NEW m, m.rtpmap \in SUBSET (Nat \X Codec), NEW h,
         NEW share \in BOOLEAN, NEW T, SupportedFmts(h, m) \in Seq(T)
  PROVE  /\ Registered(h, m, share, a) \in Tables
         /\ share /\ InStep(a, b) => InStep(Registered(h, m, TRUE, a), Registered(h, m, share, b))
<1> DEFINE fmts == SupportedFmts(h, m)
           f == ToldUpTo(a, m, fmts)
           g == ToldUpTo(b, m, fmts)
           Right(n) == f[n] \in Tables /\ g[n] \in Tables /\ (InStep(a, b) => InStep(f[n], g[n]))
           Bad == {n \in 0..Len(fmts) : ~Right(n)}
<1>0. Len(fmts) \in Nat
  BY LenProperties
<1>1. /\ Registered(h, m, share, a) = IF share THEN f[Len(fmts)] ELSE a
      /\ Registered(h, m, share, b) = IF share THEN g[Len(fmts)] ELSE b
      /\ Registered(h, m, TRUE, a) = f[Len(fmts)]
  BY DEF Registered, ToldUpTo, IsTold
<1> HIDE DEF fmts
<1>2. IsTold(f, a, m, fmts, Len(fmts)) /\ IsTold(g, b, m, fmts, Len(fmts))
  BY ToldExists, <1>0, Zenon DEF ToldUpTo
<1> HIDE DEF f, g
<1>3. \A n \in 0..Len(fmts) :
        /\ f[n] = IF n = 0 THEN a ELSE register_fmt(f[n - 1], m, fmts[n])
        /\ g[n] = IF n = 0 THEN b ELSE register_fmt(g[n - 1], m, fmts[n])
  BY <1>2, Zenon DEF IsTold
<1>4. Right(0)
  <2>1. f[0] = a /\ g[0] = b
    BY <1>0, <1>3
  <2> QED
    BY <2>1
<1>5. ASSUME NEW n \in 1..Len(fmts), Right(n - 1)
      PROVE  Right(n)
  <2>1. f[n] = register_fmt(f[n - 1], m, fmts[n]) /\ g[n] = register_fmt(g[n - 1], m, fmts[n])
    BY <1>0, <1>3
  <2>2. f[n - 1] \in Tables /\ g[n - 1] \in Tables /\ (InStep(a, b) => InStep(f[n - 1], g[n - 1]))
    BY <1>5
  <2>3. f[n] \in Tables /\ (InStep(a, b) => InStep(f[n], g[n]))
    BY <2>1, <2>2, ToldInStep
  <2>4. g[n] \in Tables
    BY <2>1, <2>2, ToldInStep
  <2> QED
    BY <2>3, <2>4
<1> HIDE DEF Right
<1>6. Right(Len(fmts))
  <2>1. ASSUME Bad # {}
        PROVE  FALSE
    <3>1. Bad \in SUBSET Nat
      BY <1>0
    <3>2. PICK k \in Bad : \A j \in Bad : k <= j
      BY <2>1, <3>1, LeastNumber
    <3>3. k \in 1..Len(fmts)
      BY <1>0, <1>4
    <3>4. k - 1 \in 0..Len(fmts) /\ k - 1 \notin Bad
      BY <1>0, <3>2, <3>3
    <3> QED
      BY <1>5, <3>3, <3>4
  <2>2. Len(fmts) \in 0..Len(fmts)
    BY <1>0
  <2> QED
    BY <2>1, <2>2
<1> QED
  BY <1>1, <1>6 DEF Right

-----------------------------------------------------------------------------
(* The formats of lines.                                                   *)

Protection == {"red", "ulpfec"}

(* A list of numbers without repetition. *)
Once(s) == s \in Seq(Nat) /\ \A i, j \in DOMAIN s : s[i] = s[j] => i = j

(* The list r is the list fs with protection of the offer o behind it. *)
Protects(o, fs, r) ==
  /\ Once(r) /\ ToSet(r) \subseteq ToSet(o.fmts)
  /\ Len(r) >= Len(fs) /\ \A i \in 1..Len(fs) : r[i] = fs[i]
  /\ \A i \in DOMAIN r : i > Len(fs) => Rtpmaps(o, r[i]) \cap Protection # {}

(* The length and domain of a list of numbers. *)
LEMMA OnceIsList ==
  ASSUME NEW s, Once(s)
  PROVE  /\ s \in Seq(Nat) /\ Len(s) \in Nat /\ DOMAIN s = 1..Len(s)
         /\ \A i \in 1..Len(s) : s[i] \in Nat
BY LenProperties, ElementOfSeq DEF Once

(* SupportedFmts: the formats of a line that are supported, in the order of the line. *)
LEMMA SupportedLeft ==
  ASSUME NEW h, NEW m, IsLine(m)
  PROVE  LET own == SupportedFmts(h, m)
         IN  /\ Once(own)
             /\ \A pt : pt \in ToSet(own) <=> pt \in ToSet(m.fmts) /\ format_supported(h, m, pt)
             /\ \A i, j \in DOMAIN own : i < j =>
                  \E p, q \in DOMAIN m.fmts : p < q /\ m.fmts[p] = own[i] /\ m.fmts[q] = own[j]
<1> DEFINE S == {pt \in ToSet(m.fmts) : format_supported(h, m, pt)}
           own == SupportedFmts(h, m)
<1>1. m.fmts \in Seq(Nat) /\ \A i, j \in DOMAIN m.fmts : m.fmts[i] = m.fmts[j] => i = j
  BY DEF IsLine
<1>2. own = Kept(m.fmts, S)
  BY DEF SupportedFmts
<1> HIDE DEF own, S
<1>3. /\ own \in Seq(Nat) /\ ToSet(own) = ToSet(m.fmts) \cap S
      /\ \A i, j \in DOMAIN own : i < j =>
           \E p, q \in DOMAIN m.fmts : p < q /\ m.fmts[p] = own[i] /\ m.fmts[q] = own[j]
  <2> DEFINE fs == m.fmts
             kept == Kept(fs, S)
  <2>1. fs \in Seq(Nat)
    BY <1>1
  <2> HIDE DEF fs
  <2>2. /\ kept \in Seq(Nat) /\ ToSet(kept) = ToSet(fs) \cap S
        /\ \A i, j \in DOMAIN kept : i < j =>
             \E p, q \in DOMAIN fs : p < q /\ fs[p] = kept[i] /\ fs[q] = kept[j]
    BY <2>1, KeptLeft
  <2>3. own = kept
    BY <1>2 DEF fs
  <2> HIDE DEF kept
  <2> QED
    BY <2>2, <2>3 DEF fs
<1>4. DOMAIN own \subseteq Nat /\ DOMAIN m.fmts \subseteq Nat
  BY <1>1, <1>3, LenProperties
<1>5. ASSUME NEW i \in DOMAIN own, NEW j \in DOMAIN own, own[i] = own[j]
      PROVE  i = j
  <2>1. ASSUME NEW x \in DOMAIN own, NEW y \in DOMAIN own, x < y, own[x] = own[y]
        PROVE  FALSE
    <3>1. PICK p \in DOMAIN m.fmts, q \in DOMAIN m.fmts :
            p < q /\ m.fmts[p] = own[x] /\ m.fmts[q] = own[y]
      BY <1>3, <2>1
    <3>2. p = q
      BY <3>1, <2>1, <1>1
    <3> QED
      BY <3>1, <3>2, <1>4
  <2>2. i < j \/ j < i \/ i = j
    BY <1>4
  <2> QED
    BY <2>1, <2>2, <1>5
<1>6. \A pt : pt \in ToSet(own) <=> pt \in ToSet(m.fmts) /\ format_supported(h, m, pt)
  BY <1>3 DEF S
<1> QED
  BY <1>3, <1>5, <1>6 DEF Once, own

(* A number is in one place of a line. *)
LEMMA PlaceFound ==
  ASSUME NEW m, IsLine(m), NEW p \in DOMAIN m.fmts
  PROVE  Place(m, m.fmts[p]) = p
<1>1. \A i \in DOMAIN m.fmts : m.fmts[i] = m.fmts[p] => i = p
  BY DEF IsLine
<1>2. \E i \in DOMAIN m.fmts : m.fmts[i] = m.fmts[p]
  OBVIOUS
<1>3. Place(m, m.fmts[p]) \in DOMAIN m.fmts /\ m.fmts[Place(m, m.fmts[p])] = m.fmts[p]
  BY <1>2, Zenon DEF Place
<1> QED
  BY <1>1, <1>3

(* AddProtection puts a number of the offer behind the list, or nothing. *)
LEMMA ProtectionAdded ==
  ASSUME NEW cf, NEW o, IsLine(o), NEW fs, Once(fs), ToSet(fs) \subseteq ToSet(o.fmts),
         NEW c \in Protection
  PROVE  Protects(o, fs, AddProtection(cf, o, fs, c))
<1> DEFINE pts == PtOfCodec(o, c)
           r == AddProtection(cf, o, fs, c)
           stays == ~cf.fec \/ pts = {} \/ fs = <<>> \/ \E i \in DOMAIN fs : fs[i] \in pts
<1>0. fs \in Seq(Nat) /\ Len(fs) \in Nat /\ DOMAIN fs = 1..Len(fs)
  BY OnceIsList
<1>1. CASE stays
  <2>1. r = fs
    BY <1>1 DEF AddProtection
  <2>2. Protects(o, fs, fs)
    BY <1>0 DEF Protects
  <2> HIDE DEF r
  <2> QED
    BY <2>1, <2>2 DEF r
<1>2. CASE ~stays
  <2> DEFINE pt == CHOOSE x \in pts : TRUE
  <2>1. r = Append(fs, pt)
    BY <1>2 DEF AddProtection
  <2>2. pt \in pts
    BY <1>2
  <2>3. \A i \in DOMAIN fs : fs[i] # pt
    BY <1>2, <2>2
  <2> HIDE DEF pt, r
  <2>4. PICK x \in o.rtpmap : x[1] = pt /\ x[2] = c /\ HasFormat(o, x[1])
    BY <2>2 DEF PtOfCodec
  <2>5. pt \in ToSet(o.fmts)
    BY <2>4 DEF HasFormat, ToSet
  <2>6. pt \in Nat
    BY <2>4 DEF IsLine
  <2>7. c \in Rtpmaps(o, pt)
    BY <2>4 DEF Rtpmaps
  <2>8. /\ r \in Seq(Nat) /\ Len(r) = Len(fs) + 1 /\ DOMAIN r = 1..(Len(fs) + 1)
        /\ \A i \in 1..Len(fs) : r[i] = fs[i]
        /\ r[Len(fs) + 1] = pt
    BY <2>1, <2>6, <1>0, AppendProperties, LenProperties
  <2>9. Once(r)
    <3> SUFFICES ASSUME NEW i \in DOMAIN r, NEW j \in DOMAIN r, r[i] = r[j]
                 PROVE  i = j
      BY <2>8 DEF Once
    <3>1. CASE i \in 1..Len(fs) /\ j \in 1..Len(fs)
      BY <3>1, <2>8, <1>0 DEF Once
    <3>2. CASE i = Len(fs) + 1 \/ j = Len(fs) + 1
      BY <3>2, <2>3, <2>8, <1>0
    <3> QED
      BY <3>1, <3>2, <2>8, <1>0
  <2>10. ToSet(r) \subseteq ToSet(o.fmts)
    <3> SUFFICES ASSUME NEW i \in DOMAIN r
                 PROVE  r[i] \in ToSet(o.fmts)
      BY DEF ToSet
    <3>1. CASE i \in 1..Len(fs)
      <4>1. r[i] \in ToSet(fs)
        BY <3>1, <2>8, <1>0 DEF ToSet
      <4> QED
        BY <4>1
    <3>2. CASE i = Len(fs) + 1
      BY <3>2, <2>5, <2>8
    <3> QED
      BY <3>1, <3>2, <2>8, <1>0
  <2>11. \A i \in DOMAIN r : i > Len(fs) => Rtpmaps(o, r[i]) \cap Protection # {}
    <3>1. \A i \in DOMAIN r : i > Len(fs) => i = Len(fs) + 1
      BY <2>8, <1>0
    <3>2. Rtpmaps(o, pt) \cap Protection # {}
      BY <2>7
    <3> QED
      BY <3>1, <3>2, <2>8
  <2>12. Len(r) >= Len(fs)
    BY <2>8, <1>0
  <2>13. Protects(o, fs, r)
    BY <2>8, <2>9, <2>10, <2>11, <2>12 DEF Protects
  <2> QED
    BY <2>13 DEF r
<1> QED
  BY <1>1, <1>2

(* The formats of an answer: those of the offer that are supported, or its first one, and
   the protection behind them. *)
LEMMA AnswerFormats ==
  ASSUME NEW cf, NEW h, NEW o, IsLine(o)
  PROVE  LET own == SupportedFmts(h, o)
             r == AnswerFmts(cf, h, o)
         IN  /\ Once(r) /\ ToSet(r) \subseteq ToSet(o.fmts)
             /\ own # <<>> => Protects(o, own, r)
             /\ o.fmts # <<>> => r # <<>>
             /\ \A i, j \in DOMAIN r :
                  /\ i < j
                  /\ Rtpmaps(o, r[i]) \cap Protection = {} /\ Rtpmaps(o, r[j]) \cap Protection = {}
                  => \E p, q \in DOMAIN o.fmts : p < q /\ o.fmts[p] = r[i] /\ o.fmts[q] = r[j]
<1> DEFINE own == SupportedFmts(h, o)
           first == Min({1, Len(o.fmts)})
           base == IF own # <<>> THEN own ELSE SubSeq(o.fmts, 1, first)
           r1 == AddProtection(cf, o, base, "ulpfec")
           r == AddProtection(cf, o, r1, "red")
<1>0. /\ Once(own) /\ ToSet(own) \subseteq ToSet(o.fmts)
      /\ \A i, j \in DOMAIN own : i < j =>
           \E p, q \in DOMAIN o.fmts : p < q /\ o.fmts[p] = own[i] /\ o.fmts[q] = own[j]
  BY SupportedLeft
<1>1. AnswerFmts(cf, h, o) = r
  BY DEF AnswerFmts
<1>2. o.fmts \in Seq(Nat) /\ Len(o.fmts) \in Nat /\ DOMAIN o.fmts = 1..Len(o.fmts)
  BY LenProperties DEF IsLine
<1>3. first = IF Len(o.fmts) = 0 THEN 0 ELSE 1
  <2>1. {1, Len(o.fmts)} \in SUBSET Nat /\ {1, Len(o.fmts)} # {}
    BY <1>2
  <2>2. first \in {1, Len(o.fmts)} /\ \A y \in {1, Len(o.fmts)} : first <= y
    BY <2>1, MinIsLeast
  <2> HIDE DEF first
  <2> QED
    BY <2>2, <1>2
<1> HIDE DEF first
<1>4. /\ Once(base) /\ ToSet(base) \subseteq ToSet(o.fmts)
      /\ \A i, j \in DOMAIN base : i < j =>
           \E p, q \in DOMAIN o.fmts : p < q /\ o.fmts[p] = base[i] /\ o.fmts[q] = base[j]
      /\ o.fmts # <<>> => base # <<>>
  <2>1. CASE own # <<>>
    <3>1. base = own
      BY <2>1
    <3> HIDE DEF base, own
    <3> QED
      BY <3>1, <2>1, <1>0
  <2>2. CASE own = <<>>
    <3>1. base = SubSeq(o.fmts, 1, first)
      BY <2>2
    <3> HIDE DEF base, own
    <3>2. CASE Len(o.fmts) = 0
      <4>1. base = <<>> /\ o.fmts = <<>>
        BY <3>1, <3>2, <1>2, <1>3, EmptySeq
      <4>2. <<>> \in Seq(Nat) /\ DOMAIN <<>> = {}
        BY EmptySeq
      <4> QED
        BY <4>1, <4>2 DEF Once, ToSet
    <3>3. CASE Len(o.fmts) # 0
      <4>0. first = 1 /\ 1 \in 1..Len(o.fmts)
        BY <3>3, <1>2, <1>3
      <4>1. base \in Seq(Nat) /\ Len(base) = 1 /\ base[1] = o.fmts[1]
        BY <3>1, <4>0, <1>2, SubSeqProperties
      <4>2. DOMAIN base = {1}
        BY <4>1, LenProperties
      <4>3. Once(base) /\ ToSet(base) \subseteq ToSet(o.fmts)
        <5>1. Once(base)
          BY <4>1, <4>2 DEF Once
        <5>2. 1 \in DOMAIN o.fmts
          BY <4>0, <1>2
        <5>3. ToSet(base) = {o.fmts[1]}
          BY <4>1, <4>2 DEF ToSet
        <5> QED
          BY <5>1, <5>2, <5>3 DEF ToSet
      <4>4. base # <<>>
        BY <4>1, EmptySeq
      <4> QED
        BY <4>2, <4>3, <4>4
    <3> QED
      BY <3>2, <3>3
  <2> QED
    BY <2>1, <2>2
<1>5. own # <<>> => base = own
  OBVIOUS
<1> HIDE DEF base, own
<1>6. Protects(o, base, r1)
  BY <1>4, ProtectionAdded DEF Protection
<1>7. Protects(o, r1, r)
  <2>1. Once(r1) /\ ToSet(r1) \subseteq ToSet(o.fmts)
    BY <1>6 DEF Protects
  <2> HIDE DEF r1
  <2> QED
    BY <2>1, ProtectionAdded DEF Protection
<1> HIDE DEF r1, r
<1>8. /\ Len(base) \in Nat /\ DOMAIN base = 1..Len(base) /\ Len(r1) \in Nat
      /\ DOMAIN r1 = 1..Len(r1) /\ Len(r) \in Nat /\ DOMAIN r = 1..Len(r)
  BY <1>4, <1>6, <1>7, OnceIsList DEF Protects
<1>9. Protects(o, base, r)
  <2>1. Len(r) >= Len(base) /\ Len(r1) >= Len(base) /\ Len(r) >= Len(r1)
    BY <1>6, <1>7, <1>8 DEF Protects
  <2>2. \A i \in 1..Len(base) : r[i] = base[i]
    BY <1>6, <1>7, <1>8, <2>1 DEF Protects
  <2>3. ASSUME NEW i \in DOMAIN r, i > Len(base)
        PROVE  Rtpmaps(o, r[i]) \cap Protection # {}
    <3>1. CASE i > Len(r1)
      BY <3>1, <1>7 DEF Protects
    <3>2. CASE ~(i > Len(r1))
      <4>1. i \in 1..Len(r1) /\ r[i] = r1[i]
        BY <3>2, <1>7, <1>8 DEF Protects
      <4> QED
        BY <4>1, <2>3, <1>6, <1>8 DEF Protects
    <3> QED
      BY <3>1, <3>2
  <2> QED
    BY <2>1, <2>2, <2>3, <1>7 DEF Protects
<1>10. o.fmts # <<>> => r # <<>>
  <2>1. ASSUME base # <<>>
        PROVE  r # <<>>
    <3>1. Len(base) # 0
      BY <2>1, <1>4, EmptySeq DEF Once
    <3>2. Len(r) # 0
      BY <3>1, <1>8, <1>9 DEF Protects
    <3> QED
      BY <3>2, EmptySeq
  <2> QED
    BY <2>1, <1>4
<1>11. ASSUME NEW i \in DOMAIN r, NEW j \in DOMAIN r, i < j,
              Rtpmaps(o, r[i]) \cap Protection = {}, Rtpmaps(o, r[j]) \cap Protection = {}
       PROVE  \E p, q \in DOMAIN o.fmts : p < q /\ o.fmts[p] = r[i] /\ o.fmts[q] = r[j]
  <2>1. ~(i > Len(base)) /\ ~(j > Len(base))
    BY <1>9, <1>11 DEF Protects
  <2>2. i \in DOMAIN base /\ j \in DOMAIN base /\ r[i] = base[i] /\ r[j] = base[j]
    BY <2>1, <1>8, <1>9 DEF Protects
  <2> QED
    BY <2>2, <1>4, <1>11
<1>12. Once(r) /\ ToSet(r) \subseteq ToSet(o.fmts)
  BY <1>9 DEF Protects
<1> QED
  BY <1>1, <1>5, <1>9, <1>10, <1>11, <1>12 DEF own

-----------------------------------------------------------------------------
(* Lines.                                                                  *)

(* The formats of a line that the handler supports are the first ones, all of them in an
   offer: the others are the protection of an answer. *)
FirstOnes(h, m, k) ==
  k \in 0..Len(m.fmts) /\ \A i \in 1..Len(m.fmts) : format_supported(h, m, m.fmts[i]) <=> i <= k
AllSupported(h, m) == \A i \in DOMAIN m.fmts : format_supported(h, m, m.fmts[i])

(* A line without a port has no formats. *)
PortOrNone(m) == m.port = 0 => m.fmts = <<>>

(* What a handler supports does not depend on what became of its line. *)
LEMMA SameFormats ==
  ASSUME NEW h, NEW g, h.fmts = g.fmts, NEW m, NEW pt
  PROVE  format_supported(h, m, pt) <=> format_supported(g, m, pt)
BY DEF format_supported, encoding_supported

(* A line with rtpmaps of another for its formats means the same by them. *)
LEMMA SameMeaning ==
  ASSUME NEW m, NEW o, NEW fmts, NEW port, port # 0, m.rtpmap = SupportedRtpmaps(o, fmts, port),
         NEW i \in DOMAIN fmts
  PROVE  /\ Rtpmaps(m, fmts[i]) = Rtpmaps(o, fmts[i])
         /\ get_attr_map_value(m, fmts[i]) = get_attr_map_value(o, fmts[i])
<1>1. \A x : x \in m.rtpmap /\ x[1] = fmts[i] <=> x \in o.rtpmap /\ x[1] = fmts[i]
  BY DEF SupportedRtpmaps
<1>2. {x \in m.rtpmap : x[1] = fmts[i]} = {x \in o.rtpmap : x[1] = fmts[i]}
  BY <1>1
<1>3. Rtpmaps(m, fmts[i]) = Rtpmaps(o, fmts[i])
  BY <1>2 DEF Rtpmaps
<1> QED
  BY <1>3 DEF get_attr_map_value

(* ...and has formats of the same handler. *)
LEMMA SameSupport ==
  ASSUME NEW h, NEW m, NEW o, NEW pt, m.media = o.media,
         get_attr_map_value(m, pt) = get_attr_map_value(o, pt)
  PROVE  format_supported(h, m, pt) <=> format_supported(h, o, pt)
BY DEF format_supported

(* A new offer is a line of formats that its handler supports. *)
LEMMA NewOfferMade ==
  ASSUME NEW cf \in Configs, NEW h, h.fmts \in FormatLists, NEW kind \in MediaKinds,
         OneNumberEach(h.fmts[kind])
  PROVE  LET o == add_offer_attributes(cf, NewOffer(cf, h, kind))
         IN  IsLine(o) /\ o.dir \in Directions /\ AllSupported(h, o) /\ PortOrNone(o)
<1> DEFINE fs == h.fmts[kind]
           o == add_offer_attributes(cf, NewOffer(cf, h, kind))
<1>0. /\ o.media = kind /\ o.port = 1 /\ o.dir = cf.offer_dir
      /\ o.fmts = [i \in DOMAIN fs |-> fs[i].payload]
      /\ o.rtpmap = add_rtpmap_attrs(fs)
  BY DEF add_offer_attributes, NewOffer, init_new_offer, BareLine
<1>1. fs \in Seq(Formats) /\ Len(fs) \in Nat /\ DOMAIN fs = 1..Len(fs)
  BY LenProperties DEF FormatLists
<1> HIDE DEF o
<1>2. \A i \in DOMAIN fs : /\ fs[i] \in Formats /\ fs[i].name \in Codec /\ fs[i].payload \in Nat
                           /\ fs[i].payload \in Dynamic \/ fs[i].payload = StaticPayload[fs[i].name]
  <2>1. \A i \in DOMAIN fs : fs[i] \in Formats
    BY <1>1, ElementOfSeq
  <2> QED
    BY <2>1, NumberRanges DEF Formats
<1>3. IsLine(o)
  <2>1. o.fmts \in Seq(Nat) /\ DOMAIN o.fmts = DOMAIN fs
    <3>1. o.fmts \in [1..Len(fs) -> Nat]
      BY <1>0, <1>1, <1>2
    <3> QED
      BY <3>1, <1>0, <1>1, SeqDef
  <2>2. \A i, j \in DOMAIN o.fmts : o.fmts[i] = o.fmts[j] => i = j
    BY <1>0 DEF OneNumberEach
  <2>3. o.rtpmap \in SUBSET (Nat \X Codec)
    BY <1>0, <1>2 DEF add_rtpmap_attrs
  <2> QED
    BY <2>1, <2>2, <2>3, <1>0 DEF IsLine
<1>4. ASSUME NEW i \in DOMAIN fs
      PROVE  format_supported(h, o, fs[i].payload)
  <2> DEFINE pt == fs[i].payload
             c == fs[i].name
  <2>1. encoding_supported(h, kind, c)
    BY DEF encoding_supported
  <2>2. c \in get_attr_map_value(o, pt)
    <3>1. CASE IsStatic(pt)
      <4>1. \A x \in o.rtpmap : ~IsStatic(x[1])
        BY <1>0 DEF add_rtpmap_attrs
      <4>2. Rtpmaps(o, pt) = {}
        BY <4>1, <3>1 DEF Rtpmaps
      <4>3. pt \notin Dynamic
        BY <3>1, NumberRanges
      <4>4. StaticPayload[c] = pt /\ c \in Codec
        BY <4>3, <1>2
      <4> HIDE DEF pt, c
      <4> QED
        BY <4>2, <4>4 DEF get_attr_map_value
    <3>2. CASE ~IsStatic(pt)
      <4>1. <<pt, c>> \in o.rtpmap
        BY <1>0, <3>2 DEF add_rtpmap_attrs
      <4> HIDE DEF pt, c
      <4>2. c \in Rtpmaps(o, pt)
        BY <4>1 DEF Rtpmaps
      <4> QED
        BY <4>2 DEF get_attr_map_value
    <3> QED
      BY <3>1, <3>2
  <2> HIDE DEF pt, c
  <2>3. format_supported(h, o, pt)
    BY <2>1, <2>2, <1>0 DEF format_supported
  <2> QED
    BY <2>3 DEF pt
<1>5. AllSupported(h, o)
  BY <1>0, <1>4 DEF AllSupported
<1>6. o.dir \in Directions
  BY <1>0, MediaAssumption
<1>7. PortOrNone(o)
  BY <1>0 DEF PortOrNone
<1> QED
  BY <1>3, <1>5, <1>6, <1>7 DEF o

(* A line offered anew has what its handler supports of the previous one. *)
LEMMA OfferMadeAnew ==
  ASSUME NEW cf \in Configs, NEW h, NEW prev, IsLine(prev), PortOrNone(prev),
         \E k \in 0..Len(prev.fmts) : FirstOnes(h, prev, k)
  PROVE  LET o == add_offer_attributes(cf, NegotiatedOffer(cf, h, prev))
         IN  /\ IsLine(o) /\ o.dir \in Directions /\ AllSupported(h, o) /\ PortOrNone(o)
             /\ OffersAgain(h, prev, o)
<1> DEFINE fmts == SupportedFmts(h, prev)
           port == IF fmts = <<>> THEN 0 ELSE prev.port
           o == add_offer_attributes(cf, NegotiatedOffer(cf, h, prev))
<1>0. /\ o.media = prev.media /\ o.port = port /\ o.dir = cf.offer_dir /\ o.fmts = fmts
      /\ o.rtpmap = SupportedRtpmaps(prev, fmts, port)
      /\ o.fmtp = add_supported_fmtp(prev, fmts)
  BY DEF add_offer_attributes, NegotiatedOffer, init_renegotiated_offer, BareLine
<1>1. /\ Once(fmts)
      /\ \A pt : pt \in ToSet(fmts) <=> pt \in ToSet(prev.fmts) /\ format_supported(h, prev, pt)
  BY SupportedLeft
<1>2. fmts \in Seq(Nat) /\ Len(fmts) \in Nat /\ DOMAIN fmts = 1..Len(fmts)
  BY <1>1, OnceIsList
<1>3. prev.fmts \in Seq(Nat) /\ Len(prev.fmts) \in Nat /\ DOMAIN prev.fmts = 1..Len(prev.fmts)
  BY LenProperties DEF IsLine
<1>4. PICK k \in 0..Len(prev.fmts) : FirstOnes(h, prev, k)
  OBVIOUS
<1>5. Len(fmts) = k /\ \A i \in 1..k : fmts[i] = prev.fmts[i]
  <2> DEFINE fs == prev.fmts
             S == {pt \in ToSet(fs) : format_supported(h, prev, pt)}
  <2>1. fmts = Kept(fs, S)
    BY DEF SupportedFmts
  <2>2. \A i \in 1..Len(fs) : fs[i] \in S <=> i <= k
    BY <1>3, <1>4 DEF FirstOnes, ToSet
  <2>3. fs \in Seq(Nat)
    BY <1>3
  <2> HIDE DEF fmts, S, fs
  <2>4. k \in 0..Len(fs)
    BY DEF fs
  <2>5. Len(Kept(fs, S)) = k /\ \A i \in 1..k : Kept(fs, S)[i] = fs[i]
    BY <2>2, <2>3, <2>4, KeptFirst
  <2> QED
    BY <2>1, <2>5 DEF fs
<1>6. port = 0 => fmts = <<>>
  <2>1. prev.port = 0 => fmts = <<>>
    <3>1. ASSUME prev.fmts = <<>>
          PROVE  fmts = <<>>
      <4>1. Len(prev.fmts) = 0
        BY <3>1, EmptySeq
      <4>2. Len(fmts) = 0
        BY <4>1, <1>3, <1>5
      <4> HIDE DEF fmts
      <4> QED
        BY <4>2, <1>2, EmptySeq
    <3> QED
      BY <3>1 DEF PortOrNone
  <2> HIDE DEF fmts
  <2> QED
    BY <2>1
<1> HIDE DEF o, fmts, port
<1>7. ASSUME NEW i \in DOMAIN fmts
      PROVE  /\ port # 0
             /\ get_attr_map_value(o, fmts[i]) = get_attr_map_value(prev, fmts[i])
             /\ format_supported(h, prev, fmts[i])
  <2>1. fmts[i] \in ToSet(fmts)
    BY DEF ToSet
  <2>2. port # 0
    BY <1>6, <1>2, EmptySeq
  <2>3. get_attr_map_value(o, fmts[i]) = get_attr_map_value(prev, fmts[i])
    BY <2>2, <1>0, SameMeaning
  <2> QED
    BY <2>1, <2>2, <2>3, <1>1
<1>8. IsLine(o)
  <2>1. o.rtpmap \in SUBSET (Nat \X Codec)
    BY <1>0 DEF IsLine, SupportedRtpmaps
  <2> QED
    BY <2>1, <1>0, <1>1 DEF IsLine, Once
<1>9. AllSupported(h, o)
  <2> SUFFICES ASSUME NEW i \in DOMAIN fmts
               PROVE  format_supported(h, o, fmts[i])
    BY <1>0 DEF AllSupported
  <2> QED
    BY <1>0, <1>7, SameSupport
<1>10. OffersAgain(h, prev, o)
  <2>1. ToSet(fmts) = {prev.fmts[i] : i \in {j \in DOMAIN prev.fmts :
                                              format_supported(h, prev, prev.fmts[j])}}
    BY <1>1 DEF ToSet
  <2>2. ASSUME NEW i \in DOMAIN fmts
        PROVE  fmts[i] \in prev.fmtp <=> fmts[i] \in o.fmtp
    <3>1. fmts[i] = prev.fmts[i]
      BY <1>2, <1>5
    <3>2. fmts[i] \in {prev.fmts[j] : j \in DOMAIN fmts}
      BY <3>1
    <3> QED
      BY <3>2, <1>0 DEF add_supported_fmtp
  <2> QED
    BY <2>1, <2>2, <1>0, <1>7 DEF OffersAgain
<1>11. o.dir \in Directions
  BY <1>0, MediaAssumption
<1>12. PortOrNone(o)
  BY <1>0, <1>6 DEF PortOrNone
<1> QED
  BY <1>8, <1>9, <1>10, <1>11, <1>12 DEF o

(* An answer fits its offer, can be made for every protocol that is managed, and is a line
   whose first formats are those that the handler supports. *)
LEMMA AnswerMade ==
  ASSUME NEW cf, NEW h, NEW o, IsLine(o), o.dir \in Directions \cup {NONE}
  PROVE  LET a == Answer(cf, h, o)
         IN  /\ IsLine(a) /\ a # NoLine /\ FitsOffer(a, o)
             /\ a.port # 0 => \E k \in 0..Len(a.fmts) : FirstOnes(h, a, k)
             /\ manage_protocol(cf.proto, o.proto) => ~AnswerFails(cf, h, o, a)
<1> DEFINE own == SupportedFmts(h, o)
           fmts == AnswerFmts(cf, h, o)
           port == IF own = <<>> THEN 0 ELSE 1
           a == Answer(cf, h, o)
<1>0. /\ a.media = o.media /\ a.port = port /\ a.fmts = fmts
      /\ a.rtpmap = SupportedRtpmaps(o, fmts, port)
      /\ a.dir = AnswerDirection(o.dir)
      /\ a.fb = AnswerFeedback(cf, o, fmts)
  BY DEF Answer, Intersect, init_answer, BareLine
<1>1. /\ Once(own)
      /\ \A pt : pt \in ToSet(own) <=> pt \in ToSet(o.fmts) /\ format_supported(h, o, pt)
  BY SupportedLeft
<1>2. /\ Once(fmts) /\ ToSet(fmts) \subseteq ToSet(o.fmts)
      /\ own # <<>> => Protects(o, own, fmts)
      /\ o.fmts # <<>> => fmts # <<>>
      /\ \A i, j \in DOMAIN fmts :
           /\ i < j
           /\ Rtpmaps(o, fmts[i]) \cap Protection = {} /\ Rtpmaps(o, fmts[j]) \cap Protection = {}
           => \E p, q \in DOMAIN o.fmts : p < q /\ o.fmts[p] = fmts[i] /\ o.fmts[q] = fmts[j]
  BY AnswerFormats
<1>3. port # 0 => own # <<>>
  OBVIOUS
<1> HIDE DEF own, fmts, port, a
<1>4. fmts \in Seq(Nat) /\ Len(fmts) \in Nat /\ DOMAIN fmts = 1..Len(fmts)
  BY <1>2, OnceIsList
<1>5. own \in Seq(Nat) /\ Len(own) \in Nat /\ DOMAIN own = 1..Len(own)
  BY <1>1, OnceIsList
<1>6. o.fmts \in Seq(Nat) /\ Len(o.fmts) \in Nat /\ DOMAIN o.fmts = 1..Len(o.fmts)
  BY LenProperties DEF IsLine
<1>7. IsLine(a) /\ a # NoLine
  <2>1. a.rtpmap \in SUBSET (Nat \X Codec)
    BY <1>0 DEF IsLine, SupportedRtpmaps
  <2>2. IsLine(a)
    BY <2>1, <1>0, <1>2 DEF IsLine, Once
  <2>3. a.media # NoLine.media
    BY <2>2 DEF IsLine, MediaKinds, NoLine, NONE
  <2> QED
    BY <2>2, <2>3
<1>8. ASSUME port # 0, NEW i \in DOMAIN fmts
      PROVE  /\ get_attr_map_value(a, fmts[i]) = get_attr_map_value(o, fmts[i])
             /\ format_supported(h, a, fmts[i]) <=> format_supported(h, o, fmts[i])
             /\ format_supported(h, o, fmts[i]) <=> i <= Len(own)
             /\ i > Len(own) => Rtpmaps(o, fmts[i]) # {}
  <2>1. get_attr_map_value(a, fmts[i]) = get_attr_map_value(o, fmts[i])
    BY <1>0, <1>8, SameMeaning
  <2>2. format_supported(h, a, fmts[i]) <=> format_supported(h, o, fmts[i])
    BY <2>1, <1>0, SameSupport
  <2>3. Protects(o, own, fmts)
    BY <1>2, <1>3, <1>8
  <2>4. CASE i <= Len(own)
    <3>1. i \in DOMAIN own /\ fmts[i] = own[i]
      BY <2>3, <2>4, <1>4, <1>5 DEF Protects
    <3>2. fmts[i] \in ToSet(own)
      BY <3>1 DEF ToSet
    <3>3. ~(i > Len(own))
      BY <2>4, <1>4, <1>5
    <3> QED
      BY <2>1, <2>2, <2>4, <3>2, <3>3, <1>1
  <2>5. CASE ~(i <= Len(own))
    <3>1. fmts[i] \notin ToSet(own)
      <4>1. ASSUME NEW j \in DOMAIN own, own[j] = fmts[i]
            PROVE  FALSE
        <5>1. j \in DOMAIN fmts /\ fmts[j] = own[j]
          BY <2>3, <1>4, <1>5 DEF Protects
        <5>2. j = i
          BY <5>1, <4>1, <1>2 DEF Once
        <5> QED
          BY <5>2, <2>5, <1>5
      <4> QED
        BY <4>1 DEF ToSet
    <3>2. fmts[i] \in ToSet(o.fmts)
      BY <1>2 DEF ToSet
    <3>3. i > Len(own)
      BY <2>5, <1>4, <1>5
    <3>4. Rtpmaps(o, fmts[i]) # {}
      BY <3>3, <2>3 DEF Protects
    <3> QED
      BY <2>1, <2>2, <2>5, <3>1, <3>2, <3>4, <1>1
  <2> QED
    BY <2>4, <2>5
<1>9. a.port # 0 => \E k \in 0..Len(a.fmts) : FirstOnes(h, a, k)
  <2> SUFFICES ASSUME port # 0
               PROVE  FirstOnes(h, a, Len(own))
    <3>1. port # 0 => Len(own) \in 0..Len(fmts)
      BY <1>2, <1>3, <1>4, <1>5 DEF Protects
    <3> QED
      BY <3>1, <1>0
  <2>1. Len(own) \in 0..Len(fmts)
    BY <1>2, <1>3, <1>4, <1>5 DEF Protects
  <2>2. \A i \in 1..Len(fmts) : format_supported(h, a, fmts[i]) <=> i <= Len(own)
    BY <1>4, <1>8
  <2> QED
    BY <2>1, <2>2, <1>0 DEF FirstOnes
<1>10. manage_protocol(cf.proto, o.proto) => ~AnswerFails(cf, h, o, a)
  <2> SUFFICES ASSUME port # 0, NEW i \in DOMAIN fmts, Rtpmaps(o, fmts[i]) = {}
               PROVE  format_supported(h, o, fmts[i])
    BY <1>0 DEF AnswerFails
  <2>1. ~(i > Len(own))
    BY <1>8
  <2>2. i <= Len(own)
    BY <2>1, <1>4, <1>5
  <2> QED
    BY <2>2, <1>8
<1>11. FitsOffer(a, o)
  <2> DEFINE S == {pt \in ToSet(a.fmts) : get_attr_map_value(o, pt) \cap {"red", "ulpfec"} = {}}
             main == Kept(a.fmts, S)
             kept == Kept(fmts, S)
  <2>0. /\ kept \in Seq(Nat) /\ ToSet(kept) = ToSet(fmts) \cap S
        /\ \A x, y \in DOMAIN kept : x < y =>
             \E p, q \in DOMAIN fmts : p < q /\ fmts[p] = kept[x] /\ fmts[q] = kept[y]
    <3>1. fmts \in Seq(Nat)
      BY <1>4
    <3> HIDE DEF S
    <3> QED
      BY <3>1, KeptLeft
  <2>1. \A i \in DOMAIN a.fmts : HasFormat(o, a.fmts[i])
    <3> SUFFICES ASSUME NEW i \in DOMAIN fmts
                 PROVE  HasFormat(o, fmts[i])
      BY <1>0
    <3>1. fmts[i] \in ToSet(o.fmts)
      BY <1>2 DEF ToSet
    <3> QED
      BY <3>1 DEF ToSet, HasFormat
  <2>2. ASSUME NEW i \in DOMAIN main, NEW j \in DOMAIN main, i < j
        PROVE  Place(o, main[i]) < Place(o, main[j])
    <3>1. main = kept
      BY <1>0
    <3> HIDE DEF main, S, kept
    <3>2. /\ main \in Seq(Nat) /\ ToSet(main) = ToSet(fmts) \cap S
          /\ \A x, y \in DOMAIN main : x < y =>
               \E p, q \in DOMAIN fmts : p < q /\ fmts[p] = main[x] /\ fmts[q] = main[y]
      BY <2>0, <3>1
    <3>3. main[i] \in S /\ main[j] \in S
      <4>1. main[i] \in ToSet(main) /\ main[j] \in ToSet(main)
        BY DEF ToSet
      <4> QED
        BY <4>1, <3>2
    <3>4. \A pt \in S : Rtpmaps(o, pt) \cap Protection = {}
      BY DEF S, get_attr_map_value, Protection
    <3>5. PICK x \in DOMAIN fmts, y \in DOMAIN fmts :
            x < y /\ fmts[x] = main[i] /\ fmts[y] = main[j]
      BY <2>2, <3>2
    <3>6. Rtpmaps(o, fmts[x]) \cap Protection = {} /\ Rtpmaps(o, fmts[y]) \cap Protection = {}
      BY <3>3, <3>4, <3>5
    <3>7. PICK p \in DOMAIN o.fmts, q \in DOMAIN o.fmts :
            p < q /\ o.fmts[p] = fmts[x] /\ o.fmts[q] = fmts[y]
      BY <3>5, <3>6, <1>2
    <3>8. Place(o, o.fmts[p]) = p /\ Place(o, o.fmts[q]) = q
      BY PlaceFound
    <3> QED
      BY <3>5, <3>7, <3>8
  <2>3. (o.fmts # <<>>) => (a.fmts # <<>>)
    BY <1>0, <1>2
  <2>4. (a.port # 0) => \A i \in DOMAIN a.fmts :
           get_attr_map_value(a, a.fmts[i]) = get_attr_map_value(o, a.fmts[i])
    BY <1>0, <1>8
  <2>5. (Sends(a) <=> Receives(o)) /\ (Receives(a) <=> Sends(o))
    BY <1>0 DEF Sends, Receives, AnswerDirection, Directions, NONE
  <2>6. \A f \in a.fb : HasFormat(a, f[1]) /\ f \in o.fb
    <3> SUFFICES ASSUME NEW f \in a.fb
                 PROVE  HasFormat(a, f[1]) /\ f \in o.fb
      OBVIOUS
    <3>1. f \in filter_rtcp_fb_attrs(cf, o, fmts)
      BY <1>0 DEF AnswerFeedback
    <3>2. f \in o.fb /\ \E i \in DOMAIN fmts : fmts[i] = f[1]
      BY <3>1 DEF filter_rtcp_fb_attrs
    <3> QED
      BY <3>2, <1>0 DEF HasFormat
  <2> HIDE DEF main, S
  <2>7. \A i, j \in DOMAIN main : i < j => Place(o, main[i]) < Place(o, main[j])
    BY <2>2
  <2> QED
    BY <2>1, <2>3, <2>4, <2>5, <2>6, <2>7 DEF FitsOffer, main, S
<1> QED
  BY <1>7, <1>9, <1>10, <1>11 DEF a

-----------------------------------------------------------------------------
(* The invariant of the exchange.                                          *)

HandlerRecords == [fmts : FormatLists \cup {<<>>}, made : BOOLEAN, rejected : BOOLEAN]

(* A handler that was made has formats with different numbers. *)
HandlersRight ==
  /\ handler \in [Sides -> [MediaLines -> HandlerRecords]]
  /\ \A s \in Sides, l \in MediaLines : handler[s][l].made =>
       /\ ~config[s].foreign /\ handler[s][l].fmts \in FormatLists
       /\ \A k \in MediaKinds : OneNumberEach(handler[s][l].fmts[k])

(* A line of an endpoint of this server starts with the formats that its handler supports,
   unless it was rejected. *)
Held(h, m) ==
  /\ h.made /\ IsLine(m)
  /\ h.rejected \/ (PortOrNone(m) /\ \E k \in 0..Len(m.fmts) : FirstOnes(h, m, k))
LinesHeld ==
  /\ localLine = [s \in Sides |-> [l \in MediaLines |-> localLine[s][l]]]
  /\ \A s \in Sides, l \in MediaLines :
       (localLine[s][l] # NoLine /\ ~config[s].foreign) => Held(handler[s][l], localLine[s][l])

(* An offer on its way, when it is one of this server, is supported by the handler of its
   line. *)
OfferRight ==
  pending # NoLine =>
    /\ pending.from \in Sides /\ pending.line \in MediaLines
    /\ IsLine(pending.offer) /\ pending.offer.dir \in Directions \cup {NONE}
    /\ ~config[pending.from].foreign =>
         LET h == handler[pending.from][pending.line]
         IN  h.made /\ ~h.rejected /\ PortOrNone(pending.offer) /\ AllSupported(h, pending.offer)

(* The numbers that peers brought are in the table of a manager that shares numbers, unless
   a line took some back. *)
NumbersRight ==
  /\ counter \in [Sides -> Nat] /\ \A s \in Sides : counter[s] >= MIN_DYNAMIC_PAYLOAD
  /\ codecs \in [Sides -> Tables] /\ brought \in [Sides -> Tables]
  /\ reclaimed \in [Sides -> BOOLEAN]
  /\ \A s \in Sides : config[s].share /\ ~reclaimed[s] => InStep(brought[s], codecs[s])

MediaInv ==
  /\ config \in [Sides -> Configs] /\ exchanges \in 0..MaxExchanges
  /\ HandlersRight /\ LinesHeld /\ OfferRight /\ NumbersRight
  /\ Reoffered /\ AnswerRight

(* What NumbersKept says of a step. *)
NumbersKeptStep ==
  \A s \in Sides, l \in MediaLines :
    (handler'[s][l].made /\ ~handler[s][l].made /\ config[s].share /\ ~reclaimed[s]) =>
      \A k \in MediaKinds : \A i \in DOMAIN handler'[s][l].fmts[k] :
        LET f == handler'[s][l].fmts[k][i]
        IN  f.payload \in Dynamic => brought[s][f.payload] \in {NONE, f.name}

(* The properties hold in the initial states. *)
LEMMA MediaInitRight ==
  ASSUME MediaInit
  PROVE  MediaInv
<1> USE DEF MediaInit
<1>1. config \in [Sides -> Configs] /\ exchanges \in 0..MaxExchanges
  BY MediaAssumption
<1>2. HandlersRight
  <2>1. NoHandler \in HandlerRecords /\ ~NoHandler.made
    BY DEF NoHandler, HandlerRecords
  <2>2. \A s \in Sides, l \in MediaLines : handler[s][l] = NoHandler
    OBVIOUS
  <2>3. handler \in [Sides -> [MediaLines -> HandlerRecords]]
    BY <2>1
  <2> QED
    BY <2>1, <2>2, <2>3 DEF HandlersRight
<1>3. LinesHeld
  BY DEF LinesHeld
<1>4. OfferRight /\ Reoffered /\ AnswerRight
  BY DEF OfferRight, Reoffered, AnswerRight, AnswerFits, Answered, AnswerGiven
<1>5. NumbersRight
  <2>1. MIN_DYNAMIC_PAYLOAD \in Nat
    BY NumberRanges
  <2>2. [pt \in Dynamic |-> NONE] \in Tables
    BY DEF Tables
  <2>3. codecs \in [Sides -> Tables] /\ brought \in [Sides -> Tables] /\ counter \in [Sides -> Nat]
    BY <2>1, <2>2
  <2>4. \A s \in Sides : counter[s] >= MIN_DYNAMIC_PAYLOAD
    BY <2>1
  <2>5. reclaimed \in [Sides -> BOOLEAN]
    OBVIOUS
  <2>6. \A s \in Sides : InStep(brought[s], codecs[s])
    BY DEF InStep
  <2> QED
    BY <2>3, <2>4, <2>5, <2>6 DEF NumbersRight
<1> QED
  BY <1>1, <1>2, <1>3, <1>4, <1>5 DEF MediaInv

(* create_media_handler: the handler has numbers that peers do not use for other codecs. *)
LEMMA HandlerCreated ==
  ASSUME MediaInv, NEW s \in Sides, NEW l \in MediaLines, CreateHandler(s, l)
  PROVE  MediaInv' /\ NumbersKeptStep
<1> DEFINE share == config[s].share
           empty == [fmts |-> [k \in MediaKinds |-> <<>>],
                     pm   |-> [pt |-> -1, counter |-> counter[s], codecs |-> codecs[s]]]
           audio == add_codecs(empty, share, "audio", CodecsOf[s].audio)
           new   == add_codecs(audio, share, "video", CodecsOf[s].video)
           made  == [fmts |-> new.fmts, made |-> TRUE, rejected |-> FALSE]
<1>0. /\ ~handler[s][l].made /\ ~config[s].foreign
      /\ handler' = [handler EXCEPT ![s][l] = made]
      /\ counter' = [counter EXCEPT ![s] = new.pm.counter]
      /\ codecs' = [codecs EXCEPT ![s] = new.pm.codecs]
      /\ UNCHANGED <<config, brought, reclaimed, localLine, pending, last, exchanges>>
  BY DEF CreateHandler
<1>1. /\ handler \in [Sides -> [MediaLines -> HandlerRecords]]
      /\ counter \in [Sides -> Nat] /\ counter[s] >= MIN_DYNAMIC_PAYLOAD
      /\ codecs \in [Sides -> Tables] /\ config[s] \in Configs
  BY DEF MediaInv, HandlersRight, NumbersRight
<1>2. share \in BOOLEAN
  BY <1>1, MediaAssumption
<1>3. CodecsOf[s].audio \in Seq(Codec) /\ CodecsOf[s].video \in Seq(Codec)
  BY MediaAssumption DEF MediaKinds
<1>4. Numbered(empty, share)
  <2>1. <<>> \in Seq(Formats) /\ DOMAIN <<>> = {}
    BY EmptySeq
  <2>2. empty.fmts \in FormatLists /\ \A k \in MediaKinds : empty.fmts[k] = <<>>
    BY <2>1 DEF FormatLists
  <2>3. empty.pm \in Managers /\ empty.pm.counter >= MIN_DYNAMIC_PAYLOAD
    BY <1>1 DEF Managers
  <2>4. empty \in [fmts : FormatLists, pm : Managers]
    BY <2>2, <2>3
  <2> HIDE DEF empty, share
  <2>5. \A k \in MediaKinds : OneNumberEach(empty.fmts[k]) /\ GivenOut(empty.fmts[k], empty.pm, share)
    BY <2>1, <2>2 DEF OneNumberEach, GivenOut
  <2> QED
    BY <2>3, <2>4, <2>5 DEF Numbered
<1>5. empty.pm.codecs = codecs[s]
  OBVIOUS
<1> HIDE DEF empty, share
<1>6. Numbered(audio, share) /\ Extends(empty.pm.codecs, audio.pm.codecs)
  BY <1>2, <1>3, <1>4, CodecsAdded DEF MediaKinds
<1> HIDE DEF audio
<1>7. Numbered(new, share) /\ Extends(audio.pm.codecs, new.pm.codecs)
  BY <1>2, <1>3, <1>6, CodecsAdded DEF MediaKinds
<1> HIDE DEF new
<1>8. Extends(codecs[s], new.pm.codecs)
  BY <1>5, <1>6, <1>7 DEF Extends
<1>9. /\ new.fmts \in FormatLists /\ new.pm.counter \in Nat /\ new.pm.counter >= MIN_DYNAMIC_PAYLOAD
      /\ new.pm.codecs \in Tables
      /\ \A k \in MediaKinds : OneNumberEach(new.fmts[k]) /\ GivenOut(new.fmts[k], new.pm, share)
  BY <1>7 DEF Numbered, Managers
<1>10. \A t \in Sides, k \in MediaLines :
         handler'[t][k] = IF t = s /\ k = l THEN made ELSE handler[t][k]
  BY <1>0, <1>1
<1>11. made \in HandlerRecords /\ made.made /\ made.fmts = new.fmts
  BY <1>9 DEF HandlerRecords
<1>12. \A t \in Sides, k \in MediaLines : handler[t][k].made => ~(t = s /\ k = l)
  BY <1>0
<1> HIDE DEF made
<1>13. HandlersRight'
  <2>1. handler' \in [Sides -> [MediaLines -> HandlerRecords]]
    BY <1>0, <1>1, <1>11
  <2>2. ASSUME NEW t \in Sides, NEW k \in MediaLines, handler'[t][k].made
        PROVE  /\ ~config[t].foreign /\ handler'[t][k].fmts \in FormatLists
               /\ \A d \in MediaKinds : OneNumberEach(handler'[t][k].fmts[d])
    <3>1. CASE t = s /\ k = l
      BY <3>1, <1>0, <1>9, <1>10, <1>11
    <3>2. CASE ~(t = s /\ k = l)
      <4>1. handler'[t][k] = handler[t][k]
        BY <3>2, <1>10
      <4> QED
        BY <4>1, <2>2 DEF MediaInv, HandlersRight
    <3> QED
      BY <3>1, <3>2
  <2> QED
    BY <2>1, <2>2, <1>0 DEF HandlersRight
<1>14. LinesHeld'
  <2>1. localLine' = localLine /\ config' = config
    BY <1>0
  <2>2. ASSUME NEW t \in Sides, NEW k \in MediaLines, localLine[t][k] # NoLine, ~config[t].foreign
        PROVE  Held(handler'[t][k], localLine[t][k])
    <3>1. Held(handler[t][k], localLine[t][k])
      BY <2>2 DEF MediaInv, LinesHeld
    <3>2. handler'[t][k] = handler[t][k]
      BY <3>1, <1>10, <1>12 DEF Held
    <3> QED
      BY <3>1, <3>2
  <2> QED
    BY <2>1, <2>2 DEF MediaInv, LinesHeld
<1>15. OfferRight' /\ Reoffered'
  <2>1. localLine' = localLine /\ config' = config /\ pending' = pending
    BY <1>0
  <2>2. ASSUME pending # NoLine, ~config[pending.from].foreign
        PROVE  handler'[pending.from][pending.line] = handler[pending.from][pending.line]
    <3>1. /\ pending.from \in Sides /\ pending.line \in MediaLines
          /\ handler[pending.from][pending.line].made
      BY <2>2 DEF MediaInv, OfferRight
    <3> QED
      BY <3>1, <1>10, <1>12
  <2>3. OfferRight'
    BY <2>1, <2>2 DEF MediaInv, OfferRight
  <2>4. Reoffered'
    BY <2>1, <2>2 DEF MediaInv, Reoffered
  <2> QED
    BY <2>3, <2>4
<1>16. InStep(brought[s], codecs[s]) => InStep(brought[s], new.pm.codecs)
  BY <1>8 DEF InStep, Extends
<1>17. NumbersRight'
  <2>1. counter' \in [Sides -> Nat] /\ \A t \in Sides : counter'[t] >= MIN_DYNAMIC_PAYLOAD
    BY <1>0, <1>1, <1>9 DEF MediaInv, NumbersRight
  <2>2. codecs' \in [Sides -> Tables] /\ brought' = brought /\ reclaimed' = reclaimed /\ config' = config
    BY <1>0, <1>1, <1>9
  <2>3. \A t \in Sides : config[t].share /\ ~reclaimed[t] => InStep(brought[t], codecs'[t])
    <3> SUFFICES ASSUME NEW t \in Sides, config[t].share, ~reclaimed[t]
                 PROVE  InStep(brought[t], codecs'[t])
      OBVIOUS
    <3>1. InStep(brought[t], codecs[t])
      BY DEF MediaInv, NumbersRight
    <3>2. codecs'[t] = IF t = s THEN new.pm.codecs ELSE codecs[t]
      BY <1>0, <1>1
    <3> QED
      BY <3>1, <3>2, <1>16
  <2> QED
    BY <2>1, <2>2, <2>3 DEF MediaInv, NumbersRight
<1>18. AnswerRight'
  BY <1>0 DEF MediaInv, AnswerRight, AnswerFits, Answered, AnswerGiven
<1>19. MediaInv'
  BY <1>0, <1>13, <1>14, <1>15, <1>17, <1>18 DEF MediaInv
<1>20. NumbersKeptStep
  <2> SUFFICES ASSUME NEW t \in Sides, NEW k \in MediaLines, handler'[t][k].made, ~handler[t][k].made,
                      config[t].share, ~reclaimed[t], NEW d \in MediaKinds,
                      NEW i \in DOMAIN handler'[t][k].fmts[d],
                      handler'[t][k].fmts[d][i].payload \in Dynamic
               PROVE  brought[t][handler'[t][k].fmts[d][i].payload]
                        \in {NONE, handler'[t][k].fmts[d][i].name}
    BY DEF NumbersKeptStep
  <2>1. t = s /\ k = l
    BY <1>10
  <2>2. handler'[t][k].fmts = new.fmts
    BY <2>1, <1>10, <1>11
  <2> DEFINE f == new.fmts[d][i]
  <2>3. i \in DOMAIN new.fmts[d] /\ f.payload \in Dynamic
    BY <2>2
  <2>4. share
    BY <2>1 DEF share
  <2>5. new.pm.codecs[f.payload] = f.name
    BY <2>3, <2>4, <1>9 DEF GivenOut
  <2>6. InStep(brought[s], codecs[s])
    BY <2>1 DEF MediaInv, NumbersRight
  <2>7. brought[s][f.payload] \in {NONE, new.pm.codecs[f.payload]}
    BY <2>3, <2>6, <1>16 DEF InStep
  <2> QED
    BY <2>1, <2>2, <2>5, <2>7
<1> QED
  BY <1>19, <1>20

(* No handler is made when the handlers keep their formats. *)
LEMMA NoneMade ==
  ASSUME \A s \in Sides, l \in MediaLines : handler'[s][l].made => handler[s][l].made
  PROVE  NumbersKeptStep
BY DEF NumbersKeptStep

(* create_offer *)
LEMMA OfferCreated ==
  ASSUME MediaInv, NEW s \in Sides, NEW l \in MediaLines, CreateMediaOffer(s, l)
  PROVE  MediaInv' /\ NumbersKeptStep
<1> DEFINE cf == config[s]
           h == handler[s][l]
           prev == localLine[s][l]
           m == IF prev = NoLine THEN NewOffer(cf, h, MediaKind[l]) ELSE NegotiatedOffer(cf, h, prev)
           o == add_offer_attributes(cf, m)
           ok == IF prev = NoLine THEN add_supported_fmts(h, MediaKind[l])
                 ELSE manage_protocol(cf.proto, prev.proto)
           table == Registered(h, prev, cf.share, codecs[s])
<1>0. /\ h.made /\ ~h.rejected /\ pending = NoLine /\ exchanges < MaxExchanges
      /\ ok => pending' = [from |-> s, line |-> l, offer |-> o, media |-> MediaKind[l]]
      /\ ~ok => pending' = pending
      /\ codecs' = IF ok /\ prev # NoLine THEN [codecs EXCEPT ![s] = table] ELSE codecs
      /\ reclaimed' = [reclaimed EXCEPT ![s] = @ \/ (cf.share /\ ~InStep(brought[s], codecs'[s]))]
      /\ exchanges' = exchanges + 1
      /\ UNCHANGED <<config, counter, brought, handler, localLine, last>>
  BY DEF CreateMediaOffer
<1> HIDE DEF ok
<1>1. /\ cf \in Configs /\ ~cf.foreign /\ h.fmts \in FormatLists
      /\ \A k \in MediaKinds : OneNumberEach(h.fmts[k])
      /\ MediaKind[l] \in MediaKinds /\ cf.share \in BOOLEAN
  BY <1>0, MediaAssumption DEF MediaInv, HandlersRight
<1>2. prev # NoLine => /\ IsLine(prev) /\ PortOrNone(prev)
                       /\ \E k \in 0..Len(prev.fmts) : FirstOnes(h, prev, k)
  BY <1>0, <1>1 DEF MediaInv, LinesHeld, Held
<1>3. /\ IsLine(o) /\ o.dir \in Directions /\ AllSupported(h, o) /\ PortOrNone(o)
      /\ prev # NoLine => OffersAgain(h, prev, o)
  <2>1. CASE prev = NoLine
    <3>1. o = add_offer_attributes(cf, NewOffer(cf, h, MediaKind[l]))
      BY <2>1
    <3>2. OneNumberEach(h.fmts[MediaKind[l]])
      BY <1>1
    <3> HIDE DEF o, prev, h, cf
    <3> QED
      BY <3>1, <3>2, <2>1, <1>1, NewOfferMade
  <2>2. CASE prev # NoLine
    <3>1. o = add_offer_attributes(cf, NegotiatedOffer(cf, h, prev))
      BY <2>2
    <3> HIDE DEF o, prev, h, cf
    <3> QED
      BY <3>1, <2>2, <1>1, <1>2, OfferMadeAnew
  <2> QED
    BY <2>1, <2>2
<1> HIDE DEF o, m
<1>4. /\ codecs \in [Sides -> Tables] /\ brought \in [Sides -> Tables]
      /\ reclaimed \in [Sides -> BOOLEAN]
  BY DEF MediaInv, NumbersRight
<1>5. prev # NoLine => table \in Tables
  <2> SUFFICES ASSUME prev # NoLine
               PROVE  table \in Tables
    OBVIOUS
  <2>1. IsLine(prev)
    BY <1>2
  <2>2. codecs[s] \in Tables /\ cf.share \in BOOLEAN
    BY <1>1, <1>4
  <2> HIDE DEF prev, h, cf
  <2>3. SupportedFmts(h, prev) \in Seq(Nat)
    BY <2>1, SupportedLeft DEF Once
  <2>4. prev.rtpmap \in SUBSET (Nat \X Codec)
    BY <2>1 DEF IsLine
  <2> QED
    BY <2>2, <2>3, <2>4, RegisteredInStep
<1> HIDE DEF table
<1>6. codecs' \in [Sides -> Tables] /\ \A t \in Sides : t # s => codecs'[t] = codecs[t]
  <2>1. CASE ok /\ prev # NoLine
    BY <2>1, <1>0, <1>4, <1>5
  <2>2. CASE ~(ok /\ prev # NoLine)
    BY <2>2, <1>0, <1>4
  <2> QED
    BY <2>1, <2>2
<1>7. NumbersRight'
  <2>1. reclaimed' \in [Sides -> BOOLEAN]
    BY <1>0, <1>4
  <2>2. ASSUME NEW t \in Sides, config[t].share, ~reclaimed'[t]
        PROVE  InStep(brought[t], codecs'[t])
    <3>1. CASE t = s
      <4>1. reclaimed'[s] = (reclaimed[s] \/ (cf.share /\ ~InStep(brought[s], codecs'[s])))
        BY <1>0, <1>4
      <4> QED
        BY <4>1, <3>1, <2>2
    <3>2. CASE t # s
      <4>1. reclaimed'[t] = reclaimed[t] /\ codecs'[t] = codecs[t]
        BY <3>2, <1>0, <1>4, <1>6
      <4> QED
        BY <4>1, <2>2 DEF MediaInv, NumbersRight
    <3> QED
      BY <3>1, <3>2
  <2> QED
    BY <2>1, <2>2, <1>0, <1>6 DEF MediaInv, NumbersRight
<1>8. OfferRight' /\ Reoffered'
  <2>1. CASE ~ok
    <3>1. pending' = NoLine
      BY <2>1, <1>0
    <3> QED
      BY <3>1 DEF OfferRight, Reoffered, NoLine
  <2>2. CASE ok
    <3>1. pending'.from = s /\ pending'.line = l /\ pending'.offer = o
      BY <2>2, <1>0
    <3>2. OfferRight'
      BY <3>1, <1>0, <1>1, <1>3 DEF OfferRight
    <3>3. Reoffered'
      BY <3>1, <1>0, <1>3 DEF Reoffered
    <3> QED
      BY <3>2, <3>3
  <2> QED
    BY <2>1, <2>2
<1>9. HandlersRight' /\ LinesHeld' /\ AnswerRight'
  <2>1. HandlersRight'
    BY <1>0 DEF MediaInv, HandlersRight
  <2>2. LinesHeld'
    BY <1>0 DEF MediaInv, LinesHeld
  <2>3. AnswerRight'
    BY <1>0 DEF MediaInv, AnswerRight, AnswerFits, Answered, AnswerGiven
  <2> QED
    BY <2>1, <2>2, <2>3
<1>10. config' \in [Sides -> Configs] /\ exchanges' \in 0..MaxExchanges
  BY <1>0, MediaAssumption DEF MediaInv
<1>11. NumbersKeptStep
  BY <1>0, NoneMade
<1> QED
  BY <1>7, <1>8, <1>9, <1>10, <1>11 DEF MediaInv

(* An offer of another make. *)
LEMMA PeerOffered ==
  ASSUME MediaInv, NEW s \in Sides, NEW l \in MediaLines, NEW m \in PeerLines, PeerOffer(s, l, m)
  PROVE  MediaInv' /\ NumbersKeptStep
<1>0. /\ config[s].foreign /\ pending = NoLine /\ exchanges < MaxExchanges
      /\ pending' = [from |-> s, line |-> l, offer |-> m, media |-> m.media]
      /\ exchanges' = exchanges + 1
      /\ UNCHANGED <<config, counter, codecs, brought, reclaimed, handler, localLine, last>>
  BY DEF PeerOffer
<1>1. IsLine(m) /\ m.dir \in Directions \cup {NONE}
  BY MediaAssumption
<1>2. pending'.from = s /\ pending'.line = l /\ pending'.offer = m
  BY <1>0
<1>3. OfferRight' /\ Reoffered'
  BY <1>0, <1>1, <1>2 DEF OfferRight, Reoffered
<1>4. HandlersRight' /\ LinesHeld' /\ AnswerRight' /\ NumbersRight'
  <2>1. HandlersRight'
    BY <1>0 DEF MediaInv, HandlersRight
  <2>2. LinesHeld'
    BY <1>0 DEF MediaInv, LinesHeld
  <2>3. AnswerRight'
    BY <1>0 DEF MediaInv, AnswerRight, AnswerFits, Answered, AnswerGiven
  <2>4. NumbersRight'
    BY <1>0 DEF MediaInv, NumbersRight
  <2> QED
    BY <2>1, <2>2, <2>3, <2>4
<1>5. config' \in [Sides -> Configs] /\ exchanges' \in 0..MaxExchanges
  BY <1>0, MediaAssumption DEF MediaInv
<1>6. NumbersKeptStep
  BY <1>0, NoneMade
<1> QED
  BY <1>3, <1>4, <1>5, <1>6 DEF MediaInv

(* An offer that its handler supports becomes a line it holds. *)
LEMMA OfferHeld ==
  ASSUME NEW h, NEW g, g.fmts = h.fmts, g.made, NEW o, IsLine(o), PortOrNone(o), AllSupported(h, o)
  PROVE  Held(g, o)
<1>1. Len(o.fmts) \in Nat /\ DOMAIN o.fmts = 1..Len(o.fmts)
  BY LenProperties DEF IsLine
<1>2. ASSUME NEW i \in 1..Len(o.fmts)
      PROVE  format_supported(g, o, o.fmts[i]) <=> i <= Len(o.fmts)
  <2>1. format_supported(h, o, o.fmts[i])
    BY <1>1 DEF AllSupported
  <2>2. format_supported(g, o, o.fmts[i])
    BY <2>1, SameFormats
  <2> QED
    BY <2>2, <1>1
<1>3. Len(o.fmts) \in 0..Len(o.fmts)
  BY <1>1
<1>4. FirstOnes(g, o, Len(o.fmts))
  BY <1>2, <1>3 DEF FirstOnes
<1> QED
  BY <1>3, <1>4 DEF Held

(* An endpoint of another make takes an offer. *)
LEMMA PeerAnswered ==
  ASSUME MediaInv, NEW s \in Sides, NEW l \in MediaLines, PeerAnswer(s, l)
  PROVE  MediaInv' /\ NumbersKeptStep
<1> DEFINE from == pending.from
           o == pending.offer
<1>0. /\ pending # NoLine /\ pending.line = l /\ pending' = NoLine
      /\ localLine' = [localLine EXCEPT ![from][l] = o]
      /\ last' = NoLine
      /\ UNCHANGED <<config, counter, codecs, brought, reclaimed, handler, exchanges>>
  BY DEF PeerAnswer
<1>1. /\ from \in Sides /\ IsLine(o)
      /\ ~config[from].foreign => /\ handler[from][l].made
                                  /\ PortOrNone(o) /\ AllSupported(handler[from][l], o)
  BY <1>0 DEF MediaInv, OfferRight
<1> HIDE DEF from, o
<1>2. LinesHeld'
  <2>1. /\ localLine' = [t \in Sides |-> [k \in MediaLines |-> localLine'[t][k]]]
        /\ \A t \in Sides, k \in MediaLines :
             localLine'[t][k] = IF t = from /\ k = l THEN o ELSE localLine[t][k]
    BY <1>0, <1>1 DEF MediaInv, LinesHeld
  <2>2. ASSUME NEW t \in Sides, NEW k \in MediaLines, localLine'[t][k] # NoLine, ~config[t].foreign
        PROVE  Held(handler[t][k], localLine'[t][k])
    <3>1. CASE t = from /\ k = l
      <4>1. Held(handler[from][l], o)
        BY <3>1, <2>2, <1>1, OfferHeld
      <4> QED
        BY <4>1, <3>1, <2>1
    <3>2. CASE ~(t = from /\ k = l)
      <4>1. localLine'[t][k] = localLine[t][k]
        BY <3>2, <2>1
      <4> QED
        BY <4>1, <2>2 DEF MediaInv, LinesHeld
    <3> QED
      BY <3>1, <3>2
  <2> QED
    BY <2>1, <2>2, <1>0 DEF LinesHeld
<1>3. OfferRight' /\ Reoffered'
  BY <1>0 DEF OfferRight, Reoffered, NoLine
<1>4. HandlersRight' /\ AnswerRight' /\ NumbersRight'
  <2>1. HandlersRight'
    BY <1>0 DEF MediaInv, HandlersRight
  <2>2. AnswerRight'
    BY <1>0 DEF AnswerRight, AnswerFits, Answered, AnswerGiven, NoLine
  <2>3. NumbersRight'
    BY <1>0 DEF MediaInv, NumbersRight
  <2> QED
    BY <2>1, <2>2, <2>3
<1>5. NumbersKeptStep
  BY <1>0, NoneMade
<1> QED
  BY <1>0, <1>2, <1>3, <1>4, <1>5 DEF MediaInv

(* create_answer, and the offerer taking the answer. *)
LEMMA AnswerCreated ==
  ASSUME MediaInv, NEW s \in Sides, NEW l \in MediaLines, CreateMediaAnswer(s, l)
  PROVE  MediaInv' /\ NumbersKeptStep
<1> DEFINE offer == pending.offer
           from == pending.from
           cf == config[s]
           h == handler[s][l]
           a == Answer(cf, h, offer)
           managed == manage_protocol(cf.proto, offer.proto)
           fails == AnswerFails(cf, h, offer, a)
           rejected == (a.port = 0)
<1>0. /\ pending # NoLine /\ pending.line = l /\ from # s
      /\ h.made /\ ~h.rejected /\ pending' = NoLine
      /\ managed => /\ codecs' = [codecs EXCEPT ![s] = Registered(h, offer, cf.share, @)]
                    /\ brought' = [brought EXCEPT ![s] = Registered(h, offer, TRUE, @)]
      /\ ~managed => codecs' = codecs /\ brought' = brought
      /\ fails => /\ last' = [offerer |-> from, answerer |-> s, line |-> l, offer |-> offer,
                              answer |-> NoLine]
                  /\ handler' = handler /\ localLine' = localLine
      /\ ~fails =>
           /\ last' = [offerer |-> from, answerer |-> s, line |-> l, offer |-> offer, answer |-> a]
           /\ handler' = [x \in Sides |-> IF x \in {s, from}
                                          THEN [handler[x] EXCEPT ![l].rejected = rejected]
                                          ELSE handler[x]]
           /\ localLine' = [x \in Sides |-> CASE x = s -> [localLine[x] EXCEPT ![l] = a]
                                          [] x = from -> [localLine[x] EXCEPT ![l] = offer]
                                          [] OTHER -> localLine[x]]
      /\ UNCHANGED <<config, counter, reclaimed, exchanges>>
  BY DEF CreateMediaAnswer
<1>1. /\ from \in Sides /\ IsLine(offer) /\ offer.dir \in Directions \cup {NONE}
      /\ ~config[from].foreign => /\ handler[from][l].made /\ ~handler[from][l].rejected
                                  /\ PortOrNone(offer) /\ AllSupported(handler[from][l], offer)
  BY <1>0 DEF MediaInv, OfferRight
<1>2. cf.share \in BOOLEAN /\ ~cf.foreign
  BY <1>0, MediaAssumption DEF MediaInv, HandlersRight
<1> HIDE DEF offer, from, h
<1>3. /\ IsLine(a) /\ a # NoLine /\ FitsOffer(a, offer)
      /\ ~rejected => \E k \in 0..Len(a.fmts) : FirstOnes(h, a, k)
      /\ managed => ~fails
  BY <1>1, AnswerMade
<1> HIDE DEF a, managed, fails, rejected
<1>4. handler \in [Sides -> [MediaLines -> HandlerRecords]] /\ rejected \in BOOLEAN
  BY DEF MediaInv, HandlersRight, rejected
<1>5. \A t \in Sides, k \in MediaLines :
        /\ handler'[t][k] \in HandlerRecords
        /\ handler'[t][k].made = handler[t][k].made /\ handler'[t][k].fmts = handler[t][k].fmts
        /\ handler'[t][k].rejected = IF ~fails /\ t \in {s, from} /\ k = l THEN rejected
                                     ELSE handler[t][k].rejected
  <2>1. CASE fails
    BY <2>1, <1>0, <1>4
  <2>2. CASE ~fails
    <3> SUFFICES ASSUME NEW t \in Sides, NEW k \in MediaLines
                 PROVE  /\ handler'[t][k] \in HandlerRecords
                        /\ handler'[t][k].made = handler[t][k].made
                        /\ handler'[t][k].fmts = handler[t][k].fmts
                        /\ handler'[t][k].rejected = IF ~fails /\ t \in {s, from} /\ k = l THEN rejected
                                                     ELSE handler[t][k].rejected
      OBVIOUS
    <3>1. handler[t][k] \in HandlerRecords
      BY <1>4
    <3>2. CASE t \in {s, from} /\ k = l
      <4>1. handler'[t][k] = [handler[t][k] EXCEPT !.rejected = rejected]
        <5>1. handler'[t] = [handler[t] EXCEPT ![l].rejected = rejected]
          BY <2>2, <3>2, <1>0
        <5>2. handler[t] \in [MediaLines -> HandlerRecords]
          BY <1>4
        <5> QED
          BY <3>2, <5>1, <5>2
      <4> QED
        BY <4>1, <3>1, <3>2, <2>2, <1>4 DEF HandlerRecords
    <3>3. CASE ~(t \in {s, from} /\ k = l)
      <4>1. handler'[t][k] = handler[t][k]
        BY <2>2, <3>3, <1>0, <1>4
      <4> QED
        BY <4>1, <3>1, <3>3
    <3> QED
      BY <3>2, <3>3
  <2> QED
    BY <2>1, <2>2
<1>6. HandlersRight'
  <2>1. handler' \in [Sides -> [MediaLines -> HandlerRecords]]
    <3>1. CASE fails
      BY <3>1, <1>0, <1>4
    <3>2. CASE ~fails
      <4>1. handler' = [x \in Sides |-> handler'[x]]
        BY <3>2, <1>0
      <4>2. ASSUME NEW x \in Sides
            PROVE  handler'[x] \in [MediaLines -> HandlerRecords]
        <5>1. handler'[x] = [k \in MediaLines |-> handler'[x][k]]
          BY <3>2, <1>0, <1>4
        <5> QED
          BY <5>1, <1>5
      <4> QED
        BY <4>1, <4>2
    <3> QED
      BY <3>1, <3>2
  <2>2. ASSUME NEW t \in Sides, NEW k \in MediaLines, handler'[t][k].made
        PROVE  /\ ~config[t].foreign /\ handler'[t][k].fmts \in FormatLists
               /\ \A d \in MediaKinds : OneNumberEach(handler'[t][k].fmts[d])
    <3>1. handler[t][k].made /\ handler'[t][k].fmts = handler[t][k].fmts
      BY <2>2, <1>5
    <3> QED
      BY <3>1 DEF MediaInv, HandlersRight
  <2> QED
    BY <2>1, <2>2, <1>0 DEF HandlersRight
<1>7. LinesHeld'
  <2>1. CASE fails
    BY <2>1, <1>0 DEF MediaInv, LinesHeld
  <2>2. CASE ~fails
    <3>0. localLine = [t \in Sides |-> [k \in MediaLines |-> localLine[t][k]]]
      BY DEF MediaInv, LinesHeld
    <3>1. \A t \in Sides, k \in MediaLines :
            localLine'[t][k] = IF k = l /\ t = s THEN a ELSE IF k = l /\ t = from THEN offer
                               ELSE localLine[t][k]
      <4> SUFFICES ASSUME NEW t \in Sides, NEW k \in MediaLines
                   PROVE  localLine'[t][k] = IF k = l /\ t = s THEN a
                                             ELSE IF k = l /\ t = from THEN offer
                                             ELSE localLine[t][k]
        OBVIOUS
      <4>1. localLine[t] = [j \in MediaLines |-> localLine[t][j]]
        BY <3>0
      <4>2. CASE t = s
        <5>1. localLine'[t] = [localLine[t] EXCEPT ![l] = a]
          BY <4>2, <2>2, <1>0
        <5> QED
          BY <4>1, <4>2, <5>1, <1>0
      <4>3. CASE t = from
        <5>1. localLine'[t] = [localLine[t] EXCEPT ![l] = offer]
          BY <4>3, <2>2, <1>0
        <5> QED
          BY <4>1, <4>3, <5>1, <1>0
      <4>4. CASE t # s /\ t # from
        <5>1. localLine'[t] = localLine[t]
          BY <4>4, <2>2, <1>0
        <5> QED
          BY <4>4, <5>1
      <4> QED
        BY <4>2, <4>3, <4>4
    <3>2. localLine' = [t \in Sides |-> [k \in MediaLines |-> localLine'[t][k]]]
      <4>1. localLine' = [x \in Sides |-> localLine'[x]]
        BY <2>2, <1>0
      <4>2. ASSUME NEW x \in Sides
            PROVE  localLine'[x] = [k \in MediaLines |-> localLine'[x][k]]
        <5>1. localLine[x] = [k \in MediaLines |-> localLine[x][k]]
          BY <3>0
        <5>2. CASE x = s
          BY <5>1, <5>2, <2>2, <1>0
        <5>3. CASE x # s /\ x = from
          BY <5>1, <5>3, <2>2, <1>0
        <5>4. CASE x # s /\ x # from
          BY <5>1, <5>4, <2>2, <1>0
        <5> QED
          BY <5>2, <5>3, <5>4
      <4> QED
        BY <4>1, <4>2
    <3>3. ASSUME NEW t \in Sides, NEW k \in MediaLines, localLine'[t][k] # NoLine, ~config[t].foreign
          PROVE  Held(handler'[t][k], localLine'[t][k])
      <4>1. CASE k = l /\ t = s
        <5> DEFINE g == handler'[s][l]
        <5>1. g.made /\ g.fmts = h.fmts /\ g.rejected = rejected
          BY <2>2, <1>0, <1>5 DEF h
        <5> HIDE DEF g
        <5>2. ASSUME ~rejected
              PROVE  PortOrNone(a) /\ \E i \in 0..Len(a.fmts) : FirstOnes(g, a, i)
          <6>1. PICK i \in 0..Len(a.fmts) : FirstOnes(h, a, i)
            BY <5>2, <1>3
          <6>2. FirstOnes(g, a, i)
            BY <6>1, <5>1, SameFormats DEF FirstOnes
          <6>3. PortOrNone(a)
            BY <5>2 DEF PortOrNone, rejected
          <6> QED
            BY <6>2, <6>3
        <5>3. Held(g, a)
          BY <5>1, <5>2, <1>3 DEF Held
        <5> QED
          BY <5>3, <4>1, <3>1 DEF g
      <4>2. CASE k = l /\ t # s /\ t = from
        <5> DEFINE g == handler'[from][l]
                   f == handler[from][l]
        <5>1. g.made /\ g.fmts = f.fmts /\ PortOrNone(offer) /\ AllSupported(f, offer)
          BY <4>2, <3>3, <1>1, <1>5
        <5> HIDE DEF g, f
        <5>2. Held(g, offer)
          BY <5>1, <1>1, OfferHeld
        <5> QED
          BY <5>2, <4>2, <3>1 DEF g
      <4>3. CASE ~(k = l /\ t \in {s, from})
        <5> DEFINE g == handler'[t][k]
                   f == handler[t][k]
                   m == localLine[t][k]
        <5>1. localLine'[t][k] = m
          BY <4>3, <3>1
        <5>2. Held(f, m)
          BY <5>1, <3>3 DEF MediaInv, LinesHeld
        <5>3. g.made = f.made /\ g.fmts = f.fmts /\ g.rejected = f.rejected
          BY <4>3, <1>5
        <5> HIDE DEF g, f, m
        <5>4. ASSUME ~g.rejected
              PROVE  PortOrNone(m) /\ \E i \in 0..Len(m.fmts) : FirstOnes(g, m, i)
          <6>1. PortOrNone(m) /\ \E i \in 0..Len(m.fmts) : FirstOnes(f, m, i)
            BY <5>2, <5>3, <5>4 DEF Held
          <6>2. PICK i \in 0..Len(m.fmts) : FirstOnes(f, m, i)
            BY <6>1
          <6>3. FirstOnes(g, m, i)
            BY <6>2, <5>3, SameFormats DEF FirstOnes
          <6> QED
            BY <6>1, <6>3
        <5>5. Held(g, m)
          BY <5>2, <5>3, <5>4 DEF Held
        <5> QED
          BY <5>1, <5>5 DEF g
      <4> QED
        BY <4>1, <4>2, <4>3
    <3> QED
      BY <3>2, <3>3, <1>0 DEF LinesHeld
  <2> QED
    BY <2>1, <2>2
<1>8. NumbersRight'
  <2>0. /\ codecs \in [Sides -> Tables] /\ brought \in [Sides -> Tables]
        /\ reclaimed \in [Sides -> BOOLEAN]
    BY DEF MediaInv, NumbersRight
  <2>1. CASE ~managed
    BY <2>1, <1>0 DEF MediaInv, NumbersRight
  <2>2. CASE managed
    <3> DEFINE share == cf.share
               b == Registered(h, offer, TRUE, brought[s])
               t == Registered(h, offer, share, codecs[s])
    <3>1. codecs' = [codecs EXCEPT ![s] = t] /\ brought' = [brought EXCEPT ![s] = b]
      BY <2>2, <1>0
    <3>2. share \in BOOLEAN /\ brought[s] \in Tables /\ codecs[s] \in Tables
      BY <2>0, <1>2
    <3>3. SupportedFmts(h, offer) \in Seq(Nat) /\ offer.rtpmap \in SUBSET (Nat \X Codec)
      BY <1>1, SupportedLeft DEF Once, IsLine
    <3> HIDE DEF share
    <3>4. b \in Tables
      BY <3>2, <3>3, RegisteredInStep
    <3>5. t \in Tables
      BY <3>2, <3>3, RegisteredInStep
    <3>6. share /\ InStep(brought[s], codecs[s]) => InStep(b, t)
      BY <3>2, <3>3, RegisteredInStep
    <3> HIDE DEF b, t
    <3>7. codecs' \in [Sides -> Tables] /\ brought' \in [Sides -> Tables]
      BY <3>1, <3>4, <3>5, <2>0
    <3>8. ASSUME NEW x \in Sides, config[x].share, ~reclaimed[x]
          PROVE  InStep(brought'[x], codecs'[x])
      <4>1. InStep(brought[x], codecs[x])
        BY <3>8 DEF MediaInv, NumbersRight
      <4>2. CASE x = s
        <5>1. share /\ brought'[x] = b /\ codecs'[x] = t
          BY <4>2, <3>1, <3>8, <2>0 DEF share
        <5> QED
          BY <5>1, <4>1, <4>2, <3>6
      <4>3. CASE x # s
        BY <4>1, <4>3, <3>1, <2>0
      <4> QED
        BY <4>2, <4>3
    <3> QED
      BY <3>7, <3>8, <1>0 DEF MediaInv, NumbersRight
  <2> QED
    BY <2>1, <2>2
<1>9. OfferRight' /\ Reoffered'
  BY <1>0 DEF OfferRight, Reoffered, NoLine
<1>10. AnswerRight'
  <2>1. CASE fails
    <3>1. last'.answer = NoLine /\ last'.offer = offer /\ last'.answerer = s
      BY <2>1, <1>0
    <3>2. AnswerFits'
      BY <3>1 DEF AnswerFits, Answered, NoLine
    <3>3. ~manage_protocol(config[s].proto, offer.proto)
      BY <2>1, <1>3 DEF managed
    <3>4. AnswerGiven'
      BY <3>1, <3>3, <1>0 DEF AnswerGiven
    <3> QED
      BY <3>2, <3>4 DEF AnswerRight
  <2>2. CASE ~fails
    <3>1. last'.answer = a /\ last'.offer = offer
      BY <2>2, <1>0
    <3>2. AnswerFits'
      <4>1. FitsOffer(last'.answer, last'.offer)
        BY <3>1, <1>3
      <4> QED
        BY <4>1 DEF AnswerFits
    <3>3. AnswerGiven'
      BY <3>1, <1>3 DEF AnswerGiven, NoLine
    <3> QED
      BY <3>2, <3>3 DEF AnswerRight
  <2> QED
    BY <2>1, <2>2
<1>11. NumbersKeptStep
  BY <1>5, NoneMade
<1> QED
  BY <1>0, <1>6, <1>7, <1>8, <1>9, <1>10, <1>11 DEF MediaInv

(* Every step keeps the invariant, and gives out no number that peers use. *)
LEMMA MediaStep ==
  ASSUME MediaInv, [MediaNext]_mediaVars
  PROVE  MediaInv' /\ [NumbersKeptStep]_mediaVars
<1>1. CASE MediaNext
  <2>1. PICK s \in Sides, l \in MediaLines :
          \/ CreateHandler(s, l) \/ CreateMediaOffer(s, l) \/ CreateMediaAnswer(s, l)
          \/ (\E m \in PeerLines : PeerOffer(s, l, m)) \/ PeerAnswer(s, l)
    BY <1>1 DEF MediaNext
  <2>2. MediaInv' /\ NumbersKeptStep
    BY <2>1, HandlerCreated, OfferCreated, AnswerCreated, PeerOffered, PeerAnswered
  <2> QED
    BY <2>2
<1>2. CASE UNCHANGED mediaVars
  <2>0. UNCHANGED <<config, counter, codecs, brought, reclaimed, handler, localLine, pending,
                    last, exchanges>>
    BY <1>2 DEF mediaVars
  <2>1. HandlersRight' /\ LinesHeld' /\ OfferRight' /\ NumbersRight'
    BY <2>0 DEF MediaInv, HandlersRight, LinesHeld, OfferRight, NumbersRight
  <2>2. Reoffered' /\ AnswerRight'
    BY <2>0 DEF MediaInv, Reoffered, AnswerRight, AnswerFits, Answered, AnswerGiven
  <2> QED
    BY <1>2, <2>0, <2>1, <2>2 DEF MediaInv
<1> QED
  BY <1>1, <1>2

(* MediaInv is inductive. *)
THEOREM MediaInvariant == MediaSpec => []MediaInv
<1>1. MediaInit => MediaInv
  BY MediaInitRight
<1>2. MediaInv /\ [MediaNext]_mediaVars => MediaInv'
  BY MediaStep
<1> QED
  BY <1>1, <1>2, PTL DEF MediaSpec

(* The tables, counters and handlers have their types: every number of a format is one of
   rfc3551 or a dynamic one. *)
THEOREM MediaTypeCorrect == MediaSpec => []MediaTypeOK
<1>1. MediaInv => MediaTypeOK
  <2> SUFFICES ASSUME MediaInv
               PROVE  MediaTypeOK
    OBVIOUS
  <2>1. \A s \in Sides : \A pt \in Dynamic : codecs[s][pt] \in Codec \cup {NONE}
    BY DEF MediaInv, NumbersRight, Tables
  <2>2. ASSUME NEW s \in Sides, NEW l \in MediaLines, NEW k \in MediaKinds, handler[s][l].made,
               NEW i \in DOMAIN handler[s][l].fmts[k]
        PROVE  handler[s][l].fmts[k][i].payload \in Payloads
    <3> DEFINE fs == handler[s][l].fmts[k]
    <3>1. fs \in Seq(Formats)
      BY <2>2 DEF MediaInv, HandlersRight, FormatLists
    <3>2. i \in DOMAIN fs
      BY <2>2
    <3> HIDE DEF fs
    <3>3. fs[i] \in Formats
      BY <3>1, <3>2, LenProperties, ElementOfSeq
    <3>4. fs[i].payload \in Payloads
      BY <3>3 DEF Formats
    <3> QED
      BY <3>4 DEF fs
  <2>3. /\ config \in [Sides -> Configs] /\ counter \in [Sides -> Nat]
        /\ exchanges \in 0 .. MaxExchanges
    BY DEF MediaInv, NumbersRight
  <2> QED
    BY <2>1, <2>2, <2>3 DEF MediaTypeOK
<1> QED
  BY <1>1, MediaInvariant, PTL

(* Whatever codecs, numbers, protocols and properties two endpoints have, and whatever a peer
   of another make offers, an answer of the chain of handlers fits the offer, and there is
   one for every offer of a protocol that is managed. *)
THEOREM AnswersFitOffers == MediaSpec => []AnswerRight
<1>1. MediaInv => AnswerRight
  BY DEF MediaInv
<1> QED
  BY <1>1, MediaInvariant, PTL

(* A line offered anew has the formats, numbers and parameters agreed on: looking parameters
   up by position in the previous line (add_supported_fmtp) is right because the formats
   that are supported are its first ones. *)
THEOREM AgreedIsReoffered == MediaSpec => []Reoffered
<1>1. MediaInv => Reoffered
  BY DEF MediaInv
<1> QED
  BY <1>1, MediaInvariant, PTL

(* A manager that shares numbers gives a later handler none that peers use for another
   codec, however many lines, codecs and exchanges there are, unless a line took back one
   of its old numbers. *)
THEOREM NumbersStayApart == MediaSpec => NumbersKept
<1>1. MediaInit => MediaInv
  BY MediaInitRight
<1>2. MediaInv /\ [MediaNext]_mediaVars => MediaInv' /\ [NumbersKeptStep]_mediaVars
  BY MediaStep
<1>3. [][NumbersKeptStep]_mediaVars => NumbersKept
  BY DEF NumbersKept, NumbersKeptStep
<1> QED
  BY <1>1, <1>2, <1>3, PTL DEF MediaSpec

-----------------------------------------------------------------------------
(* Names and groups of lines.                                              *)

(* What an offer or an answer has been made of so far. *)
Making == [hs : Seq(LineHandler), used : Seq(Mid), next : [LineKinds -> Nat],
           lines : Seq(NamedLine)]

(* No name is the missing one. *)
LEMMA NoMidIsNoName == NoMid \notin Mid
BY GroupAssumption DEF NoMid, Mid

(* A function on the first numbers is a sequence. *)
LEMMA FunctionIsList ==
  ASSUME NEW S, NEW n \in Nat, NEW f \in [1 .. n -> S]
  PROVE  f \in Seq(S) /\ Len(f) = n
OBVIOUS

(* assign_mid: among as many numbers as there are names in the list, and one more, some
   number makes a name that is not in the list. *)
LEMMA NumberIsFree ==
  ASSUME NEW a \in Making, NEW k \in LineKinds
  PROVE  /\ assign_mid(a, k) \in Nat
         /\ ~Contains(a.used, <<k, assign_mid(a, k)>>)
<1> DEFINE used == a.used
           from == a.next[k]
           to == from + Len(used)
           free == {n \in from .. to : ~Contains(used, <<k, n>>)}
<1>1. used \in Seq(Mid) /\ from \in Nat
  BY DEF Making
<1>2. Len(used) \in Nat /\ to \in Nat
  BY <1>1, LenProperties
<1>3. assign_mid(a, k) = Min(free)
  BY DEF assign_mid
<1> HIDE DEF used, from
<1>4. ASSUME free = {}
      PROVE  FALSE
  <2> DEFINE place == [n \in from .. to |-> CHOOSE i \in 1 .. Len(used) : used[i] = <<k, n>>]
  <2>1. ASSUME NEW n \in from .. to
        PROVE  place[n] \in 1 .. Len(used) /\ used[place[n]] = <<k, n>>
    <3>1. Contains(used, <<k, n>>)
      BY <1>4
    <3>2. \E i \in 1 .. Len(used) : used[i] = <<k, n>>
      BY <3>1, Zenon DEF Contains
    <3> QED
      BY <3>2
  <2>a. DOMAIN place = from .. to /\ place = [n \in from .. to |-> place[n]]
    OBVIOUS
  <2> HIDE DEF place
  <2>2. place \in [from .. to -> 1 .. Len(used)]
    BY <2>1, <2>a
  <2>b. from \in Int /\ to \in Int /\ ~(from > to) /\ to - from + 1 = Len(used) + 1
    BY <1>1, <1>2
  <2> HIDE DEF to
  <2>3. /\ IsFiniteSet(from .. to) /\ Cardinality(from .. to) = Len(used) + 1
    BY <2>b, FS_Interval
  <2>4. /\ IsFiniteSet(1 .. Len(used)) /\ Cardinality(1 .. Len(used)) = Len(used)
    BY <1>1, <1>2, FS_Interval
  <2>5. Cardinality(1 .. Len(used)) < Cardinality(from .. to)
    BY <1>2, <2>3, <2>4
  <2>6. \E x, y \in from .. to : x # y /\ place[x] = place[y]
    BY <2>2, <2>3, <2>4, <2>5, FS_PigeonHole
  <2>7. PICK x \in from .. to, y \in from .. to : x # y /\ place[x] = place[y]
    BY <2>6
  <2>8. <<k, x>> = <<k, y>>
    BY <2>1, <2>7
  <2> QED
    BY <2>7, <2>8
<1>5. free \in SUBSET Nat
  BY <1>1, <1>2
<1>6. Min(free) \in free
  BY <1>4, <1>5, MinIsLeast
<1>7. Min(free) \in Nat /\ ~Contains(used, <<k, Min(free)>>)
  BY <1>5, <1>6
<1> QED
  BY <1>3, <1>7 DEF used

(* gs is hs with e in place of handler j. *)
OneChanged(hs, gs, j, e) ==
  /\ gs \in Seq(LineHandler) /\ Len(gs) = Len(hs)
  /\ \A i \in 1 .. Len(hs) : gs[i] = IF i = j THEN e ELSE hs[i]

Renamed(hs, j, nm) == [hs EXCEPT ![j].mid = nm]

(* Renaming a handler leaves a list of handlers. *)
LEMMA HandlerRenamed ==
  ASSUME NEW hs \in Seq(LineHandler), NEW j \in 1 .. Len(hs), NEW nm \in Mid \cup {NoMid}
  PROVE  OneChanged(hs, Renamed(hs, j, nm), j, [hs[j] EXCEPT !.mid = nm])
<1>1. hs[j] \in LineHandler
  BY ElementOfSeq
<1> DEFINE e == [hs[j] EXCEPT !.mid = nm]
<1>2. e \in LineHandler
  BY <1>1 DEF LineHandler
<1> HIDE DEF e
<1>3. /\ [hs EXCEPT ![j] = e] \in Seq(LineHandler)
      /\ Len([hs EXCEPT ![j] = e]) = Len(hs)
      /\ \A i \in 1 .. Len(hs) : [hs EXCEPT ![j] = e][i] = IF i = j THEN e ELSE hs[i]
  BY <1>2, ExceptSeq
<1> QED
  <2>1. Renamed(hs, j, nm) = [hs EXCEPT ![j] = e]
    BY Zenon DEF e, Renamed
  <2>2. e = [hs[j] EXCEPT !.mid = nm]
    BY DEF e
  <2> QED
    BY <1>3, <2>1, <2>2 DEF OneChanged

(* A handler that had no name gets one that is not in the list, and then is. *)
NameGiven(a, b, j, nm) ==
  /\ Len(b.hs) = Len(a.hs)
  /\ \A i \in 1 .. Len(a.hs) : b.hs[i] = IF i = j THEN [a.hs[i] EXCEPT !.mid = nm] ELSE a.hs[i]
  /\ IF a.hs[j].mid = NoMid THEN ~Contains(a.used, nm) /\ b.used = Append(a.used, nm)
     ELSE nm = a.hs[j].mid /\ b.used = a.used

(* OfferName: the line gets the name of the handler, which is a new one if it had none. *)
LEMMA OfferNamed ==
  ASSUME NEW a \in Making, NEW j \in 1 .. Len(a.hs), NEW line \in NamedLine
  PROVE  LET b == OfferName(a, j, line)
         IN  /\ b \in Making
             /\ \E nm \in Mid : /\ NameGiven(a, b, j, nm)
                                /\ b.lines = Append(a.lines, [line EXCEPT !.mid = nm])
<1> DEFINE h == a.hs[j]
           n == assign_mid(a, h.kind)
           o == on_offer_mid(a, j)
           nm == o.hs[j].mid
           b == OfferName(a, j, line)
<1>0. a.hs \in Seq(LineHandler) /\ a.used \in Seq(Mid) /\ a.next \in [LineKinds -> Nat]
      /\ a.lines \in Seq(NamedLine)
  BY DEF Making
<1>1. h \in LineHandler
  BY <1>0, ElementOfSeq
<1>2. h.kind \in LineKinds /\ h.mid \in Mid \cup {NoMid}
  BY <1>1 DEF LineHandler
<1>3. n \in Nat /\ ~Contains(a.used, <<h.kind, n>>)
  BY <1>2, NumberIsFree
<1>4. o \in Making /\ o.lines = a.lines /\ nm \in Mid /\ NameGiven(a, o, j, nm)
  <2>1. CASE h.mid # NoMid
    <3>1. o = a
      BY <2>1 DEF on_offer_mid
    <3>2. h = [h EXCEPT !.mid = h.mid]
      BY <1>1 DEF LineHandler
    <3>3. nm = h.mid
      BY <3>1
    <3> HIDE DEF o, nm
    <3>4. \A i \in 1 .. Len(a.hs) : o.hs[i] = IF i = j THEN [a.hs[i] EXCEPT !.mid = nm] ELSE a.hs[i]
      BY <3>1, <3>2, <3>3
    <3> QED
      BY <1>2, <2>1, <3>1, <3>3, <3>4 DEF NameGiven
  <2>2. CASE h.mid = NoMid
    <3> DEFINE new == <<h.kind, n>>
               old == {i \in 1 .. Len(a.used) : a.used[i] = a.hs[j].mid}
               u == update_mid(a, j, new)
               hs == [a.hs EXCEPT ![j].mid = new]
    <3>1. new \in Mid
      BY <1>2, <1>3 DEF Mid
    <3>2. old = {}
      <4>1. \A i \in 1 .. Len(a.used) : a.used[i] \in Mid
        BY <1>0, ElementOfSeq
      <4> QED
        BY <2>2, <4>1, NoMidIsNoName
    <3>3. u = [a EXCEPT !.hs[j].mid = new, !.used = Append(a.used, new)]
      BY <3>2 DEF update_mid
    <3>4. o = [u EXCEPT !.next[h.kind] = n + 1]
      BY <2>2 DEF on_offer_mid
    <3> HIDE DEF new, old, u
    <3>5. u = [hs |-> hs, used |-> Append(a.used, new), next |-> a.next, lines |-> a.lines]
      BY <3>3 DEF Making
    <3>6. o = [hs |-> hs, used |-> Append(a.used, new),
               next |-> [a.next EXCEPT ![h.kind] = n + 1], lines |-> a.lines]
      BY <3>4, <3>5
    <3> HIDE DEF o
    <3>7. /\ hs \in Seq(LineHandler) /\ Len(hs) = Len(a.hs)
          /\ \A i \in 1 .. Len(a.hs) : hs[i] = IF i = j THEN [a.hs[i] EXCEPT !.mid = new] ELSE a.hs[i]
      <4> DEFINE g == a.hs
      <4>1. g \in Seq(LineHandler) /\ j \in 1 .. Len(g) /\ new \in Mid \cup {NoMid}
        BY <1>0, <3>1
      <4> HIDE DEF g
      <4>2. OneChanged(g, Renamed(g, j, new), j, [g[j] EXCEPT !.mid = new])
        BY <4>1, HandlerRenamed
      <4>3. Renamed(g, j, new) = hs
        BY Zenon DEF g, Renamed
      <4> HIDE DEF hs
      <4> QED
        BY <4>2, <4>3 DEF g, OneChanged
    <3>8. Append(a.used, new) \in Seq(Mid)
      BY <1>0, <3>1, AppendProperties
    <3>9. [a.next EXCEPT ![h.kind] = n + 1] \in [LineKinds -> Nat]
      BY <1>0, <1>2, <1>3
    <3> HIDE DEF hs
    <3>10. nm = new
      <4>1. nm = hs[j].mid
        BY <3>6
      <4>2. hs[j] = [h EXCEPT !.mid = new]
        BY <3>7
      <4> QED
        BY <4>1, <4>2, <1>1 DEF LineHandler
    <3> HIDE DEF nm, n
    <3>11. o \in Making /\ o.lines = a.lines /\ o.hs = hs /\ o.used = Append(a.used, new)
      BY <3>6, <3>7, <3>8, <3>9, <1>0 DEF Making
    <3>12. ~Contains(a.used, new)
      BY <1>3 DEF new
    <3>13. NameGiven(a, o, j, nm)
      BY <2>2, <3>7, <3>10, <3>11, <3>12 DEF NameGiven
    <3> QED
      BY <3>1, <3>10, <3>11, <3>13
  <2> QED
    BY <2>1, <2>2
<1>5. b = [o EXCEPT !.lines = Append(o.lines, [line EXCEPT !.mid = nm])]
  BY DEF OfferName
<1> HIDE DEF o, nm, h, n, b
<1>6. [line EXCEPT !.mid = nm] \in NamedLine
  BY <1>4 DEF NamedLine
<1>7. Append(o.lines, [line EXCEPT !.mid = nm]) \in Seq(NamedLine)
  BY <1>0, <1>4, <1>6, AppendProperties
<1>8. /\ b \in Making /\ b.hs = o.hs /\ b.used = o.used
      /\ b.lines = Append(a.lines, [line EXCEPT !.mid = nm])
  BY <1>4, <1>5, <1>7 DEF Making
<1>9. NameGiven(a, b, j, nm)
  BY <1>4, <1>8 DEF NameGiven
<1> QED
  BY <1>4, <1>8, <1>9 DEF b

(* A handler that has a line holds the name of the line, if the line has one, and no other
   handler has that line. *)
HoldsNames(hs, lines) ==
  /\ \A j \in 1 .. Len(hs) :
       /\ hs[j].line \in 0 .. Len(lines)
       /\ hs[j].line # 0 => lines[hs[j].line].mid \in {NoMid, hs[j].mid}
  /\ \A i, j \in 1 .. Len(hs) : (i # j /\ hs[i].line = hs[j].line) => hs[i].line = 0

(* No two lines have one name. *)
Differ(lines) ==
  \A i, j \in 1 .. Len(lines) : (i # j /\ lines[i].mid # NoMid) => lines[i].mid # lines[j].mid

(* As long as no offer is cancelled the names of lines are different and in the list, and
   only handlers that have a line have a name, the one of the line. *)
Apart(hs, lines, used) ==
  /\ Differ(lines)
  /\ \A i \in 1 .. Len(lines) : lines[i].mid # NoMid => Contains(used, lines[i].mid)
  /\ \A j \in 1 .. Len(hs) :
       hs[j].mid = IF hs[j].line = 0 THEN NoMid ELSE lines[hs[j].line].mid

(* Negotiated handlers keep the names and the lines they have; some may be let go. *)
Grew(hs, gs) ==
  /\ Len(gs) = Len(hs)
  /\ \A i \in 1 .. Len(hs) : gs[i].negotiated =>
       /\ hs[i].negotiated
       /\ hs[i].mid # NoMid => gs[i].mid = hs[i].mid
       /\ hs[i].line # 0 => gs[i].line = hs[i].line

(* One handler, or one line, is renamed. *)
HandlerNamed(hs, gs, j, nm) ==
  /\ Len(gs) = Len(hs)
  /\ \A i \in 1 .. Len(hs) :
       gs[i].line = hs[i].line /\ gs[i].mid = IF i = j THEN nm ELSE hs[i].mid
LineNamed(ls, ms, n, nm) ==
  /\ Len(ms) = Len(ls)
  /\ \A i \in 1 .. Len(ls) : ms[i].mid = IF i = n THEN nm ELSE ls[i].mid

(* A line and its handler get one name: handlers still hold the names of their lines. *)
LEMMA NamedHolds ==
  ASSUME NEW hs, NEW gs, NEW ls, NEW ms, NEW nm, Len(hs) \in Nat, Len(ls) \in Nat,
         NEW j \in 1 .. Len(hs), hs[j].line \in 1 .. Len(ls),
         HoldsNames(hs, ls), HandlerNamed(hs, gs, j, nm), LineNamed(ls, ms, hs[j].line, nm)
  PROVE  HoldsNames(gs, ms)
<1>1. ASSUME NEW i \in 1 .. Len(gs)
      PROVE  /\ gs[i].line \in 0 .. Len(ms)
             /\ gs[i].line # 0 => ms[gs[i].line].mid \in {NoMid, gs[i].mid}
  <2>1. i \in 1 .. Len(hs) /\ gs[i].line = hs[i].line
        /\ gs[i].mid = IF i = j THEN nm ELSE hs[i].mid
    BY DEF HandlerNamed
  <2>2. /\ hs[i].line \in 0 .. Len(ls)
        /\ hs[i].line # 0 => ls[hs[i].line].mid \in {NoMid, hs[i].mid}
        /\ (i # j /\ hs[i].line = hs[j].line) => hs[i].line = 0
    BY <2>1 DEF HoldsNames
  <2>3. Len(ms) = Len(ls)
        /\ (hs[i].line # 0 => ms[hs[i].line].mid = IF hs[i].line = hs[j].line THEN nm
                                                     ELSE ls[hs[i].line].mid)
    BY <2>2 DEF LineNamed
  <2> QED
    BY <2>1, <2>2, <2>3
<1>2. ASSUME NEW i \in 1 .. Len(gs), NEW k \in 1 .. Len(gs), i # k, gs[i].line = gs[k].line
      PROVE  gs[i].line = 0
  BY <1>2 DEF HandlerNamed, HoldsNames
<1> QED
  BY <1>1, <1>2 DEF HoldsNames

(* The same when no other line has the name: names still differ. *)
LEMMA NamedApart ==
  ASSUME NEW hs, NEW gs, NEW ls, NEW ms, NEW nm, Len(hs) \in Nat, Len(ls) \in Nat,
         NEW j \in 1 .. Len(hs), hs[j].line \in 1 .. Len(ls),
         NEW used, NEW more, \A m : Contains(used, m) => Contains(more, m),
         Contains(more, nm), \A i \in 1 .. Len(ls) : i # hs[j].line => ls[i].mid # nm,
         HoldsNames(hs, ls), HandlerNamed(hs, gs, j, nm), LineNamed(ls, ms, hs[j].line, nm),
         Apart(hs, ls, used)
  PROVE  Apart(gs, ms, more)
<1>0. Len(ms) = Len(ls)
      /\ \A i \in 1 .. Len(ls) : ms[i].mid = IF i = hs[j].line THEN nm ELSE ls[i].mid
  BY DEF LineNamed
<1>1. Differ(ms)
  <2>1. Differ(ls)
    BY DEF Apart
  <2> QED
    BY <1>0, <2>1 DEF Differ
<1>2. ASSUME NEW i \in 1 .. Len(ms), ms[i].mid # NoMid
      PROVE  Contains(more, ms[i].mid)
  BY <1>0, <1>2 DEF Apart
<1>3. ASSUME NEW i \in 1 .. Len(gs)
      PROVE  gs[i].mid = IF gs[i].line = 0 THEN NoMid ELSE ms[gs[i].line].mid
  <2>1. i \in 1 .. Len(hs) /\ gs[i].line = hs[i].line
        /\ gs[i].mid = IF i = j THEN nm ELSE hs[i].mid
    BY DEF HandlerNamed
  <2>2. /\ hs[i].line \in 0 .. Len(ls)
        /\ (i # j /\ hs[i].line = hs[j].line) => hs[i].line = 0
        /\ hs[i].mid = IF hs[i].line = 0 THEN NoMid ELSE ls[hs[i].line].mid
    BY <2>1 DEF HoldsNames, Apart
  <2> QED
    BY <1>0, <2>1, <2>2
<1> QED
  BY <1>1, <1>2, <1>3 DEF Apart

(* A handler that has no line gets the next one, which has no name. *)
Attached(hs, gs, ls, ms, j) ==
  /\ Len(gs) = Len(hs) /\ Len(ms) = Len(ls) + 1
  /\ \A i \in 1 .. Len(hs) :
       gs[i].mid = hs[i].mid /\ gs[i].line = IF i = j THEN Len(ls) + 1 ELSE hs[i].line
  /\ \A i \in 1 .. Len(ls) : ms[i].mid = ls[i].mid
  /\ ms[Len(ls) + 1].mid = NoMid

(* That keeps names in place. *)
LEMMA AttachedHolds ==
  ASSUME NEW hs, NEW gs, NEW ls, NEW ms, Len(hs) \in Nat, Len(ls) \in Nat,
         NEW j \in 1 .. Len(hs), hs[j].line = 0, HoldsNames(hs, ls), Attached(hs, gs, ls, ms, j)
  PROVE  /\ HoldsNames(gs, ms)
         /\ \A used : Apart(hs, ls, used) => Apart(gs, ms, used)
<1>1. Len(gs) = Len(hs) /\ Len(ms) = Len(ls) + 1
  BY DEF Attached
<1>2. ASSUME NEW i \in 1 .. Len(gs)
      PROVE  /\ gs[i].mid = hs[i].mid /\ gs[i].line = IF i = j THEN Len(ls) + 1 ELSE hs[i].line
             /\ hs[i].line \in 0 .. Len(ls)
             /\ hs[i].line # 0 => ls[hs[i].line].mid \in {NoMid, hs[i].mid}
             /\ hs[i].line # 0 => ms[hs[i].line].mid = ls[hs[i].line].mid
  <2>1. i \in 1 .. Len(hs) /\ hs[i].line \in 0 .. Len(ls)
    BY <1>1 DEF HoldsNames
  <2> QED
    BY <2>1 DEF Attached, HoldsNames
<1>3. ms[Len(ls) + 1].mid = NoMid
  BY DEF Attached
<1>4. ASSUME NEW i \in 1 .. Len(gs)
      PROVE  /\ gs[i].line \in 0 .. Len(ms)
             /\ gs[i].line # 0 => ms[gs[i].line].mid \in {NoMid, gs[i].mid}
  BY <1>1, <1>2, <1>3
<1>5. ASSUME NEW i \in 1 .. Len(gs), NEW k \in 1 .. Len(gs), i # k, gs[i].line = gs[k].line
      PROVE  gs[i].line = 0
  <2>1. hs[i].line = hs[k].line => hs[i].line = 0
    BY <1>1, <1>5 DEF HoldsNames
  <2>2. i # j /\ k # j
    BY <1>1, <1>2, <1>5
  <2> QED
    BY <1>2, <1>5, <2>1, <2>2
<1>6. HoldsNames(gs, ms)
  BY <1>4, <1>5 DEF HoldsNames
<1>7. ASSUME NEW used, Apart(hs, ls, used)
      PROVE  Apart(gs, ms, used)
  <2>1. \A i \in 1 .. Len(ms) : ms[i].mid = IF i = Len(ls) + 1 THEN NoMid ELSE ls[i].mid
    BY <1>1, <1>3 DEF Attached
  <2>2. Differ(ls)
    BY <1>7 DEF Apart
  <2>3. Differ(ms)
    BY <1>1, <2>1, <2>2 DEF Differ
  <2>4. \A i \in 1 .. Len(ms) : ms[i].mid # NoMid => Contains(used, ms[i].mid)
    BY <1>1, <1>7, <2>1 DEF Apart
  <2>5. \A i \in 1 .. Len(gs) : hs[i].mid = IF hs[i].line = 0 THEN NoMid ELSE ls[hs[i].line].mid
    BY <1>1, <1>7 DEF Apart
  <2>6. \A i \in 1 .. Len(gs) : gs[i].mid = IF gs[i].line = 0 THEN NoMid ELSE ms[gs[i].line].mid
    BY <1>1, <1>2, <1>3, <2>5
  <2> QED
    BY <2>3, <2>4, <2>6 DEF Apart
<1> QED
  BY <1>6, <1>7

(* A list with one more name holds the others too. *)
LEMMA OneMoreName ==
  ASSUME NEW used \in Seq(Mid), NEW nm \in Mid
  PROVE  /\ Contains(Append(used, nm), nm)
         /\ \A m : Contains(used, m) => Contains(Append(used, nm), m)
<1>1. Len(used) \in Nat
  BY LenProperties
<1>2. /\ Len(Append(used, nm)) = Len(used) + 1
      /\ Append(used, nm)[Len(used) + 1] = nm
      /\ \A i \in 1 .. Len(used) : Append(used, nm)[i] = used[i]
  BY AppendProperties
<1>3. Contains(Append(used, nm), nm)
  <2>1. Len(used) + 1 \in 1 .. Len(Append(used, nm))
    BY <1>1, <1>2
  <2> QED
    BY <1>2, <2>1 DEF Contains
<1>4. ASSUME NEW m, Contains(used, m)
      PROVE  Contains(Append(used, nm), m)
  <2>1. PICK i \in 1 .. Len(used) : used[i] = m
    BY <1>4 DEF Contains
  <2>2. i \in 1 .. Len(Append(used, nm)) /\ Append(used, nm)[i] = m
    BY <1>1, <1>2, <2>1
  <2> QED
    BY <2>2 DEF Contains
<1> QED
  BY <1>3, <1>4

(* What NameGiven means for the handlers, the lines and the list. *)
LEMMA GivenName ==
  ASSUME NEW a \in Making, NEW b \in Making, NEW nm \in Mid, NEW j \in 1 .. Len(a.hs),
         NameGiven(a, b, j, nm), NEW ls \in Seq(NamedLine), NEW ms \in Seq(NamedLine),
         a.hs[j].line \in 1 .. Len(ls), HoldsNames(a.hs, ls),
         LineNamed(ls, ms, a.hs[j].line, nm)
  PROVE  /\ Grew(a.hs, b.hs)
         /\ HoldsNames(b.hs, ms)
         /\ Apart(a.hs, ls, a.used) => Apart(b.hs, ms, b.used)
<1> DEFINE hs == a.hs
           gs == b.hs
           used == a.used
           more == b.used
<1>1. hs \in Seq(LineHandler) /\ used \in Seq(Mid)
  BY DEF Making
<1>2. Len(hs) \in Nat /\ Len(ls) \in Nat
  BY <1>1, LenProperties
<1>3. \A i \in 1 .. Len(hs) : hs[i] \in LineHandler
  BY <1>1, ElementOfSeq
<1>4. /\ Len(gs) = Len(hs)
      /\ \A i \in 1 .. Len(hs) : gs[i] = IF i = j THEN [hs[i] EXCEPT !.mid = nm] ELSE hs[i]
      /\ hs[j].mid = NoMid => ~Contains(used, nm) /\ more = Append(used, nm)
      /\ hs[j].mid # NoMid => nm = hs[j].mid /\ more = used
  BY DEF NameGiven
<1>5. j \in 1 .. Len(hs) /\ hs[j].line \in 1 .. Len(ls) /\ HoldsNames(hs, ls)
      /\ LineNamed(ls, ms, hs[j].line, nm)
  OBVIOUS
<1> HIDE DEF hs, gs, used, more
<1>6. \A i \in 1 .. Len(hs) :
        /\ gs[i].line = hs[i].line /\ gs[i].negotiated = hs[i].negotiated
        /\ gs[i].mid = IF i = j THEN nm ELSE hs[i].mid
  BY <1>3, <1>4 DEF LineHandler
<1>7. HandlerNamed(hs, gs, j, nm)
  BY <1>4, <1>6 DEF HandlerNamed
<1>8. Grew(hs, gs)
  BY <1>4, <1>5, <1>6 DEF Grew
<1>9. HoldsNames(gs, ms)
  BY <1>2, <1>5, <1>7, NamedHolds
<1>10. ASSUME Apart(hs, ls, used)
       PROVE  Apart(gs, ms, more)
  <2>1. hs[j].mid = ls[hs[j].line].mid
    BY <1>2, <1>5, <1>10 DEF Apart
  <2>2. NoMid # nm
    BY NoMidIsNoName
  <2>3. /\ \A i \in 1 .. Len(ls) : ls[i].mid # NoMid => Contains(used, ls[i].mid)
        /\ Differ(ls)
    BY <1>10 DEF Apart
  <2>4. CASE hs[j].mid = NoMid
    <3>1. more = Append(used, nm) /\ ~Contains(used, nm)
      BY <1>4, <2>4
    <3>2. /\ Contains(Append(used, nm), nm)
          /\ \A m : Contains(used, m) => Contains(Append(used, nm), m)
      BY <1>1, OneMoreName
    <3>3. Contains(more, nm) /\ \A m : Contains(used, m) => Contains(more, m)
      BY <3>1, <3>2
    <3>4. \A i \in 1 .. Len(ls) : ls[i].mid # nm
      BY <2>2, <2>3, <3>1
    <3> QED
      BY <1>2, <1>5, <1>7, <1>10, <3>3, <3>4, NamedApart
  <2>5. CASE hs[j].mid # NoMid
    <3>1. nm = ls[hs[j].line].mid /\ more = used
      BY <1>4, <2>1, <2>5
    <3>2. Contains(more, nm) /\ \A m : Contains(used, m) => Contains(more, m)
      BY <1>5, <2>2, <2>3, <3>1
    <3>3. \A i \in 1 .. Len(ls) : i # hs[j].line => ls[i].mid # nm
      BY <1>5, <2>2, <2>3, <3>1 DEF Differ
    <3> QED
      BY <1>2, <1>5, <1>7, <1>10, <3>2, <3>3, NamedApart
  <2> QED
    BY <2>4, <2>5
<1> QED
  BY <1>8, <1>9, <1>10 DEF hs, gs, used, more

(* Two changes in a row. *)
LEMMA GrewTwice ==
  ASSUME NEW hs, NEW gs, NEW fs, Grew(hs, gs), Grew(gs, fs)
  PROVE  Grew(hs, fs)
BY DEF Grew

(* No change. *)
LEMMA GrewNot ==
  ASSUME NEW hs
  PROVE  Grew(hs, hs)
BY DEF Grew

Lined(hs, j, n) == [hs EXCEPT ![j].line = n]

(* Giving a handler a line leaves a list of handlers. *)
LEMMA HandlerLined ==
  ASSUME NEW hs \in Seq(LineHandler), NEW j \in 1 .. Len(hs), NEW n \in Nat
  PROVE  OneChanged(hs, Lined(hs, j, n), j, [hs[j] EXCEPT !.line = n])
<1>1. hs[j] \in LineHandler
  BY ElementOfSeq
<1> DEFINE e == [hs[j] EXCEPT !.line = n]
<1>2. e \in LineHandler
  BY <1>1 DEF LineHandler
<1> HIDE DEF e
<1>3. /\ [hs EXCEPT ![j] = e] \in Seq(LineHandler)
      /\ Len([hs EXCEPT ![j] = e]) = Len(hs)
      /\ \A i \in 1 .. Len(hs) : [hs EXCEPT ![j] = e][i] = IF i = j THEN e ELSE hs[i]
  BY <1>2, ExceptSeq
<1> QED
  <2>1. Lined(hs, j, n) = [hs EXCEPT ![j] = e]
    BY Zenon DEF e, Lined
  <2>2. e = [hs[j] EXCEPT !.line = n]
    BY DEF e
  <2> QED
    BY <1>3, <2>1, <2>2 DEF OneChanged

(* LetGo: the handlers of line i have neither a line nor a name any more. *)
LEMMA LetGoRight ==
  ASSUME NEW hs \in Seq(LineHandler), NEW n \in Nat
  PROVE  LET gs == LetGo(hs, n)
         IN  /\ gs \in Seq(LineHandler) /\ Len(gs) = Len(hs)
             /\ \A i \in 1 .. Len(hs) :
                  IF hs[i].line = n THEN gs[i].line = 0 /\ gs[i].mid = NoMid /\ ~gs[i].negotiated
                  ELSE gs[i] = hs[i]
<1> DEFINE gs == LetGo(hs, n)
           e(i) == [NewLineHandler(hs[i].kind, hs[i].reject) EXCEPT !.removed = TRUE]
<1>1. Len(hs) \in Nat /\ \A i \in 1 .. Len(hs) : hs[i] \in LineHandler
  BY LenProperties, ElementOfSeq
<1>2. gs = [i \in 1 .. Len(hs) |-> IF hs[i].line = n THEN e(i) ELSE hs[i]]
  BY DEF LetGo
<1>3. ASSUME NEW i \in 1 .. Len(hs)
      PROVE  e(i) \in LineHandler /\ e(i).line = 0 /\ e(i).mid = NoMid /\ ~e(i).negotiated
  <2>1. hs[i].kind \in LineKinds /\ hs[i].reject \in BOOLEAN
    BY <1>1 DEF LineHandler
  <2> QED
    BY <2>1 DEF NewLineHandler, LineHandler
<1> HIDE DEF gs, e
<1>4. \A i \in 1 .. Len(hs) : gs[i] = IF hs[i].line = n THEN e(i) ELSE hs[i]
  BY <1>2
<1>5. gs \in [1 .. Len(hs) -> LineHandler]
  BY <1>1, <1>2, <1>3
<1>6. gs \in Seq(LineHandler) /\ Len(gs) = Len(hs)
  BY <1>1, <1>5, FunctionIsList
<1> QED
  BY <1>3, <1>4, <1>6 DEF gs

(* A handler that has no line takes line n, which has no name now, and those that had it are
   let go: names stay in place. *)
LEMMA SlotTaken ==
  ASSUME NEW hs, NEW gs, NEW ls, NEW ms, Len(hs) \in Nat, Len(ls) \in Nat,
         NEW j \in 1 .. Len(hs), NEW n \in 1 .. Len(ls), hs[j].line = 0, HoldsNames(hs, ls),
         Len(gs) = Len(hs), LineNamed(ls, ms, n, NoMid),
         \A i \in 1 .. Len(hs) :
           /\ gs[i].line = IF i = j THEN n ELSE IF hs[i].line = n THEN 0 ELSE hs[i].line
           /\ gs[i].mid = IF hs[i].line = n THEN NoMid ELSE hs[i].mid
  PROVE  /\ HoldsNames(gs, ms)
         /\ \A used : Apart(hs, ls, used) => Apart(gs, ms, used)
<1>1. Len(ms) = Len(ls) /\ ms[n].mid = NoMid
  BY DEF LineNamed
<1>2. ASSUME NEW i \in 1 .. Len(gs)
      PROVE  /\ hs[i].line \in 0 .. Len(ls)
             /\ hs[i].line # 0 => ls[hs[i].line].mid \in {NoMid, hs[i].mid}
             /\ (hs[i].line # 0 /\ hs[i].line # n) => ms[hs[i].line].mid = ls[hs[i].line].mid
             /\ gs[i].line = IF i = j THEN n ELSE IF hs[i].line = n THEN 0 ELSE hs[i].line
             /\ gs[i].mid = IF hs[i].line = n THEN NoMid ELSE hs[i].mid
  <2>1. i \in 1 .. Len(hs) /\ hs[i].line \in 0 .. Len(ls)
    BY DEF HoldsNames
  <2> QED
    BY <2>1 DEF HoldsNames, LineNamed
<1>3. ASSUME NEW i \in 1 .. Len(gs)
      PROVE  /\ gs[i].line \in 0 .. Len(ms)
             /\ gs[i].line # 0 => ms[gs[i].line].mid \in {NoMid, gs[i].mid}
  BY <1>1, <1>2
<1>4. ASSUME NEW i \in 1 .. Len(gs), NEW k \in 1 .. Len(gs), i # k, gs[i].line = gs[k].line
      PROVE  gs[i].line = 0
  <2>1. hs[i].line = hs[k].line => hs[i].line = 0
    BY <1>4 DEF HoldsNames
  <2> QED
    BY <1>2, <1>4, <2>1
<1>5. HoldsNames(gs, ms)
  BY <1>3, <1>4 DEF HoldsNames
<1>6. ASSUME NEW used, Apart(hs, ls, used)
      PROVE  Apart(gs, ms, used)
  <2>1. \A i \in 1 .. Len(ls) : ms[i].mid = IF i = n THEN NoMid ELSE ls[i].mid
    BY DEF LineNamed
  <2>2. Differ(ls)
    BY <1>6 DEF Apart
  <2>3. Differ(ms)
    BY <1>1, <2>1, <2>2 DEF Differ
  <2>4. \A i \in 1 .. Len(ms) : ms[i].mid # NoMid => Contains(used, ms[i].mid)
    BY <1>1, <1>6, <2>1 DEF Apart
  <2>5. \A i \in 1 .. Len(gs) : hs[i].mid = IF hs[i].line = 0 THEN NoMid ELSE ls[hs[i].line].mid
    BY <1>6 DEF Apart
  <2>6. \A i \in 1 .. Len(gs) : gs[i].mid = IF gs[i].line = 0 THEN NoMid ELSE ms[gs[i].line].mid
    BY <1>1, <1>2, <2>5
  <2> QED
    BY <2>3, <2>4, <2>6 DEF Apart
<1> QED
  BY <1>5, <1>6

-----------------------------------------------------------------------------
(* The lines offered so far, and the others as they were agreed. *)
Full(a, lines) ==
  [i \in 1 .. Len(lines) |-> IF i <= Len(a.lines) THEN a.lines[i] ELSE lines[i]]

(* What holds after n lines. *)
AgainRight(a, n, hs, lines, calm) ==
  /\ a \in Making /\ Len(a.lines) = n /\ Grew(hs, a.hs)
  /\ HoldsNames(a.hs, Full(a, lines))
  /\ calm => Apart(a.hs, Full(a, lines), a.used)

(* OfferAgain: one more line. *)
LEMMA AgainStep ==
  ASSUME NEW hs \in Seq(LineHandler), NEW lines \in Seq(NamedLine), NEW n \in 1 .. Len(lines),
         NEW calm \in BOOLEAN, NEW a, AgainRight(a, n - 1, hs, lines, calm)
  PROVE  AgainRight(OfferAgain(a, lines[n]), n, hs, lines, calm)
<1> DEFINE line == lines[n]
           b == OfferAgain(a, line)
           here == {j \in HandlersOf(a.hs, Len(a.lines) + 1) : ~a.hs[j].removed /\ ~a.hs[j].reject}
           free == {j \in 1 .. Len(a.hs) : a.hs[j].line = 0 /\ ~a.hs[j].removed}
           ls == Full(a, lines)
           ms == Full(b, lines)
<1>1. /\ a \in Making /\ Len(a.lines) = n - 1 /\ Grew(hs, a.hs) /\ HoldsNames(a.hs, ls)
      /\ calm => Apart(a.hs, ls, a.used)
  BY DEF AgainRight
<1>2. a.hs \in Seq(LineHandler) /\ a.lines \in Seq(NamedLine)
  BY <1>1 DEF Making
<1>3. Len(lines) \in Nat /\ DOMAIN a.hs = 1 .. Len(a.hs) /\ Len(a.hs) \in Nat
  BY <1>2, LenProperties
<1>4. line \in NamedLine /\ \A i \in 1 .. Len(lines) : lines[i] \in NamedLine
  BY ElementOfSeq
<1>5. ls \in Seq(NamedLine) /\ Len(ls) = Len(lines)
  <2>1. \A i \in 1 .. Len(a.lines) : a.lines[i] \in NamedLine
    BY <1>2, ElementOfSeq
  <2>2. ls \in [1 .. Len(lines) -> NamedLine]
    BY <1>1, <1>3, <1>4, <2>1 DEF Full
  <2> QED
    BY <1>3, <2>2, FunctionIsList
<1>6. ls[n] = line /\ n \in 1 .. Len(ls)
  BY <1>1, <1>3, <1>5 DEF Full
<1>7. ASSUME NEW x \in NamedLine, b \in Making, b.lines = Append(a.lines, x)
      PROVE  ms \in Seq(NamedLine) /\ Len(b.lines) = n /\ LineNamed(ls, ms, n, x.mid)
  <2>1. /\ Len(b.lines) = n /\ b.lines[n] = x
        /\ \A i \in 1 .. n - 1 : b.lines[i] = a.lines[i]
    BY <1>1, <1>2, <1>7, AppendProperties
  <2> HIDE DEF b
  <2>2. \A i \in 1 .. Len(lines) : ms[i] = IF i = n THEN x ELSE ls[i]
    BY <1>1, <1>3, <2>1 DEF Full
  <2>3. DOMAIN ms = 1 .. Len(lines) /\ ms = [i \in 1 .. Len(lines) |-> ms[i]]
    BY DEF Full
  <2> HIDE DEF ls, ms
  <2>4. \A i \in 1 .. Len(lines) : ls[i] \in NamedLine
    BY <1>5, ElementOfSeq
  <2>5. ms \in [1 .. Len(lines) -> NamedLine]
    BY <1>7, <2>2, <2>3, <2>4
  <2>6. ms \in Seq(NamedLine) /\ Len(ms) = Len(lines)
    BY <1>3, <2>5, FunctionIsList
  <2>7. LineNamed(ls, ms, n, x.mid)
    BY <1>5, <2>2, <2>6 DEF LineNamed
  <2> QED
    BY <2>1, <2>6, <2>7
<1>8. CASE ~(here = {} /\ free # {}) /\ ~(here # {} /\ line.on)
  <2> DEFINE x == RejectLine(line)
  <2>1. b = [a EXCEPT !.lines = Append(a.lines, x)]
    BY <1>8 DEF OfferAgain
  <2>2. x \in NamedLine /\ x.mid = line.mid
    BY <1>4 DEF RejectLine, NamedLine
  <2> HIDE DEF b, x, line, ls, ms
  <2>3. Append(a.lines, x) \in Seq(NamedLine)
    BY <1>2, <2>2, AppendProperties
  <2>4. b \in Making /\ b.lines = Append(a.lines, x) /\ b.hs = a.hs /\ b.used = a.used
    BY <1>1, <2>1, <2>3 DEF Making
  <2>5. ms \in Seq(NamedLine) /\ Len(b.lines) = n /\ LineNamed(ls, ms, n, line.mid)
    BY <1>7, <2>2, <2>4
  <2>6. Len(ms) = Len(ls) /\ \A i \in 1 .. Len(ls) : ms[i].mid = ls[i].mid
    BY <1>6, <2>5 DEF LineNamed
  <2>7. HoldsNames(a.hs, ms)
    BY <1>1, <1>5, <2>6 DEF HoldsNames
  <2>8. Apart(a.hs, ls, a.used) => Apart(a.hs, ms, a.used)
    <3> SUFFICES ASSUME Apart(a.hs, ls, a.used)
                 PROVE  Apart(a.hs, ms, a.used)
      OBVIOUS
    <3>1. \A i \in 1 .. Len(a.hs) : a.hs[i].line \in 0 .. Len(ls)
      BY <1>1 DEF HoldsNames
    <3>2. Differ(ls) /\ Len(ls) \in Nat
      BY <1>3, <1>5 DEF Apart
    <3>3. Differ(ms)
      BY <2>6, <3>2 DEF Differ
    <3>4. \A i \in 1 .. Len(ms) : ms[i].mid # NoMid => Contains(a.used, ms[i].mid)
      BY <2>6 DEF Apart
    <3>5. ASSUME NEW i \in 1 .. Len(a.hs)
          PROVE  a.hs[i].mid = IF a.hs[i].line = 0 THEN NoMid ELSE ms[a.hs[i].line].mid
      <4>1. a.hs[i].mid = IF a.hs[i].line = 0 THEN NoMid ELSE ls[a.hs[i].line].mid
        BY DEF Apart
      <4>2. a.hs[i].line # 0 => ms[a.hs[i].line].mid = ls[a.hs[i].line].mid
        BY <2>6, <3>1, <3>2
      <4> QED
        BY <4>1, <4>2
    <3> QED
      BY <3>3, <3>4, <3>5 DEF Apart
  <2>9. AgainRight(b, n, hs, lines, calm)
    BY <1>1, <2>4, <2>5, <2>7, <2>8 DEF AgainRight, ms
  <2> QED
    BY <2>9 DEF b, line
<1>9. CASE here # {} /\ line.on
  <2> DEFINE j == CHOOSE j \in here : TRUE
  <2>1. j \in here
    BY <1>9
  <2>2. b = OfferName(a, j, line)
    BY <1>9 DEF OfferAgain
  <2> HIDE DEF j
  <2>3. j \in 1 .. Len(a.hs) /\ a.hs[j].line = n
    BY <1>1, <1>3, <2>1 DEF HandlersOf
  <2>4. b \in Making /\ \E nm \in Mid : /\ NameGiven(a, b, j, nm)
                                        /\ b.lines = Append(a.lines, [line EXCEPT !.mid = nm])
    <3> HIDE DEF b, line
    <3> QED
      BY <1>1, <1>4, <2>2, <2>3, OfferNamed
  <2>5. PICK nm \in Mid : /\ NameGiven(a, b, j, nm)
                          /\ b.lines = Append(a.lines, [line EXCEPT !.mid = nm])
    BY <2>4
  <2> DEFINE x == [line EXCEPT !.mid = nm]
  <2>6. x \in NamedLine /\ x.mid = nm
    BY <1>4 DEF NamedLine
  <2> HIDE DEF x, b, line, ls, ms, here
  <2>7. b.lines = Append(a.lines, x)
    BY <2>5 DEF x
  <2>8. ms \in Seq(NamedLine) /\ Len(b.lines) = n /\ LineNamed(ls, ms, n, nm)
    BY <1>7, <2>4, <2>6, <2>7
  <2>9. /\ Grew(a.hs, b.hs) /\ HoldsNames(b.hs, ms)
        /\ Apart(a.hs, ls, a.used) => Apart(b.hs, ms, b.used)
    <3>1. a.hs[j].line \in 1 .. Len(ls) /\ LineNamed(ls, ms, a.hs[j].line, nm)
      BY <1>6, <2>3, <2>8
    <3>2. a \in Making /\ b \in Making /\ HoldsNames(a.hs, ls) /\ NameGiven(a, b, j, nm)
          /\ ls \in Seq(NamedLine) /\ ms \in Seq(NamedLine) /\ j \in 1 .. Len(a.hs)
      BY <1>1, <1>5, <2>3, <2>4, <2>5, <2>8
    <3> QED
      BY <3>1, <3>2, GivenName
  <2>10. Grew(hs, b.hs)
    BY <1>1, <2>9, GrewTwice
  <2>11. AgainRight(b, n, hs, lines, calm)
    BY <1>1, <2>4, <2>8, <2>9, <2>10 DEF AgainRight, ms
  <2> QED
    BY <2>11 DEF b, line
<1>10. CASE here = {} /\ free # {}
  <2> DEFINE j == Min(free)
             let == LetGo(a.hs, n)
             gs == Lined(let, j, n)
             x == [kind |-> let[j].kind, mid |-> NoMid, on |-> TRUE]
             c == [hs |-> gs, used |-> a.used, next |-> a.next, lines |-> a.lines]
             ns == [i \in 1 .. Len(lines) |-> IF i = n THEN x ELSE ls[i]]
  <2>1. j \in 1 .. Len(a.hs) /\ a.hs[j].line = 0 /\ ~a.hs[j].removed
    <3>1. free \in SUBSET Nat /\ free # {}
      BY <1>3, <1>10
    <3>2. Min(free) \in free
      BY <3>1, MinIsLeast
    <3> QED
      BY <3>2
  <2>2. b = OfferFirst([a EXCEPT !.hs = let], j)
    <3>1. Len(a.lines) + 1 = n
      BY <1>1
    <3> QED
      BY <1>10, <3>1 DEF OfferAgain
  <2>3. n \in Nat /\ n # 0
    OBVIOUS
  <2> HIDE DEF j, b, line, ls, ms
  <2>4. /\ let \in Seq(LineHandler) /\ Len(let) = Len(a.hs)
        /\ \A i \in 1 .. Len(a.hs) :
             IF a.hs[i].line = n THEN let[i].line = 0 /\ let[i].mid = NoMid /\ ~let[i].negotiated
             ELSE let[i] = a.hs[i]
    BY <1>2, <2>3, LetGoRight
  <2> HIDE DEF let
  <2>5. let[j] = a.hs[j] /\ let[j] \in LineHandler
    BY <2>1, <2>3, <2>4, ElementOfSeq
  <2>6. b = OfferName(c, j, x)
    <3> DEFINE d == [a EXCEPT !.hs = let]
    <3>1. d = [hs |-> let, used |-> a.used, next |-> a.next, lines |-> a.lines]
      BY <1>1 DEF Making
    <3> HIDE DEF d
    <3>2. d.hs = let /\ d.used = a.used /\ d.next = a.next /\ d.lines = a.lines
      BY <3>1
    <3>3. ~(d.hs[j].line # 0 \/ d.hs[j].removed)
      BY <2>1, <2>5, <3>2
    <3>4. b = OfferName([d EXCEPT !.hs[j].line = Len(d.lines) + 1], j,
                        [kind |-> d.hs[j].kind, mid |-> NoMid, on |-> TRUE])
      BY <2>2, <3>3 DEF OfferFirst, d
    <3>5. Len(d.lines) + 1 = n
      BY <1>1, <3>2
    <3>6. [d EXCEPT !.hs[j].line = n] = [d EXCEPT !.hs = gs]
      <4>1. [d EXCEPT !.hs[j].line = n] = [d EXCEPT !.hs = Lined(d.hs, j, n)]
        BY Zenon DEF Lined
      <4> QED
        BY <3>2, <4>1
    <3> HIDE DEF gs
    <3>7. [d EXCEPT !.hs = gs] = c
      BY <3>1
    <3> QED
      BY <3>2, <3>4, <3>5, <3>6, <3>7
  <2>7. x \in NamedLine /\ x.mid = NoMid
    BY <2>5 DEF LineHandler, NamedLine
  <2>8. /\ gs \in Seq(LineHandler) /\ Len(gs) = Len(a.hs)
        /\ \A i \in 1 .. Len(a.hs) : gs[i] = IF i = j THEN [let[j] EXCEPT !.line = n] ELSE let[i]
    <3>1. OneChanged(let, Lined(let, j, n), j, [let[j] EXCEPT !.line = n])
      BY <2>1, <2>3, <2>4, HandlerLined
    <3> QED
      BY <2>4, <3>1 DEF OneChanged
  <2> HIDE DEF gs, x
  <2>9. \A i \in 1 .. Len(a.hs) :
          /\ gs[i].line = IF i = j THEN n ELSE IF a.hs[i].line = n THEN 0 ELSE a.hs[i].line
          /\ gs[i].mid = IF a.hs[i].line = n THEN NoMid ELSE a.hs[i].mid
          /\ gs[i].negotiated => a.hs[i].negotiated /\ a.hs[i].line # n
    <3>1. [let[j] EXCEPT !.line = n].line = n /\ [let[j] EXCEPT !.line = n].mid = a.hs[j].mid
          /\ [let[j] EXCEPT !.line = n].negotiated = a.hs[j].negotiated
      BY <2>5 DEF LineHandler
    <3> QED
      BY <2>1, <2>3, <2>4, <2>8, <3>1
  <2>10. Grew(a.hs, gs)
    BY <2>1, <2>8, <2>9 DEF Grew
  <2>11. /\ ns \in Seq(NamedLine) /\ Len(ns) = Len(ls) /\ LineNamed(ls, ns, n, NoMid)
    <3>1. \A i \in 1 .. Len(lines) : ls[i] \in NamedLine
      BY <1>5, ElementOfSeq
    <3>2. ns \in [1 .. Len(lines) -> NamedLine]
      BY <2>7, <3>1
    <3>3. \A i \in 1 .. Len(lines) : ns[i] = IF i = n THEN x ELSE ls[i]
      OBVIOUS
    <3> HIDE DEF ns
    <3>4. ns \in Seq(NamedLine) /\ Len(ns) = Len(lines)
      BY <1>3, <3>2, FunctionIsList
    <3> QED
      BY <1>5, <2>7, <3>3, <3>4 DEF LineNamed
  <2> HIDE DEF ns
  <2>12. HoldsNames(gs, ns) /\ \A used : Apart(a.hs, ls, used) => Apart(gs, ns, used)
    <3>1. \A i \in 1 .. Len(a.hs) :
            /\ gs[i].line = IF i = j THEN n ELSE IF a.hs[i].line = n THEN 0 ELSE a.hs[i].line
            /\ gs[i].mid = IF a.hs[i].line = n THEN NoMid ELSE a.hs[i].mid
      BY <2>9
    <3>2. n \in 1 .. Len(ls) /\ Len(ls) \in Nat /\ HoldsNames(a.hs, ls)
      BY <1>1, <1>3, <1>5
    <3> QED
      BY <1>3, <2>1, <2>8, <2>11, <3>1, <3>2, SlotTaken
  <2>13. c \in Making /\ c.hs = gs /\ c.lines = a.lines /\ c.used = a.used
    BY <1>1, <2>8 DEF Making
  <2> HIDE DEF c
  <2>14. b \in Making /\ \E nm \in Mid : /\ NameGiven(c, b, j, nm)
                                          /\ b.lines = Append(c.lines, [x EXCEPT !.mid = nm])
    <3>1. j \in 1 .. Len(c.hs)
      BY <2>1, <2>8, <2>13
    <3> QED
      BY <2>6, <2>7, <2>13, <3>1, OfferNamed
  <2>15. PICK nm \in Mid : /\ NameGiven(c, b, j, nm)
                           /\ b.lines = Append(c.lines, [x EXCEPT !.mid = nm])
    BY <2>14
  <2> DEFINE y == [x EXCEPT !.mid = nm]
  <2>16. y \in NamedLine /\ y.mid = nm
    BY <2>7 DEF NamedLine
  <2>17. b.lines = Append(a.lines, y)
    BY <2>13, <2>15
  <2> HIDE DEF y
  <2>18. ms \in Seq(NamedLine) /\ Len(b.lines) = n /\ LineNamed(ls, ms, n, nm)
    BY <1>7, <2>14, <2>16, <2>17
  <2>19. LineNamed(ns, ms, n, nm)
    BY <2>11, <2>18 DEF LineNamed
  <2>20. /\ Grew(c.hs, b.hs) /\ HoldsNames(b.hs, ms)
         /\ Apart(c.hs, ns, c.used) => Apart(b.hs, ms, b.used)
    <3>1. c.hs[j].line \in 1 .. Len(ns) /\ LineNamed(ns, ms, c.hs[j].line, nm)
      BY <1>6, <2>1, <2>9, <2>11, <2>13, <2>19
    <3>2. c \in Making /\ b \in Making /\ HoldsNames(c.hs, ns) /\ NameGiven(c, b, j, nm)
          /\ ns \in Seq(NamedLine) /\ ms \in Seq(NamedLine) /\ j \in 1 .. Len(c.hs)
      BY <2>1, <2>8, <2>11, <2>12, <2>13, <2>14, <2>15, <2>18
    <3> QED
      BY <3>1, <3>2, GivenName
  <2>21. Grew(hs, b.hs)
    <3>1. Grew(hs, gs) /\ Grew(gs, b.hs)
      BY <1>1, <2>10, <2>13, <2>20, GrewTwice
    <3> QED
      BY <3>1, GrewTwice
  <2>22. calm => Apart(b.hs, ms, b.used)
    BY <1>1, <2>12, <2>13, <2>20
  <2>23. AgainRight(b, n, hs, lines, calm)
    BY <2>14, <2>18, <2>20, <2>21, <2>22 DEF AgainRight, ms
  <2> QED
    BY <2>23 DEF b, line
<1> QED
  BY <1>8, <1>9, <1>10

IsOffered(f, a, lines, k) ==
  f = [n \in 0 .. k |-> IF n = 0 THEN a ELSE OfferAgain(f[n - 1], lines[n])]
OfferedUpTo(a, lines) == CHOOSE f : IsOffered(f, a, lines, Len(lines))

(* The loop of OfferLines has a result for a list of any length. *)
LEMMA OfferedExists ==
  ASSUME NEW a, NEW lines, NEW len \in Nat
  PROVE  \E f : IsOffered(f, a, lines, len)
<1> DEFINE Bad == {k \in Nat : ~\E f : IsOffered(f, a, lines, k)}
<1>1. ASSUME Bad # {}
      PROVE  FALSE
  <2>1. PICK k \in Bad : \A j \in Bad : k <= j
    BY <1>1, LeastNumber
  <2>2. k # 0
    <3>1. IsOffered([n \in 0 .. 0 |-> a], a, lines, 0)
      BY DEF IsOffered
    <3> QED
      BY <3>1
  <2>3. k - 1 \in Nat /\ k - 1 \notin Bad
    BY <2>1, <2>2
  <2>4. PICK g : IsOffered(g, a, lines, k - 1)
    BY <2>3
  <2> DEFINE f == [n \in 0 .. k |-> IF n = k THEN OfferAgain(g[k - 1], lines[k]) ELSE g[n]]
  <2>5. IsOffered(f, a, lines, k)
    <3>1. ASSUME NEW n \in 0 .. k
          PROVE  f[n] = IF n = 0 THEN a ELSE OfferAgain(f[n - 1], lines[n])
      <4>1. CASE n = k
        <5>1. f[n] = OfferAgain(g[k - 1], lines[k])
          BY <4>1
        <5>2. n - 1 \in 0 .. k /\ n - 1 # k
          BY <2>2, <4>1
        <5>3. f[n - 1] = g[k - 1]
          BY <5>2, <4>1
        <5> HIDE DEF f
        <5> QED
          BY <5>1, <5>3, <2>2, <4>1
      <4>2. CASE n # k
        <5>1. f[n] = g[n] /\ n \in 0 .. (k - 1)
          BY <4>2
        <5>2. g[n] = IF n = 0 THEN a ELSE OfferAgain(g[n - 1], lines[n])
          BY <2>4, <5>1 DEF IsOffered
        <5>3. n # 0 => f[n - 1] = g[n - 1]
          BY <4>2
        <5> HIDE DEF f
        <5> QED
          BY <5>1, <5>2, <5>3
      <4> QED
        BY <4>1, <4>2
    <3>2. f = [n \in 0 .. k |-> f[n]]
      OBVIOUS
    <3> HIDE DEF f
    <3> QED
      BY <3>1, <3>2 DEF IsOffered
  <2> HIDE DEF f
  <2> QED
    BY <2>5
<1> QED
  BY <1>1

(* OfferLines: the lines that exist are offered with names that fit. *)
LEMMA LinesOffered ==
  ASSUME NEW a, NEW hs \in Seq(LineHandler), NEW lines \in Seq(NamedLine), NEW calm \in BOOLEAN,
         AgainRight(a, 0, hs, lines, calm)
  PROVE  AgainRight(OfferLines(a, lines), Len(lines), hs, lines, calm)
<1> DEFINE f == OfferedUpTo(a, lines)
           Right(n) == AgainRight(f[n], n, hs, lines, calm)
           Bad == {n \in 0 .. Len(lines) : ~Right(n)}
<1>0. Len(lines) \in Nat
  BY LenProperties
<1>1. OfferLines(a, lines) = f[Len(lines)]
  BY DEF OfferLines, OfferedUpTo, IsOffered
<1>2. IsOffered(f, a, lines, Len(lines))
  BY OfferedExists, <1>0, Zenon DEF OfferedUpTo
<1> HIDE DEF f
<1>3. \A n \in 0 .. Len(lines) : f[n] = IF n = 0 THEN a ELSE OfferAgain(f[n - 1], lines[n])
  BY <1>2, Zenon DEF IsOffered
<1>4. Right(0)
  <2>1. f[0] = a
    BY <1>0, <1>3
  <2> QED
    BY <2>1
<1>5. ASSUME NEW n \in 1 .. Len(lines), Right(n - 1)
      PROVE  Right(n)
  <2> DEFINE v == f[n - 1]
  <2>1. f[n] = OfferAgain(v, lines[n])
    BY <1>0, <1>3
  <2>2. AgainRight(v, n - 1, hs, lines, calm)
    BY <1>5
  <2> HIDE DEF v
  <2>3. AgainRight(OfferAgain(v, lines[n]), n, hs, lines, calm)
    BY <2>2, AgainStep
  <2> QED
    BY <2>1, <2>3
<1> HIDE DEF Right
<1>6. Right(Len(lines))
  <2>1. ASSUME Bad # {}
        PROVE  FALSE
    <3>1. Bad \in SUBSET Nat
      BY <1>0
    <3>2. PICK k \in Bad : \A j \in Bad : k <= j
      BY <2>1, <3>1, LeastNumber
    <3>3. k \in 1 .. Len(lines)
      BY <1>0, <1>4
    <3>4. k - 1 \in 0 .. Len(lines) /\ k - 1 \notin Bad
      BY <1>0, <3>2, <3>3
    <3> QED
      BY <1>5, <3>3, <3>4
  <2>2. Len(lines) \in 0 .. Len(lines)
    BY <1>0
  <2> QED
    BY <2>1, <2>2
<1> QED
  BY <1>1, <1>6 DEF Right

(* What holds after some handlers. *)
FirstRight(a, hs, calm) ==
  /\ a \in Making /\ Grew(hs, a.hs)
  /\ HoldsNames(a.hs, a.lines)
  /\ calm => Apart(a.hs, a.lines, a.used)

(* A handler without a line and a line without a name, put together. *)
LEMMA LineAttached ==
  ASSUME NEW hs \in Seq(LineHandler), NEW ls \in Seq(NamedLine), NEW j \in 1 .. Len(hs),
         hs[j].line = 0, HoldsNames(hs, ls), NEW x \in NamedLine, x.mid = NoMid
  PROVE  LET gs == Lined(hs, j, Len(ls) + 1)
             ms == Append(ls, x)
         IN  /\ gs \in Seq(LineHandler) /\ ms \in Seq(NamedLine)
             /\ Len(gs) = Len(hs) /\ Len(ms) = Len(ls) + 1
             /\ Attached(hs, gs, ls, ms, j) /\ HoldsNames(gs, ms) /\ Grew(hs, gs)
             /\ \A used : Apart(hs, ls, used) => Apart(gs, ms, used)
<1> DEFINE gs == Lined(hs, j, Len(ls) + 1)
           ms == Append(ls, x)
<1>1. Len(hs) \in Nat /\ Len(ls) \in Nat /\ Len(ls) + 1 \in Nat
  BY LenProperties
<1>2. \A i \in 1 .. Len(hs) : hs[i] \in LineHandler
  BY ElementOfSeq
<1>3. /\ gs \in Seq(LineHandler) /\ Len(gs) = Len(hs)
      /\ \A i \in 1 .. Len(hs) : gs[i] = IF i = j THEN [hs[i] EXCEPT !.line = Len(ls) + 1] ELSE hs[i]
  <2> DEFINE n == Len(ls) + 1
  <2>1. n \in Nat
    BY <1>1
  <2> HIDE DEF n
  <2>2. OneChanged(hs, Lined(hs, j, n), j, [hs[j] EXCEPT !.line = n])
    BY <2>1, HandlerLined
  <2> QED
    BY <2>2 DEF n, OneChanged
<1>4. /\ ms \in Seq(NamedLine) /\ Len(ms) = Len(ls) + 1 /\ ms[Len(ls) + 1] = x
      /\ \A i \in 1 .. Len(ls) : ms[i] = ls[i]
  BY AppendProperties
<1> HIDE DEF gs, ms
<1>5. \A i \in 1 .. Len(hs) :
        /\ gs[i].mid = hs[i].mid /\ gs[i].negotiated = hs[i].negotiated
        /\ gs[i].line = IF i = j THEN Len(ls) + 1 ELSE hs[i].line
  BY <1>1, <1>2, <1>3 DEF LineHandler
<1>6. Attached(hs, gs, ls, ms, j)
  BY <1>3, <1>4, <1>5 DEF Attached
<1>7. Grew(hs, gs)
  BY <1>3, <1>5 DEF Grew
<1>8. HoldsNames(gs, ms) /\ \A used : Apart(hs, ls, used) => Apart(gs, ms, used)
  BY <1>1, <1>6, AttachedHolds
<1>9. /\ gs \in Seq(LineHandler) /\ ms \in Seq(NamedLine)
      /\ Len(gs) = Len(hs) /\ Len(ms) = Len(ls) + 1
      /\ Attached(hs, gs, ls, ms, j) /\ HoldsNames(gs, ms) /\ Grew(hs, gs)
      /\ \A used : Apart(hs, ls, used) => Apart(gs, ms, used)
  BY <1>3, <1>4, <1>6, <1>7, <1>8
<1> QED
  BY <1>9 DEF gs, ms

(* OfferFirst: one more handler. *)
LEMMA FirstStep ==
  ASSUME NEW hs \in Seq(LineHandler), NEW calm \in BOOLEAN, NEW j \in 1 .. Len(hs), NEW a,
         FirstRight(a, hs, calm)
  PROVE  FirstRight(OfferFirst(a, j), hs, calm)
<1> DEFINE c == OfferFirst(a, j)
<1>1. /\ a \in Making /\ Grew(hs, a.hs) /\ HoldsNames(a.hs, a.lines)
      /\ calm => Apart(a.hs, a.lines, a.used)
  BY DEF FirstRight
<1>2. /\ a.hs \in Seq(LineHandler) /\ a.lines \in Seq(NamedLine) /\ a.used \in Seq(Mid)
      /\ a.next \in [LineKinds -> Nat]
  BY <1>1 DEF Making
<1>3. Len(a.lines) \in Nat /\ j \in 1 .. Len(a.hs)
  BY <1>1, <1>2, LenProperties DEF Grew
<1>4. CASE a.hs[j].line # 0 \/ a.hs[j].removed
  <2>1. c = a
    BY <1>4 DEF OfferFirst
  <2> QED
    BY <2>1
<1>5. CASE ~(a.hs[j].line # 0 \/ a.hs[j].removed)
  <2> DEFINE fs == a.hs
             ls == a.lines
             gs == Lined(fs, j, Len(ls) + 1)
             x == [kind |-> fs[j].kind, mid |-> NoMid, on |-> TRUE]
             ms == Append(ls, x)
             b == [a EXCEPT !.hs[j].line = Len(ls) + 1]
  <2>1. c = OfferName(b, j, x)
    BY <1>5 DEF OfferFirst
  <2>2. b = [hs |-> gs, used |-> a.used, next |-> a.next, lines |-> ls]
    <3>1. b = [a EXCEPT !.hs = gs]
      BY Zenon DEF Lined
    <3> HIDE DEF b, gs
    <3> QED
      BY <1>1, <3>1 DEF Making
  <2>3. fs[j] \in LineHandler
    BY <1>2, <1>3, ElementOfSeq
  <2>4. x \in NamedLine /\ x.mid = NoMid
    BY <2>3 DEF LineHandler, NamedLine
  <2>5. fs[j].line = 0 /\ j \in 1 .. Len(fs) /\ fs \in Seq(LineHandler) /\ ls \in Seq(NamedLine)
        /\ HoldsNames(fs, ls) /\ Grew(hs, fs) /\ (calm => Apart(fs, ls, a.used)) /\ Len(ls) \in Nat
    BY <1>1, <1>2, <1>3, <1>5
  <2> HIDE DEF fs, ls, x, b, c
  <2>6. /\ gs \in Seq(LineHandler) /\ ms \in Seq(NamedLine)
        /\ Len(gs) = Len(fs) /\ Len(ms) = Len(ls) + 1
        /\ Attached(fs, gs, ls, ms, j) /\ HoldsNames(gs, ms) /\ Grew(fs, gs)
        /\ \A used : Apart(fs, ls, used) => Apart(gs, ms, used)
    BY <2>4, <2>5, LineAttached
  <2> HIDE DEF gs
  <2>7. b \in Making /\ b.hs = gs /\ b.used = a.used /\ b.lines = ls /\ j \in 1 .. Len(b.hs)
    BY <1>2, <2>2, <2>5, <2>6 DEF Making
  <2>8. gs[j].line = Len(ls) + 1
    BY <2>5, <2>6 DEF Attached
  <2>9. c \in Making /\ \E nm \in Mid : /\ NameGiven(b, c, j, nm)
                                        /\ c.lines = Append(b.lines, [x EXCEPT !.mid = nm])
    BY <2>1, <2>4, <2>7, OfferNamed
  <2>10. PICK nm \in Mid : /\ NameGiven(b, c, j, nm)
                           /\ c.lines = Append(b.lines, [x EXCEPT !.mid = nm])
    BY <2>9
  <2> DEFINE y == [x EXCEPT !.mid = nm]
             ns == c.lines
  <2>11. y \in NamedLine /\ y.mid = nm /\ ns = Append(ls, y)
    BY <2>4, <2>7, <2>10 DEF NamedLine
  <2> HIDE DEF y, ns
  <2>12. /\ ns \in Seq(NamedLine) /\ Len(ns) = Len(ls) + 1 /\ ns[Len(ls) + 1] = y
         /\ \A i \in 1 .. Len(ls) : ns[i] = ls[i]
    BY <2>5, <2>11, AppendProperties
  <2>13. LineNamed(ms, ns, Len(ls) + 1, nm)
    <3>1. \A i \in 1 .. Len(ls) : ms[i] = ls[i]
      BY <2>4, <2>5, AppendProperties
    <3> HIDE DEF ms
    <3> QED
      BY <2>5, <2>6, <2>11, <2>12, <3>1 DEF LineNamed
  <2> HIDE DEF ms
  <2>14. /\ Grew(b.hs, c.hs) /\ HoldsNames(c.hs, ns)
         /\ Apart(b.hs, ms, b.used) => Apart(c.hs, ns, c.used)
    <3>1. b.hs[j].line \in 1 .. Len(ms) /\ LineNamed(ms, ns, b.hs[j].line, nm)
      BY <2>5, <2>6, <2>7, <2>8, <2>13
    <3>2. /\ b \in Making /\ c \in Making /\ HoldsNames(b.hs, ms) /\ NameGiven(b, c, j, nm)
          /\ ms \in Seq(NamedLine) /\ ns \in Seq(NamedLine) /\ j \in 1 .. Len(b.hs)
      BY <2>6, <2>7, <2>9, <2>10, <2>12
    <3> QED
      BY <3>1, <3>2, GivenName
  <2>15. Grew(hs, c.hs)
    <3>1. Grew(hs, gs) /\ Grew(gs, c.hs)
      BY <2>5, <2>6, <2>7, <2>14, GrewTwice
    <3> QED
      BY <3>1, GrewTwice
  <2>16. calm => Apart(c.hs, ns, c.used)
    BY <2>5, <2>6, <2>7, <2>14
  <2>17. FirstRight(c, hs, calm)
    BY <2>9, <2>14, <2>15, <2>16 DEF FirstRight, ns
  <2> QED
    BY <2>17 DEF c
<1> QED
  BY <1>4, <1>5

IsListed(f, a, k) ==
  f = [n \in 0 .. k |-> IF n = 0 THEN a ELSE OfferFirst(f[n - 1], n)]
ListedUpTo(a) == CHOOSE f : IsListed(f, a, Len(a.hs))

(* The loop of OfferHandlers has a result for a list of any length. *)
LEMMA ListedExists ==
  ASSUME NEW a, NEW len \in Nat
  PROVE  \E f : IsListed(f, a, len)
<1> DEFINE Bad == {k \in Nat : ~\E f : IsListed(f, a, k)}
<1>1. ASSUME Bad # {}
      PROVE  FALSE
  <2>1. PICK k \in Bad : \A j \in Bad : k <= j
    BY <1>1, LeastNumber
  <2>2. k # 0
    <3>1. IsListed([n \in 0 .. 0 |-> a], a, 0)
      BY DEF IsListed
    <3> QED
      BY <3>1
  <2>3. k - 1 \in Nat /\ k - 1 \notin Bad
    BY <2>1, <2>2
  <2>4. PICK g : IsListed(g, a, k - 1)
    BY <2>3
  <2> DEFINE f == [n \in 0 .. k |-> IF n = k THEN OfferFirst(g[k - 1], k) ELSE g[n]]
  <2>5. IsListed(f, a, k)
    <3>1. ASSUME NEW n \in 0 .. k
          PROVE  f[n] = IF n = 0 THEN a ELSE OfferFirst(f[n - 1], n)
      <4>1. CASE n = k
        <5>1. f[n] = OfferFirst(g[k - 1], k)
          BY <4>1
        <5>2. n - 1 \in 0 .. k /\ n - 1 # k
          BY <2>2, <4>1
        <5>3. f[n - 1] = g[k - 1]
          BY <5>2, <4>1
        <5> HIDE DEF f
        <5> QED
          BY <5>1, <5>3, <2>2, <4>1
      <4>2. CASE n # k
        <5>1. f[n] = g[n] /\ n \in 0 .. (k - 1)
          BY <4>2
        <5>2. g[n] = IF n = 0 THEN a ELSE OfferFirst(g[n - 1], n)
          BY <2>4, <5>1 DEF IsListed
        <5>3. n # 0 => f[n - 1] = g[n - 1]
          BY <4>2
        <5> HIDE DEF f
        <5> QED
          BY <5>1, <5>2, <5>3
      <4> QED
        BY <4>1, <4>2
    <3>2. f = [n \in 0 .. k |-> f[n]]
      OBVIOUS
    <3> HIDE DEF f
    <3> QED
      BY <3>1, <3>2 DEF IsListed
  <2> HIDE DEF f
  <2> QED
    BY <2>5
<1> QED
  BY <1>1

(* OfferHandlers: new lines are offered with names that fit. *)
LEMMA HandlersOffered ==
  ASSUME NEW a, NEW hs \in Seq(LineHandler), NEW calm \in BOOLEAN, FirstRight(a, hs, calm)
  PROVE  FirstRight(OfferHandlers(a), hs, calm)
<1> DEFINE f == ListedUpTo(a)
           Right(n) == FirstRight(f[n], hs, calm)
           len == Len(a.hs)
           Bad == {n \in 0 .. len : ~Right(n)}
<1>0. len \in Nat /\ len = Len(hs)
  BY LenProperties DEF FirstRight, Grew
<1>1. OfferHandlers(a) = f[len]
  BY DEF OfferHandlers, ListedUpTo, IsListed
<1>2. IsListed(f, a, len)
  BY ListedExists, <1>0, Zenon DEF ListedUpTo
<1> HIDE DEF f, len
<1>3. \A n \in 0 .. len : f[n] = IF n = 0 THEN a ELSE OfferFirst(f[n - 1], n)
  BY <1>2, Zenon DEF IsListed
<1>4. Right(0)
  <2>1. f[0] = a
    BY <1>0, <1>3
  <2> QED
    BY <2>1
<1>5. ASSUME NEW n \in 1 .. len, Right(n - 1)
      PROVE  Right(n)
  <2> DEFINE v == f[n - 1]
  <2>1. f[n] = OfferFirst(v, n)
    BY <1>0, <1>3
  <2>2. FirstRight(v, hs, calm) /\ n \in 1 .. Len(hs)
    BY <1>0, <1>5
  <2> HIDE DEF v
  <2>3. FirstRight(OfferFirst(v, n), hs, calm)
    BY <2>2, FirstStep
  <2> QED
    BY <2>1, <2>3
<1> HIDE DEF Right
<1>6. Right(len)
  <2>1. ASSUME Bad # {}
        PROVE  FALSE
    <3>1. Bad \in SUBSET Nat
      BY <1>0
    <3>2. PICK k \in Bad : \A j \in Bad : k <= j
      BY <2>1, <3>1, LeastNumber
    <3>3. k \in 1 .. len
      BY <1>0, <1>4
    <3>4. k - 1 \in 0 .. len /\ k - 1 \notin Bad
      BY <1>0, <3>2, <3>3
    <3> QED
      BY <1>5, <3>3, <3>4
  <2>2. len \in 0 .. len
    BY <1>0
  <2> QED
    BY <2>1, <2>2
<1> QED
  BY <1>1, <1>6 DEF Right

-----------------------------------------------------------------------------
(* Names and lines are all that HoldsNames and Apart depend on. *)
LEMMA HeldAlike ==
  ASSUME NEW hs, NEW gs, NEW ls, NEW ms, Len(hs) \in Nat, Len(ls) \in Nat,
         Len(gs) = Len(hs), Len(ms) = Len(ls),
         \A i \in 1 .. Len(hs) : gs[i].line = hs[i].line /\ gs[i].mid = hs[i].mid,
         \A i \in 1 .. Len(ls) : ms[i].mid = ls[i].mid, HoldsNames(hs, ls)
  PROVE  /\ HoldsNames(gs, ms)
         /\ \A used : Apart(hs, ls, used) => Apart(gs, ms, used)
<1>1. ASSUME NEW i \in 1 .. Len(gs)
      PROVE  /\ gs[i].line = hs[i].line /\ gs[i].mid = hs[i].mid
             /\ hs[i].line \in 0 .. Len(ls)
             /\ hs[i].line # 0 => ms[hs[i].line].mid = ls[hs[i].line].mid
             /\ hs[i].line # 0 => ls[hs[i].line].mid \in {NoMid, hs[i].mid}
  <2>1. i \in 1 .. Len(hs) /\ hs[i].line \in 0 .. Len(ls)
    BY DEF HoldsNames
  <2> QED
    BY <2>1 DEF HoldsNames
<1>2. \A i, j \in 1 .. Len(gs) : (i # j /\ gs[i].line = gs[j].line) => gs[i].line = 0
  BY <1>1 DEF HoldsNames
<1>3. HoldsNames(gs, ms)
  BY <1>1, <1>2 DEF HoldsNames
<1>4. ASSUME NEW used, Apart(hs, ls, used)
      PROVE  Apart(gs, ms, used)
  <2>1. Differ(ls)
    BY <1>4 DEF Apart
  <2>2. Differ(ms)
    BY <2>1 DEF Differ
  <2>3. \A i \in 1 .. Len(ms) : ms[i].mid # NoMid => Contains(used, ms[i].mid)
    BY <1>4 DEF Apart
  <2>4. \A i \in 1 .. Len(gs) : hs[i].mid = IF hs[i].line = 0 THEN NoMid ELSE ls[hs[i].line].mid
    BY <1>4 DEF Apart
  <2>5. \A i \in 1 .. Len(gs) : gs[i].mid = IF gs[i].line = 0 THEN NoMid ELSE ms[gs[i].line].mid
    BY <1>1, <2>4
  <2> QED
    BY <2>2, <2>3, <2>5 DEF Apart
<1> QED
  BY <1>3, <1>4

(* Between offers a handler has a line if, and only if, it is negotiated. *)
Settled(hs) == \A j \in 1 .. Len(hs) : hs[j].negotiated <=> hs[j].line # 0

(* A handler that is new, without a line or a name, changes nothing for the others. *)
LEMMA HandlerAppended ==
  ASSUME NEW hs \in Seq(LineHandler), NEW h \in LineHandler, h.line = 0, h.mid = NoMid,
         h.negotiated = FALSE, NEW ls, Len(ls) \in Nat, HoldsNames(hs, ls)
  PROVE  LET gs == Append(hs, h)
         IN  /\ gs \in Seq(LineHandler) /\ Len(gs) = Len(hs) + 1
             /\ \A i \in 1 .. Len(hs) : gs[i] = hs[i]
             /\ gs[Len(hs) + 1] = h
             /\ HoldsNames(gs, ls)
             /\ Settled(hs) => Settled(gs)
             /\ \A used : Apart(hs, ls, used) => Apart(gs, ls, used)
<1> DEFINE gs == Append(hs, h)
<1>0. Len(hs) \in Nat
  BY LenProperties
<1>1. /\ gs \in Seq(LineHandler) /\ Len(gs) = Len(hs) + 1
      /\ \A i \in 1 .. Len(hs) : gs[i] = hs[i]
      /\ gs[Len(hs) + 1] = h
  BY AppendProperties
<1> HIDE DEF gs
<1>2. \A i \in 1 .. Len(gs) : i \in 1 .. Len(hs) \/ i = Len(hs) + 1
  BY <1>0, <1>1
<1>3. HoldsNames(gs, ls)
  <2>1. ASSUME NEW i \in 1 .. Len(gs)
        PROVE  /\ gs[i].line \in 0 .. Len(ls)
               /\ gs[i].line # 0 => ls[gs[i].line].mid \in {NoMid, gs[i].mid}
    BY <1>1, <1>2 DEF HoldsNames
  <2>2. ASSUME NEW i \in 1 .. Len(gs), NEW j \in 1 .. Len(gs), i # j, gs[i].line = gs[j].line
        PROVE  gs[i].line = 0
    BY <1>1, <1>2, <2>2 DEF HoldsNames
  <2> QED
    BY <2>1, <2>2 DEF HoldsNames
<1>4. Settled(hs) => Settled(gs)
  BY <1>1, <1>2 DEF Settled
<1>5. ASSUME NEW used, Apart(hs, ls, used)
      PROVE  Apart(gs, ls, used)
  <2>1. \A i \in 1 .. Len(gs) : gs[i].mid = IF gs[i].line = 0 THEN NoMid ELSE ls[gs[i].line].mid
    BY <1>1, <1>2, <1>5 DEF Apart
  <2> QED
    BY <1>5, <2>1 DEF Apart
<1> QED
  BY <1>1, <1>3, <1>4, <1>5 DEF gs

(* HandlerFor: a handler without a line, in the group if the line is, unless it refuses. *)
LEMMA HandlerFound ==
  ASSUME bundle \in BOOLEAN, NEW hs \in Seq(LineHandler), NEW line \in NamedLine, NEW group,
         NEW supply \in BOOLEAN, NEW ls, Len(ls) \in Nat, HoldsNames(hs, ls), Settled(hs)
  PROVE  LET for == HandlerFor(hs, line, group, supply)
         IN  /\ for.hs \in Seq(LineHandler) /\ Len(for.hs) \in {Len(hs), Len(hs) + 1}
             /\ for.sel \in 1 .. Len(for.hs)
             /\ for.hs[for.sel].line = 0
             /\ HoldsNames(for.hs, ls) /\ Settled(for.hs)
             /\ \A used : Apart(hs, ls, used) => Apart(for.hs, ls, used)
             /\ (bundle /\ line.mid # NoMid /\ line.mid \in group)
                  => for.hs[for.sel].grouped \/ for.hs[for.sel].reject
<1> DEFINE suits == {j \in 1 .. Len(hs) : /\ hs[j].line = 0 /\ ~hs[j].removed
                                          /\ hs[j].kind = line.kind
                                          /\ ValidForGroups(hs[j], line, group)}
           h == NewLineHandler(line.kind, ~supply)
           new == Append(hs, h)
           for == HandlerFor(hs, line, group, supply)
           n == Len(hs) + 1
<1>0. Len(hs) \in Nat
  BY LenProperties
<1>1. CASE suits # {}
  <2>1. for = [sel |-> Min(suits), hs |-> hs]
    BY <1>1 DEF HandlerFor
  <2>2. suits \in SUBSET Nat
    BY <1>0
  <2>3. Min(suits) \in suits
    BY <1>1, <2>2, MinIsLeast
  <2> DEFINE m == Min(suits)
  <2>4. m \in 1 .. Len(hs) /\ hs[m].line = 0 /\ ValidForGroups(hs[m], line, group)
    BY <2>3
  <2> HIDE DEF m, suits, for
  <2>5. (line.mid # NoMid /\ line.mid \in group) => hs[m].grouped
    BY <2>4 DEF ValidForGroups
  <2>6. for.hs = hs /\ for.sel = m
    BY <2>1 DEF m
  <2> QED
    BY <2>4, <2>5, <2>6 DEF for
<1>2. CASE suits = {}
  <2> DEFINE g == add_to_group(new, n)
             k == [h EXCEPT !.grouped = TRUE]
  <2>1. h \in LineHandler /\ h.line = 0 /\ h.mid = NoMid /\ h.negotiated = FALSE
        /\ h.reject = ~supply
    BY DEF NewLineHandler, LineHandler, NamedLine
  <2>2. k \in LineHandler /\ k.line = 0 /\ k.mid = NoMid /\ k.negotiated = FALSE /\ k.grouped = TRUE
    BY DEF NewLineHandler, LineHandler, NamedLine
  <2>3. /\ Len(new) = n /\ new \in Seq(LineHandler) /\ new[n] = h
        /\ \A i \in 1 .. Len(hs) : new[i] = hs[i]
    BY <2>1, AppendProperties
  <2>4. g = Append(hs, k)
    <3>1. g = [new EXCEPT ![n] = [new[n] EXCEPT !.grouped = TRUE]]
      BY DEF add_to_group
    <3>2. g = [new EXCEPT ![n] = k]
      BY <2>3, <3>1
    <3>3. n \in 1 .. Len(new)
      BY <1>0, <2>3
    <3> HIDE DEF g, k, h, new
    <3>4. /\ g \in Seq(LineHandler) /\ Len(g) = n
          /\ \A i \in 1 .. n : g[i] = IF i = n THEN k ELSE new[i]
      BY <2>2, <2>3, <3>2, <3>3, ExceptSeq
    <3>5. /\ Append(hs, k) \in Seq(LineHandler) /\ Len(Append(hs, k)) = n
          /\ \A i \in 1 .. Len(hs) : Append(hs, k)[i] = hs[i]
          /\ Append(hs, k)[n] = k
      BY <2>2, AppendProperties
    <3>6. \A i \in 1 .. n : g[i] = Append(hs, k)[i]
      BY <1>0, <2>3, <3>4, <3>5
    <3> QED
      BY <3>4, <3>5, <3>6, SeqEqual
  <2>5. for = [sel |-> n, hs |-> IF supply THEN set_handler_group(new, n, line, group) ELSE new]
    BY <1>2, <2>3 DEF HandlerFor
  <2> DEFINE e == IF supply /\ bundle /\ line.mid \in group THEN k ELSE h
  <2>6. for.hs = Append(hs, e) /\ for.sel = n
    <3> HIDE DEF for, new, h, k, g, n
    <3>1. set_handler_group(new, n, line, group) = IF bundle /\ line.mid \in group THEN g ELSE new
      BY DEF set_handler_group, g
    <3> QED
      BY <2>4, <2>5, <3>1 DEF new
  <2>7. /\ e \in LineHandler /\ e.line = 0 /\ e.mid = NoMid /\ e.negotiated = FALSE
        /\ (bundle /\ line.mid \in group) => e.grouped \/ e.reject
    <3> HIDE DEF h, k
    <3>1. CASE supply /\ bundle /\ line.mid \in group
      BY <2>2, <3>1
    <3>2. CASE ~(supply /\ bundle /\ line.mid \in group)
      BY <2>1, <3>2
    <3> QED
      BY <3>1, <3>2
  <2> HIDE DEF e, for
  <2>8. /\ for.hs \in Seq(LineHandler) /\ Len(for.hs) = Len(hs) + 1
        /\ for.hs[n] = e /\ HoldsNames(for.hs, ls) /\ Settled(for.hs)
        /\ \A used : Apart(hs, ls, used) => Apart(for.hs, ls, used)
    <3>1. /\ Append(hs, e) \in Seq(LineHandler) /\ Len(Append(hs, e)) = Len(hs) + 1
          /\ Append(hs, e)[Len(hs) + 1] = e
          /\ HoldsNames(Append(hs, e), ls) /\ Settled(Append(hs, e))
          /\ \A used : Apart(hs, ls, used) => Apart(Append(hs, e), ls, used)
      BY <2>7, HandlerAppended
    <3> QED
      BY <2>6, <3>1
  <2>9. for.sel \in 1 .. Len(for.hs)
    BY <1>0, <2>6, <2>8
  <2> QED
    BY <2>6, <2>7, <2>8, <2>9 DEF for
<1> QED
  BY <1>1, <1>2

(* update_mid: the handler has the name, and the list has it too; a handler that had none
   takes nothing from the list. *)
LEMMA MidUpdated ==
  ASSUME NEW a \in Making, NEW j \in 1 .. Len(a.hs), NEW mid \in Mid
  PROVE  LET u == update_mid(a, j, mid)
         IN  /\ u \in Making /\ u.hs = Renamed(a.hs, j, mid) /\ u.lines = a.lines
             /\ a.hs[j].mid = NoMid => u.used = Append(a.used, mid)
<1> DEFINE u == update_mid(a, j, mid)
           used == a.used
           old == {i \in 1 .. Len(used) : used[i] = a.hs[j].mid}
           rest == IF old = {} THEN used ELSE RemoveAt(used, Min(old))
           hs == a.hs
           gs == Renamed(hs, j, mid)
<1>1. /\ hs \in Seq(LineHandler) /\ used \in Seq(Mid) /\ a.next \in [LineKinds -> Nat]
      /\ a.lines \in Seq(NamedLine)
  BY DEF Making
<1>2. u = [a EXCEPT !.hs = gs, !.used = Append(rest, mid)]
  BY Zenon DEF update_mid, Renamed
<1>3. \A i \in 1 .. Len(used) : used[i] \in Mid
  BY <1>1, ElementOfSeq
<1>4. Len(used) \in Nat
  BY <1>1, LenProperties
<1>5. rest \in Seq(Mid)
  <2>1. CASE old = {}
    BY <1>1, <2>1
  <2>2. CASE old # {}
    <3> DEFINE m == Min(old)
    <3>1. old \in SUBSET Nat
      BY <1>4
    <3>2. m \in 1 .. Len(used)
      BY <2>2, <3>1, MinIsLeast
    <3> HIDE DEF used, m, old
    <3>3. SubSeq(used, 1, m - 1) \in Seq(Mid)
      BY <1>3, <1>4, <3>2, SubSeqProperties
    <3>4. SubSeq(used, m + 1, Len(used)) \in Seq(Mid)
      BY <1>3, <1>4, <3>2, SubSeqProperties
    <3>5. SubSeq(used, 1, m - 1) \o SubSeq(used, m + 1, Len(used)) \in Seq(Mid)
      BY <3>3, <3>4, ConcatProperties
    <3> QED
      BY <2>2, <3>5 DEF RemoveAt, m
  <2> QED
    BY <2>1, <2>2
<1>6. a.hs[j].mid = NoMid => rest = used
  BY <1>3, NoMidIsNoName
<1> HIDE DEF rest, used, hs, gs, u
<1>7. gs \in Seq(LineHandler)
  <2>1. j \in 1 .. Len(hs) /\ mid \in Mid \cup {NoMid}
    BY DEF hs
  <2> QED
    BY <1>1, <2>1, HandlerRenamed DEF gs, OneChanged
<1>8. Append(rest, mid) \in Seq(Mid)
  BY <1>5, AppendProperties
<1>9. u \in Making /\ u.hs = gs /\ u.used = Append(rest, mid) /\ u.lines = a.lines
  BY <1>1, <1>2, <1>7, <1>8 DEF Making
<1> QED
  BY <1>6, <1>9 DEF u, gs, hs, used

Agreed(hs, j) == [hs EXCEPT ![j].negotiated = TRUE]

(* A handler that becomes negotiated stays in the list. *)
LEMMA HandlerAgreed ==
  ASSUME NEW hs \in Seq(LineHandler), NEW j \in 1 .. Len(hs)
  PROVE  OneChanged(hs, Agreed(hs, j), j, [hs[j] EXCEPT !.negotiated = TRUE])
<1>1. hs[j] \in LineHandler
  BY ElementOfSeq
<1> DEFINE e == [hs[j] EXCEPT !.negotiated = TRUE]
<1>2. e \in LineHandler
  BY <1>1 DEF LineHandler
<1> HIDE DEF e
<1>3. /\ [hs EXCEPT ![j] = e] \in Seq(LineHandler)
      /\ Len([hs EXCEPT ![j] = e]) = Len(hs)
      /\ \A i \in 1 .. Len(hs) : [hs EXCEPT ![j] = e][i] = IF i = j THEN e ELSE hs[i]
  BY <1>2, ExceptSeq
<1> QED
  <2>1. Agreed(hs, j) = [hs EXCEPT ![j] = e]
    BY Zenon DEF e, Agreed
  <2>2. e = [hs[j] EXCEPT !.negotiated = TRUE]
    BY DEF e
  <2> QED
    BY <1>3, <2>1, <2>2 DEF OneChanged

NameTaken(a, c, j, ms) ==
  /\ c \in Making /\ c.lines = a.lines /\ Len(c.hs) = Len(a.hs)
  /\ \A i \in 1 .. Len(a.hs) :
       /\ c.hs[i].line = IF i = j THEN Len(a.lines) + 1 ELSE a.hs[i].line
       /\ c.hs[i].negotiated = a.hs[i].negotiated
       /\ c.hs[i].grouped = a.hs[i].grouped /\ c.hs[i].reject = a.hs[i].reject
  /\ HoldsNames(c.hs, ms)
  /\ Apart(a.hs, a.lines, a.used) => Apart(c.hs, ms, c.used)

(* AnswerName for a handler that just got its line: it takes the name of the line. *)
LEMMA AnswerNamed ==
  ASSUME NEW a \in Making, NEW j \in 1 .. Len(a.hs), a.hs[j].line = 0, ~a.hs[j].negotiated,
         HoldsNames(a.hs, a.lines), NEW line \in NamedLine, NEW x \in NamedLine, x.mid = line.mid,
         \A i \in 1 .. Len(a.lines) : line.mid # NoMid => a.lines[i].mid # line.mid,
         NEW b, b = [a EXCEPT !.hs = Lined(a.hs, j, Len(a.lines) + 1)]
  PROVE  NameTaken(a, AnswerName(b, j, line), j, Append(a.lines, x))
<1> DEFINE fs == a.hs
           ls == a.lines
           n == Len(ls) + 1
           gs == Lined(fs, j, n)
           x0 == [line EXCEPT !.mid = NoMid]
           ms0 == Append(ls, x0)
           ms == Append(ls, x)
           c == AnswerName(b, j, line)
           Same(hs) == \A i \in 1 .. Len(fs) :
                  /\ hs[i].line = IF i = j THEN n ELSE fs[i].line
                  /\ hs[i].negotiated = fs[i].negotiated
                  /\ hs[i].grouped = fs[i].grouped /\ hs[i].reject = fs[i].reject
<1>1. /\ fs \in Seq(LineHandler) /\ ls \in Seq(NamedLine) /\ a.used \in Seq(Mid)
      /\ a.next \in [LineKinds -> Nat]
  BY DEF Making
<1>2. Len(fs) \in Nat /\ Len(ls) \in Nat /\ n \in Nat
  BY <1>1, LenProperties
<1>3. /\ j \in 1 .. Len(fs) /\ fs[j].line = 0 /\ ~fs[j].negotiated /\ HoldsNames(fs, ls)
      /\ \A i \in 1 .. Len(ls) : line.mid # NoMid => ls[i].mid # line.mid
  OBVIOUS
<1>4. x0 \in NamedLine /\ x0.mid = NoMid
  BY DEF NamedLine
<1>5. b = [a EXCEPT !.hs = gs]
  OBVIOUS
<1>6. line.mid \in Mid \cup {NoMid}
  BY DEF NamedLine
<1> HIDE DEF fs, ls, x0, c
<1>7. \A y \in NamedLine : y.mid = NoMid =>
        /\ HoldsNames(gs, Append(ls, y)) /\ Append(ls, y) \in Seq(NamedLine)
        /\ Len(Append(ls, y)) = Len(ls) + 1
        /\ \A used : Apart(fs, ls, used) => Apart(gs, Append(ls, y), used)
  BY <1>1, <1>3, LineAttached
<1>8. /\ gs \in Seq(LineHandler) /\ Len(gs) = Len(fs)
      /\ \A i \in 1 .. Len(fs) : gs[i] = IF i = j THEN [fs[i] EXCEPT !.line = n] ELSE fs[i]
  <2> HIDE DEF n
  <2>1. OneChanged(fs, gs, j, [fs[j] EXCEPT !.line = n])
    BY <1>1, <1>2, <1>3, HandlerLined
  <2> HIDE DEF gs
  <2> QED
    BY <2>1 DEF OneChanged
<1>9. \A i \in 1 .. Len(fs) : fs[i] \in LineHandler
  BY <1>1, ElementOfSeq
<1> HIDE DEF gs
<1>10. Same(gs)
  BY <1>2, <1>8, <1>9 DEF LineHandler
<1>11. b \in Making /\ b.hs = gs /\ b.lines = ls /\ b.used = a.used
  BY <1>1, <1>5, <1>8 DEF Making, ls
<1>12. CASE line.mid = NoMid
  <2>1. c = b
    BY <1>12 DEF AnswerName, c
  <2>2. HoldsNames(gs, ms) /\ (Apart(fs, ls, a.used) => Apart(gs, ms, a.used))
    BY <1>7, <1>12
  <2>3. /\ c \in Making /\ c.lines = ls /\ Len(c.hs) = Len(fs) /\ Same(c.hs)
        /\ HoldsNames(c.hs, ms) /\ (Apart(fs, ls, a.used) => Apart(c.hs, ms, c.used))
    BY <1>8, <1>10, <1>11, <2>1, <2>2
  <2> QED
    BY <2>3 DEF c, fs, ls, NameTaken
<1>13. CASE line.mid # NoMid
  <2> DEFINE nm == line.mid
             hs == Renamed(gs, j, nm)
             more == Append(a.used, nm)
  <2>1. c = update_mid(b, j, nm)
    <3>1. ~b.hs[j].negotiated
      BY <1>3, <1>10, <1>11
    <3> QED
      BY <1>13, <3>1 DEF AnswerName, on_answer_mid, c
  <2>2. nm \in Mid /\ j \in 1 .. Len(b.hs)
    BY <1>3, <1>6, <1>8, <1>11, <1>13
  <2> HIDE DEF nm
  <2>3. /\ c \in Making /\ c.hs = Renamed(b.hs, j, nm) /\ c.lines = b.lines
        /\ b.hs[j].mid = NoMid => c.used = Append(b.used, nm)
    BY <1>11, <2>1, <2>2, MidUpdated
  <2>4. c.hs = hs /\ c.lines = ls /\ (gs[j].mid = NoMid => c.used = more)
    BY <1>11, <2>3
  <2>5. /\ hs \in Seq(LineHandler) /\ Len(hs) = Len(gs)
        /\ \A i \in 1 .. Len(gs) : hs[i] = IF i = j THEN [gs[i] EXCEPT !.mid = nm] ELSE gs[i]
    <3>1. j \in 1 .. Len(gs) /\ nm \in Mid \cup {NoMid}
      BY <1>3, <1>8, <2>2
    <3>2. OneChanged(gs, hs, j, [gs[j] EXCEPT !.mid = nm])
      BY <1>8, <3>1, HandlerRenamed
    <3> HIDE DEF hs
    <3> QED
      BY <3>2 DEF OneChanged
  <2>6. \A i \in 1 .. Len(gs) : gs[i] \in LineHandler
    BY <1>8, ElementOfSeq
  <2> HIDE DEF hs, more
  <2>7. ASSUME NEW i \in 1 .. Len(fs)
        PROVE  /\ hs[i].line = gs[i].line /\ hs[i].negotiated = gs[i].negotiated
               /\ hs[i].grouped = gs[i].grouped /\ hs[i].reject = gs[i].reject
               /\ hs[i].mid = IF i = j THEN nm ELSE gs[i].mid
    <3>1. gs[i] \in LineHandler /\ hs[i] = IF i = j THEN [gs[i] EXCEPT !.mid = nm] ELSE gs[i]
      BY <1>8, <2>5, <2>6
    <3>2. CASE i = j
      BY <3>1, <3>2 DEF LineHandler
    <3>3. CASE i # j
      BY <3>1, <3>3
    <3> QED
      BY <3>2, <3>3
  <2>8. Same(hs)
    BY <1>10, <2>7
  <2>9. HandlerNamed(gs, hs, j, nm)
    BY <1>8, <2>5, <2>7 DEF HandlerNamed
  <2>10. /\ HoldsNames(gs, ms0) /\ ms0 \in Seq(NamedLine) /\ Len(ms0) = Len(ls) + 1
         /\ \A used : Apart(fs, ls, used) => Apart(gs, ms0, used)
    BY <1>4, <1>7
  <2>11. gs[j].line = n /\ n \in 1 .. Len(ms0) /\ Len(gs) \in Nat /\ Len(ms0) \in Nat
         /\ j \in 1 .. Len(gs)
    BY <1>2, <1>3, <1>8, <1>10, <2>10
  <2>12. /\ \A i \in 1 .. Len(ls) : ms0[i] = ls[i] /\ ms[i] = ls[i]
         /\ ms[n] = x /\ ms0[n] = x0 /\ Len(ms) = n
    BY <1>1, <1>4, AppendProperties
  <2> HIDE DEF ms, ms0
  <2>13. LineNamed(ms0, ms, gs[j].line, nm)
    BY <1>2, <2>10, <2>11, <2>12 DEF LineNamed, nm
  <2>14. HoldsNames(hs, ms)
    BY <2>9, <2>10, <2>11, <2>13, NamedHolds
  <2>15. ASSUME Apart(fs, ls, a.used)
         PROVE  Apart(hs, ms, c.used)
    <3>1. fs[j].mid = NoMid
      BY <1>3, <2>15 DEF Apart
    <3>2. gs[j].mid = NoMid
      BY <1>3, <1>8, <1>9, <3>1 DEF LineHandler
    <3>3. c.used = more
      BY <2>4, <3>2
    <3>4. Contains(more, nm) /\ \A m : Contains(a.used, m) => Contains(more, m)
      BY <1>1, <2>2, OneMoreName DEF more
    <3>5. ASSUME NEW i \in 1 .. Len(ms0), i # gs[j].line
          PROVE  ms0[i].mid # nm
      <4>1. i \in 1 .. Len(ls)
        BY <1>2, <2>10, <2>11, <3>5
      <4>2. ms0[i] = ls[i]
        BY <2>12, <4>1
      <4> QED
        BY <1>3, <1>13, <4>1, <4>2 DEF nm
    <3>6. Apart(gs, ms0, a.used)
      BY <2>10, <2>15
    <3>7. Apart(hs, ms, more)
      BY <2>9, <2>10, <2>11, <2>13, <3>4, <3>5, <3>6, NamedApart
    <3> QED
      BY <3>3, <3>7
  <2>16. /\ c \in Making /\ c.lines = ls /\ Len(c.hs) = Len(fs) /\ Same(c.hs)
         /\ HoldsNames(c.hs, ms) /\ (Apart(fs, ls, a.used) => Apart(c.hs, ms, c.used))
    BY <1>8, <2>3, <2>4, <2>5, <2>8, <2>14, <2>15
  <2> QED
    BY <2>16 DEF c, fs, ls, ms, NameTaken
<1> QED
  BY <1>12, <1>13

AnsweredWell(a, c, line, group) ==
  /\ c \in Making /\ Len(c.hs) \in {Len(a.hs), Len(a.hs) + 1}
  /\ HoldsNames(c.hs, c.lines) /\ Settled(c.hs)
  /\ Apart(a.hs, a.lines, a.used) => Apart(c.hs, c.lines, c.used)
  /\ \E x \in NamedLine :
       /\ c.lines = Append(a.lines, x) /\ x.mid = line.mid
       /\ (bundle /\ x.on /\ line.mid # NoMid /\ line.mid \in group)
            => \E j \in 1 .. Len(c.hs) : c.hs[j].line = Len(c.lines) /\ c.hs[j].grouped

(* AnswerLine: the answer has the line under the name it was offered with, and an accepted
   line that was offered in the group has a handler in the group. *)
LEMMA LineAnswered ==
  ASSUME bundle \in BOOLEAN, NEW a \in Making, NEW line \in NamedLine, NEW group,
         NEW supply \in BOOLEAN, HoldsNames(a.hs, a.lines), Settled(a.hs),
         \A i \in 1 .. Len(a.lines) : line.mid # NoMid => a.lines[i].mid # line.mid
  PROVE  AnsweredWell(a, AnswerLine(a, line, group, supply), line, group)
<1> DEFINE c == AnswerLine(a, line, group, supply)
           for == HandlerFor(a.hs, line, group, supply)
           j == for.sel
           fs == for.hs
           ls == a.lines
           n == Len(ls) + 1
           a1 == [a EXCEPT !.hs = fs]
           b0 == [a EXCEPT !.hs = [fs EXCEPT ![j].line = n]]
           b == AnswerName(b0, j, line)
           x == IF b.hs[j].reject THEN RejectLine(line) ELSE line
           ms == Append(ls, x)
<1>1. /\ a.hs \in Seq(LineHandler) /\ ls \in Seq(NamedLine) /\ a.used \in Seq(Mid)
      /\ a.next \in [LineKinds -> Nat] /\ HoldsNames(a.hs, ls)
  BY DEF Making
<1>2. Len(a.hs) \in Nat /\ Len(ls) \in Nat
  BY <1>1, LenProperties
<1>3. /\ for.hs \in Seq(LineHandler) /\ Len(for.hs) \in {Len(a.hs), Len(a.hs) + 1}
      /\ for.sel \in 1 .. Len(for.hs)
      /\ for.hs[for.sel].line = 0
      /\ HoldsNames(for.hs, ls) /\ Settled(for.hs)
      /\ \A used : Apart(a.hs, ls, used) => Apart(for.hs, ls, used)
      /\ (bundle /\ line.mid # NoMid /\ line.mid \in group)
           => for.hs[for.sel].grouped \/ for.hs[for.sel].reject
  <2> DEFINE hs == a.hs
  <2>1. hs \in Seq(LineHandler) /\ Len(ls) \in Nat /\ HoldsNames(hs, ls) /\ Settled(hs)
    BY <1>1, <1>2
  <2> HIDE DEF hs, ls
  <2>2. LET fr == HandlerFor(hs, line, group, supply)
        IN  /\ fr.hs \in Seq(LineHandler) /\ Len(fr.hs) \in {Len(hs), Len(hs) + 1}
            /\ fr.sel \in 1 .. Len(fr.hs)
            /\ fr.hs[fr.sel].line = 0
            /\ HoldsNames(fr.hs, ls) /\ Settled(fr.hs)
            /\ \A used : Apart(hs, ls, used) => Apart(fr.hs, ls, used)
            /\ (bundle /\ line.mid # NoMid /\ line.mid \in group)
                 => fr.hs[fr.sel].grouped \/ fr.hs[fr.sel].reject
    BY <2>1, HandlerFound, Zenon
  <2> QED
    BY <2>2, Zenon DEF hs
<1>4. c = [b EXCEPT !.lines = Append(b.lines, x), !.hs[j].negotiated = TRUE]
  BY Zenon DEF AnswerLine
<1> HIDE DEF for
<1>5. a1 \in Making /\ a1.hs = fs /\ a1.lines = ls /\ a1.used = a.used
  BY <1>1, <1>3 DEF Making
<1>6. b0 = [a1 EXCEPT !.hs = Lined(a1.hs, j, Len(a1.lines) + 1)]
  <2>1. b0 = [a EXCEPT !.hs = Lined(fs, j, n)]
    BY Zenon DEF Lined
  <2> HIDE DEF b0, fs, ls, j
  <2> QED
    BY <1>5, <2>1 DEF Making
<1>7. x \in NamedLine /\ x.mid = line.mid
  <2>1. RejectLine(line) \in NamedLine /\ RejectLine(line).mid = line.mid
    BY DEF RejectLine, NamedLine
  <2> HIDE DEF b
  <2> QED
    BY <2>1
<1>8. fs[j].negotiated = FALSE /\ fs[j] \in LineHandler
  <2>1. fs[j] \in LineHandler
    BY <1>3, ElementOfSeq
  <2>2. ~fs[j].negotiated
    BY <1>3 DEF Settled
  <2> QED
    BY <2>1, <2>2 DEF LineHandler
<1> HIDE DEF x, b0, a1, j, fs, c
<1>9. /\ b \in Making /\ b.lines = ls /\ Len(b.hs) = Len(fs)
      /\ \A i \in 1 .. Len(fs) :
           /\ b.hs[i].line = IF i = j THEN n ELSE fs[i].line
           /\ b.hs[i].negotiated = fs[i].negotiated
           /\ b.hs[i].grouped = fs[i].grouped /\ b.hs[i].reject = fs[i].reject
      /\ HoldsNames(b.hs, ms)
      /\ Apart(fs, ls, a.used) => Apart(b.hs, ms, b.used)
  <2>1. /\ a1 \in Making /\ j \in 1 .. Len(a1.hs) /\ a1.hs[j].line = 0 /\ ~a1.hs[j].negotiated
        /\ HoldsNames(a1.hs, a1.lines)
        /\ \A i \in 1 .. Len(a1.lines) : line.mid # NoMid => a1.lines[i].mid # line.mid
    BY <1>3, <1>5, <1>8 DEF fs, j
  <2>2. NameTaken(a1, b, j, Append(a1.lines, x))
    BY <1>6, <1>7, <2>1, AnswerNamed
  <2> QED
    BY <1>5, <2>2 DEF NameTaken
<1>10. x = IF b.hs[j].reject THEN RejectLine(line) ELSE line
  BY DEF x
<1> HIDE DEF b
<1> DEFINE bs == b.hs
           cs == Agreed(bs, j)
<1>11. bs \in Seq(LineHandler) /\ j \in 1 .. Len(bs) /\ Len(bs) \in Nat /\ b.used \in Seq(Mid)
       /\ b.next \in [LineKinds -> Nat]
  BY <1>2, <1>3, <1>9 DEF Making, j, fs
<1>12. c = [b EXCEPT !.hs = cs, !.lines = ms]
  <2>1. cs = [b.hs EXCEPT ![j].negotiated = TRUE] /\ b.lines = ls
    BY <1>9, Zenon DEF Agreed
  <2>2. c = [[b EXCEPT !.lines = Append(b.lines, x)] EXCEPT !.hs[j].negotiated = TRUE]
    BY <1>4
  <2>3. c = [[b EXCEPT !.lines = ms] EXCEPT !.hs = cs]
    <3> DEFINE d == [b EXCEPT !.lines = Append(b.lines, x)]
    <3>1. d.hs = b.hs /\ d = [b EXCEPT !.lines = ms]
      BY <1>9, <2>1 DEF Making
    <3> HIDE DEF d
    <3>2. c = [d EXCEPT !.hs = [d.hs EXCEPT ![j].negotiated = TRUE]]
      BY <2>2, Zenon DEF d
    <3> QED
      BY <2>1, <3>1, <3>2, Zenon
  <2> HIDE DEF cs, ms
  <2> QED
    BY <1>9, <2>3 DEF Making
<1> HIDE DEF bs
<1>13. /\ cs \in Seq(LineHandler) /\ Len(cs) = Len(bs)
       /\ \A i \in 1 .. Len(bs) : cs[i] = IF i = j THEN [bs[i] EXCEPT !.negotiated = TRUE] ELSE bs[i]
  <2>1. OneChanged(bs, cs, j, [bs[j] EXCEPT !.negotiated = TRUE])
    BY <1>11, HandlerAgreed
  <2> HIDE DEF cs
  <2> QED
    BY <2>1 DEF OneChanged
<1>14. /\ ms \in Seq(NamedLine) /\ Len(ms) = n
  BY <1>1, <1>7, AppendProperties
<1> HIDE DEF cs, ms, n
<1>15. c \in Making /\ c.hs = cs /\ c.lines = ms /\ c.used = b.used
  BY <1>9, <1>11, <1>12, <1>13, <1>14 DEF Making
<1>16. ASSUME NEW i \in 1 .. Len(bs)
       PROVE  /\ cs[i].line = bs[i].line /\ cs[i].mid = bs[i].mid
              /\ cs[i].grouped = bs[i].grouped
              /\ cs[i].negotiated = IF i = j THEN TRUE ELSE bs[i].negotiated
  <2>1. bs[i] \in LineHandler
    BY <1>11, ElementOfSeq
  <2>2. CASE i = j
    BY <1>13, <2>1, <2>2 DEF LineHandler
  <2>3. CASE i # j
    BY <1>13, <2>3
  <2> QED
    BY <2>2, <2>3
<1>17. HoldsNames(cs, ms) /\ \A used : Apart(bs, ms, used) => Apart(cs, ms, used)
  <2>1. Len(ms) \in Nat /\ HoldsNames(bs, ms)
    BY <1>2, <1>9, <1>14 DEF n, bs
  <2>2. \A i \in 1 .. Len(bs) : cs[i].line = bs[i].line /\ cs[i].mid = bs[i].mid
    BY <1>16
  <2> QED
    BY <1>11, <1>13, <2>1, <2>2, HeldAlike
<1>18. n \in Nat /\ n # 0
  BY <1>2 DEF n
<1>19. Settled(cs)
  <2>1. ASSUME NEW i \in 1 .. Len(cs)
        PROVE  cs[i].negotiated <=> cs[i].line # 0
    <3>0. i \in 1 .. Len(bs) /\ i \in 1 .. Len(fs)
      BY <1>9, <1>13 DEF bs
    <3>1. CASE i = j
      <4>1. cs[i].negotiated = TRUE
        BY <1>16, <3>0, <3>1
      <4>2. cs[i].line = n
        BY <1>9, <1>16, <3>0, <3>1 DEF bs
      <4> QED
        BY <1>18, <4>1, <4>2
    <3>2. CASE i # j
      <4>1. fs[i].negotiated <=> fs[i].line # 0
        BY <1>3, <3>0 DEF Settled, fs
      <4>2. cs[i].negotiated = fs[i].negotiated
        BY <1>9, <1>16, <3>0, <3>2 DEF bs
      <4>3. cs[i].line = fs[i].line
        BY <1>9, <1>16, <3>0, <3>2 DEF bs
      <4> QED
        BY <4>1, <4>2, <4>3
    <3> QED
      BY <3>1, <3>2
  <2> QED
    BY <2>1 DEF Settled
<1>20. Apart(a.hs, ls, a.used) => Apart(cs, ms, c.used)
  BY <1>3, <1>9, <1>15, <1>17 DEF fs, bs
<1>21. ASSUME bundle, x.on, line.mid # NoMid, line.mid \in group
       PROVE  cs[j].line = n /\ cs[j].grouped
  <2>1. fs[j].grouped \/ fs[j].reject
    BY <1>3, <1>21 DEF fs, j
  <2>2. j \in 1 .. Len(fs) /\ b.hs[j].reject = fs[j].reject /\ b.hs[j].grouped = fs[j].grouped
        /\ b.hs[j].line = n
    BY <1>9, <1>11 DEF bs
  <2>3. ~b.hs[j].reject
    <3>1. RejectLine(line).on = FALSE
      BY DEF RejectLine, NamedLine
    <3> QED
      BY <1>10, <1>21, <3>1
  <2>4. cs[j].line = bs[j].line /\ cs[j].grouped = bs[j].grouped
    BY <1>11, <1>16
  <2> QED
    BY <2>1, <2>2, <2>3, <2>4 DEF bs
<1>22. Len(cs) \in {Len(a.hs), Len(a.hs) + 1} /\ j \in 1 .. Len(cs)
  BY <1>3, <1>9, <1>11, <1>13 DEF fs, bs
<1>23. /\ c.lines = Append(a.lines, x) /\ x.mid = line.mid /\ x \in NamedLine
       /\ (bundle /\ x.on /\ line.mid # NoMid /\ line.mid \in group)
            => \E i \in 1 .. Len(c.hs) : c.hs[i].line = Len(c.lines) /\ c.hs[i].grouped
  <2>1. (bundle /\ x.on /\ line.mid # NoMid /\ line.mid \in group)
            => \E i \in 1 .. Len(cs) : cs[i].line = n /\ cs[i].grouped
    BY <1>21, <1>22
  <2> QED
    BY <1>7, <1>14, <1>15, <2>1 DEF ms
<1>24. /\ c \in Making /\ Len(c.hs) \in {Len(a.hs), Len(a.hs) + 1}
       /\ HoldsNames(c.hs, c.lines) /\ Settled(c.hs)
       /\ Apart(a.hs, a.lines, a.used) => Apart(c.hs, c.lines, c.used)
  BY <1>15, <1>17, <1>19, <1>20, <1>22
<1> QED
  BY <1>23, <1>24, Zenon DEF c, AnsweredWell

-----------------------------------------------------------------------------
(* The inductive invariant.                                                *)

LinesNow == IF offerPending THEN lastMade.by.lines ELSE agreed

(* A negotiated handler has a line that is agreed, under its name. *)
AgreedHeld ==
  \A j \in 1 .. Len(lineHandlers) : lineHandlers[j].negotiated =>
    /\ lineHandlers[j].line \in 1 .. Len(agreed)
    /\ agreed[lineHandlers[j].line].mid \in {NoMid, lineHandlers[j].mid}

GroupInv ==
  /\ GroupTypeOK
  /\ HoldsNames(lineHandlers, LinesNow) /\ AgreedHeld
  /\ ~offerPending => Settled(lineHandlers)
  /\ ~cancelled => Apart(lineHandlers, LinesNow, used_mids)
  /\ offerPending \/ lastMade.by.lines \in {<<>>, agreed}
  /\ GroupsMatch

(* Nothing made is a description. *)
LEMMA NothingTyped == NothingMade \in [to : GroupedLines, new : Nat, by : GroupedLines]
BY DEF NothingMade, NoLines, GroupedLines

(* The invariant after a step that leaves no offer pending. *)
LEMMA NonePending ==
  ASSUME GroupTypeOK', ~offerPending', HoldsNames(lineHandlers', agreed'), Settled(lineHandlers'),
         ~cancelled' => Apart(lineHandlers', agreed', used_mids'),
         lastMade'.by.lines \in {<<>>, agreed'}, GroupsMatch'
  PROVE  GroupInv'
<1>1. LinesNow' = agreed'
  BY DEF LinesNow
<1>2. AgreedHeld'
  BY DEF AgreedHeld, HoldsNames, Settled
<1> QED
  BY <1>1, <1>2 DEF GroupInv

(* The operations that make no description. *)
LEMMA HandlersChanged ==
  ASSUME GroupInv, ~offerPending, GroupStep, lastMade' = NothingMade,
         UNCHANGED <<bundle, used_mids, mids, agreed, offerPending, cancelled>>,
         lineHandlers' \in Seq(LineHandler), Len(lineHandlers') <= MaxLineHandlers,
         HoldsNames(lineHandlers', agreed), Settled(lineHandlers'),
         Apart(lineHandlers, agreed, used_mids) => Apart(lineHandlers', agreed, used_mids)
  PROVE  GroupInv'
<1>1. GroupTypeOK'
  <2>1. Len(lineHandlers') \in Nat
    BY LenProperties
  <2>2. MaxGroupOps \in Nat /\ MaxLineHandlers \in Nat
    BY GroupAssumption
  <2>3. groupOps' \in 0 .. MaxGroupOps
    BY <2>2 DEF GroupInv, GroupTypeOK, GroupStep
  <2> QED
    BY <2>1, <2>2, <2>3, NothingTyped DEF GroupInv, GroupTypeOK
<1>2. lastMade'.by.lines = <<>> /\ lastMade'.to = NoLines
  BY DEF NothingMade, NoLines
<1>3. GroupsMatch'
  BY <1>2 DEF GroupsMatch
<1>4. ~cancelled' => Apart(lineHandlers', agreed', used_mids')
  BY DEF GroupInv, LinesNow
<1> QED
  BY <1>1, <1>2, <1>3, <1>4, NonePending

(* AddLineHandler: the new handler has neither a line nor a name. *)
LEMMA HandlerAdded ==
  ASSUME GroupInv, NEW k \in LineKinds, AddLineHandler(k)
  PROVE  GroupInv'
<1> DEFINE h == NewLineHandler(k, FALSE)
           g == [h EXCEPT !.grouped = TRUE]
           n == Len(lineHandlers) + 1
           added == Append(lineHandlers, h)
           e == IF bundle THEN g ELSE h
<1>1. lineHandlers \in Seq(LineHandler) /\ HoldsNames(lineHandlers, agreed) /\ agreed \in Seq(NamedLine)
      /\ Settled(lineHandlers) /\ bundle \in BOOLEAN
  BY DEF GroupInv, GroupTypeOK, AddLineHandler, LinesNow
<1>2. Len(lineHandlers) \in Nat /\ Len(agreed) \in Nat /\ MaxLineHandlers \in Nat
  BY <1>1, LenProperties, GroupAssumption
<1>3. h \in LineHandler /\ h.line = 0 /\ h.mid = NoMid /\ h.negotiated = FALSE
  BY DEF NewLineHandler, LineHandler
<1>4. g \in LineHandler /\ g.line = 0 /\ g.mid = NoMid /\ g.negotiated = FALSE
  BY DEF NewLineHandler, LineHandler
<1>5. e \in LineHandler /\ e.line = 0 /\ e.mid = NoMid /\ e.negotiated = FALSE
  <2> HIDE DEF g, h
  <2> QED
    BY <1>1, <1>3, <1>4
<1>6. lineHandlers' = Append(lineHandlers, e)
  <2>1. lineHandlers' = IF bundle THEN add_to_group(added, Len(added)) ELSE added
    BY DEF AddLineHandler
  <2> HIDE DEF h
  <2>2. /\ added \in Seq(LineHandler) /\ Len(added) = n /\ added[n] = h
        /\ \A i \in 1 .. Len(lineHandlers) : added[i] = lineHandlers[i]
    BY <1>1, <1>3, AppendProperties
  <2>3. add_to_group(added, n) = [added EXCEPT ![n] = g]
    <3>1. add_to_group(added, n) = [added EXCEPT ![n] = [added[n] EXCEPT !.grouped = TRUE]]
      BY Zenon DEF add_to_group
    <3>2. [added[n] EXCEPT !.grouped = TRUE] = g
      BY <2>2, Zenon
    <3> HIDE DEF g
    <3> QED
      BY <3>1, <3>2, Zenon
  <2> HIDE DEF added, g, h
  <2>4. /\ [added EXCEPT ![n] = g] \in Seq(LineHandler) /\ Len([added EXCEPT ![n] = g]) = n
        /\ \A i \in 1 .. n : [added EXCEPT ![n] = g][i] = IF i = n THEN g ELSE added[i]
    <3>1. n \in 1 .. Len(added)
      BY <1>2, <2>2
    <3> QED
      BY <1>4, <2>2, <3>1, ExceptSeq
  <2>5. /\ Append(lineHandlers, g) \in Seq(LineHandler) /\ Len(Append(lineHandlers, g)) = n
        /\ \A i \in 1 .. Len(lineHandlers) : Append(lineHandlers, g)[i] = lineHandlers[i]
        /\ Append(lineHandlers, g)[n] = g
    BY <1>1, <1>4, AppendProperties
  <2>6. \A i \in 1 .. n : [added EXCEPT ![n] = g][i] = Append(lineHandlers, g)[i]
    BY <1>2, <2>2, <2>4, <2>5
  <2>7. [added EXCEPT ![n] = g] = Append(lineHandlers, g)
    BY <2>4, <2>5, <2>6, SeqEqual
  <2> QED
    BY <2>1, <2>2, <2>3, <2>7 DEF added
<1> HIDE DEF e, g, h
<1>7. /\ Append(lineHandlers, e) \in Seq(LineHandler) /\ Len(Append(lineHandlers, e)) = n
      /\ HoldsNames(Append(lineHandlers, e), agreed) /\ Settled(Append(lineHandlers, e))
      /\ \A used : Apart(lineHandlers, agreed, used) => Apart(Append(lineHandlers, e), agreed, used)
  BY <1>1, <1>2, <1>5, HandlerAppended
<1>8. n <= MaxLineHandlers
  BY <1>2 DEF AddLineHandler
<1>9. /\ ~offerPending /\ GroupStep /\ lastMade' = NothingMade
      /\ UNCHANGED <<bundle, used_mids, mids, agreed, offerPending, cancelled>>
  BY DEF AddLineHandler
<1> QED
  BY <1>6, <1>7, <1>8, <1>9, HandlersChanged

(* Out of the group, or removed: names and lines stay. *)
LEMMA HandlerLeft ==
  ASSUME GroupInv, NEW j \in DOMAIN lineHandlers, RemoveLineHandler(j) \/ RemoveFromGroup(j)
  PROVE  GroupInv'
<1> DEFINE hs == lineHandlers
           h == hs[j]
           e1 == [h EXCEPT !.grouped = FALSE, !.removed = TRUE]
           e2 == [h EXCEPT !.grouped = FALSE]
<1>1. hs \in Seq(LineHandler) /\ HoldsNames(hs, agreed) /\ agreed \in Seq(NamedLine) /\ Settled(hs)
      /\ Len(hs) <= MaxLineHandlers
  BY DEF GroupInv, GroupTypeOK, RemoveLineHandler, RemoveFromGroup, LinesNow
<1>2. Len(hs) \in Nat /\ Len(agreed) \in Nat /\ DOMAIN hs = 1 .. Len(hs)
  BY <1>1, LenProperties
<1>3. h \in LineHandler
  BY <1>1, <1>2, ElementOfSeq
<1>4. ASSUME NEW e \in {e1, e2}
      PROVE  e \in LineHandler /\ e.line = h.line /\ e.mid = h.mid /\ e.negotiated = h.negotiated
  BY <1>3 DEF LineHandler
<1>5. \E e \in {e1, e2} : lineHandlers' = [hs EXCEPT ![j] = e]
  <2>1. CASE RemoveLineHandler(j)
    <3>1. lineHandlers' = [[hs EXCEPT ![j].grouped = FALSE] EXCEPT ![j].removed = TRUE]
      BY <2>1 DEF RemoveLineHandler, remove_from_groups
    <3>2. lineHandlers' = [hs EXCEPT ![j] = e1]
      BY <1>1, <1>2, <3>1
    <3> QED
      BY <3>2
  <2>2. CASE RemoveFromGroup(j)
    <3>1. lineHandlers' = [hs EXCEPT ![j] = e2]
      BY <2>2 DEF RemoveFromGroup, remove_from_groups
    <3> QED
      BY <3>1
  <2> QED
    BY <2>1, <2>2
<1>6. PICK e \in {e1, e2} : lineHandlers' = [hs EXCEPT ![j] = e]
  BY <1>5
<1>7. e \in LineHandler /\ e.line = h.line /\ e.mid = h.mid /\ e.negotiated = h.negotiated
  BY <1>4
<1> HIDE DEF e1, e2
<1> DEFINE gs == [hs EXCEPT ![j] = e]
<1>8. /\ gs \in Seq(LineHandler) /\ Len(gs) = Len(hs)
      /\ \A i \in 1 .. Len(hs) : gs[i] = IF i = j THEN e ELSE hs[i]
  BY <1>1, <1>2, <1>7, ExceptSeq
<1> HIDE DEF gs
<1>9. \A i \in 1 .. Len(hs) : gs[i].line = hs[i].line /\ gs[i].mid = hs[i].mid
                              /\ gs[i].negotiated = hs[i].negotiated
  BY <1>7, <1>8
<1>10. HoldsNames(gs, agreed) /\ \A used : Apart(hs, agreed, used) => Apart(gs, agreed, used)
  <2>1. \A i \in 1 .. Len(hs) : gs[i].line = hs[i].line /\ gs[i].mid = hs[i].mid
    BY <1>9
  <2> QED
    BY <1>1, <1>2, <1>8, <2>1, HeldAlike
<1>11. Settled(gs)
  BY <1>1, <1>8, <1>9 DEF Settled
<1>12. /\ ~offerPending /\ GroupStep /\ lastMade' = NothingMade
       /\ UNCHANGED <<bundle, used_mids, mids, agreed, offerPending, cancelled>>
  BY DEF RemoveLineHandler, RemoveFromGroup
<1>13. lineHandlers' = gs
  BY <1>6 DEF gs
<1> QED
  BY <1>1, <1>8, <1>10, <1>11, <1>12, <1>13, HandlersChanged

(* The names of a group are names. *)
LEMMA GroupTyped ==
  ASSUME NEW hs, NEW lines \in Seq(NamedLine), NEW filter
  PROVE  /\ GroupOf(hs, lines, filter) \in SUBSET Mid
         /\ GroupOf(hs, lines, filter) \subseteq filter
<1>1. DOMAIN lines = 1 .. Len(lines)
  BY LenProperties
<1>2. \A i \in 1 .. Len(lines) : lines[i] \in NamedLine
  BY ElementOfSeq
<1>3. \A i \in DOMAIN lines : lines[i].mid \in Mid \cup {NoMid}
  BY <1>1, <1>2 DEF NamedLine
<1> QED
  BY <1>3 DEF GroupOf

(* MakeGroupOffer: lines that exist keep their names, the others get new ones. *)
LEMMA OfferMade ==
  ASSUME GroupInv, MakeGroupOffer
  PROVE  GroupInv'
<1> DEFINE start == [hs |-> lineHandlers, used |-> used_mids, next |-> mids, lines |-> <<>>]
           mid == OfferLines(start, agreed)
           end == OfferHandlers(mid)
           calm == ~cancelled
           by == [lines |-> end.lines, group |-> OfferedGroup(end.hs, end.lines)]
<1>0. /\ lineHandlers' = end.hs /\ used_mids' = end.used /\ mids' = end.next
      /\ lastMade' = [to |-> NoLines, new |-> Len(agreed) + 1, by |-> by]
      /\ offerPending' = TRUE /\ ~offerPending /\ GroupStep
      /\ UNCHANGED <<bundle, agreed, cancelled>>
  BY DEF MakeGroupOffer
<1>1. /\ lineHandlers \in Seq(LineHandler) /\ agreed \in Seq(NamedLine) /\ used_mids \in Seq(Mid)
      /\ mids \in [LineKinds -> Nat] /\ HoldsNames(lineHandlers, agreed) /\ AgreedHeld
      /\ ~cancelled => Apart(lineHandlers, agreed, used_mids)
      /\ cancelled \in BOOLEAN /\ bundle \in BOOLEAN /\ Len(lineHandlers) \in 0 .. MaxLineHandlers
  BY <1>0 DEF GroupInv, GroupTypeOK, LinesNow
<1>2. Len(lineHandlers) \in Nat /\ Len(agreed) \in Nat /\ MaxGroupOps \in Nat
  BY <1>1, LenProperties, GroupAssumption
<1>3. calm \in BOOLEAN
  BY <1>1
<1>4. start \in Making /\ start.hs = lineHandlers /\ start.lines = <<>> /\ start.used = used_mids
  BY <1>1, EmptySeq DEF Making
<1>5. AgainRight(start, 0, lineHandlers, agreed, calm)
  <2> HIDE DEF start
  <2> DEFINE full == Full(start, agreed)
  <2>1. Len(start.lines) = 0
    BY <1>4
  <2>2. \A i \in 1 .. Len(agreed) : ~(i <= 0)
    BY <1>2
  <2>3. full = [i \in 1 .. Len(agreed) |-> agreed[i]]
    BY <2>1, <2>2 DEF Full
  <2>4. full = agreed
    BY <1>1, <2>3, LenProperties
  <2>5. Grew(lineHandlers, start.hs)
    BY <1>4, GrewNot
  <2> HIDE DEF full
  <2>6. AgainRight(start, 0, lineHandlers, agreed, calm)
    BY <1>1, <1>4, <2>1, <2>4, <2>5 DEF AgainRight, full
  <2> QED
    BY <2>6
<1> HIDE DEF start, calm
<1>6. AgainRight(mid, Len(agreed), lineHandlers, agreed, calm)
  BY <1>1, <1>3, <1>5, LinesOffered
<1> HIDE DEF mid
<1>7. FirstRight(mid, lineHandlers, calm)
  <2>1. mid \in Making /\ Len(mid.lines) = Len(agreed) /\ mid.lines \in Seq(NamedLine)
    BY <1>6 DEF AgainRight, Making
  <2>2. Full(mid, agreed) = [i \in 1 .. Len(agreed) |-> mid.lines[i]]
    BY <1>2, <2>1 DEF Full
  <2>3. Full(mid, agreed) = mid.lines
    BY <2>1, <2>2, LenProperties
  <2> QED
    BY <1>6, <2>3 DEF AgainRight, FirstRight
<1>8. FirstRight(end, lineHandlers, calm)
  BY <1>1, <1>3, <1>7, HandlersOffered
<1> HIDE DEF end
<1>9. /\ end.hs \in Seq(LineHandler) /\ end.used \in Seq(Mid) /\ end.next \in [LineKinds -> Nat]
      /\ end.lines \in Seq(NamedLine) /\ HoldsNames(end.hs, end.lines)
      /\ Grew(lineHandlers, end.hs) /\ (calm => Apart(end.hs, end.lines, end.used))
  BY <1>8 DEF FirstRight, Making
<1>10. OfferedGroup(end.hs, end.lines) \in SUBSET Mid
  BY <1>9, GroupTyped DEF OfferedGroup
<1>11. by \in GroupedLines /\ NoLines \in GroupedLines /\ by.lines = end.lines
  BY <1>9, <1>10 DEF GroupedLines, NoLines
<1> HIDE DEF by
<1>12. /\ lastMade' \in [to : GroupedLines, new : Nat, by : GroupedLines]
       /\ lastMade'.to = NoLines /\ lastMade'.by = by
  BY <1>0, <1>2, <1>11
<1>13. groupOps' \in 0 .. MaxGroupOps
  BY <1>0, <1>2 DEF GroupInv, GroupTypeOK, GroupStep
<1>14. Len(end.hs) = Len(lineHandlers)
  BY <1>9 DEF Grew
<1>15. GroupTypeOK'
  BY <1>0, <1>1, <1>9, <1>12, <1>13, <1>14 DEF GroupTypeOK
<1>16. LinesNow' = end.lines
  BY <1>0, <1>11, <1>12 DEF LinesNow
<1>17. AgreedHeld'
  <2>1. ASSUME NEW j \in 1 .. Len(end.hs), end.hs[j].negotiated
        PROVE  /\ end.hs[j].line \in 1 .. Len(agreed)
               /\ agreed[end.hs[j].line].mid \in {NoMid, end.hs[j].mid}
    <3>1. /\ j \in 1 .. Len(lineHandlers) /\ lineHandlers[j].negotiated
          /\ lineHandlers[j].mid # NoMid => end.hs[j].mid = lineHandlers[j].mid
          /\ lineHandlers[j].line # 0 => end.hs[j].line = lineHandlers[j].line
      BY <1>9, <2>1 DEF Grew
    <3>2. /\ lineHandlers[j].line \in 1 .. Len(agreed)
          /\ agreed[lineHandlers[j].line].mid \in {NoMid, lineHandlers[j].mid}
      BY <1>1, <3>1 DEF AgreedHeld
    <3>3. end.hs[j].line = lineHandlers[j].line
      BY <1>2, <3>1, <3>2
    <3> QED
      BY <3>1, <3>2, <3>3
  <2> QED
    BY <1>0, <2>1 DEF AgreedHeld
<1>18. GroupsMatch'
  BY <1>12 DEF GroupsMatch
<1>19. ~cancelled' => Apart(lineHandlers', LinesNow', used_mids')
  BY <1>0, <1>9, <1>16 DEF calm
<1> QED
  BY <1>0, <1>9, <1>15, <1>16, <1>17, <1>18, <1>19 DEF GroupInv

(* The answer comes: every handler that has a line is negotiated. *)
LEMMA AnswerTaken ==
  ASSUME GroupInv, NEW off, AnswerComes(off)
  PROVE  GroupInv'
<1> DEFINE hs == lineHandlers
           gs == [j \in DOMAIN hs |-> [hs[j] EXCEPT !.negotiated = @ \/ hs[j].line # 0]]
           ls == lastMade.by.lines
           ms == [i \in DOMAIN ls |-> [ls[i] EXCEPT !.on = @ /\ i \notin off]]
<1>0. /\ lineHandlers' = gs /\ agreed' = ms /\ offerPending /\ offerPending' = FALSE /\ GroupStep
      /\ lastMade' = NothingMade /\ UNCHANGED <<bundle, used_mids, mids, cancelled>>
  BY DEF AnswerComes
<1>1. /\ hs \in Seq(LineHandler) /\ ls \in Seq(NamedLine) /\ HoldsNames(hs, ls)
      /\ ~cancelled => Apart(hs, ls, used_mids)
      /\ Len(hs) \in 0 .. MaxLineHandlers /\ AgreedHeld
  BY <1>0 DEF GroupInv, GroupTypeOK, LinesNow, GroupedLines
<1>2. Len(hs) \in Nat /\ Len(ls) \in Nat /\ DOMAIN hs = 1 .. Len(hs) /\ DOMAIN ls = 1 .. Len(ls)
      /\ MaxGroupOps \in Nat /\ Len(agreed) \in Nat
  <2>1. agreed \in Seq(NamedLine)
    BY DEF GroupInv, GroupTypeOK
  <2> QED
    BY <1>1, <2>1, LenProperties, GroupAssumption
<1>3. \A j \in 1 .. Len(hs) : hs[j] \in LineHandler
  BY <1>1, ElementOfSeq
<1>4. \A i \in 1 .. Len(ls) : ls[i] \in NamedLine
  BY <1>1, ElementOfSeq
<1>5. /\ gs \in [1 .. Len(hs) -> LineHandler]
      /\ \A j \in 1 .. Len(hs) : gs[j].line = hs[j].line /\ gs[j].mid = hs[j].mid
                                 /\ gs[j].negotiated = (hs[j].negotiated \/ hs[j].line # 0)
  <2>1. ASSUME NEW j \in 1 .. Len(hs)
        PROVE  /\ [hs[j] EXCEPT !.negotiated = hs[j].negotiated \/ hs[j].line # 0] \in LineHandler
               /\ gs[j] = [hs[j] EXCEPT !.negotiated = hs[j].negotiated \/ hs[j].line # 0]
               /\ gs[j].line = hs[j].line /\ gs[j].mid = hs[j].mid
               /\ gs[j].negotiated = (hs[j].negotiated \/ hs[j].line # 0)
    BY <1>2, <1>3 DEF LineHandler
  <2>2. DOMAIN gs = 1 .. Len(hs) /\ gs = [j \in 1 .. Len(hs) |-> gs[j]]
    BY <1>2
  <2> HIDE DEF gs
  <2> QED
    BY <2>1, <2>2
<1>6. /\ ms \in [1 .. Len(ls) -> NamedLine]
      /\ \A i \in 1 .. Len(ls) : ms[i].mid = ls[i].mid
  <2>1. ASSUME NEW i \in 1 .. Len(ls)
        PROVE  ms[i] \in NamedLine /\ ms[i].mid = ls[i].mid
    <3>1. ms[i] = [ls[i] EXCEPT !.on = ls[i].on /\ i \notin off]
      BY <1>2
    <3> HIDE DEF ms
    <3> QED
      BY <1>4, <3>1 DEF NamedLine
  <2>2. DOMAIN ms = 1 .. Len(ls) /\ ms = [i \in 1 .. Len(ls) |-> ms[i]]
    BY <1>2
  <2> HIDE DEF ms
  <2> QED
    BY <2>1, <2>2
<1> HIDE DEF gs, ms
<1>7. gs \in Seq(LineHandler) /\ Len(gs) = Len(hs)
  BY <1>2, <1>5, FunctionIsList
<1>8. ms \in Seq(NamedLine) /\ Len(ms) = Len(ls)
  BY <1>2, <1>6, FunctionIsList
<1>9. HoldsNames(gs, ms) /\ \A used : Apart(hs, ls, used) => Apart(gs, ms, used)
  <2>1. \A j \in 1 .. Len(hs) : gs[j].line = hs[j].line /\ gs[j].mid = hs[j].mid
    BY <1>5
  <2> QED
    BY <1>1, <1>2, <1>6, <1>7, <1>8, <2>1, HeldAlike
<1>10. Settled(gs)
  <2>1. ASSUME NEW j \in 1 .. Len(hs)
        PROVE  gs[j].negotiated <=> gs[j].line # 0
    <3>1. hs[j].negotiated => hs[j].line # 0
      BY <1>1, <1>2 DEF AgreedHeld
    <3> QED
      BY <1>5, <3>1
  <2> QED
    BY <1>7, <2>1 DEF Settled
<1>11. groupOps' \in 0 .. MaxGroupOps
  BY <1>0, <1>2 DEF GroupInv, GroupTypeOK, GroupStep
<1>12. GroupTypeOK'
  BY <1>0, <1>1, <1>7, <1>8, <1>11, NothingTyped DEF GroupInv, GroupTypeOK
<1>13. lastMade'.by.lines = <<>> /\ lastMade'.to = NoLines
  BY <1>0 DEF NothingMade, NoLines
<1>14. GroupsMatch'
  BY <1>13 DEF GroupsMatch
<1>15. ~cancelled' => Apart(lineHandlers', agreed', used_mids')
  BY <1>0, <1>1, <1>9
<1> QED
  BY <1>0, <1>9, <1>10, <1>12, <1>13, <1>14, <1>15, NonePending

(* The first offer is cancelled: no handler has a line any more. *)
LEMMA OfferCancelled ==
  ASSUME GroupInv, CancelGroupOffer
  PROVE  GroupInv'
<1> DEFINE hs == lineHandlers
           gs == [j \in DOMAIN hs |-> [hs[j] EXCEPT !.line = 0]]
<1>0. /\ lineHandlers' = gs /\ offerPending /\ offerPending' = FALSE /\ cancelled' = TRUE /\ agreed = <<>>
      /\ GroupStep /\ lastMade' = NothingMade /\ UNCHANGED <<bundle, used_mids, mids, agreed>>
  BY DEF CancelGroupOffer
<1>1. /\ hs \in Seq(LineHandler) /\ HoldsNames(hs, lastMade.by.lines) /\ agreed \in Seq(NamedLine)
      /\ Len(hs) \in 0 .. MaxLineHandlers /\ AgreedHeld
  BY <1>0 DEF GroupInv, GroupTypeOK, LinesNow
<1>2. Len(hs) \in Nat /\ DOMAIN hs = 1 .. Len(hs) /\ MaxGroupOps \in Nat /\ Len(agreed) \in Nat
  BY <1>1, LenProperties, GroupAssumption
<1>3. \A j \in 1 .. Len(hs) : hs[j] \in LineHandler
  BY <1>1, ElementOfSeq
<1>4. /\ gs \in [1 .. Len(hs) -> LineHandler]
      /\ \A j \in 1 .. Len(hs) : gs[j].line = 0 /\ gs[j].negotiated = hs[j].negotiated
  <2>1. ASSUME NEW j \in 1 .. Len(hs)
        PROVE  gs[j] \in LineHandler /\ gs[j].line = 0 /\ gs[j].negotiated = hs[j].negotiated
    <3>1. gs[j] = [hs[j] EXCEPT !.line = 0]
      BY <1>2
    <3> HIDE DEF gs
    <3> QED
      BY <1>3, <3>1 DEF LineHandler
  <2>2. DOMAIN gs = 1 .. Len(hs) /\ gs = [j \in 1 .. Len(hs) |-> gs[j]]
    BY <1>2
  <2> HIDE DEF gs
  <2> QED
    BY <2>1, <2>2
<1> HIDE DEF gs
<1>5. gs \in Seq(LineHandler) /\ Len(gs) = Len(hs)
  BY <1>2, <1>4, FunctionIsList
<1>6. \A j \in 1 .. Len(hs) : ~hs[j].negotiated
  <2>1. Len(agreed) = 0
    BY <1>0
  <2>2. \A j \in 1 .. Len(hs) : hs[j].negotiated => hs[j].line \in 1 .. 0
    BY <1>1, <2>1 DEF AgreedHeld
  <2> QED
    BY <2>2
<1>7. \A j \in 1 .. Len(gs) : gs[j].line = 0 /\ ~gs[j].negotiated
  BY <1>4, <1>5, <1>6
<1>8. HoldsNames(gs, agreed) /\ Settled(gs)
  BY <1>2, <1>7 DEF HoldsNames, Settled
<1>9. groupOps' \in 0 .. MaxGroupOps
  BY <1>0, <1>2 DEF GroupInv, GroupTypeOK, GroupStep
<1>10. GroupTypeOK'
  BY <1>0, <1>1, <1>5, <1>9, NothingTyped DEF GroupInv, GroupTypeOK
<1>11. lastMade'.by.lines = <<>> /\ lastMade'.to = NoLines
  BY <1>0 DEF NothingMade, NoLines
<1>12. GroupsMatch'
  BY <1>11 DEF GroupsMatch
<1> QED
  BY <1>0, <1>8, <1>10, <1>11, <1>12, NonePending

GroupsWell(hs, lines, group, made) ==
  /\ made \in SUBSET Mid /\ made \subseteq group
  /\ Differ(lines) => \A i \in DOMAIN lines : lines[i].mid \in made => lines[i].on
  /\ bundle => \A i \in DOMAIN lines :
       (/\ lines[i].on /\ lines[i].mid # NoMid /\ lines[i].mid \in group
        /\ \E j \in HandlersOf(hs, i) : hs[j].grouped) => lines[i].mid \in made

(* An answer groups names that were offered in the group, of accepted lines if no two lines
   have one name. *)
LEMMA AnswerGroups ==
  ASSUME NEW hs, NEW lines \in Seq(NamedLine), NEW group, bundle \in BOOLEAN
  PROVE  GroupsWell(hs, lines, group, AnsweredGroup(hs, lines, group))
<1> DEFINE made == AnsweredGroup(hs, lines, group)
<1>1. DOMAIN lines = 1 .. Len(lines)
  BY LenProperties
<1>2. made = IF bundle THEN GroupOf(hs, lines, group) ELSE {}
  BY DEF AnsweredGroup
<1>3. made \in SUBSET Mid /\ made \subseteq group
  BY <1>2, GroupTyped
<1>4. ASSUME Differ(lines), NEW i \in DOMAIN lines, lines[i].mid \in made
      PROVE  lines[i].on
  <2>1. lines[i].mid \in GroupOf(hs, lines, group)
    BY <1>2, <1>4
  <2>2. PICK k \in DOMAIN lines : lines[k].on /\ lines[k].mid # NoMid /\ lines[k].mid = lines[i].mid
    BY <2>1 DEF GroupOf
  <2>3. i = k
    BY <1>1, <1>4, <2>2 DEF Differ
  <2> QED
    BY <2>2, <2>3
<1>5. ASSUME bundle, NEW i \in DOMAIN lines, lines[i].on, lines[i].mid # NoMid,
             lines[i].mid \in group, \E j \in HandlersOf(hs, i) : hs[j].grouped
      PROVE  lines[i].mid \in made
  BY <1>2, <1>5 DEF GroupOf
<1> QED
  BY <1>3, <1>4, <1>5 DEF made, GroupsWell

(* PeerGroupOffer: a new line and its handler take the name the peer chose. *)
LEMMA PeerAnsweredNamed ==
  ASSUME GroupInv, NEW off, NEW new \in PeerNew, NEW supply \in BOOLEAN,
         NEW group \in PeerGroups(agreed, new), PeerGroupOffer(off, new, group, supply)
  PROVE  GroupInv'
<1> DEFINE hs == lineHandlers
           old == [i \in DOMAIN agreed |-> [agreed[i] EXCEPT !.on = @ /\ i \notin off]]
           offer == old \o new
           start == [hs |-> hs, used |-> used_mids, next |-> mids, lines |-> old]
           end == IF new = <<>> THEN start ELSE AnswerLine(start, new[1], group, supply)
           made == AnsweredGroup(end.hs, end.lines, group)
           to == [lines |-> offer, group |-> group]
           by == [lines |-> end.lines, group |-> made]
<1>0. /\ GroupStep /\ ~offerPending /\ Len(hs) + Len(new) <= MaxLineHandlers
      /\ \A i, j \in DOMAIN offer : (i # j /\ i > Len(old)) => (offer[i].mid # offer[j].mid
                                                                 \/ offer[i].mid = NoMid)
      /\ lineHandlers' = end.hs /\ used_mids' = end.used /\ agreed' = end.lines
      /\ lastMade' = [to |-> to, new |-> Len(old) + 1, by |-> by]
      /\ UNCHANGED <<bundle, mids, offerPending, cancelled>>
  BY DEF PeerGroupOffer
<1>1. /\ hs \in Seq(LineHandler) /\ agreed \in Seq(NamedLine) /\ used_mids \in Seq(Mid)
      /\ mids \in [LineKinds -> Nat] /\ HoldsNames(hs, agreed) /\ Settled(hs)
      /\ ~cancelled => Apart(hs, agreed, used_mids)
      /\ cancelled \in BOOLEAN /\ bundle \in BOOLEAN /\ offerPending \in BOOLEAN
      /\ Len(hs) \in 0 .. MaxLineHandlers
  BY <1>0 DEF GroupInv, GroupTypeOK, LinesNow
<1>2. Len(hs) \in Nat /\ Len(agreed) \in Nat /\ MaxGroupOps \in Nat /\ MaxLineHandlers \in Nat
      /\ DOMAIN agreed = 1 .. Len(agreed) /\ MaxNumber \in Nat
  BY <1>1, LenProperties, GroupAssumption
<1>3. \A i \in 1 .. Len(agreed) : agreed[i] \in NamedLine
  BY <1>1, ElementOfSeq
<1>4. /\ old \in Seq(NamedLine) /\ Len(old) = Len(agreed)
      /\ \A i \in 1 .. Len(agreed) : old[i].mid = agreed[i].mid
  <2>1. ASSUME NEW i \in 1 .. Len(agreed)
        PROVE  old[i] \in NamedLine /\ old[i].mid = agreed[i].mid
    <3>1. old[i] = [agreed[i] EXCEPT !.on = agreed[i].on /\ i \notin off]
      BY <1>2
    <3> HIDE DEF old
    <3> QED
      BY <1>3, <3>1 DEF NamedLine
  <2>2. DOMAIN old = 1 .. Len(agreed) /\ old = [i \in 1 .. Len(agreed) |-> old[i]]
    BY <1>2
  <2> HIDE DEF old
  <2>3. old \in [1 .. Len(agreed) -> NamedLine]
    BY <2>1, <2>2
  <2> QED
    BY <1>2, <2>1, <2>3, FunctionIsList
<1> HIDE DEF old
<1>6. HoldsNames(hs, old) /\ \A used : Apart(hs, agreed, used) => Apart(hs, old, used)
  BY <1>1, <1>2, <1>4, HeldAlike
<1>7. /\ start \in Making /\ start.hs = hs /\ start.lines = old /\ start.used = used_mids
  BY <1>1, <1>4 DEF Making
<1> HIDE DEF start
<1>8. /\ new = <<>> \/ (new[1] \in NamedLine /\ new = <<new[1]>>)
      /\ new \in Seq(NamedLine)
  <2>1. CASE new = <<>>
    BY <2>1, EmptySeq
  <2>2. CASE new # <<>>
    <3>1. PICK l \in [kind : LineKinds, on : {TRUE},
                      mid : (LineKinds \X (0 .. MaxNumber)) \cup {NoMid}] : new = <<l>>
      BY <2>2 DEF PeerNew
    <3>2. l.mid \in Mid \cup {NoMid}
      <4>1. 0 .. MaxNumber \subseteq Nat
        BY <1>2
      <4> QED
        BY <4>1 DEF Mid
    <3>3. l \in NamedLine
      BY <3>2 DEF NamedLine
    <3>4. new[1] = l
      BY <3>1
    <3> QED
      BY <3>1, <3>3, <3>4
  <2> QED
    BY <2>1, <2>2
<1>9. /\ offer \in Seq(NamedLine) /\ Len(offer) = Len(agreed) + Len(new)
      /\ \A i \in 1 .. Len(agreed) + Len(new) :
           offer[i] = IF i <= Len(agreed) THEN old[i] ELSE new[i - Len(agreed)]
  <2>1. /\ offer \in Seq(NamedLine) /\ Len(offer) = Len(old) + Len(new)
        /\ \A i \in 1 .. Len(old) + Len(new) :
             offer[i] = IF i <= Len(old) THEN old[i] ELSE new[i - Len(old)]
    BY <1>4, <1>8, ConcatProperties
  <2> QED
    BY <1>4, <2>1
<1>10. group \in SUBSET Mid /\ NoMid \notin group
  <2>1. ASSUME NEW s \in Seq(NamedLine)
        PROVE  AllNames(s) \ {NoMid} \in SUBSET Mid
    <3>1. DOMAIN s = 1 .. Len(s) /\ \A i \in 1 .. Len(s) : s[i] \in NamedLine
      BY LenProperties, ElementOfSeq
    <3> QED
      BY <3>1 DEF AllNames, NamedLine
  <2>2. agreed \o new \in Seq(NamedLine)
    BY <1>1, <1>8, ConcatProperties
  <2> QED
    BY <1>1, <2>1, <2>2, NoMidIsNoName DEF PeerGroups
<1>11. ASSUME new # <<>>
       PROVE  \A i \in 1 .. Len(old) : new[1].mid # NoMid => old[i].mid # new[1].mid
  <2> DEFINE n == Len(agreed) + 1
  <2>1. Len(new) = 1
    BY <1>8, <1>11
  <2>2. DOMAIN offer = 1 .. n
    BY <1>9, <2>1, LenProperties
  <2> HIDE DEF offer
  <2>3. offer[n] = new[1] /\ \A i \in 1 .. Len(agreed) : offer[i] = old[i]
    BY <1>2, <1>9, <2>1
  <2>4. \A i \in 1 .. Len(agreed) : i \in DOMAIN offer /\ n \in DOMAIN offer /\ i # n /\ n > Len(old)
    BY <1>2, <1>4, <2>2
  <2>5. \A i \in 1 .. Len(agreed) : offer[n].mid # offer[i].mid \/ offer[n].mid = NoMid
    BY <1>0, <2>4
  <2> QED
    BY <1>4, <2>3, <2>5
<1>12. /\ end \in Making /\ Len(end.hs) <= MaxLineHandlers
       /\ HoldsNames(end.hs, end.lines) /\ Settled(end.hs)
       /\ Apart(hs, old, used_mids) => Apart(end.hs, end.lines, end.used)
       /\ Len(end.lines) = Len(agreed) + Len(new)
       /\ (/\ new # <<>> /\ bundle /\ end.lines[Len(end.lines)].on
           /\ end.lines[Len(end.lines)].mid # NoMid /\ end.lines[Len(end.lines)].mid \in group)
            => \E j \in 1 .. Len(end.hs) : end.hs[j].line = Len(end.lines) /\ end.hs[j].grouped
  <2>1. CASE new = <<>>
    <3>1. end = start /\ Len(new) = 0
      BY <2>1
    <3> HIDE DEF end
    <3> QED
      BY <1>1, <1>2, <1>4, <1>6, <1>7, <2>1, <3>1
  <2>2. CASE new # <<>>
    <3> DEFINE line == new[1]
    <3>1. end = AnswerLine(start, line, group, supply)
      BY <2>2
    <3>2. line \in NamedLine /\ Len(new) = 1
      BY <1>8, <2>2
    <3> HIDE DEF end, line
    <3>3. /\ HoldsNames(start.hs, start.lines) /\ Settled(start.hs)
          /\ \A i \in 1 .. Len(start.lines) : line.mid # NoMid => start.lines[i].mid # line.mid
      BY <1>1, <1>6, <1>7, <1>11, <2>2 DEF line
    <3>4. /\ end \in Making /\ Len(end.hs) \in {Len(start.hs), Len(start.hs) + 1}
          /\ HoldsNames(end.hs, end.lines) /\ Settled(end.hs)
          /\ Apart(start.hs, start.lines, start.used) => Apart(end.hs, end.lines, end.used)
          /\ \E x \in NamedLine :
               /\ end.lines = Append(start.lines, x) /\ x.mid = line.mid
               /\ (bundle /\ x.on /\ line.mid # NoMid /\ line.mid \in group)
                    => \E j \in 1 .. Len(end.hs) :
                         end.hs[j].line = Len(end.lines) /\ end.hs[j].grouped
      <4>1. AnsweredWell(start, end, line, group)
        BY <1>1, <1>7, <3>1, <3>2, <3>3, LineAnswered
      <4> QED
        BY <4>1 DEF AnsweredWell
    <3>5. PICK x \in NamedLine :
               /\ end.lines = Append(start.lines, x) /\ x.mid = line.mid
               /\ (bundle /\ x.on /\ line.mid # NoMid /\ line.mid \in group)
                    => \E j \in 1 .. Len(end.hs) :
                         end.hs[j].line = Len(end.lines) /\ end.hs[j].grouped
      BY <3>4
    <3>6. Len(end.lines) = Len(agreed) + 1 /\ end.lines[Len(end.lines)] = x
      BY <1>4, <1>7, <3>5, AppendProperties
    <3>7. Len(end.hs) <= MaxLineHandlers
      BY <1>0, <1>2, <1>7, <3>2, <3>4
    <3> QED
      BY <1>7, <3>2, <3>4, <3>5, <3>6, <3>7
  <2> QED
    BY <2>1, <2>2
<1> HIDE DEF end
<1>13. /\ end.hs \in Seq(LineHandler) /\ end.lines \in Seq(NamedLine) /\ end.used \in Seq(Mid)
  BY <1>12 DEF Making
<1>14. Len(end.hs) \in 0 .. MaxLineHandlers /\ DOMAIN end.lines = 1 .. Len(end.lines)
       /\ DOMAIN end.hs = 1 .. Len(end.hs) /\ Len(new) \in Nat
  BY <1>2, <1>8, <1>12, <1>13, LenProperties
<1>15. /\ made \in SUBSET Mid /\ made \subseteq group
       /\ Differ(end.lines) => \A i \in DOMAIN end.lines : end.lines[i].mid \in made => end.lines[i].on
       /\ bundle => \A i \in DOMAIN end.lines :
            (/\ end.lines[i].on /\ end.lines[i].mid # NoMid /\ end.lines[i].mid \in group
             /\ \E j \in HandlersOf(end.hs, i) : end.hs[j].grouped) => end.lines[i].mid \in made
  <2>1. GroupsWell(end.hs, end.lines, group, made)
    BY <1>1, <1>13, AnswerGroups
  <2> QED
    BY <2>1 DEF GroupsWell
<1> HIDE DEF made, offer
<1>16. to \in GroupedLines /\ by \in GroupedLines
  BY <1>9, <1>10, <1>13, <1>15 DEF GroupedLines
<1>17. lastMade' \in [to : GroupedLines, new : Nat, by : GroupedLines]
  <2> HIDE DEF to, by
  <2> QED
    BY <1>0, <1>2, <1>4, <1>16
<1>18. groupOps' \in 0 .. MaxGroupOps
  BY <1>0, <1>2 DEF GroupInv, GroupTypeOK, GroupStep
<1>19. GroupTypeOK'
  <2> HIDE DEF to, by
  <2> QED
    BY <1>0, <1>1, <1>13, <1>14, <1>17, <1>18 DEF GroupTypeOK
<1>20. /\ lastMade'.to.group = group /\ lastMade'.by.lines = end.lines
       /\ lastMade'.by.group = made /\ lastMade'.new = Len(agreed) + 1
  BY <1>0, <1>4
<1>21. ~cancelled => Apart(end.hs, end.lines, end.used)
  BY <1>1, <1>6, <1>12
<1>22. GroupsMatch'
  <2>1. made \subseteq group
    BY <1>15
  <2>2. ~cancelled => \A i \in DOMAIN end.lines : end.lines[i].mid \in made => end.lines[i].on
    BY <1>15, <1>21 DEF Apart
  <2>3. ASSUME bundle, NEW i \in Len(agreed) + 1 .. Len(end.lines), end.lines[i].on,
               end.lines[i].mid \in group
        PROVE  end.lines[i].mid \in made
    <3>1. Len(new) # 0
      BY <1>2, <1>12, <1>14, <2>3
    <3>2. new # <<>>
      BY <3>1
    <3>3. Len(new) = 1
      BY <1>8, <3>2
    <3>4. i = Len(end.lines) /\ i \in DOMAIN end.lines
      BY <1>2, <1>12, <1>14, <2>3, <3>3
    <3>5. end.lines[i].mid # NoMid
      BY <1>10, <2>3
    <3>6. PICK j \in 1 .. Len(end.hs) : end.hs[j].line = i /\ end.hs[j].grouped
      BY <1>12, <2>3, <3>2, <3>4, <3>5
    <3>7. j \in HandlersOf(end.hs, i)
      BY <1>14, <3>6 DEF HandlersOf
    <3> QED
      BY <1>15, <2>3, <3>4, <3>5, <3>6, <3>7
  <2>4. bundle' = bundle /\ cancelled' = cancelled
    BY <1>0
  <2> QED
    BY <1>20, <2>1, <2>2, <2>3, <2>4 DEF GroupsMatch
<1>23. ~cancelled' => Apart(lineHandlers', agreed', used_mids')
  BY <1>0, <1>21
<1>24. /\ ~offerPending' /\ HoldsNames(lineHandlers', agreed') /\ Settled(lineHandlers')
       /\ lastMade'.by.lines \in {<<>>, agreed'}
  BY <1>0, <1>12, <1>20
<1> QED
  BY <1>19, <1>22, <1>23, <1>24, NonePending

(* There are no lines at first. *)
LEMMA GroupInitRight == GroupInit => GroupInv
<1> SUFFICES ASSUME GroupInit
             PROVE  GroupInv
  OBVIOUS
<1>1. /\ lineHandlers = <<>> /\ agreed = <<>> /\ lastMade = NothingMade /\ offerPending = FALSE
      /\ Len(lineHandlers) = 0 /\ Len(agreed) = 0 /\ lastMade.to = NoLines
  BY DEF GroupInit, NothingMade
<1>2. GroupTypeOK
  <2>1. <<>> \in Seq(LineHandler) /\ <<>> \in Seq(Mid) /\ <<>> \in Seq(NamedLine)
    OBVIOUS
  <2>2. mids \in [LineKinds -> Nat] /\ used_mids = <<>> /\ groupOps = 0
        /\ bundle \in BOOLEAN /\ cancelled = FALSE
    BY DEF GroupInit
  <2>3. 0 \in 0 .. MaxLineHandlers /\ 0 \in 0 .. MaxGroupOps
    BY GroupAssumption
  <2> QED
    BY <1>1, <2>1, <2>2, <2>3, NothingTyped DEF GroupTypeOK
<1>3. LinesNow = agreed /\ lastMade.by.lines = <<>>
  BY <1>1 DEF LinesNow, NothingMade, NoLines
<1>4. HoldsNames(lineHandlers, agreed) /\ AgreedHeld /\ Settled(lineHandlers)
      /\ Apart(lineHandlers, agreed, used_mids)
  BY <1>1 DEF HoldsNames, AgreedHeld, Settled, Apart, Differ
<1>5. GroupsMatch
  BY <1>1 DEF GroupsMatch
<1> QED
  BY <1>2, <1>3, <1>4, <1>5 DEF GroupInv

(* Every step keeps the invariant. *)
LEMMA GroupStepRight == GroupInv /\ [GroupNext]_groupVars => GroupInv'
<1> SUFFICES ASSUME GroupInv, [GroupNext]_groupVars
             PROVE  GroupInv'
  OBVIOUS
<1>1. ASSUME NEW k \in LineKinds, AddLineHandler(k)
      PROVE  GroupInv'
  BY <1>1, HandlerAdded
<1>2. ASSUME NEW j \in DOMAIN lineHandlers, RemoveLineHandler(j) \/ RemoveFromGroup(j)
      PROVE  GroupInv'
  BY <1>2, HandlerLeft
<1>3. CASE MakeGroupOffer
  BY <1>3, OfferMade
<1>4. CASE CancelGroupOffer
  BY <1>4, OfferCancelled
<1>5. ASSUME NEW off, AnswerComes(off)
      PROVE  GroupInv'
  BY <1>5, AnswerTaken
<1>6. ASSUME NEW off, NEW new \in PeerNew, NEW supply \in BOOLEAN,
             NEW group \in PeerGroups(agreed, new), PeerGroupOffer(off, new, group, supply)
      PROVE  GroupInv'
  BY <1>6, PeerAnsweredNamed
<1>7. CASE UNCHANGED groupVars
  BY <1>7 DEF groupVars, GroupInv, GroupTypeOK, LinesNow, AgreedHeld, GroupsMatch
<1> QED
  BY <1>1, <1>2, <1>3, <1>4, <1>5, <1>6, <1>7 DEF GroupNext

(* GroupInv is an invariant: handlers hold the names of their lines, one handler to a line,
   and as long as no offer was cancelled the names of lines differ and are all in the list
   that assign_mid looks at. *)
THEOREM GroupInvariant == GroupSpec => []GroupInv
<1>1. GroupInit => GroupInv
  BY GroupInitRight
<1>2. GroupInv /\ [GroupNext]_groupVars => GroupInv'
  BY GroupStepRight
<1> QED
  BY <1>1, <1>2, PTL DEF GroupSpec

(* The names, handlers and lines of the group manager have their types. *)
THEOREM GroupTypeCorrect == GroupSpec => []GroupTypeOK
<1>1. GroupInv => GroupTypeOK
  BY DEF GroupInv
<1> QED
  BY <1>1, GroupInvariant, PTL

(* Both sides use the same names for the lines and an answer's group is part of the offered
   one, for any number of lines, handlers and operations; and lines have different names as
   long as no offer was cancelled, since a name given for a cancelled offer is given again. *)
THEOREM LinesStayNamed == GroupSpec => []LinesNamed
<1>1. GroupInv => LinesNamed
  <2> SUFFICES ASSUME GroupInv
               PROVE  LinesNamed
    OBVIOUS
  <2>1. /\ lineHandlers \in Seq(LineHandler) /\ lastMade.by.lines \in Seq(NamedLine)
    BY DEF GroupInv, GroupTypeOK, GroupedLines
  <2>2. DOMAIN lineHandlers = 1 .. Len(lineHandlers)
        /\ DOMAIN lastMade.by.lines = 1 .. Len(lastMade.by.lines)
    BY <2>1, LenProperties
  <2>3. NamesDiffer
    <3>1. lastMade.by.lines = <<>> \/ lastMade.by.lines = LinesNow
      BY DEF GroupInv, LinesNow
    <3>2. ~cancelled => Differ(lastMade.by.lines)
      <4>1. CASE lastMade.by.lines = <<>>
        BY <4>1 DEF Differ
      <4>2. CASE lastMade.by.lines = LinesNow
        BY <4>2 DEF GroupInv, Apart
      <4> QED
        BY <3>1, <4>1, <4>2
    <3> QED
      BY <2>2, <3>2 DEF NamesDiffer, Differ
  <2>4. NamesAgreed
    BY <2>2 DEF GroupInv, AgreedHeld, NamesAgreed
  <2>5. GroupsMatch
    BY DEF GroupInv
  <2> QED
    BY <2>3, <2>4, <2>5 DEF LinesNamed
<1> QED
  BY <1>1, GroupInvariant, PTL
=============================================================================
