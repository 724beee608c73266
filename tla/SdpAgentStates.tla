--------------------------- MODULE SdpAgentStates ---------------------------
(***************************************************************************)
(* What the SDP agent promises its user: the state diagram drawn at the    *)
(* head of kmssdpagent.c, with the rule written above it, that the user's  *)
(* media are only added and removed while nothing is being negotiated.     *)
(* SdpAgent implements this specification.                                 *)
(***************************************************************************)
CONSTANT Media   \* names of media handlers

VARIABLES
  state,    \* the state of the diagram
  agreed,   \* whether a negotiation ended before: "previously negotiated?"
  media     \* the media the user has registered and not removed

vars == <<state, agreed, media>>

Quiet == {"unnegotiated", "negotiated"}

Init == state = "unnegotiated" /\ agreed = FALSE /\ media = {}

Go(from, to) == state \in from /\ state' = to

(* Adding and removing media. *)
Modify == state \in Quiet /\ media' \in SUBSET Media /\ UNCHANGED <<state, agreed>>

LocalOffer == Go(Quiet, "local_offer") /\ UNCHANGED <<agreed, media>>

CancelOffer ==
  /\ Go({"local_offer"}, IF agreed THEN "negotiated" ELSE "unnegotiated")
  /\ UNCHANGED <<agreed, media>>

SetLocalOffer == Go({"local_offer"}, "wait_nego") /\ UNCHANGED <<agreed, media>>

SetRemoteAnswer == Go({"wait_nego"}, "negotiated") /\ agreed' = TRUE /\ UNCHANGED media

SetRemoteOffer == Go(Quiet, "remote_offer") /\ UNCHANGED <<agreed, media>>

(* Handlers the user supplies on request while an answer is made. *)
Supply ==
  /\ state = "remote_offer"
  /\ media' \in SUBSET Media /\ media \subseteq media'
  /\ UNCHANGED <<state, agreed>>

SetLocalAnswer == Go({"remote_offer"}, "negotiated") /\ agreed' = TRUE /\ UNCHANGED media

Next ==
  \/ Modify \/ LocalOffer \/ CancelOffer \/ SetLocalOffer \/ SetRemoteAnswer
  \/ SetRemoteOffer \/ Supply \/ SetLocalAnswer

Spec == Init /\ [][Next]_vars
=============================================================================
