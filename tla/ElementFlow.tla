------------------------------ MODULE ElementFlow ------------------------------
(***************************************************************************)
(* Whether media flows through an element (kmselement.c): the probes of    *)
(* the pads mark buffers, a timer of the shared loop looks for marks, and  *)
(* whoever changes the state tells MediaElementImpl, which keeps it for    *)
(* isMediaFlowingIn/Out and raises the event.  One KmsMediaFlowData is     *)
(* modelled: that of one sink pad, or of an output element with several    *)
(* pads, each with a streaming thread.                                     *)
(*                                                                         *)
(* Every atomic operation of the code is a step.  The callbacks hold a     *)
(* reference of the element while they run.                                *)
(***************************************************************************)
EXTENDS Integers, FiniteSets

CONSTANTS FlowThreads,  \* streaming threads of the pads
          MaxBuffers    \* bound: buffers that come through all the pads

VARIABLES
  media_flowing, buffers,  \* the fields of KmsMediaFlowData
  probed,      \* threads whose pad has the probe
  timer,       \* "none", "on" (attached to the loop) or "off" (removed)
  threadPc,    \* where a thread is in cb_buffer_received
  tickPc,      \* where the loop is in check_if_flow_media
  elementAlive,
  shown,       \* mediaFlowOutStates (or mediaFlowInStates): 1 for FLOWING
  raised,      \* number of events raised, by the state they tell
  lastRaised,  \* the state told by the last event
  overtaken,   \* a change was made while an earlier one was not told yet
  received     \* buffers so far

flowVars == <<media_flowing, buffers, probed, timer, threadPc, tickPc, elementAlive,
              shown, raised, lastRaised, overtaken, received>>

ASSUME FlowAssumption == MaxBuffers \in Nat /\ IsFiniteSet(FlowThreads)

(* media_flow_data_new and media_flow_timeout_data_new *)
FlowInit ==
  /\ media_flowing = 0 /\ buffers = 0
  /\ probed = {} /\ timer = "none"
  /\ threadPc = [t \in FlowThreads |-> "idle"] /\ tickPc = "idle"
  /\ elementAlive = TRUE
  /\ shown = 0 /\ raised = [v \in {0, 1} |-> 0] /\ lastRaised = 0
  /\ overtaken = FALSE /\ received = 0

-----------------------------------------------------------------------------
(* add_flow_event_probes, for a pad that exists or that is added later; attach_timeout is
   called once. *)
AddFlowProbe(t) ==
  /\ elementAlive /\ t \notin probed
  /\ probed' = probed \cup {t}
  /\ timer' = IF timer = "none" THEN "on" ELSE timer
  /\ UNCHANGED <<media_flowing, buffers, threadPc, tickPc, elementAlive, shown, raised,
                 lastRaised, overtaken, received>>

(* mediaFlowOutStateChanged and mediaFlowInStateChanged: the state is kept, then the events
   are raised.  Nothing keeps two threads from doing this at the same time. *)
KeepState(v) == shown' = v /\ UNCHANGED <<raised, lastRaised>>
RaiseEvent(v) == raised' = [raised EXCEPT ![v] = @ + 1] /\ lastRaised' = v /\ UNCHANGED shown

(* A mutated form: the flag is read and set, and the signal sent whatever it was. *)
ClaimAlways == [now |-> 1, tell |-> TRUE]

(* g_atomic_int_compare_and_exchange (media_flowing, 0, 1) *)
Claim == [now |-> 1, tell |-> media_flowing = 0]

(* cb_buffer_received: a buffer comes.  When the element is gone nothing is done. *)
BufferReceived(t) ==
  /\ threadPc[t] = "idle" /\ t \in probed /\ elementAlive
  /\ received < MaxBuffers /\ received' = received + 1
  /\ media_flowing' = Claim.now
  /\ threadPc' = [threadPc EXCEPT ![t] = IF Claim.tell THEN "keep" ELSE "mark"]
  /\ overtaken' = (overtaken \/ (Claim.tell /\ tickPc \in {"keep", "raise"}))
  /\ UNCHANGED <<buffers, probed, timer, tickPc, elementAlive, shown, raised, lastRaised>>

ThreadTells(t) ==
  /\ \/ threadPc[t] = "keep" /\ KeepState(1) /\ threadPc' = [threadPc EXCEPT ![t] = "raise"]
     \/ threadPc[t] = "raise" /\ RaiseEvent(1) /\ threadPc' = [threadPc EXCEPT ![t] = "mark"]
  /\ UNCHANGED <<media_flowing, buffers, probed, timer, tickPc, elementAlive, overtaken, received>>

BufferMarked(t) ==
  /\ threadPc[t] = "mark"
  /\ buffers' = 1
  /\ threadPc' = [threadPc EXCEPT ![t] = "idle"]
  /\ UNCHANGED <<media_flowing, probed, timer, tickPc, elementAlive, shown, raised, lastRaised,
                 overtaken, received>>

-----------------------------------------------------------------------------
(* check_if_flow_media: the timer looks for a mark. *)
Tick ==
  /\ timer = "on" /\ tickPc = "idle" /\ elementAlive
  /\ media_flowing = 1
  /\ tickPc' = IF buffers = 0 THEN "stop" ELSE "unmark"
  /\ UNCHANGED <<media_flowing, buffers, probed, timer, threadPc, elementAlive, shown, raised,
                 lastRaised, overtaken, received>>

Unmark ==
  /\ tickPc = "unmark"
  /\ buffers' = 0 /\ tickPc' = "idle"
  /\ UNCHANGED <<media_flowing, probed, timer, threadPc, elementAlive, shown, raised,
                 lastRaised, overtaken, received>>

FlowStops ==
  /\ tickPc = "stop"
  /\ media_flowing' = 0 /\ tickPc' = "keep"
  /\ overtaken' = (overtaken \/ \E t \in FlowThreads : threadPc[t] \in {"keep", "raise"})
  /\ UNCHANGED <<buffers, probed, timer, threadPc, elementAlive, shown, raised, lastRaised, received>>

TickTells ==
  /\ \/ tickPc = "keep" /\ KeepState(0) /\ tickPc' = "raise"
     \/ tickPc = "raise" /\ RaiseEvent(0) /\ tickPc' = "idle"
  /\ UNCHANGED <<media_flowing, buffers, probed, timer, threadPc, elementAlive, overtaken, received>>

(* The last reference of the element goes; callbacks under way have one. *)
ElementGone ==
  /\ elementAlive /\ tickPc = "idle" /\ \A t \in FlowThreads : threadPc[t] = "idle"
  /\ elementAlive' = FALSE
  /\ UNCHANGED <<media_flowing, buffers, probed, timer, threadPc, tickPc, shown, raised,
                 lastRaised, overtaken, received>>

(* The timer finds the element gone, or media_flow_timeout_data_destroy removes it with the
   last probe. *)
TimerRemoved ==
  /\ ~elementAlive /\ timer = "on"
  /\ timer' = "off"
  /\ UNCHANGED <<media_flowing, buffers, probed, threadPc, tickPc, elementAlive, shown, raised,
                 lastRaised, overtaken, received>>

FlowNext ==
  \/ \E t \in FlowThreads : AddFlowProbe(t) \/ BufferReceived(t) \/ ThreadTells(t) \/ BufferMarked(t)
  \/ Tick \/ Unmark \/ FlowStops \/ TickTells
  \/ ElementGone \/ TimerRemoved

FlowSpec == FlowInit /\ [][FlowNext]_flowVars

-----------------------------------------------------------------------------
FlowTypeOK ==
  /\ {media_flowing, buffers, shown, lastRaised} \subseteq {0, 1}
  /\ probed \subseteq FlowThreads /\ timer \in {"none", "on", "off"}
  /\ threadPc \in [FlowThreads -> {"idle", "keep", "raise", "mark"}]
  /\ tickPc \in {"idle", "stop", "unmark", "keep", "raise"}
  /\ elementAlive \in BOOLEAN /\ overtaken \in BOOLEAN
  /\ raised \in [{0, 1} -> Nat] /\ received \in 0..MaxBuffers

(* isMediaFlowingIn and isMediaFlowingOut *)
isMediaFlowing == shown = 1

ToTell(t) == IF threadPc[t] \in {"keep", "raise"} THEN 1 ELSE 0
StillToTell == Cardinality({t \in FlowThreads : ToTell(t) = 1})
                 - (IF tickPc \in {"keep", "raise"} THEN 1 ELSE 0)

(* Every change of media_flowing is told, once, however the threads of several pads and the
   timer meet; and as long as no change overtook the telling of another, what the events and
   isMediaFlowing say at rest is what the element holds (cb_buffer_received,
   check_if_flow_media). *)
FlowTold ==
  /\ raised[1] - raised[0] + StillToTell = media_flowing
  /\ (~overtaken /\ tickPc = "idle" /\ \A t \in FlowThreads : ToTell(t) = 0) =>
       (isMediaFlowing <=> media_flowing = 1) /\ lastRaised = media_flowing
=============================================================================
