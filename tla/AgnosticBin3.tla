----------------------------- MODULE AgnosticBin3 ------------------------------
(***************************************************************************)
(* The agnosticbin with many inputs, kmsagnosticbin3.c.                    *)
(*                                                                         *)
(* Every sink pad has an agnosticbin ("transcoder") of its own.  A source  *)
(* pad is served by the transcoder of an input whose format its peer       *)
(* takes, or by any transcoder, which then transcodes, if no input fits    *)
(* and nobody upstream can send what fits.  Formats of inputs are known    *)
(* when their caps events come, and source pads are requested with or      *)
(* without caps, and linked, at any time: the module is about what happens *)
(* to the pads that have to wait.                                          *)
(*                                                                         *)
(* A region under the element's mutex is one step.  The round robin among  *)
(* the transcoders goes by the order of a hash table of pointers: any of   *)
(* them may be next.                                                       *)
(***************************************************************************)
EXTENDS Integers, FiniteSets

CONSTANTS
  Formats3,    \* formats
  InPads,      \* sink pads that may be requested
  OutPads,     \* source pads that may be requested
  PeerCaps,    \* the formats the peer of a source pad takes: [OutPads -> SUBSET Formats3]
  UpstreamCaps \* what the elements upstream say, when asked, that they could send

VARIABLES
  transcoders, \* agnosticbins: the sink pads whose agnosticbin is in the list
  sinkcaps,    \* the format of a sink pad, or NoFormat
  srcPads,     \* KmsSrcPadData, the target and the peer of every source pad
  outThread    \* the step of a request with caps, or of the linked handler, of a source pad

bin3Vars == <<transcoders, sinkcaps, srcPads, outThread>>

NoFormat == "no_format"
NoPad3 == "no_pad"

ASSUME Bin3Assumption ==
  /\ PeerCaps \in [OutPads -> SUBSET Formats3]
  /\ UpstreamCaps \subseteq Formats3
  /\ NoFormat \notin Formats3 /\ NoPad3 \notin InPads
  /\ IsFiniteSet(InPads)

-----------------------------------------------------------------------------
(* get_configured_transcoders: the sink pads with an entry in the table sinkcaps, the
   candidates of get_element_for_transcoding. *)
Configured(caps) == {k \in InPads : caps[k] # NoFormat}
AllConfigured(caps) == Cardinality(Configured(caps)) = Cardinality(transcoders)

(* The signal "caps". *)
UpstreamSupports(wanted) == wanted \cap UpstreamCaps # {}

(* get_transcoder_by_srcpads: transcoders that make a wanted format for another pad. *)
AlreadyMaking(wanted) ==
  {k \in transcoders : \E p \in OutPads : srcPads[p].target = k /\ srcPads[p].carries \in wanted}

(* get_compatible_transcoder_tree *)
Compatible(wanted) ==
  LET fits == {k \in InPads : sinkcaps[k] \in wanted}
  IN  CASE Configured(sinkcaps) = {} -> {}
        [] Configured(sinkcaps) # {} /\ fits # {} -> fits
        [] OTHER -> AlreadyMaking(wanted)

(* set_transcoder_src_target_pad; "needless" notes a transcoding although an input fits. *)
Targeted(pad, k, caps, wanted) ==
  [pad EXCEPT !.state = "LINKED", !.target = k,
     !.needless = caps[k] \notin wanted /\ AlreadyMaking(wanted) = {}
                    /\ \E j \in InPads : caps[j] \in wanted]

NewSrcPad == [state |-> "UNCONFIGURED", caps |-> {}, added |-> FALSE, linked |-> FALSE,
              target |-> NoPad3, carries |-> NoFormat, told |-> FALSE, late |-> FALSE,
              needless |-> FALSE]

SetPad3(p, v) == srcPads' = [srcPads EXCEPT ![p] = v]
At3(p, step) == outThread[p] = step
Go3(p, step) == outThread' = [outThread EXCEPT ![p] = step]

-----------------------------------------------------------------------------
(* request_sink_pad *)
RequestIn(k) ==
  /\ k \notin transcoders
  /\ transcoders' = transcoders \cup {k}
  /\ UNCHANGED <<sinkcaps, srcPads, outThread>>

(* connect_srcpad_to_encoder for a pad that was waiting, when the caps of k have come; t is
   the transcoder that is next in turn.  Pads in other states are not served. *)
connect_srcpad(p, k, caps, t) ==
  LET pad == srcPads[p]
      fits == caps[k] \in (IF pad.state = "CONFIGURED" THEN pad.caps ELSE PeerCaps[p])
      asked == IF pad.state = "CONFIGURED" THEN pad.caps ELSE {}
  IN  CASE pad.state \notin {"UNCONFIGURED", "CONFIGURED"} -> pad
        [] pad.state \in {"UNCONFIGURED", "CONFIGURED"} /\ fits -> Targeted(pad, k, caps, PeerCaps[p])
        [] pad.state \in {"UNCONFIGURED", "CONFIGURED"} /\ ~fits /\ ~AllConfigured(caps) -> pad
        [] pad.state \in {"UNCONFIGURED", "CONFIGURED"} /\ ~fits /\ AllConfigured(caps)
             /\ UpstreamSupports(asked) -> [pad EXCEPT !.told = TRUE]
        [] OTHER -> Targeted(pad, t, caps, PeerCaps[p])

(* link_pending_src_pads *)
link_pending(p, k, caps, t) ==
  IF srcPads[p].added /\ srcPads[p].linked THEN connect_srcpad(p, k, caps, t) ELSE srcPads[p]

(* sink_caps_probe; caps that change later are ignored. *)
CapsEvent(k, f) ==
  LET caps == [sinkcaps EXCEPT ![k] = f]
  IN  /\ k \in transcoders
      /\ sinkcaps[k] = NoFormat
      /\ sinkcaps' = caps
      /\ \E turn \in [OutPads -> Configured(caps)] :
           srcPads' = [p \in OutPads |-> link_pending(p, k, caps, turn[p])]
      /\ UNCHANGED <<transcoders, outThread>>

-----------------------------------------------------------------------------
(* create_src_pad_without_caps *)
RequestOut(p) ==
  /\ At3(p, "none") /\ ~srcPads[p].added
  /\ SetPad3(p, [NewSrcPad EXCEPT !.added = TRUE])
  /\ UNCHANGED <<transcoders, sinkcaps, outThread>>

(* create_src_pad_with_caps: is there an input that fits? *)
RequestOutWithCaps(p) ==
  LET pad == [NewSrcPad EXCEPT !.caps = PeerCaps[p]]
      fits == Compatible(PeerCaps[p])
  IN  /\ At3(p, "none") /\ ~srcPads[p].added
      /\ IF fits # {}
         THEN /\ \E k \in fits : SetPad3(p, Targeted(pad, k, sinkcaps, PeerCaps[p]))
              /\ Go3(p, "add")
         ELSE SetPad3(p, pad) /\ Go3(p, "ask")
      /\ UNCHANGED <<transcoders, sinkcaps>>

(* request_src_pad *)
RequestSrc(p) == RequestOut(p) \/ RequestOutWithCaps(p)

(* If not, upstream is asked, and create_src_pad_with_transcodification looks again. *)
AskUpstream(p) ==
  LET pad == srcPads[p]
      fits == Compatible(pad.caps)
      any == IF fits # {} THEN fits ELSE Configured(sinkcaps)
  IN  /\ At3(p, "ask")
      /\ IF UpstreamSupports(pad.caps)
         THEN SetPad3(p, [pad EXCEPT !.state = "WAITING", !.told = TRUE])
         ELSE \/ any # {} /\ \E k \in any : SetPad3(p, Targeted(pad, k, sinkcaps, PeerCaps[p]))
              \/ any = {} /\ SetPad3(p, [pad EXCEPT !.state = "CONFIGURED"])
      /\ Go3(p, "add")
      /\ UNCHANGED <<transcoders, sinkcaps>>

(* append_pending_src_pad *)
AddOut(p) ==
  /\ At3(p, "add")
  /\ SetPad3(p, [srcPads[p] EXCEPT !.added = TRUE])
  /\ Go3(p, "none")
  /\ UNCHANGED <<transcoders, sinkcaps>>

(* The pad is linked; src_pad_linked, its first part.  "late" notes a pad requested with
   caps that no input had answered for, linked when some input has its caps. *)
LinkOut(p) ==
  LET pad == [srcPads[p] EXCEPT !.linked = TRUE]
  IN  /\ At3(p, "none") /\ srcPads[p].added /\ ~srcPads[p].linked
      /\ IF pad.state # "UNCONFIGURED"
         THEN /\ SetPad3(p, [pad EXCEPT !.late = pad.state = "CONFIGURED" /\ Configured(sinkcaps) # {}])
              /\ UNCHANGED outThread
         ELSE SetPad3(p, [pad EXCEPT !.state = "CONFIGURING"]) /\ Go3(p, "configuring")
      /\ UNCHANGED <<transcoders, sinkcaps>>

(* A mutated form: a pad that waits for the caps of inputs is left as waiting. *)
PendingState_waiting == "WAITING"

(* The state of a pad that the next caps event is to connect. *)
PendingState == "UNCONFIGURED"

(* src_pad_linked under the mutex. *)
EndLinkOut(p) ==
  LET pad == srcPads[p]
      fits == Compatible(PeerCaps[p])
      wait == [pad EXCEPT !.state = PendingState]
  IN  /\ At3(p, "configuring")
      /\ \/ transcoders = {} /\ SetPad3(p, wait)
         \/ transcoders # {} /\ \E k \in fits : SetPad3(p, Targeted(pad, k, sinkcaps, PeerCaps[p]))
         \/ transcoders # {} /\ fits = {} /\ ~AllConfigured(sinkcaps) /\ SetPad3(p, wait)
         \/ /\ transcoders # {} /\ fits = {} /\ AllConfigured(sinkcaps)
            /\ IF UpstreamSupports(PeerCaps[p])
               THEN SetPad3(p, [pad EXCEPT !.state = "WAITING", !.told = TRUE])
               ELSE \E k \in Configured(sinkcaps) : SetPad3(p, Targeted(pad, k, sinkcaps, PeerCaps[p]))
      /\ Go3(p, "none")
      /\ UNCHANGED <<transcoders, sinkcaps>>

(* Media flows through a linked pad: its target has caps. *)
OutFlows(p) ==
  LET from == sinkcaps[srcPads[p].target]
  IN  /\ srcPads[p].linked /\ srcPads[p].state = "LINKED" /\ srcPads[p].carries = NoFormat
      /\ PeerCaps[p] # {}
      /\ \E f \in PeerCaps[p] :
           /\ from \in PeerCaps[p] => f = from
           /\ SetPad3(p, [srcPads[p] EXCEPT !.carries = f])
      /\ UNCHANGED <<transcoders, sinkcaps, outThread>>

Bin3Init ==
  /\ transcoders = {}
  /\ sinkcaps = [k \in InPads |-> NoFormat]
  /\ srcPads = [p \in OutPads |-> NewSrcPad]
  /\ outThread = [p \in OutPads |-> "none"]

Bin3Next ==
  \/ \E k \in InPads : RequestIn(k) \/ \E f \in Formats3 : CapsEvent(k, f)
  \/ \E p \in OutPads :
       \/ RequestSrc(p) \/ AskUpstream(p) \/ AddOut(p) \/ LinkOut(p)
       \/ EndLinkOut(p) \/ OutFlows(p)

Bin3Spec == Bin3Init /\ [][Bin3Next]_bin3Vars

-----------------------------------------------------------------------------
SrcPad3 == [state : {"UNCONFIGURED", "CONFIGURING", "CONFIGURED", "WAITING", "LINKED"},
            caps : SUBSET Formats3, added : BOOLEAN, linked : BOOLEAN, target : InPads \cup {NoPad3},
            carries : Formats3 \cup {NoFormat}, told : BOOLEAN, late : BOOLEAN, needless : BOOLEAN]
OutSteps == {"none", "ask", "add", "configuring"}

(* The variables have their types, and a target is the transcoder of a requested sink pad. *)
Bin3TypeOK ==
  /\ transcoders \subseteq InPads
  /\ sinkcaps \in [InPads -> Formats3 \cup {NoFormat}]
  /\ srcPads \in [OutPads -> SrcPad3]
  /\ \A p \in OutPads : srcPads[p].target \in transcoders \cup {NoPad3}
  /\ outThread \in [OutPads -> OutSteps]

(* No pad is forgotten between its link and the caps of the inputs: once every input has
   its caps, a linked pad is served, unless upstream promised its format; and it is served
   by an input that fits if there is one.  src_pad_linked says of the inputs that are not
   ready: "They will connect pending pads as soon as they get the caps event".  Pads
   requested with caps and linked after the first input has its caps are excepted:
   src_pad_linked does not look at them. *)
EveryPadServed ==
  \A p \in OutPads : (srcPads[p].linked /\ At3(p, "none") /\ ~srcPads[p].late) =>
    /\ (transcoders # {} /\ Configured(sinkcaps) = transcoders /\ ~srcPads[p].told) =>
         srcPads[p].state = "LINKED"
    /\ ~srcPads[p].needless
=============================================================================
