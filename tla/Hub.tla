--------------------------------- MODULE Hub ----------------------------------
(***************************************************************************)
(* Hubs and hub ports: kmsbasehub.c, kmshubport.c, HubImpl.cpp and         *)
(* HubPortImpl.cpp.                                                        *)
(*                                                                         *)
(* A hub gives each port an id.  The hub of a derived class links the pads *)
(* of its internal elements to the ports, at any time and from any thread: *)
(* the hub then has a ghost pad for the port whose target is the internal  *)
(* pad.  Threads run the linkings, which find the target before they look  *)
(* at the port: a sink is linked under the lock of the hub, a source       *)
(* without it.  Creating and destroying a port is a request to the server. *)
(***************************************************************************)
EXTENDS Naturals, FiniteSets, Sequences, Functions

CONSTANTS
  HubPorts,     \* hub ports
  HubThreads,   \* threads of a derived class
  HubKinds,     \* "audio", "video" and "data"
  StaticPads,   \* pads that internal elements always have
  MaxPortIds, MaxRequested  \* bounds: ids given; pads requested of internal elements

VARIABLES
  hub_ports,   \* hub_ports[id]: the port with the id; the sink targets kept with it are never read,
               \* since a port has its pads before it is handled (endpoint_pad_added)
  port_count,  \* the next id
  hub_pads,    \* hub_pads[<<dir, kind, id>>]: the ghost pad and its target
  requested,   \* requested[n]: a pad requested of an internal element; how it stands
  port_sinks,  \* <<port, kind>>: the port has a sink for what the hub takes from it
  port_inputs, \* <<port, kind>>: the port has a pad for what the hub gives it
  linking,     \* linking[t]: a link whose target is found
  hub_crashed  \* a port that is not there was used, which ends the behaviour

hubVars == <<hub_ports, port_count, hub_pads, requested, port_sinks, port_inputs, linking, hub_crashed>>

ASSUME HubAssumption == MaxPortIds \in Nat /\ MaxRequested \in Nat

NoTarget == <<"none", 0>>
NotLinking == [dir |-> "none", id |-> 0, kind |-> "none", target |-> NoTarget, found |-> FALSE]
Static(name) == <<"static", name>>
RequestTarget(n) == <<"request", n>>
PadKey(dir, kind, id) == <<dir, kind, id>>
Handled == DOMAIN hub_ports

-----------------------------------------------------------------------------
(* Targets.                                                                *)

(* get_static_pad finds a pad the element always has or one that was requested before; or
   else get_request_pad makes one, to be released when it is unlinked if the caller wants
   it to. *)
Targets ==
  {Static(s) : s \in StaticPads}
    \cup {RequestTarget(n) : n \in {m \in DOMAIN requested : requested[m].live}}
    \cup {RequestTarget(n) : n \in {Len(requested) + 1} \cap 1..MaxRequested}

Requested(target, remove) ==
  IF target = RequestTarget(Len(requested) + 1)
  THEN Append(requested, [live |-> TRUE, remove |-> remove, linked |-> FALSE])
  ELSE requested

(* A target that loses its ghost pad is unlinked: remove_unlinked_pad releases it. *)
Unlinked(reqs, target) ==
  IF target[1] = "request" /\ reqs[target[2]].remove
  THEN [reqs EXCEPT ![target[2]].live = FALSE] ELSE reqs

LinkedTo(reqs, target) ==
  IF target[1] = "request" THEN [reqs EXCEPT ![target[2]].linked = TRUE] ELSE reqs

(* gst_ghost_pad_set_target fails for a target that is linked already, and leaves none. *)
Taken(key, target) == \E x \in DOMAIN hub_pads \ {key} : hub_pads[x].target = target
Granted(key, target) == IF Taken(key, target) THEN NoTarget ELSE target

(* set_target: a ghost pad gives up its target for another or for none. *)
set_target(key, target) ==
  /\ hub_pads' = [hub_pads EXCEPT ![key].target = Granted(key, target)]
  /\ requested' = LinkedTo(Unlinked(requested, hub_pads[key].target), Granted(key, target))

(* A new ghost pad with its target. *)
AddPad(key, target) ==
  /\ hub_pads' = [x \in DOMAIN hub_pads \cup {key} |->
                     IF x = key THEN [target |-> target] ELSE hub_pads[x]]
  /\ requested' = LinkedTo(requested, target)

-----------------------------------------------------------------------------
(* Ports.                                                                  *)

(* HubPortImpl: the port is made and handled. *)
HandlePort(p) ==
  /\ port_count < MaxPortIds
  /\ p \notin {hub_ports[id].port : id \in Handled}
  /\ hub_ports' = [id \in Handled \cup {port_count} |->
                     IF id = port_count THEN [port |-> p]
                     ELSE hub_ports[id]]
  /\ port_count' = port_count + 1
  /\ UNCHANGED <<hub_pads, requested, port_sinks, port_inputs, linking, hub_crashed>>

(* remove_port_pads: the data pads of the port are forgotten. *)
PortPads(id) ==
  {key \in DOMAIN hub_pads : key[3] = id /\ key[2] # "data"}

(* kms_hub_port_unhandled removes the sinks of the port that feed the hub. *)
port_unhandled(p) == {x \in port_sinks : x[1] # p}

(* ~HubPortImpl: the hub forgets the port, which goes away; a data source that is left
   loses its link to the port, and so its target (remove_target_cb). *)
UnhandlePort(id) ==
  LET p == hub_ports[id].port
      data == PadKey("src", "data", id)
      gone == {hub_pads[key].target : key \in DOMAIN hub_pads \cap (PortPads(id) \cup {data})}
  IN  /\ id \in Handled
      /\ port_sinks' = port_unhandled(p)
      /\ hub_pads' = [key \in DOMAIN hub_pads \ PortPads(id) |->
                        IF key = data THEN [target |-> NoTarget] ELSE hub_pads[key]]
      /\ requested' = [n \in DOMAIN requested |->
                         IF RequestTarget(n) \in gone /\ requested[n].remove
                         THEN [requested[n] EXCEPT !.live = FALSE] ELSE requested[n]]
      /\ hub_ports' = Restrict(hub_ports, Handled \ {id})
      /\ port_inputs' = {x \in port_inputs : x[1] # p}
      /\ UNCHANGED <<port_count, linking, hub_crashed>>

-----------------------------------------------------------------------------
(* Linking an internal element to what a port sends.                       *)

(* link_sink_pad up to the lock; the caller knows an id that was given once. *)
BeginLinkSink(t, kind, id, target, remove) ==
  /\ linking[t] = NotLinking
  /\ id < port_count
  /\ linking' = [linking EXCEPT ![t] =
       [dir |-> "sink", id |-> id, kind |-> kind, target |-> target, found |-> FALSE]]
  /\ requested' = Requested(target, remove)
  /\ UNCHANGED <<hub_ports, port_count, hub_pads, port_sinks, port_inputs, hub_crashed>>

(* A mutated form: the port may have gone. *)
PortKnown_any(id) == TRUE

(* Under the lock the port is looked up again. *)
PortKnown(id) == id \in Handled

(* Without the port nothing is linked and FALSE returned; a pad requested for it stays. *)
LinkSinkFails(t) ==
  /\ linking[t].dir = "sink"
  /\ ~PortKnown(linking[t].id)
  /\ linking' = [linking EXCEPT ![t] = NotLinking]
  /\ UNCHANGED <<hub_ports, port_count, hub_pads, requested, port_sinks, port_inputs, hub_crashed>>

(* kms_hub_port_internal_src_pad_linked: a port whose pad is linked gets a sink. *)
PortSink(id, kind) == {<<hub_ports[x].port, kind>> : x \in Handled \cap {id}}

(* The hub gets a ghost pad for the port, create_and_link_ghost_pad, or a new target for
   the one it has; no ghost pad is made for a target that is taken. *)
EndLinkSink(t) ==
  LET id == linking[t].id
      kind == linking[t].kind
      target == linking[t].target
      key == PadKey("sink", kind, id)
  IN  /\ linking[t].dir = "sink"
      /\ PortKnown(id)
      /\ linking' = [linking EXCEPT ![t] = NotLinking]
      /\ \/ /\ key \in DOMAIN hub_pads
            /\ set_target(key, target)
            /\ UNCHANGED port_sinks
         \/ /\ key \notin DOMAIN hub_pads /\ ~Taken(key, target)
            /\ AddPad(key, target)
            /\ port_sinks' = port_sinks \cup PortSink(id, kind)
         \/ /\ key \notin DOMAIN hub_pads /\ Taken(key, target)
            /\ UNCHANGED <<hub_pads, requested, port_sinks>>
      /\ UNCHANGED <<hub_ports, port_count, port_inputs, hub_crashed>>

-----------------------------------------------------------------------------
(* Linking an internal element to what a port receives.                    *)

(* kms_hub_port_request_new_pad: one pad of a kind for what the hub gives. *)
PortInput(id, kind) == {<<hub_ports[id].port, kind>>}

(* kms_base_hub_pad_added: the hub's new source is linked to the port. *)
pad_added(id, kind) == port_inputs' = port_inputs \cup PortInput(id, kind)

(* link_src_pad, which takes no lock, up to the ghost pad it finds or does not find. *)
BeginLinkSrc(t, kind, id, target, remove) ==
  /\ linking[t] = NotLinking
  /\ id < port_count
  /\ linking' = [linking EXCEPT ![t] =
       [dir |-> "src", id |-> id, kind |-> kind, target |-> target,
        found |-> PadKey("src", kind, id) \in DOMAIN hub_pads]]
  /\ requested' = Requested(target, remove)
  /\ UNCHANGED <<hub_ports, port_count, hub_pads, port_sinks, port_inputs, hub_crashed>>

(* The ghost pad that was found gets the target.  One that was removed meanwhile goes with
   the last reference to it, which unlinks the target again. *)
SetSrcTarget(t) ==
  LET target == linking[t].target
      key == PadKey("src", linking[t].kind, linking[t].id)
  IN  /\ linking[t].dir = "src" /\ linking[t].found
      /\ linking' = [linking EXCEPT ![t] = NotLinking]
      /\ \/ key \in DOMAIN hub_pads /\ set_target(key, target)
         \/ /\ key \notin DOMAIN hub_pads
            /\ requested' = Unlinked(LinkedTo(requested, Granted(key, target)), Granted(key, target))
            /\ UNCHANGED hub_pads
      /\ UNCHANGED <<hub_ports, port_count, port_sinks, port_inputs, hub_crashed>>

(* The new ghost pad is added; pad_added, under the lock, links it to the port, and so it
   gets its target (set_target_cb).  A pad that another thread added meanwhile keeps its
   name, and the new one goes; the pad of a port that went meanwhile is linked to nothing
   that exists. *)
AddSrcPad(t) ==
  LET id == linking[t].id
      kind == linking[t].kind
      key == PadKey("src", kind, id)
  IN  /\ linking[t].dir = "src" /\ ~linking[t].found
      /\ linking' = [linking EXCEPT ![t] = NotLinking]
      /\ \/ /\ key \in DOMAIN hub_pads
            /\ UNCHANGED <<hub_pads, requested, port_inputs, hub_crashed>>
         \/ /\ key \notin DOMAIN hub_pads /\ id \in Handled
            /\ AddPad(key, Granted(key, linking[t].target))
            /\ pad_added(id, kind)
            /\ UNCHANGED hub_crashed
         \/ /\ key \notin DOMAIN hub_pads /\ id \notin Handled
            /\ hub_crashed' = TRUE
            /\ UNCHANGED <<hub_pads, requested, port_inputs>>
      /\ UNCHANGED <<hub_ports, port_count, port_sinks>>

(* unlink_pad *)
UnlinkPad(dir, kind, id) ==
  /\ PadKey(dir, kind, id) \in DOMAIN hub_pads
  /\ hub_pads[PadKey(dir, kind, id)].target # NoTarget
  /\ set_target(PadKey(dir, kind, id), NoTarget)
  /\ UNCHANGED <<hub_ports, port_count, port_sinks, port_inputs, linking, hub_crashed>>

-----------------------------------------------------------------------------
HubInit ==
  /\ hub_ports = <<>>
  /\ port_count = 0
  /\ hub_pads = <<>>
  /\ requested = <<>>
  /\ port_sinks = {}
  /\ port_inputs = {}
  /\ linking = [t \in HubThreads |-> NotLinking]
  /\ hub_crashed = FALSE

(* The operations of the class on a kind of a port. *)
LinkSinks(kind, id) ==
  \E t \in HubThreads, target \in Targets, remove \in BOOLEAN :
    BeginLinkSink(t, kind, id, target, remove)

LinkSrcs(kind, id) ==
  \E t \in HubThreads, target \in Targets, remove \in BOOLEAN :
    BeginLinkSrc(t, kind, id, target, remove)

Unlinks(kind, id) == \E dir \in {"sink", "src"} : UnlinkPad(dir, kind, id)

HubOperation ==
  \E kind \in HubKinds, id \in 0..MaxPortIds - 1 :
    LinkSinks(kind, id) \/ LinkSrcs(kind, id) \/ Unlinks(kind, id)

HubNext ==
  /\ ~hub_crashed
  /\ \/ \E p \in HubPorts : HandlePort(p)
     \/ \E id \in Handled : UnhandlePort(id)
     \/ HubOperation
     \/ \E t \in HubThreads :
          LinkSinkFails(t) \/ EndLinkSink(t) \/ SetSrcTarget(t) \/ AddSrcPad(t)

HubSpec == HubInit /\ [][HubNext]_hubVars

-----------------------------------------------------------------------------
PadTargets == {NoTarget} \cup ({"static"} \X StaticPads) \cup ({"request"} \X (1..MaxRequested))
RequestedPad == [live : BOOLEAN, remove : BOOLEAN, linked : BOOLEAN]
Linking == [dir : {"sink", "src"}, id : 0..MaxPortIds - 1, kind : HubKinds, target : PadTargets,
            found : BOOLEAN]

(* The type invariant: an id below port_count was given once. *)
HubTypeOK ==
  /\ port_count \in 0..MaxPortIds
  /\ Handled \subseteq 0..port_count - 1
  /\ hub_ports \in [Handled -> [port : HubPorts]]
  /\ DOMAIN hub_pads \subseteq {"sink", "src"} \X HubKinds \X (0..port_count - 1)
  /\ hub_pads \in [DOMAIN hub_pads -> [target : PadTargets]]
  /\ requested \in Seq(RequestedPad) /\ Len(requested) <= MaxRequested
  /\ port_sinks \subseteq HubPorts \X HubKinds
  /\ port_inputs \subseteq HubPorts \X HubKinds
  /\ linking \in [HubThreads -> Linking \cup {NotLinking}]
  /\ hub_crashed \in BOOLEAN

(* The hub and its ports stay in step however linkings, of sinks under the lock and of
   sources without it, race with each other and with ports that go: an audio or video pad
   of the hub belongs to a port it handles, a port has a sink for the hub exactly when the
   hub has a pad for it, and a pad requested of an internal element and linked is released
   as soon as no pad of the hub leads to it (kms_base_hub_link_sink_pad,
   kms_base_hub_link_src_pad, kms_base_hub_unhandle_port, remove_unlinked_pad).  Two things
   are excepted: a requested pad that was never linked stays, and a source added for a port
   that went ends the behaviour. *)
HubInStep ==
  /\ \A key \in DOMAIN hub_pads : key[2] # "data" => key[3] \in Handled
  /\ \A id \in Handled, kind \in HubKinds :
       (PadKey("sink", kind, id) \in DOMAIN hub_pads) = (<<hub_ports[id].port, kind>> \in port_sinks)
  /\ \A n \in DOMAIN requested :
       (requested[n].live /\ requested[n].linked /\ requested[n].remove) =>
         \E key \in DOMAIN hub_pads : hub_pads[key].target = RequestTarget(n)
=============================================================================
