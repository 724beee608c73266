------------------------------ MODULE HubProofs ------------------------------
(***************************************************************************)
(* Proofs about the hub and its ports, for any ports, threads and pads.    *)
(***************************************************************************)
EXTENDS Hub, SequenceTheorems, TLAPS

(* No two ids are of one port. *)
PortsApart ==
  \A a, b \in Handled : hub_ports[a].port = hub_ports[b].port => a = b

(* Only a port that is handled has sinks for the hub. *)
SinksOwned ==
  \A x \in port_sinks : \E id \in Handled : hub_ports[id].port = x[1]

(* The parts of HubInStep. *)
PadsOwned == \A key \in DOMAIN hub_pads : key[2] # "data" => key[3] \in Handled
SinksMatch ==
  \A id \in Handled, kind \in HubKinds :
    (PadKey("sink", kind, id) \in DOMAIN hub_pads) <=> (<<hub_ports[id].port, kind>> \in port_sinks)
Held(n) == \E key \in DOMAIN hub_pads : hub_pads[key].target = RequestTarget(n)
PadsReleased ==
  \A n \in DOMAIN requested :
    (requested[n].live /\ requested[n].linked /\ requested[n].remove) => Held(n)

(* The inductive invariant of the hub. *)
HubInv == HubTypeOK /\ PortsApart /\ SinksOwned /\ PadsOwned /\ SinksMatch /\ PadsReleased

-----------------------------------------------------------------------------
(* A request pad leaves the other pads as they are. *)
LEMMA UnlinkedPads ==
  ASSUME NEW reqs \in Seq(RequestedPad), NEW target \in PadTargets
  PROVE  /\ Unlinked(reqs, target) \in Seq(RequestedPad)
         /\ Len(Unlinked(reqs, target)) = Len(reqs)
         /\ \A n \in 1..Len(reqs) :
              /\ Unlinked(reqs, target)[n].linked <=> reqs[n].linked
              /\ Unlinked(reqs, target)[n].remove <=> reqs[n].remove
              /\ Unlinked(reqs, target)[n].live =>
                   reqs[n].live /\ ~(target = RequestTarget(n) /\ reqs[n].remove)
<1>1. CASE target[1] = "request" /\ reqs[target[2]].remove
  <2> DEFINE m == target[2]
             u == [reqs EXCEPT ![m].live = FALSE]
  <2>1. Unlinked(reqs, target) = u /\ target = RequestTarget(m)
    BY <1>1 DEF Unlinked, PadTargets, RequestTarget, NoTarget
  <2>2. \A n \in 1..Len(reqs) : reqs[n] \in RequestedPad
    OBVIOUS
  <2> DEFINE r == [reqs[m] EXCEPT !.live = FALSE]
  <2>3. u = [reqs EXCEPT ![m] = r]
    OBVIOUS
  <2>4. m \in 1..Len(reqs) =>
          /\ r \in RequestedPad /\ r.live = FALSE /\ r.remove = reqs[m].remove
          /\ r.linked = reqs[m].linked
    BY <2>2 DEF RequestedPad
  <2> HIDE DEF r
  <2>5. u \in Seq(RequestedPad) /\ Len(u) = Len(reqs)
          /\ \A n \in 1..Len(reqs) : u[n] = IF n = m THEN r ELSE reqs[n]
    <3>1. CASE m \in 1..Len(reqs)
      <4> DEFINE v == [reqs EXCEPT ![m] = r]
      <4>1. v \in Seq(RequestedPad) /\ Len(v) = Len(reqs)
              /\ \A n \in 1..Len(reqs) : v[n] = IF n = m THEN r ELSE reqs[n]
        BY <2>4, <3>1, ExceptSeq
      <4> QED
        BY <2>3, <4>1
    <3>2. CASE m \notin 1..Len(reqs)
      <4>1. reqs \in [1..Len(reqs) -> RequestedPad]
        BY LenProperties
      <4>2. u = reqs
        BY <2>3, <3>2, <4>1
      <4> QED
        BY <3>2, <4>2
    <3> QED
      BY <3>1, <3>2
  <2> HIDE DEF u
  <2>6. ASSUME NEW n \in 1..Len(reqs)
        PROVE  /\ u[n].linked <=> reqs[n].linked
               /\ u[n].remove <=> reqs[n].remove
               /\ u[n].live => reqs[n].live /\ target # RequestTarget(n)
    <3>1. CASE n = m
      BY <2>4, <2>5, <3>1 DEF RequestedPad
    <3>2. CASE n # m
      BY <2>1, <2>5, <3>2 DEF RequestTarget
    <3> QED
      BY <3>1, <3>2
  <2> QED
    BY <2>1, <2>5, <2>6
<1>2. CASE ~(target[1] = "request" /\ reqs[target[2]].remove)
  BY <1>2 DEF Unlinked, RequestTarget
<1> QED
  BY <1>1, <1>2

(* A target that is linked is the only pad that may become linked. *)
LEMMA LinkedPads ==
  ASSUME NEW reqs \in Seq(RequestedPad), NEW target \in PadTargets
  PROVE  /\ LinkedTo(reqs, target) \in Seq(RequestedPad)
         /\ Len(LinkedTo(reqs, target)) = Len(reqs)
         /\ \A n \in 1..Len(reqs) :
              /\ LinkedTo(reqs, target)[n].live <=> reqs[n].live
              /\ LinkedTo(reqs, target)[n].remove <=> reqs[n].remove
              /\ LinkedTo(reqs, target)[n].linked => reqs[n].linked \/ target = RequestTarget(n)
<1>1. CASE target[1] = "request"
  <2> DEFINE m == target[2]
             u == [reqs EXCEPT ![m].linked = TRUE]
  <2>1. LinkedTo(reqs, target) = u /\ target = RequestTarget(m)
    BY <1>1 DEF LinkedTo, PadTargets, RequestTarget, NoTarget
  <2>2. \A n \in 1..Len(reqs) : reqs[n] \in RequestedPad
    OBVIOUS
  <2> DEFINE r == [reqs[m] EXCEPT !.linked = TRUE]
  <2>3. u = [reqs EXCEPT ![m] = r]
    OBVIOUS
  <2>4. m \in 1..Len(reqs) =>
          /\ r \in RequestedPad /\ r.linked = TRUE /\ r.remove = reqs[m].remove
          /\ r.live = reqs[m].live
    BY <2>2 DEF RequestedPad
  <2> HIDE DEF r
  <2>5. u \in Seq(RequestedPad) /\ Len(u) = Len(reqs)
          /\ \A n \in 1..Len(reqs) : u[n] = IF n = m THEN r ELSE reqs[n]
    <3>1. CASE m \in 1..Len(reqs)
      <4> DEFINE v == [reqs EXCEPT ![m] = r]
      <4>1. v \in Seq(RequestedPad) /\ Len(v) = Len(reqs)
              /\ \A n \in 1..Len(reqs) : v[n] = IF n = m THEN r ELSE reqs[n]
        BY <2>4, <3>1, ExceptSeq
      <4> QED
        BY <2>3, <4>1
    <3>2. CASE m \notin 1..Len(reqs)
      <4>1. reqs \in [1..Len(reqs) -> RequestedPad]
        BY LenProperties
      <4>2. u = reqs
        BY <2>3, <3>2, <4>1
      <4> QED
        BY <3>2, <4>2
    <3> QED
      BY <3>1, <3>2
  <2> HIDE DEF u
  <2> QED
    BY <1>1, <2>1, <2>2, <2>4, <2>5 DEF RequestedPad, RequestTarget
<1>2. CASE target[1] # "request"
  BY <1>2 DEF LinkedTo
<1> QED
  BY <1>1, <1>2

(* get_request_pad adds a pad that is not linked. *)
LEMMA RequestedPads ==
  ASSUME HubTypeOK, NEW target \in Targets, NEW remove \in BOOLEAN
  PROVE  /\ target \in PadTargets
         /\ Requested(target, remove) \in Seq(RequestedPad)
         /\ Len(Requested(target, remove)) <= MaxRequested
         /\ Len(requested) <= Len(Requested(target, remove))
         /\ \A n \in 1..Len(requested) : Requested(target, remove)[n] = requested[n]
         /\ \A n \in 1..Len(Requested(target, remove)) :
              n \notin 1..Len(requested) => ~Requested(target, remove)[n].linked
<1>1. CASE target \in {Static(s) : s \in StaticPads}
  BY <1>1 DEF Static, HubTypeOK, Requested, PadTargets, RequestTarget
<1>3. CASE \E n \in DOMAIN requested : target = RequestTarget(n)
  <2>1. PICK n \in DOMAIN requested : target = RequestTarget(n)
    BY <1>3
  <2>2. n \in 1..Len(requested) /\ Len(requested) \in Nat /\ Len(requested) <= MaxRequested
    BY DEF HubTypeOK
  <2>3. Requested(target, remove) = requested
    BY <2>1, <2>2 DEF Requested, RequestTarget
  <2>4. target \in PadTargets
    BY <2>1, <2>2, HubAssumption DEF PadTargets, RequestTarget
  <2> QED
    BY <2>2, <2>3, <2>4 DEF HubTypeOK
<1>2. CASE \E n \in {Len(requested) + 1} \cap 1..MaxRequested : target = RequestTarget(n)
  <2> DEFINE new == [live |-> TRUE, remove |-> remove, linked |-> FALSE]
  <2>1. Requested(target, remove) = Append(requested, new)
    BY <1>2 DEF Requested, RequestTarget
  <2>2. new \in RequestedPad /\ new.linked = FALSE
    BY DEF RequestedPad
  <2>3. Len(requested) + 1 \in 1..MaxRequested /\ target = RequestTarget(Len(requested) + 1)
    BY <1>2
  <2>4. target \in PadTargets
    BY <2>3 DEF PadTargets, RequestTarget
  <2>5. requested \in Seq(RequestedPad)
    BY DEF HubTypeOK
  <2> HIDE DEF new
  <2> QED
    BY <2>1, <2>2, <2>3, <2>4, <2>5, HubAssumption
<1> QED
  BY <1>1, <1>2, <1>3 DEF Targets

(* reqs are the pads requested so far, or these and one that is not linked yet. *)
Extends(reqs) ==
  /\ reqs \in Seq(RequestedPad)
  /\ Len(requested) <= Len(reqs) /\ Len(reqs) <= MaxRequested
  /\ \A n \in 1..Len(requested) : reqs[n] = requested[n]
  /\ \A n \in 1..Len(reqs) : n \notin 1..Len(requested) => ~reqs[n].linked

(* A ghost pad gets the target it asks for or none. *)
LEMMA GrantedTarget ==
  ASSUME NEW key, NEW target \in PadTargets
  PROVE  Granted(key, target) \in PadTargets
BY DEF Granted, PadTargets

(* A ghost pad gets another target, or none: the pad it had is released if it is to be. *)
LEMMA Retarget ==
  ASSUME HubInv, NEW key \in DOMAIN hub_pads, NEW target \in PadTargets, NEW reqs, Extends(reqs),
         hub_pads' = [hub_pads EXCEPT ![key].target = target],
         requested' = LinkedTo(Unlinked(reqs, hub_pads[key].target), target)
  PROVE  /\ requested' \in Seq(RequestedPad) /\ Len(requested') <= MaxRequested
         /\ DOMAIN hub_pads' = DOMAIN hub_pads
         /\ hub_pads' \in [DOMAIN hub_pads' -> [target : PadTargets]]
         /\ PadsReleased'
<1> DEFINE old == hub_pads[key].target
           reqs1 == Unlinked(reqs, old)
<1>1. hub_pads \in [DOMAIN hub_pads -> [target : PadTargets]]
  BY DEF HubInv, HubTypeOK
<1>2. old \in PadTargets /\ reqs \in Seq(RequestedPad) /\ Len(reqs) <= MaxRequested
  BY <1>1 DEF Extends
<1>3. /\ hub_pads' \in [DOMAIN hub_pads -> [target : PadTargets]]
      /\ hub_pads'[key].target = target
      /\ \A k \in DOMAIN hub_pads : k # key => hub_pads'[k] = hub_pads[k]
  BY <1>1
<1> HIDE DEF old
<1>4. /\ reqs1 \in Seq(RequestedPad) /\ Len(reqs1) = Len(reqs)
      /\ \A n \in 1..Len(reqs) :
           /\ reqs1[n].linked <=> reqs[n].linked
           /\ reqs1[n].remove <=> reqs[n].remove
           /\ reqs1[n].live => reqs[n].live /\ ~(old = RequestTarget(n) /\ reqs[n].remove)
  BY <1>2, UnlinkedPads
<1> HIDE DEF reqs1
<1>5. /\ requested' \in Seq(RequestedPad) /\ Len(requested') = Len(reqs)
      /\ \A n \in 1..Len(reqs) :
           /\ requested'[n].live <=> reqs1[n].live
           /\ requested'[n].remove <=> reqs1[n].remove
           /\ requested'[n].linked => reqs1[n].linked \/ target = RequestTarget(n)
  BY <1>4, LinkedPads DEF reqs1, old
<1>6. ASSUME NEW n \in DOMAIN requested',
             requested'[n].live /\ requested'[n].linked /\ requested'[n].remove
      PROVE  Held(n)'
  <2>1. n \in 1..Len(reqs)
    BY <1>5, <1>6
  <2>2. CASE target = RequestTarget(n)
    BY <1>3, <2>2 DEF Held
  <2>3. CASE target # RequestTarget(n)
    <3>1. reqs[n].live /\ reqs[n].linked /\ reqs[n].remove /\ old # RequestTarget(n)
      BY <1>4, <1>5, <1>6, <2>1, <2>3
    <3>2. n \in 1..Len(requested) /\ reqs[n] = requested[n]
      BY <2>1, <3>1 DEF Extends
    <3>3. n \in DOMAIN requested
      BY <3>2 DEF HubInv, HubTypeOK
    <3>4. PICK k \in DOMAIN hub_pads : hub_pads[k].target = RequestTarget(n)
      BY <3>1, <3>2, <3>3 DEF HubInv, PadsReleased, Held
    <3>5. k # key
      BY <3>1, <3>4 DEF old
    <3> QED
      BY <1>3, <3>4, <3>5 DEF Held
  <2> QED
    BY <2>2, <2>3
<1> QED
  BY <1>2, <1>3, <1>5, <1>6 DEF PadsReleased

(* create_and_link_ghost_pad: a new ghost pad takes nothing from the others. *)
LEMMA NewPad ==
  ASSUME HubInv, NEW key, key \notin DOMAIN hub_pads, NEW target \in PadTargets, NEW reqs, Extends(reqs),
         hub_pads' = [x \in DOMAIN hub_pads \cup {key} |->
                        IF x = key THEN [target |-> target] ELSE hub_pads[x]],
         requested' = LinkedTo(reqs, target)
  PROVE  /\ requested' \in Seq(RequestedPad) /\ Len(requested') <= MaxRequested
         /\ DOMAIN hub_pads' = DOMAIN hub_pads \cup {key}
         /\ hub_pads' \in [DOMAIN hub_pads' -> [target : PadTargets]]
         /\ PadsReleased'
<1>1. hub_pads \in [DOMAIN hub_pads -> [target : PadTargets]]
  BY DEF HubInv, HubTypeOK
<1>2. reqs \in Seq(RequestedPad) /\ Len(reqs) <= MaxRequested
  BY DEF Extends
<1>3. /\ DOMAIN hub_pads' = DOMAIN hub_pads \cup {key}
      /\ hub_pads' \in [DOMAIN hub_pads' -> [target : PadTargets]]
      /\ hub_pads'[key].target = target
      /\ \A k \in DOMAIN hub_pads : hub_pads'[k] = hub_pads[k]
  BY <1>1
<1>4. /\ requested' \in Seq(RequestedPad) /\ Len(requested') = Len(reqs)
      /\ \A n \in 1..Len(reqs) :
           /\ requested'[n].live <=> reqs[n].live
           /\ requested'[n].remove <=> reqs[n].remove
           /\ requested'[n].linked => reqs[n].linked \/ target = RequestTarget(n)
  BY <1>2, LinkedPads
<1>5. ASSUME NEW n \in DOMAIN requested',
             requested'[n].live /\ requested'[n].linked /\ requested'[n].remove
      PROVE  Held(n)'
  <2>1. n \in 1..Len(reqs)
    BY <1>4, <1>5
  <2>2. CASE target = RequestTarget(n)
    BY <1>3, <2>2 DEF Held
  <2>3. CASE target # RequestTarget(n)
    <3>1. reqs[n].live /\ reqs[n].linked /\ reqs[n].remove
      BY <1>4, <1>5, <2>1, <2>3
    <3>2. n \in 1..Len(requested) /\ reqs[n] = requested[n]
      BY <2>1, <3>1 DEF Extends
    <3>3. n \in DOMAIN requested
      BY <3>2 DEF HubInv, HubTypeOK
    <3>4. PICK k \in DOMAIN hub_pads : hub_pads[k].target = RequestTarget(n)
      BY <3>1, <3>2, <3>3 DEF HubInv, PadsReleased, Held
    <3> QED
      BY <1>3, <3>4 DEF Held
  <2> QED
    BY <2>2, <2>3
<1> QED
  BY <1>2, <1>3, <1>4, <1>5 DEF PadsReleased

-----------------------------------------------------------------------------
(* kms_base_hub_handle_port: the new id has no pads and the new port no sinks. *)
LEMMA HandleStep ==
  ASSUME HubInv, NEW p \in HubPorts, HandlePort(p)
  PROVE  HubInv'
<1>1. port_count \in 0..MaxPortIds - 1 /\ port_count \notin Handled
  BY HubAssumption DEF HubInv, HubTypeOK, HandlePort
<1>2. /\ DOMAIN hub_ports' = Handled \cup {port_count}
      /\ hub_ports'[port_count] = [port |-> p]
      /\ \A id \in Handled : hub_ports'[id] = hub_ports[id]
  BY <1>1 DEF HandlePort, Handled
<1>3. HubTypeOK'
  <2>1. hub_ports' \in [Handled' -> [port : HubPorts]]
    BY <1>2 DEF HubInv, HubTypeOK, HandlePort, Handled
  <2>2. port_count' \in 0..MaxPortIds /\ Handled' \subseteq 0..port_count' - 1
    BY <1>1, <1>2, HubAssumption DEF HubInv, HubTypeOK, HandlePort, Handled
  <2>3. DOMAIN hub_pads \subseteq {"sink", "src"} \X HubKinds \X (0..port_count' - 1)
    <3>1. 0..port_count - 1 \subseteq 0..port_count' - 1
      BY <1>1 DEF HandlePort
    <3> QED
      BY <3>1 DEF HubInv, HubTypeOK
  <2> QED
    BY <2>1, <2>2, <2>3 DEF HubInv, HubTypeOK, HandlePort
<1>4. PortsApart' /\ SinksOwned' /\ PadsOwned'
  BY <1>1, <1>2 DEF HubInv, PortsApart, SinksOwned, PadsOwned, HandlePort, Handled
<1>5. SinksMatch'
  <2>1. \A kind \in HubKinds : PadKey("sink", kind, port_count) \notin DOMAIN hub_pads
    BY <1>1 DEF HubInv, HubTypeOK, PadKey
  <2>2. \A kind \in HubKinds : <<p, kind>> \notin port_sinks
    BY DEF HubInv, SinksOwned, HandlePort
  <2> QED
    BY <1>1, <1>2, <2>1, <2>2 DEF HubInv, SinksMatch, HandlePort, Handled
<1>6. PadsReleased'
  BY DEF HubInv, PadsReleased, Held, HandlePort
<1> QED
  BY <1>3, <1>4, <1>5, <1>6 DEF HubInv

(* kms_base_hub_unhandle_port: the audio and video pads go with the port, and the pads of
   internal elements they led to are released. *)
LEMMA UnhandleStep ==
  ASSUME HubInv, NEW id \in Handled, UnhandlePort(id)
  PROVE  HubInv'
<1> DEFINE p == hub_ports[id].port
           data == PadKey("src", "data", id)
           gone == {hub_pads[key].target : key \in DOMAIN hub_pads \cap (PortPads(id) \cup {data})}
<1>1. /\ DOMAIN hub_ports' = Handled \ {id}
      /\ \A x \in Handled \ {id} : hub_ports'[x] = hub_ports[x]
  BY DEF UnhandlePort, Restrict, Handled
<1>2. /\ DOMAIN hub_pads' = DOMAIN hub_pads \ PortPads(id)
      /\ \A k \in DOMAIN hub_pads' : hub_pads'[k] = IF k = data THEN [target |-> NoTarget] ELSE hub_pads[k]
  BY DEF UnhandlePort
<1>3. /\ requested' \in Seq(RequestedPad) /\ Len(requested') = Len(requested)
      /\ DOMAIN requested' = DOMAIN requested
      /\ \A n \in DOMAIN requested :
           /\ requested'[n].linked <=> requested[n].linked
           /\ requested'[n].remove <=> requested[n].remove
           /\ requested'[n].live => requested[n].live /\ ~(RequestTarget(n) \in gone /\ requested[n].remove)
  <2> DEFINE e(n) == IF RequestTarget(n) \in gone /\ requested[n].remove
                     THEN [requested[n] EXCEPT !.live = FALSE] ELSE requested[n]
  <2>1. requested \in Seq(RequestedPad) /\ DOMAIN requested = 1..Len(requested) /\ Len(requested) \in Nat
    BY DEF HubInv, HubTypeOK
  <2>2. requested' = [n \in 1..Len(requested) |-> e(n)]
    BY <2>1 DEF UnhandlePort
  <2>3. ASSUME NEW n \in 1..Len(requested)
        PROVE  /\ e(n) \in RequestedPad
               /\ e(n).linked <=> requested[n].linked
               /\ e(n).remove <=> requested[n].remove
               /\ e(n).live => requested[n].live /\ ~(RequestTarget(n) \in gone /\ requested[n].remove)
    <3>1. requested[n] \in RequestedPad
      BY <2>1
    <3> HIDE DEF gone
    <3> QED
      BY <3>1 DEF RequestedPad
  <2> HIDE DEF e
  <2>4. requested' \in Seq(RequestedPad) /\ Len(requested') = Len(requested)
    BY <2>1, <2>2, <2>3
  <2> HIDE DEF gone
  <2> QED
    BY <2>1, <2>2, <2>3, <2>4
<1>4. HubTypeOK'
  <2>1. hub_ports' \in [Handled' -> [port : HubPorts]] /\ Handled' \subseteq Handled
    BY <1>1 DEF HubInv, HubTypeOK, UnhandlePort, Restrict, Handled
  <2>2. hub_pads' \in [DOMAIN hub_pads' -> [target : PadTargets]]
    BY <1>2 DEF HubInv, HubTypeOK, UnhandlePort, PadTargets
  <2>3. port_sinks' \subseteq HubPorts \X HubKinds /\ port_inputs' \subseteq HubPorts \X HubKinds
    BY DEF HubInv, HubTypeOK, UnhandlePort, port_unhandled
  <2> QED
    BY <1>2, <1>3, <2>1, <2>2, <2>3 DEF HubInv, HubTypeOK, UnhandlePort
<1>5. PortsApart'
  BY <1>1 DEF HubInv, PortsApart, Handled
<1>6. SinksOwned'
  <2>1. ASSUME NEW x \in port_sinks'
        PROVE  \E y \in Handled' : hub_ports'[y].port = x[1]
    <3>1. x \in port_sinks /\ x[1] # p
      BY DEF UnhandlePort, port_unhandled
    <3>2. PICK y \in Handled : hub_ports[y].port = x[1]
      BY <3>1 DEF HubInv, SinksOwned
    <3>3. y \in Handled \ {id} /\ hub_ports'[y] = hub_ports[y]
      BY <1>1, <3>1, <3>2
    <3> QED
      BY <1>1, <3>2, <3>3 DEF Handled
  <2> QED
    BY <2>1 DEF SinksOwned
<1>7. PadsOwned'
  BY <1>1, <1>2 DEF HubInv, PadsOwned, PortPads, Handled
<1>8. SinksMatch'
  <2>1. ASSUME NEW x \in Handled \ {id}, NEW kind \in HubKinds
        PROVE  /\ PadKey("sink", kind, x) \in DOMAIN hub_pads' <=> PadKey("sink", kind, x) \in DOMAIN hub_pads
               /\ <<hub_ports[x].port, kind>> \in port_sinks' <=> <<hub_ports[x].port, kind>> \in port_sinks
    <3>1. hub_ports[x].port # p
      BY DEF HubInv, PortsApart
    <3> QED
      BY <1>2, <3>1 DEF PortPads, PadKey, UnhandlePort, port_unhandled
  <2> QED
    BY <1>1, <2>1 DEF HubInv, SinksMatch, Handled
<1>9. PadsReleased'
  <2>1. ASSUME NEW n \in DOMAIN requested,
               requested'[n].live /\ requested'[n].linked /\ requested'[n].remove
        PROVE  Held(n)'
    <3>1. requested[n].live /\ requested[n].linked /\ requested[n].remove /\ RequestTarget(n) \notin gone
      BY <1>3, <2>1
    <3>2. PICK k \in DOMAIN hub_pads : hub_pads[k].target = RequestTarget(n)
      BY <3>1 DEF HubInv, PadsReleased, Held
    <3>3. k \notin PortPads(id) /\ k # data
      BY <3>1, <3>2
    <3> QED
      BY <1>2, <3>2, <3>3 DEF Held
  <2> QED
    BY <1>3, <2>1 DEF PadsReleased
<1> QED
  BY <1>4, <1>5, <1>6, <1>7, <1>8, <1>9 DEF HubInv

(* A linking up to its target: at most a pad is requested. *)
LEMMA BeginLinkStep ==
  ASSUME HubInv, NEW t \in HubThreads, NEW kind \in HubKinds, NEW id \in 0..MaxPortIds - 1,
         NEW target \in Targets, NEW remove \in BOOLEAN,
         BeginLinkSink(t, kind, id, target, remove) \/ BeginLinkSrc(t, kind, id, target, remove)
  PROVE  HubInv'
<1> DEFINE reqs == Requested(target, remove)
<1>1. HubTypeOK /\ target \in PadTargets /\ Extends(reqs)
  BY RequestedPads DEF HubInv, Extends
<1>2. linking' \in [HubThreads -> Linking \cup {NotLinking}]
  <2>1. \A dir \in {"sink", "src"}, found \in BOOLEAN :
          [dir |-> dir, id |-> id, kind |-> kind, target |-> target, found |-> found] \in Linking
    BY <1>1 DEF Linking
  <2>2. PICK dir \in {"sink", "src"}, found \in BOOLEAN :
          linking' = [linking EXCEPT ![t] =
            [dir |-> dir, id |-> id, kind |-> kind, target |-> target, found |-> found]]
    <3>1. CASE BeginLinkSink(t, kind, id, target, remove)
      BY <3>1 DEF BeginLinkSink
    <3>2. CASE BeginLinkSrc(t, kind, id, target, remove)
      <4> DEFINE f == PadKey("src", kind, id) \in DOMAIN hub_pads
      <4>1. linking' = [linking EXCEPT ![t] =
              [dir |-> "src", id |-> id, kind |-> kind, target |-> target, found |-> f]]
        BY <3>2 DEF BeginLinkSrc
      <4>2. f \in BOOLEAN
        OBVIOUS
      <4> HIDE DEF f
      <4> QED
        BY <4>1, <4>2, Zenon
    <3> QED
      BY <3>1, <3>2
  <2> QED
    BY <1>1, <2>1, <2>2 DEF HubTypeOK
<1>3. requested' = reqs /\ UNCHANGED <<hub_ports, port_count, hub_pads, port_sinks, port_inputs, hub_crashed>>
  BY DEF BeginLinkSink, BeginLinkSrc
<1> HIDE DEF reqs
<1>4. HubTypeOK'
  BY <1>1, <1>2, <1>3 DEF HubTypeOK, Extends, Handled
<1>5. PadsReleased'
  <2>1. DOMAIN requested' = 1..Len(reqs) /\ DOMAIN requested = 1..Len(requested)
    BY <1>1, <1>3 DEF Extends, HubTypeOK
  <2> QED
    BY <1>1, <1>3, <2>1 DEF HubInv, PadsReleased, Held, Extends
<1> QED
  BY <1>3, <1>4, <1>5 DEF HubInv, PortsApart, SinksOwned, PadsOwned, SinksMatch, Handled

(* A port that went meanwhile: the linking gives up. *)
LEMMA LinkFailsStep ==
  ASSUME HubInv, NEW t \in HubThreads, LinkSinkFails(t)
  PROVE  HubInv'
BY DEF HubInv, HubTypeOK, PortsApart, SinksOwned, PadsOwned, SinksMatch, PadsReleased, Held, LinkSinkFails, Handled

(* The rest of link_sink_pad, under the lock: the port is handled, and gets its sink
   together with the first ghost pad. *)
LEMMA EndLinkStep ==
  ASSUME HubInv, NEW t \in HubThreads, EndLinkSink(t)
  PROVE  HubInv'
<1> DEFINE id == linking[t].id
           kind == linking[t].kind
           target == linking[t].target
           key == PadKey("sink", kind, id)
<1>1. linking[t] \in Linking /\ id \in Handled
  BY DEF HubInv, HubTypeOK, EndLinkSink, PortKnown, NotLinking
<1>2. kind \in HubKinds /\ target \in PadTargets /\ Granted(key, target) \in PadTargets
  BY <1>1, GrantedTarget DEF Linking
<1>3. Extends(requested)
  BY DEF HubInv, HubTypeOK, Extends
<1>4. linking' \in [HubThreads -> Linking \cup {NotLinking}]
  BY DEF HubInv, HubTypeOK, EndLinkSink
<1>5. UNCHANGED <<hub_ports, port_count, port_inputs, hub_crashed>>
  BY DEF EndLinkSink
<1>6. CASE key \in DOMAIN hub_pads
  <2>1. /\ hub_pads' = [hub_pads EXCEPT ![key].target = Granted(key, target)] /\ UNCHANGED port_sinks
        /\ requested' = LinkedTo(Unlinked(requested, hub_pads[key].target), Granted(key, target))
    BY <1>6 DEF EndLinkSink, set_target
  <2>2. /\ requested' \in Seq(RequestedPad) /\ Len(requested') <= MaxRequested
        /\ DOMAIN hub_pads' = DOMAIN hub_pads
        /\ hub_pads' \in [DOMAIN hub_pads' -> [target : PadTargets]]
        /\ PadsReleased'
    BY <1>2, <1>3, <1>6, <2>1, Retarget
  <2>3. HubTypeOK'
    BY <1>4, <1>5, <2>1, <2>2 DEF HubInv, HubTypeOK, Handled
  <2> QED
    BY <1>5, <2>1, <2>2, <2>3 DEF HubInv, PortsApart, SinksOwned, PadsOwned, SinksMatch, Handled
<1>7. CASE key \notin DOMAIN hub_pads /\ ~Taken(key, target)
  <2>1. /\ hub_pads' = [x \in DOMAIN hub_pads \cup {key} |->
                          IF x = key THEN [target |-> target] ELSE hub_pads[x]]
        /\ requested' = LinkedTo(requested, target)
        /\ port_sinks' = port_sinks \cup {<<hub_ports[id].port, kind>>}
    BY <1>1, <1>7 DEF EndLinkSink, PortSink, AddPad
  <2>2. /\ requested' \in Seq(RequestedPad) /\ Len(requested') <= MaxRequested
        /\ DOMAIN hub_pads' = DOMAIN hub_pads \cup {key}
        /\ hub_pads' \in [DOMAIN hub_pads' -> [target : PadTargets]]
        /\ PadsReleased'
    BY <1>2, <1>3, <1>7, <2>1, NewPad
  <2>3. HubTypeOK'
    <3>1. id \in 0..port_count - 1 /\ hub_ports[id].port \in HubPorts
      BY <1>1 DEF HubInv, HubTypeOK
    <3>2. DOMAIN hub_pads' \subseteq {"sink", "src"} \X HubKinds \X (0..port_count - 1)
      BY <1>2, <2>2, <3>1 DEF HubInv, HubTypeOK, PadKey
    <3> QED
      BY <1>2, <1>4, <1>5, <2>1, <2>2, <3>1, <3>2 DEF HubInv, HubTypeOK, Handled
  <2>4. PortsApart' /\ SinksOwned' /\ PadsOwned'
    BY <1>1, <1>5, <2>1, <2>2 DEF HubInv, PortsApart, SinksOwned, PadsOwned, PadKey, Handled
  <2>5. SinksMatch'
    <3>1. ASSUME NEW x \in Handled, NEW k \in HubKinds
          PROVE  (PadKey("sink", k, x) \in DOMAIN hub_pads') <=> (<<hub_ports[x].port, k>> \in port_sinks')
      <4>1. hub_ports[x].port = hub_ports[id].port <=> x = id
        BY <1>1 DEF HubInv, PortsApart
      <4> QED
        BY <2>1, <2>2, <4>1 DEF HubInv, SinksMatch, PadKey
    <3> QED
      BY <1>5, <3>1 DEF SinksMatch, Handled
  <2> QED
    BY <2>2, <2>3, <2>4, <2>5 DEF HubInv
<1>8. CASE key \notin DOMAIN hub_pads /\ Taken(key, target)
  <2>1. UNCHANGED <<hub_pads, requested, port_sinks>>
    BY <1>8 DEF EndLinkSink
  <2> QED
    BY <1>4, <1>5, <2>1
    DEF HubInv, HubTypeOK, PortsApart, SinksOwned, PadsOwned, SinksMatch, PadsReleased, Held, Handled
<1> QED
  BY <1>6, <1>7, <1>8

(* link_src_pad with the ghost pad it found: one that is still there, or one that goes and
   takes the target with it. *)
LEMMA SetSrcStep ==
  ASSUME HubInv, NEW t \in HubThreads, SetSrcTarget(t)
  PROVE  HubInv'
<1> DEFINE key == PadKey("src", linking[t].kind, linking[t].id)
           got == Granted(key, linking[t].target)
<1>1. linking[t] \in Linking
  BY DEF HubInv, HubTypeOK, SetSrcTarget, NotLinking
<1>2. got \in PadTargets
  BY <1>1, GrantedTarget DEF Linking
<1>3. /\ linking' \in [HubThreads -> Linking \cup {NotLinking}]
      /\ UNCHANGED <<hub_ports, port_count, port_sinks, port_inputs, hub_crashed>>
  BY DEF HubInv, HubTypeOK, SetSrcTarget
<1>4. requested \in Seq(RequestedPad) /\ Len(requested) <= MaxRequested /\ Extends(requested)
  BY DEF HubInv, HubTypeOK, Extends
<1>5. CASE key \in DOMAIN hub_pads
  <2>1. /\ hub_pads' = [hub_pads EXCEPT ![key].target = got]
        /\ requested' = LinkedTo(Unlinked(requested, hub_pads[key].target), got)
    BY <1>5 DEF SetSrcTarget, set_target
  <2> HIDE DEF got
  <2>2. /\ requested' \in Seq(RequestedPad) /\ Len(requested') <= MaxRequested
        /\ DOMAIN hub_pads' = DOMAIN hub_pads
        /\ hub_pads' \in [DOMAIN hub_pads' -> [target : PadTargets]]
        /\ PadsReleased'
    BY <1>2, <1>4, <1>5, <2>1, Retarget
  <2>3. HubTypeOK'
    BY <1>3, <2>2 DEF HubInv, HubTypeOK, Handled
  <2> QED
    BY <1>3, <2>2, <2>3 DEF HubInv, PortsApart, SinksOwned, PadsOwned, SinksMatch, Handled
<1>6. CASE key \notin DOMAIN hub_pads
  <2> DEFINE reqs == LinkedTo(requested, got)
  <2>1. requested' = Unlinked(reqs, got) /\ hub_pads' = hub_pads
    BY <1>6 DEF SetSrcTarget
  <2> HIDE DEF got
  <2>2. /\ reqs \in Seq(RequestedPad) /\ Len(reqs) = Len(requested)
        /\ \A n \in 1..Len(requested) :
             /\ reqs[n].live <=> requested[n].live
             /\ reqs[n].remove <=> requested[n].remove
             /\ reqs[n].linked => requested[n].linked \/ got = RequestTarget(n)
    BY <1>2, <1>4, LinkedPads
  <2> HIDE DEF reqs
  <2>3. /\ requested' \in Seq(RequestedPad) /\ Len(requested') = Len(requested)
        /\ \A n \in 1..Len(requested) :
             /\ requested'[n].linked <=> reqs[n].linked
             /\ requested'[n].remove <=> reqs[n].remove
             /\ requested'[n].live => reqs[n].live /\ ~(got = RequestTarget(n) /\ reqs[n].remove)
    BY <1>2, <2>1, <2>2, UnlinkedPads
  <2>4. DOMAIN requested' = 1..Len(requested) /\ DOMAIN requested = 1..Len(requested)
    BY <1>4, <2>3
  <2>5. PadsReleased'
    BY <2>1, <2>2, <2>3, <2>4 DEF HubInv, PadsReleased, Held
  <2>6. HubTypeOK'
    BY <1>3, <1>4, <2>1, <2>3 DEF HubInv, HubTypeOK, Handled
  <2> QED
    BY <1>3, <2>1, <2>5, <2>6 DEF HubInv, PortsApart, SinksOwned, PadsOwned, SinksMatch, Handled
<1> QED
  BY <1>5, <1>6

(* link_src_pad with a new ghost pad: it is added only for a port that is handled. *)
LEMMA AddSrcStep ==
  ASSUME HubInv, NEW t \in HubThreads, AddSrcPad(t)
  PROVE  HubInv'
<1> DEFINE id == linking[t].id
           kind == linking[t].kind
           key == PadKey("src", kind, id)
           got == Granted(key, linking[t].target)
<1>1. linking[t] \in Linking
  BY DEF HubInv, HubTypeOK, AddSrcPad, NotLinking
<1>2. kind \in HubKinds /\ got \in PadTargets
  BY <1>1, GrantedTarget DEF Linking
<1>3. /\ linking' \in [HubThreads -> Linking \cup {NotLinking}]
      /\ UNCHANGED <<hub_ports, port_count, port_sinks>>
  BY DEF HubInv, HubTypeOK, AddSrcPad
<1>4. CASE UNCHANGED <<hub_pads, requested, port_inputs>> /\ hub_crashed' \in BOOLEAN
  BY <1>3, <1>4
  DEF HubInv, HubTypeOK, PortsApart, SinksOwned, PadsOwned, SinksMatch, PadsReleased, Held, Handled
<1>5. CASE key \notin DOMAIN hub_pads /\ id \in Handled
  <2>1. /\ hub_pads' = [x \in DOMAIN hub_pads \cup {key} |->
                          IF x = key THEN [target |-> got] ELSE hub_pads[x]]
        /\ requested' = LinkedTo(requested, got)
        /\ port_inputs' = port_inputs \cup {<<hub_ports[id].port, kind>>}
        /\ UNCHANGED hub_crashed
    BY <1>5 DEF AddSrcPad, AddPad, pad_added, PortInput
  <2> HIDE DEF got
  <2>2. Extends(requested)
    BY DEF HubInv, HubTypeOK, Extends
  <2>3. /\ requested' \in Seq(RequestedPad) /\ Len(requested') <= MaxRequested
        /\ DOMAIN hub_pads' = DOMAIN hub_pads \cup {key}
        /\ hub_pads' \in [DOMAIN hub_pads' -> [target : PadTargets]]
        /\ PadsReleased'
    BY <1>2, <1>5, <2>1, <2>2, NewPad
  <2>4. HubTypeOK'
    <3>1. id \in 0..port_count - 1 /\ hub_ports[id].port \in HubPorts
      BY <1>5 DEF HubInv, HubTypeOK
    <3>2. DOMAIN hub_pads' \subseteq {"sink", "src"} \X HubKinds \X (0..port_count - 1)
      BY <1>2, <2>3, <3>1 DEF HubInv, HubTypeOK, PadKey
    <3>3. port_inputs' \subseteq HubPorts \X HubKinds
      BY <1>2, <2>1, <3>1 DEF HubInv, HubTypeOK
    <3> QED
      BY <1>3, <2>1, <2>3, <3>2, <3>3 DEF HubInv, HubTypeOK, Handled
  <2>5. PortsApart' /\ SinksOwned' /\ PadsOwned'
    BY <1>3, <1>5, <2>3 DEF HubInv, PortsApart, SinksOwned, PadsOwned, PadKey, Handled
  <2>6. SinksMatch'
    BY <1>3, <2>3 DEF HubInv, SinksMatch, PadKey, Handled
  <2> QED
    BY <2>3, <2>4, <2>5, <2>6 DEF HubInv
<1> QED
  BY <1>4, <1>5 DEF AddSrcPad, HubInv, HubTypeOK

(* unlink_pad *)
LEMMA UnlinkStep ==
  ASSUME HubInv, NEW dir, NEW kind, NEW id, UnlinkPad(dir, kind, id)
  PROVE  HubInv'
<1> DEFINE key == PadKey(dir, kind, id)
<1>1. /\ key \in DOMAIN hub_pads
      /\ UNCHANGED <<hub_ports, port_count, port_sinks, port_inputs, linking, hub_crashed>>
      /\ hub_pads' = [hub_pads EXCEPT ![key].target = NoTarget]
      /\ requested' = LinkedTo(Unlinked(requested, hub_pads[key].target), NoTarget)
  BY DEF UnlinkPad, set_target, Granted
<1>2. Extends(requested) /\ NoTarget \in PadTargets
  BY DEF HubInv, HubTypeOK, Extends, PadTargets
<1>3. /\ requested' \in Seq(RequestedPad) /\ Len(requested') <= MaxRequested
      /\ DOMAIN hub_pads' = DOMAIN hub_pads
      /\ hub_pads' \in [DOMAIN hub_pads' -> [target : PadTargets]]
      /\ PadsReleased'
  BY <1>1, <1>2, Retarget
<1>4. HubTypeOK'
  BY <1>1, <1>3 DEF HubInv, HubTypeOK, Handled
<1> QED
  BY <1>1, <1>3, <1>4 DEF HubInv, PortsApart, SinksOwned, PadsOwned, SinksMatch, Handled

(* Every step of the hub keeps the invariant. *)
LEMMA HubInvStep ==
  ASSUME HubInv, [HubNext]_hubVars
  PROVE  HubInv'
<1>1. CASE UNCHANGED hubVars
  BY <1>1 DEF hubVars, HubInv, HubTypeOK, PortsApart, SinksOwned, PadsOwned, SinksMatch, PadsReleased,
              Held, Handled
<1>2. CASE HubOperation
  BY <1>2, BeginLinkStep, UnlinkStep DEF HubOperation, LinkSinks, LinkSrcs, Unlinks
<1>3. CASE HubNext
  BY <1>2, <1>3, HandleStep, UnhandleStep, LinkFailsStep, EndLinkStep, SetSrcStep, AddSrcStep DEF HubNext
<1> QED
  BY <1>1, <1>3

(* A hub starts with no port. *)
LEMMA HubInvInit ==
  ASSUME HubInit
  PROVE  HubInv
<1>1. HubTypeOK
  <2>1. hub_crashed \in BOOLEAN /\ linking \in [HubThreads -> Linking \cup {NotLinking}]
    BY DEF HubInit
  <2>2. DOMAIN hub_ports = {} /\ DOMAIN hub_pads = {} /\ port_count = 0 /\ requested = <<>>
          /\ port_sinks = {} /\ port_inputs = {}
    BY DEF HubInit
  <2>3. hub_ports \in [Handled -> [port : HubPorts]] /\ hub_pads \in [DOMAIN hub_pads -> [target : PadTargets]]
    BY DEF HubInit, Handled
  <2> QED
    BY <2>1, <2>2, <2>3, HubAssumption DEF HubTypeOK, Handled
<1> QED
  BY <1>1 DEF HubInit, HubInv, PortsApart, SinksOwned, PadsOwned, SinksMatch, PadsReleased, Handled

(* The variables of the hub keep their types, and no id is used twice. *)
THEOREM HubTypeCorrect == HubSpec => []HubTypeOK
<1>1. HubInv => HubTypeOK
  BY DEF HubInv
<1> QED
  BY <1>1, HubInvInit, HubInvStep, PTL DEF HubSpec

(* With any ports, threads and pads, linkings that found their target before they looked at
   the port leave no audio or video pad for a port that went, no port with a sink that has
   no pad of the hub, and no requested pad that was linked, is to be removed and leads
   nowhere (kms_base_hub_link_sink_pad, kms_base_hub_link_src_pad,
   kms_base_hub_unhandle_port, remove_unlinked_pad).  It says nothing of a requested pad that
   was never linked, which stays (kmsbasehub.c:521), nor of what follows when a source is
   added for a port that went (812). *)
THEOREM HubStaysInStep == HubSpec => []HubInStep
<1>1. HubInv => HubInStep
  BY DEF HubInv, HubInStep, PadsOwned, SinksMatch, PadsReleased, Held
<1> QED
  BY <1>1, HubInvInit, HubInvStep, PTL DEF HubSpec
=============================================================================
