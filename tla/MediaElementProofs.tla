-------------------------- MODULE MediaElementProofs --------------------------
(***************************************************************************)
(* Proofs about the connections between media elements, for any elements,  *)
(* clients, pairs and bounds.                                              *)
(***************************************************************************)
EXTENDS MediaElement, TLAPS

(* What the maps need to agree: one source description, clients that disconnect only what is
   connected, and one client or one source for every sink.  Two clients that dispute a sink
   can disconnect a connection that is not theirs (MediaElementImpl::disconnect looks up the
   connection by its sink only). *)
Undisputed ==
  /\ \A d, e \in Descs : d = e
  /\ ~Misdirected
  /\ \/ \A t, u \in Clients : t = u
     \/ \A p, q \in Pairs : p[2] = q[2] => p[1] = q[1]

-----------------------------------------------------------------------------
(* The mutexes that a thread holds at each step. *)
LockInv ==
  /\ \A t \in Clients :
       /\ pc[t] \in {"connect_locked", "replace", "insert"} => owner[<<op[t].a, "sinks">>] = t
       /\ pc[t] \in {"replace", "insert", "disconnect_locked"} => owner[<<op[t].b, "sources">>] = t
  /\ \A e \in Elements :
       /\ pc[e] = "sinks_locked" => owner[<<e, "sinks">>] = e
       /\ pc[e] = "sources_locked" => owner[<<e, "sources">>] = e

(* What a thread knows of the maps while it holds them. *)
WorkInv ==
  /\ \A t \in Clients :
       /\ pc[t] = "insert" => sources[op[t].b] = {}
       /\ pc[t] \in {"disconnect", "disconnect_locked"} =>
            \A c \in sources[op[t].b] : c.src = op[t].a
  /\ \A e \in Elements :
       /\ pc[e] = "sinks_locked" => todo[e] \subseteq sinks[e]
       /\ pc[e] = "sources_locked" => todo[e] \subseteq sources[e]

(* Only pairs that clients connect are connected. *)
PairsInv ==
  /\ \A b \in Elements : \A c \in sources[b] : <<c.src, b>> \in Pairs
  /\ \A t \in Clients : pc[t] # "idle" => <<op[t].a, op[t].b>> \in Pairs

(* A pad has a number given before, of one connection and either pending or created. *)
PadInv ==
  /\ \A a \in Elements : \A c \in sinks[a] : c.n < padCount[a][c.desc]
  /\ \A a \in Elements : \A c, e \in sinks[a] : PadOf(c) = PadOf(e) => c = e
  /\ pending \cap pads = {}
  /\ \A p \in pending \cup pads : p[3] < padCount[p[1]][p[2]]

(* A link is of a pad that exists and of the connection that feeds its sink. *)
LinkInv ==
  \A l \in link : l[1] \in pads /\ \E c \in sources[l[2]] : PadOf(c) = l[1]

ConnInv == MapsAgree /\ PadInv /\ LinkInv /\ LinksFollow

(* The inductive invariant. *)
ElementInv == TypeOK /\ LockInv /\ WorkInv /\ PairsInv /\ ConnInv

-----------------------------------------------------------------------------
(* Connections.                                                            *)

(* A connection that feeds a sink is the only one that does, and its source lists it. *)
LEMMA OneSource ==
  ASSUME ElementInv, Undisputed, NEW b \in Elements, NEW c \in sources[b]
  PROVE  /\ c \in Conn /\ c.snk = b /\ c.src \in Elements /\ c.desc \in Descs
         /\ sources[b] = {c} /\ c \in sinks[c.src] /\ PadOf(c) \in Pad
         /\ padCount[c.src][c.desc] > 0
         /\ \A d \in Descs : Matching(c.src, b, d) = {c}
<1>1. c \in Conn
  BY DEF ElementInv, TypeOK
<1>2. c.src \in Elements /\ c.desc \in Descs /\ c.n \in 0..MaxConnects
  BY <1>1 DEF Conn
<1>3. c.snk = b /\ c \in sinks[c.src]
  BY DEF ElementInv, ConnInv, MapsAgree
<1>4. sources[b] = {c}
  BY DEF ElementInv, TypeOK
<1>5. PadOf(c) \in Pad
  BY <1>2 DEF PadOf, Pad
<1>6. padCount[c.src][c.desc] > 0
  <2>1. padCount[c.src][c.desc] \in 0..MaxConnects /\ c.n < padCount[c.src][c.desc]
    BY <1>2, <1>3 DEF ElementInv, TypeOK, ConnInv, PadInv
  <2> QED
    BY <1>2, <2>1
<1>7. ASSUME NEW d \in Descs
      PROVE  Matching(c.src, b, d) = {c}
  <2>1. c.desc = d
    BY <1>2 DEF Undisputed
  <2>2. ASSUME NEW e \in sinks[c.src], e.snk = b
        PROVE  e = c
    BY <1>2, <1>4, <2>2 DEF ElementInv, ConnInv, MapsAgree
  <2> QED
    BY <1>3, <2>1, <2>2 DEF Matching
<1> QED
  BY <1>1, <1>2, <1>3, <1>4, <1>5, <1>6, <1>7

(* What disconnect does to the connection c, the pad of c and its link. *)
Detached(c) ==
  /\ sources' = [sources EXCEPT ![c.snk] = {}]
  /\ sinks' = [sinks EXCEPT ![c.src] = @ \ {c}]
  /\ pending' = pending /\ pads' = pads \ {PadOf(c)}
  /\ link' = {l \in link : l[1] # PadOf(c)}
  /\ added' \subseteq added /\ added \ {PadOf(c)} \subseteq added'

(* disconnect by the source of the connection takes it out of both maps, with its pad. *)
LEMMA DetachTakes ==
  ASSUME ElementInv, Undisputed, NEW b \in Elements, NEW c \in sources[b], NEW d \in Descs,
         Detach(c.src, b, d)
  PROVE  Detached(c)
<1> USE OneSource
<1>1. c.desc = d /\ PadOf(c) = <<c.src, c.desc, c.n>>
  BY DEF Undisputed, PadOf
<1>2. /\ sources' = [sources EXCEPT ![b] = {}]
      /\ sinks' = [sinks EXCEPT ![c.src] = @ \ {c}]
      /\ IF PadOf(c) \in pads THEN ReleaseRequestedPad(c.src, PadOf(c))
         ELSE UNCHANGED <<pending, pads, link, added>>
  BY <1>1 DEF Detach
<1>3. CASE PadOf(c) \in pads
  <2>1. <<c.src, PadOf(c)[2], PadOf(c)[3]>> = PadOf(c) /\ PadOf(c)[1] = c.src
    BY <1>1
  <2>2. PadOf(c) \notin pending
    BY <1>3 DEF ElementInv, ConnInv, PadInv
  <2>3. /\ pads' = pads \ {PadOf(c)} /\ UNCHANGED pending
        /\ link' = {l \in link : l[1] # PadOf(c)}
        /\ added' = added \ {PadOf(c)}
    BY <1>2, <1>3, <2>1, <2>2 DEF ReleaseRequestedPad
  <2> QED
    BY <1>2, <2>3 DEF Detached
<1>4. CASE PadOf(c) \notin pads
  <2>1. \A l \in link : l[1] # PadOf(c)
    BY <1>4 DEF ElementInv, ConnInv, LinkInv
  <2> QED
    <3>1. UNCHANGED <<pending, pads, link, added>>
      BY <1>2, <1>4
    <3>2. pads' = pads \ {PadOf(c)} /\ link' = {l \in link : l[1] # PadOf(c)}
      BY <1>4, <2>1, <3>1
    <3> QED
      BY <1>2, <3>1, <3>2 DEF Detached
<1> QED
  BY <1>3, <1>4

(* The maps, pads and links agree without the connection. *)
LEMMA DetachedKeeps ==
  ASSUME ElementInv, Undisputed, NEW b \in Elements, NEW c \in sources[b], Detached(c), DetachFrame
  PROVE  /\ ConnInv'
         /\ sources' \in [Elements -> SUBSET Conn] /\ sinks' \in [Elements -> SUBSET Conn]
         /\ \A x \in Elements : \A e, g \in sources'[x] : e = g
         /\ pending' \in SUBSET Pad /\ pads' \in SUBSET Pad /\ added' \in SUBSET Pad
         /\ link' \in SUBSET (Pad \X Elements)
         /\ \A x \in Elements : sources'[x] = IF x = b THEN {} ELSE sources[x]
         /\ \A x \in Elements : sinks'[x] = IF x = c.src THEN sinks[x] \ {c} ELSE sinks[x]
<1> USE OneSource
<1>1. /\ sources' \in [Elements -> SUBSET Conn] /\ sinks' \in [Elements -> SUBSET Conn]
      /\ \A x \in Elements : sources'[x] = IF x = b THEN {} ELSE sources[x]
      /\ \A x \in Elements : sinks'[x] = IF x = c.src THEN sinks[x] \ {c} ELSE sinks[x]
  <2>1. sources \in [Elements -> SUBSET Conn] /\ sinks \in [Elements -> SUBSET Conn]
    BY DEF ElementInv, TypeOK
  <2>2. c.src \in Elements /\ sources' = [sources EXCEPT ![b] = {}]
          /\ sinks' = [sinks EXCEPT ![c.src] = @ \ {c}]
    BY DEF Detached
  <2>3. sources' \in [Elements -> SUBSET Conn] /\ \A x \in Elements : sources'[x] = IF x = b THEN {} ELSE sources[x]
    BY <2>1, <2>2
  <2>4. sinks' \in [Elements -> SUBSET Conn] /\ \A x \in Elements : sinks'[x] = IF x = c.src THEN sinks[x] \ {c} ELSE sinks[x]
    BY <2>1, <2>2
  <2> QED
    BY <2>3, <2>4
<1>2. \A x \in Elements : \A e, g \in sources'[x] : e = g
  BY <1>1 DEF ElementInv, TypeOK
<1>3. /\ pending' \in SUBSET Pad /\ pads' \in SUBSET Pad /\ added' \in SUBSET Pad
      /\ link' \in SUBSET (Pad \X Elements)
  <2>1. pending \in SUBSET Pad /\ pads \in SUBSET Pad /\ added \in SUBSET Pad
    BY DEF ElementInv, TypeOK
  <2>2. link \in SUBSET (Pad \X Elements)
    BY DEF ElementInv, TypeOK
  <2>3. link' \subseteq link /\ pads' \subseteq pads /\ added' \subseteq added /\ pending' = pending
    BY DEF Detached
  <2> QED
    BY <2>1, <2>2, <2>3
<1>4. MapsAgree'
  <2>1. ASSUME NEW x \in Elements, NEW e \in sources'[x]
        PROVE  e.snk = x /\ e \in sinks'[e.src]
    <3>1. e \in sources[x] /\ x # b
      BY <1>1
    <3>2. e.snk = x /\ e \in sinks[e.src] /\ e.src \in Elements
      BY <3>1
    <3>3. e # c
      BY <3>1, <3>2
    <3> QED
      BY <1>1, <3>2, <3>3
  <2>2. ASSUME NEW x \in Elements, NEW e \in sinks'[x]
        PROVE  e.src = x /\ e \in sources'[e.snk]
    <3>1. e \in sinks[x] /\ (x = c.src => e # c)
      BY <1>1
    <3>2. e.src = x /\ e \in sources[e.snk] /\ e \in Conn
      BY <3>1 DEF ElementInv, TypeOK, ConnInv, MapsAgree
    <3>3. e.snk \in Elements /\ e.snk # b
      BY <3>1, <3>2 DEF Conn
    <3> QED
      BY <1>1, <3>2, <3>3
  <2> QED
    BY <2>1, <2>2 DEF MapsAgree
<1>5. PadInv'
  BY <1>1 DEF ElementInv, ConnInv, PadInv, Detached, DetachFrame
<1>6. LinkInv'
  <2>1. ASSUME NEW l \in link'
        PROVE  l[1] \in pads' /\ \E e \in sources'[l[2]] : PadOf(e) = l[1]
    <3>1. l \in link /\ l[1] # PadOf(c) /\ l[2] \in Elements
      BY DEF Detached, ElementInv, TypeOK
    <3>2. l[1] \in pads /\ \E e \in sources[l[2]] : PadOf(e) = l[1]
      BY <3>1 DEF ElementInv, ConnInv, LinkInv
    <3>3. l[2] # b
      BY <3>1, <3>2
    <3> QED
      BY <1>1, <3>1, <3>2, <3>3 DEF Detached
  <2> QED
    BY <2>1 DEF LinkInv
<1>7. LinksFollow'
  <2>1. ASSUME NEW x \in sinkPads \ sinkAdded, NEW e \in sources'[x], PadOf(e) \in pads' \ added'
        PROVE  <<PadOf(e), x>> \in link'
    <3>1. x \in Elements /\ e \in sources[x]
      BY <1>1 DEF ElementInv, TypeOK
    <3>2. PadOf(e) \in pads \ added /\ PadOf(e) # PadOf(c)
      BY <2>1 DEF Detached
    <3>3. <<PadOf(e), x>> \in link
      BY <3>1, <3>2 DEF ElementInv, ConnInv, LinksFollow
    <3> QED
      BY <3>2, <3>3 DEF Detached
  <2> QED
    BY <2>1 DEF LinksFollow, DetachFrame
<1> QED
  BY <1>1, <1>2, <1>3, <1>4, <1>5, <1>6, <1>7 DEF ConnInv

(* Whoever may take both mutexes of a connection disturbs no other thread when it
   disconnects it. *)
LEMMA OthersUndisturbed ==
  ASSUME ElementInv, Undisputed, NEW b \in Elements, NEW c \in sources[b],
         \A x \in Elements : sources'[x] = IF x = b THEN {} ELSE sources[x],
         \A x \in Elements : sinks'[x] = IF x = c.src THEN sinks[x] \ {c} ELSE sinks[x],
         NEW t \in Threads, CanLock(t, <<b, "sources">>), CanLock(t, <<c.src, "sinks">>)
  PROVE  /\ \A u \in Clients :
              /\ pc[u] = "insert" => sources'[op[u].b] = {}
              /\ pc[u] \in {"disconnect", "disconnect_locked"} =>
                   \A e \in sources'[op[u].b] : e.src = op[u].a
         /\ \A f \in Elements \ {t} :
              /\ pc[f] = "sinks_locked" => todo[f] \subseteq sinks'[f]
              /\ pc[f] = "sources_locked" => todo[f] \subseteq sources'[f]
         /\ \A x \in Elements : \A e \in sources'[x] : <<e.src, x>> \in Pairs
<1>1. \A u \in Clients : op[u].b \in Elements
  BY DEF ElementInv, TypeOK, Op, Threads
<1>2. \A x \in Elements : sources'[x] \subseteq sources[x]
  OBVIOUS
<1>3. ASSUME NEW f \in Elements, f # t
      PROVE  /\ pc[f] = "sinks_locked" => todo[f] \subseteq sinks'[f]
             /\ pc[f] = "sources_locked" => todo[f] \subseteq sources'[f]
  <2>1. f # None
    BY ElementAssumption
  <2>2. CASE pc[f] = "sinks_locked"
    <3>1. owner[<<f, "sinks">>] = f /\ todo[f] \subseteq sinks[f]
      BY <2>2 DEF ElementInv, LockInv, WorkInv
    <3>2. f # c.src
      BY <1>3, <2>1, <3>1 DEF CanLock
    <3> QED
      BY <2>2, <3>1, <3>2
  <2>3. CASE pc[f] = "sources_locked"
    <3>1. owner[<<f, "sources">>] = f /\ todo[f] \subseteq sources[f]
      BY <2>3 DEF ElementInv, LockInv, WorkInv
    <3>2. f # b
      BY <1>3, <2>1, <3>1 DEF CanLock
    <3> QED
      BY <2>3, <3>1, <3>2
  <2> QED
    BY <2>2, <2>3
<1>4. ASSUME NEW u \in Clients
      PROVE  /\ pc[u] = "insert" => sources'[op[u].b] = {}
             /\ pc[u] \in {"disconnect", "disconnect_locked"} =>
                  \A e \in sources'[op[u].b] : e.src = op[u].a
  BY <1>1, <1>2 DEF ElementInv, WorkInv
<1>5. \A x \in Elements : \A e \in sources'[x] : <<e.src, x>> \in Pairs
  BY <1>2 DEF ElementInv, PairsInv
<1> QED
  BY <1>3, <1>4, <1>5

-----------------------------------------------------------------------------
(* Steps that change neither maps nor pads.                                *)

(* A step that changes no map and no pad keeps what is known of them. *)
LEMMA SameConns ==
  ASSUME ElementInv, UNCHANGED <<conns, padv>>
  PROVE  ConnInv'
BY DEF ElementInv, ConnInv, MapsAgree, PadInv, LinkInv, LinksFollow, conns, padv

(* A client calls connect or disconnect. *)
LEMMA StartSteps ==
  ASSUME ElementInv, Undisputed, NEW t \in Clients, NEW p \in Pairs, NEW d \in Descs,
         Connect(t, p[1], p[2], d) \/ Disconnect(t, p[1], p[2], d)
  PROVE  ElementInv'
<1> DEFINE o == [a |-> p[1], b |-> p[2], d |-> d]
           q == IF Connect(t, p[1], p[2], d) THEN "connect" ELSE "disconnect"
<1>1. /\ pc[t] = "idle" /\ ops' = ops + 1 /\ pc' = [pc EXCEPT ![t] = q] /\ op' = [op EXCEPT ![t] = o]
      /\ UNCHANGED <<conns, owner, todo, padv>>
  BY DEF Connect, Disconnect, Start
<1>2. t \in Threads /\ o \in Op /\ <<o.a, o.b>> \in Pairs /\ o.a = p[1] /\ o.b = p[2]
  BY ElementAssumption DEF Threads, Op
<1>3. TypeOK'
  BY <1>1, <1>2 DEF ElementInv, TypeOK, Steps, conns, padv
<1>4. /\ pc'[t] = q /\ op'[t] = o
      /\ \A u \in Threads \ {t} : pc'[u] = pc[u] /\ op'[u] = op[u]
  BY <1>1, <1>2 DEF ElementInv, TypeOK
<1>5. q \in {"connect", "disconnect"} /\ \A e \in Elements : e # t
  BY ElementAssumption
<1> HIDE DEF o, q
<1>6. LockInv'
  BY <1>1, <1>4, <1>5 DEF ElementInv, LockInv, Threads
<1>7. WorkInv'
  <2>1. q = "disconnect" => \A c \in sources[o.b] : c.src = o.a
    <3>1. q = "disconnect" => \E c \in sources[p[2]] : c.src = p[1] /\ c.desc = d
      BY DEF q, Disconnect, Undisputed
    <3>2. o.b \in Elements
      BY <1>2 DEF Op
    <3> QED
      BY <1>2, <3>1, <3>2 DEF ElementInv, TypeOK
  <2> QED
    BY <1>1, <1>4, <1>5, <2>1 DEF ElementInv, WorkInv, Threads, conns
<1>8. PairsInv'
  BY <1>1, <1>2, <1>4 DEF ElementInv, PairsInv, Threads, conns
<1> QED
  BY <1>1, <1>3, <1>6, <1>7, <1>8, SameConns DEF ElementInv

(* A client takes a mutex, in connect and in disconnect. *)
LEMMA LockSteps ==
  ASSUME ElementInv, NEW t \in Clients,
         ConnectLockSinks(t) \/ ConnectLockSources(t) \/ DisconnectLockSources(t)
  PROVE  ElementInv'
<1> DEFINE l == IF ConnectLockSinks(t) THEN <<op[t].a, "sinks">> ELSE <<op[t].b, "sources">>
           q == pc'[t]
<1>1. t \in Threads /\ op[t] \in Op /\ l \in Locks /\ \A e \in Elements : e # t
  BY ElementAssumption DEF ElementInv, TypeOK, Threads, Op, Locks
<1>2. /\ CanLock(t, l) /\ owner' = [owner EXCEPT ![l] = t]
      /\ UNCHANGED <<conns, padv, op, todo, ops>>
      /\ \E s \in Steps : pc' = [pc EXCEPT ![t] = s]
  BY DEF ConnectLockSinks, ConnectLockSources, DisconnectLockSources, Lock, Go, Steps
<1>3. TypeOK'
  BY <1>1, <1>2 DEF ElementInv, TypeOK, conns, padv
<1>4. /\ \A u \in Threads \ {t} : pc'[u] = pc[u]
      /\ owner'[l] = t /\ \A m \in Locks \ {l} : owner'[m] = owner[m]
  BY <1>1, <1>2 DEF ElementInv, TypeOK
<1>5. \A m \in Locks, u \in Threads : owner[m] = u => (owner'[m] = u)
  BY <1>1, <1>2, <1>4, ElementAssumption DEF CanLock, Threads
<1>6. /\ pc[t] # "idle"
      /\ q \in {"connect_locked", "replace", "insert"} => owner'[<<op[t].a, "sinks">>] = t
      /\ q \in {"replace", "insert", "disconnect_locked"} => owner'[<<op[t].b, "sources">>] = t
      /\ q = "insert" => sources[op[t].b] = {}
      /\ q = "disconnect_locked" => pc[t] = "disconnect"
      /\ q # "disconnect"
  <2>1. CASE ConnectLockSinks(t)
    BY <1>1, <1>4, <2>1 DEF ConnectLockSinks, Go, ElementInv, TypeOK
  <2>2. CASE ConnectLockSources(t)
    <3>1. l = <<op[t].b, "sources">>
      BY <2>2 DEF ConnectLockSources, ConnectLockSinks
    <3>2. owner[<<op[t].a, "sinks">>] = t
      BY <2>2 DEF ConnectLockSources, ElementInv, LockInv
    <3> QED
      BY <1>1, <1>4, <2>2, <3>1, <3>2 DEF ConnectLockSources, Go, ElementInv, TypeOK, Locks, Op
  <2>3. CASE DisconnectLockSources(t)
    <3>1. l = <<op[t].b, "sources">>
      BY <2>3 DEF DisconnectLockSources, ConnectLockSinks
    <3> QED
      BY <1>1, <1>4, <2>3, <3>1 DEF DisconnectLockSources, Go, ElementInv, TypeOK
  <2> QED
    BY <2>1, <2>2, <2>3
<1> HIDE DEF l, q
<1>7. \A u \in Threads : op[u].a \in Elements /\ op[u].b \in Elements
  BY DEF ElementInv, TypeOK, Op
<1>8. LockInv'
  BY <1>1, <1>2, <1>4, <1>5, <1>6, <1>7 DEF ElementInv, LockInv, Threads, Locks, q
<1>9. WorkInv'
  BY <1>1, <1>2, <1>4, <1>6 DEF ElementInv, WorkInv, Threads, conns, q
<1>10. PairsInv'
  BY <1>1, <1>2, <1>4, <1>6 DEF ElementInv, PairsInv, Threads, conns
<1> QED
  BY <1>2, <1>3, <1>8, <1>9, <1>10, SameConns DEF ElementInv

(* A client returns: it is idle, and only its own mutexes are given up. *)
LEMMA FinishFacts ==
  ASSUME ElementInv, NEW t \in Clients, Finish(t)
  PROVE  /\ owner' \in [Locks -> Threads \cup {None}]
         /\ pc' \in [Threads -> Steps] /\ op' \in [Threads -> Op] /\ todo' = todo /\ ops' = ops
         /\ pc'[t] = "idle"
         /\ \A u \in Threads \ {t} : pc'[u] = pc[u] /\ op'[u] = op[u]
         /\ \A u \in Threads \ {t}, l \in Locks : owner[l] = u => owner'[l] = u
         /\ LockInv'
<1>1. t \in Threads /\ \A e \in Elements : e # t
  BY ElementAssumption DEF Threads
<1>2. NoOp \in Op
  <2>1. PICK x \in Elements, d \in Descs : TRUE
    BY ElementAssumption
  <2>2. [a |-> x, b |-> x, d |-> d] \in Op
    BY DEF Op
  <2> QED
    BY <2>2 DEF NoOp
<1>3. /\ owner' \in [Locks -> Threads \cup {None}]
      /\ pc' \in [Threads -> Steps] /\ op' \in [Threads -> Op] /\ todo' = todo /\ ops' = ops
      /\ pc'[t] = "idle"
      /\ \A u \in Threads \ {t} : pc'[u] = pc[u] /\ op'[u] = op[u]
      /\ \A u \in Threads \ {t}, l \in Locks : owner[l] = u => owner'[l] = u
  BY <1>1, <1>2 DEF Finish, ElementInv, TypeOK, Steps
<1>4. \A u \in Threads : op[u].a \in Elements /\ op[u].b \in Elements
  BY DEF ElementInv, TypeOK, Op
<1>5. LockInv'
  <2>1. ASSUME NEW u \in Clients
        PROVE  /\ pc'[u] \in {"connect_locked", "replace", "insert"} => owner'[<<op'[u].a, "sinks">>] = u
               /\ pc'[u] \in {"replace", "insert", "disconnect_locked"} => owner'[<<op'[u].b, "sources">>] = u
    <3>1. CASE u = t
      BY <1>3, <3>1
    <3>2. CASE u # t
      <4>1. u \in Threads \ {t} /\ <<op[u].a, "sinks">> \in Locks /\ <<op[u].b, "sources">> \in Locks
        BY <1>4, <3>2 DEF Threads, Locks
      <4> QED
        BY <1>3, <4>1 DEF ElementInv, LockInv
    <3> QED
      BY <3>1, <3>2
  <2>2. ASSUME NEW e \in Elements
        PROVE  /\ pc'[e] = "sinks_locked" => owner'[<<e, "sinks">>] = e
               /\ pc'[e] = "sources_locked" => owner'[<<e, "sources">>] = e
    <3>1. e \in Threads \ {t} /\ <<e, "sinks">> \in Locks /\ <<e, "sources">> \in Locks
      BY <1>1 DEF Threads, Locks
    <3> QED
      BY <1>3, <3>1 DEF ElementInv, LockInv
  <2> QED
    BY <2>1, <2>2 DEF LockInv
<1> QED
  BY <1>3, <1>5

(* CONNECT_ERROR is thrown. *)
LEMMA RefusedStep ==
  ASSUME ElementInv, NEW t \in Clients, ConnectRefused(t)
  PROVE  ElementInv'
<1>1. Finish(t) /\ UNCHANGED <<conns, padv>>
  BY DEF ConnectRefused
<1>2. t \in Threads /\ \A e \in Elements : e # t
  BY ElementAssumption DEF Threads
<1>3. TypeOK'
  BY <1>1, FinishFacts DEF ElementInv, TypeOK, conns, padv
<1>4. WorkInv'
  BY <1>1, <1>2, FinishFacts DEF ElementInv, WorkInv, Threads, conns
<1>5. PairsInv'
  BY <1>1, <1>2, FinishFacts DEF ElementInv, PairsInv, Threads, conns
<1> QED
  BY <1>1, <1>3, <1>4, <1>5, FinishFacts, SameConns DEF ElementInv

(* A worker begins release (), begins a round, leaves a connection for the next round, or
   ends a round. *)
LEMMA WorkerSteps ==
  ASSUME ElementInv, NEW e \in Elements,
         Release(e) \/ SinksLoop(e) \/ SourcesLoop(e) \/ RetryLater(e) \/ NextRound(e)
  PROVE  ElementInv'
<1>1. e \in Threads /\ e # None /\ \A t \in Clients : t # e
  BY ElementAssumption DEF Threads
<1>2. UNCHANGED <<conns, padv, op, ops>>
  BY DEF Release, SinksLoop, SourcesLoop, RetryLater, NextRound, Go
<1>3. <<e, "sinks">> \in Locks /\ <<e, "sources">> \in Locks
  BY DEF Locks
<1>4. /\ owner' \in [Locks -> Threads \cup {None}]
      /\ \A u \in Threads \ {e}, l \in Locks : owner[l] = u => owner'[l] = u
  <2>1. owner \in [Locks -> Threads \cup {None}]
    BY DEF ElementInv, TypeOK
  <2>2. \/ UNCHANGED owner
        \/ CanLock(e, <<e, "sinks">>) /\ owner' = [owner EXCEPT ![<<e, "sinks">>] = e]
        \/ CanLock(e, <<e, "sources">>) /\ owner' = [owner EXCEPT ![<<e, "sources">>] = e]
        \/ owner' = [l \in Locks |-> IF owner[l] = e THEN None ELSE owner[l]]
    BY DEF Release, SinksLoop, SourcesLoop, RetryLater, NextRound, Lock
  <2> QED
    BY <1>1, <1>3, <2>1, <2>2, ElementAssumption DEF CanLock, Threads
<1>5. /\ pc' \in [Threads -> Steps] /\ todo' \in [Elements -> SUBSET Conn]
      /\ \A u \in Threads \ {e} : pc'[u] = pc[u]
      /\ \A f \in Elements \ {e} : todo'[f] = todo[f]
  <2>1. /\ pc \in [Threads -> Steps] /\ todo \in [Elements -> SUBSET Conn]
        /\ sinks[e] \in SUBSET Conn /\ sources[e] \in SUBSET Conn
    BY DEF ElementInv, TypeOK
  <2>2. /\ \/ UNCHANGED pc
           \/ \E q \in Steps : pc' = [pc EXCEPT ![e] = q]
        /\ \/ UNCHANGED todo
           \/ \E T \in SUBSET Conn : todo' = [todo EXCEPT ![e] = T]
    <3>1. CASE Release(e) \/ NextRound(e)
      BY <3>1 DEF Release, NextRound, Go, Steps
    <3>2. CASE SinksLoop(e)
      BY <2>1, <3>2 DEF SinksLoop, Go, Steps
    <3>3. CASE SourcesLoop(e)
      BY <2>1, <3>3 DEF SourcesLoop, Go, Steps
    <3>4. CASE RetryLater(e)
      <4>1. PICK c \in todo[e] : todo' = [todo EXCEPT ![e] = @ \ {c}]
        BY <3>4 DEF RetryLater
      <4>2. todo[e] \ {c} \in SUBSET Conn
        BY <2>1
      <4> QED
        BY <3>4, <4>1, <4>2 DEF RetryLater
    <3> QED
      BY <3>1, <3>2, <3>3, <3>4
  <2> QED
    BY <1>1, <2>1, <2>2
<1>6. /\ pc'[e] = "sinks_locked" => owner'[<<e, "sinks">>] = e /\ todo'[e] \subseteq sinks[e]
      /\ pc'[e] = "sources_locked" => owner'[<<e, "sources">>] = e /\ todo'[e] \subseteq sources[e]
  <2>1. owner \in [Locks -> Threads \cup {None}] /\ pc \in [Threads -> Steps]
          /\ todo \in [Elements -> SUBSET Conn]
    BY DEF ElementInv, TypeOK
  <2>2. CASE Release(e) \/ NextRound(e)
    BY <1>1, <2>1, <2>2 DEF Release, NextRound, Go
  <2>3. CASE SinksLoop(e)
    BY <1>1, <1>3, <2>1, <2>3 DEF SinksLoop, Go, Lock
  <2>4. CASE SourcesLoop(e)
    BY <1>1, <1>3, <2>1, <2>4 DEF SourcesLoop, Go, Lock
  <2>5. CASE RetryLater(e)
    BY <1>1, <2>1, <2>5 DEF RetryLater, ElementInv, LockInv, WorkInv
  <2> QED
    BY <2>2, <2>3, <2>4, <2>5
<1>7. TypeOK'
  BY <1>2, <1>4, <1>5 DEF ElementInv, TypeOK, conns, padv
<1>8. LockInv'
  <2>1. \A u \in Threads : op[u].a \in Elements /\ op[u].b \in Elements
    BY DEF ElementInv, TypeOK, Op
  <2> QED
    BY <1>1, <1>2, <1>4, <1>5, <1>6, <2>1 DEF ElementInv, LockInv, Threads, Locks
<1>9. WorkInv'
  BY <1>1, <1>2, <1>5, <1>6 DEF ElementInv, WorkInv, Threads, conns
<1>10. PairsInv'
  BY <1>1, <1>2, <1>5 DEF ElementInv, PairsInv, Threads, conns
<1> QED
  BY <1>2, <1>7, <1>8, <1>9, <1>10, SameConns DEF ElementInv

-----------------------------------------------------------------------------
(* Steps that disconnect.                                                  *)

(* Detach finds nothing to disconnect. *)
LEMMA NothingToDetach ==
  ASSUME NEW a, NEW b, NEW d, Detach(a, b, d), sources[b] = {}
  PROVE  UNCHANGED <<conns, pending, pads, link, added>>
BY DEF Detach

(* connect takes the place of the present source. *)
LEMMA ReplaceStep ==
  ASSUME ElementInv, Undisputed, NEW t \in Clients, ConnectReplace(t)
  PROVE  ElementInv'
<1> DEFINE b == op[t].b
           d == op[t].d
<1>1. t \in Threads /\ b \in Elements /\ d \in Descs /\ \A e \in Elements : e # t
  BY ElementAssumption DEF ElementInv, TypeOK, Threads, Op
<1>2. PICK c \in sources[b] : CanLock(t, <<c.src, "sinks">>) /\ Detach(c.src, b, d)
  BY DEF ConnectReplace
<1>3. Detached(c) /\ DetachFrame
  BY <1>1, <1>2, DetachTakes DEF ConnectReplace
<1>4. owner[<<b, "sources">>] = t
  BY DEF ConnectReplace, ElementInv, LockInv
<1>5. /\ pc' = [pc EXCEPT ![t] = "insert"] /\ UNCHANGED <<op, todo, ops, owner>> /\ pc[t] = "replace"
  BY DEF ConnectReplace, Go
<1>6. /\ pc' \in [Threads -> Steps] /\ pc'[t] = "insert"
      /\ \A u \in Threads \ {t} : pc'[u] = pc[u]
  BY <1>1, <1>5 DEF ElementInv, TypeOK, Steps
<1>7. TypeOK' /\ ConnInv'
  BY <1>1, <1>3, <1>5, <1>6, DetachedKeeps DEF ElementInv, TypeOK, DetachFrame
<1>8. LockInv'
  BY <1>1, <1>5, <1>6 DEF ElementInv, LockInv, Threads
<1>9. /\ \A x \in Elements : sources'[x] = IF x = b THEN {} ELSE sources[x]
      /\ \A x \in Elements : sinks'[x] = IF x = c.src THEN sinks[x] \ {c} ELSE sinks[x]
  BY <1>1, <1>3, DetachedKeeps
<1>10. WorkInv' /\ PairsInv'
  <2> HIDE DEF b
  <2>1. CanLock(t, <<b, "sources">>)
    BY <1>4 DEF CanLock
  <2>8. /\ \A u \in Clients :
             /\ pc[u] = "insert" => sources'[op[u].b] = {}
             /\ pc[u] \in {"disconnect", "disconnect_locked"} =>
                  \A g \in sources'[op[u].b] : g.src = op[u].a
        /\ \A f \in Elements \ {t} :
             /\ pc[f] = "sinks_locked" => todo[f] \subseteq sinks'[f]
             /\ pc[f] = "sources_locked" => todo[f] \subseteq sources'[f]
        /\ \A x \in Elements : \A g \in sources'[x] : <<g.src, x>> \in Pairs
    BY <1>1, <1>2, <1>9, <2>1, OthersUndisturbed
  <2>9. sources'[op[t].b] = {}
    BY <1>1, <1>9 DEF b
  <2>10. WorkInv'
    BY <1>1, <1>5, <1>6, <2>8, <2>9 DEF WorkInv, Threads
  <2>11. PairsInv'
    BY <1>1, <1>5, <1>6, <2>8 DEF ElementInv, PairsInv, Threads
  <2> QED
    BY <2>10, <2>11
<1> QED
  BY <1>7, <1>8, <1>10 DEF ElementInv

(* disconnect with both mutexes. *)
LEMMA EraseStep ==
  ASSUME ElementInv, Undisputed, NEW t \in Clients, DisconnectErase(t)
  PROVE  ElementInv'
<1> DEFINE a == op[t].a
           b == op[t].b
           d == op[t].d
<1>1. t \in Threads /\ b \in Elements /\ d \in Descs /\ \A e \in Elements : e # t
  BY ElementAssumption DEF ElementInv, TypeOK, Threads, Op
<1>2. CanLock(t, <<a, "sinks">>) /\ Detach(a, b, d) /\ Finish(t) /\ DetachFrame
  BY DEF DisconnectErase
<1>3. CASE sources[b] = {}
  <2>1. UNCHANGED <<conns, padv>>
    BY <1>2, <1>3, NothingToDetach DEF DetachFrame, padv
  <2>2. TypeOK'
    BY <1>2, <2>1, FinishFacts DEF ElementInv, TypeOK, conns, padv
  <2>3. WorkInv' /\ PairsInv'
    <3> HIDE DEF a, b, d
    <3>1. /\ todo' = todo /\ pc'[t] = "idle"
          /\ \A u \in Threads \ {t} : pc'[u] = pc[u] /\ op'[u] = op[u]
      BY <1>2, FinishFacts
    <3> QED
      BY <1>1, <2>1, <3>1 DEF ElementInv, WorkInv, PairsInv, Threads, conns
  <2> QED
    BY <1>2, <2>1, <2>2, <2>3, FinishFacts, SameConns DEF ElementInv
<1>4. CASE sources[b] # {}
  <2>1. PICK c \in sources[b] : TRUE
    BY <1>4
  <2>2. c.src = a
    BY DEF DisconnectErase, ElementInv, WorkInv
  <2>3. Detached(c)
    BY <1>1, <1>2, <2>2, DetachTakes
  <2>4. CanLock(t, <<b, "sources">>) /\ CanLock(t, <<c.src, "sinks">>)
    BY <1>2, <2>2 DEF CanLock, DisconnectErase, ElementInv, LockInv
  <2>5. TypeOK' /\ ConnInv'
    BY <1>1, <1>2, <2>3, DetachedKeeps, FinishFacts DEF ElementInv, TypeOK, DetachFrame
  <2>6. /\ \A x \in Elements : sources'[x] = IF x = b THEN {} ELSE sources[x]
        /\ \A x \in Elements : sinks'[x] = IF x = c.src THEN sinks[x] \ {c} ELSE sinks[x]
    BY <1>1, <1>2, <2>3, DetachedKeeps
  <2>7. WorkInv' /\ PairsInv'
    <3> HIDE DEF a, b, d
    <3>8. /\ \A u \in Clients :
               /\ pc[u] = "insert" => sources'[op[u].b] = {}
               /\ pc[u] \in {"disconnect", "disconnect_locked"} =>
                    \A g \in sources'[op[u].b] : g.src = op[u].a
          /\ \A f \in Elements \ {t} :
               /\ pc[f] = "sinks_locked" => todo[f] \subseteq sinks'[f]
               /\ pc[f] = "sources_locked" => todo[f] \subseteq sources'[f]
          /\ \A x \in Elements : \A g \in sources'[x] : <<g.src, x>> \in Pairs
      BY <1>1, <2>4, <2>6, OthersUndisturbed
    <3>9. /\ todo' = todo /\ pc'[t] = "idle"
          /\ \A u \in Threads \ {t} : pc'[u] = pc[u] /\ op'[u] = op[u]
      BY <1>2, FinishFacts
    <3>10. WorkInv'
      BY <1>1, <3>8, <3>9 DEF WorkInv, Threads
    <3>11. PairsInv'
      BY <1>1, <3>8, <3>9 DEF ElementInv, PairsInv, Threads
    <3> QED
      BY <3>10, <3>11
  <2> QED
    BY <1>2, <2>5, <2>7, FinishFacts DEF ElementInv
<1> QED
  BY <1>3, <1>4

(* A worker disconnects one connection of its snapshot, which is still in both maps. *)
LEMMA DisconnectOneStep ==
  ASSUME ElementInv, Undisputed, NEW e \in Elements, DisconnectOne(e)
  PROVE  ElementInv'
<1>1. e \in Threads /\ \A t \in Clients : t # e
  BY ElementAssumption DEF Threads
<1>2. PICK c \in todo[e] : /\ CanLock(e, OtherLock(e, c)) /\ Detach(c.src, c.snk, c.desc)
                           /\ todo' = [todo EXCEPT ![e] = @ \ {c}]
  BY DEF DisconnectOne
<1>3. UNCHANGED <<owner, pc, op, ops>> /\ DetachFrame
  BY DEF DisconnectOne
<1>4. c \in Conn /\ c.snk \in Elements /\ c.desc \in Descs
  BY DEF ElementInv, TypeOK, Conn
<1>5. /\ c \in sources[c.snk]
      /\ CanLock(e, <<c.snk, "sources">>) /\ CanLock(e, <<c.src, "sinks">>)
  <2>1. CASE pc[e] = "sinks_locked"
    <3>1. c \in sinks[e] /\ owner[<<e, "sinks">>] = e
      BY <2>1 DEF ElementInv, LockInv, WorkInv
    <3>2. c.src = e /\ c \in sources[c.snk]
      BY <3>1 DEF ElementInv, ConnInv, MapsAgree
    <3> QED
      BY <1>2, <2>1, <3>1, <3>2 DEF OtherLock, CanLock
  <2>2. CASE pc[e] = "sources_locked"
    <3>1. c \in sources[e] /\ owner[<<e, "sources">>] = e
      BY <2>2 DEF ElementInv, LockInv, WorkInv
    <3>2. c.snk = e
      BY <3>1 DEF ElementInv, ConnInv, MapsAgree
    <3> QED
      BY <1>2, <2>2, <3>1, <3>2 DEF OtherLock, CanLock
  <2> QED
    BY <2>1, <2>2 DEF DisconnectOne
<1>6. Detached(c)
  BY <1>2, <1>4, <1>5, DetachTakes
<1>7. /\ todo' \in [Elements -> SUBSET Conn] /\ todo'[e] = todo[e] \ {c}
      /\ \A f \in Elements \ {e} : todo'[f] = todo[f]
  BY <1>2 DEF ElementInv, TypeOK
<1>8. TypeOK' /\ ConnInv'
  BY <1>3, <1>4, <1>5, <1>6, <1>7, DetachedKeeps DEF ElementInv, TypeOK, DetachFrame
<1>9. /\ \A x \in Elements : sources'[x] = IF x = c.snk THEN {} ELSE sources[x]
      /\ \A x \in Elements : sinks'[x] = IF x = c.src THEN sinks[x] \ {c} ELSE sinks[x]
  BY <1>3, <1>4, <1>5, <1>6, DetachedKeeps
<1>10. LockInv'
  BY <1>3 DEF ElementInv, LockInv
<1>11. /\ pc[e] = "sinks_locked" => todo'[e] \subseteq sinks'[e]
       /\ pc[e] = "sources_locked" => todo'[e] \subseteq sources'[e]
  <2>1. sources[c.snk] = {c}
    BY <1>4, <1>5 DEF ElementInv, TypeOK
  <2> QED
    BY <1>7, <1>9, <2>1 DEF ElementInv, WorkInv
<1>12. WorkInv' /\ PairsInv'
  <2>8. /\ \A u \in Clients :
             /\ pc[u] = "insert" => sources'[op[u].b] = {}
             /\ pc[u] \in {"disconnect", "disconnect_locked"} =>
                  \A g \in sources'[op[u].b] : g.src = op[u].a
        /\ \A f \in Elements \ {e} :
             /\ pc[f] = "sinks_locked" => todo[f] \subseteq sinks'[f]
             /\ pc[f] = "sources_locked" => todo[f] \subseteq sources'[f]
        /\ \A x \in Elements : \A g \in sources'[x] : <<g.src, x>> \in Pairs
    BY <1>1, <1>4, <1>5, <1>9, OthersUndisturbed
  <2>9. WorkInv'
    BY <1>3, <1>7, <1>11, <2>8 DEF WorkInv
  <2>10. PairsInv'
    BY <1>3, <2>8 DEF ElementInv, PairsInv
  <2> QED
    BY <2>9, <2>10
<1> QED
  BY <1>8, <1>10, <1>12 DEF ElementInv

-----------------------------------------------------------------------------
(* Steps that connect and link.                                            *)

(* The end of connect, by the owner of both mutexes. *)
LEMMA InsertStep ==
  ASSUME ElementInv, Undisputed, NEW t \in Clients, ConnectInsert(t)
  PROVE  ElementInv'
<1> DEFINE a == op[t].a
           b == op[t].b
           d == op[t].d
           k == padCount[a][d]
           c == [src |-> a, snk |-> b, desc |-> d, n |-> k]
           p == PadOf(c)
<1>1. t \in Threads /\ a \in Elements /\ b \in Elements /\ d \in Descs /\ \A e \in Elements : e # t
  BY ElementAssumption DEF ElementInv, TypeOK, Threads, Op
<1>2. k \in 0..MaxConnects /\ k < MaxConnects /\ k + 1 \in 0..MaxConnects
  BY <1>1, ElementAssumption DEF ElementInv, TypeOK, ConnectInsert
<1>3. c \in Conn /\ c.src = a /\ c.snk = b /\ c.desc = d /\ c.n = k /\ p = <<a, d, k>> /\ p \in Pad
  BY <1>1, <1>2 DEF Conn, PadOf, Pad
<1>4. /\ padCount' = [padCount EXCEPT ![a][d] = @ + 1]
      /\ IF <<a, d>> \in output THEN pads' = pads \cup {p} /\ UNCHANGED pending
         ELSE pending' = pending \cup {p} /\ UNCHANGED pads
      /\ sinks' = [sinks EXCEPT ![a] = @ \cup {c}]
      /\ sources' = [sources EXCEPT ![b] = {c}]
      /\ PerformConnection(c, pads') /\ Finish(t)
      /\ UNCHANGED <<output, sinkPads, added, sinkAdded>>
  BY DEF ConnectInsert
<1>5. sources[b] = {} /\ <<a, b>> \in Pairs
        /\ owner[<<a, "sinks">>] = t /\ owner[<<b, "sources">>] = t
  BY DEF ConnectInsert, ElementInv, WorkInv, PairsInv, LockInv
<1>6. p \notin pads /\ p \notin pending
  BY <1>2, <1>3 DEF ElementInv, ConnInv, PadInv
<1>7. link' = IF p \in pads' /\ b \in sinkPads THEN link \cup {<<p, b>>} ELSE link
  <2>1. ~LinkedTo(b)
    BY <1>5 DEF LinkedTo, ElementInv, ConnInv, LinkInv
  <2>2. ~\E l \in link : l[1] = p
    BY <1>6 DEF ElementInv, ConnInv, LinkInv
  <2> QED
    BY <1>3, <1>4, <2>1, <2>2 DEF PerformConnection
<1> HIDE DEF c, p, k
<1>8. /\ padCount' \in [Elements -> [Descs -> 0..MaxConnects]]
      /\ padCount'[a][d] = k + 1
      /\ \A x \in Elements, y \in Descs : padCount[x][y] <= padCount'[x][y]
  <2>1. padCount \in [Elements -> [Descs -> 0..MaxConnects]]
    BY DEF ElementInv, TypeOK
  <2> QED
    BY <1>1, <1>2, <1>4, <2>1 DEF k
<1>9. /\ sources' \in [Elements -> SUBSET Conn] /\ sinks' \in [Elements -> SUBSET Conn]
      /\ \A x \in Elements : sources'[x] = IF x = b THEN {c} ELSE sources[x]
      /\ \A x \in Elements : sinks'[x] = IF x = a THEN sinks[x] \cup {c} ELSE sinks[x]
  <2>1. sources \in [Elements -> SUBSET Conn] /\ sinks \in [Elements -> SUBSET Conn]
    BY DEF ElementInv, TypeOK
  <2>2. sources' \in [Elements -> SUBSET Conn]
          /\ \A x \in Elements : sources'[x] = IF x = b THEN {c} ELSE sources[x]
    BY <1>1, <1>3, <1>4, <2>1
  <2>3. sinks' \in [Elements -> SUBSET Conn]
          /\ \A x \in Elements : sinks'[x] = IF x = a THEN sinks[x] \cup {c} ELSE sinks[x]
    BY <1>1, <1>3, <1>4, <2>1
  <2> QED
    BY <2>2, <2>3
<1>10. /\ pending' \in SUBSET Pad /\ pads' \in SUBSET Pad /\ link' \in SUBSET (Pad \X Elements)
       /\ pending' \subseteq pending \cup {p} /\ pads' \subseteq pads \cup {p} /\ pads \subseteq pads'
       /\ pending' \cap pads' = {}
  <2>1. pending \in SUBSET Pad /\ pads \in SUBSET Pad /\ link \in SUBSET (Pad \X Elements)
          /\ pending \cap pads = {}
    BY DEF ElementInv, TypeOK, ConnInv, PadInv
  <2> QED
    BY <1>1, <1>3, <1>4, <1>6, <1>7, <2>1
<1>11. TypeOK'
  <2>1. \A x \in Elements : \A e, g \in sources'[x] : e = g
    BY <1>9 DEF ElementInv, TypeOK
  <2> QED
    BY <1>4, <1>8, <1>9, <1>10, <2>1, FinishFacts DEF ElementInv, TypeOK
<1>12. MapsAgree'
  <2>1. ASSUME NEW x \in Elements, NEW e \in sources'[x]
        PROVE  e.snk = x /\ e \in sinks'[e.src]
    <3>1. CASE x = b
      BY <1>1, <1>3, <1>9, <3>1
    <3>2. CASE x # b
      <4>1. e \in sources[x]
        BY <1>9, <3>2
      <4>2. e.snk = x /\ e \in sinks[e.src] /\ e.src \in Elements
        BY <4>1, OneSource
      <4> QED
        BY <1>9, <4>2
    <3> QED
      BY <3>1, <3>2
  <2>2. ASSUME NEW x \in Elements, NEW e \in sinks'[x]
        PROVE  e.src = x /\ e \in sources'[e.snk]
    <3>1. CASE e \in sinks[x]
      <4>1. e.src = x /\ e \in sources[e.snk] /\ e.snk \in Elements
        BY <3>1 DEF ElementInv, TypeOK, ConnInv, MapsAgree, Conn
      <4>2. e.snk # b
        BY <1>5, <4>1
      <4> QED
        BY <1>9, <4>1, <4>2
    <3>2. CASE e \notin sinks[x]
      BY <1>1, <1>3, <1>9, <3>2
    <3> QED
      BY <3>1, <3>2
  <2> QED
    BY <2>1, <2>2 DEF MapsAgree
<1>13. PadInv'
  <2>1. ASSUME NEW x \in Elements, NEW e \in sinks'[x]
        PROVE  e.n < padCount'[x][e.desc]
    <3>1. CASE e \in sinks[x]
      <4>1. e.n \in 0..MaxConnects /\ e.desc \in Descs /\ e.n < padCount[x][e.desc]
        BY <3>1 DEF ElementInv, TypeOK, Conn, ConnInv, PadInv
      <4>2. padCount[x][e.desc] \in 0..MaxConnects /\ padCount'[x][e.desc] \in 0..MaxConnects
        BY <1>8, <4>1 DEF ElementInv, TypeOK
      <4> QED
        BY <1>8, <4>1, <4>2
    <3>2. CASE e \notin sinks[x]
      BY <1>1, <1>2, <1>3, <1>8, <1>9, <3>2
    <3> QED
      BY <3>1, <3>2
  <2>2. ASSUME NEW x \in Elements, NEW e \in sinks[x]
        PROVE  PadOf(e) # p
    <3>1. e \in Conn /\ e.src = x /\ e.n < padCount[x][e.desc]
      BY DEF ElementInv, TypeOK, ConnInv, MapsAgree, PadInv
    <3> QED
      BY <1>2, <1>3, <3>1 DEF PadOf, Conn, k
  <2>3. ASSUME NEW x \in Elements, NEW e \in sinks'[x], NEW g \in sinks'[x], PadOf(e) = PadOf(g)
        PROVE  e = g
    BY <1>9, <2>2, <2>3 DEF ElementInv, ConnInv, PadInv, p
  <2>4. ASSUME NEW q \in pending' \cup pads'
        PROVE  q[3] < padCount'[q[1]][q[2]]
    <3>1. CASE q = p
      BY <1>2, <1>3, <1>8, <3>1
    <3>2. CASE q # p
      <4>1. q \in pending \cup pads /\ q \in Pad
        BY <1>10, <3>2 DEF ElementInv, TypeOK
      <4>2. q[1] \in Elements /\ q[2] \in Descs /\ q[3] \in 0..MaxConnects
        BY <4>1 DEF Pad
      <4>3. q[3] < padCount[q[1]][q[2]]
        BY <4>1 DEF ElementInv, ConnInv, PadInv
      <4>4. padCount[q[1]][q[2]] \in 0..MaxConnects /\ padCount'[q[1]][q[2]] \in 0..MaxConnects
        BY <1>8, <4>2 DEF ElementInv, TypeOK
      <4> QED
        BY <1>8, <4>2, <4>3, <4>4
    <3> QED
      BY <3>1, <3>2
  <2> QED
    BY <1>10, <2>1, <2>3, <2>4 DEF PadInv
<1>14. LinkInv'
  <2>1. ASSUME NEW l \in link'
        PROVE  l[1] \in pads' /\ \E e \in sources'[l[2]] : PadOf(e) = l[1]
    <3>1. CASE l \in link
      <4>1. l[1] \in pads /\ l[2] \in Elements /\ \E e \in sources[l[2]] : PadOf(e) = l[1]
        BY <3>1 DEF ElementInv, TypeOK, ConnInv, LinkInv
      <4>2. l[2] # b
        BY <1>5, <4>1
      <4> QED
        BY <1>9, <1>10, <4>1, <4>2
    <3>2. CASE l \notin link
      BY <1>1, <1>7, <1>9, <3>2 DEF p
    <3> QED
      BY <3>1, <3>2
  <2> QED
    BY <2>1 DEF LinkInv
<1>15. LinksFollow'
  <2>1. ASSUME NEW x \in sinkPads \ sinkAdded, NEW e \in sources'[x], PadOf(e) \in pads' \ added
        PROVE  <<PadOf(e), x>> \in link'
    <3>1. x \in Elements /\ link \subseteq link'
      BY <1>7 DEF ElementInv, TypeOK
    <3>2. CASE x = b
      BY <1>1, <1>7, <1>9, <2>1, <3>2 DEF p
    <3>3. CASE x # b
      <4>1. e \in sources[x]
        BY <1>9, <3>1, <3>3
      <4>2. PadOf(e) # p
        <5>1. PadOf(e) = <<e.src, e.desc, e.n>> /\ e \in sinks[e.src] /\ e \in Conn /\ e.src \in Elements
          BY <3>1, <4>1, OneSource DEF PadOf
        <5>2. e.n < padCount[e.src][e.desc]
          BY <5>1 DEF ElementInv, ConnInv, PadInv
        <5> QED
          BY <1>2, <1>3, <5>1, <5>2 DEF k, Conn
      <4>3. PadOf(e) \in pads \ added
        BY <1>10, <2>1, <4>2
      <4>4. <<PadOf(e), x>> \in link
        BY <4>1, <4>3 DEF ElementInv, ConnInv, LinksFollow
      <4> QED
        BY <3>1, <4>4
    <3> QED
      BY <3>2, <3>3
  <2> QED
    BY <1>4, <2>1 DEF LinksFollow
<1>16. /\ todo' = todo /\ pc'[t] = "idle" /\ LockInv'
       /\ \A u \in Threads \ {t} : pc'[u] = pc[u] /\ op'[u] = op[u]
  BY <1>4, FinishFacts
<1>17. PairsInv'
  <2>1. ASSUME NEW x \in Elements, NEW e \in sources'[x]
        PROVE  <<e.src, x>> \in Pairs
    <3>1. CASE x = b
      <4>1. e = c
        BY <1>9, <3>1
      <4>2. <<c.src, b>> \in Pairs
        BY <1>3, <1>5
      <4> QED
        BY <3>1, <4>1, <4>2
    <3>2. CASE x # b
      BY <1>9, <3>2 DEF ElementInv, PairsInv
    <3> QED
      BY <3>1, <3>2
  <2> QED
    BY <1>16, <2>1 DEF ElementInv, PairsInv, Threads
<1>18. WorkInv'
  <2>1. ASSUME NEW u \in Clients
        PROVE  /\ pc'[u] = "insert" => sources'[op'[u].b] = {}
               /\ pc'[u] \in {"disconnect", "disconnect_locked"} =>
                    \A e \in sources'[op'[u].b] : e.src = op'[u].a
    <3>1. CASE u = t
      BY <1>16, <3>1
    <3>2. CASE u # t
      <4>1. u \in Threads /\ pc'[u] = pc[u] /\ op'[u] = op[u] /\ op[u].b \in Elements
        BY <1>16, <3>2 DEF Threads, ElementInv, TypeOK, Op
      <4>2. pc[u] = "insert" => op[u].b # b
        BY <1>5, <3>2 DEF ElementInv, LockInv
      <4>3. pc[u] \in {"disconnect", "disconnect_locked"} /\ op[u].b = b => op[u].a = a
        <5>1. CASE \A v, w \in Clients : v = w
          BY <3>2, <5>1
        <5>2. CASE \A q, r \in Pairs : q[2] = r[2] => q[1] = r[1]
          BY <1>5, <5>2 DEF ElementInv, PairsInv
        <5> QED
          BY <5>1, <5>2 DEF Undisputed
      <4> QED
        BY <1>3, <1>9, <4>1, <4>2, <4>3 DEF ElementInv, WorkInv
    <3> QED
      BY <3>1, <3>2
  <2>2. ASSUME NEW e \in Elements
        PROVE  /\ pc'[e] = "sinks_locked" => todo'[e] \subseteq sinks'[e]
               /\ pc'[e] = "sources_locked" => todo'[e] \subseteq sources'[e]
    <3>1. e \in Threads \ {t}
      BY <1>1 DEF Threads
    <3>2. sinks[e] \subseteq sinks'[e] /\ sources[e] \subseteq sources'[e]
      BY <1>5, <1>9
    <3> QED
      BY <1>16, <3>1, <3>2 DEF ElementInv, WorkInv
  <2> QED
    BY <2>1, <2>2 DEF WorkInv
<1> QED
  BY <1>11, <1>12, <1>13, <1>14, <1>15, <1>16, <1>17, <1>18 DEF ElementInv, ConnInv

-----------------------------------------------------------------------------
(* GStreamer threads.                                                      *)

(* What performConnection does to a connection that feeds its sink: the pads are linked as soon
   as both exist, because no other connection can hold either of them. *)
LEMMA PerformLinks ==
  ASSUME ElementInv, Undisputed, NEW b \in Elements, NEW c \in sources[b],
         PerformConnection(c, pads)
  PROVE  /\ link \subseteq link' /\ link' \subseteq link \cup {<<PadOf(c), b>>}
         /\ PadOf(c) \in pads /\ b \in sinkPads => <<PadOf(c), b>> \in link'
         /\ link' # link => PadOf(c) \in pads
<1> USE OneSource
<1>1. /\ link \subseteq link' /\ link' \subseteq link \cup {<<PadOf(c), b>>}
      /\ link' # link => PadOf(c) \in pads
  BY DEF PerformConnection
<1>2. ASSUME NEW l \in link, l[2] = b \/ l[1] = PadOf(c)
      PROVE  l = <<PadOf(c), b>>
  <2>1. l \in Pad \X Elements /\ l = <<l[1], l[2]>> /\ l[2] \in Elements
    BY DEF ElementInv, TypeOK
  <2>2. PICK e \in sources[l[2]] : PadOf(e) = l[1]
    BY DEF ElementInv, ConnInv, LinkInv
  <2>3. e \in sinks[e.src] /\ e.src \in Elements /\ e.snk = l[2] /\ PadOf(e)[1] = e.src
    BY <2>1, <2>2 DEF PadOf
  <2>4. e = c
    <3>1. CASE l[2] = b
      BY <2>2, <3>1
    <3>2. CASE l[1] = PadOf(c)
      <4>1. PadOf(e) = PadOf(c) /\ PadOf(c)[1] = c.src
        BY <2>2, <3>2 DEF PadOf
      <4>2. e.src = c.src
        BY <2>3, <4>1
      <4> QED
        BY <2>3, <4>1, <4>2 DEF ElementInv, ConnInv, PadInv
    <3> QED
      BY <1>2, <3>1, <3>2
  <2> QED
    BY <2>1, <2>2, <2>3, <2>4
<1>3. PadOf(c) \in pads /\ b \in sinkPads => <<PadOf(c), b>> \in link'
  BY <1>2 DEF PerformConnection, LinkedTo
<1> QED
  BY <1>1, <1>3

(* A step that leaves the maps, the threads and the pads' numbers alone and keeps the links
   right keeps the invariant. *)
LEMMA PadSteps ==
  ASSUME ElementInv, UNCHANGED <<conns, thread, padCount>>,
         output' \in SUBSET (Elements \X Descs),
         pending' \subseteq pending, pads' \subseteq pads \cup pending,
         pending' \cap pads' = {},
         added' \in SUBSET Pad, sinkPads' \in SUBSET Elements, sinkAdded' \in SUBSET Elements,
         link' \in SUBSET (Pad \X Elements), LinkInv', LinksFollow'
  PROVE  ElementInv'
<1>1. /\ sources' = sources /\ sinks' = sinks /\ owner' = owner /\ pc' = pc /\ op' = op
      /\ todo' = todo /\ ops' = ops /\ padCount' = padCount
  BY DEF conns, thread
<1>2. TypeOK'
  <2>1. pending' \in SUBSET Pad /\ pads' \in SUBSET Pad
    BY DEF ElementInv, TypeOK
  <2> QED
    BY <1>1, <2>1 DEF ElementInv, TypeOK
<1>3. LockInv' /\ WorkInv' /\ PairsInv' /\ MapsAgree'
  BY <1>1 DEF ElementInv, ConnInv, LockInv, WorkInv, PairsInv, MapsAgree
<1>4. PadInv'
  BY <1>1 DEF ElementInv, ConnInv, PadInv
<1> QED
  BY <1>2, <1>3, <1>4 DEF ElementInv, ConnInv

(* kms_element_get_output_element: a created pad waits for its callback before it must be
   linked. *)
LEMMA OutputStep ==
  ASSUME ElementInv, NEW a \in Elements, NEW d \in Descs, OutputElement(a, d)
  PROVE  ElementInv'
<1> DEFINE created == {p \in pending : p[1] = a /\ p[2] = d}
<1>1. /\ output' = output \cup {<<a, d>>} /\ pending' = pending \ created
      /\ pads' = pads \cup created /\ added' = added \cup created
      /\ UNCHANGED <<conns, thread, padCount, sinkPads, link, sinkAdded>>
  BY DEF OutputElement
<1>2. created \subseteq pending /\ pending \in SUBSET Pad /\ pending \cap pads = {}
  BY DEF ElementInv, TypeOK, ConnInv, PadInv
<1> HIDE DEF created
<1>3. /\ output' \in SUBSET (Elements \X Descs) /\ pending' \subseteq pending
      /\ pads' \subseteq pads \cup pending /\ pending' \cap pads' = {} /\ added' \in SUBSET Pad
      /\ sinkPads' \in SUBSET Elements /\ sinkAdded' \in SUBSET Elements
      /\ link' \in SUBSET (Pad \X Elements)
  BY <1>1, <1>2 DEF ElementInv, TypeOK
<1>4. sources' = sources /\ link' = link /\ sinkPads' = sinkPads /\ sinkAdded' = sinkAdded
        /\ pads' \ added' \subseteq pads \ added /\ pads \subseteq pads'
  BY <1>1 DEF conns
<1>5. LinkInv' /\ LinksFollow'
  BY <1>4 DEF ElementInv, ConnInv, LinkInv, LinksFollow
<1> QED
  BY <1>1, <1>3, <1>5, PadSteps

(* The pad-added callback of a source pad links the connection that asked for the pad, if it
   is still there. *)
LEMMA PadAddedStep ==
  ASSUME ElementInv, Undisputed, NEW p \in added, PadAdded(p)
  PROVE  ElementInv'
<1>1. /\ added' = added \ {p}
      /\ UNCHANGED <<conns, thread, output, padCount, pending, pads, sinkPads, sinkAdded>>
  BY DEF PadAdded
<1>2. /\ sources' = sources /\ output' = output /\ pending' = pending /\ pads' = pads
      /\ sinkPads' = sinkPads /\ sinkAdded' = sinkAdded
  BY <1>1 DEF conns
<1>3. /\ p \in Pad /\ p[1] \in Elements
      /\ output \in SUBSET (Elements \X Descs) /\ added' \in SUBSET Pad
      /\ sinkPads \in SUBSET Elements /\ sinkAdded \in SUBSET Elements
      /\ link \in SUBSET (Pad \X Elements) /\ pending \cap pads = {}
  BY <1>1 DEF ElementInv, TypeOK, Pad, ConnInv, PadInv
<1>4. /\ link' \in SUBSET (Pad \X Elements) /\ LinkInv' /\ link \subseteq link'
      /\ \A x \in sinkPads : \A e \in sources[x] : PadOf(e) = p /\ p \in pads => <<p, x>> \in link'
  <2>1. ASSUME NEW x \in Elements, NEW e \in sources[x], PadOf(e) = p
        PROVE  e \in sinks[p[1]]
    <3>1. e \in sinks[e.src] /\ e.src = PadOf(e)[1]
      BY OneSource DEF PadOf
    <3> QED
      BY <2>1, <3>1
  <2>2. CASE ~\E c \in sinks[p[1]] : PadOf(c) = p
    <3>1. link' = link
      BY <2>2 DEF PadAdded
    <3> QED
      BY <1>2, <1>3, <2>1, <2>2, <3>1 DEF ElementInv, ConnInv, LinkInv
  <2>3. CASE \E c \in sinks[p[1]] : PadOf(c) = p
    <3>1. PICK c \in sinks[p[1]] : PadOf(c) = p /\ PerformConnection(c, pads)
      BY <2>3 DEF PadAdded
    <3>2. c \in Conn /\ c.snk \in Elements /\ c \in sources[c.snk]
      BY <1>3 DEF ElementInv, TypeOK, Conn, ConnInv, MapsAgree
    <3>3. /\ link \subseteq link' /\ link' \subseteq link \cup {<<p, c.snk>>}
          /\ p \in pads /\ c.snk \in sinkPads => <<p, c.snk>> \in link'
          /\ link' # link => p \in pads
      BY <3>1, <3>2, PerformLinks
    <3>4. ASSUME NEW x \in sinkPads, NEW e \in sources[x], PadOf(e) = p
          PROVE  e = c /\ x = c.snk
      <4>1. x \in Elements /\ e \in sinks[p[1]]
        BY <1>3, <2>1, <3>4
      <4>2. e = c
        BY <1>3, <3>1, <3>4, <4>1 DEF ElementInv, ConnInv, PadInv
      <4> QED
        BY <4>1, <4>2, OneSource
    <3>5. LinkInv'
      <4>1. ASSUME NEW l \in link'
            PROVE  l[1] \in pads /\ \E e \in sources[l[2]] : PadOf(e) = l[1]
        <5>1. CASE l \in link
          BY <5>1 DEF ElementInv, ConnInv, LinkInv
        <5>2. CASE l \notin link
          BY <3>1, <3>2, <3>3, <5>2
        <5> QED
          BY <5>1, <5>2
      <4> QED
        BY <1>2, <4>1 DEF LinkInv
    <3> QED
      BY <1>3, <3>2, <3>3, <3>4, <3>5
  <2> QED
    BY <2>2, <2>3
<1>5. LinksFollow'
  <2>1. ASSUME NEW x \in sinkPads \ sinkAdded, NEW e \in sources[x], PadOf(e) \in pads \ added'
        PROVE  <<PadOf(e), x>> \in link'
    <3>1. CASE PadOf(e) = p
      BY <1>4, <2>1, <3>1
    <3>2. CASE PadOf(e) # p
      BY <1>1, <1>4, <2>1, <3>2 DEF ElementInv, ConnInv, LinksFollow
    <3> QED
      BY <3>1, <3>2
  <2> QED
    BY <1>2, <2>1 DEF LinksFollow
<1> QED
  BY <1>1, <1>2, <1>3, <1>4, <1>5, PadSteps

(* A sink pad appears and goes: it need not be linked until its callback has run. *)
LEMMA SinkSteps ==
  ASSUME ElementInv, NEW b \in Elements, SinkTarget(b) \/ RemoveSink(b)
  PROVE  ElementInv'
<1>1. /\ UNCHANGED <<conns, thread, padCount>> /\ sources' = sources
      /\ output' = output /\ pending' = pending /\ pads' = pads /\ added' = added
      /\ sinkPads' \ sinkAdded' \subseteq sinkPads \ sinkAdded
      /\ sinkPads' \in SUBSET Elements /\ sinkAdded' \in SUBSET Elements
      /\ link' \subseteq link
      /\ \A l \in link : l[2] \in sinkPads' => l \in link'
  <2>1. CASE SinkTarget(b)
    BY <2>1 DEF SinkTarget, conns, ElementInv, TypeOK
  <2>2. CASE RemoveSink(b)
    BY <2>2 DEF RemoveSink, conns, ElementInv, TypeOK
  <2> QED
    BY <2>1, <2>2
<1>2. LinkInv' /\ link' \in SUBSET (Pad \X Elements)
  BY <1>1 DEF ElementInv, TypeOK, ConnInv, LinkInv
<1>3. LinksFollow'
  <2>1. ASSUME NEW x \in sinkPads' \ sinkAdded', NEW e \in sources[x], PadOf(e) \in pads \ added
        PROVE  <<PadOf(e), x>> \in link'
    <3>1. <<PadOf(e), x>> \in link
      BY <1>1, <2>1 DEF ElementInv, ConnInv, LinksFollow
    <3>2. <<PadOf(e), x>>[2] \in sinkPads'
      BY <2>1
    <3> QED
      BY <1>1, <3>1, <3>2
  <2> QED
    BY <1>1, <2>1 DEF LinksFollow
<1>4. output \in SUBSET (Elements \X Descs) /\ added \in SUBSET Pad /\ pending \cap pads = {}
  BY DEF ElementInv, TypeOK, ConnInv, PadInv
<1> QED
  BY <1>1, <1>2, <1>3, <1>4, PadSteps

(* The pad-added callback of a sink pad links the connection that feeds the element. *)
LEMMA SinkPadAddedStep ==
  ASSUME ElementInv, Undisputed, NEW b \in Elements, SinkPadAdded(b)
  PROVE  ElementInv'
<1>1. /\ sinkAdded' = sinkAdded \ {b} /\ UNCHANGED <<conns, thread, padCount>>
      /\ sources' = sources /\ output' = output /\ pending' = pending /\ pads' = pads
      /\ sinkPads' = sinkPads /\ added' = added
  BY DEF SinkPadAdded, conns
<1>2. /\ output \in SUBSET (Elements \X Descs) /\ added \in SUBSET Pad
      /\ sinkPads \in SUBSET Elements /\ sinkAdded' \in SUBSET Elements
      /\ link \in SUBSET (Pad \X Elements) /\ pending \cap pads = {}
  BY <1>1 DEF ElementInv, TypeOK, ConnInv, PadInv
<1>3. /\ link' \in SUBSET (Pad \X Elements) /\ LinkInv' /\ link \subseteq link'
      /\ \A e \in sources[b] : PadOf(e) \in pads /\ b \in sinkPads => <<PadOf(e), b>> \in link'
  <2>1. CASE sources[b] = {}
    <3>1. link' = link
      BY <2>1 DEF SinkPadAdded
    <3> QED
      BY <1>1, <1>2, <2>1, <3>1 DEF ElementInv, ConnInv, LinkInv
  <2>2. CASE sources[b] # {}
    <3>1. PICK c \in sources[b] : PerformConnection(c, pads)
      BY <2>2 DEF SinkPadAdded
    <3>2. sources[b] = {c} /\ PadOf(c) \in Pad
      BY <3>1, OneSource
    <3>3. /\ link \subseteq link' /\ link' \subseteq link \cup {<<PadOf(c), b>>}
          /\ PadOf(c) \in pads /\ b \in sinkPads => <<PadOf(c), b>> \in link'
          /\ link' # link => PadOf(c) \in pads
      BY <3>1, PerformLinks
    <3>4. LinkInv'
      <4>1. ASSUME NEW l \in link'
            PROVE  l[1] \in pads /\ \E e \in sources[l[2]] : PadOf(e) = l[1]
        <5>1. CASE l \in link
          BY <5>1 DEF ElementInv, ConnInv, LinkInv
        <5>2. CASE l \notin link
          BY <3>2, <3>3, <5>2
        <5> QED
          BY <5>1, <5>2
      <4> QED
        BY <1>1, <4>1 DEF LinkInv
    <3> QED
      BY <1>2, <3>2, <3>3, <3>4
  <2> QED
    BY <2>1, <2>2
<1>4. LinksFollow'
  <2>1. ASSUME NEW x \in sinkPads \ sinkAdded', NEW e \in sources[x], PadOf(e) \in pads \ added
        PROVE  <<PadOf(e), x>> \in link'
    <3>1. CASE x = b
      BY <1>3, <2>1, <3>1
    <3>2. CASE x # b
      BY <1>1, <1>3, <2>1, <3>2 DEF ElementInv, ConnInv, LinksFollow
    <3> QED
      BY <3>1, <3>2
  <2> QED
    BY <1>1, <2>1 DEF LinksFollow
<1> QED
  BY <1>1, <1>2, <1>3, <1>4, PadSteps

-----------------------------------------------------------------------------
(* The invariant holds at the start: nothing is connected and nobody holds a mutex. *)
LEMMA ElementInvInit ==
  ASSUME Init
  PROVE  ElementInv
<1>1. Op # {} /\ NoOp \in Op
  <2>1. PICK e \in Elements, d \in Descs : TRUE
    BY ElementAssumption
  <2>2. [a |-> e, b |-> e, d |-> d] \in Op
    BY DEF Op
  <2> QED
    BY <2>2 DEF NoOp
<1>2. 0 \in 0..MaxConnects /\ "idle" \in Steps
  BY ElementAssumption DEF Steps
<1>3. TypeOK
  BY <1>1, <1>2 DEF Init, TypeOK
<1>4. LockInv /\ WorkInv /\ PairsInv
  BY DEF Init, LockInv, WorkInv, PairsInv, Threads
<1>5. ConnInv
  BY DEF Init, ConnInv, MapsAgree, PadInv, LinkInv, LinksFollow
<1> QED
  BY <1>3, <1>4, <1>5 DEF ElementInv

(* Every step of every thread keeps it. *)
LEMMA ElementInvStep ==
  ASSUME Undisputed, ElementInv, [Next]_vars
  PROVE  ElementInv'
<1>1. ASSUME NEW t \in Clients, ClientStep(t)
      PROVE  ElementInv'
  <2>1. CASE ConnectLockSinks(t) \/ ConnectLockSources(t) \/ DisconnectLockSources(t)
    BY <2>1, LockSteps
  <2>2. CASE ConnectReplace(t)
    BY <2>2, ReplaceStep
  <2>3. CASE ConnectInsert(t)
    BY <2>3, InsertStep
  <2>4. CASE ConnectRefused(t)
    BY <2>4, RefusedStep
  <2>5. CASE DisconnectErase(t)
    BY <2>5, EraseStep
  <2> QED
    BY <1>1, <2>1, <2>2, <2>3, <2>4, <2>5 DEF ClientStep
<1>2. ASSUME NEW e \in Elements, Release(e) \/ ReleaseStep(e)
      PROVE  ElementInv'
  <2>1. CASE DisconnectOne(e)
    BY <2>1, DisconnectOneStep
  <2>2. CASE ~DisconnectOne(e)
    <3>1. Release(e) \/ SinksLoop(e) \/ SourcesLoop(e) \/ RetryLater(e) \/ NextRound(e)
      BY <1>2, <2>2 DEF ReleaseStep
    <3> QED
      BY <3>1, WorkerSteps
  <2> QED
    BY <2>1, <2>2
<1>3. \A p \in Pairs : p[1] \in Elements /\ p[2] \in Elements
  BY ElementAssumption
<1>4. CASE UNCHANGED vars
  <2>1. /\ UNCHANGED <<conns, thread, padCount>>
        /\ sources' = sources /\ output' = output /\ pending' = pending /\ pads' = pads
        /\ sinkPads' = sinkPads /\ sinkAdded' = sinkAdded /\ added' = added /\ link' = link
    BY <1>4 DEF vars, padv, conns
  <2>2. LinkInv' /\ LinksFollow'
    BY <2>1 DEF ElementInv, ConnInv, LinkInv, LinksFollow
  <2>3. /\ output \in SUBSET (Elements \X Descs) /\ pending \cap pads = {}
        /\ added \in SUBSET Pad /\ sinkPads \in SUBSET Elements /\ sinkAdded \in SUBSET Elements
        /\ link \in SUBSET (Pad \X Elements)
    BY DEF ElementInv, TypeOK, ConnInv, PadInv
  <2> QED
    BY <2>1, <2>2, <2>3, PadSteps
<1>5. CASE \E t \in Clients, p \in Pairs, d \in Descs :
             Connect(t, p[1], p[2], d) \/ Disconnect(t, p[1], p[2], d)
  BY <1>5, StartSteps
<1>6. CASE \E p \in Pairs, d \in Descs : OutputElement(p[1], d)
  BY <1>3, <1>6, OutputStep
<1>7. CASE \E p \in added : PadAdded(p)
  BY <1>7, PadAddedStep
<1>8. CASE \E p \in Pairs : SinkTarget(p[2]) \/ RemoveSink(p[2]) \/ SinkPadAdded(p[2])
  <2>1. PICK p \in Pairs : SinkTarget(p[2]) \/ RemoveSink(p[2]) \/ SinkPadAdded(p[2])
    BY <1>8
  <2> QED
    BY <1>3, <2>1, SinkSteps, SinkPadAddedStep
<1> QED
  BY <1>1, <1>2, <1>4, <1>5, <1>6, <1>7, <1>8 DEF Next

(* The invariant of every behaviour. *)
LEMMA ElementInvHolds ==
  ASSUME Undisputed
  PROVE  Safety => []ElementInv
<1>1. Init => ElementInv
  BY ElementInvInit
<1>2. ElementInv /\ [Next]_vars => ElementInv'
  BY ElementInvStep
<1> QED
  BY <1>1, <1>2, PTL DEF Safety

(* The sinks map of every source and the sources map of every sink list the same connections,
   for any number of clients and elements, whenever and however often they connect, disconnect
   and release (MediaElementImpl::connect, disconnect, disconnectAll). *)
THEOREM MapsStayAgreed ==
  ASSUME Undisputed
  PROVE  Safety => []MapsAgree
<1>1. ElementInv => MapsAgree
  BY DEF ElementInv, ConnInv
<1> QED
  BY <1>1, ElementInvHolds, PTL

(* A connection whose pads exist is linked once their pad-added callbacks have run: no order of
   pads, callbacks, replaced sources and releases leaves it without media
   (MediaElementImpl::performConnection and _media_element_pad_added). *)
THEOREM LinksAlwaysFollow ==
  ASSUME Undisputed
  PROVE  Safety => []LinksFollow
<1>1. ElementInv => LinksFollow
  BY DEF ElementInv, ConnInv
<1> QED
  BY <1>1, ElementInvHolds, PTL

-----------------------------------------------------------------------------
(* Types, without any hypothesis about the clients.                        *)

(* disconnect, of whatever connection, takes things away. *)
LEMMA DetachShrinks ==
  ASSUME TypeOK, NEW a \in Elements, NEW b \in Elements, NEW d \in Descs, Detach(a, b, d)
  PROVE  /\ sources' \in [Elements -> SUBSET Conn] /\ sinks' \in [Elements -> SUBSET Conn]
         /\ \A x \in Elements : sources'[x] \subseteq sources[x]
         /\ pending' \subseteq pending /\ pads' \subseteq pads /\ link' \subseteq link
         /\ added' \subseteq added
<1>1. sources \in [Elements -> SUBSET Conn] /\ sinks \in [Elements -> SUBSET Conn]
  BY DEF TypeOK
<1>2. CASE sources[b] = {} /\ UNCHANGED <<conns, pending, pads, link, added>>
  BY <1>1, <1>2 DEF conns
<1>3. CASE ~(sources[b] = {} /\ UNCHANGED <<conns, pending, pads, link, added>>)
  <2>1. PICK c \in sources[b] :
          /\ sources' = IF c.desc = d THEN [sources EXCEPT ![b] = {}] ELSE sources
          /\ \/ /\ padCount[a][d] = 0
                /\ UNCHANGED <<sinks, pending, pads, link, added>>
             \/ /\ padCount[a][d] > 0
                /\ \/ Matching(a, b, d) = {} /\ UNCHANGED sinks
                   \/ \E e \in Matching(a, b, d) : sinks' = [sinks EXCEPT ![a] = @ \ {e}]
                /\ IF PadOf(c) \in pads THEN ReleaseRequestedPad(a, PadOf(c))
                   ELSE UNCHANGED <<pending, pads, link, added>>
    BY <1>3 DEF Detach
  <2>2. /\ sources' \in [Elements -> SUBSET Conn]
        /\ \A x \in Elements : sources'[x] \subseteq sources[x]
    BY <1>1, <2>1
  <2>3. sinks' \in [Elements -> SUBSET Conn]
    BY <1>1, <2>1
  <2>4. ReleaseRequestedPad(a, PadOf(c)) =>
          /\ pending' \subseteq pending /\ pads' \subseteq pads /\ link' \subseteq link
          /\ added' \subseteq added
    BY DEF ReleaseRequestedPad
  <2> QED
    BY <2>1, <2>2, <2>3, <2>4
<1> QED
  BY <1>2, <1>3

(* Linking adds a link between two pads at most. *)
LEMMA PerformTyped ==
  ASSUME TypeOK, NEW c \in Conn, NEW P, PerformConnection(c, P)
  PROVE  link' \in SUBSET (Pad \X Elements)
<1>1. PadOf(c) \in Pad /\ c.snk \in Elements /\ link \in SUBSET (Pad \X Elements)
  BY DEF TypeOK, PadOf, Pad, Conn
<1> QED
  BY <1>1 DEF PerformConnection

(* A step that disconnects or leaves the maps alone, and whose thread state is typed. *)
LEMMA ShrinkTyped ==
  ASSUME TypeOK, DetachFrame,
         sources' \in [Elements -> SUBSET Conn], sinks' \in [Elements -> SUBSET Conn],
         \A x \in Elements : sources'[x] \subseteq sources[x],
         pending' \subseteq pending, pads' \subseteq pads, link' \subseteq link, added' \subseteq added,
         owner' \in [Locks -> Threads \cup {None}], pc' \in [Threads -> Steps],
         op' \in [Threads -> Op], todo' \in [Elements -> SUBSET Conn], ops' \in Nat
  PROVE  TypeOK'
<1>1. \A x \in Elements : \A c, e \in sources'[x] : c = e
  BY DEF TypeOK
<1>2. pending' \in SUBSET Pad /\ pads' \in SUBSET Pad /\ added' \in SUBSET Pad
        /\ link' \in SUBSET (Pad \X Elements)
  BY DEF TypeOK
<1>3. /\ output' \in SUBSET (Elements \X Descs)
      /\ padCount' \in [Elements -> [Descs -> 0..MaxConnects]]
      /\ sinkPads' \in SUBSET Elements /\ sinkAdded' \in SUBSET Elements
  BY DEF TypeOK, DetachFrame
<1> QED
  BY <1>1, <1>2, <1>3 DEF TypeOK

(* The thread state after the helpers of the actions. *)
LEMMA ThreadTyped ==
  ASSUME TypeOK, NEW t \in Threads
  PROVE  /\ t \in Clients \cup Elements /\ op[t].a \in Elements /\ op[t].b \in Elements
         /\ op[t].d \in Descs
         /\ Finish(t) => /\ pc' \in [Threads -> Steps] /\ op' \in [Threads -> Op]
                         /\ owner' \in [Locks -> Threads \cup {None}]
                         /\ todo' = todo /\ ops' = ops
         /\ \A p \in Steps : Go(t, p) => pc' \in [Threads -> Steps] /\ op' = op /\ todo' = todo /\ ops' = ops
         /\ \A l \in Locks : Lock(t, l) => owner' \in [Locks -> Threads \cup {None}]
<1>1. op[t] \in Op /\ owner \in [Locks -> Threads \cup {None}] /\ pc \in [Threads -> Steps]
        /\ op \in [Threads -> Op]
  BY DEF TypeOK
<1>2. NoOp \in Op
  BY <1>1 DEF NoOp
<1>3. "idle" \in Steps
  BY DEF Steps
<1>4. Finish(t) => /\ pc' \in [Threads -> Steps] /\ op' \in [Threads -> Op]
                   /\ owner' \in [Locks -> Threads \cup {None}]
                   /\ todo' = todo /\ ops' = ops
  BY <1>1, <1>2, <1>3 DEF Finish
<1>5. \A p \in Steps : Go(t, p) => pc' \in [Threads -> Steps] /\ op' = op /\ todo' = todo /\ ops' = ops
  BY <1>1 DEF Go
<1>6. \A l \in Locks : Lock(t, l) => owner' \in [Locks -> Threads \cup {None}]
  BY <1>1 DEF Lock
<1> QED
  BY <1>1, <1>4, <1>5, <1>6 DEF Op, Threads

(* Every step keeps the types. *)
LEMMA TypeStep ==
  ASSUME TypeOK, [Next]_vars
  PROVE  TypeOK'
<1> USE DEF Locks
<1>1. ASSUME UNCHANGED <<conns, padv>>,
             owner' \in [Locks -> Threads \cup {None}], pc' \in [Threads -> Steps],
             op' \in [Threads -> Op], todo' \in [Elements -> SUBSET Conn], ops' \in Nat
      PROVE  TypeOK'
  BY <1>1 DEF TypeOK, conns, padv
<1>2. /\ owner \in [Locks -> Threads \cup {None}] /\ pc \in [Threads -> Steps]
      /\ op \in [Threads -> Op] /\ todo \in [Elements -> SUBSET Conn] /\ ops \in Nat
      /\ sources \in [Elements -> SUBSET Conn] /\ sinks \in [Elements -> SUBSET Conn]
  BY DEF TypeOK
<1>3. \A p \in Pairs : p[1] \in Elements /\ p[2] \in Elements
  BY ElementAssumption
<1>4. CASE UNCHANGED vars
  BY <1>1, <1>2, <1>4 DEF vars, thread
<1>5. ASSUME NEW t \in Clients, NEW p \in Pairs, NEW d \in Descs,
             Connect(t, p[1], p[2], d) \/ Disconnect(t, p[1], p[2], d)
      PROVE  TypeOK'
  <2>1. PICK s \in {"connect", "disconnect"} : Start(t, s, p[1], p[2], d)
    BY <1>5 DEF Connect, Disconnect
  <2>2. t \in Threads /\ s \in Steps /\ [a |-> p[1], b |-> p[2], d |-> d] \in Op
    BY <1>3 DEF Threads, Steps, Op
  <2>3. ops' \in Nat /\ owner' = owner /\ todo' = todo /\ UNCHANGED <<conns, padv>>
    BY <1>2, <2>1 DEF Start
  <2>4. pc' \in [Threads -> Steps] /\ op' \in [Threads -> Op]
    BY <1>2, <2>1, <2>2 DEF Start
  <2> QED
    BY <1>1, <1>2, <2>3, <2>4
<1>6. ASSUME NEW t \in Clients, ClientStep(t)
      PROVE  TypeOK'
  <2>1. /\ t \in Threads /\ op[t].a \in Elements /\ op[t].b \in Elements /\ op[t].d \in Descs
        /\ \A e \in Elements : <<e, "sinks">> \in Locks /\ <<e, "sources">> \in Locks
        /\ {"connect_locked", "insert", "replace", "disconnect_locked"} \subseteq Steps
    BY ThreadTyped DEF Threads, Steps
  <2>2. CASE ConnectLockSinks(t) \/ ConnectLockSources(t) \/ DisconnectLockSources(t)
    <3>1. PICK l \in Locks, p \in Steps : Lock(t, l) /\ Go(t, p) /\ UNCHANGED <<conns, padv>>
      BY <2>1, <2>2 DEF ConnectLockSinks, ConnectLockSources, DisconnectLockSources
    <3> QED
      BY <1>1, <1>2, <2>1, <3>1, ThreadTyped
  <2>3. CASE ConnectReplace(t)
    <3>1. PICK c \in sources[op[t].b] : Detach(c.src, op[t].b, op[t].d)
      BY <2>3 DEF ConnectReplace
    <3>2. c.src \in Elements
      BY <1>2, <2>1 DEF Conn
    <3>3. Go(t, "insert") /\ DetachFrame /\ owner' = owner
      BY <2>3 DEF ConnectReplace
    <3> QED
      BY <1>2, <2>1, <3>1, <3>2, <3>3, DetachShrinks, ThreadTyped, ShrinkTyped
  <2>4. CASE ConnectInsert(t)
    <3> DEFINE a == op[t].a
               b == op[t].b
               d == op[t].d
               k == padCount[a][d]
               c == [src |-> a, snk |-> b, desc |-> d, n |-> k]
    <3>1. /\ padCount' = [padCount EXCEPT ![a][d] = @ + 1] /\ k < MaxConnects
          /\ IF <<a, d>> \in output THEN pads' = pads \cup {PadOf(c)} /\ UNCHANGED pending
             ELSE pending' = pending \cup {PadOf(c)} /\ UNCHANGED pads
          /\ sinks' = [sinks EXCEPT ![a] = @ \cup {c}]
          /\ sources' = [sources EXCEPT ![b] = {c}]
          /\ PerformConnection(c, pads') /\ Finish(t)
          /\ UNCHANGED <<output, sinkPads, added, sinkAdded>>
      BY <2>4 DEF ConnectInsert
    <3>2. padCount \in [Elements -> [Descs -> 0..MaxConnects]] /\ k \in 0..MaxConnects
            /\ k + 1 \in 0..MaxConnects
      BY <2>1, <3>1, ElementAssumption DEF TypeOK
    <3>3. c \in Conn /\ PadOf(c) \in Pad
      BY <2>1, <3>2 DEF Conn, PadOf, Pad
    <3> HIDE DEF c
    <3>4. padCount' \in [Elements -> [Descs -> 0..MaxConnects]]
      BY <2>1, <3>1, <3>2
    <3>5. sinks' \in [Elements -> SUBSET Conn] /\ sources' \in [Elements -> SUBSET Conn]
            /\ \A x \in Elements : sources'[x] = IF x = b THEN {c} ELSE sources[x]
      BY <1>2, <2>1, <3>1, <3>3
    <3>6. \A x \in Elements : \A e, g \in sources'[x] : e = g
      BY <3>5 DEF TypeOK
    <3>7. link' \in SUBSET (Pad \X Elements)
      BY <3>1, <3>3, PerformTyped
    <3>8. pads' \in SUBSET Pad /\ pending' \in SUBSET Pad
      BY <3>1, <3>3 DEF TypeOK
    <3>9. /\ owner' \in [Locks -> Threads \cup {None}] /\ pc' \in [Threads -> Steps]
          /\ op' \in [Threads -> Op] /\ todo' \in [Elements -> SUBSET Conn] /\ ops' \in Nat
      BY <1>2, <2>1, <3>1, ThreadTyped
    <3>10. /\ output' \in SUBSET (Elements \X Descs) /\ added' \in SUBSET Pad
           /\ sinkPads' \in SUBSET Elements /\ sinkAdded' \in SUBSET Elements
      BY <3>1 DEF TypeOK
    <3> QED
      BY <3>4, <3>5, <3>6, <3>7, <3>8, <3>9, <3>10 DEF TypeOK
  <2>5. CASE ConnectRefused(t)
    BY <1>1, <1>2, <2>1, <2>5, ThreadTyped DEF ConnectRefused
  <2>6. CASE DisconnectErase(t)
    <3>1. Detach(op[t].a, op[t].b, op[t].d) /\ Finish(t) /\ DetachFrame
      BY <2>6 DEF DisconnectErase
    <3> QED
      BY <1>2, <2>1, <3>1, DetachShrinks, ThreadTyped, ShrinkTyped
  <2> QED
    BY <1>6, <2>2, <2>3, <2>4, <2>5, <2>6 DEF ClientStep
<1>7. ASSUME NEW e \in Elements, Release(e) \/ ReleaseStep(e)
      PROVE  TypeOK'
  <2>1. /\ e \in Threads /\ <<e, "sinks">> \in Locks /\ <<e, "sources">> \in Locks
        /\ {"sinks", "sinks_locked", "sources", "sources_locked", "released"} \subseteq Steps
    BY DEF Threads, Steps
  <2>2. CASE Release(e)
    BY <1>1, <1>2, <2>1, <2>2, ThreadTyped DEF Release
  <2>3. CASE SinksLoop(e) \/ SourcesLoop(e)
    <3>1. UNCHANGED <<conns, padv>>
      BY <2>3 DEF SinksLoop, SourcesLoop
    <3>2. \/ Go(e, "sources") /\ owner' = owner
          \/ Go(e, "released") /\ owner' = owner
          \/ /\ \E l \in Locks : Lock(e, l)
             /\ \E S \in SUBSET Conn : todo' = [todo EXCEPT ![e] = S]
             /\ \E s \in Steps : pc' = [pc EXCEPT ![e] = s]
             /\ op' = op /\ ops' = ops
      BY <1>2, <2>1, <2>3 DEF SinksLoop, SourcesLoop
    <3>3. /\ owner' \in [Locks -> Threads \cup {None}] /\ pc' \in [Threads -> Steps]
          /\ op' \in [Threads -> Op] /\ todo' \in [Elements -> SUBSET Conn] /\ ops' \in Nat
      <4>1. CASE Go(e, "sources") /\ owner' = owner
        BY <1>2, <2>1, <4>1, ThreadTyped
      <4>2. CASE Go(e, "released") /\ owner' = owner
        BY <1>2, <2>1, <4>2, ThreadTyped
      <4>3. CASE /\ \E l \in Locks : Lock(e, l)
                 /\ \E S \in SUBSET Conn : todo' = [todo EXCEPT ![e] = S]
                 /\ \E s \in Steps : pc' = [pc EXCEPT ![e] = s]
                 /\ op' = op /\ ops' = ops
        BY <1>2, <2>1, <4>3, ThreadTyped
      <4> QED
        BY <3>2, <4>1, <4>2, <4>3
    <3> QED
      BY <1>1, <3>1, <3>3
  <2>4. CASE DisconnectOne(e)
    <3>1. PICK c \in todo[e] : Detach(c.src, c.snk, c.desc) /\ todo' = [todo EXCEPT ![e] = @ \ {c}]
      BY <2>4 DEF DisconnectOne
    <3>2. c.src \in Elements /\ c.snk \in Elements /\ c.desc \in Descs /\ todo' \in [Elements -> SUBSET Conn]
      BY <1>2, <3>1 DEF Conn
    <3>3. DetachFrame /\ owner' = owner /\ pc' = pc /\ op' = op /\ ops' = ops
      BY <2>4 DEF DisconnectOne
    <3> QED
      BY <1>2, <3>1, <3>2, <3>3, DetachShrinks, ShrinkTyped
  <2>5. CASE RetryLater(e)
    <3>1. PICK c \in todo[e] : todo' = [todo EXCEPT ![e] = @ \ {c}]
      BY <2>5 DEF RetryLater
    <3>2. todo' \in [Elements -> SUBSET Conn]
      BY <1>2, <3>1
    <3> QED
      BY <1>1, <1>2, <2>5, <3>2 DEF RetryLater
  <2>6. CASE NextRound(e)
    <3>1. PICK s \in Steps : Go(e, s)
      BY <2>1, <2>6 DEF NextRound
    <3>2. owner' \in [Locks -> Threads \cup {None}]
      BY <1>2, <2>6 DEF NextRound
    <3> QED
      BY <1>1, <1>2, <2>1, <2>6, <3>1, <3>2, ThreadTyped DEF NextRound
  <2> QED
    BY <1>7, <2>2, <2>3, <2>4, <2>5, <2>6 DEF ReleaseStep
<1>8. ASSUME NEW p \in Pairs, NEW d \in Descs, OutputElement(p[1], d)
      PROVE  TypeOK'
  <2>1. {q \in pending : q[1] = p[1] /\ q[2] = d} \subseteq Pad /\ <<p[1], d>> \in Elements \X Descs
    BY <1>3 DEF TypeOK
  <2> QED
    BY <1>8, <2>1 DEF OutputElement, TypeOK, conns, thread
<1>9. ASSUME NEW p \in added, PadAdded(p)
      PROVE  TypeOK'
  <2>1. p[1] \in Elements
    BY DEF TypeOK, Pad
  <2>2. link' \in SUBSET (Pad \X Elements)
    <3>1. CASE link' = link
      BY <3>1 DEF TypeOK
    <3>2. CASE link' # link
      <4>1. PICK c \in sinks[p[1]] : PerformConnection(c, pads)
        BY <1>9, <3>2 DEF PadAdded
      <4>2. c \in Conn
        BY <1>2, <2>1
      <4> QED
        BY <4>1, <4>2, PerformTyped
    <3> QED
      BY <3>1, <3>2
  <2> QED
    BY <1>9, <2>2 DEF PadAdded, TypeOK, conns, thread
<1>10. ASSUME NEW p \in Pairs, SinkTarget(p[2]) \/ RemoveSink(p[2]) \/ SinkPadAdded(p[2])
       PROVE  TypeOK'
  <2>1. p[2] \in Elements
    BY <1>3
  <2>2. CASE SinkTarget(p[2])
    BY <2>1, <2>2 DEF SinkTarget, TypeOK, conns, thread
  <2>3. CASE RemoveSink(p[2])
    BY <2>1, <2>3 DEF RemoveSink, TypeOK, conns, thread
  <2>4. CASE SinkPadAdded(p[2])
    <3>1. link' \in SUBSET (Pad \X Elements)
      <4>1. CASE link' = link
        BY <4>1 DEF TypeOK
      <4>2. CASE link' # link
        <5>1. PICK c \in sources[p[2]] : PerformConnection(c, pads)
          BY <2>4, <4>2 DEF SinkPadAdded
        <5>2. c \in Conn
          BY <1>2, <2>1
        <5> QED
          BY <5>1, <5>2, PerformTyped
      <4> QED
        BY <4>1, <4>2
    <3> QED
      BY <2>4, <3>1 DEF SinkPadAdded, TypeOK, conns, thread
  <2> QED
    BY <1>10, <2>2, <2>3, <2>4
<1> QED
  BY <1>4, <1>5, <1>6, <1>7, <1>8, <1>9, <1>10 DEF Next

(* Whatever clients do, an element keeps one source at most, every number a pad is named by
   stays within the requests made, and every mutex has one owner or none. *)
THEOREM ElementTypeCorrect == Safety => []TypeOK
<1>1. Init => TypeOK
  BY ElementInvInit DEF ElementInv
<1>2. TypeOK /\ [Next]_vars => TypeOK'
  BY TypeStep
<1> QED
  BY <1>1, <1>2, PTL DEF Safety
=============================================================================
