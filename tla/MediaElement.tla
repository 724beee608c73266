----------------------------- MODULE MediaElement -----------------------------
(***************************************************************************)
(* Connections between media elements (MediaElementImpl.cpp) and the pads  *)
(* they are carried by (kmselement.c).                                     *)
(*                                                                         *)
(* An element keeps the connection that feeds it (sources) and the         *)
(* connections it feeds (sinks), each map under a mutex of its own, so a   *)
(* connection is in two maps under two mutexes of two elements.  Client    *)
(* threads connect and disconnect, a worker per element runs release (),   *)
(* and GStreamer threads create pads and run the pad-added callback.       *)
(*                                                                         *)
(* One media type and one sink description are modelled: the maps have one *)
(* independent entry per type and sink description.  Source descriptions   *)
(* stay, since the code compares them.                                     *)
(***************************************************************************)
EXTENDS Naturals, FiniteSets

CONSTANTS
  Elements,     \* media elements of one pipeline
  Descs,        \* source media descriptions
  Clients,      \* threads that serve connect and disconnect requests
  None,         \* no thread
  Misdirected,  \* whether clients may disconnect a pair that is not connected
  Refusing,     \* elements whose class supports no source pad
  Releases,     \* the elements that may be released
  Pairs,        \* bound: the pairs of elements the clients connect
  MaxConnects,  \* bound: connects per element and description
  MaxOps        \* bound: requests of a behaviour

ASSUME ElementAssumption ==
  /\ Elements # {} /\ Descs # {}
  /\ Clients \cap Elements = {} /\ None \notin Clients \cup Elements
  /\ Misdirected \in BOOLEAN /\ Releases \subseteq Elements /\ Refusing \subseteq Elements
  /\ Pairs \subseteq Elements \X Elements
  /\ MaxConnects \in Nat /\ MaxOps \in Nat

(* The worker that runs release () on element e is named e. *)
Threads == Clients \cup Elements
Locks   == Elements \X {"sinks", "sources"}

(* A source pad: the element, the description and the number that name it. *)
Pad  == Elements \X Descs \X (0..MaxConnects)
Conn == [src : Elements, snk : Elements, desc : Descs, n : 0..MaxConnects]
PadOf(c) == <<c.src, c.desc, c.n>>

VARIABLES
  sources,   \* sources[b]: {} or the one connection that feeds b
  sinks,     \* sinks[a]: the connections a feeds
  owner,     \* owner[<<e, map>>]: the thread that holds this recursive mutex
  pc, op,    \* per thread: step, and the elements and description it works on
  todo,      \* per worker: connections left of the snapshot it iterates over
  output,    \* <<a, d>>: the output element of a for d exists
  padCount,  \* padCount[a][d]: pads requested so far
  pending,   \* requested source pads that are not created yet (pendingpads)
  pads,      \* created source pads
  sinkPads,  \* elements that have their sink pad
  link,      \* <<pad, b>>: the source pad is linked to the sink pad of b
  added,     \* created source pads whose pad-added callback has not run
  sinkAdded, \* elements whose sink pad's pad-added callback has not run
  ops        \* number of requests so far

conns  == <<sources, sinks>>
thread == <<owner, pc, op, todo, ops>>
padv   == <<output, padCount, pending, pads, sinkPads, link, added, sinkAdded>>
vars   == <<conns, thread, padv>>

Op == [a : Elements, b : Elements, d : Descs]
NoOp == CHOOSE o \in Op : TRUE
Steps == {"idle", "connect", "connect_locked", "replace", "insert",
          "disconnect", "disconnect_locked",
          "sinks", "sinks_locked", "sources", "sources_locked", "released"}

(* The type invariant; an element has at most one source. *)
TypeOK ==
  /\ sources \in [Elements -> SUBSET Conn] /\ sinks \in [Elements -> SUBSET Conn]
  /\ \A b \in Elements : \A c, e \in sources[b] : c = e
  /\ owner \in [Locks -> Threads \cup {None}]
  /\ pc \in [Threads -> Steps] /\ op \in [Threads -> Op]
  /\ todo \in [Elements -> SUBSET Conn]
  /\ output \in SUBSET (Elements \X Descs)
  /\ padCount \in [Elements -> [Descs -> 0..MaxConnects]]
  /\ pending \in SUBSET Pad /\ pads \in SUBSET Pad /\ added \in SUBSET Pad
  /\ sinkPads \in SUBSET Elements /\ sinkAdded \in SUBSET Elements
  /\ link \in SUBSET (Pad \X Elements)
  /\ ops \in Nat

Init ==
  /\ sources = [e \in Elements |-> {}] /\ sinks = [e \in Elements |-> {}]
  /\ owner = [l \in Locks |-> None]
  /\ pc = [t \in Threads |-> "idle"]
  /\ op = [t \in Threads |-> NoOp]
  /\ todo = [e \in Elements |-> {}]
  /\ output = {} /\ padCount = [e \in Elements |-> [d \in Descs |-> 0]]
  /\ pending = {} /\ pads = {} /\ link = {} /\ added = {}
  /\ sinkPads = {} /\ sinkAdded = {}
  /\ ops = 0

-----------------------------------------------------------------------------
(* Mutexes and pads.                                                       *)

(* The mutexes are recursive. *)
CanLock(t, l) == owner[l] \in {None, t}

LinkedTo(b) == \E l \in link : l[2] = b

(* performConnection: the pads are linked once both exist; linking a pad that is
   linked already fails with a warning. *)
PerformConnection(c, P) ==
  link' = IF PadOf(c) \in P /\ c.snk \in sinkPads /\ ~LinkedTo(c.snk)
             /\ ~\E l \in link : l[1] = PadOf(c)
          THEN link \cup {<<PadOf(c), c.snk>>} ELSE link

(* A mutated form: the pad is removed and its peer stays linked. *)
ReleaseRequestedPadLinked(a, p) ==
  /\ pads' = pads \ {p} /\ added' = added \ {p}
  /\ UNCHANGED <<pending, link>>

(* kms_element_release_requested_pad_action on element a for source pad p.  The
   pending pads are looked up by name, which another element's pad may share;
   gst_element_remove_pad leaves a pad of another element where it is. *)
ReleaseRequestedPad(a, p) ==
  LET named == <<a, p[2], p[3]>>
  IN  IF named \in pending
      THEN pending' = pending \ {named} /\ UNCHANGED <<pads, link, added>>
      ELSE IF p[1] = a
      THEN /\ pads' = pads \ {p}
           /\ link' = {l \in link : l[1] # p}
           /\ added' = added \ {p}
           /\ UNCHANGED pending
      ELSE UNCHANGED <<pending, pads, link, added>>

(* The connections of which disconnect erases one. *)
Matching(a, b, d) == {c \in sinks[a] : c.snk = b /\ c.desc = d}

(* A mutated form: only the sink forgets the connection. *)
DetachSourcesOnly(a, b, d) ==
  /\ sources' = [sources EXCEPT ![b] = {}]
  /\ UNCHANGED <<sinks, pending, pads, link, added>>

(* What disconnect does once it has both mutexes: a.disconnect (b, d).  The
   connection looked up is the one that feeds b, whoever its source is.  The at ()
   on a's sinks throws when a never had a connection for d. *)
Detach(a, b, d) ==
  \/ sources[b] = {} /\ UNCHANGED <<conns, pending, pads, link, added>>
  \/ \E c \in sources[b] :
       /\ sources' = IF c.desc = d THEN [sources EXCEPT ![b] = {}] ELSE sources
       /\ \/ /\ padCount[a][d] = 0
             /\ UNCHANGED <<sinks, pending, pads, link, added>>
          \/ /\ padCount[a][d] > 0
             /\ \/ Matching(a, b, d) = {} /\ UNCHANGED sinks
                \/ \E e \in Matching(a, b, d) : sinks' = [sinks EXCEPT ![a] = @ \ {e}]
             /\ IF PadOf(c) \in pads THEN ReleaseRequestedPad(a, PadOf(c))
                ELSE UNCHANGED <<pending, pads, link, added>>

(* Detach changes no other pad state. *)
DetachFrame == UNCHANGED <<output, padCount, sinkPads, sinkAdded>>

-----------------------------------------------------------------------------
(* connect (sink, mediaType, sourceMediaDescription, sinkMediaDescription).  *)

Start(t, p, a, b, d) ==
  /\ pc[t] = "idle" /\ ops < MaxOps
  /\ ops' = ops + 1
  /\ pc' = [pc EXCEPT ![t] = p]
  /\ op' = [op EXCEPT ![t] = [a |-> a, b |-> b, d |-> d]]
  /\ UNCHANGED <<conns, owner, todo, padv>>

Go(t, p) == pc' = [pc EXCEPT ![t] = p] /\ UNCHANGED <<op, todo, ops>>

(* Thread t returns and gives up every mutex it holds. *)
Finish(t) ==
  /\ pc' = [pc EXCEPT ![t] = "idle"] /\ op' = [op EXCEPT ![t] = NoOp]
  /\ owner' = [l \in Locks |-> IF owner[l] = t THEN None ELSE owner[l]]
  /\ UNCHANGED <<todo, ops>>

Lock(t, l) == CanLock(t, l) /\ owner' = [owner EXCEPT ![l] = t]

Connect(t, a, b, d) ==
  /\ padCount[a][d] < MaxConnects
  /\ Start(t, "connect", a, b, d)

(* First this element's sinksMutex... *)
ConnectLockSinks(t) ==
  /\ pc[t] = "connect"
  /\ Lock(t, <<op[t].a, "sinks">>)
  /\ Go(t, "connect_locked")
  /\ UNCHANGED <<conns, padv>>

(* ...then the sourcesMutex of the sink. *)
ConnectLockSources(t) ==
  /\ pc[t] = "connect_locked"
  /\ Lock(t, <<op[t].b, "sources">>)
  /\ Go(t, IF sources[op[t].b] = {} THEN "insert" ELSE "replace")
  /\ UNCHANGED <<conns, padv>>

(* The present source of the sink is disconnected first, with the description of
   the new connection; that takes the sinksMutex of the present source. *)
ConnectReplace(t) ==
  /\ pc[t] = "replace"
  /\ \E c \in sources[op[t].b] :
        CanLock(t, <<c.src, "sinks">>) /\ Detach(c.src, op[t].b, op[t].d)
  /\ Go(t, "insert")
  /\ DetachFrame /\ UNCHANGED owner

(* A mutated form: the connection enters the map of the sink only. *)
ConnectInsertSource(t) ==
  LET a == op[t].a  b == op[t].b  d == op[t].d
      c == [src |-> a, snk |-> b, desc |-> d, n |-> padCount[a][d]]
  IN  /\ pc[t] = "insert" /\ padCount[a][d] < MaxConnects
      /\ padCount' = [padCount EXCEPT ![a][d] = @ + 1]
      /\ pending' = pending \cup {PadOf(c)}
      /\ sources' = [sources EXCEPT ![b] = {c}]
      /\ Finish(t)
      /\ UNCHANGED <<sinks, pads, link, output, sinkPads, added, sinkAdded>>

(* kms_element_request_new_srcpad names a pad, which is created at once if the
   output element exists and is pending otherwise; the connection enters both
   maps and the pads are linked if they exist. *)
ConnectInsert(t) ==
  LET a == op[t].a  b == op[t].b  d == op[t].d
      c == [src |-> a, snk |-> b, desc |-> d, n |-> padCount[a][d]]
  IN  /\ pc[t] = "insert" /\ (<<a, d>> \in output \/ a \notin Refusing)
      /\ padCount[a][d] < MaxConnects
      /\ padCount' = [padCount EXCEPT ![a][d] = @ + 1]
      /\ IF <<a, d>> \in output
         THEN pads' = pads \cup {PadOf(c)} /\ UNCHANGED pending
         ELSE pending' = pending \cup {PadOf(c)} /\ UNCHANGED pads
      /\ sinks' = [sinks EXCEPT ![a] = @ \cup {c}]
      /\ sources' = [sources EXCEPT ![b] = {c}]
      /\ PerformConnection(c, pads')
      /\ Finish(t)
      /\ UNCHANGED <<output, sinkPads, added, sinkAdded>>

(* No pad: CONNECT_ERROR is thrown, the previous source stays disconnected. *)
ConnectRefused(t) ==
  /\ pc[t] = "insert" /\ op[t].a \in Refusing /\ <<op[t].a, op[t].d>> \notin output
  /\ Finish(t)
  /\ UNCHANGED <<conns, padv>>

-----------------------------------------------------------------------------
(* disconnect: the mutexes in the opposite order.                            *)

Disconnect(t, a, b, d) ==
  /\ Misdirected \/ \E c \in sources[b] : c.src = a /\ c.desc = d
  /\ Start(t, "disconnect", a, b, d)

DisconnectLockSources(t) ==
  /\ pc[t] = "disconnect"
  /\ Lock(t, <<op[t].b, "sources">>)
  /\ Go(t, "disconnect_locked")
  /\ UNCHANGED <<conns, padv>>

DisconnectErase(t) ==
  /\ pc[t] = "disconnect_locked"
  /\ CanLock(t, <<op[t].a, "sinks">>)
  /\ Detach(op[t].a, op[t].b, op[t].d)
  /\ Finish(t)
  /\ DetachFrame

-----------------------------------------------------------------------------
(* release (): disconnectAll, first the connections the element feeds, then the
   one that feeds it.  It waits with no mutex held, tries the second mutex for a
   while and leaves a connection for the next round when it fails.           *)

Release(e) ==
  /\ e \in Releases /\ pc[e] = "idle"
  /\ Go(e, "sinks")
  /\ UNCHANGED <<conns, owner, padv>>

SinksLoop(e) ==
  /\ pc[e] = "sinks"
  /\ IF sinks[e] = {}
     THEN CanLock(e, <<e, "sinks">>) /\ Go(e, "sources") /\ UNCHANGED owner
     ELSE /\ Lock(e, <<e, "sinks">>)
          /\ todo' = [todo EXCEPT ![e] = sinks[e]]
          /\ pc' = [pc EXCEPT ![e] = "sinks_locked"] /\ UNCHANGED <<op, ops>>
  /\ UNCHANGED <<conns, padv>>

(* The other mutex that a connection of the snapshot needs. *)
OtherLock(e, c) == IF pc[e] = "sinks_locked" THEN <<c.snk, "sources">> ELSE <<c.src, "sinks">>

(* One connection of the snapshot is disconnected... *)
DisconnectOne(e) ==
  /\ pc[e] \in {"sinks_locked", "sources_locked"}
  /\ \E c \in todo[e] :
       /\ CanLock(e, OtherLock(e, c))
       /\ Detach(c.src, c.snk, c.desc)
       /\ todo' = [todo EXCEPT ![e] = @ \ {c}]
  /\ DetachFrame /\ UNCHANGED <<owner, pc, op, ops>>

(* ...or left for the next round: the try_lock timed out. *)
RetryLater(e) ==
  /\ pc[e] \in {"sinks_locked", "sources_locked"}
  /\ \E c \in todo[e] :
       /\ ~CanLock(e, OtherLock(e, c))
       /\ todo' = [todo EXCEPT ![e] = @ \ {c}]
  /\ UNCHANGED <<conns, padv, owner, pc, op, ops>>

SourcesLoop(e) ==
  /\ pc[e] = "sources"
  /\ IF sources[e] = {}
     THEN CanLock(e, <<e, "sources">>) /\ Go(e, "released") /\ UNCHANGED owner
     ELSE /\ Lock(e, <<e, "sources">>)
          /\ todo' = [todo EXCEPT ![e] = sources[e]]
          /\ pc' = [pc EXCEPT ![e] = "sources_locked"] /\ UNCHANGED <<op, ops>>
  /\ UNCHANGED <<conns, padv>>

(* A mutated form: the worker keeps its mutex from round to round. *)
NextRoundLocked(e) ==
  /\ pc[e] \in {"sinks_locked", "sources_locked"} /\ todo[e] = {}
  /\ Go(e, IF pc[e] = "sinks_locked" THEN "sinks" ELSE "sources")
  /\ UNCHANGED <<conns, padv, owner>>

(* The round is over: the element's own mutex is given up. *)
NextRound(e) ==
  /\ pc[e] \in {"sinks_locked", "sources_locked"} /\ todo[e] = {}
  /\ owner' = [l \in Locks |-> IF owner[l] = e THEN None ELSE owner[l]]
  /\ Go(e, IF pc[e] = "sinks_locked" THEN "sinks" ELSE "sources")
  /\ UNCHANGED <<conns, padv>>

-----------------------------------------------------------------------------
(* GStreamer threads.                                                        *)

(* kms_element_get_output_element: the element appears and its pending pads are
   created; the callback of each runs afterwards, in this thread. *)
OutputElement(a, d) ==
  LET created == {p \in pending : p[1] = a /\ p[2] = d}
  IN  /\ <<a, d>> \notin output
      /\ output' = output \cup {<<a, d>>}
      /\ pending' = pending \ created
      /\ pads' = pads \cup created
      /\ added' = added \cup created
      /\ UNCHANGED <<conns, thread, padCount, sinkPads, link, sinkAdded>>

(* _media_element_pad_added for a source pad: it retries until it gets both
   mutexes, giving the first one up in between. *)
PadAdded(p) ==
  /\ p \in added /\ owner[<<p[1], "sinks">>] = None
  /\ \/ /\ ~\E c \in sinks[p[1]] : PadOf(c) = p
        /\ UNCHANGED link
     \/ \E c \in sinks[p[1]] :
           /\ PadOf(c) = p /\ owner[<<c.snk, "sources">>] = None
           /\ PerformConnection(c, pads)
  /\ added' = added \ {p}
  /\ UNCHANGED <<conns, thread, output, padCount, pending, pads, sinkPads, sinkAdded>>

(* kms_element_connect_sink_target_full. *)
SinkTarget(b) ==
  /\ b \notin sinkPads
  /\ sinkPads' = sinkPads \cup {b} /\ sinkAdded' = sinkAdded \cup {b}
  /\ UNCHANGED <<conns, thread, output, padCount, pending, pads, link, added>>

(* kms_element_remove_sink. *)
RemoveSink(b) ==
  /\ b \in sinkPads
  /\ sinkPads' = sinkPads \ {b} /\ sinkAdded' = sinkAdded \ {b}
  /\ link' = {l \in link : l[2] # b}
  /\ UNCHANGED <<conns, thread, output, padCount, pending, pads, added>>

(* _media_element_pad_added for a sink pad. *)
SinkPadAdded(b) ==
  /\ b \in sinkAdded /\ owner[<<b, "sources">>] = None
  /\ \/ sources[b] = {} /\ UNCHANGED link
     \/ \E c \in sources[b] :
           owner[<<c.src, "sinks">>] = None /\ PerformConnection(c, pads)
  /\ sinkAdded' = sinkAdded \ {b}
  /\ UNCHANGED <<conns, thread, output, padCount, pending, pads, sinkPads, added>>

-----------------------------------------------------------------------------
ClientStep(t) ==
  \/ ConnectLockSinks(t) \/ ConnectLockSources(t) \/ ConnectReplace(t)
  \/ ConnectInsert(t) \/ ConnectRefused(t)
  \/ DisconnectLockSources(t) \/ DisconnectErase(t)

ReleaseStep(e) ==
  SinksLoop(e) \/ SourcesLoop(e) \/ DisconnectOne(e) \/ RetryLater(e) \/ NextRound(e)

Next ==
  \/ \E t \in Clients, p \in Pairs, d \in Descs :
        Connect(t, p[1], p[2], d) \/ Disconnect(t, p[1], p[2], d)
  \/ \E t \in Clients : ClientStep(t)
  \/ \E e \in Elements : Release(e) \/ ReleaseStep(e)
  \/ \E p \in Pairs, d \in Descs : OutputElement(p[1], d)
  \/ \E p \in added : PadAdded(p)
  \/ \E p \in Pairs : SinkTarget(p[2]) \/ RemoveSink(p[2]) \/ SinkPadAdded(p[2])

Safety == Init /\ [][Next]_vars

(* A round ends while another worker still waits for a mutex it gives up. *)
RoundSeen(e) == NextRound(e) /\ \E f \in Elements \ {e} : todo[f] # {}

(* A thread that can go on does.  try_lock waits for a random time (millisRand): of
   two workers that want each other's mutex one outlasts the round of the other
   again and again, and gets the mutex then.  Nothing obliges clients to call,
   elements to be released or pads to come and go. *)
Fairness ==
  /\ \A t \in Clients : SF_vars(ClientStep(t))
  /\ \A e \in Releases : /\ WF_vars(ReleaseStep(e))
                          /\ SF_vars(RoundSeen(e)) /\ SF_vars(DisconnectOne(e))

Spec == Safety /\ Fairness

-----------------------------------------------------------------------------
(* Properties.                                                             *)

(* The two maps a connection is kept in agree: what an element says feeds it its source
   lists, and the source lists nothing else, for one source description and clients that
   disconnect only what is connected. *)
MapsAgree ==
  /\ \A b \in Elements : \A c \in sources[b] : c.snk = b /\ c \in sinks[c.src]
  /\ \A a \in Elements : \A c \in sinks[a] : c.src = a /\ c \in sources[c.snk]

(* A connection whose two pads exist is linked, once their callbacks have run,
   whatever the order in which pads appear, sources are replaced and elements are
   released: media flows on what the API calls connected. *)
LinksFollow ==
  \A b \in sinkPads \ sinkAdded : \A c \in sources[b] :
    PadOf(c) \in pads \ added => <<PadOf(c), b>> \in link

(* What t waits for. *)
WaitsFor(t) ==
  CASE pc[t] = "connect"           -> {<<op[t].a, "sinks">>}
    [] pc[t] = "connect_locked"    -> {<<op[t].b, "sources">>}
    [] pc[t] = "replace"           -> {<<c.src, "sinks">> : c \in sources[op[t].b]}
    [] pc[t] = "disconnect"        -> {<<op[t].b, "sources">>}
    [] pc[t] = "disconnect_locked" -> {<<op[t].a, "sinks">>}
    [] pc[t] \in {"sinks", "sources"} -> {<<t, pc[t]>>}
    [] OTHER -> {}

(* "Avoid deadlocks using try lock and iterating" (changelog): no two threads wait
   for a mutex of each other. *)
NoCircularWait ==
  ~\E t, u \in Threads : /\ t # u
                         /\ \E l \in WaitsFor(t) : owner[l] = u
                         /\ \E l \in WaitsFor(u) : owner[l] = t

(* A client's request ends: connect and disconnect return. *)
RequestsEnd == \A t \in Clients : (pc[t] # "idle") ~> (pc[t] = "idle")

(* release () ends, once no more requests come. *)
ReleaseEnds ==
  \A e \in Releases : (pc[e] = "sinks" /\ ops = MaxOps) ~> (pc[e] = "released")
=============================================================================
