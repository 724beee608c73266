----------------------------- MODULE MediaSetProofs -----------------------------
(***************************************************************************)
(* The invariants of MediaSet, proved for every forest of objects, every   *)
(* set of sessions and every number of threads and requests.               *)
(*                                                                         *)
(* HeldAlive and LinkedParentsInSession are inductive only together with   *)
(* what a thread knows of the request it is serving (RequestInv): that the *)
(* object it is about to register is new and nobody else's, and that it    *)
(* still holds the pointer its first critical section took.                *)
(***************************************************************************)
EXTENDS MediaSet, TLAPS

Parents(o) == {p \in Objects : IsParent(p, o)}

RequestInv ==
  /\ alive \subseteq created /\ toDelete \subseteq alive
  /\ \A t \in Threads : pc[t] = "construct" =>
        req[t].o \in created \ alive /\ held[t] = Parents(req[t].o)
  /\ \A t, u \in Threads :
        pc[t] = "construct" /\ pc[u] = "construct" /\ req[t].o = req[u].o => t = u
  /\ \A t \in Threads : pc[t] \in {"created", "ref", "unref", "release"} =>
        req[t].o \in held[t]

Inv == TypeOK /\ SessionDuality /\ LinkedParentsInSession /\ HeldAlive /\ RequestInv

USE DEF maps, life, clients, main
-----------------------------------------------------------------------------
(* Facts about the object forest.                                          *)

(* What the path of an object is made of. *)
LEMMA PathFacts ==
  ASSUME NEW o \in Objects
  PROVE  /\ o \in Path(o) /\ Path(o) \subseteq Objects
         /\ Anc[o] \subseteq Path(o)
         /\ \A x \in Path(o) : Path(x) \subseteq Path(o)
         /\ \A x \in Path(o), p \in Objects : IsParent(p, x) => p \in Path(o)
  BY AncAssumption DEF Path, IsParent

(* The path of a child is the path of its parent and the child. *)
LEMMA ParentPath ==
  ASSUME NEW o \in Objects, NEW p \in Objects, IsParent(p, o)
  PROVE  Path(o) = Path(p) \cup {o}
  BY DEF Path, IsParent

(* An ancestor of o has a child on the path of o. *)
LEMMA ChildOnPath ==
  ASSUME NEW o \in Objects, NEW a \in Anc[o]
  PROVE  \E c \in Path(o) : IsParent(a, c)
  BY AncAssumption DEF Path

(* Subtree(o) holds o and registered objects only, and every registered child of
   one of its objects: unref visits what childrenMap reaches. *)
LEMMA SubtreeFacts ==
  ASSUME NEW o \in Objects
  PROVE  /\ Subtree(o) \subseteq Objects
         /\ Subtree(o) \subseteq Registered \cup {o}
         /\ \A p \in Subtree(o), c \in Registered \cap Objects :
               IsParent(p, c) => c \in Subtree(o)
<1>1. Subtree(o) \subseteq Objects
  BY DEF Subtree
<1>2. ASSUME NEW x \in Subtree(o), x # o PROVE x \in Registered
  <2>1. x \in Objects /\ o \in Anc[x] /\ Path(x) \ Path(o) \subseteq Registered
    BY <1>2 DEF Subtree
  <2>2. x \notin Path(o)
    BY <2>1, <1>2, AncAssumption DEF Path
  <2>3. x \in Path(x)
    BY <2>1, PathFacts
  <2> QED BY <2>1, <2>2, <2>3
<1>3. ASSUME NEW p \in Subtree(o), NEW c \in Registered \cap Objects, IsParent(p, c)
      PROVE  c \in Subtree(o)
  <2>1. p \in Objects /\ Path(c) = Path(p) \cup {c}
    BY <1>1, <1>3, ParentPath
  <2>2. o \in Anc[c]
    BY <1>3, <2>1 DEF Subtree, IsParent
  <2>3. Path(p) \ Path(o) \subseteq Registered
    BY <1>3 DEF Subtree, Path
  <2> QED BY <2>1, <2>2, <2>3 DEF Subtree
<1> QED BY <1>1, <1>2, <1>3

-----------------------------------------------------------------------------
(* The two macros every operation on the session maps is built from.       *)

(* V can be what unref visits: it contains the registered children of its own. *)
Closed(V) == \A p \in V, c \in Registered \cap Objects : IsParent(p, c) => c \in V

(* Ref keeps the types, the duality of the maps and the linked parents, when
   childrenMap stays or gets objects that are in no session yet. *)
LEMMA RefPreserves ==
  ASSUME TypeOK, SessionDuality, LinkedParentsInSession,
         NEW S \in SUBSET Sessions, NEW O \in SUBSET Objects, Ref(S, O),
         childrenMap' \in [Objects -> SUBSET Objects],
         \A o \in Registered' : o \in Registered \/ \A s \in Sessions : o \notin sessionMap[s]
  PROVE  /\ sessionMap' \in [Sessions -> SUBSET Objects]
         /\ reverseSessionMap' \in [Objects -> SUBSET Sessions]
         /\ sessionInUse' \in [Sessions -> {"none", "true", "false"}]
         /\ \A s \in Sessions : sessionMap'[s] \subseteq sessionMap[s] \cup UNION {Path(o) : o \in O}
         /\ SessionDuality'
         /\ LinkedParentsInSession'
<1> DEFINE P == UNION {Path(o) : o \in O}
<1>1. P \subseteq Objects
  BY PathFacts
<1>2. /\ sessionInUse' = [s \in Sessions |-> IF s \in S /\ O # {} THEN "true"
                                             ELSE sessionInUse[s]]
      /\ sessionMap' = [s \in Sessions |-> IF s \in S THEN sessionMap[s] \cup P
                                           ELSE sessionMap[s]]
      /\ reverseSessionMap' = [o \in Objects |-> IF o \in P THEN reverseSessionMap[o] \cup S
                                                 ELSE reverseSessionMap[o]]
  BY DEF Ref
<1>3. O = {} => P = {}
  OBVIOUS
<1>4. \A x \in P, p \in Objects : IsParent(p, x) => p \in P
  BY PathFacts
<1> HIDE DEF P
<1>5. /\ sessionMap' \in [Sessions -> SUBSET Objects]
      /\ reverseSessionMap' \in [Objects -> SUBSET Sessions]
      /\ sessionInUse' \in [Sessions -> {"none", "true", "false"}]
      /\ \A s \in Sessions : sessionMap'[s] \subseteq sessionMap[s] \cup P
  BY <1>1, <1>2 DEF TypeOK
<1>6. SessionDuality'
  <2>1. ASSUME NEW s \in Sessions, NEW o \in Objects
        PROVE  o \in sessionMap'[s] <=> s \in reverseSessionMap'[o]
    BY <1>2, <2>1 DEF SessionDuality, TypeOK
  <2>2. ASSUME NEW s \in Sessions, sessionMap'[s] # {} PROVE sessionInUse'[s] # "none"
    BY <1>2, <1>3, <2>2 DEF SessionDuality, TypeOK
  <2> QED BY <2>1, <2>2 DEF SessionDuality
<1>7. LinkedParentsInSession'
  <2> SUFFICES ASSUME NEW s \in Sessions, NEW o \in sessionMap'[s], o \in Registered',
                      NEW p \in Objects, IsParent(p, o)
               PROVE  p \in sessionMap'[s]
    BY DEF LinkedParentsInSession, IsParent
  <2>1. CASE s \in S /\ o \in P
    BY <1>2, <1>4, <2>1
  <2>2. CASE ~(s \in S /\ o \in P)
    <3>1. o \in sessionMap[s]
      BY <1>2, <2>2
    <3>2. p \in sessionMap[s]
      BY <3>1 DEF LinkedParentsInSession
    <3> QED BY <1>2, <3>2
  <2> QED BY <2>1, <2>2
<1> QED BY <1>5, <1>6, <1>7 DEF P

(* Unref keeps them too, whatever closed set of objects it visits; it registers
   no child and keeps alive no more than it visits. *)
LEMMA UnrefPreserves ==
  ASSUME TypeOK, SessionDuality, LinkedParentsInSession,
         NEW S \in SUBSET Sessions, NEW V \in SUBSET Objects, NEW closed \in SUBSET Sessions,
         Closed(V), Unref(S, V, closed),
         sessionInUse' \in [Sessions -> {"none", "true", "false"}],
         \A s \in Sessions : sessionInUse'[s] = "none" /\ sessionInUse[s] # "none"
                             => s \in S /\ sessionMap[s] \subseteq V
  PROVE  /\ sessionMap' \in [Sessions -> SUBSET Objects]
         /\ reverseSessionMap' \in [Objects -> SUBSET Sessions]
         /\ childrenMap' \in [Objects -> SUBSET Objects]
         /\ eventHandler' \in SUBSET (Sessions \X Objects)
         /\ toRelease' \in SUBSET Objects
         /\ toRelease' \subseteq toRelease \cup V
         /\ Registered' \subseteq Registered
         /\ \A s \in Sessions : sessionMap'[s] \subseteq sessionMap[s]
         /\ SessionDuality'
         /\ LinkedParentsInSession'
<1> DEFINE gone == Orphans(S, V) \ {ServerManager}
<1>1. /\ sessionMap' = [s \in Sessions |-> IF s \in S THEN sessionMap[s] \ V
                                           ELSE sessionMap[s]]
      /\ reverseSessionMap' = [o \in Objects |-> IF o \in V THEN reverseSessionMap[o] \ S
                                                 ELSE reverseSessionMap[o]]
      /\ childrenMap' = [p \in Objects |-> IF p \in gone THEN {} ELSE childrenMap[p] \ gone]
      /\ eventHandler' = eventHandler \ ((S \X V) \cup (closed \X Objects))
      /\ toRelease' = toRelease \cup Orphans(S, V)
  BY DEF Unref
<1>2. Orphans(S, V) \subseteq V
  BY DEF Orphans
<1> HIDE DEF gone
<1>3. /\ sessionMap' \in [Sessions -> SUBSET Objects]
      /\ reverseSessionMap' \in [Objects -> SUBSET Sessions]
      /\ childrenMap' \in [Objects -> SUBSET Objects]
      /\ eventHandler' \in SUBSET (Sessions \X Objects)
      /\ toRelease' \in SUBSET Objects
      /\ toRelease' \subseteq toRelease \cup V
      /\ \A s \in Sessions : sessionMap'[s] \subseteq sessionMap[s]
  BY <1>1, <1>2 DEF TypeOK
<1>4. Registered' \subseteq Registered
  <2>1. \A p \in Objects : childrenMap'[p] \subseteq childrenMap[p]
    BY <1>1
  <2> QED BY <2>1 DEF Registered
<1>5. SessionDuality'
  <2>1. ASSUME NEW s \in Sessions, NEW o \in Objects
        PROVE  o \in sessionMap'[s] <=> s \in reverseSessionMap'[o]
    BY <1>1, <2>1 DEF SessionDuality, TypeOK
  <2>2. ASSUME NEW s \in Sessions, sessionMap'[s] # {} PROVE sessionInUse'[s] # "none"
    BY <1>1, <1>3, <2>2 DEF SessionDuality, TypeOK
  <2> QED BY <2>1, <2>2 DEF SessionDuality
<1>6. LinkedParentsInSession'
  <2> SUFFICES ASSUME NEW s \in Sessions, NEW o \in sessionMap'[s], o \in Registered',
                      NEW p \in Objects, IsParent(p, o)
               PROVE  p \in sessionMap'[s]
    BY DEF LinkedParentsInSession, IsParent
  <2>1. o \in sessionMap[s] /\ o \in Registered /\ o \in Objects
    BY <1>3, <1>4
  <2>2. p \in sessionMap[s]
    BY <2>1 DEF LinkedParentsInSession
  <2>3. p \in V => o \in V
    BY <2>1 DEF Closed
  <2> QED BY <1>1, <2>2, <2>3
<1> QED BY <1>3, <1>4, <1>5, <1>6

(* What unref, release and the session operations visit is closed, and registered
   or in the session. *)
LEMMA VisitsFacts ==
  ASSUME TypeOK, HeldAlive
  PROVE  /\ \A o \in objectsMap : /\ Subtree(o) \in SUBSET Objects
                                  /\ Subtree(o) \subseteq objectsMap
                                  /\ Closed(Subtree(o))
                                  /\ ReleaseVisits(o) \in SUBSET Objects
                                  /\ ReleaseVisits(o) \subseteq objectsMap
                                  /\ Closed(ReleaseVisits(o))
         /\ \A s \in Sessions : /\ SessionVisits(s) \in SUBSET Objects
                                /\ SessionVisits(s) \subseteq objectsMap
                                /\ Closed(SessionVisits(s))
                                /\ sessionMap[s] \subseteq SessionVisits(s)
<1>1. ASSUME NEW o \in objectsMap
      PROVE  Subtree(o) \in SUBSET Objects /\ Subtree(o) \subseteq objectsMap /\ Closed(Subtree(o))
  BY SubtreeFacts DEF TypeOK, HeldAlive, Closed
<1>2. ASSUME NEW o \in objectsMap
      PROVE  /\ ReleaseVisits(o) \in SUBSET Objects /\ ReleaseVisits(o) \subseteq objectsMap
             /\ Closed(ReleaseVisits(o))
  BY <1>1 DEF ReleaseVisits, Closed
<1>3. ASSUME NEW s \in Sessions
      PROVE  /\ SessionVisits(s) \in SUBSET Objects /\ SessionVisits(s) \subseteq objectsMap
             /\ Closed(SessionVisits(s)) /\ sessionMap[s] \subseteq SessionVisits(s)
  <2>1. \A o \in sessionMap[s] : o \in objectsMap /\ o \in Objects /\ o \in Subtree(o)
    BY DEF HeldAlive, TypeOK, Subtree
  <2> QED BY <1>1, <2>1 DEF SessionVisits, Closed
<1> QED BY <1>1, <1>2, <1>3

-----------------------------------------------------------------------------
(* The invariant holds initially and every action preserves it.            *)

(* An empty registry with its server manager satisfies the invariant. *)
LEMMA InitInv == Init => Inv
<1> SUFFICES ASSUME Init PROVE Inv
  OBVIOUS
<1>1. TypeOK
  BY ConstantsAssumption DEF Init, TypeOK, NoRequest, Request, Steps
<1>2. Registered = {}
  BY DEF Init, Registered
<1>3. SessionDuality /\ LinkedParentsInSession
  BY <1>2 DEF Init, SessionDuality, LinkedParentsInSession
<1>4. HeldAlive
  BY <1>2, ConstantsAssumption DEF Init, HeldAlive, Path
<1>5. RequestInv
  BY DEF Init, RequestInv
<1> QED BY <1>1, <1>3, <1>4, <1>5 DEF Inv

(* Steps of a request that only ref. *)
LEMMA RefStep ==
  ASSUME Inv, NEW S \in SUBSET Sessions, NEW O \in SUBSET objectsMap, Ref(S, O),
         UNCHANGED <<objectsMap, childrenMap, eventHandler, life>>
  PROVE  /\ sessionMap' \in [Sessions -> SUBSET Objects]
         /\ reverseSessionMap' \in [Objects -> SUBSET Sessions]
         /\ sessionInUse' \in [Sessions -> {"none", "true", "false"}]
         /\ \A s \in Sessions : sessionMap'[s] \subseteq objectsMap
         /\ SessionDuality' /\ LinkedParentsInSession'
<1>1. O \in SUBSET Objects /\ TypeOK /\ SessionDuality /\ LinkedParentsInSession
  BY DEF Inv, TypeOK
<1>2. Registered' = Registered
  BY DEF Registered
<1>3. /\ sessionMap' \in [Sessions -> SUBSET Objects]
      /\ reverseSessionMap' \in [Objects -> SUBSET Sessions]
      /\ sessionInUse' \in [Sessions -> {"none", "true", "false"}]
      /\ \A s \in Sessions : sessionMap'[s] \subseteq sessionMap[s] \cup UNION {Path(o) : o \in O}
      /\ SessionDuality' /\ LinkedParentsInSession'
  <2>1. childrenMap' \in [Objects -> SUBSET Objects]
    BY <1>1 DEF TypeOK
  <2> QED BY <1>1, <1>2, <2>1, RefPreserves
<1>4. UNION {Path(o) : o \in O} \subseteq objectsMap
  BY DEF Inv, HeldAlive
<1> QED BY <1>3, <1>4 DEF Inv, HeldAlive

(* Steps that only unref. *)
LEMMA UnrefStep ==
  ASSUME Inv, NEW S \in SUBSET Sessions, NEW V \in SUBSET objectsMap,
         NEW closed \in SUBSET Sessions, Closed(V), Unref(S, V, closed),
         sessionInUse' \in [Sessions -> {"none", "true", "false"}],
         \A s \in Sessions : sessionInUse'[s] = "none" /\ sessionInUse[s] # "none"
                             => s \in S /\ sessionMap[s] \subseteq V
  PROVE  /\ sessionMap' \in [Sessions -> SUBSET Objects]
         /\ reverseSessionMap' \in [Objects -> SUBSET Sessions]
         /\ childrenMap' \in [Objects -> SUBSET Objects]
         /\ eventHandler' \in SUBSET (Sessions \X Objects)
         /\ toRelease' \in SUBSET Objects
         /\ toRelease' \subseteq objectsMap
         /\ Registered' \subseteq objectsMap
         /\ \A s \in Sessions : sessionMap'[s] \subseteq objectsMap
         /\ SessionDuality' /\ LinkedParentsInSession'
<1>1. V \in SUBSET Objects /\ TypeOK /\ SessionDuality /\ LinkedParentsInSession
  BY DEF Inv, TypeOK
<1>2. /\ toRelease \subseteq objectsMap /\ Registered \subseteq objectsMap
      /\ \A s \in Sessions : sessionMap[s] \subseteq objectsMap
  BY DEF Inv, HeldAlive
<1> QED BY <1>1, <1>2, UnrefPreserves
(* Nothing but the requests changes. *)
LEMMA SameMaps ==
  ASSUME Inv, UNCHANGED <<maps, toRelease, toDelete, alive, pipes>>,
         \A t \in Threads : held'[t] \subseteq objectsMap
  PROVE  SessionDuality' /\ LinkedParentsInSession' /\ HeldAlive'
<1>1. Registered' = Registered
  BY DEF Registered
<1>2. SessionDuality' /\ LinkedParentsInSession'
  BY <1>1 DEF Inv, SessionDuality, LinkedParentsInSession
<1>3. HeldAlive'
  BY <1>1 DEF Inv, HeldAlive
<1> QED BY <1>2, <1>3

(* A thread that starts, goes on with or ends a request other than "construct"
   keeps RequestInv, when it holds the object of the request. *)
LEMMA RequestStep ==
  ASSUME Inv, NEW t \in Threads, UNCHANGED <<created, alive, toDelete>>,
         NEW p \in Steps \ {"construct"}, NEW r \in Request, NEW h \in SUBSET Objects,
         pc' = [pc EXCEPT ![t] = p], req' = [req EXCEPT ![t] = r],
         held' = [held EXCEPT ![t] = h],
         p \in {"created", "ref", "unref", "release"} => r.o \in h
  PROVE  /\ RequestInv'
         /\ pc' \in [Threads -> Steps] /\ req' \in [Threads -> Request]
         /\ held' \in [Threads -> SUBSET Objects]
<1>1. /\ pc' \in [Threads -> Steps] /\ req' \in [Threads -> Request]
      /\ held' \in [Threads -> SUBSET Objects]
  BY DEF Inv, TypeOK
<1>2. \A u \in Threads : u # t => pc'[u] = pc[u] /\ req'[u] = req[u] /\ held'[u] = held[u]
  BY DEF Inv, TypeOK
<1>3. pc'[t] = p /\ req'[t] = r /\ held'[t] = h
  BY DEF Inv, TypeOK
<1>4. RequestInv'
  BY <1>2, <1>3 DEF Inv, RequestInv
<1> QED BY <1>1, <1>4

(* The end of a request. *)
LEMMA ReturnStep ==
  ASSUME Inv, NEW t \in Threads, UNCHANGED <<created, alive, toDelete>>, Return(t)
  PROVE  /\ RequestInv'
         /\ pc' \in [Threads -> Steps] /\ req' \in [Threads -> Request]
         /\ held' \in [Threads -> SUBSET Objects]
         /\ \A u \in Threads : held'[u] \subseteq objectsMap
<1>1. NoRequest \in Request /\ "idle" \in Steps \ {"construct"}
  BY ConstantsAssumption DEF NoRequest, Request, Steps
<1>2. /\ RequestInv'
      /\ pc' \in [Threads -> Steps] /\ req' \in [Threads -> Request]
      /\ held' \in [Threads -> SUBSET Objects]
  <2>1. /\ pc' = [pc EXCEPT ![t] = "idle"] /\ req' = [req EXCEPT ![t] = NoRequest]
        /\ held' = [held EXCEPT ![t] = {}]
    BY DEF Return
  <2>2. ~("idle" \in {"created", "ref", "unref", "release"}) /\ {} \in SUBSET Objects
    OBVIOUS
  <2> QED BY <1>1, <2>1, <2>2, RequestStep
<1>3. \A u \in Threads : held'[u] \subseteq objectsMap
  BY DEF Return, Inv, TypeOK, HeldAlive
<1> QED BY <1>2, <1>3

(* A request served at once leaves the threads alone. *)
LEMMA ServeStep ==
  ASSUME Inv, NEW t \in Threads, UNCHANGED <<created, alive, toDelete>>, Serve(t)
  PROVE  RequestInv' /\ requests' \in Nat /\ UNCHANGED <<pc, req, held>>
  BY DEF Serve, Inv, TypeOK, RequestInv

(* The first half of a creation: the id is new and the parents are held. *)
LEMMA ConstructInv ==
  ASSUME Inv, NEW t \in Threads, NEW s \in Sessions, NEW o \in Objects, Construct(t, s, o)
  PROVE  Inv'
<1>1. /\ pc' = [pc EXCEPT ![t] = "construct"] /\ req' = [req EXCEPT ![t] = [s |-> s, o |-> o]]
      /\ held' = [held EXCEPT ![t] = Parents(o)]
      /\ requests' = requests + 1 /\ created' = created \cup {o} /\ o \notin created
      /\ UNCHANGED <<maps, toRelease, toDelete, alive, main>>
      /\ pc[t] = "idle"
  BY DEF Construct, Begin, Parents
<1>2. Parents(o) \subseteq objectsMap
  BY DEF Parents, Construct, Gettable
<1>3. TypeOK'
  BY <1>1 DEF Inv, TypeOK, Request, Steps, Parents
<1>4. \A u \in Threads : u # t => pc'[u] = pc[u] /\ req'[u] = req[u] /\ held'[u] = held[u]
  BY <1>1 DEF Inv, TypeOK
<1>5. pc'[t] = "construct" /\ req'[t].o = o /\ held'[t] = Parents(o)
  BY <1>1 DEF Inv, TypeOK
<1>6. RequestInv'
  BY <1>1, <1>4, <1>5 DEF Inv, RequestInv
<1>7. \A u \in Threads : held'[u] \subseteq objectsMap
  BY <1>2, <1>4, <1>5 DEF Inv, HeldAlive
<1>8. SessionDuality' /\ LinkedParentsInSession' /\ HeldAlive'
  BY <1>1, <1>7, SameMaps
<1> QED BY <1>3, <1>6, <1>8 DEF Inv

(* The second half: the object appears below its parents, which are alive. *)
LEMMA RegisterInv ==
  ASSUME Inv, NEW t \in Threads, Register(t)
  PROVE  Inv'
<1> DEFINE o == req[t].o
           S == UNION {reverseSessionMap[p] : p \in Parents(o)}
<1>1. /\ pc[t] = "construct" /\ o \in Objects /\ S \in SUBSET Sessions
      /\ objectsMap' = objectsMap \cup {o} /\ alive' = alive \cup {o}
      /\ childrenMap' = [p \in Objects |-> IF p \in Parents(o) THEN childrenMap[p] \cup {o}
                                           ELSE childrenMap[p]]
      /\ Ref(S, {o})
      /\ pc' = [pc EXCEPT ![t] = "created"] /\ held' = [held EXCEPT ![t] = {o}]
      /\ UNCHANGED <<eventHandler, toRelease, toDelete, created, main, req, requests>>
  BY DEF Register, Parents, Go, Inv, TypeOK, Request
<1>2. o \in created \ alive /\ held[t] = Parents(o)
  BY <1>1 DEF Inv, RequestInv
<1> HIDE DEF S
<1>3. Path(o) \subseteq objectsMap'
  <2>1. Parents(o) \subseteq objectsMap
    BY <1>2 DEF Inv, HeldAlive
  <2>2. CASE Anc[o] = {}
    BY <2>2, <1>1 DEF Path
  <2>3. CASE Anc[o] # {}
    <3>1. PICK p \in Objects : IsParent(p, o)
      BY <2>3, <1>1, AncAssumption
    <3>2. Path(o) = Path(p) \cup {o} /\ p \in objectsMap
      BY <3>1, <2>1, <1>1, ParentPath DEF Parents
    <3> QED BY <3>2, <1>1 DEF Inv, HeldAlive
  <2> QED BY <2>2, <2>3
<1>4. o \notin objectsMap /\ \A s \in Sessions : o \notin sessionMap[s]
  BY <1>2 DEF Inv, HeldAlive
<1>5. childrenMap' \in [Objects -> SUBSET Objects]
  BY <1>1 DEF Inv, TypeOK
<1>6. Registered' \subseteq Registered \cup {o}
  BY <1>1 DEF Registered
<1>7. /\ sessionMap' \in [Sessions -> SUBSET Objects]
      /\ reverseSessionMap' \in [Objects -> SUBSET Sessions]
      /\ sessionInUse' \in [Sessions -> {"none", "true", "false"}]
      /\ \A s \in Sessions : sessionMap'[s] \subseteq sessionMap[s] \cup UNION {Path(x) : x \in {o}}
      /\ SessionDuality' /\ LinkedParentsInSession'
  <2>1. TypeOK /\ SessionDuality /\ LinkedParentsInSession /\ {o} \in SUBSET Objects
    BY <1>1 DEF Inv
  <2>2. \A x \in Registered' : x \in Registered \/ \A s \in Sessions : x \notin sessionMap[s]
    BY <1>4, <1>6
  <2> QED BY <2>1, <2>2, <1>1, <1>5, RefPreserves
<1>8. TypeOK'
  BY <1>1, <1>5, <1>7 DEF Inv, TypeOK, Steps
<1>9. \A u \in Threads : u # t => pc'[u] = pc[u] /\ req'[u] = req[u] /\ held'[u] = held[u]
  BY <1>1 DEF Inv, TypeOK
<1>10. pc'[t] = "created" /\ req'[t].o = o /\ held'[t] = {o}
  BY <1>1 DEF Inv, TypeOK
<1>11. RequestInv'
  BY <1>1, <1>2, <1>9, <1>10 DEF Inv, RequestInv
<1>12. HeldAlive'
  <2>1. \A x \in objectsMap' : Path(x) \subseteq objectsMap'
    BY <1>1, <1>3 DEF Inv, HeldAlive
  <2>2. objectsMap' \subseteq alive' /\ objectsMap' \cap toDelete' = {}
    BY <1>1, <1>2 DEF Inv, HeldAlive, RequestInv
  <2>3. \A s \in Sessions : sessionMap'[s] \subseteq objectsMap'
    BY <1>1, <1>3, <1>7 DEF Inv, HeldAlive
  <2>4. \A u \in Threads : held'[u] \subseteq objectsMap'
    BY <1>1, <1>9, <1>10 DEF Inv, HeldAlive
  <2>5. Registered' \subseteq objectsMap' /\ toRelease' \subseteq objectsMap'
        /\ pipes' \subseteq objectsMap'
    BY <1>1, <1>6 DEF Inv, HeldAlive
  <2> QED BY <2>1, <2>2, <2>3, <2>4, <2>5 DEF HeldAlive
<1> QED BY <1>7, <1>8, <1>11, <1>12 DEF Inv

(* The steps of a request that refs, unrefs or releases its object. *)
LEMMA RequestInvs ==
  ASSUME Inv, NEW t \in Threads,
         RefCreated(t) \/ RefObject(t) \/ UnrefObject(t) \/ ReleaseObject(t)
         \/ AddEventHandler(t) \/ Finish(t)
  PROVE  Inv'
<1> DEFINE o == req[t].o
           s == req[t].s
<1>1. o \in Objects /\ s \in Sessions /\ held[t] \subseteq objectsMap
  BY DEF Inv, TypeOK, Request, HeldAlive
<1>2. pc[t] \in {"created", "ref", "unref", "release"} => o \in objectsMap
  BY <1>1 DEF Inv, RequestInv
<1>3. {s} \in SUBSET Sessions /\ Sessions \in SUBSET Sessions /\ {} \in SUBSET Sessions
  BY <1>1
<1>4. CASE RefCreated(t)
  <2>1. o \in objectsMap /\ Ref({s}, {o}) /\ Return(t)
        /\ UNCHANGED <<objectsMap, childrenMap, eventHandler, life, main>>
    BY <1>4, <1>2 DEF RefCreated
  <2>2. /\ sessionMap' \in [Sessions -> SUBSET Objects]
        /\ reverseSessionMap' \in [Objects -> SUBSET Sessions]
        /\ sessionInUse' \in [Sessions -> {"none", "true", "false"}]
        /\ \A x \in Sessions : sessionMap'[x] \subseteq objectsMap
        /\ SessionDuality' /\ LinkedParentsInSession'
    BY <2>1, <1>3, RefStep
  <2>3. /\ RequestInv'
        /\ pc' \in [Threads -> Steps] /\ req' \in [Threads -> Request]
        /\ held' \in [Threads -> SUBSET Objects]
        /\ \A u \in Threads : held'[u] \subseteq objectsMap
    BY <2>1, ReturnStep
  <2>4. TypeOK'
    BY <2>1, <2>2, <2>3 DEF Inv, TypeOK, Return
  <2>5. HeldAlive'
    BY <2>1, <2>2, <2>3 DEF Inv, HeldAlive, Registered
  <2> QED BY <2>2, <2>3, <2>4, <2>5 DEF Inv
<1>5. CASE RefObject(t)
  <2>1. o \in objectsMap /\ Ref({s}, {o}) /\ pc[t] = "ref"
        /\ pc' = [pc EXCEPT ![t] = "using"] /\ req' = [req EXCEPT ![t] = req[t]]
        /\ held' = [held EXCEPT ![t] = held[t]] /\ UNCHANGED <<requests, held>>
        /\ UNCHANGED <<objectsMap, childrenMap, eventHandler, life, main>>
    BY <1>5, <1>2 DEF RefObject, Go, Inv, TypeOK
  <2>2. /\ sessionMap' \in [Sessions -> SUBSET Objects]
        /\ reverseSessionMap' \in [Objects -> SUBSET Sessions]
        /\ sessionInUse' \in [Sessions -> {"none", "true", "false"}]
        /\ \A x \in Sessions : sessionMap'[x] \subseteq objectsMap
        /\ SessionDuality' /\ LinkedParentsInSession'
    BY <2>1, <1>3, RefStep
  <2>3. /\ RequestInv'
        /\ pc' \in [Threads -> Steps] /\ req' \in [Threads -> Request]
        /\ held' \in [Threads -> SUBSET Objects]
    <3>1. /\ "using" \in Steps \ {"construct"} /\ req[t] \in Request
          /\ held[t] \in SUBSET Objects /\ ~("using" \in {"created", "ref", "unref", "release"})
      BY DEF Steps, Inv, TypeOK
    <3> QED BY <2>1, <3>1, RequestStep
  <2>4. TypeOK'
    BY <2>1, <2>2, <2>3 DEF Inv, TypeOK
  <2>5. HeldAlive'
    BY <2>1, <2>2 DEF Inv, HeldAlive, Registered
  <2> QED BY <2>2, <2>3, <2>4, <2>5 DEF Inv
<1>6. ASSUME NEW S \in SUBSET Sessions, NEW V \in SUBSET objectsMap, Closed(V),
             Unref(S, V, {}), Return(t),
             UNCHANGED <<objectsMap, sessionInUse, toDelete, created, alive, main>>
      PROVE  Inv'
  <2>1. /\ sessionInUse' \in [Sessions -> {"none", "true", "false"}]
        /\ \A x \in Sessions : sessionInUse'[x] = "none" /\ sessionInUse[x] # "none"
                               => x \in S /\ sessionMap[x] \subseteq V
    BY <1>6 DEF Inv, TypeOK
  <2>2. /\ sessionMap' \in [Sessions -> SUBSET Objects]
        /\ reverseSessionMap' \in [Objects -> SUBSET Sessions]
        /\ childrenMap' \in [Objects -> SUBSET Objects]
        /\ eventHandler' \in SUBSET (Sessions \X Objects)
        /\ toRelease' \in SUBSET Objects
        /\ toRelease' \subseteq objectsMap
        /\ Registered' \subseteq objectsMap
        /\ \A x \in Sessions : sessionMap'[x] \subseteq objectsMap
        /\ SessionDuality' /\ LinkedParentsInSession'
    BY <1>6, <1>3, <2>1, UnrefStep
  <2>3. /\ RequestInv'
        /\ pc' \in [Threads -> Steps] /\ req' \in [Threads -> Request]
        /\ held' \in [Threads -> SUBSET Objects]
        /\ \A u \in Threads : held'[u] \subseteq objectsMap
    BY <1>6, ReturnStep
  <2>4. TypeOK'
    BY <1>6, <2>1, <2>2, <2>3 DEF Inv, TypeOK, Return
  <2>5. HeldAlive'
    BY <1>6, <2>2, <2>3 DEF Inv, HeldAlive
  <2> QED BY <2>2, <2>3, <2>4, <2>5 DEF Inv
<1>7. CASE UnrefObject(t)
  <2>1. o \in objectsMap
    BY <1>7, <1>2 DEF UnrefObject
  <2>2. Subtree(o) \in SUBSET objectsMap /\ Closed(Subtree(o))
    BY <2>1, VisitsFacts DEF Inv
  <2> QED BY <1>3, <1>6, <1>7, <2>2 DEF UnrefObject
<1>8. CASE ReleaseObject(t)
  <2>1. o \in objectsMap
    BY <1>8, <1>2 DEF ReleaseObject
  <2>2. ReleaseVisits(o) \in SUBSET objectsMap /\ Closed(ReleaseVisits(o))
    BY <2>1, VisitsFacts DEF Inv
  <2> QED BY <1>3, <1>6, <1>8, <2>2 DEF ReleaseObject
<1>9. CASE AddEventHandler(t)
  <2>1. /\ eventHandler' \in SUBSET (Sessions \X Objects) /\ Return(t)
        /\ UNCHANGED <<objectsMap, childrenMap, sessionMap, reverseSessionMap, sessionInUse,
                       life, main>>
    BY <1>9, <1>1 DEF AddEventHandler, Inv, TypeOK
  <2>2. /\ RequestInv'
        /\ pc' \in [Threads -> Steps] /\ req' \in [Threads -> Request]
        /\ held' \in [Threads -> SUBSET Objects]
        /\ \A u \in Threads : held'[u] \subseteq objectsMap
    BY <2>1, ReturnStep
  <2>3. TypeOK'
    BY <2>1, <2>2 DEF Inv, TypeOK, Return
  <2>4. SessionDuality' /\ LinkedParentsInSession' /\ HeldAlive'
    BY <2>1, <2>2 DEF Inv, SessionDuality, LinkedParentsInSession, HeldAlive, Registered
  <2> QED BY <2>2, <2>3, <2>4 DEF Inv
<1>10. CASE Finish(t)
  <2>1. Return(t) /\ UNCHANGED <<maps, life, main>>
    BY <1>10 DEF Finish
  <2>2. /\ RequestInv'
        /\ pc' \in [Threads -> Steps] /\ req' \in [Threads -> Request]
        /\ held' \in [Threads -> SUBSET Objects]
        /\ \A u \in Threads : held'[u] \subseteq objectsMap
    BY <2>1, ReturnStep
  <2>3. TypeOK'
    BY <2>1, <2>2 DEF Inv, TypeOK, Return
  <2>4. SessionDuality' /\ LinkedParentsInSession' /\ HeldAlive'
    BY <2>1, <2>2, SameMaps
  <2> QED BY <2>2, <2>3, <2>4 DEF Inv
<1> QED BY <1>4, <1>5, <1>7, <1>8, <1>9, <1>10

(* The requests that start with a lookup and those served by one critical section. *)
LEMMA ClientInvs ==
  ASSUME Inv, NEW t \in Threads, ClientRequest(t)
  PROVE  Inv'
<1>1. ASSUME NEW s \in Sessions, NEW o \in Objects, NEW p \in {"ref", "unref", "release"},
             GetMediaObject(t, s, o, p)
      PROVE  Inv'
  <2>1. /\ o \in objectsMap /\ requests' = requests + 1
        /\ pc' = [pc EXCEPT ![t] = p] /\ req' = [req EXCEPT ![t] = [s |-> s, o |-> o]]
        /\ held' = [held EXCEPT ![t] = {o}] /\ UNCHANGED <<maps, life, main>>
    BY <1>1 DEF GetMediaObject, Begin, Gettable
  <2>2. [s |-> s, o |-> o] \in Request /\ p \in Steps \ {"construct"} /\ {o} \in SUBSET Objects
    BY DEF Request, Steps
  <2>3. /\ RequestInv'
        /\ pc' \in [Threads -> Steps] /\ req' \in [Threads -> Request]
        /\ held' \in [Threads -> SUBSET Objects]
    BY <2>1, <2>2, RequestStep
  <2>4. TypeOK'
    BY <2>1, <2>3 DEF Inv, TypeOK
  <2>5. \A u \in Threads : held'[u] \subseteq objectsMap
    BY <2>1 DEF Inv, TypeOK, HeldAlive
  <2>6. SessionDuality' /\ LinkedParentsInSession' /\ HeldAlive'
    BY <2>1, <2>5, SameMaps
  <2> QED BY <2>3, <2>4, <2>6 DEF Inv
<1>2. ASSUME NEW s \in Sessions, NEW o \in Objects, RemoveEventHandler(t, s, o)
      PROVE  Inv'
  <2>1. /\ eventHandler' \in SUBSET (Sessions \X Objects)
        /\ UNCHANGED <<objectsMap, childrenMap, sessionMap, reverseSessionMap, sessionInUse,
                       life, main>>
    BY <1>2 DEF RemoveEventHandler, Inv, TypeOK
  <2>2. RequestInv' /\ requests' \in Nat /\ UNCHANGED <<pc, req, held>>
    BY <1>2, <2>1, ServeStep DEF RemoveEventHandler
  <2>3. TypeOK'
    BY <2>1, <2>2 DEF Inv, TypeOK
  <2>4. SessionDuality' /\ LinkedParentsInSession' /\ HeldAlive'
    BY <2>1, <2>2 DEF Inv, SessionDuality, LinkedParentsInSession, HeldAlive, Registered
  <2> QED BY <2>2, <2>3, <2>4 DEF Inv
<1>3. ASSUME NEW s \in Sessions, KeepAliveSession(t, s)
      PROVE  Inv'
  <2>1. /\ sessionInUse' = [sessionInUse EXCEPT ![s] = "true"]
        /\ UNCHANGED <<objectsMap, childrenMap, sessionMap, reverseSessionMap, eventHandler,
                       life, main>>
    BY <1>3 DEF KeepAliveSession
  <2>2. RequestInv' /\ requests' \in Nat /\ UNCHANGED <<pc, req, held>>
    BY <1>3, <2>1, ServeStep DEF KeepAliveSession
  <2>3. TypeOK'
    BY <2>1, <2>2 DEF Inv, TypeOK
  <2>4. SessionDuality' /\ LinkedParentsInSession' /\ HeldAlive'
    BY <2>1, <2>2 DEF Inv, TypeOK, SessionDuality, LinkedParentsInSession, HeldAlive, Registered
  <2> QED BY <2>2, <2>3, <2>4 DEF Inv
<1>4. ASSUME NEW s \in Sessions, UnrefSession(t, s) \/ ReleaseSession(t, s)
      PROVE  Inv'
  <2>1. PICK S \in SUBSET Sessions : s \in S /\ Unref(S, SessionVisits(s), {s})
    BY <1>4 DEF UnrefSession, ReleaseSession
  <2>2. /\ sessionInUse' = [sessionInUse EXCEPT ![s] = "none"]
        /\ UNCHANGED <<objectsMap, toDelete, created, alive, main>>
    BY <1>4 DEF UnrefSession, ReleaseSession
  <2>3. RequestInv' /\ requests' \in Nat /\ UNCHANGED <<pc, req, held>>
    BY <1>4, <2>2, ServeStep DEF UnrefSession, ReleaseSession
  <2>4. /\ SessionVisits(s) \in SUBSET objectsMap /\ Closed(SessionVisits(s))
        /\ sessionMap[s] \subseteq SessionVisits(s)
    BY VisitsFacts DEF Inv
  <2>5. /\ sessionInUse' \in [Sessions -> {"none", "true", "false"}]
        /\ \A x \in Sessions : sessionInUse'[x] = "none" /\ sessionInUse[x] # "none"
                               => x \in S /\ sessionMap[x] \subseteq SessionVisits(s)
    BY <2>1, <2>2, <2>4 DEF Inv, TypeOK
  <2>6. /\ sessionMap' \in [Sessions -> SUBSET Objects]
        /\ reverseSessionMap' \in [Objects -> SUBSET Sessions]
        /\ childrenMap' \in [Objects -> SUBSET Objects]
        /\ eventHandler' \in SUBSET (Sessions \X Objects)
        /\ toRelease' \in SUBSET Objects
        /\ toRelease' \subseteq objectsMap
        /\ Registered' \subseteq objectsMap
        /\ \A x \in Sessions : sessionMap'[x] \subseteq objectsMap
        /\ SessionDuality' /\ LinkedParentsInSession'
    <3>1. {s} \in SUBSET Sessions
      OBVIOUS
    <3> QED BY <2>1, <2>4, <2>5, <3>1, UnrefStep
  <2>7. TypeOK'
    BY <2>2, <2>3, <2>5, <2>6 DEF Inv, TypeOK
  <2>8. HeldAlive'
    BY <2>2, <2>3, <2>6 DEF Inv, HeldAlive
  <2> QED BY <2>3, <2>6, <2>7, <2>8 DEF Inv
<1>5. ASSUME NEW s \in Sessions, GetPipelines(t, s)
      PROVE  Inv'
  <2> DEFINE O == {o \in Objects : Gettable(o)}
  <2>1. /\ O \subseteq objectsMap /\ requests' = requests + 1 /\ Ref({s}, O)
        /\ pc' = [pc EXCEPT ![t] = "using"]
        /\ req' = [req EXCEPT ![t] = [s |-> s, o |-> ServerManager]]
        /\ held' = [held EXCEPT ![t] = O \cap Pipelines]
        /\ UNCHANGED <<objectsMap, childrenMap, eventHandler, life, main>>
    BY <1>5 DEF GetPipelines, Begin, Gettable
  <2>2. O \cap Pipelines \in SUBSET Objects
    OBVIOUS
  <2> HIDE DEF O
  <2>3. /\ [s |-> s, o |-> ServerManager] \in Request /\ "using" \in Steps \ {"construct"}
        /\ ~("using" \in {"created", "ref", "unref", "release"})
    BY ConstantsAssumption DEF Request, Steps
  <2>4. /\ RequestInv'
        /\ pc' \in [Threads -> Steps] /\ req' \in [Threads -> Request]
        /\ held' \in [Threads -> SUBSET Objects]
    BY <2>1, <2>2, <2>3, RequestStep
  <2>5. /\ sessionMap' \in [Sessions -> SUBSET Objects]
        /\ reverseSessionMap' \in [Objects -> SUBSET Sessions]
        /\ sessionInUse' \in [Sessions -> {"none", "true", "false"}]
        /\ \A x \in Sessions : sessionMap'[x] \subseteq objectsMap
        /\ SessionDuality' /\ LinkedParentsInSession'
    <3>1. {s} \in SUBSET Sessions
      OBVIOUS
    <3> QED BY <2>1, <3>1, RefStep
  <2>6. TypeOK'
    BY <2>1, <2>4, <2>5 DEF Inv, TypeOK
  <2>7. \A u \in Threads : held'[u] \subseteq objectsMap
    BY <2>1 DEF Inv, TypeOK, HeldAlive
  <2>8. HeldAlive'
    BY <2>1, <2>5, <2>7 DEF Inv, HeldAlive, Registered
  <2> QED BY <2>4, <2>5, <2>6, <2>8 DEF Inv
<1> QED BY <1>1, <1>2, <1>3, <1>4, <1>5, ConstructInv DEF ClientRequest

(* A round of the collector: each idle session gives up all its objects. *)
LEMMA CollectInv ==
  ASSUME Inv, DoGarbageCollection
  PROVE  Inv'
<1> DEFINE idle == {s \in Sessions : sessionInUse[s] = "false"}
           V    == UNION {SessionVisits(s) : s \in idle}
<1>1. /\ Unref(idle, V, idle) /\ idle \in SUBSET Sessions
      /\ sessionInUse' = [s \in Sessions |-> IF sessionInUse[s] = "true" THEN "false"
                                             ELSE "none"]
      /\ UNCHANGED <<objectsMap, toDelete, created, alive, clients, main>>
  BY DEF DoGarbageCollection
<1>2. /\ V \in SUBSET objectsMap /\ Closed(V)
      /\ \A s \in idle : sessionMap[s] \subseteq V
  BY VisitsFacts DEF Inv, Closed
<1> HIDE DEF V
<1>3. /\ sessionInUse' \in [Sessions -> {"none", "true", "false"}]
      /\ \A x \in Sessions : sessionInUse'[x] = "none" /\ sessionInUse[x] # "none"
                             => x \in idle /\ sessionMap[x] \subseteq V
  BY <1>1, <1>2 DEF Inv, TypeOK
<1> HIDE DEF idle
<1>4. /\ sessionMap' \in [Sessions -> SUBSET Objects]
      /\ reverseSessionMap' \in [Objects -> SUBSET Sessions]
      /\ childrenMap' \in [Objects -> SUBSET Objects]
      /\ eventHandler' \in SUBSET (Sessions \X Objects)
      /\ toRelease' \in SUBSET Objects
      /\ toRelease' \subseteq objectsMap
      /\ Registered' \subseteq objectsMap
      /\ \A x \in Sessions : sessionMap'[x] \subseteq objectsMap
      /\ SessionDuality' /\ LinkedParentsInSession'
  BY <1>1, <1>2, <1>3, UnrefStep
<1>5. TypeOK'
  BY <1>1, <1>3, <1>4 DEF Inv, TypeOK
<1>6. HeldAlive' /\ RequestInv'
  BY <1>1, <1>4 DEF Inv, HeldAlive, RequestInv
<1> QED BY <1>4, <1>5, <1>6 DEF Inv

(* The tasks of the workers.  An object leaves objectsMap only when nobody holds
   it, a child of it included, so its descendants have left before. *)
LEMMA WorkerInvs ==
  ASSUME Inv, NEW o \in Objects, Worker(o)
  PROVE  Inv'
<1>1. CASE CallRelease(o)
  <2>1. toRelease' = toRelease \ {o} /\ UNCHANGED <<maps, toDelete, created, alive, clients, main>>
    BY <1>1 DEF CallRelease
  <2>2. TypeOK' /\ SessionDuality' /\ LinkedParentsInSession' /\ RequestInv'
    BY <2>1 DEF Inv, TypeOK, SessionDuality, LinkedParentsInSession, RequestInv, Registered
  <2>3. HeldAlive'
    BY <2>1 DEF Inv, HeldAlive, Registered
  <2> QED BY <2>2, <2>3 DEF Inv
<1>2. CASE AsyncDelete(o)
  <2>1. /\ o \in toDelete /\ toDelete' = toDelete \ {o} /\ alive' = alive \ {o}
        /\ UNCHANGED <<maps, toRelease, created, clients, main>>
    BY <1>2 DEF AsyncDelete
  <2>2. TypeOK' /\ SessionDuality' /\ LinkedParentsInSession' /\ RequestInv'
    BY <2>1 DEF Inv, TypeOK, SessionDuality, LinkedParentsInSession, RequestInv, Registered
  <2>3. HeldAlive'
    BY <2>1 DEF Inv, HeldAlive, Registered
  <2> QED BY <2>2, <2>3 DEF Inv
<1>3. CASE ReleasePointer(o)
  <2>1. /\ o \in objectsMap /\ ~Referenced(o)
        /\ objectsMap' = objectsMap \ {o} /\ toDelete' = toDelete \cup {o}
        /\ UNCHANGED <<childrenMap, sessionMap, reverseSessionMap, sessionInUse, eventHandler,
                       toRelease, created, alive, clients, mainPc, pipes, todo>>
        /\ emptySignal' \in BOOLEAN
    BY <1>3 DEF ReleasePointer, Inv, TypeOK
  <2>2. TypeOK' /\ SessionDuality' /\ LinkedParentsInSession'
    BY <2>1 DEF Inv, TypeOK, SessionDuality, LinkedParentsInSession, Registered
  <2>3. RequestInv'
    BY <2>1 DEF Inv, RequestInv, HeldAlive
  <2>4. ASSUME NEW x \in objectsMap' PROVE Path(x) \subseteq objectsMap'
    <3>1. x \in objectsMap /\ x # o /\ x \in Objects
      BY <2>1 DEF Inv, TypeOK
    <3>2. Path(x) \subseteq objectsMap /\ objectsMap \subseteq alive
      BY <3>1 DEF Inv, HeldAlive
    <3>3. ASSUME o \in Path(x) PROVE FALSE
      <4>1. o \in Anc[x]
        BY <3>1, <3>3 DEF Path
      <4>2. PICK c \in Path(x) : IsParent(o, c)
        BY <3>1, <4>1, ChildOnPath
      <4> QED BY <4>2, <3>2, <2>1 DEF Referenced
    <3> QED BY <3>2, <3>3, <2>1
  <2>5. HeldAlive'
    BY <2>1, <2>4 DEF Inv, HeldAlive, Referenced, Registered
  <2> QED BY <2>2, <2>3, <2>5 DEF Inv
<1> QED BY <1>1, <1>2, <1>3 DEF Worker

(* The shutdown. *)
LEMMA MainInvs ==
  ASSUME Inv, Main
  PROVE  Inv'
<1>1. CASE DeleteMediaSet
  <2> DEFINE O == {o \in Objects : Gettable(o)}
  <2>1. /\ O \subseteq objectsMap /\ Ref({DefaultSession}, O)
        /\ pipes' = O \cap Pipelines /\ todo' = pipes'
        /\ mainPc' \in {"stopped", "releasing"}
        /\ UNCHANGED <<objectsMap, childrenMap, eventHandler, life, clients, emptySignal>>
    BY <1>1 DEF DeleteMediaSet, Gettable
  <2>2. pipes' \subseteq Objects /\ pipes' \subseteq objectsMap
    BY <2>1
  <2> HIDE DEF O
  <2>3. /\ sessionMap' \in [Sessions -> SUBSET Objects]
        /\ reverseSessionMap' \in [Objects -> SUBSET Sessions]
        /\ sessionInUse' \in [Sessions -> {"none", "true", "false"}]
        /\ \A x \in Sessions : sessionMap'[x] \subseteq objectsMap
        /\ SessionDuality' /\ LinkedParentsInSession'
    <3>1. {DefaultSession} \in SUBSET Sessions
      BY ConstantsAssumption
    <3> QED BY <2>1, <3>1, RefStep
  <2>4. TypeOK'
    BY <2>1, <2>2, <2>3 DEF Inv, TypeOK
  <2>5. HeldAlive' /\ RequestInv'
    BY <2>1, <2>2, <2>3 DEF Inv, HeldAlive, RequestInv, Registered
  <2> QED BY <2>3, <2>4, <2>5 DEF Inv
<1>2. ASSUME NEW o \in Objects, MainRelease(o)
      PROVE  Inv'
  <2>1. /\ o \in todo /\ Unref(Sessions, ReleaseVisits(o), {}) /\ todo' = todo \ {o}
        /\ UNCHANGED <<objectsMap, sessionInUse, toDelete, created, alive, clients,
                       mainPc, pipes, emptySignal>>
    BY <1>2 DEF MainRelease
  <2>2. o \in objectsMap
    BY <2>1 DEF Inv, TypeOK, HeldAlive
  <2>3. ReleaseVisits(o) \in SUBSET objectsMap /\ Closed(ReleaseVisits(o))
    BY <2>2, VisitsFacts DEF Inv
  <2>4. /\ sessionInUse' \in [Sessions -> {"none", "true", "false"}]
        /\ \A x \in Sessions : sessionInUse'[x] = "none" /\ sessionInUse[x] # "none"
                               => x \in Sessions /\ sessionMap[x] \subseteq ReleaseVisits(o)
    BY <2>1 DEF Inv, TypeOK
  <2>5. /\ sessionMap' \in [Sessions -> SUBSET Objects]
        /\ reverseSessionMap' \in [Objects -> SUBSET Sessions]
        /\ childrenMap' \in [Objects -> SUBSET Objects]
        /\ eventHandler' \in SUBSET (Sessions \X Objects)
        /\ toRelease' \in SUBSET Objects
        /\ toRelease' \subseteq objectsMap
        /\ Registered' \subseteq objectsMap
        /\ \A x \in Sessions : sessionMap'[x] \subseteq objectsMap
        /\ SessionDuality' /\ LinkedParentsInSession'
    <3>1. Sessions \in SUBSET Sessions /\ {} \in SUBSET Sessions
      OBVIOUS
    <3> QED BY <2>1, <2>3, <2>4, <3>1, UnrefStep
  <2>6. TypeOK'
    BY <2>1, <2>4, <2>5 DEF Inv, TypeOK
  <2>7. HeldAlive' /\ RequestInv'
    BY <2>1, <2>5 DEF Inv, HeldAlive, RequestInv
  <2> QED BY <2>5, <2>6, <2>7 DEF Inv
<1>3. CASE MainClear
  BY <1>3 DEF MainClear, Inv, TypeOK, SessionDuality, LinkedParentsInSession, HeldAlive,
              RequestInv, Registered
<1>4. CASE MainStop
  BY <1>4 DEF MainStop, Inv, TypeOK, SessionDuality, LinkedParentsInSession, HeldAlive,
              RequestInv, Registered
<1> QED BY <1>1, <1>2, <1>3, <1>4 DEF Main

(* Every step keeps the invariant. *)
LEMMA NextInv == Inv /\ [Next]_vars => Inv'
<1> SUFFICES ASSUME Inv, [Next]_vars PROVE Inv'
  OBVIOUS
<1>1. ASSUME NEW t \in Threads, ClientRequest(t) \/ AddEventHandler(t) \/ Proceed(t)
      PROVE  Inv'
  BY <1>1, ClientInvs, RequestInvs, RegisterInv DEF Proceed
<1>2. CASE DoGarbageCollection
  BY <1>2, CollectInv
<1>3. ASSUME NEW o \in Objects, Worker(o) PROVE Inv'
  BY <1>3, WorkerInvs
<1>4. CASE Main
  BY <1>4, MainInvs
<1>5. CASE UNCHANGED vars
  BY <1>5 DEF vars, Inv, TypeOK, SessionDuality, LinkedParentsInSession, HeldAlive,
              RequestInv, Registered
<1> QED BY <1>1, <1>2, <1>3, <1>4, <1>5 DEF Next

-----------------------------------------------------------------------------
(* The theorems.                                                           *)

(* The invariant holds in every reachable state. *)
LEMMA InvHolds == Safety => []Inv
<1>1. Init => Inv
  BY InitInv
<1>2. Inv /\ [Next]_vars => Inv'
  BY NextInv
<1> QED BY <1>1, <1>2, PTL DEF Safety

(* The registry's state is well typed, for every forest of objects, session ids
   and threads. *)
THEOREM TypeCorrect == Safety => []TypeOK
<1>1. Inv => TypeOK
  BY DEF Inv
<1> QED BY <1>1, InvHolds, PTL

(* sessionMap and reverseSessionMap stay inverse to each other and the collector
   knows every session that owns an object, however the operations interleave. *)
THEOREM DualityHolds == Safety => []SessionDuality
<1>1. Inv => SessionDuality
  BY DEF Inv
<1> QED BY <1>1, InvHolds, PTL

(* A session that owns a registered child owns its parent. *)
THEOREM LinkedParentsHold == Safety => []LinkedParentsInSession
<1>1. Inv => LinkedParentsInSession
  BY DEF Inv
<1> QED BY <1>1, InvHolds, PTL

(* No pointer the registry, a thread or a task holds is dangling. *)
THEOREM NoDanglingPointer == Safety => []HeldAlive
<1>1. Inv => HeldAlive
  BY DEF Inv
<1> QED BY <1>1, InvHolds, PTL

(* An object that leaves a session in a step takes the handlers along. *)
HandlersLeave ==
  \A s \in Sessions : \A o \in sessionMap[s] \ sessionMap'[s] : <<s, o>> \notin eventHandler'

(* ref takes no object out of a session. *)
LEMMA RefHandlers ==
  ASSUME TypeOK, NEW S, NEW O, Ref(S, O)
  PROVE  HandlersLeave
  BY DEF Ref, HandlersLeave, TypeOK

(* unref erases the handlers of the sessions it leaves on the objects it visits. *)
LEMMA UnrefHandlers ==
  ASSUME TypeOK, NEW S, NEW V, NEW closed, Unref(S, V, closed)
  PROVE  HandlersLeave
  BY DEF Unref, HandlersLeave, TypeOK

(* No step takes an object out of a session and leaves the handlers the session
   has on it behind. *)
THEOREM HandlersFollowHolds == Safety => HandlersFollow
<1>1. ASSUME TypeOK, [Next]_vars PROVE HandlersLeave
  <2>1. CASE UNCHANGED sessionMap
    BY <2>1 DEF HandlersLeave
  <2>2. ASSUME NEW t \in Threads, ClientRequest(t) \/ AddEventHandler(t) \/ Proceed(t)
        PROVE  HandlersLeave
    <3>1. CASE ClientRequest(t)
      BY <3>1, <2>1, <1>1, RefHandlers, UnrefHandlers
         DEF ClientRequest, Construct, GetMediaObject, RemoveEventHandler, KeepAliveSession,
             UnrefSession, ReleaseSession, GetPipelines
    <3>2. CASE AddEventHandler(t)
      BY <3>2, <2>1 DEF AddEventHandler
    <3>3. CASE Proceed(t)
      BY <3>3, <2>1, <1>1, RefHandlers, UnrefHandlers
         DEF Proceed, Register, RefCreated, RefObject, UnrefObject, ReleaseObject, Finish
    <3> QED BY <2>2, <3>1, <3>2, <3>3
  <2>3. CASE DoGarbageCollection
    BY <2>3, <1>1, UnrefHandlers DEF DoGarbageCollection
  <2>4. ASSUME NEW o \in Objects, Worker(o) PROVE HandlersLeave
    BY <2>4, <2>1 DEF Worker, CallRelease, ReleasePointer, AsyncDelete
  <2>5. CASE Main
    BY <2>5, <2>1, <1>1, RefHandlers, UnrefHandlers
       DEF Main, DeleteMediaSet, MainRelease, MainClear, MainStop
  <2>6. CASE UNCHANGED vars
    BY <2>6, <2>1 DEF vars
  <2> QED BY <1>1, <2>2, <2>3, <2>4, <2>5, <2>6 DEF Next
<1>2. HandlersFollow <=> [][HandlersLeave]_vars
  BY DEF HandlersFollow, HandlersLeave
<1> QED BY <1>1, <1>2, TypeCorrect, PTL DEF Safety
=============================================================================
