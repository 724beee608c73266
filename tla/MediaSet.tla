------------------------------- MODULE MediaSet -------------------------------
(***************************************************************************)
(* The registry of media objects of the server (MediaSet.cpp): which       *)
(* objects exist, which client sessions keep them alive, the periodic      *)
(* collector of idle sessions, the worker pool that releases and deletes   *)
(* objects, and the shutdown of the registry.                              *)
(*                                                                         *)
(* Every public operation locks recMutex, so one critical section is one   *)
(* action.  What is NOT atomic is modelled step by step: an operation that *)
(* takes an object id first looks the object up (getMediaObject locks and  *)
(* unlocks), then locks again to do its work; a factory looks the parent   *)
(* up, constructs the object without any lock, registers it, and only then *)
(* refs it for the session of the request.                                 *)
(***************************************************************************)
EXTENDS Naturals, FiniteSets

CONSTANTS
  Objects,        \* identities of media objects; an id (a UUID) is never reused
  Anc,            \* Anc[o]: the ancestors of o, which the id path of o spells out
  Pipelines,      \* the objects that are media pipelines
  ServerManager,  \* the object set with setServerManager, never released
  Sessions,       \* session ids
  DefaultSession, \* the session "" that getPipelines() uses when none is given
  Threads,        \* threads that serve client requests
  Shutdown,       \* whether deleteMediaSet may be called in this instance
  MaxRequests     \* bound: number of client requests of a behaviour

(* p is the parent of o: the last of the ancestors of o. *)
IsParent(p, o) == p \in Anc[o] /\ Anc[o] = Anc[p] \cup {p}

ASSUME AncAssumption ==
  /\ Anc \in [Objects -> SUBSET Objects]
  /\ \A o \in Objects : o \notin Anc[o] /\ \A p \in Anc[o] : Anc[p] \subseteq Anc[o]
  /\ \A o \in Objects : Anc[o] # {} => \E p \in Objects : IsParent(p, o)
  /\ \A o \in Objects : \A a \in Anc[o] : \E c \in Anc[o] \cup {o} : IsParent(a, c)

ASSUME ConstantsAssumption ==
  /\ Pipelines \subseteq Objects /\ ServerManager \in Objects \ Pipelines
  /\ Anc[ServerManager] = {} /\ \A o \in Objects : ServerManager \notin Anc[o]
  /\ DefaultSession \in Sessions
  /\ Shutdown \in BOOLEAN
  /\ MaxRequests \in Nat

VARIABLES
  objectsMap,        \* objects whose weak pointer is registered
  childrenMap,       \* childrenMap[p]: registered children of p, held strongly
  sessionMap,        \* sessionMap[s]: objects session s keeps alive
  reverseSessionMap, \* reverseSessionMap[o]: sessions that keep o alive
  sessionInUse,      \* "none" (no such key), "true" or "false" per session
  eventHandler,      \* <<s, o>>: session s has event handlers on object o
  toRelease,         \* objects with a posted call_release task, which holds a pointer
  toDelete,          \* posted async_delete tasks
  created,           \* ids handed out so far
  alive,             \* constructed and not yet deleted
  pc, req, held,     \* per thread: step, request, local shared pointers
  requests,          \* number of client requests so far
  mainPc, pipes, todo, emptySignal  \* deleteMediaSet: step, pointers, left to release

maps    == <<objectsMap, childrenMap, sessionMap, reverseSessionMap, sessionInUse,
             eventHandler>>
life    == <<toRelease, toDelete, created, alive>>
clients == <<pc, req, held, requests>>
main    == <<mainPc, pipes, todo, emptySignal>>
vars    == <<maps, life, clients, main>>

Request == [s : Sessions, o : Objects]
NoRequest == [s |-> DefaultSession, o |-> ServerManager]
Steps   == {"idle", "construct", "created", "ref", "unref", "release", "using"}

(* The type invariant; the shutdown has only pipelines it points to left to release. *)
TypeOK ==
  /\ objectsMap \in SUBSET Objects
  /\ childrenMap \in [Objects -> SUBSET Objects]
  /\ sessionMap \in [Sessions -> SUBSET Objects]
  /\ reverseSessionMap \in [Objects -> SUBSET Sessions]
  /\ sessionInUse \in [Sessions -> {"none", "true", "false"}]
  /\ eventHandler \in SUBSET (Sessions \X Objects)
  /\ toRelease \in SUBSET Objects
  /\ toDelete \in SUBSET Objects
  /\ created \in SUBSET Objects
  /\ alive \in SUBSET Objects
  /\ pc \in [Threads -> Steps]
  /\ req \in [Threads -> Request]
  /\ held \in [Threads -> SUBSET Objects]
  /\ requests \in Nat
  /\ mainPc \in {"run", "releasing", "waiting", "stopped"}
  /\ pipes \in SUBSET Objects
  /\ todo \in SUBSET pipes
  /\ emptySignal \in BOOLEAN

-----------------------------------------------------------------------------
(* Helpers on the maps.                                                    *)

Path(o) == Anc[o] \cup {o}

Registered == UNION {childrenMap[p] : p \in Objects}

(* The objects unref visits from o: o and what childrenMap reaches below it. *)
Subtree(o) ==
  {x \in Objects : \/ x = o
                   \/ /\ o \in Anc[x]
                      /\ Path(x) \ Path(o) \subseteq Registered}

(* A mutated form: the child has no pointer to its parent. *)
ReferencedNotByChild(o) ==
  \/ o = ServerManager
  \/ \E s \in Sessions : o \in sessionMap[s]
  \/ o \in Registered
  \/ \E t \in Threads : o \in held[t]
  \/ o \in toRelease \cup pipes

(* Someone holds a shared_ptr to o: a map, a thread, a posted task, the
   `parent' member of an existing child, or MediaSet's serverManager. *)
Referenced(o) ==
  \/ o = ServerManager
  \/ \E s \in Sessions : o \in sessionMap[s]
  \/ o \in Registered
  \/ \E t \in Threads : o \in held[t]
  \/ o \in toRelease
  \/ o \in pipes
  \/ \E c \in alive : IsParent(o, c)

(* getMediaObject (mediaObjectRef) succeeds. *)
Gettable(o) ==
  /\ o \in objectsMap
  /\ Referenced(o)
  /\ reverseSessionMap[o] # {} \/ o = ServerManager

(* A mutated form: the session is not kept alive, only the object. *)
RefNotKeepingAlive(S, O) ==
  LET P == UNION {Path(o) : o \in O}
  IN  /\ sessionMap' = [s \in Sessions |-> IF s \in S THEN sessionMap[s] \cup P
                                           ELSE sessionMap[s]]
      /\ reverseSessionMap' = [o \in Objects |-> IF o \in P THEN reverseSessionMap[o] \cup S
                                                 ELSE reverseSessionMap[o]]
      /\ UNCHANGED sessionInUse

(* A mutated form: the ancestors are not reffed. *)
RefNotAncestors(S, O) ==
  /\ sessionInUse' = [s \in Sessions |-> IF s \in S /\ O # {} THEN "true"
                                         ELSE sessionInUse[s]]
  /\ sessionMap' = [s \in Sessions |-> IF s \in S THEN sessionMap[s] \cup O
                                       ELSE sessionMap[s]]
  /\ reverseSessionMap' = [o \in Objects |-> IF o \in O THEN reverseSessionMap[o] \cup S
                                             ELSE reverseSessionMap[o]]

(* ref (sessionId, mediaObject) for every session of S and object of O: the
   session is kept alive, or created, and gets the object and its ancestors. *)
Ref(S, O) ==
  LET P == UNION {Path(o) : o \in O}
  IN  /\ sessionInUse' = [s \in Sessions |-> IF s \in S /\ O # {} THEN "true"
                                             ELSE sessionInUse[s]]
      /\ sessionMap' = [s \in Sessions |-> IF s \in S THEN sessionMap[s] \cup P
                                           ELSE sessionMap[s]]
      /\ reverseSessionMap' = [o \in Objects |-> IF o \in P THEN reverseSessionMap[o] \cup S
                                                 ELSE reverseSessionMap[o]]

(* The objects of V that are in no session once the sessions of S leave. *)
Orphans(S, V) == {o \in V : reverseSessionMap[o] \subseteq S}

(* A mutated form: the handlers of the session stay when the object leaves. *)
UnrefKeepingHandlers(S, V, closed) ==
  LET orphans == Orphans(S, V)
      gone    == orphans \ {ServerManager}
  IN  /\ sessionMap' = [s \in Sessions |-> IF s \in S THEN sessionMap[s] \ V
                                           ELSE sessionMap[s]]
      /\ reverseSessionMap' = [o \in Objects |-> IF o \in V THEN reverseSessionMap[o] \ S
                                                 ELSE reverseSessionMap[o]]
      /\ childrenMap' = [p \in Objects |-> IF p \in gone THEN {} ELSE childrenMap[p] \ gone]
      /\ eventHandler' = eventHandler \ (closed \X Objects)
      /\ toRelease' = toRelease \cup orphans

(* unref (s, o) for every s of S, V being the objects visited: each leaves the
   sessions; one left in no session is forgotten by childrenMap, unless it is
   the server manager, and its release is posted.  The sessions of closed end
   with all their event handlers.  (unrefSession visits a child through its parent
   and again by itself and then posts its release twice; the two tasks are one
   here, release () being idempotent.) *)
Unref(S, V, closed) ==
  LET orphans == Orphans(S, V)
      gone    == orphans \ {ServerManager}
  IN  /\ sessionMap' = [s \in Sessions |-> IF s \in S THEN sessionMap[s] \ V
                                           ELSE sessionMap[s]]
      /\ reverseSessionMap' = [o \in Objects |-> IF o \in V THEN reverseSessionMap[o] \ S
                                                 ELSE reverseSessionMap[o]]
      /\ childrenMap' = [p \in Objects |-> IF p \in gone THEN {} ELSE childrenMap[p] \ gone]
      /\ eventHandler' = eventHandler \ ((S \X V) \cup (closed \X Objects))
      /\ toRelease' = toRelease \cup orphans

(* release (mediaObject): unref from all its sessions; "Already released" if none. *)
ReleaseVisits(o) == IF reverseSessionMap[o] = {} THEN {} ELSE Subtree(o)

(* What unrefSession visits: the objects of the session and what is below them. *)
SessionVisits(s) == UNION {Subtree(o) : o \in sessionMap[s]}

-----------------------------------------------------------------------------
(* The initial state: an empty registry with its server manager.           *)

Init ==
  /\ objectsMap = {ServerManager}
  /\ childrenMap = [o \in Objects |-> {}]
  /\ sessionMap = [s \in Sessions |-> {}]
  /\ reverseSessionMap = [o \in Objects |-> {}]
  /\ sessionInUse = [s \in Sessions |-> "none"]
  /\ eventHandler = {}
  /\ toRelease = {}
  /\ toDelete = {}
  /\ created = {ServerManager}
  /\ alive = {ServerManager}
  /\ pc = [t \in Threads |-> "idle"]
  /\ req = [t \in Threads |-> NoRequest]
  /\ held = [t \in Threads |-> {}]
  /\ requests = 0
  /\ mainPc = "run"
  /\ pipes = {}
  /\ todo = {}
  /\ emptySignal = FALSE

-----------------------------------------------------------------------------
(* Client requests.                                                        *)

(* MediaSet::getMediaSet (): deleteMediaSet keeps its mutex while it releases the
   pipelines and gives it up while it waits. *)
GetMediaSet == mainPc \in {"run", "waiting"}

(* A request starts, in thread t, at step p with the pointers of h. *)
Begin(t, s, o, p, h) ==
  /\ pc[t] = "idle" /\ requests < MaxRequests /\ GetMediaSet
  /\ requests' = requests + 1
  /\ pc' = [pc EXCEPT ![t] = p]
  /\ req' = [req EXCEPT ![t] = [s |-> s, o |-> o]]
  /\ held' = [held EXCEPT ![t] = h]

(* A request served by one critical section. *)
Serve(t) ==
  /\ pc[t] = "idle" /\ requests < MaxRequests /\ GetMediaSet
  /\ requests' = requests + 1
  /\ UNCHANGED <<pc, req, held>>

(* Thread t goes on to step p keeping the pointers of h. *)
Go(t, p, h) ==
  /\ pc' = [pc EXCEPT ![t] = p]
  /\ held' = [held EXCEPT ![t] = h]
  /\ UNCHANGED <<req, requests>>

(* The request of thread t is over; its local variables and pointers go. *)
Return(t) ==
  /\ pc' = [pc EXCEPT ![t] = "idle"]
  /\ held' = [held EXCEPT ![t] = {}]
  /\ req' = [req EXCEPT ![t] = NoRequest]
  /\ UNCHANGED requests

(* Factory::createObject up to the constructor: the parent named in the
   parameters is looked up, the object is built with a pointer to it. *)
Construct(t, s, o) ==
  /\ o \notin created
  /\ \A p \in Objects : IsParent(p, o) => Gettable(p)
  /\ created' = created \cup {o}
  /\ Begin(t, s, o, "construct", {p \in Objects : IsParent(p, o)})
  /\ UNCHANGED <<maps, toRelease, toDelete, alive, main>>

(* MediaSet::ref (mediaObjectPtr): the object is registered, also as a child of
   its parent, and is reffed for every session of its parent. *)
Register(t) ==
  LET o      == req[t].o
      parent == {p \in Objects : IsParent(p, o)}
      S      == UNION {reverseSessionMap[p] : p \in parent}
  IN  /\ pc[t] = "construct" /\ GetMediaSet
      /\ objectsMap' = objectsMap \cup {o}
      /\ childrenMap' = [p \in Objects |-> IF p \in parent THEN childrenMap[p] \cup {o}
                                           ELSE childrenMap[p]]
      /\ Ref(S, {o})
      /\ alive' = alive \cup {o}
      /\ Go(t, "created", {o})
      /\ UNCHANGED <<eventHandler, toRelease, toDelete, created, main>>

(* Factory::createObject, last step: ref (session, object). *)
RefCreated(t) ==
  /\ pc[t] = "created" /\ GetMediaSet
  /\ Ref({req[t].s}, {req[t].o})
  /\ Return(t)
  /\ UNCHANGED <<objectsMap, childrenMap, eventHandler, life, main>>

(* getMediaObject (mediaObjectRef), the first half of ref, unref and release by
   id and of getMediaObject (sessionId, mediaObjectRef).  When it throws, the
   request changes nothing. *)
GetMediaObject(t, s, o, p) ==
  /\ Gettable(o)
  /\ Begin(t, s, o, p, {o})
  /\ UNCHANGED <<maps, life, main>>

(* ref (sessionId, object), the second half of getMediaObject (sessionId, ...):
   the caller then uses the object.  The check that the object is in objectsMap
   cannot fail, since the thread holds a pointer to it (HeldAlive). *)
RefObject(t) ==
  /\ pc[t] = "ref"
  /\ Ref({req[t].s}, {req[t].o})
  /\ Go(t, "using", held[t])
  /\ UNCHANGED <<objectsMap, childrenMap, eventHandler, life, main>>

(* unref (sessionId, object). *)
UnrefObject(t) ==
  /\ pc[t] = "unref"
  /\ Unref({req[t].s}, Subtree(req[t].o), {})
  /\ Return(t)
  /\ UNCHANGED <<objectsMap, sessionInUse, toDelete, created, alive, main>>

(* release (object). *)
ReleaseObject(t) ==
  /\ pc[t] = "release"
  /\ Unref(Sessions, ReleaseVisits(req[t].o), {})
  /\ Return(t)
  /\ UNCHANGED <<objectsMap, sessionInUse, toDelete, created, alive, main>>

(* A mutated form: the two string parameters are swapped. *)
AddEventHandlerSwapped(t) ==
  /\ pc[t] = "using"
  /\ eventHandler' = eventHandler \cup {<<req[t].o, req[t].s>>}
  /\ Return(t)
  /\ UNCHANGED <<objectsMap, childrenMap, sessionMap, reverseSessionMap, sessionInUse,
                 life, main>>

(* addEventHandler, called with the object of the request in use. *)
AddEventHandler(t) ==
  /\ pc[t] = "using"
  /\ eventHandler' = eventHandler \cup {<<req[t].s, req[t].o>>}
  /\ Return(t)
  /\ UNCHANGED <<objectsMap, childrenMap, sessionMap, reverseSessionMap, sessionInUse,
                 life, main>>

(* The request is over and its pointers go. *)
Finish(t) ==
  /\ pc[t] = "using"
  /\ Return(t)
  /\ UNCHANGED <<maps, life, main>>

(* removeEventHandler: a no-op for a session or object without handlers. *)
RemoveEventHandler(t, s, o) ==
  /\ Serve(t)
  /\ eventHandler' = eventHandler \ {<<s, o>>}
  /\ UNCHANGED <<objectsMap, childrenMap, sessionMap, reverseSessionMap, sessionInUse,
                 life, main>>

(* keepAliveSession (sessionId): an unknown session throws. *)
KeepAliveSession(t, s) ==
  /\ sessionInUse[s] # "none"
  /\ Serve(t)
  /\ sessionInUse' = [sessionInUse EXCEPT ![s] = "true"]
  /\ UNCHANGED <<objectsMap, childrenMap, sessionMap, reverseSessionMap, eventHandler,
                 life, main>>

(* unrefSession: the session gives up its objects. *)
UnrefSession(t, s) ==
  /\ Serve(t)
  /\ Unref({s}, SessionVisits(s), {s})
  /\ sessionInUse' = [sessionInUse EXCEPT ![s] = "none"]
  /\ UNCHANGED <<objectsMap, toDelete, created, alive, main>>

(* releaseSession: the objects of the session are released from every session. *)
ReleaseSession(t, s) ==
  /\ Serve(t)
  /\ Unref(Sessions, SessionVisits(s), {s})
  /\ sessionInUse' = [sessionInUse EXCEPT ![s] = "none"]
  /\ UNCHANGED <<objectsMap, toDelete, created, alive, main>>

(* getPipelines (sessionId): a getter, yet every object that can be got is
   reffed for the session; the caller keeps the pipelines while it answers. *)
GetPipelines(t, s) ==
  LET O == {o \in Objects : Gettable(o)}
  IN  /\ Begin(t, s, ServerManager, "using", O \cap Pipelines)
      /\ Ref({s}, O)
      /\ UNCHANGED <<objectsMap, childrenMap, eventHandler, life, main>>

-----------------------------------------------------------------------------
(* The collector thread and the worker pool.                               *)

(* A mutated form: a session in use stays in use. *)
CollectNothing ==
  LET idle == {s \in Sessions : sessionInUse[s] = "false"}
  IN  /\ mainPc # "stopped"
      /\ Unref(idle, UNION {SessionVisits(s) : s \in idle}, idle)
      /\ UNCHANGED <<sessionInUse, objectsMap, toDelete, created, alive, clients, main>>

(* doGarbageCollection: its thread already holds the recursive recMutex, so the
   unlocks inside do not let anyone in and the whole round is one step.  A session
   seen in use becomes not in use; one not in use is unreffed. *)
DoGarbageCollection ==
  LET idle == {s \in Sessions : sessionInUse[s] = "false"}
  IN  /\ mainPc # "stopped"
      /\ Unref(idle, UNION {SessionVisits(s) : s \in idle}, idle)
      /\ sessionInUse' = [s \in Sessions |-> IF sessionInUse[s] = "true" THEN "false"
                                             ELSE "none"]
      /\ UNCHANGED <<objectsMap, toDelete, created, alive, clients, main>>

(* A worker runs call_release and drops the task's pointer. *)
CallRelease(o) ==
  /\ o \in toRelease
  /\ toRelease' = toRelease \ {o}
  /\ UNCHANGED <<maps, toDelete, created, alive, clients, main>>

(* A mutated form: checkEmpty is forgotten. *)
ReleasePointerSilently(o) ==
  /\ o \in objectsMap /\ ~Referenced(o)
  /\ objectsMap' = objectsMap \ {o}
  /\ toDelete' = toDelete \cup {o}
  /\ UNCHANGED <<childrenMap, sessionMap, reverseSessionMap, sessionInUse, eventHandler,
                 toRelease, created, alive, clients, main>>

(* releasePointer, the deleter of the shared pointer: the last pointer to o is
   gone; then checkEmpty. *)
ReleasePointer(o) ==
  /\ o \in objectsMap /\ ~Referenced(o)
  /\ objectsMap' = objectsMap \ {o}
  /\ toDelete' = toDelete \cup {o}
  /\ emptySignal' = (emptySignal \/ (mainPc # "run" /\ objectsMap' = {ServerManager}))
  /\ UNCHANGED <<childrenMap, sessionMap, reverseSessionMap, sessionInUse, eventHandler,
                 toRelease, created, alive, clients, mainPc, pipes, todo>>

(* A worker runs async_delete; the pointer to the parent goes with the object. *)
AsyncDelete(o) ==
  /\ o \in toDelete
  /\ toDelete' = toDelete \ {o}
  /\ alive' = alive \ {o}
  /\ UNCHANGED <<maps, toRelease, created, clients, main>>

-----------------------------------------------------------------------------
(* deleteMediaSet.                                                         *)

(* The pipelines are listed (for the session ""), the empty signal connected. *)
DeleteMediaSet ==
  LET O == {o \in Objects : Gettable(o)}
  IN  /\ Shutdown /\ mainPc = "run"
      /\ Ref({DefaultSession}, O)
      /\ pipes' = O \cap Pipelines
      /\ todo' = pipes'
      /\ mainPc' = IF pipes' = {} THEN "stopped" ELSE "releasing"
      /\ UNCHANGED <<objectsMap, childrenMap, eventHandler, life, clients, emptySignal>>

(* Each listed pipeline is released; pipes keeps a pointer to it. *)
MainRelease(o) ==
  /\ mainPc = "releasing" /\ o \in todo
  /\ Unref(Sessions, ReleaseVisits(o), {})
  /\ todo' = todo \ {o}
  /\ UNCHANGED <<objectsMap, sessionInUse, toDelete, created, alive, clients,
                 mainPc, pipes, emptySignal>>

(* pipes.clear (), then the wait. *)
MainClear ==
  /\ mainPc = "releasing" /\ todo = {}
  /\ pipes' = {}
  /\ mainPc' = "waiting"
  /\ UNCHANGED <<maps, life, clients, todo, emptySignal>>

(* The empty signal has come: the registry is destroyed. *)
MainStop ==
  /\ mainPc = "waiting" /\ emptySignal
  /\ mainPc' = "stopped"
  /\ UNCHANGED <<maps, life, clients, pipes, todo, emptySignal>>

-----------------------------------------------------------------------------
(* The thread that serves a request completes it once begun. *)
Proceed(t) ==
  \/ Register(t) \/ RefCreated(t) \/ RefObject(t) \/ UnrefObject(t)
  \/ ReleaseObject(t) \/ Finish(t)

ClientRequest(t) ==
  \/ \E s \in Sessions, o \in Objects :
        \/ Construct(t, s, o)
        \/ \E p \in {"ref", "unref", "release"} : GetMediaObject(t, s, o, p)
        \/ RemoveEventHandler(t, s, o)
  \/ \E s \in Sessions :
        \/ KeepAliveSession(t, s) \/ UnrefSession(t, s) \/ ReleaseSession(t, s)
        \/ GetPipelines(t, s)

Worker(o) == CallRelease(o) \/ ReleasePointer(o) \/ AsyncDelete(o)

Main == DeleteMediaSet \/ (\E o \in Objects : MainRelease(o)) \/ MainClear \/ MainStop

Next ==
  \/ \E t \in Threads : ClientRequest(t) \/ AddEventHandler(t) \/ Proceed(t)
  \/ DoGarbageCollection
  \/ \E o \in Objects : Worker(o)
  \/ Main

Safety == Init /\ [][Next]_vars

(* Requests in progress complete, the collector runs again and again, workers
   run what is posted and a shutdown that started goes on; nobody is obliged to
   send requests or to start a shutdown. *)
Fairness ==
  /\ \A t \in Threads : WF_vars(Proceed(t))
  /\ WF_vars(DoGarbageCollection)
  /\ \A o \in Objects : WF_vars(CallRelease(o)) /\ WF_vars(ReleasePointer(o))
                        /\ WF_vars(AsyncDelete(o)) /\ WF_vars(MainRelease(o))
  /\ WF_vars(MainClear) /\ WF_vars(MainStop)

Spec == Safety /\ Fairness

-----------------------------------------------------------------------------
(* Properties.                                                             *)

(* sessionMap and reverseSessionMap, kept by hand in ref, unref and the session
   operations, are each other's inverse, and only sessions with a sessionInUse
   entry own objects: the collector sees every session that keeps one alive. *)
SessionDuality ==
  /\ \A s \in Sessions, o \in Objects :
        o \in sessionMap[s] <=> s \in reverseSessionMap[o]
  /\ \A s \in Sessions : sessionMap[s] # {} => sessionInUse[s] # "none"

(* No dangling pointer: whatever a map, a thread, a task or the shutdown points to
   is registered in objectsMap, and so are its ancestors, whose release the
   parent pointer of MediaObjectImpl holds back. *)
HeldAlive ==
  /\ \A o \in objectsMap : Path(o) \subseteq objectsMap
  /\ objectsMap \subseteq alive /\ objectsMap \cap toDelete = {}
  /\ Registered \subseteq objectsMap
  /\ \A s \in Sessions : sessionMap[s] \subseteq objectsMap
  /\ \A t \in Threads : held[t] \subseteq objectsMap
  /\ toRelease \subseteq objectsMap /\ pipes \subseteq objectsMap

(* A session that keeps an object alive keeps its parent alive too, for every
   object its parent still knows as a child in childrenMap: so unref of an ancestor
   reaches it.  Of an object its parent has forgotten this does not hold: it can be reffed
   by a request that looked it up before (see ReleasedStayOut). *)
LinkedParentsInSession ==
  \A s \in Sessions : \A o \in sessionMap[s] \cap Registered :
    \A p \in Objects : IsParent(p, o) => p \in sessionMap[s]

(* "Check that object not in session2 were destroyed" (mediaSet.cpp of the tests):
   an object whose release was posted, since it was in no session any more, can
   not be reffed again, so no step puts it in a session.  The lock of
   getMediaObject (sessionId, mediaObjectRef) is commented out, and a release fits
   between its lookup and its ref. *)
ReleasedStayOut ==
  [][\A o \in toRelease \ {ServerManager} : reverseSessionMap[o] = {}
        => reverseSessionMap'[o] = {}]_vars

(* What leaves a session leaves its event handlers behind with it: no step takes
   an object from a session and keeps the session's handlers on the object. *)
HandlersFollow ==
  [][\A s \in Sessions : \A o \in sessionMap[s] \ sessionMap'[s] :
        <<s, o>> \notin eventHandler']_vars

(* Once the clients are silent, everything goes unless the registry is deleted first:
   idle sessions are collected and every object but the server manager is destroyed,
   whatever races there were between lookups, creations and releases. *)
NothingLeaks ==
  (requests = MaxRequests) ~> \/ mainPc = "stopped"
                              \/ /\ objectsMap = {ServerManager} /\ alive = {ServerManager}
                                 /\ \A s \in Sessions : sessionInUse[s] = "none"

(* A shutdown completes once the clients are silent. *)
ShutdownEnds == (mainPc # "run" /\ requests = MaxRequests) ~> (mainPc = "stopped")
=============================================================================
