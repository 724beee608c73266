CONSTANTS
  mgr = mgr
  pipe = pipe
  elem = elem
  Objects <- MCObjects
  Anc <- MCAnc
  Pipelines <- MCPipelines
  ServerManager = mgr
  Sessions = {s0, s1}
  DefaultSession = s0
  Threads = {t1, t2}
  Shutdown = TRUE
  MaxRequests = 3
SPECIFICATION Spec
INVARIANTS TypeOK SessionDuality HeldAlive LinkedParentsInSession
PROPERTIES HandlersFollow NothingLeaks ShutdownEnds
CHECK_DEADLOCK FALSE
