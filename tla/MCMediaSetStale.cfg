CONSTANTS
  mgr = mgr
  pipe = pipe
  elem = elem
  Objects <- MCObjects
  Anc <- MCAnc
  Pipelines <- MCPipelines
  ServerManager = mgr
  Sessions = {s0, s1}
  DefaultSession = s0
  Threads = {t1, t2}
  Shutdown = FALSE
  MaxRequests = 3
SYMMETRY Symmetry
SPECIFICATION Safety

PROPERTY ReleasedStayOut
CHECK_DEADLOCK FALSE
