CONSTANTS
  e1 = e1
  e2 = e2
  e3 = e3
  Elements <- MCElements
  Descs = {d1}
  Clients = {t1, t2}
  None = None
  Misdirected = FALSE
  Refusing = {}
  Releases = {}
  Pairs <- Fork
  MaxConnects = 2
  MaxOps = 3
SPECIFICATION Safety
INVARIANT NoCircularWait
CHECK_DEADLOCK FALSE
