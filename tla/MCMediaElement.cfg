CONSTANTS
  e1 = e1
  e2 = e2
  e3 = e3
  Elements <- MCElements
  Descs = {d1}
  Clients = {t1}
  None = None
  Misdirected = FALSE
  Refusing = {e3}
  Releases = {e1, e2}
  Pairs <- Fork
  MaxConnects = 2
  MaxOps = 3
SPECIFICATION Spec
INVARIANTS MapsAgree LinksFollow
PROPERTIES RequestsEnd ReleaseEnds
CHECK_DEADLOCK FALSE
