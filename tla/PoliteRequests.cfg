\* Three calls of one client with a floor between requests, while the resource
\* changes.
SPECIFICATION ClientSpec
CONSTANTS
  t1 = t1
  t2 = t2
  t3 = t3
  c1 = c1
  c2 = c2
  u1 = u1
  Tasks = {t1, t2, t3}
  Clients = {c1}
  ClientOf <- MCOneClient
  Urls = {u1}
  UrlOf <- MCSameUrl
  MinSpacing = 1
  MaxAttempts = 2
  Redirecting = {u1}
  MaxVersion = 1
  MaxTime = 3
  MaxRequests = 2
  None = None
INVARIANTS ClientTypeOK SpacingKept BodyWasCurrent
SYMMETRY TaskSymmetry
CHECK_DEADLOCK FALSE
