\* The clients of two runs that overlap or follow one another.
SPECIFICATION ClientSpec
CONSTANTS
  t1 = t1
  t2 = t2
  t3 = t3
  c1 = c1
  c2 = c2
  u1 = u1
  Tasks = {t1, t2}
  Clients = {c1, c2}
  ClientOf <- MCTwoClients
  Urls = {u1}
  UrlOf <- MCSameUrl
  MinSpacing = 2
  MaxAttempts = 2
  Redirecting = {}
  MaxVersion = 1
  MaxTime = 5
  MaxRequests = 5
  None = None
INVARIANT SpacedAcrossRuns
CHECK_DEADLOCK FALSE
