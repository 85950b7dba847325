\* Two loads and a save in flight; two steps; two presses about two choices.  The Runs
\* page asks once, and then stops.
SPECIFICATION TabSpec
CONSTANTS
  l1 = l1
  l2 = l2
  v1 = v1
  s1 = s1
  s2 = s2
  matches = matches
  k1 = k1
  p1 = p1
  Loads = {l1, l2}
  Saves = {v1}
  RawSources = {s1, s2}
  Unified = {matches}
  FirstRaw = s1
  FirstUnified = matches
  Aggregates = aggregates
  Keys = {k1}
  Payloads = {p1}
  None = None
  a = a
  braces = braces
  plain = plain
  json = json
  MaxSteps = 2
  Types <- MCTypes
  Fields = {plain, json}
  JsonFields = {json}
  Values = {a, braces}
  EmptyObject = braces
  Empty = Empty
  Garbled = Garbled
  Defaults <- MCDefaults
  Asks = {q1, q2}
  Choices = {c1, c2}
  Unchosen = Unchosen
  Spinner = Spinner
INVARIANTS PagesTypeOK ListFollowsSelect TypedIsSaved AnswersStand
SYMMETRY MCCalls
CHECK_DEADLOCK FALSE
