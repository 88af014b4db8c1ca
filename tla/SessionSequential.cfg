\* One request at a time, no device fails and no send fails: streams fail,
\* end and are denied at any moment, with the five retries of the code.
SPECIFICATION Spec
CONSTANTS
  None = None
  Uuids = {u1, u2}
  Streams = {s1, s2}
  Captures = {c1, c2}
  Openers = {o1}
  Stoppers = {p1}
  Losses = {}
  Forwards = {}
  MaxAttempts = 5
  Overlap = FALSE
INVARIANTS
  CaptureImpliesActive RunningIsOwned StreamsAreOwned StreamingIsComplete
PROPERTIES
  TerminalLeftByOpen KeepsPromise
