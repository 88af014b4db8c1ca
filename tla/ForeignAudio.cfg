\* A send of one session fails while the next one streams.
SPECIFICATION Spec
CONSTANTS
  None = None
  Uuids = {u1, u2}
  Streams = {s1, s2}
  Captures = {c1}
  Openers = {o1}
  Stoppers = {p1}
  Losses = {}
  Forwards = {f1}
  MaxAttempts = 1
  Overlap = FALSE
INVARIANT FramesServeSession
