\* The stop button is enabled while a session is starting.
SPECIFICATION Spec
CONSTANTS
  None = None
  Uuids = {u1}
  Streams = {s1, s2}
  Captures = {c1}
  Openers = {o1}
  Stoppers = {p1}
  Losses = {}
  Forwards = {}
  MaxAttempts = 1
  Overlap = TRUE
PROPERTY TerminalLeftByOpen
