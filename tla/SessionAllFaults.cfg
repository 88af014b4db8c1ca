\* Requests overlap, a device and a send fail: everything at once.
SPECIFICATION Spec
CONSTANTS
  None = None
  Uuids = {u1, u2}
  Streams = {s1, s2}
  Captures = {c1}
  Openers = {o1}
  Stoppers = {p1}
  Losses = {l1}
  Forwards = {f1}
  MaxAttempts = 1
  Overlap = TRUE
SYMMETRY Names
INVARIANTS TypeOK StreamServesSession
