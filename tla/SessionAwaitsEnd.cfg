\* Requests overlap and a device fails; liveness, hence no symmetry.
SPECIFICATION Spec
CONSTANTS
  None = None
  Uuids = {u1}
  Streams = {s1, s2}
  Captures = {c1}
  Openers = {o1}
  Stoppers = {p1}
  Losses = {l1}
  Forwards = {}
  MaxAttempts = 1
  Overlap = TRUE
PROPERTIES
  StartingEnds ReconnectingEnds RecoveryFinishes
