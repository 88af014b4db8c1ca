\* Two tokens, all requests overlap.
SPECIFICATION Spec
CONSTANTS
  None = None
  Tokens = {t1, t2}
  Controllers = {c1, c2, c3}
SYMMETRY Names
INVARIANTS TypeOK CredentialsAgree OnlyRefusedAreForgotten RecordingIsVisible EventsReachPage
