\* One start of the page, and nothing else happens.
SPECIFICATION Spec
CONSTANTS
  None = None
  Sessions = {u1, u2}
  MaxRequests = 1
  MaxUpsets = 0
  MaxUtterances = 1
INVARIANT NoticeWhenActive
CHECK_DEADLOCK FALSE
