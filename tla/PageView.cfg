\* Two sessions, two requests of the page, two upsets in any order.
SPECIFICATION Spec
CONSTANTS
  None = None
  Sessions = {u1, u2}
  MaxRequests = 2
  MaxUpsets = 2
  MaxUtterances = 1
INVARIANTS TypeOK NoticeIsRight SelectedIsLive OneRowEach
PROPERTIES PageCatchesUp
CHECK_DEADLOCK FALSE
