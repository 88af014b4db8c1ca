\* The main thread, a console interrupt and the tray's thread.
SPECIFICATION Spec
CONSTANTS
  None = None
  Main = main
  Console = console
  Trays = {tray}
INVARIANTS
  TypeOK OneTeardown StepsOnce CompleteIsDone CompleteIsSilent ServerIsTold
PROPERTIES
  CallsReturn
CHECK_DEADLOCK FALSE
