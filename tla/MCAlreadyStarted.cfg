SPECIFICATION Spec
CONSTANTS
  Callers = {c1, c2}
  Main = main
  NoRun = NoRun
PROPERTY AlreadyStarted
CHECK_DEADLOCK FALSE
