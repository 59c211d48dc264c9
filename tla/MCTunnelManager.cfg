SPECIFICATION FairSpec
CONSTANTS
  Callers = {c1, c2}
  Main = main
  NoRun = NoRun
INVARIANTS
  TypeOK
  QuietApplied
PROPERTIES
  RunsIfLoginsSucceed
  
CHECK_DEADLOCK FALSE
