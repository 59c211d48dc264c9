SPECIFICATION FairSpec
CONSTANTS
  s1 = s1
  s2 = s2
  other = other
  Sessions = {s1, s2, other}
  KeyOf <- MCKeyOf
  Terminal = {s1, other}
  Buffer = 3
INVARIANTS
  TypeOK
  ExitIsLast
PROPERTIES
  SessionEnds
  LogoutCompletes
  WindowsApplied
  StopReturns
CHECK_DEADLOCK FALSE
