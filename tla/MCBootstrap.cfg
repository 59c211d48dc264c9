SPECIFICATION FairSpec
CONSTANTS
  Daemon = Daemon
  Ups = {up, upForce}
  Forced = {upForce}
  Pairs = {k1, k2, k3}
INVARIANTS
  TypeOK
  ConfigHasCredentials
  
PROPERTIES
  NilOnlyIfOverwritten
  DaemonServes
