SPECIFICATION FairSpec
CONSTANTS
  c1 = c1
  c2 = c2
  c3 = c3
  Conns <- MCConns
  Addrs = {"same", "other"}
  AddrOf <- MCAddrOf
  Slow = {c3}
  NoConn = NoConn
INVARIANTS
  TypeOK
  WaitGroupCounts
  StoppedIsClean
  
PROPERTY StopEnds
