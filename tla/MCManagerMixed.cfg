CONSTANTS
  s1 = s1
  s2 = s2
  ClientCnt = 2
  Protocol <- OpcProtocol
  Server <- TwoServers
  Servers = {s1, s2}
  Unreadable = {}
  LongNode = {}
  FD_MAX = 4
SPECIFICATION ManagerSafeSpec
INVARIANT OwnServer
CHECK_DEADLOCK FALSE
