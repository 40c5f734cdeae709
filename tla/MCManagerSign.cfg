CONSTANTS
  s1 = s1
  s2 = s2
  ClientCnt = 2
  Protocol <- OpcProtocol
  Server <- OneServer
  Servers = {s1}
  Unreadable = {}
  LongNode = {}
  FD_MAX = 6
SPECIFICATION ManagerSafeSpec
INVARIANT ConnectedSign
