CONSTANTS
  s1 = s1
  s2 = s2
  ClientCnt = 2
  Protocol <- SafeProtocol
  Server <- SafeServer
  Servers = {s1, s2}
  Unreadable = {}
  LongNode = {}
  FD_MAX = 10
SPECIFICATION ManagerSpec
INVARIANTS NoCrash ConnectedSign
PROPERTY RecoversUnlessStarved
