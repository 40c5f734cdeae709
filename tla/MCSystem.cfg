CONSTANTS
  s1 = s1
  s2 = s2
  MAX_CLIENT_NUM = 2
  TIMER_1S = 1
  TIMER_5S = 1
  ClientCnt = 2
  Rate <- MCRate
  Protocol <- MCProtocol
  Server <- MCServer
  Servers = {s1, s2}
  Unreadable = {}
  LongNode = {}
  FD_MAX = 5
SPECIFICATION SystemSpec
INVARIANT PublishesOwnServer
PROPERTIES ImplementsMainLoop PublishesAgain
