CONSTANTS
  s1 = s1
  s2 = s2
  ClientCnt = 5
  Protocol <- AnyProtocol
  Server <- AnyServer
  Servers = {s1, s2}
  Unreadable = {3}
  LongNode = {4}
  FD_MAX = 4
SPECIFICATION ManagerSafeSpec
INVARIANTS ManagerTypeOK HandleAccounting RetryReadsOwn
PROPERTIES InitSignsOwner SignsSettle NullContextIsFinal StarvedForGood
CHECK_DEADLOCK FALSE
