CONSTANTS
  Word = {0, 1}
  BIG_ENDIAN = TRUE
  TIME_WORDS = 4
  HEAP_MAX = 2
  ClientLists <- MCClientLists
  DataLists <- MCDataLists
SPECIFICATION Spec
INVARIANTS TypeOK ReadingIsDevices PublishesThisReading DefinedForOneList AcceptedConnects
CHECK_DEADLOCK FALSE
