CONSTANTS
  FD_MAX = 3
  ID_MAX = 7
SPECIFICATION Spec
INVARIANTS TypeOK NestedDisconnect NoOldAnswers
PROPERTIES ImplementsSession LosesOnlyOpening CallsReturn
