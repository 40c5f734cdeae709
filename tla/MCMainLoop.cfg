CONSTANTS
  MAX_CLIENT_NUM = 3
  TIMER_1S = 2
  TIMER_5S = 4
SPECIFICATION Spec
INVARIANTS TypeOK QueueMatchesConfig FillNeverFails ReadyBeforeTicks SurveysOwnClients
PROPERTIES ImplementsPollingService ImplementsPollingFairness KeepsSurveying
