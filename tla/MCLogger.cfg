CONSTANTS
  LOG_FILE_MAX_SIZE = 2
  MAX_RECORDS = 4
  MAX_SECONDS = 2
SPECIFICATION Spec
INVARIANTS FileAccounting StartsSmall
PROPERTY RecordsKept
