SPECIFICATION FairSpec
CONSTANTS
  Batches = {b1, b2}
  Attributes = {mine, other}
  ServerErrorRequestLimit = 2
INVARIANTS TypeOK AnswersComplete CrashNeedsSwitch OpenCountsFlights
PROPERTIES EmptyBaseIsFinal BatchAnswered SwitchIsFatal
CHECK_DEADLOCK FALSE
