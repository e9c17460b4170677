SPECIFICATION FairSpec
CONSTANTS
  Threads = {t1, t2}
  Places <- MCPlaces
  Overrides <- MCOverrides
  MaxCalls = 2
  None = None
  Malformed = Malformed
  Unparsed = Unparsed
INVARIANTS
  TypeOK
  ConfigAgreed
  EngineAgreed
PROPERTIES
  CallsReturn
CHECK_DEADLOCK FALSE
