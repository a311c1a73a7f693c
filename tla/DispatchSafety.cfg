CONSTANTS
  Calls = {k1, k2}
  Clients = {a, b}
  Ids = {1}
  Pipes = {"stdout"}
  MAX_OUTPUT_BYTES = 1
  Codes = {0}
  None = None
  MaxOutput = 1
  MaxCrashes = 1
SYMMETRY Symmetry
SPECIFICATION Spec
INVARIANTS
  TypeOK
  ResponseMatchesAudit
  AuditWellFormed
  LongCallsLeaveTrace
  DecisionIsOutcome
  NoChunkLost
