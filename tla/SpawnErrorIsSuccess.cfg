CONSTANTS
  Calls = {k1}
  Clients = {a}
  Ids = {1}
  Pipes = {"stdout"}
  MAX_OUTPUT_BYTES = 1
  Codes = {0}
  None = None
  MaxOutput = 2
  MaxCrashes = 1
SPECIFICATION Spec
INVARIANT
  SuccessMeansRan
