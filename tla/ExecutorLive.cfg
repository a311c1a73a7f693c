\* One pipe is enough for progress: the two drains share no state.
CONSTANTS
  Pipes = {"stdout"}
  MAX_OUTPUT_BYTES = 2
  CHUNK_BYTES = 2
  PipeCapacity = 2
  Codes = {0}
  None = None
  MaxWritten = 4
SPECIFICATION LiveSpec
PROPERTIES
  Returns
  ReadersStop
