\* Both pipes.  MaxWritten > READ_LIMIT_BYTES: output of 0, of exactly the
\* limit and of more than it; a chunk can hold more than one byte.
CONSTANTS
  Pipes = {"stdout", "stderr"}
  MAX_OUTPUT_BYTES = 1
  CHUNK_BYTES = 2
  PipeCapacity = 2
  Codes = {0}
  None = None
  MaxWritten = 3
SPECIFICATION Spec
INVARIANTS
  TypeOK
  ChildReaped
  BoundedMemory
  NoBackpressureDeadlock
  CompleteUnlessCut
PROPERTIES
  ResultCoversStream
  KeepsContract
