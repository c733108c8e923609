SPECIFICATION Spec
CONSTANTS
  Documents <- MCDocuments
  BufferSize = 4
INVARIANT BaseIsFound
CHECK_DEADLOCK FALSE
