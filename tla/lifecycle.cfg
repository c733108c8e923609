SPECIFICATION Spec
CONSTANTS
  Documents <- MCDocuments
  BufferSize = 4
INVARIANTS TypeOK ModeAsAnnounced CrashNeedsFragmentBase
PROPERTIES StreamSpec ParseReturns
CHECK_DEADLOCK FALSE
