SPECIFICATION Spec
CONSTANTS
  Names = {"a", "b", "c", ".d"}
  Hidden = {".d"}
  Hosts = {"http://h", "urn://g"}
  Tails = {"", "?q"}
  Bases <- MCBases
  References <- MCReferences
INVARIANTS TypeOK NoDotsLeft DotsCancelSegments
PROPERTIES LoopShrinks ResolveReturns
CHECK_DEADLOCK FALSE
