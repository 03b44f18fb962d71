SPECIFICATION Spec
CONSTANTS
  Callers = {c1, c2, c3}
  Nobody = Nobody
  Sdk = Sdk
INVARIANTS
  CapturesOwn
  PatchUndone
PROPERTIES
  AllEnd
CHECK_DEADLOCK FALSE
