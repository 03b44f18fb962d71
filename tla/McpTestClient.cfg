SPECIFICATION Spec
INVARIANTS
  TypeOK
  NothingLeft
PROPERTIES
  CallsBounded
  ImplementsLease
