SPECIFICATION Spec
INVARIANTS
  TypeOK
  NoLeakedServer
  HomeOutlivesServer
  OriginalErrorRaised
  HandoffAlwaysValid
  BrokenSessionReported
PROPERTIES
  FixtureTerminates
  ImplementsLease
