SPECIFICATION Spec
CONSTANTS
  Contents <- MCContents
  MaxPieces = 3
INVARIANTS
  ScannerExact
  PassIsSaid
  WrappedVerdictCounts
PROPERTIES
  ImplementsJudge
  ParserEnds
