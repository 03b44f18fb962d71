SPECIFICATION Spec
CONSTANTS
  Slugs = {"one", "two"}
  Tools <- MCTools
  Rank <- MCRank
  Module <- MCModule
  Class <- MCClass
  Smoke <- MCSmoke
  Required = {"a"}
  Listings <- MCListings
  MaxGen = 2
  MaxSessions = 2
INVARIANTS
  LoadIsWhole
  SuccessIsWhole
  SlotsOfInnermost
  WrapperOfItsSession
PROPERTIES
  DataKept
CHECK_DEADLOCK FALSE
