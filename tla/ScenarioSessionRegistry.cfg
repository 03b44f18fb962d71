\* One generation of one package, and a session inside another one.
SPECIFICATION Spec
CONSTANTS
  Slugs = {"one"}
  Tools <- MCTools
  Rank <- MCRank
  Module <- MCModule
  Class <- MCClass
  Smoke <- MCSmoke
  Required = {"a"}
  Listings <- MCListings
  MaxGen = 1
  MaxSessions = 2
INVARIANT
  RegistryRestored
CHECK_DEADLOCK FALSE
