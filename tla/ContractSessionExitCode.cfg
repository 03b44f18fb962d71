SPECIFICATION Spec
CONSTANTS
  alpha = alpha
  beta = beta
  Tools = {alpha, beta}
  Buckets = {"schema", "judge"}
  Configs <- MCConfigs
  Listings <- MCListings
  MaxWorkers = 2
INVARIANTS
  InvalidConfigIsSetupError
