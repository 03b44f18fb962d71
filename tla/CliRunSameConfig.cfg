\* One invocation against a server that may list two tools, with every
\* combination of flags and of the places that hold a config file.
CONSTANTS
  Tools = {alpha, beta}
  alpha = alpha
  beta = beta
SPECIFICATION Spec
INVARIANT SameConfigFile
