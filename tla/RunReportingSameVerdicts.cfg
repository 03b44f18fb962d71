SPECIFICATION Spec
CONSTANTS
  t1 = t1
  t2 = t2
  t3 = t3
  alpha = alpha
  beta = beta
  reason = reason
  Tests = {t1}
  Tools = {alpha}
  ToolOf <- MCToolOf
  ReasonOf <- MCReasonOf
  Workers = 2
INVARIANTS
  SameVerdicts
