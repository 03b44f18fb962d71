SPECIFICATION Spec
CONSTANTS
  t1 = t1
  t2 = t2
  t3 = t3
  alpha = alpha
  beta = beta
  reason = reason
  Tests = {t1, t2, t3}
  Tools = {alpha, beta}
  ToolOf <- MCToolOf
  ReasonOf <- MCReasonOf
  Workers = 2
SYMMETRY MCSymmetry
INVARIANTS
  OrderIndependent
  ReadersAgree
  PassIsEarned
