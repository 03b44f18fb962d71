--------------------------- MODULE MCRunReporting ---------------------------
(* Three items over two tools: two of one tool with the same skip reason,  *)
(* one of another; two of the three in flight at a time under xdist.       *)
EXTENDS RunReporting, TLC

CONSTANTS t1, t2, t3, alpha, beta, reason

MCToolOf == [t \in Tests |-> IF t = t3 THEN beta ELSE alpha]
MCReasonOf == [t \in Tests |-> reason]
MCSymmetry == Permutations({t1, t2})
=============================================================================
