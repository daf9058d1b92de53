SPECIFICATION Spec
CONSTANTS
  Callers = {"a", "b"}
  Skew <- MCSkew
  Limits = {1, 2}
  Window = 2
  Precision = 2
  MinTTL = 3
  MaxTime = 5
INVARIANTS
  AdmissionBound
  DebtBound
