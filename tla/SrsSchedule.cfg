SPECIFICATION Spec
CONSTANTS
  MaxIntervalDays = 365
  MaxTotal        = 5
INVARIANTS
  TypeOK
  PooledGradeBetween
  GradesAreOrdered
  SuccessNeverShortens
