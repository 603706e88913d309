SPECIFICATION Spec
CONSTANTS
  Check = {c1, c2}
  MaxChanges = 2
INVARIANTS
  TypeOK
PROPERTIES
  StatusSettles
  MetricsSettle
  SlowPrimaryLeft
