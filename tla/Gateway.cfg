SPECIFICATION Spec
CONSTANTS
  a = a
  b = b
  i1 = i1
  i2 = i2
  Tenants = {a, b}
  Instances = {i1, i2}
  Limit = 2
  Window = 2
  MaxTime = 4
  MaxAsks = 4
  MaxStarts = 3
SYMMETRY Symmetry
INVARIANTS
  TypeOK
  WithinLimit
  RefusedOnlyWhenFull
CHECK_DEADLOCK FALSE
