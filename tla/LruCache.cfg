SPECIFICATION Spec
CONSTANTS
  Key = {k0, k1, k2}
  Value = {v1, v2}
  Item = {x1, x2, x3, x4}
  NULL = NULL
  ZeroKey = k0
  Modes <- MCModes
  MaxCapacity = 4
INVARIANTS IInv NoOrphan
PROPERTIES EvictsLeastRecent ImplementsContract
