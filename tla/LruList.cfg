SPECIFICATION Spec
CONSTANTS
  Key = {k0, k1, k2, k3}
  Value = {v1}
  Item = {x1, x2, x3, x4}
  NULL = NULL
  ZeroKey = k0
  Modes <- MCModes
  MaxCapacity = 4
INVARIANTS ListOK
PROPERTIES ImplementsLruCache
