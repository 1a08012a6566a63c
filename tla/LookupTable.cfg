SPECIFICATION Spec
CONSTANTS
  Key = {0, 1, 2, 3, 4}
  Value = {v1, v2, NULL}
  NULL = NULL
  ZeroKey = 0
  Size = 2
  Slot <- MCSlot
INVARIANTS TableOK
PROPERTIES ImplementsContract
