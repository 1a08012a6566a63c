SPECIFICATION Spec
CONSTANTS
  n1 = n1
  e1 = e1
  e2 = e2
  c1 = c1
  c2 = c2
  k1 = k1
  k2 = k2
  CFRAME_MAGIC = CFRAME_MAGIC
  Counter = {n1, e1, e2}
  Eval = {e1, e2}
  Frame = {c1, c2}
  KernelFrame = {k1, k2}
  KernelStack <- MCKernelStack
  Settings <- MCSettings
  Stacks <- MCStacks
  MaxFaults = 1
INVARIANTS StackOK StackTold
