SPECIFICATION Spec
CONSTANTS
  a1 = a1
  a2 = a2
  a3 = a3
  Address = {a1, a2, a3}
  Wild = Wild
  NULL = NULL
  Subjects <- MCSubjects
  Unknown = Unknown
  MaxMemory = 1
  MaxFaults = 2
INVARIANTS NoTimeCountedTwice AllTimeCounted
PROPERTIES NoneLeftStopped MemoryOfHolder MemoryOfStopped
