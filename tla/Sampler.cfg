SPECIFICATION Spec
CONSTANTS
  NULL = NULL
  Addr = {a1, a2, a3}
  k1 = k1  k2 = k2  k3 = k3
  s1 = s1  s2 = s2  s3 = s3
  o1 = o1  o2 = o2  o3 = o3
  Code = {k1, k2, k3}
  String = {s1, s2, s3}
  FileOf <- MCFileOf
  ScopeOf <- MCScopeOf
  Settings <- MCSettings
  MaxFaults = 1
INVARIANTS TypeOK FramesLive DefinedBeforeUse MarkedWhenCut
PROPERTIES SampleEnds
