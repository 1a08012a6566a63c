SPECIFICATION Spec
CONSTANTS
  LONG_MAX = 127
  INT_MAX = 7
  Thousand = 3
  Megabyte = 4
  DefaultInterval = 1
  DefaultTimeout = 9
  Unwritable <- MCUnwritable
  MAX_RANGES = 3
  Versions <- MCVersions
  ULONG_MAX = 1000
  t_sampling_interval = 2
  Samples <- MCSamples
  MaxSamples = 3
  Events <- MCEvents
  MaxEvents = 2
  KEY_BITS = 7
  REF_BITS = 3
  LASTI_BITS = 2
  Code <- MCCode
  Lasti <- MCLasti
  MAX_FRAME_CACHE_SIZE = 2
  MaxFrames = 4
INVARIANT TimeoutUnitsTold
CHECK_DEADLOCK FALSE
