SPECIFICATION Spec
CONSTANTS
  Targets <- MCTargets
  Window = 2
  MaxFaults = 1
INVARIANTS AttachedToWhatRuns VerdictOK PermissionReported
PROPERTIES RunEnds AttachesAtLast
