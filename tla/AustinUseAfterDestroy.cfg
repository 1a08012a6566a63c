SPECIFICATION Spec
CONSTANTS
  c1 = c1
  c2 = c2
  Pid = {r, c1, c2}
  Root = r
  InitPid = InitPid
  None = None
  Scenarios <- FamilyScenarios
INVARIANTS NoUseAfterDestroy
