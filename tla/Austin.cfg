SPECIFICATION Spec
CONSTANTS
  c1 = c1
  c2 = c2
  Pid = {r, c1, c2}
  Root = r
  InitPid = InitPid
  None = None
  Scenarios <- MCScenarios
INVARIANTS ListOK CursorOK NothingLeftBehind
PROPERTIES ChildrenAreSampled PassesSignalOn NoChildrenVerdict EndsWithTargets StopsOnSignal
