SPECIFICATION Spec
CONSTANTS
  Threads = {t1}
  Requests = {r1, r2}
  UserEndpoints = {e1}
  ClassEndpoints = {}
  Ping = ping
  AutoRead = {e1, ping}
  Captures = {c1, c2}
  SideEffects = {fn, resp}
  StaticEffects = {resp}
  Patches = {resp}
  Callable = fn
  Other = none
  InitialEffect <- MCInitialEffect
  Serves <- MCServesAll
  MaxDepth = 2
  None = none
SYMMETRY CaptureSymmetry
INVARIANTS
  CapturedWhileOpen
  RecordedOnlyAnswered
  RecordedInOrderUnlessOverlapping
  
  PatchesRestored
PROPERTIES
  RaisedOnce
  StopSurfacesErrors
