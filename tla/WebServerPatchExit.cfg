SPECIFICATION Spec
CONSTANTS
  Threads = {t1}
  Requests = {r1}
  UserEndpoints = {e1}
  ClassEndpoints = {}
  Ping = ping
  AutoRead = {e1, ping}
  Captures = {}
  SideEffects = {fn}
  StaticEffects = {}
  Patches = {fn}
  Callable = fn
  Other = none
  InitialEffect <- MCInitialEffect
  Serves <- MCServesAll
  MaxDepth = 1
  None = none
PROPERTIES
  PatchRemovesOnExit
