SPECIFICATION FairSpec
CONSTANTS
  Threads = {t1}
  Requests = {r1, r2}
  UserEndpoints = {e1}
  ClassEndpoints = {k1}
  Ping = ping
  AutoRead = {e1, k1, ping}
  Captures = {}
  SideEffects = {fn}
  StaticEffects = {}
  Patches = {fn}
  Callable = fn
  Other = k1
  InitialEffect <- MCInitialEffect
  Serves <- MCServesOthers
  MaxDepth = 1
  None = none
INVARIANTS
  TypeOK
  RoutesMatchOwners
  MissedOnlyByShift
PROPERTIES
  StopReturns
  EveryRequestAnswered
