SPECIFICATION FairSpec
CONSTANTS
  r1 = r1
  r2 = r2
  h1 = h1
  h2 = h2
  Clients = {r1, r2}
  Probe = probe
  UserHandlers = {h1, h2}
  Health = health
  Serves <- MCServes
  Outcomes <- MCOutcomes
  RetrySpecs <- MCRetrySpecs
  Durations = {0}
  None = None
INVARIANTS
  ProbeFindsHealth
PROPERTIES
  AnsweredByTable
  StartEnds
  StopReturns
  RequestsAnswered
