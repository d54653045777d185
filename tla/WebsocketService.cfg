SPECIFICATION FairSpec
CONSTANTS
  c1 = c1
  c2 = c2
  p1 = p1
  q1 = q1
  q2 = q2
  list = list
  function = function
  generator = generator
  Conns = {c1, c2}
  Paths = {p1}
  Patterns = {q1, q2}
  PathOf <- MCPathOf
  Matches <- MCMatches
  Effects = {list, function, generator}
  Kind <- MCKind
  Routable <- MCRoutable
  MaxData <- MCMaxData
  Leavers = {c1}
  None = None
INVARIANTS
  ClosedAfterTheLast
  GeneratorsEnd
PROPERTIES
  
  StopReturns
  ConnectionsAccepted
