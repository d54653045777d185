SPECIFICATION Spec
CONSTANTS
  talker = talker
  passerBy = passerBy
  Conns = {talker, passerBy}
  Payloads = {"text", "bytes"}
  Codes = {1011}
  InternalError = 1011
  Silent = {passerBy}
  Limit <- MCLimit
  MaxContexts = 1
  Patterns <- MCPatterns
  Ellipsis = Ellipsis
  None = None
INVARIANTS
  CausalOrder
  NothingMissingBeforeClose
  CallsInOrderBegun
  
CHECK_DEADLOCK FALSE
