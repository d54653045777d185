SPECIFICATION Spec
CONSTANTS
  c1 = c1
  c2 = c2
  None = None
  Conns = {c1, c2}
  Bytes <- MCBytes
  Streams <- MCStreams
  Records <- MCRecords
  Delimiters <- MCDelimiters
  InitialDelimiter <- Newline
  RecvSize = 2
  MaxWakes = 1
CHECK_DEADLOCK FALSE
INVARIANT ServerStillWorks
