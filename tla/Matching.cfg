SPECIFICATION Spec
CONSTANTS
  None = None
  Requests <- MCRequests
  Expectations <- MCExpectations
  Lower <- MCLower
  Upper <- MCUpper
  JsonOf <- MCJsonOf
  MaxRecorded = 3
  MaxExpected = 2
INVARIANTS
  AnswersTrue
  MatchesAsDocumented
