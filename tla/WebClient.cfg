SPECIFICATION Spec
CONSTANTS
  None = None
  q1 = q1
  q2 = q2
  u1 = u1
  Sessions = {s1, s2}
  Queries = {q1, q2}
  Uploads = {u1}
  TurnLimit = 1
  Plans <- TwoJobs
  MaxUnderWay = 2
INVARIANTS
  TypeOK
  OneSessionIsCreated
  
PROPERTIES
  PageComesToRest
CHECK_DEADLOCK FALSE
