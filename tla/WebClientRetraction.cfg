SPECIFICATION Spec
CONSTANTS
  None = None
  q1 = q1
  q2 = q2
  u1 = u1
  Sessions = {s1, s2}
  Queries = {q1}
  Uploads = {u1}
  TurnLimit = 1
  Plans <- AFile
  MaxUnderWay = 2
INVARIANTS
  RetractionLeavesNothing
CHECK_DEADLOCK FALSE
