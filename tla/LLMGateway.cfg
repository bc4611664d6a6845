SPECIFICATION FairSpec
CONSTANTS
  none = none
  g = g
  q = q
  q2 = q2
  eg = eg
  eq = eq
  eq2 = eq2
  NoKey = none
  Role = {"planner", "judge"}
  Chain <- Chains
  Family <- Families
  Configurations <- MCConfigurations
  MaxRetries = 1
  Replies <- MCReplies
  MaxCalls = 2
INVARIANTS
  TypeOK
  FailoverInOrder
  RetriesJustified
  TokensCost
PROPERTIES
  ImplementsCalls
  CallsReturn
