SPECIFICATION FairSpec
CONSTANTS
  a1 = a1
  a2 = a2
  r1 = r1
  r2 = r2
  r3 = r3
  Account = {a1, a2}
  Request = {r1, r2, r3}
  Owner <- TwoUsers
  Platform = platform
  Nobody = nobody
  KeyModes = {"default", "byok"}
  CallCosts <- UnitCalls
  MaxRunCost = 1
  CreditLimit = 1
  EnforceCap = TRUE
INVARIANTS
  TypeOK
  SerialUntilStored
  LedgerExact
  OwnAdapterExact
PROPERTIES
  ImplementsAccount
  EveryRequestEnds
