SPECIFICATION Spec
CONSTANTS
  a1 = a1
  a2 = a2
  r1 = r1
  r2 = r2
  r3 = r3
  Account = {a1, a2}
  Request = {r1, r2}
  Owner <- EachOwnUser
  Platform = platform
  Nobody = nobody
  KeyModes = {"default", "keyless"}
  CallCosts <- UnitCalls
  MaxRunCost = 2
  CreditLimit = 2
  EnforceCap = TRUE
INVARIANT
  UsageIsOwn
