SPECIFICATION Spec
CONSTANTS
  a1 = a1
  a2 = a2
  r1 = r1
  r2 = r2
  r3 = r3
  Account = {a1}
  Request = {r1, r2}
  Owner <- OneUser
  Platform = platform
  Nobody = nobody
  KeyModes = {"default"}
  CallCosts <- UnitCalls
  MaxRunCost = 2
  CreditLimit = 2
  EnforceCap = TRUE
INVARIANT
  NoConcurrentOverspend
