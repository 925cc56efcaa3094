SPECIFICATION Spec
CONSTANTS
  Requests = {r1, r2}
  Limit = 2
  Window = 3
  Faults = {"reply", "expire"}
INVARIANTS TypeOK Burst ExpiryOwed
PROPERTIES RecoversOrForgot
