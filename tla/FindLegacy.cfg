SPECIFICATION Spec
CONSTANTS
  p1 = p1  p2 = p2  u1 = u1  u2 = u2  u3 = u3
  Proc = {p1}
  Username = {u1, u2, u3}
  LegacyUser = {u1}
  MaxRequests = 1
  MaxFaults = 0
INVARIANTS LegacyStaysSetUp
CHECK_DEADLOCK FALSE
