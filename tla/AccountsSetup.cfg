SPECIFICATION Spec
CONSTANTS
  p1 = p1  p2 = p2  u1 = u1  u2 = u2  u3 = u3
  Proc = {p1, p2}
  Username = {u1, u2, u3}
  LegacyUser = {u1, u2}
  MaxRequests = 3
  MaxFaults = 2
INVARIANTS TypeOK CompletedIsComplete NoSignupBeforeSetup AnswersNameAccounts NothingLostInCopy
PROPERTIES SetupIsFinal
CHECK_DEADLOCK FALSE
