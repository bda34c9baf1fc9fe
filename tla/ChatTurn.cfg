SPECIFICATION Spec
CONSTANTS
  t1 = t1  t2 = t2  x = x  y = y
  Turn = {t1}
  Text = {x}
  Window = 3
  MaxIterations = 2
  Capacity = 1
  MaxCalls <- MCTwoCalls
INVARIANTS TypeOK EndsOnce CallsAnswered SavedWhenQuiet
PROPERTIES TurnsEnd
CHECK_DEADLOCK FALSE
