SPECIFICATION Spec
CONSTANTS
  t1 = t1  t2 = t2  x = x  y = y
  Turn = {t1, t2}
  Text = {x, y}
  Window = 2
  MaxIterations = 2
  Capacity = 1
  MaxCalls <- MCNoCalls
INVARIANTS InputOnce AnswerIsLast
CHECK_DEADLOCK FALSE
