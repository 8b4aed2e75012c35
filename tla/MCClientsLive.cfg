SPECIFICATION LiveSpec
CONSTANTS
  pA = pA
  NoOne = NoOne
  c1 = c1
  a1 = a1
  t1 = t1
  t2 = t2
  seen = seen
  w1 = w1
  None = None
CONSTRAINT Unserved
PROPERTIES OutboxesSettle 
CHECK_DEADLOCK FALSE
