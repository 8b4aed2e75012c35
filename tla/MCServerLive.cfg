SPECIFICATION LiveSpec
CONSTANTS
  j1 = j1
  n1 = n1
  n2 = n2
  note1 = note1
  w1 = w1
  g1 = g1
  key1 = key1
  key2 = key2
  t1 = t1
  s1 = s1
  s2 = s2
  c1 = c1
  hide = hide
  None = None
  Orphan = Orphan
  NoWorker = NoWorker
  Unasked = Unasked
  Other = Other
PROPERTIES WorkEnds EveryOwnerServed AskedIsAnswered
CHECK_DEADLOCK FALSE
