SPECIFICATION Spec
CONSTANTS
  t1 = t1
  t2 = t2
  t3 = t3
  c1 = c1
  seen = seen
  cut = cut
  w1 = w1
  w2 = w2
  Tabs = {t1, t2}
  Captures = {c1}
  MaxAttempts = 2
  MaxBatch = 1
  Sealers = {t1, t2, t3}
  Writes = {w1, w2}
  MaxGenerated = 4
  Runs = {t1, t2}
  Mortal = {t1, t2}
  Receipts = {seen}
  Removals = {cut}
  Wanted = {"delete", "retry", seen, cut}
  MaxKey = 2
  Notes = {1, 2, 3}
  MaxScore = 2
  Limit = 1
  MaxEdits = 1
  MaxToggles = 1
  Words = {w1, w2}
  None = None
  MaxTyped = 1
  MaxClicks = 1
  MaxElsewhere = 1
  MaxFaults = 1
  Off = Off
SYMMETRY Symmetry
CONSTRAINTS OneTabOnceServed UndoOrDelete
INVARIANTS TypeOK NothingLost Openable IntentsKept  OverwritesOnlyWhatWasShown
CHECK_DEADLOCK FALSE
