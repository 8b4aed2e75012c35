SPECIFICATION Spec
CONSTANTS
  g1 = g1
  g2 = g2
  k1 = k1
  k2 = k2
  t1 = t1
  t2 = t2
  Notes = {1, 2}
  Gens = {g1}
  Keys = {k1}
  Targets = {t1}
  NoGen = NoGen
  NoKey = NoKey
  NoTarget = NoTarget
  MaxAttempts = 2
  MaxRevision = 2
  MaxRevoked = 1
SYMMETRY IdSymmetry
INVARIANTS TypeOK VerifiedMeansCovered OpenedBeforeAttested HiddenNeverIndexed
CHECK_DEADLOCK FALSE
