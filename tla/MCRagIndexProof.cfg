SPECIFICATION Spec
CONSTANTS
  g1 = g1
  g2 = g2
  k1 = k1
  k2 = k2
  t1 = t1
  t2 = t2
  Notes = {1}
  Gens = {g1}
  Keys = {k1}
  Targets = {t1}
  NoGen = NoGen
  NoKey = NoKey
  NoTarget = NoTarget
  MaxAttempts = 1
  MaxRevision = 2
  MaxRevoked = 0
INVARIANT ProofCurrentOrListed
CHECK_DEADLOCK FALSE
