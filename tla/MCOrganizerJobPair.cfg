SPECIFICATION Spec
CONSTANTS
  j1 = j1
  j2 = j2
  n1 = n1
  s1 = s1
  s2 = s2
  r1 = r1
  r2 = r2
  r3 = r3
  Jobs = {j1, j2}
  Notes = {n1, s1, s2}
  ReservationIds = {r1, r2}
  NoNote = NoNote
  NoReservation = NoReservation
  StableNote <- TwoStableNotes
  MaxAttempts = 1
  MaxRetries = 0
  MaxRevision = 2
  OwnerStatuses = {"open", "trashed"}
  ControlKinds = {"none", "explicit"}
SYMMETRY PairSymmetry
INVARIANTS LeaseOwnsReservations NoDanglingNote
CHECK_DEADLOCK FALSE
