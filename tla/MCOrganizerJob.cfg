SPECIFICATION Spec
CONSTANTS
  j1 = j1
  j2 = j2
  n1 = n1
  s1 = s1
  s2 = s2
  r1 = r1
  r2 = r2
  r3 = r3
  Jobs = {j1}
  Notes = {n1, s1}
  ReservationIds = {r1, r2, r3}
  NoNote = NoNote
  NoReservation = NoReservation
  StableNote <- OneStableNote
  MaxAttempts = 2
  MaxRetries = 1
  MaxRevision = 3
  OwnerStatuses = {"open", "trashed"}
  ControlKinds = {"none", "explicit", "rule"}
SYMMETRY ReservationSymmetry
INVARIANTS TypeOK ExactlyOnce WorkNeverStranded PreparedAfterLastConflict DestinationRespected
PROPERTIES ImplementsLeasedWork
CHECK_DEADLOCK FALSE
