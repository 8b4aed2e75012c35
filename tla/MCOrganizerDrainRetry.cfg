SPECIFICATION DrainSpec
CONSTANTS
  j1 = j1
  j2 = j2
  n1 = n1
  s1 = s1
  s2 = s2
  w1 = w1
  w2 = w2
  Jobs = {j1}
  Workers = {w1}
  Notes = {n1, s1}
  ReservationIds <- DerivedIds
  NoNote = NoNote
  NoReservation = NoReservation
  StableNote <- OneStableNote
  MaxAttempts = 2
  MaxRetries = 1
  MaxRevision = 3
  MaxGenerations = 2
  OwnerStatuses = {"open", "trashed"}
  ControlKinds = {"none"}
INVARIANTS FreshReservation
CHECK_DEADLOCK FALSE
