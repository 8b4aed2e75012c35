SPECIFICATION Spec
CONSTANTS
  Profiles = {pA, pB}
  Captures = {c1}
  Attachments = {a1, a2}
  Owner <- TheOwner
  CaptureOf <- TheCapture
  MaxAttempts = 2
  Writers = {pA}
  Drafts = {c1, c2}
  Writer <- TheWriter
  MaxGeneration = 3
  Users = {u1, u2}
  Requests = {r1, r2}
  MaxVersion = 3
  MaxFlights = 2
  Notes = {1, 2, 3}
  MaxScore = 2
  Limit = 1
  MaxEdits = 1
  MaxPages = 2
  MaxSearches = 2
  NoOne = NoOne
  NoUser = NoUser
  Off = Off
CONSTRAINT FewGenerations
SYMMETRY Symmetry
INVARIANTS TypeOK DeliveredUnderItsProfile OneSheetOneCapture SessionIsTheOwners 
PROPERTIES AcceptedOnce
CHECK_DEADLOCK FALSE
