SPECIFICATION ServerSpec
CONSTANTS
  make = make
  write = write
  hide = hide
  undo = undo
  k1 = k1
  k2 = k2
  a1 = a1
  a2 = a2
  n1 = n1
  n2 = n2
  n3 = n3
  c1 = c1
  s1 = s1
  s2 = s2
  NoWorker = NoWorker
  Orphan = Orphan
  Off = Off
  None = None
  Unasked = Unasked
  Other = Other
  Requests = {make, write, hide, undo}
  Keys = {k1, k2}
  Servers = {s1, s2}
  Want <- Wanted
  KeyOf <- KeyOfEach
  MaxElsewhere = 1
  MaxRotations = 1
  MaxFaults = 1
  Hits = {1, 2}
  Workers = {s1, s2}
  MaxRevision = 2
  MaxSwitches = 1
  Owners = {1}
  Notes = {a1, a2}
  Passes = {s1, s2}
  Poison = {}
  Capacity = 1
  PageLimit = 1
  MaxPages = 1
  SeedLimit = 1
  MaxSeedPages = 2
  MaxWrites = 2
  Trashable = {n1, n2, n3}
  Captures = {c1}
  Runs = {s1, s2}
  Ways = {"review", "move", "undo", "delete"}
  Batch = 2
  Window = 4
  MaxChanges = 3
SYMMETRY Symmetry
CONSTRAINTS OneUseOfKeys OneRest BegunAlive FewChanges
ACTION_CONSTRAINT SecondWriteIsKey
INVARIANTS EveryTypeOK BuiltOnItsBase
PROPERTIES Once OneSearchOneSnapshot  PurgeTakesOneNote
CHECK_DEADLOCK FALSE
