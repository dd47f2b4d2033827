SPECIFICATION Spec
CONSTANTS
  Requests = {r1, r2}
  Photos = {p}
  Settings <- AllSettings
  DefaultSettings <- Kept1
  Times = {1, 2, 3}
  Faults = {"stop", "move", "mkdir", "write"}
  None = None
SYMMETRY Symmetry
INVARIANTS
  TypeOK
  PhotosAreSomewhere
PROPERTIES
  ImplementsDataFolder
  ReplacedIsSeenAndSaved
  PrunedOnlyForNewer
