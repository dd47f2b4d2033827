SPECIFICATION Spec
CONSTANTS
  Requests = {r1}
  Photos = {p}
  Settings <- AllSettings
  DefaultSettings <- Kept1
  Times = {1, 2, 3}
  Faults = {"stop"}
  None = None
INVARIANTS
  UndoIsPossible
