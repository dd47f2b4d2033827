SPECIFICATION Spec
CONSTANTS
  Requests = {r1, r2}
  UPDATE_CHECK_INTERVAL = 3
  UPDATE_RETRY_INTERVAL = 1
  MaxTime = 6
  None = None
SYMMETRY Symmetry
INVARIANTS
  TypeOK
  QuestionsAreSpaced
PROPERTIES
  FoundIsKept
