SPECIFICATION Spec
CONSTANTS
  Clients = {c1, c2}
  Viewers = {v1}
  Pictures = {x, y}
  MaxPath = 1
  MaxCopies = 2
  None = None
SYMMETRY Symmetry
INVARIANTS
  TypeOK
PROPERTIES
  PhotosInUseStay
  UploadsDoNotCollide
  SetAsideIsKept
