SPECIFICATION Spec
CONSTANTS
  Clients = {c1}
  Viewers = {v1}
  Pictures = {x, y}
  MaxPath = 1
  MaxCopies = 2
  None = None
INVARIANTS
  ThumbnailsShowTheirPhoto
