SPECIFICATION Spec
CONSTANTS
  x = x
  y = y
  z = z
  oldPen = oldPen
  oldSwatch = oldSwatch
  ownInk = ownInk
  RECENT_ACTIVITY_LIMIT = 1
  NoId = NoId
  Ids = {x, y, z}
  Paths = {oldPen, oldSwatch, ownInk}
  SectionOf <- MCSectionOf
  Documents <- MCDocuments
  Contents = {v1, v2}
  MaxTime = 3
  MAX_KEEP = 3
  DEFAULT_KEEP = 2
  ShowcaseChoices <- MCChoices
  AddedSeqs = {20}
  LogSeqs = {6, 7, 8, 9}
  Nows = {3}
  None = None
  Open = Open
  Forever = Forever
INVARIANTS
  TypeOK
  ImportIsValid
  PensHoldWhatTheyHeld
  ShowcaseIsClosed
  HiddenDoesNotShow
PROPERTIES
  PhotosAreKept
