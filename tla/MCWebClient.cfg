SPECIFICATION Spec
CONSTANTS
  Windows = {w1, w2}
  Items = {pen}
  Fields = {theme, currency}
  Values = {0, 1}
  Shown = {pen}
  Neutral = 0
  Initial <- MCInitial
  Backups <- MCBackups
  MaxUnderWay = 2
  MaxActs = 4
  None = None
  NoRevision = NoRevision
CHECK_DEADLOCK FALSE
SYMMETRY Symmetry
INVARIANTS
  TypeOK
PROPERTIES
  NothingUnseenIsOverwritten
  OnlyWhatWasMeant
