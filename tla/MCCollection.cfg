SPECIFICATION Spec
CONSTANTS
  Pens = {p1, p2}
  Inks = {i1, i2}
  Swatches = {s1}
  Times = {0, 1, 2, 3}
  DAY_MS = 1
  SettingsChoices <- MCSettings
  MaxRank = 3
  Open = Open
  NoInk = NoInk
  Forever = Forever
SYMMETRY Symmetry
INVARIANTS
  TypeOK
  Chronological
  AcceptedStaysValid
  UndoIsRefusedForTwoEndsOnly
  FinishedFillsAreRecorded
PROPERTIES
  CurrentInkIsNeverForgotten
  UndoGivesBackTheInk
  UndoTakesBackTheChange
