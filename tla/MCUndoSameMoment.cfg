SPECIFICATION Spec
CONSTANTS
  Pens = {p1}
  Inks = {i1, i2}
  Swatches = {}
  Times = {0, 1, 2, 3}
  DAY_MS = 1
  SettingsChoices <- MCInkSettings
  MaxRank = 4
  Open = Open
  NoInk = NoInk
  Forever = Forever
SYMMETRY Symmetry
INVARIANTS
  UndoStaysValid
