SPECIFICATION Spec
CONSTANTS
  Inodes = {i1, i2, i3, i4}
  MaxCount = 3
  MaxStops = 2
  MaxKills = 1
SYMMETRY Symmetry
INVARIANTS
  FileWhole
  AloneSaveKept
PROPERTIES
  NeverShrinks
