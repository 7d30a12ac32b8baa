SPECIFICATION LiveSpec
CONSTANTS
  Lists = {blocked, prefixes}
  ReloadEvery = 2
  TickWrap = 3
  MaxVersion = 1
  MaxPins = 0
  MaxFaults = 1
PROPERTIES
  ReloadedWhilePresent
