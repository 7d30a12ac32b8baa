SPECIFICATION LiveSpec
CONSTANTS
  Lists = {blocked, prefixes}
  ReloadEvery = 2
  TickWrap = 3
  MaxVersion = 2
  MaxPins = 1
  MaxFaults = 1
INVARIANTS
  SeenMeansLoaded
PROPERTIES
  NeverOlder
  CatchesUp
  PinsFollowFile
