SPECIFICATION LiveSpec
CONSTANTS
  Addrs = {a}
  MaxRanges = 2
  MaxChanges = 2
  MaxFaults = 1
INVARIANTS
  FeedSteady
PROPERTIES
  Delivered
  RangesFollow
