SPECIFICATION JobSpec
CONSTANTS
  Bits = 4
  OctetSize = 4
  Window4 = 6
  Window6 = 4
  CloudflareMaxTtl = 3
  Octets4 = 2
  Octets6 = 3
  MaxJumps = 3
  MaxLabel = 3
  MaxDomain = 6
  Jobs <- MCJobs
INVARIANTS
  PrefixesMerged
  EvasionSound
  EvasionNearest
  RulesAsListed
  NoneOutlivesItsLine
  ReadAsWritten
  BytesMatchResponse
  LayoutKept
CHECK_DEADLOCK FALSE
