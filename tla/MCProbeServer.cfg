SPECIFICATION LiveSpec
CONSTANTS
  Domains <- MCDomains
  Pools <- MCPools
  Addrs <- MCAddrs
  Named <- MCNamed
  Rank <- MCRank
  Configs <- MCConfigs
  Confirm = 2
  Clear = 2
  BlockTtl = 2
  JanitorEvery = 1
  MaxReports = 2
  MaxReport = 1
  MaxMishaps = 2
INVARIANTS
  StaysBlocked
  BlockEnds
PROPERTIES
  BlockNeedsRounds
  PinVerified
  Heals
