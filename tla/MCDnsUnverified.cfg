SPECIFICATION Spec
CONSTANTS
  Bits = 4
  OctetSize = 4
  Window4 = 6
  Window6 = 4
  Workers = {w1}
  Responses <- FewResponses
  TestRedirects <- MCTestRedirects
  RedirectTables <- FewRedirectTables
  ListVersions <- FewListVersions
  CloudflareMaxTtl = 3
  RewriteTtls = {2}
  MaxClock = 1
  MaxResponses = 1
INVARIANTS
  UnverifiedFamilyHidden
