SPECIFICATION Spec
CONSTANTS
  Bits = 4
  OctetSize = 4
  Window4 = 6
  Window6 = 4
  Workers = {w1, w2}
  Responses <- AllResponses
  TestRedirects <- MCTestRedirects
  RedirectTables <- MCRedirectTables
  ListVersions <- MCListVersions
  RewriteTtls <- MCRewriteTtls
  CloudflareMaxTtl = 3
  MaxClock = 2
  MaxResponses = 3
SYMMETRY Symmetry
CONSTRAINT FewWhenSeveral
INVARIANTS
  NoEvadableAddressSent
  OffCloudflareUntouched
  TtlCapped
  AuthenticOnlyIfUnchanged
  PinObeyed
  ResponsesCounted
  RecordsCounted
