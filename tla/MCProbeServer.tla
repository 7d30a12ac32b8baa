----------------------------- MODULE MCProbeServer -----------------------------
(***************************************************************************)
(* Either two Cloudflare domains that share an address, or one domain      *)
(* with two addresses to pin.                                              *)
(***************************************************************************)
EXTENDS ProbeServer

MCDomains    == {"cf1", "cf2", "pool"}
MCPools      == {"pool"}
MCAddrs      == {"shared", "spare"}
MCNamed      == [d \in MCDomains |-> IF d = "pool" THEN {"shared", "spare"} ELSE {"shared"}]
MCRank       == [d \in MCDomains |-> CASE d = "cf1" -> 1 [] d = "cf2" -> 2 [] d = "pool" -> 3]
MCConfigs    == {{"cf1", "cf2"}, {"pool"}}
===============================================================================
