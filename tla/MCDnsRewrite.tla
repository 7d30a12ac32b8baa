----------------------------- MODULE MCDnsRewrite -----------------------------
(***************************************************************************)
(* Instances of DnsRewrite over a 16-address space with 4-address "/24"s.  *)
(* Cloudflare is 4..7 in both families; 1 and 2 modulo 4 are host          *)
(* addresses.                                                              *)
(***************************************************************************)
EXTENDS DnsRewrite

CNAME == 5

Lists(b4, b6, cf) == [cf4 |-> cf, cf6 |-> cf, blocked4 |-> b4, blocked6 |-> b6]

Cloudflare == <<<<4, 7>>>>

\* A blocked host with a free neighbour, one without, one outside Cloudflare;
\* and a proxy that has loaded nothing.
MCListVersions == {Lists({5, 14}, {6}, Cloudflare),
                   Lists({5, 6, 14}, {4, 5, 6}, Cloudflare),
                   Lists({}, {}, <<>>)}

Record(kind, answer, ttl, v4, v6) ==
  [kind |-> kind, answer |-> answer, ttl |-> ttl, v4 |-> v4, v6 |-> v6]
Opt == Record(OPT, FALSE, 9, <<>>, <<>>)
Response(domain, qtype, rrs) ==
  [domain |-> domain, qtype |-> qtype, rcodeOk |-> TRUE, ad |-> TRUE,
   parses |-> TRUE, rrs |-> rrs]

\* Address answers behind an alias, glue in the additional section (once with
\* no answer at all), hints of both families, a domain only the command line pins.
AddressA     == Response("site", A, <<Record(CNAME, TRUE, 1, <<>>, <<>>),
                  Record(A, TRUE, 9, <<5>>, <<>>), Record(A, FALSE, 4, <<5>>, <<>>), Opt>>)
AddressAaaa  == Response("site", AAAA, <<Record(CNAME, TRUE, 1, <<>>, <<>>),
                  Record(AAAA, TRUE, 9, <<>>, <<6>>), Opt>>)
Hints        == Response("site", HTTPS,
                  <<Record(HTTPS, TRUE, 9, <<5, 14>>, <<6>>), Opt>>)
NoAaaa       == Response("site", AAAA, <<Record(AAAA, FALSE, 9, <<>>, <<6>>), Opt>>)
Elsewhere    == Response("other", A, <<Record(A, TRUE, 9, <<14>>, <<>>),
                  Record(A, TRUE, 2, <<12>>, <<>>), Opt>>)
LabAddress   == Response("lab", A, <<Record(A, TRUE, 9, <<6>>, <<>>)>>)
Unparsable   == [AddressA EXCEPT !.parses = FALSE]
Failed       == [Hints EXCEPT !.rcodeOk = FALSE, !.rrs = <<Opt>>]
Unvalidated  == [AddressA EXCEPT !.ad = FALSE]

AllResponses == {AddressA, AddressAaaa, Hints, NoAaaa, Elsewhere, LabAddress, Unparsable, Failed,
                 Unvalidated}
FewResponses == {AddressA, Hints}

Pin(v4, v6, expires) == [v4 |-> v4, v6 |-> v6, expires |-> expires]

MCTestRedirects == [d \in {"lab"} |-> Pin(13, NoAddr, NoExpiry)]

\* An IPv4 pin (outside Cloudflare), pins of both families, a pin on an
\* address that is itself blocked, and a rule the command line hides.
MCRedirectTables ==
  {NoTable,
   [d \in {"site"} |-> Pin(13, NoAddr, 1)],
   [d \in {"site", "other"} |-> IF d = "site" THEN Pin(13, 9, 2) ELSE Pin(5, NoAddr, 2)],
   [d \in {"site", "lab"} |-> IF d = "site" THEN Pin(NoAddr, 9, 2) ELSE Pin(1, NoAddr, 2)]}
FewRedirectTables ==
  {NoTable, [d \in {"site"} |-> Pin(13, NoAddr, 1)]}
FewListVersions == {Lists({5, 14}, {6}, Cloudflare)}

MCRewriteTtls == {2, 5}    \* below and above CloudflareMaxTtl

\* The relay tasks run the same code on state of their own.
Symmetry == Permutations(Workers)

\* Bound: two responses are in hand together, or one after the other, only if
\* both are of FewResponses and come among few tables and lists.
FewWhenSeveral ==
  \/ sent.responses + Cardinality(Active) <= 1
  \/ /\ \A w \in Active : task[w].orig \in FewResponses
     /\ temporary \in FewRedirectTables
     /\ data \in {DataNew(lists) : lists \in FewListVersions}
     /\ clock <= 1 /\ rewriteTtl = 2
===============================================================================
