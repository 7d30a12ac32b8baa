------------------------------ MODULE DnsResponse ------------------------------
(***************************************************************************)
(* What App::process of evade-proxy makes of one upstream response, given  *)
(* the redirect of its domain and the loaded lists: an empty NOERROR while *)
(* only an IPv4 address is pinned, otherwise pins and free neighbours in   *)
(* place of addresses, capped TTLs and no AD flag.  Pure operators.        *)
(*                                                                         *)
(* A response is abstracted to what the properties tell apart: the         *)
(* question, the AD flag, whether the record sections parse, and per       *)
(* record its kind, section, TTL and addresses (the one of an A or AAAA,   *)
(* the hints of an SVCB or HTTPS).  DnsPacket does the same on bytes.      *)
(***************************************************************************)
EXTENDS EvasionMap

CONSTANT CloudflareMaxTtl

ASSUME DnsResponseAssumption == CloudflareMaxTtl \in Nat

\* Record kinds.
A == 1   AAAA == 28   OPT == 41   SVCB == 64   HTTPS == 65

Suppressible == {AAAA, SVCB, HTTPS}
PseudoKinds  == {OPT, 249, 250}    \* their TTL field is not a TTL

NoExpiry   == -1   \* expires_at: None
NoRedirect == [v4 |-> NoAddr, v6 |-> NoAddr, expires |-> NoExpiry]

InForce(rule, now) == rule.expires = NoExpiry \/ rule.expires > now

\* A rule given on the command line hides a temporary one; an expired rule
\* counts as none.
ActiveRedirect(domain, test, table, now) ==
  LET rule == IF domain \in DOMAIN test THEN test[domain]
              ELSE IF domain \in DOMAIN table THEN table[domain] ELSE NoRedirect
  IN  IF InForce(rule, now) THEN rule ELSE NoRedirect

-------------------------------------------------------------------------------
\* suppress_unverified_family.

Answers(p) == {i \in DOMAIN p.rrs : p.rrs[i].answer}

OnlyIPv4(redirect) == redirect.v4 # NoAddr /\ redirect.v6 = NoAddr

MustSuppress_AddressOnly(p, redirect) ==
  OnlyIPv4(redirect) /\ p.qtype = AAAA /\ p.rcodeOk /\ p.parses /\ Answers(p) # {}

MustSuppress(p, redirect) ==
  /\ OnlyIPv4(redirect)
  /\ p.qtype \in Suppressible
  /\ p.rcodeOk
  /\ p.parses
  /\ Answers(p) # {}

\* Header and question stay, and the OPT records, now in the additional section.
Emptied(p) ==
  LET opts == SelectSeq(p.rrs, LAMBDA rr : rr.kind = OPT)
  IN  [p EXCEPT !.ad = FALSE,
                !.rrs = [i \in DOMAIN opts |->
                   [kind |-> OPT, answer |-> FALSE, ttl |-> opts[i].ttl,
                    v4 |-> opts[i].v4, v6 |-> opts[i].v6]]]

-------------------------------------------------------------------------------
\* rewrite.

HasCloudflare(rrs, d) ==
  \E i \in DOMAIN rrs :
    \/ \E j \in DOMAIN rrs[i].v4 : Containing(d.cf4, rrs[i].v4[j]) # NoRange
    \/ \E j \in DOMAIN rrs[i].v6 : Containing(d.cf6, rrs[i].v6[j]) # NoRange

\* A pin replaces every address of its family; otherwise a blocked address
\* with a hop is replaced by it.
Replacement(address, pin, hops) ==
  IF pin # NoAddr THEN pin
  ELSE IF address \in DOMAIN hops THEN hops[address] ELSE address

Replaced(addresses, pin, hops) ==
  [j \in DOMAIN addresses |-> Replacement(addresses[j], pin, hops)]

\* Pins apply to the answer section only, hops to every section.
PinFor(rr, redirect) == IF rr.answer THEN redirect ELSE NoRedirect

NewAddresses_AnswersOnly(rr, redirect, d) ==
  IF ~rr.answer THEN rr
  ELSE [rr EXCEPT !.v4 = Replaced(@, redirect.v4, d.evasion4),
                  !.v6 = Replaced(@, redirect.v6, d.evasion6)]

NewAddresses(rr, redirect, d) ==
  [rr EXCEPT !.v4 = Replaced(@, PinFor(rr, redirect).v4, d.evasion4),
             !.v6 = Replaced(@, PinFor(rr, redirect).v6, d.evasion6)]

\* The addresses that differ between two versions of the records.
Edits(old, new) ==
  UNION {{<<i, "v4", j>> : j \in {k \in DOMAIN old[i].v4 : old[i].v4[k] # new[i].v4[k]}}
           \cup
         {<<i, "v6", j>> : j \in {k \in DOMAIN old[i].v6 : old[i].v6[k] # new[i].v6[k]}}
         : i \in DOMAIN old}

TtlLimit_RewriteOnly(cloudflare, changed, rewriteTtl) ==
  IF cloudflare /\ ~changed THEN CloudflareMaxTtl ELSE rewriteTtl

TtlLimit(cloudflare, changed, rewriteTtl) ==
  CASE cloudflare /\ ~changed -> CloudflareMaxTtl
    [] cloudflare /\ changed  -> Min({CloudflareMaxTtl, rewriteTtl})
    [] OTHER                  -> rewriteTtl

\* The whole response is capped when any of its original addresses is
\* Cloudflare's or any address changed.
MustCap_Always(cloudflare, changed) == TRUE
MustCap(cloudflare, changed) == cloudflare \/ changed

Capped(rr, limit) ==
  IF rr.kind \in PseudoKinds THEN rr ELSE [rr EXCEPT !.ttl = Min({@, limit})]

\* AD goes only with a changed address.
AdAfter_Kept(ad, changed) == ad
AdAfter(ad, changed) == ad /\ ~changed

Rewritten(p, redirect, d, rewriteTtl) ==
  LET new == [i \in DOMAIN p.rrs |-> NewAddresses(p.rrs[i], redirect, d)]
      cf  == HasCloudflare(p.rrs, d)
      hit == Edits(p.rrs, new) # {}
  IN  [p EXCEPT !.rrs = [i \in DOMAIN new |->
          IF MustCap(cf, hit) THEN Capped(new[i], TtlLimit(cf, hit, rewriteTtl)) ELSE new[i]],
                !.ad  = AdAfter(@, hit)]

\* A response whose records do not parse leaves as it came.
Processed(p, redirect, d, rewriteTtl) ==
  IF MustSuppress(p, redirect) THEN Emptied(p)
  ELSE IF p.parses THEN Rewritten(p, redirect, d, rewriteTtl) ELSE p
===============================================================================
