------------------------------- MODULE Redirects -------------------------------
(***************************************************************************)
(* The redirect rules of evade-proxy: how add_redirect takes a rule, and   *)
(* how the redirects file, or the command line, becomes a table that       *)
(* active_redirect consults.                                               *)
(*                                                                         *)
(* A rule is the domain as written, a text of bytes, and what follows the  *)
(* "=": an address of either family, junk, or nothing (there is no "=").   *)
(* A line of the file is a rule, an expiry, and its number of fields.      *)
(***************************************************************************)
EXTENDS DnsPacket

CONSTANTS
  MaxLabel,   \* bytes in a label: 63
  MaxDomain   \* bytes in a domain: 253

ASSUME RedirectsAssumption == MaxLabel \in Nat \ {0} /\ MaxDomain \in Nat \ {0}

BadExpiry == -2   \* the second field is not a number
Spaces    == {9, 32}

\* The part of a text from its first to its last byte outside a set.
Trim(text, from, to) ==
  LET begin == {i \in DOMAIN text : text[i] \notin from}
      end   == {i \in DOMAIN text : text[i] \notin to}
  IN  IF begin = {} \/ end = {} THEN <<>> ELSE SubSeq(text, Min(begin), Max(end))

\* The domain as the table names it, or the empty text if it is not one.
NormalizeDomain(raw) ==
  LET name == Lower(Trim(Trim(raw, Spaces, Spaces), {}, {Dot}))
      cuts == {0, Len(name) + 1} \cup {i \in DOMAIN name : name[i] = Dot}
      next(i) == Min({j \in cuts : j > i})
  IN  IF /\ Len(name) \in 1..MaxDomain
         /\ \A i \in cuts \ {Len(name) + 1} : next(i) - i - 1 \in 1..MaxLabel
      THEN name ELSE <<>>

EntryOf_Fresh(rules, domain) == NoRedirect
EntryOf(rules, domain)       == IF domain \in DOMAIN rules THEN rules[domain] ELSE NoRedirect

\* The entry of the domain is made before the address is looked at, so a junk
\* address leaves it there, empty.
AddRedirect(rules, rule) ==
  LET domain == NormalizeDomain(rule.domain)
      old    == EntryOf(rules, domain)
      new    == CASE rule.target = "v4"   -> [old EXCEPT !.v4 = rule.address]
                  [] rule.target = "v6"   -> [old EXCEPT !.v6 = rule.address]
                  [] rule.target = "junk" -> old
  IN  IF rule.target = "nothing" \/ domain = <<>> THEN [ok |-> FALSE, rules |-> rules]
      ELSE [ok    |-> rule.target # "junk",
            rules |-> [d \in DOMAIN rules \cup {domain} |-> IF d = domain THEN new ELSE rules[d]]]

SetExpiry_AsWritten(rules, rule, expiry) ==
  IF rule.domain \in DOMAIN rules THEN [rules EXCEPT ![rule.domain].expires = expiry] ELSE rules

SetExpiry(rules, rule, expiry) ==
  [rules EXCEPT ![NormalizeDomain(rule.domain)].expires = expiry]

\* The expiry of a line becomes that of its domain, with both its addresses.
ReadLine(rules, line, now) ==
  LET added == AddRedirect(rules, line.rule)
  IN  IF line.fields # 2 \/ line.expiry = BadExpiry \/ line.expiry <= now THEN rules
      ELSE IF added.ok THEN SetExpiry(added.rules, line.rule, line.expiry) ELSE added.rules

ParseTemporaryRedirects(lines, now) ==
  FoldLeft(LAMBDA rules, line : ReadLine(rules, line, now), <<>>, lines)

-------------------------------------------------------------------------------
\* RuntimeConfig::parse.  An argument is --test, a --redirect with its rule, or
\* something that ends the program, as does a rule that is refused.
ReadArgument(config, arg) ==
  LET added == AddRedirect(config.rules, arg.rule)
  IN  CASE ~config.ok \/ arg.flag = "other"      -> [config EXCEPT !.ok = FALSE]
        [] config.ok /\ arg.flag = "test"        -> [config EXCEPT !.test = TRUE]
        [] config.ok /\ arg.flag = "redirect"    -> [config EXCEPT !.ok = added.ok, !.rules = added.rules]

\* Rules are for the test instance only; and EVADE_LISTEN_HOST must be an address.
ParseArguments(args, hostOk) ==
  LET config == FoldLeft(ReadArgument, [ok |-> TRUE, test |-> FALSE, rules |-> <<>>], args)
  IN  [config EXCEPT !.ok = @ /\ (config.test \/ config.rules = <<>>) /\ hostOk]
===============================================================================
