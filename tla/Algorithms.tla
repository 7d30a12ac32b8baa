------------------------------ MODULE Algorithms ------------------------------
(***************************************************************************)
(* The pure parts of evade-proxy at work: a behaviour is given one job,    *)
(* does it, and stops.  A job is a pair of list files for the loader (both *)
(* families are given the same lines, so that one job exercises both       *)
(* scans), a redirects file, a command line, or a packet with the rules    *)
(* and the lists in force.                                                 *)
(***************************************************************************)
EXTENDS Redirects

CONSTANT Jobs

Targets == {"v4", "v6", "junk", "nothing"}

IsRule(rule) == rule.target \in Targets /\ rule.address \in Int

ASSUME JobsAssumption ==
  \A j \in Jobs :
    /\ j.kind = "lists" =>
         /\ IsFiniteSet(j.prefixes)
         /\ \A line \in j.prefixes : line.ip \in 0..(SizeOf[Bits] - 1) /\ line.bits \in Nat
         /\ j.blocked \subseteq 0..(SizeOf[Bits] - 1)
    /\ j.kind \in {"rules", "packet"} =>
         /\ j.now \in Nat /\ j.lines \in Seq(Range(j.lines))
         /\ \A i \in DOMAIN j.lines : IsRule(j.lines[i].rule) /\ j.lines[i].expiry \in Int
    /\ j.kind = "arguments" =>
         /\ j.hostOk \in BOOLEAN /\ j.args \in Seq(Range(j.args))
         /\ \A i \in DOMAIN j.args : /\ IsRule(j.args[i].rule)
                                    /\ j.args[i].flag \in {"test", "redirect", "other"}
    /\ j.kind = "packet" =>
         /\ j.packet \in Seq(0..255) /\ j.rewriteTtl \in Nat
         /\ Range(j.data.evasion4) \cup Range(j.data.evasion6) \subseteq Nat

VARIABLES job, result, done

jobVars == <<job, result, done>>

JobInit == job \in Jobs /\ result = <<>> /\ done = FALSE

Does(kind, value) == ~done /\ job.kind = kind /\ result' = value /\ done' = TRUE /\ UNCHANGED job

\* Data::load with every file readable: parse, drop bad lines, merge, compute
\* the hops.
LoadedData(prefixes, blocked) ==
  LET ranges == Merge({ParsePrefix(line) : line \in prefixes} \ {NoRange})
  IN  DataNew([cf4 |-> ranges, cf6 |-> ranges, blocked4 |-> blocked, blocked6 |-> blocked])

Load == Does("lists", LoadedData(job.prefixes, job.blocked))

ReadRules == Does("rules", ParseTemporaryRedirects(job.lines, job.now))

Configure == Does("arguments", ParseArguments(job.args, job.hostOk))

\* The rule in force for the question of a packet.
RedirectOf(packet) ==
  LET rules == ParseTemporaryRedirects(job.lines, job.now)
      name  == QuestionName(packet)
  IN  IF name = NoName THEN NoRedirect ELSE ActiveRedirect(name.text, <<>>, rules, job.now)

Process ==
  Does("packet", ProcessedPacket(job.packet, RedirectOf(job.packet), job.data, job.rewriteTtl))

JobNext == Load \/ ReadRules \/ Configure \/ Process

JobSpec == JobInit /\ [][JobNext]_jobVars

-------------------------------------------------------------------------------
\* Properties of the evasion maps.

Did(kind) == done /\ job.kind = kind

\* Data::new: a replacement is a free address of the same merged range
\* (main.rs, scan_evasive_v4 and scan_evasive_v6).
EvasionSound == Did("lists") => SoundHops(result)

\* Data::new: an address keeps no hop only if none exists within reach, and its
\* hop is a closest one, in the /24 if that has a free host.
EvasionNearest ==
  Did("lists") => CompleteHops(result) /\ NearestHops(result)

\* merge and containing: the merged ranges cover exactly the addresses of the
\* valid lines, keep a gap between one another, and the binary search finds
\* the range of every covered address and nothing for the others.
PrefixesMerged ==
  Did("lists") =>
    LET space == 0..(SizeOf[Bits] - 1)
        inLine(a, line) == LET size == SizeOf[Bits - line.bits]
                           IN  line.bits <= Bits /\ a \div size = line.ip \div size
    IN  /\ Covered(result.cf4) = {a \in space : \E line \in job.prefixes : inLine(a, line)}
        /\ Apart(result.cf4)
        /\ \A a \in space :
             LET found == Containing(result.cf4, a)
             IN  IF a \in Covered(result.cf4) THEN InRange(found, a) ELSE found = NoRange

-------------------------------------------------------------------------------
\* Properties of the rules.

Acceptable(rule) == rule.target \in {"v4", "v6"} /\ NormalizeDomain(rule.domain) # <<>>

\* The lines whose rule add_redirect accepts and that have not expired.
ValidLines ==
  {i \in DOMAIN job.lines :
     LET line == job.lines[i]
     IN  /\ line.fields = 2 /\ line.expiry # BadExpiry /\ line.expiry > job.now
         /\ Acceptable(line.rule)}

RulesOf(seq) == [i \in DOMAIN seq |-> seq[i].rule]

\* The last of some rules of a list for a domain and a family; 0 if there is none.
LastRule(rules, some, domain, target) ==
  LET mine == {i \in some : rules[i].target = target /\ NormalizeDomain(rules[i].domain) = domain}
  IN  IF mine = {} THEN 0 ELSE Max(mine)

\* Each family of a domain is pinned by its last rule, however the domain is
\* written there, and a domain without rules pins nothing.
IsTableOf(table, rules, some) ==
  /\ \A i \in some : NormalizeDomain(rules[i].domain) \in DOMAIN table
  /\ \A d \in DOMAIN table :
       LET pinned(target) == LET i == LastRule(rules, some, d, target)
                             IN  IF i = 0 THEN NoAddr ELSE rules[i].address
       IN  table[d].v4 = pinned("v4") /\ table[d].v6 = pinned("v6")

\* parse_temporary_redirects, RuntimeConfig::parse: the table is that of the
\* valid lines of the file; or of all the rules on the command line, which
\* starts only the test instance, and nothing if any of them is invalid.
RulesAsListed ==
  /\ Did("rules") => IsTableOf(result, RulesOf(job.lines), ValidLines)
  /\ Did("arguments") =>
       LET args  == job.args
           given == {i \in DOMAIN args : args[i].flag = "redirect"}
       IN  /\ result.ok <=> /\ job.hostOk
                            /\ \A i \in DOMAIN args : args[i].flag # "other"
                            /\ \A i \in given : Acceptable(args[i].rule)
                            /\ given # {} => \E i \in DOMAIN args : args[i].flag = "test"
           /\ result.ok => /\ IsTableOf(result.rules, RulesOf(args), given)
                           /\ \A d \in DOMAIN result.rules : result.rules[d].expires = NoExpiry

\* probe-server.py:212-218.  In a file whose lines of a domain share one expiry,
\* as flush_redirects writes it, no address stays in force past its line.
NoneOutlivesItsLine ==
  Did("rules") =>
    \A d \in DOMAIN result, time \in job.now..(job.now + 3), target \in {"v4", "v6"} :
      LET mine == {i \in ValidLines : NormalizeDomain(job.lines[i].rule.domain) = d}
          last == LastRule(RulesOf(job.lines), ValidLines, d, target)
      IN  (/\ Cardinality({job.lines[i].expiry : i \in mine}) = 1
           /\ last # 0 /\ InForce(result[d], time)) => job.lines[last].expiry > time

-------------------------------------------------------------------------------
\* Properties of the packets.  "written" is the response the packet was made
\* from, with the names of its records; a packet that is cut short or damaged
\* has none.

RecordsOf(p) == ResourceRecords(p).rrs

\* resource_records, decode_name, svcb_hint_changes: the packet of a response
\* reads as that response, pointers and letter case included; and a packet that
\* ends early is not taken for a shorter response.
ReadAsWritten ==
  job.kind = "packet" =>
    /\ job.whole => /\ AsResponse(job.packet) = job.written.response
                    /\ \A i \in DOMAIN RecordsOf(job.packet) :
                         DecodeName(job.packet, RecordsOf(job.packet)[i].start)
                           = [text |-> job.written.names[i], end |-> RecordsOf(job.packet)[i].ttl - 4]
    /\ job.cut => ~Parses(job.packet)

Kept == Did("packet") /\ ~SuppressesPacket(job.packet, RedirectOf(job.packet))

\* A response that is not emptied keeps the name of every record, wherever its
\* pointers lead.  (A damaged pointer may lead into an address.)
NamesKept ==
  (Kept /\ (job.whole \/ job.cut)) =>
    \A rr \in Range(RecordsOf(job.packet)) :
      DecodeName(result, rr.start) = DecodeName(job.packet, rr.start)

\* README.md:81.  App::process on bytes is App::process on the response they stand
\* for, with the rule of the domain in the question, damaged packets included; and
\* the names of the records stay.
BytesMatchResponse ==
  Did("packet") =>
    /\ AsResponse(result)
         = Processed(AsResponse(job.packet), RedirectOf(job.packet), job.data, job.rewriteTtl)
    /\ NamesKept

\* README.md:81.  A response that is not emptied, damaged ones included, keeps its
\* length and the layout of its records, and differs only in TTLs, in addresses
\* and in the byte of the AD bit.
LayoutKept ==
  Kept =>
    LET rrs    == Range(RecordsOf(job.packet))
        spans  == {<<3, 1>>} \cup {<<rr.ttl, 4>> : rr \in rrs}
                    \cup UNION {{<<pos, Octets4>> : pos \in Offsets4(job.packet, rr)}
                                  \cup {<<pos, Octets6>> : pos \in Offsets6(job.packet, rr)} : rr \in rrs}
        mayChange == UNION {s[1]..(s[1] + s[2] - 1) : s \in spans}
    IN  /\ Len(result) = Len(job.packet)
        /\ ResourceRecords(result) = ResourceRecords(job.packet)
        /\ \A i \in DOMAIN result : result[i] # job.packet[i] => i - 1 \in mayChange
===============================================================================
