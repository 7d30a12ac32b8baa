------------------------------- MODULE DnsPacket -------------------------------
(***************************************************************************)
(* The bytes of a DNS response, as evade-proxy reads and edits them: names *)
(* with compression pointers, resource records, the address hints of SVCB  *)
(* and HTTPS records, and App::process on the packet itself.               *)
(*                                                                         *)
(* A packet is a sequence of bytes; positions count from 0 as in the code. *)
(* The constants are the widths of the addresses, so that a small instance *)
(* keeps the arithmetic of the offsets.                                    *)
(***************************************************************************)
EXTENDS DnsResponse

CONSTANTS
  Octets4,   \* bytes of an IPv4 address: 4
  Octets6,   \* bytes of an IPv6 address: 16
  MaxJumps   \* compression pointers followed in one name: 128

ASSUME DnsPacketAssumption ==
  Octets4 \in Nat \ {0} /\ Octets6 \in Nat \ {0} /\ MaxJumps \in Nat

None   == -1                            \* an Option<usize> that is None
NoName == [text |-> <<>>, end |-> None]
Dot    == 46
Header == 12

At(p, pos)  == p[pos + 1]
Has(p, pos) == pos < Len(p)

Lower(text) == [i \in DOMAIN text |-> IF text[i] \in 65..90 THEN text[i] + 32 ELSE text[i]]

\* The number in w bytes, and the bytes of a number.
Number(p, pos, w) == FoldLeft(LAMBDA n, i : n * 256 + At(p, pos + i - 1), 0, [i \in 1..w |-> i])
Bytes(n, w)       == [i \in 1..w |-> (n \div SizeOf[8 * (w - i)]) % 256]

\* A TTL.  Those from 2^31 up count as the largest below: the caps are far below.
Ttl(p, pos) == IF At(p, pos) > 127 THEN 2147483647 ELSE Number(p, pos, 4)

-------------------------------------------------------------------------------
\* Names.

IsPointer(n) == n \div 64 = 3
IsLabel(n)   == n \in 1..63

SkipName(p, start) ==
  LET skip[pos \in Nat] ==
        LET n == At(p, pos)
        IN  IF ~Has(p, pos) THEN None
            ELSE IF IsPointer(n) THEN IF Has(p, pos + 1) THEN pos + 2 ELSE None
            ELSE IF n = 0 THEN pos + 1
            ELSE IF n > 63 \/ pos + 1 + n > Len(p) THEN None ELSE skip[pos + 1 + n]
  IN  skip[start]

\* The name at a position, in lower case, and where it ends: behind its first
\* pointer, if it has one.  (Of the bytes that are no text only 255 is told.)
DecodeName(p, start) ==
  LET decode[pos \in Nat, jumps \in Nat] ==
        LET n     == At(p, pos)
            label == Lower(SubSeq(p, pos + 2, pos + 1 + n))
            rest  == decode[pos + 1 + n, jumps]
            far   == decode[(n % 64) * 256 + At(p, pos + 1), jumps + 1]
        IN  CASE ~Has(p, pos)                -> NoName
              [] Has(p, pos) /\ n = 0        -> [text |-> <<>>, end |-> pos + 1]
              [] Has(p, pos) /\ IsPointer(n) ->
                   IF ~Has(p, pos + 1) \/ jumps = MaxJumps \/ far = NoName THEN NoName
                   ELSE [far EXCEPT !.end = pos + 2]
              [] Has(p, pos) /\ IsLabel(n)   ->
                   IF pos + 1 + n > Len(p) \/ 255 \in Range(label) \/ rest = NoName THEN NoName
                   ELSE [rest EXCEPT !.text = label \o (IF @ = <<>> THEN <<>> ELSE <<Dot>> \o @)]
              [] Has(p, pos) /\ n \in 64..191 -> NoName
  IN  decode[start, 0]

QuestionName(p) ==
  IF Len(p) < 6 \/ Number(p, 4, 2) = 0 THEN NoName ELSE DecodeName(p, Header)

-------------------------------------------------------------------------------
\* Records.

QuestionEnd(p, pos) ==
  LET name == SkipName(p, pos)
  IN  IF pos = None \/ name = None \/ name + 4 > Len(p) THEN None ELSE name + 4

Fits_OffByOne(p, end) == end <= Len(p) + 1
Fits(p, end)          == end <= Len(p)

TtlAt_Late(name) == name + 6
TtlAt(name)      == name + 4

\* The record at a position, which is where the one before it ended.
ReadRecord(p, acc, answer) ==
  LET name  == SkipName(p, acc.pos)
      rdata == name + 10
      end   == rdata + Number(p, name + 8, 2)
  IN  IF acc.pos = None \/ name = None \/ rdata > Len(p) \/ ~Fits(p, end)
      THEN [acc EXCEPT !.pos = None]
      ELSE [pos |-> end,
            rrs |-> Append(acc.rrs, [start |-> acc.pos, kind |-> Number(p, name, 2), ttl |-> TtlAt(name),
                                     rdata |-> rdata, end |-> end, answer |-> answer])]

\* "pos" is None when the sections do not parse.
ResourceRecords(p) ==
  LET answers == Number(p, 6, 2)
      total   == answers + Number(p, 8, 2) + Number(p, 10, 2)
      first   == FoldLeft(LAMBDA pos, i : QuestionEnd(p, pos), Header, [i \in 1..Number(p, 4, 2) |-> i])
  IN  IF Len(p) < Header THEN [pos |-> None, rrs |-> <<>>]
      ELSE FoldLeft(LAMBDA acc, i : ReadRecord(p, acc, i <= answers),
                    [pos |-> first, rrs |-> <<>>], [i \in 1..total |-> i])

Parses(p) == ResourceRecords(p).pos # None

\* Where each address of a family begins in an SVCB or HTTPS record: parameters
\* follow the priority and the target name, which must not be compressed, up to
\* the first one that does not fit.
HintOffsets(p, rr, key, w) ==
  LET target[pos \in Nat] ==
        LET n == At(p, pos)
        IN  IF pos >= rr.end \/ n > 63 THEN None
            ELSE IF n = 0 THEN pos + 1
            ELSE IF pos + 1 + n > rr.end THEN None ELSE target[pos + 1 + n]
      params[pos \in Nat] ==
        LET value == pos + 4
            size  == Number(p, pos + 2, 2)
        IN  IF value > rr.end \/ value + size > rr.end THEN {}
            ELSE (IF Number(p, pos, 2) = key
                  THEN {value + w * i : i \in 0..(size \div w - 1)} ELSE {})
                   \cup params[value + size]
      begin == target[rr.rdata + 2]
  IN  IF rr.rdata + 2 > rr.end \/ begin = None THEN {} ELSE params[begin]

Offsets(p, rr, kind, key, w) ==
  CASE rr.kind = kind                        -> IF rr.end - rr.rdata = w THEN {rr.rdata} ELSE {}
    [] rr.kind \in {SVCB, HTTPS}             -> HintOffsets(p, rr, key, w)
    [] rr.kind \notin {kind, SVCB, HTTPS}    -> {}

Offsets4(p, rr) == Offsets(p, rr, A, 4, Octets4)
Offsets6(p, rr) == Offsets(p, rr, AAAA, 6, Octets6)

-------------------------------------------------------------------------------
\* App::process.

RCode(p)      == At(p, 3) % 16
AdSet(p)      == (At(p, 3) \div 32) % 2 = 1
ClearAd(byte) == IF (byte \div 32) % 2 = 1 THEN byte - 32 ELSE byte

Put(e, q) ==
  [i \in DOMAIN q |-> IF i - 1 \in e.at..(e.at + Len(e.bytes) - 1) THEN e.bytes[i - e.at] ELSE q[i]]

PutAll(p, edits) == FoldSet(Put, p, edits)

SuppressesPacket(p, redirect) ==
  LET end == QuestionEnd(p, Header)
  IN  /\ OnlyIPv4(redirect) /\ end # None
      /\ Number(p, end - 4, 2) \in Suppressible
      /\ RCode(p) = 0 /\ Number(p, 6, 2) # 0
      /\ Parses(p)

EmptiedCounts_NoOpt(opts) == <<0, 0, 0, 0, 0, 0>>
EmptiedCounts(opts)       == <<0, 0, 0, 0>> \o Bytes(opts, 2)

\* An empty NOERROR: the header, the question and the OPT records.
EmptiedPacket(p) ==
  LET opts == SelectSeq(ResourceRecords(p).rrs, LAMBDA rr : rr.kind = OPT)
      out  == FoldLeft(LAMBDA q, rr : q \o SubSeq(p, rr.start + 1, rr.end),
                       SubSeq(p, 1, QuestionEnd(p, Header)), opts)
  IN  PutAll(out, {[at |-> 6, bytes |-> EmptiedCounts(Len(opts))],
                   [at |-> 3, bytes |-> <<ClearAd(At(p, 3))>>]})

\* The edits of the addresses of one family, and of the TTLs.
AddressEdits(p, rr, offsets, w, pin, hops) ==
  {e \in {[at |-> pos, bytes |-> Bytes(Replacement(Number(p, pos, w), pin, hops), w)] : pos \in offsets} :
     e.bytes # SubSeq(p, e.at + 1, e.at + w)}

TtlEdits(p, rrs, limit) ==
  {[at |-> rr.ttl, bytes |-> Bytes(Min({Ttl(p, rr.ttl), limit}), 4)]
     : rr \in {r \in rrs : r.kind \notin PseudoKinds /\ Ttl(p, r.ttl) > limit}}

RewrittenPacket(p, redirect, d, rewriteTtl) ==
  LET rrs   == Range(ResourceRecords(p).rrs)
      cf    == \E rr \in rrs : \/ \E pos \in Offsets4(p, rr) : Containing(d.cf4, Number(p, pos, Octets4)) # NoRange
                               \/ \E pos \in Offsets6(p, rr) : Containing(d.cf6, Number(p, pos, Octets6)) # NoRange
      edits == UNION {AddressEdits(p, rr, Offsets4(p, rr), Octets4, PinFor(rr, redirect).v4, d.evasion4)
                        \cup
                      AddressEdits(p, rr, Offsets6(p, rr), Octets6, PinFor(rr, redirect).v6, d.evasion6)
                      : rr \in rrs}
      hit   == edits # {}
      ttls  == IF MustCap(cf, hit) THEN TtlEdits(p, rrs, TtlLimit(cf, hit, rewriteTtl)) ELSE {}
      flags == IF hit THEN {[at |-> 3, bytes |-> <<ClearAd(At(p, 3))>>]} ELSE {}
  IN  PutAll(p, ttls \cup edits \cup flags)

ProcessedPacket(p, redirect, d, rewriteTtl) ==
  CASE SuppressesPacket(p, redirect)                -> EmptiedPacket(p)
    [] ~SuppressesPacket(p, redirect) /\ Parses(p)  -> RewrittenPacket(p, redirect, d, rewriteTtl)
    [] ~Parses(p)                                   -> p

-------------------------------------------------------------------------------
\* The response of DnsResponse that a packet stands for.

Ascending(offsets) == SetToSortSeq(offsets, LAMBDA a, b : a < b)
Numbers(p, offsets, w) == LET at == Ascending(offsets) IN [i \in DOMAIN at |-> Number(p, at[i], w)]

AsResponse(p) ==
  LET rrs == ResourceRecords(p).rrs
      end == QuestionEnd(p, Header)
  IN  [domain  |-> QuestionName(p).text,
       qtype   |-> IF end = None THEN None ELSE Number(p, end - 4, 2),
       rcodeOk |-> RCode(p) = 0, ad |-> AdSet(p), parses |-> Parses(p),
       rrs     |-> [i \in DOMAIN rrs |->
                      [kind |-> rrs[i].kind, answer |-> rrs[i].answer, ttl |-> Ttl(p, rrs[i].ttl),
                       v4 |-> Numbers(p, Offsets4(p, rrs[i]), Octets4),
                       v6 |-> Numbers(p, Offsets6(p, rrs[i]), Octets6)]]]
===============================================================================
