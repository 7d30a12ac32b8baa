------------------------------ MODULE EvasionMap ------------------------------
(***************************************************************************)
(* The address arithmetic of evade-proxy: parsing and merging Cloudflare   *)
(* prefixes, finding the range that contains an address, and choosing the  *)
(* free neighbour that replaces a blocked address (src/src/main.rs,        *)
(* Data::new and its helpers).  Pure operators, no state.                  *)
(*                                                                         *)
(* Addresses of both families are naturals below 2^Bits.  The constants    *)
(* are the literals of the code, so that small instances keep the shape of *)
(* the real address space.                                                 *)
(***************************************************************************)
EXTENDS Integers, Sequences, FiniteSets, SequencesExt

CONSTANTS
  Bits,       \* width of an address: 32 for u32, 128 for u128
  OctetSize,  \* addresses in the /24 that the IPv4 scan tries first: 256
  Window4,    \* cap on the second IPv4 scan: 65536
  Window6     \* the IPv6 scan tries offsets 1..Window6-1: 1024

ASSUME EvasionMapAssumption ==
  /\ Bits \in Nat \ {0}
  /\ OctetSize \in Nat /\ OctetSize > 2
  /\ Window4 \in Nat \ {0}
  /\ Window6 \in Nat \ {0}

NoAddr  == -1      \* None, where the code returns Option<address>
NoRange == <<>>    \* None, where it returns Option<(start, end)>

(***************************************************************************)
(* Prefix lists                                                            *)
(***************************************************************************)

\* The addresses that differ in the lowest n bits only.
SizeOf[n \in Nat] == IF n = 0 THEN 1 ELSE 2 * SizeOf[n - 1]

\* A list line ip/bits: host bits are masked off, a length beyond the width
\* makes the line unusable.
ParsePrefix(line) ==
  LET size  == SizeOf[Bits - line.bits]
      start == line.ip - (line.ip % size)
  IN  IF line.bits > Bits THEN NoRange ELSE <<start, start + size - 1>>

RangeBefore(a, b) == a[1] < b[1] \/ (a[1] = b[1] /\ a[2] < b[2])

Absorb_TouchingDropped(out, r) ==
  IF out # <<>> /\ r[1] <= Last(out)[2]
  THEN [out EXCEPT ![Len(out)] = <<@[1], r[2]>>]
  ELSE Append(out, r)

\* Overlapping or adjacent ranges grow the last one.  (checked_add_one only
\* overflows when the last range already ends at the top of the space, and
\* then the first comparison of the code holds anyway.)
Absorb(out, r) ==
  IF out # <<>> /\ r[1] <= Last(out)[2] + 1
  THEN [out EXCEPT ![Len(out)] = <<@[1], IF r[2] > @[2] THEN r[2] ELSE @[2]>>]
  ELSE Append(out, r)

Sorted(ranges) ==
  CHOOSE s \in SetToSeqs(ranges) : \A i, j \in DOMAIN s : i < j => RangeBefore(s[i], s[j])

Merge(ranges) == FoldLeft(Absorb, <<>>, Sorted(ranges))

\* partition_point over sorted ranges, then a bounds test on the last range
\* that starts at or below the value.
Containing(ranges, value) ==
  LET index == Cardinality({i \in DOMAIN ranges : ranges[i][1] <= value})
  IN  IF index > 0 /\ value <= ranges[index][2] THEN ranges[index] ELSE NoRange

(***************************************************************************)
(* Free neighbours                                                         *)
(***************************************************************************)

\* ip+1, ip-1, ip+2, ip-2, ... up to distance n: the order of both scans.
Around(ip, n) ==
  [k \in 1..(2 * n) |-> IF k % 2 = 1 THEN ip + ((k + 1) \div 2) ELSE ip - (k \div 2)]

FirstIn(candidates, free) ==
  LET i == SelectInSeq(candidates, LAMBDA c : c \in free)
  IN  IF i = 0 THEN NoAddr ELSE candidates[i]

\* Last octet in 1..254: neither the network nor the broadcast address.
IsHost(c) == c % OctetSize \in 1..(OctetSize - 2)

SameOctets(c, ip) == c \div OctetSize = ip \div OctetSize

ScanEvasiveV4_ShortWindow(ip, cf, blocked) ==
  LET range == Containing(cf, ip)
      free  == {c \in range[1]..range[2] : IsHost(c)} \ blocked
  IN  IF range = NoRange THEN NoAddr
      ELSE FirstIn(Around(ip, OctetSize - 2), {c \in free : SameOctets(c, ip)})

ScanEvasiveV4_AnyOctet(ip, cf, blocked) ==
  LET range == Containing(cf, ip)
      free  == (range[1]..range[2]) \ blocked
  IN  IF range = NoRange THEN NoAddr ELSE FirstIn(Around(ip, OctetSize - 2), free)

\* The /24 first, then outwards from the address up to the window.
ScanEvasiveV4(ip, cf, blocked) ==
  LET range == Containing(cf, ip)
      max   == Min({range[2] - range[1] + 1, Window4})
      free  == {c \in range[1]..range[2] : IsHost(c)} \ blocked
      near  == FirstIn(Around(ip, OctetSize - 2), {c \in free : SameOctets(c, ip)})
  IN  IF range = NoRange THEN NoAddr
      ELSE IF near # NoAddr THEN near ELSE FirstIn(Around(ip, max - 1), free)

ScanEvasiveV6_UpFirst(ip, cf, blocked) ==
  LET range == Containing(cf, ip)
      n     == Window6 - 1
      order == [k \in 1..(2 * n) |-> IF k <= n THEN ip + k ELSE ip - (k - n)]
  IN  IF range = NoRange THEN NoAddr ELSE FirstIn(order, (range[1]..range[2]) \ blocked)

ScanEvasiveV6(ip, cf, blocked) ==
  LET range == Containing(cf, ip)
  IN  IF range = NoRange THEN NoAddr
      ELSE FirstIn(Around(ip, Window6 - 1), (range[1]..range[2]) \ blocked)

\* Data::new: the evasion maps are computed once per reload, and hold only
\* the blocked addresses that have a free neighbour.
DataNew(lists) ==
  LET hop4(ip) == ScanEvasiveV4(ip, lists.cf4, lists.blocked4)
      hop6(ip) == ScanEvasiveV6(ip, lists.cf6, lists.blocked6)
  IN  [blocked4 |-> lists.blocked4, blocked6 |-> lists.blocked6,
       cf4 |-> lists.cf4, cf6 |-> lists.cf6,
       evasion4 |-> [ip \in {b \in lists.blocked4 : hop4(b) # NoAddr} |-> hop4(ip)],
       evasion6 |-> [ip \in {b \in lists.blocked6 : hop6(b) # NoAddr} |-> hop6(ip)]]

(***************************************************************************)
(* What the evasion maps promise, stated against the covered addresses and *)
(* not against the order of any scan                                       *)
(***************************************************************************)

Covered(ranges) == UNION {ranges[i][1]..ranges[i][2] : i \in DOMAIN ranges}

InRange(range, c) == range[1] <= c /\ c <= range[2]

\* Two addresses of one merged range: every address between them is covered.
SameRange(ranges, a, b) == (a..b) \cup (b..a) \subseteq Covered(ranges)

\* What merge leaves: non-empty ranges in ascending order that do not touch.
Apart(ranges) ==
  /\ \A i \in DOMAIN ranges : ranges[i][1] <= ranges[i][2]
  /\ \A i, j \in DOMAIN ranges : i < j => ranges[i][2] + 1 < ranges[j][1]

Distance(a, b) == IF a < b THEN b - a ELSE a - b

\* A blocked address leads to another address of its own merged range that is
\* not blocked itself; an IPv4 one is a host address.
SoundHops(data) ==
  /\ \A ip \in DOMAIN data.evasion4 :
       LET new == data.evasion4[ip]
       IN  /\ ip \in data.blocked4 /\ new \notin data.blocked4
           /\ SameRange(data.cf4, ip, new)
           /\ IsHost(new)
  /\ \A ip \in DOMAIN data.evasion6 :
       LET new == data.evasion6[ip]
       IN  /\ ip \in data.blocked6 /\ new \notin data.blocked6
           /\ SameRange(data.cf6, ip, new)

\* The free neighbours of a blocked address: what a replacement may be.
Free4(data, ip) ==
  {c \in Covered(data.cf4) \ data.blocked4 :
     /\ ip \in Covered(data.cf4)
     /\ SameRange(data.cf4, ip, c)
     /\ IsHost(c)
     /\ SameOctets(c, ip) \/ Distance(c, ip) < Window4}

Free6(data, ip) ==
  {c \in Covered(data.cf6) \ data.blocked6 :
     /\ ip \in Covered(data.cf6)
     /\ SameRange(data.cf6, ip, c)
     /\ Distance(c, ip) < Window6}

\* No blocked address is left without a hop while it has a free neighbour.
CompleteHops(data) ==
  /\ \A ip \in data.blocked4 \ DOMAIN data.evasion4 : Free4(data, ip) = {}
  /\ \A ip \in data.blocked6 \ DOMAIN data.evasion6 : Free6(data, ip) = {}

\* The hop stays in the /24 of the blocked address when that has a free host,
\* and among the candidates it may take no other is closer.
NearestHops(data) ==
  /\ \A ip \in DOMAIN data.evasion4 :
       LET near == {c \in Free4(data, ip) : SameOctets(c, ip)}
           pool == IF near # {} THEN near ELSE Free4(data, ip)
       IN  \A c \in pool : /\ data.evasion4[ip] \in pool
                           /\ Distance(data.evasion4[ip], ip) <= Distance(c, ip)
  /\ \A ip \in DOMAIN data.evasion6 : \A c \in Free6(data, ip) :
       Distance(data.evasion6[ip], ip) <= Distance(c, ip)
===============================================================================
