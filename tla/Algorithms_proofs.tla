-------------------------- MODULE Algorithms_proofs --------------------------
(***************************************************************************)
(* Proofs about the pure parts of evade-proxy, for address spaces, windows *)
(* and inputs of any size: the evasion maps of Data::new, merge, the       *)
(* redirects file, the command line, and the edits of a packet.  The loops *)
(* of the code are folds and recursive functions here; what one returns is *)
(* shown by induction on the length of its input, or on what is left of    *)
(* the packet, from the fact that the natural numbers are well-founded.    *)
(***************************************************************************)
EXTENDS Algorithms, FiniteSetTheorems, WellFoundedInduction, TLAPS

\* The natural numbers are well-founded; everything by induction rests on it.
LEMMA LeastExists ==
  ASSUME NEW S, S \subseteq Nat, S # {}
  PROVE  \E x \in S : \A y \in S : x =< y
<1> DEFINE less == {p \in Nat \X Nat : p[1] < p[2]}
<1>1. less = OpToRel(<, Nat)
  BY Zenon DEF OpToRel
<1>2. IsWellFoundedOn(less, Nat)
  BY <1>1, NatLessThanWellFounded, Zenon
<1> HIDE DEF less
<1>3. PICK x \in S : \A y \in S : ~ (<<y, x>> \in less)
  BY <1>2, WFMin
<1>4. \A y \in S : x =< y
  <2>1. ASSUME NEW y \in S, y < x PROVE FALSE
    <3>1. <<y, x>> \in less
      BY <2>1 DEF less
    <3> QED  BY <1>3, <3>1
  <2> QED  BY <2>1
<1> QED  BY <1>4

\* Induction, for properties that are sets.
LEMMA Induction ==
  ASSUME NEW S, 0 \in S, \A n \in Nat : n \in S => n + 1 \in S
  PROVE  Nat \subseteq S
<1>1. SUFFICES ASSUME Nat \ S # {} PROVE FALSE
  OBVIOUS
<1>2. PICK x \in Nat \ S : \A y \in Nat \ S : x =< y
  BY <1>1, LeastExists
<1>3. x # 0 /\ x - 1 \in Nat /\ x - 1 \in S
  BY <1>2
<1> QED  BY <1>2, <1>3

\* The same for the first numbers only.
LEMMA InductionUpTo ==
  ASSUME NEW m \in Nat, NEW S, 0 \in S, \A n \in 0..(m - 1) : n \in S => n + 1 \in S
  PROVE  0..m \subseteq S
<1> DEFINE T == {n \in Nat : n <= m => n \in S}
<1>1. Nat \subseteq T
  <2>1. 0 \in T
    OBVIOUS
  <2>2. \A n \in Nat : n \in T => n + 1 \in T
    OBVIOUS
  <2> HIDE DEF T
  <2> QED  BY <2>1, <2>2, Induction
<1> QED  BY <1>1

\* The largest of finitely many positions, which a fold takes first.
LEMMA MaxOf ==
  ASSUME NEW n \in Nat, NEW S \in SUBSET (1..n), S # {}
  PROVE  /\ Max(S) \in S /\ \A x \in S : x <= Max(S)
         /\ \A k \in Nat : k \in S /\ S \subseteq 1..k => Max(S) = k
<1> DEFINE T == {k \in Nat : n - k \in S}
<1>1. T # {}
  <2>1. PICK x \in S : TRUE
    OBVIOUS
  <2>2. n - x \in T
    BY <2>1
  <2> QED  BY <2>2
<1>2. PICK k \in T : \A j \in T : k =< j
  BY <1>1, LeastExists
<1>3. n - k \in S /\ \A x \in S : x <= n - k
  <2>1. ASSUME NEW x \in S PROVE x <= n - k
    <3>1. n - x \in T
      OBVIOUS
    <3> QED  BY <1>2, <3>1
  <2> QED  BY <1>2, <2>1
<1>4. Max(S) \in S /\ \A x \in S : x <= Max(S)
  <2>1. \E x \in S : \A y \in S : x >= y
    BY <1>3
  <2>2. Max(S) \in S /\ \A y \in S : Max(S) >= y
    BY <2>1, Zenon DEF Max
  <2> QED  BY <2>2
<1>5. ASSUME NEW j \in Nat, j \in S, S \subseteq 1..j PROVE Max(S) = j
  <2>1. Max(S) \in 1..n /\ Max(S) \in 1..j /\ j <= Max(S)
    BY <1>4, <1>5
  <2> QED  BY <2>1
<1> QED  BY <1>4, <1>5

\* The recursion of a fold over the positions 1..n, of values in B.
FoldOf(h, n, B, base, step) ==
  /\ h \in [SUBSET (1..n) -> B]
  /\ h = [s \in SUBSET (1..n) |->
            IF s = {} THEN base ELSE step[<<Max(s), h[s \ {Max(s)}]>>]]

\* It has a solution.
LEMMA FoldExists ==
  ASSUME NEW n \in Nat, NEW B, NEW base \in B, NEW step \in [(1..n) \X B -> B]
  PROVE  \E h : FoldOf(h, n, B, base, step)
<1> DEFINE Solves(h, k) ==
             /\ h \in [SUBSET (1..k) -> B]
             /\ \A s \in SUBSET (1..k) :
                  h[s] = IF s = {} THEN base ELSE step[<<Max(s), h[s \ {Max(s)}]>>]
           S == {k \in 0..n : \E h : Solves(h, k)}
<1>1. 0 \in S
  <2> DEFINE h == [s \in SUBSET (1..0) |-> base]
  <2>1. SUBSET (1..0) = {{}}
    OBVIOUS
  <2>2. Solves(h, 0)
    BY <2>1
  <2> HIDE DEF h, Solves
  <2> QED  BY <2>2
<1>2. ASSUME NEW k \in 0..(n - 1), k \in S PROVE k + 1 \in S
  <2>1. PICK g : Solves(g, k)
    BY <1>2
  <2> DEFINE h == [s \in SUBSET (1..(k + 1)) |->
                     IF s \in SUBSET (1..k) THEN g[s] ELSE step[<<k + 1, g[s \ {k + 1}]>>]]
  <2>2. ASSUME NEW s \in SUBSET (1..(k + 1)), s \notin SUBSET (1..k)
        PROVE  s # {} /\ Max(s) = k + 1 /\ s \ {k + 1} \in SUBSET (1..k)
    <3>1. k + 1 \in s /\ s # {}
      BY <2>2
    <3>2. Max(s) = k + 1
      <4>1. k + 1 \in Nat
        OBVIOUS
      <4> QED  BY <3>1, <4>1, MaxOf, Zenon
    <3> QED  BY <3>1, <3>2
  <2>3. ASSUME NEW s \in SUBSET (1..k), s # {}
        PROVE  s \ {Max(s)} \in SUBSET (1..k) /\ Max(s) \in 1..k
    <3>1. k \in Nat
      OBVIOUS
    <3>2. Max(s) \in s
      BY <2>3, <3>1, MaxOf, Zenon
    <3> QED  BY <3>2
  <2>4. h \in [SUBSET (1..(k + 1)) -> B]
    <3>1. ASSUME NEW s \in SUBSET (1..(k + 1)) PROVE h[s] \in B
      <4>1. CASE s \in SUBSET (1..k)
        BY <2>1, <4>1
      <4>2. CASE s \notin SUBSET (1..k)
        <5>1. g[s \ {k + 1}] \in B
          BY <2>1, <2>2, <4>2
        <5>2. <<k + 1, g[s \ {k + 1}]>> \in (1..n) \X B
          BY <5>1
        <5> QED  BY <4>2, <5>2
      <4> QED  BY <4>1, <4>2
    <3> QED  BY <3>1
  <2>5. \A s \in SUBSET (1..k) : h[s] = g[s]
    OBVIOUS
  <2>6. ASSUME NEW s \in SUBSET (1..(k + 1))
        PROVE  h[s] = IF s = {} THEN base ELSE step[<<Max(s), h[s \ {Max(s)}]>>]
    <3>1. CASE s \in SUBSET (1..k)
      <4> HIDE DEF h
      <4>1. h[s] = g[s] /\ (s # {} => h[s \ {Max(s)}] = g[s \ {Max(s)}])
        BY <2>3, <2>5, <3>1
      <4> QED  BY <2>1, <3>1, <4>1
    <3>2. CASE s \notin SUBSET (1..k)
      <4>1. h[s] = step[<<k + 1, g[s \ {k + 1}]>>]
        BY <3>2
      <4> HIDE DEF h
      <4>2. h[s \ {k + 1}] = g[s \ {k + 1}]
        BY <2>2, <2>5, <3>2
      <4> QED  BY <2>2, <3>2, <4>1, <4>2
    <3> QED  BY <3>1, <3>2
  <2> HIDE DEF h
  <2>7. Solves(h, k + 1)
    BY <2>4, <2>6
  <2> HIDE DEF Solves
  <2> QED  BY <2>7
<1> HIDE DEF S
<1>3. n \in S
  <2>1. 0..n \subseteq S
    BY <1>1, <1>2, InductionUpTo
  <2> QED  BY <2>1
<1>4. PICK h : Solves(h, n)
  BY <1>3 DEF S
<1>5. h = [s \in SUBSET (1..n) |->
             IF s = {} THEN base ELSE step[<<Max(s), h[s \ {Max(s)}]>>]]
  BY <1>4
<1> QED  BY <1>4, <1>5 DEF FoldOf

-------------------------------------------------------------------------------
\* Scans.

LEMMA MinIsMember ==
  ASSUME NEW S, S \subseteq Nat, S # {}
  PROVE  Min(S) \in S
BY LeastExists DEF Min

LEMMA MinIsLeast ==
  ASSUME NEW S, S \subseteq Nat, S # {}, NEW y \in S
  PROVE  Min(S) =< y
<1>1. \E x \in S : \A z \in S : x =< z
  BY LeastExists
<1> QED  BY <1>1, Zenon DEF Min

\* A scan returns a member of the set it scans for, or nothing.
LEMMA FirstInIsMember ==
  ASSUME NEW candidates, NEW free, FirstIn(candidates, free) # NoAddr
  PROVE  FirstIn(candidates, free) \in free
<1> DEFINE hits == {i \in 1..Len(candidates) : candidates[i] \in free}
<1>1. FirstIn(candidates, free)
        = IF hits = {} THEN NoAddr
          ELSE IF Min(hits) = 0 THEN NoAddr ELSE candidates[Min(hits)]
  BY DEF FirstIn, SelectInSeq
<1>2. hits # {}
  BY <1>1
<1>3. Min(hits) \in hits
  BY <1>2, MinIsMember
<1> QED  BY <1>1, <1>3

\* Both scans look only at unblocked addresses of the range around the address.
LEMMA ScanV4IsFree ==
  ASSUME NEW ip, NEW cf, NEW blocked, ScanEvasiveV4(ip, cf, blocked) # NoAddr
  PROVE  LET range == Containing(cf, ip)
             new   == ScanEvasiveV4(ip, cf, blocked)
         IN  range # NoRange /\ new \in range[1]..range[2] /\ new \notin blocked /\ IsHost(new)
<1> DEFINE range == Containing(cf, ip)
           max   == Min({range[2] - range[1] + 1, Window4})
           free  == {c \in range[1]..range[2] : IsHost(c)} \ blocked
           close == {c \in free : SameOctets(c, ip)}
           near  == FirstIn(Around(ip, OctetSize - 2), close)
           far   == FirstIn(Around(ip, max - 1), free)
<1>1. /\ range # NoRange
      /\ ScanEvasiveV4(ip, cf, blocked) = IF near # NoAddr THEN near ELSE far
  BY DEF ScanEvasiveV4
<1>2. near # NoAddr => near \in close
  BY FirstInIsMember
<1>3. far # NoAddr => far \in free
  BY FirstInIsMember
<1>4. close \subseteq free
  OBVIOUS
<1>5. ScanEvasiveV4(ip, cf, blocked) \in free
  <2> HIDE DEF near, far, free, close
  <2> QED  BY <1>1, <1>2, <1>3, <1>4
<1> QED  BY <1>1, <1>5

LEMMA ScanV6IsFree ==
  ASSUME NEW ip, NEW cf, NEW blocked, ScanEvasiveV6(ip, cf, blocked) # NoAddr
  PROVE  LET range == Containing(cf, ip)
             new   == ScanEvasiveV6(ip, cf, blocked)
         IN  range # NoRange /\ new \in range[1]..range[2] /\ new \notin blocked
BY FirstInIsMember DEF ScanEvasiveV6

LEMMA SegmentSize ==
  ASSUME NEW n \in Nat
  PROVE  IsFiniteSet(1..n) /\ Cardinality(1..n) = n
<1>1. 1 \in Int /\ n \in Int
  OBVIOUS
<1>2. /\ IsFiniteSet(1..n)
      /\ Cardinality(1..n) = IF 1 > n THEN 0 ELSE n - 1 + 1
  BY <1>1, FS_Interval, Zenon
<1> QED  BY <1>2

\* The binary search returns a range that really holds the value.  It counts
\* the starts at or below the value; when the ranges are sorted these are the
\* first ones, so the count is the position of the last of them.
LEMMA ContainingHolds ==
  ASSUME NEW ranges \in Seq(Nat \X Nat), Apart(ranges), NEW value \in Nat,
         Containing(ranges, value) # NoRange
  PROVE  \E i \in DOMAIN ranges :
           /\ Containing(ranges, value) = ranges[i]
           /\ ranges[i][1] <= value /\ value <= ranges[i][2]
<1> DEFINE below == {i \in DOMAIN ranges : ranges[i][1] <= value}
           k == Cardinality(below)
<1>1. k > 0 /\ value <= ranges[k][2] /\ Containing(ranges, value) = ranges[k]
  BY DEF Containing
<1>2. DOMAIN ranges = 1..Len(ranges) /\ Len(ranges) \in Nat
  OBVIOUS
<1>3. IsFiniteSet(below) /\ k \in Nat /\ k <= Len(ranges)
  <2>1. IsFiniteSet(1..Len(ranges)) /\ Cardinality(1..Len(ranges)) = Len(ranges)
    BY <1>2, SegmentSize
  <2>2. below \in SUBSET (1..Len(ranges))
    BY <1>2
  <2> QED  BY <2>1, <2>2, FS_Subset, FS_CardinalityType
<1> HIDE DEF below
<1>4. k \in DOMAIN ranges
  <2> HIDE DEF k
  <2> QED  BY <1>1, <1>2, <1>3
<1>5. \A i \in DOMAIN ranges : ranges[i][1] \in Nat /\ ranges[i][2] \in Nat
  OBVIOUS
<1>6. k \in below
  <2> SUFFICES ASSUME k \notin below PROVE FALSE
    OBVIOUS
  <2>1. ranges[k][1] > value
    BY <1>4, <1>5 DEF below
  <2>2. ASSUME NEW j \in below PROVE j \in 1..(k - 1)
    <3>1. j \in DOMAIN ranges /\ ranges[j][1] <= value
      BY DEF below
    <3>2. ~ (k < j)
      <4>1. k < j => ranges[k][2] + 1 < ranges[j][1]
        BY <1>4, <3>1 DEF Apart
      <4>2. ranges[k][1] <= ranges[k][2]
        BY <1>4 DEF Apart
      <4> HIDE DEF k
      <4> QED  BY <1>4, <1>5, <2>1, <3>1, <4>1, <4>2
    <3>3. j # k
      BY <2>2
    <3> HIDE DEF k
    <3> QED  BY <1>2, <1>3, <3>1, <3>2, <3>3
  <2>3. below \in SUBSET (1..(k - 1))
    BY <2>2
  <2>4. IsFiniteSet(1..(k - 1)) /\ Cardinality(1..(k - 1)) = k - 1
    <3>1. k - 1 \in Nat
      BY <1>1, <1>3
    <3> QED  BY <3>1, SegmentSize
  <2>5. Cardinality(below) <= k - 1
    BY <2>3, <2>4, FS_Subset
  <2> QED  BY <1>3, <2>5
<1>7. ranges[k][1] <= value
  BY <1>6 DEF below
<1> HIDE DEF k
<1> QED  BY <1>1, <1>4, <1>7

\* Data::new, for any prefixes and block lists: every replacement is a free
\* address of the merged range of the blocked one, and an IPv4 replacement is
\* a host address.  (That merge leaves its ranges apart is checked by TLC.)
THEOREM HopsSound ==
  ASSUME NEW lists,
         lists.cf4 \in Seq(Nat \X Nat), Apart(lists.cf4),
         lists.cf6 \in Seq(Nat \X Nat), Apart(lists.cf6),
         lists.blocked4 \subseteq Nat, lists.blocked6 \subseteq Nat
  PROVE  SoundHops(DataNew(lists))
<1> DEFINE d == DataNew(lists)
<1>1. /\ d.cf4 = lists.cf4 /\ d.cf6 = lists.cf6
      /\ d.blocked4 = lists.blocked4 /\ d.blocked6 = lists.blocked6
  BY DEF DataNew
<1>2. ASSUME NEW ranges \in Seq(Nat \X Nat), Apart(ranges), NEW ip \in Nat, NEW new,
             Containing(ranges, ip) # NoRange,
             new \in Containing(ranges, ip)[1]..Containing(ranges, ip)[2]
      PROVE  SameRange(ranges, ip, new)
  <2>1. PICK i \in DOMAIN ranges :
          /\ Containing(ranges, ip) = ranges[i]
          /\ ranges[i][1] <= ip /\ ip <= ranges[i][2]
    BY <1>2, ContainingHolds
  <2>2. ranges[i][1] \in Nat /\ ranges[i][2] \in Nat
    OBVIOUS
  <2>3. (ip..new) \cup (new..ip) \subseteq ranges[i][1]..ranges[i][2]
    BY <1>2, <2>1, <2>2
  <2> QED  BY <2>3 DEF SameRange, Covered
<1>3. ASSUME NEW ip \in DOMAIN d.evasion4
      PROVE  LET new == d.evasion4[ip]
             IN  /\ ip \in d.blocked4 /\ new \notin d.blocked4
                 /\ SameRange(d.cf4, ip, new)
                 /\ IsHost(new)
  <2>1. /\ ip \in lists.blocked4
        /\ ScanEvasiveV4(ip, lists.cf4, lists.blocked4) # NoAddr
        /\ d.evasion4[ip] = ScanEvasiveV4(ip, lists.cf4, lists.blocked4)
    BY DEF DataNew
  <2> QED  BY <1>1, <1>2, <2>1, ScanV4IsFree
<1>4. ASSUME NEW ip \in DOMAIN d.evasion6
      PROVE  LET new == d.evasion6[ip]
             IN  /\ ip \in d.blocked6 /\ new \notin d.blocked6
                 /\ SameRange(d.cf6, ip, new)
  <2>1. /\ ip \in lists.blocked6
        /\ ScanEvasiveV6(ip, lists.cf6, lists.blocked6) # NoAddr
        /\ d.evasion6[ip] = ScanEvasiveV6(ip, lists.cf6, lists.blocked6)
    BY DEF DataNew
  <2> QED  BY <1>1, <1>2, <2>1, ScanV6IsFree
<1> HIDE DEF d
<1>5. SoundHops(d)
  BY <1>3, <1>4 DEF SoundHops
<1> QED  BY <1>5 DEF d

-------------------------------------------------------------------------------
\* The search of containing finds the range of every covered address, and a
\* stretch of covered addresses lies in one range.

LEMMA ContainingFinds ==
  ASSUME NEW ranges \in Seq(Nat \X Nat), Apart(ranges), NEW value \in Nat,
         NEW i \in DOMAIN ranges, InRange(ranges[i], value)
  PROVE  Containing(ranges, value) = ranges[i]
<1> DEFINE below == {j \in DOMAIN ranges : ranges[j][1] <= value}
<1>1. DOMAIN ranges = 1..Len(ranges) /\ Len(ranges) \in Nat
  OBVIOUS
<1>2. \A j \in DOMAIN ranges : ranges[j][1] \in Nat /\ ranges[j][2] \in Nat
  OBVIOUS
<1>3. ranges[i][1] <= value /\ value <= ranges[i][2]
  BY DEF InRange
<1>4. ASSUME NEW j \in DOMAIN ranges PROVE ranges[j][1] <= value <=> j <= i
  <2>1. CASE j < i
    <3>1. ranges[j][2] + 1 < ranges[i][1] /\ ranges[j][1] <= ranges[j][2]
      BY <2>1 DEF Apart
    <3> QED  BY <1>1, <1>2, <1>3, <2>1, <3>1
  <2>2. CASE j = i
    BY <1>1, <1>3, <2>2
  <2>3. CASE i < j
    <3>1. ranges[i][2] + 1 < ranges[j][1]
      BY <2>3 DEF Apart
    <3> QED  BY <1>1, <1>2, <1>3, <2>3, <3>1
  <2> QED  BY <1>1, <2>1, <2>2, <2>3
<1>5. below = 1..i
  BY <1>1, <1>4
<1>6. Cardinality(below) = i
  <2>1. i \in Nat
    BY <1>1
  <2> HIDE DEF below
  <2> QED  BY <1>5, <2>1, SegmentSize
<1> QED  BY <1>1, <1>3, <1>6 DEF Containing

LEMMA OneRange ==
  ASSUME NEW ranges \in Seq(Nat \X Nat), Apart(ranges), NEW a \in Nat, NEW b \in Nat,
         NEW i \in DOMAIN ranges, InRange(ranges[i], a), SameRange(ranges, a, b)
  PROVE  InRange(ranges[i], b)
<1>1. DOMAIN ranges = 1..Len(ranges) /\ Len(ranges) \in Nat
  OBVIOUS
<1>2. \A j \in DOMAIN ranges : /\ ranges[j][1] \in Nat /\ ranges[j][2] \in Nat
                               /\ ranges[j][1] <= ranges[j][2]
  BY DEF Apart
<1>3. ranges[i][1] <= a /\ a <= ranges[i][2]
  BY DEF InRange
<1>4. ASSUME NEW c \in Nat, c \in (a..b) \cup (b..a),
             c = ranges[i][2] + 1 \/ c = ranges[i][1] - 1
      PROVE  FALSE
  <2>1. PICK j \in DOMAIN ranges : c \in ranges[j][1]..ranges[j][2]
    BY <1>4 DEF SameRange, Covered
  <2>2. ranges[j][1] <= c /\ c <= ranges[j][2]
    BY <1>2, <2>1
  <2>3. CASE i < j
    <3>1. ranges[i][2] + 1 < ranges[j][1]
      BY <2>3 DEF Apart
    <3> QED  BY <1>2, <1>4, <2>2, <3>1
  <2>4. CASE j < i
    <3>1. ranges[j][2] + 1 < ranges[i][1]
      BY <2>4 DEF Apart
    <3> QED  BY <1>2, <1>4, <2>2, <3>1
  <2>5. CASE j = i
    BY <1>2, <1>4, <2>2, <2>5
  <2> QED  BY <1>1, <2>3, <2>4, <2>5
<1>5. b <= ranges[i][2]
  <2> SUFFICES ASSUME ranges[i][2] < b PROVE FALSE
    BY <1>2
  <2>1. ranges[i][2] + 1 \in Nat /\ ranges[i][2] + 1 \in a..b
    BY <1>2, <1>3
  <2> QED  BY <1>4, <2>1
<1>6. ranges[i][1] <= b
  <2> SUFFICES ASSUME b < ranges[i][1] PROVE FALSE
    BY <1>2
  <2>1. ranges[i][1] - 1 \in Nat /\ ranges[i][1] - 1 \in b..a
    BY <1>2, <1>3
  <2> QED  BY <1>4, <2>1
<1> QED  BY <1>5, <1>6 DEF InRange

-------------------------------------------------------------------------------
\* The order of the scans: outwards, so the first hit is a closest one.

LEMMA AroundIs ==
  ASSUME NEW ip \in Int, NEW n \in Nat
  PROVE  /\ Around(ip, n) \in Seq(Int) /\ Len(Around(ip, n)) = 2 * n
         /\ \A k \in 1..(2 * n) :
              /\ Around(ip, n)[k] \in Int
              /\ Distance(Around(ip, n)[k], ip) = (k + 1) \div 2
              /\ (k + 1) \div 2 \in 1..n
<1>1. \A k \in 1..(2 * n) :
        Around(ip, n)[k] = IF k % 2 = 1 THEN ip + ((k + 1) \div 2) ELSE ip - (k \div 2)
  BY DEF Around
<1>2. ASSUME NEW k \in 1..(2 * n)
      PROVE  /\ Around(ip, n)[k] \in Int
             /\ Distance(Around(ip, n)[k], ip) = (k + 1) \div 2
             /\ (k + 1) \div 2 \in 1..n
  <2>1. /\ (k + 1) \div 2 \in 1..n /\ k \div 2 \in Nat
        /\ k % 2 # 1 => k \div 2 = (k + 1) \div 2
    OBVIOUS
  <2> QED  BY <1>1, <2>1 DEF Distance
<1>3. Around(ip, n) = [k \in 1..(2 * n) |-> Around(ip, n)[k]]
  BY DEF Around
<1>4. 2 * n \in Nat
  OBVIOUS
<1>5. Around(ip, n) \in Seq(Int) /\ Len(Around(ip, n)) = 2 * n
  <2> DEFINE m == 2 * n
             a == Around(ip, n)
  <2>1. a = [k \in 1..m |-> a[k]] /\ \A k \in 1..m : a[k] \in Int
    BY <1>2, <1>3
  <2> HIDE DEF m, a
  <2>2. a \in [1..m -> Int]
    BY <2>1
  <2>3. a \in Seq(Int) /\ Len(a) = m
    BY <1>4, <2>2 DEF m
  <2> QED  BY <2>3 DEF a, m
<1> QED  BY <1>2, <1>5

LEMMA AroundReaches ==
  ASSUME NEW ip \in Int, NEW n \in Nat, NEW c \in Int, c # ip, Distance(c, ip) <= n
  PROVE  \E k \in 1..(2 * n) : Around(ip, n)[k] = c
<1>1. CASE c > ip
  <2>1. Distance(c, ip) = c - ip
    BY <1>1 DEF Distance
  <2> DEFINE k == 2 * (c - ip) - 1
  <2>2. k \in 1..(2 * n)
    BY <1>1, <2>1
  <2>3. k % 2 = 1 /\ (k + 1) \div 2 = c - ip
    BY <1>1
  <2>4. Around(ip, n)[k] = ip + ((k + 1) \div 2)
    BY <2>2, <2>3 DEF Around
  <2> QED  BY <2>2, <2>3, <2>4
<1>2. CASE c < ip
  <2>1. Distance(c, ip) = ip - c
    BY <1>2 DEF Distance
  <2> DEFINE k == 2 * (ip - c)
  <2>2. k \in 1..(2 * n)
    BY <1>2, <2>1
  <2>3. k % 2 = 0 /\ k \div 2 = ip - c
    BY <1>2
  <2>4. Around(ip, n)[k] = ip - (k \div 2)
    BY <2>2, <2>3 DEF Around
  <2> QED  BY <2>2, <2>3, <2>4
<1> QED  BY <1>1, <1>2

\* A scan that finds nothing has no free address within its distance, and the
\* one that it finds is within the distance and no farther than any other.
LEMMA ScanAround ==
  ASSUME NEW ip \in Int, NEW n \in Nat, NEW free, free \subseteq Nat, ip \notin free
  PROVE  LET new == FirstIn(Around(ip, n), free)
         IN  /\ new # NoAddr => new \in free /\ Distance(new, ip) <= n
             /\ \A c \in free : Distance(c, ip) <= n =>
                  new # NoAddr /\ Distance(new, ip) <= Distance(c, ip)
<1> DEFINE around == Around(ip, n)
           new    == FirstIn(around, free)
           hits   == {k \in 1..Len(around) : around[k] \in free}
<1>1. /\ Len(around) = 2 * n
      /\ \A k \in 1..(2 * n) : /\ around[k] \in Int
                               /\ Distance(around[k], ip) = (k + 1) \div 2
                               /\ (k + 1) \div 2 \in 1..n
  BY AroundIs
<1>2. new = IF hits = {} THEN NoAddr
            ELSE IF Min(hits) = 0 THEN NoAddr ELSE around[Min(hits)]
  BY DEF FirstIn, SelectInSeq
<1>3. hits \subseteq 1..(2 * n) /\ hits \subseteq Nat
  BY <1>1
<1>4. \A k \in hits : around[k] \in free
  OBVIOUS
<1>5. \A c \in free : Distance(c, ip) <= n => \E k \in hits : around[k] = c
  <2> TAKE c \in free
  <2> SUFFICES ASSUME Distance(c, ip) <= n PROVE \E k \in hits : around[k] = c
    OBVIOUS
  <2>1. c \in Int /\ c # ip
    OBVIOUS
  <2>2. \E k \in 1..(2 * n) : around[k] = c
    BY <2>1, AroundReaches
  <2> QED  BY <1>1, <2>2
<1> HIDE DEF around, new, hits
<1>6. ASSUME hits # {}
      PROVE  /\ Min(hits) \in hits /\ new = around[Min(hits)]
             /\ new \in free /\ new # NoAddr /\ Distance(new, ip) <= n
  <2>1. Min(hits) \in hits
    BY <1>3, <1>6, MinIsMember
  <2>2. new = around[Min(hits)] /\ Min(hits) \in 1..(2 * n)
    <3>1. Min(hits) \in 1..(2 * n)
      BY <1>3, <2>1
    <3>2. Min(hits) # 0
      BY <3>1
    <3> QED  BY <1>2, <1>6, <3>1, <3>2
  <2>3. new \in free
    BY <1>4, <2>1, <2>2
  <2>4. Distance(new, ip) <= n
    BY <1>1, <2>2
  <2> QED  BY <2>1, <2>2, <2>3, <2>4 DEF NoAddr
<1>7. ASSUME NEW k \in hits PROVE Distance(new, ip) <= Distance(around[k], ip)
  <2>1. Min(hits) <= k
    BY <1>3, MinIsLeast
  <2>2. /\ Min(hits) \in 1..(2 * n) /\ k \in 1..(2 * n)
    BY <1>3, <1>6
  <2>3. (Min(hits) + 1) \div 2 <= (k + 1) \div 2
    <3> DEFINE m == Min(hits)
    <3> HIDE DEF m
    <3>1. m \in Nat /\ k \in Nat /\ m <= k
      BY <2>1, <2>2 DEF m
    <3>2. (m + 1) \div 2 <= (k + 1) \div 2
      BY <3>1
    <3> QED  BY <3>2 DEF m
  <2> QED  BY <1>1, <1>6, <2>2, <2>3
<1>8. new # NoAddr => new \in free /\ Distance(new, ip) <= n
  BY <1>2, <1>6
<1>9. ASSUME NEW c \in free, Distance(c, ip) <= n
      PROVE  new # NoAddr /\ Distance(new, ip) <= Distance(c, ip)
  BY <1>5, <1>6, <1>7, <1>9
<1> QED  BY <1>8, <1>9 DEF around, new

\* A host of the /24 is within reach of the first scan.
LEMMA OctetReach ==
  ASSUME NEW ip \in Nat, NEW c \in Nat, IsHost(c), SameOctets(c, ip)
  PROVE  Distance(c, ip) <= OctetSize - 2
<1>1. OctetSize \in Nat /\ OctetSize > 2
  BY EvasionMapAssumption
<1> DEFINE q == ip \div OctetSize
           r == ip % OctetSize
           t == c % OctetSize
<1>2. /\ q \in Int /\ r \in 0..(OctetSize - 1) /\ ip = OctetSize * q + r
      /\ c \div OctetSize \in Int /\ t \in 0..(OctetSize - 1)
      /\ c = OctetSize * (c \div OctetSize) + t
  BY <1>1
<1>3. c \div OctetSize = q
  BY DEF SameOctets
<1>4. t \in 1..(OctetSize - 2)
  BY DEF IsHost
<1> DEFINE base == OctetSize * q
<1>5. base \in Int /\ ip = base + r /\ c = base + t
  BY <1>1, <1>2, <1>3
<1> HIDE DEF q, r, t, base
<1> QED  BY <1>1, <1>2, <1>4, <1>5 DEF Distance

-------------------------------------------------------------------------------
\* The hops of one family, each compared with the addresses it may take.

LEMMA PairIsRange ==
  ASSUME NEW r \in Nat \X Nat
  PROVE  r # NoRange /\ r[1] \in Nat /\ r[2] \in Nat
<1>1. Len(r) = 2 /\ Len(NoRange) = 0
  BY DEF NoRange
<1> QED  BY <1>1

\* The addresses of lo..hi that the IPv4 scans consider.
FreeHosts(lo, hi, blocked) == {c \in lo..hi : IsHost(c)} \ blocked

NearHosts(lo, hi, blocked, ip) == {c \in FreeHosts(lo, hi, blocked) : SameOctets(c, ip)}

TwoScans(lo, hi, blocked, ip) ==
  LET first == FirstIn(Around(ip, OctetSize - 2), NearHosts(lo, hi, blocked, ip))
      reach == Min({hi - lo + 1, Window4}) - 1
  IN  IF first # NoAddr THEN first ELSE FirstIn(Around(ip, reach), FreeHosts(lo, hi, blocked))

\* The cap of the second scan loses no address of the range within the window.
LEMMA CappedReach ==
  ASSUME NEW lo \in Nat, NEW hi \in Nat, NEW ip \in lo..hi, NEW w \in Nat \ {0}
  PROVE  LET reach == Min({hi - lo + 1, w}) - 1
         IN  /\ reach \in Nat /\ reach < w
             /\ \A c \in lo..hi : Distance(c, ip) < w => Distance(c, ip) <= reach
<1> DEFINE size == hi - lo + 1
           m    == Min({size, w})
<1>1. size \in Nat /\ size > 0
  OBVIOUS
<1>2. \A c \in lo..hi : Distance(c, ip) \in Nat /\ Distance(c, ip) <= size - 1
  BY DEF Distance
<1> HIDE DEF size
<1>3. m \in {size, w}
  BY <1>1, MinIsMember
<1>4. m <= w
  BY <1>1, MinIsLeast
<1> HIDE DEF m
<1>5. /\ m - 1 \in Nat /\ m - 1 < w
      /\ \A c \in lo..hi : Distance(c, ip) < w => Distance(c, ip) <= m - 1
  BY <1>1, <1>2, <1>3, <1>4
<1> QED  BY <1>5 DEF m, size

\* The two IPv4 scans together, over one range.
LEMMA TwoScansFind ==
  ASSUME NEW lo \in Nat, NEW hi \in Nat, NEW ip \in lo..hi, NEW blocked, ip \in blocked
  PROVE  LET free == FreeHosts(lo, hi, blocked)
             near == NearHosts(lo, hi, blocked, ip)
             new  == TwoScans(lo, hi, blocked, ip)
         IN  /\ new # NoAddr => new \in free
             /\ new # NoAddr => SameOctets(new, ip) \/ Distance(new, ip) < Window4
             /\ \A c \in near : /\ new \in near
                                /\ Distance(new, ip) <= Distance(c, ip)
             /\ near = {} => \A c \in free : Distance(c, ip) < Window4 =>
                               new # NoAddr /\ Distance(new, ip) <= Distance(c, ip)
<1> DEFINE free  == FreeHosts(lo, hi, blocked)
           near  == NearHosts(lo, hi, blocked, ip)
           new   == TwoScans(lo, hi, blocked, ip)
           reach == Min({hi - lo + 1, Window4}) - 1
           first == FirstIn(Around(ip, OctetSize - 2), near)
           wide  == FirstIn(Around(ip, reach), free)
<1>1. ip \in Nat /\ OctetSize - 2 \in Nat /\ Window4 \in Nat \ {0}
  BY EvasionMapAssumption
<1>2. /\ free \subseteq Nat /\ free \subseteq lo..hi /\ ip \notin free
      /\ near \subseteq free
      /\ \A c \in near : IsHost(c) /\ SameOctets(c, ip)
  BY DEF FreeHosts, NearHosts
<1>3. /\ reach \in Nat /\ reach < Window4
      /\ \A c \in free : Distance(c, ip) < Window4 => Distance(c, ip) <= reach
  BY <1>1, <1>2, CappedReach
<1>4. /\ new = IF first # NoAddr THEN first ELSE wide
      /\ first = FirstIn(Around(ip, OctetSize - 2), near)
      /\ wide = FirstIn(Around(ip, reach), free)
  BY Zenon DEF TwoScans
<1> HIDE DEF free, near, new, reach, first, wide
<1>5. /\ first # NoAddr => first \in near
      /\ \A c \in near : first # NoAddr /\ Distance(first, ip) <= Distance(c, ip)
  <2>1. \A c \in near : Distance(c, ip) <= OctetSize - 2
    BY <1>1, <1>2, OctetReach
  <2>2. ip \in Int /\ OctetSize - 2 \in Nat /\ near \subseteq Nat /\ ip \notin near
    BY <1>1, <1>2
  <2>3. LET hop == FirstIn(Around(ip, OctetSize - 2), near)
        IN  /\ hop # NoAddr => hop \in near /\ Distance(hop, ip) <= OctetSize - 2
            /\ \A c \in near : Distance(c, ip) <= OctetSize - 2 =>
                 hop # NoAddr /\ Distance(hop, ip) <= Distance(c, ip)
    BY <2>2, ScanAround, Zenon
  <2> QED  BY <1>4, <2>1, <2>3, Zenon
<1>6. /\ wide # NoAddr => wide \in free /\ Distance(wide, ip) <= reach
      /\ \A c \in free : Distance(c, ip) <= reach =>
           wide # NoAddr /\ Distance(wide, ip) <= Distance(c, ip)
  <2>1. ip \in Int /\ reach \in Nat /\ free \subseteq Nat /\ ip \notin free
    BY <1>1, <1>2, <1>3
  <2>2. LET hop == FirstIn(Around(ip, reach), free)
        IN  /\ hop # NoAddr => hop \in free /\ Distance(hop, ip) <= reach
            /\ \A c \in free : Distance(c, ip) <= reach =>
                 hop # NoAddr /\ Distance(hop, ip) <= Distance(c, ip)
    BY <2>1, ScanAround, Zenon
  <2> QED  BY <1>4, <2>2, Zenon
<1>7. new # NoAddr => new \in free
  BY <1>2, <1>4, <1>5, <1>6
<1>8. new # NoAddr => SameOctets(new, ip) \/ Distance(new, ip) < Window4
  <2>1. CASE first # NoAddr
    BY <1>2, <1>4, <1>5, <2>1
  <2>2. CASE first = NoAddr
    <3> DEFINE d == Distance(wide, ip)
    <3>1. wide # NoAddr => wide \in Nat
      BY <1>2, <1>6
    <3>2. wide # NoAddr => d \in Int
      BY <1>1, <3>1 DEF Distance
    <3>3. wide # NoAddr => d <= reach
      BY <1>6
    <3> HIDE DEF d
    <3>4. wide # NoAddr => d < Window4
      BY <1>1, <1>3, <3>2, <3>3
    <3> QED  BY <1>4, <2>2, <3>4 DEF d
  <2> QED  BY <2>1, <2>2
<1>9. ASSUME NEW c \in near PROVE new \in near /\ Distance(new, ip) <= Distance(c, ip)
  BY <1>4, <1>5
<1>10. ASSUME near = {}, NEW c \in free, Distance(c, ip) < Window4
       PROVE  new # NoAddr /\ Distance(new, ip) <= Distance(c, ip)
  <2>1. first = NoAddr
    BY <1>5, <1>10
  <2> QED  BY <1>3, <1>4, <1>6, <1>10, <2>1
<1> QED  BY <1>7, <1>8, <1>9, <1>10, Zenon DEF free, near, new

LEMMA HopV4 ==
  ASSUME NEW ip \in Nat, NEW cf \in Seq(Nat \X Nat), Apart(cf), NEW blocked,
         NEW i \in DOMAIN cf, InRange(cf[i], ip)
  PROVE  /\ cf[i][1] \in Nat /\ cf[i][2] \in Nat /\ ip \in cf[i][1]..cf[i][2]
         /\ ScanEvasiveV4(ip, cf, blocked) = TwoScans(cf[i][1], cf[i][2], blocked, ip)
<1>1. Containing(cf, ip) = cf[i]
  BY ContainingFinds
<1>2. cf[i] # NoRange /\ cf[i][1] \in Nat /\ cf[i][2] \in Nat
  BY PairIsRange
<1>3. ip \in cf[i][1]..cf[i][2]
  BY <1>2 DEF InRange
<1>4. ScanEvasiveV4(ip, cf, blocked) = TwoScans(cf[i][1], cf[i][2], blocked, ip)
  BY <1>1, <1>2, Zenon DEF ScanEvasiveV4, TwoScans, NearHosts, FreeHosts
<1> QED  BY <1>2, <1>3, <1>4

LEMMA HopV6 ==
  ASSUME NEW ip \in Nat, NEW cf \in Seq(Nat \X Nat), Apart(cf), NEW blocked, ip \in blocked,
         NEW i \in DOMAIN cf, InRange(cf[i], ip)
  PROVE  LET new == ScanEvasiveV6(ip, cf, blocked)
         IN  \A c \in (cf[i][1]..cf[i][2]) \ blocked : Distance(c, ip) < Window6 =>
                new # NoAddr /\ Distance(new, ip) <= Distance(c, ip)
<1> DEFINE free == (cf[i][1]..cf[i][2]) \ blocked
           new  == ScanEvasiveV6(ip, cf, blocked)
           n    == Window6 - 1
<1>1. Containing(cf, ip) = cf[i]
  BY ContainingFinds
<1>2. cf[i] # NoRange /\ cf[i][1] \in Nat /\ cf[i][2] \in Nat
  BY PairIsRange
<1>3. new = FirstIn(Around(ip, n), free)
  BY <1>1, <1>2, Zenon DEF ScanEvasiveV6
<1>4. Window6 \in Nat /\ n \in Nat
  BY EvasionMapAssumption
<1>5. free \subseteq Nat /\ ip \notin free
  BY <1>2
<1> HIDE DEF free, new
<1>6. \A c \in free : Distance(c, ip) < Window6 => Distance(c, ip) <= n
  BY <1>4, <1>5 DEF Distance
<1> HIDE DEF n
<1>7. \A c \in free : Distance(c, ip) <= n =>
        new # NoAddr /\ Distance(new, ip) <= Distance(c, ip)
  <2>1. ip \in Int
    OBVIOUS
  <2>2. LET hop == FirstIn(Around(ip, n), free)
        IN  \A c \in free : Distance(c, ip) <= n =>
              hop # NoAddr /\ Distance(hop, ip) <= Distance(c, ip)
    BY <1>4, <1>5, <2>1, ScanAround, Zenon
  <2> QED  BY <1>3, <2>2, Zenon
<1> QED  BY <1>6, <1>7 DEF free, new

\* What lies in one range with an address that a range contains.
LEMMA SameRangeIs ==
  ASSUME NEW ranges \in Seq(Nat \X Nat), Apart(ranges), NEW a \in Nat, NEW b \in Nat,
         NEW i \in DOMAIN ranges, InRange(ranges[i], a)
  PROVE  SameRange(ranges, a, b) <=> InRange(ranges[i], b)
<1>1. ASSUME InRange(ranges[i], b) PROVE SameRange(ranges, a, b)
  <2>1. ranges[i][1] \in Nat /\ ranges[i][2] \in Nat
    BY PairIsRange
  <2>2. (a..b) \cup (b..a) \subseteq ranges[i][1]..ranges[i][2]
    BY <1>1, <2>1 DEF InRange
  <2> QED  BY <2>2 DEF SameRange, Covered
<1> QED  BY <1>1, OneRange

LEMMA CoveredIs ==
  ASSUME NEW ranges \in Seq(Nat \X Nat), NEW c
  PROVE  c \in Covered(ranges) <=> c \in Nat /\ \E i \in DOMAIN ranges : InRange(ranges[i], c)
<1>1. \A i \in DOMAIN ranges : ranges[i][1] \in Nat /\ ranges[i][2] \in Nat
  BY PairIsRange
<1> QED  BY <1>1 DEF Covered, InRange

\* The replacements an address may take are the free addresses of its range.
LEMMA Free4Is ==
  ASSUME NEW data, data.cf4 \in Seq(Nat \X Nat), Apart(data.cf4), NEW ip \in Nat,
         NEW i \in DOMAIN data.cf4, InRange(data.cf4[i], ip)
  PROVE  \A c : c \in Free4(data, ip) <=>
                  /\ c \in FreeHosts(data.cf4[i][1], data.cf4[i][2], data.blocked4)
                  /\ SameOctets(c, ip) \/ Distance(c, ip) < Window4
<1> DEFINE free == FreeHosts(data.cf4[i][1], data.cf4[i][2], data.blocked4)
<1>1. data.cf4[i][1] \in Nat /\ data.cf4[i][2] \in Nat
  BY PairIsRange
<1>2. \A c : c \in free <=> /\ c \in Nat /\ InRange(data.cf4[i], c)
                            /\ IsHost(c) /\ c \notin data.blocked4
  BY <1>1 DEF FreeHosts, InRange
<1>3. \A c \in Nat : SameRange(data.cf4, ip, c) <=> InRange(data.cf4[i], c)
  BY SameRangeIs
<1>4. ip \in Covered(data.cf4)
  BY CoveredIs
<1>5. \A c : c \in Covered(data.cf4) <=>
               c \in Nat /\ \E j \in DOMAIN data.cf4 : InRange(data.cf4[j], c)
  BY CoveredIs
<1>6. \A c : c \in Free4(data, ip) <=>
               /\ c \in free
               /\ SameOctets(c, ip) \/ Distance(c, ip) < Window4
  BY <1>2, <1>3, <1>4, <1>5 DEF Free4
<1> QED  BY <1>6, Zenon

LEMMA Free6Is ==
  ASSUME NEW data, data.cf6 \in Seq(Nat \X Nat), Apart(data.cf6), NEW ip \in Nat,
         NEW i \in DOMAIN data.cf6, InRange(data.cf6[i], ip), NEW c \in Free6(data, ip)
  PROVE  /\ c \in (data.cf6[i][1]..data.cf6[i][2]) \ data.blocked6
         /\ Distance(c, ip) < Window6
<1>1. data.cf6[i][1] \in Nat /\ data.cf6[i][2] \in Nat
  BY PairIsRange
<1>2. /\ c \in Covered(data.cf6) /\ c \notin data.blocked6
      /\ SameRange(data.cf6, ip, c) /\ Distance(c, ip) < Window6
  BY DEF Free6
<1>3. c \in Nat
  BY <1>2, CoveredIs
<1>4. InRange(data.cf6[i], c)
  BY <1>2, <1>3, OneRange
<1> QED  BY <1>1, <1>2, <1>3, <1>4 DEF InRange

\* The scan of a blocked address finds a closest one among those it may take:
\* in its /24 when that has one, or else within the window.
Pool4(data, ip) ==
  LET near == {c \in Free4(data, ip) : SameOctets(c, ip)}
  IN  IF near # {} THEN near ELSE Free4(data, ip)

LEMMA BestHop4 ==
  ASSUME NEW data, data.cf4 \in Seq(Nat \X Nat), Apart(data.cf4),
         NEW ip \in Nat, ip \in data.blocked4, NEW c \in Pool4(data, ip),
         NEW new, new = ScanEvasiveV4(ip, data.cf4, data.blocked4)
  PROVE  /\ new # NoAddr /\ new \in Pool4(data, ip)
         /\ Distance(new, ip) <= Distance(c, ip)
<1>1. c \in Free4(data, ip)
  BY DEF Pool4
<1>2. PICK i \in DOMAIN data.cf4 : InRange(data.cf4[i], ip)
  BY <1>1, CoveredIs DEF Free4
<1> DEFINE lo   == data.cf4[i][1]
           hi   == data.cf4[i][2]
           free == FreeHosts(lo, hi, data.blocked4)
           near == NearHosts(lo, hi, data.blocked4, ip)
<1>3. /\ lo \in Nat /\ hi \in Nat /\ ip \in lo..hi
      /\ new = TwoScans(lo, hi, data.blocked4, ip)
  BY <1>2, HopV4
<1>4. \A x : x \in Free4(data, ip) <=>
               x \in free /\ (SameOctets(x, ip) \/ Distance(x, ip) < Window4)
  BY <1>2, Free4Is
<1> HIDE DEF lo, hi
<1>5. \A x : x \in near <=> x \in free /\ SameOctets(x, ip)
  BY DEF NearHosts
<1>6. free \subseteq Nat
  BY <1>3 DEF FreeHosts
<1>7. /\ new # NoAddr => new \in free
      /\ new # NoAddr => SameOctets(new, ip) \/ Distance(new, ip) < Window4
      /\ \A x \in near : new \in near /\ Distance(new, ip) <= Distance(x, ip)
      /\ near = {} => \A x \in free : Distance(x, ip) < Window4 =>
                        new # NoAddr /\ Distance(new, ip) <= Distance(x, ip)
  BY <1>3, TwoScansFind
<1> HIDE DEF free, near
<1>8. Pool4(data, ip) = IF near # {} THEN near ELSE Free4(data, ip)
  <2>1. {x \in Free4(data, ip) : SameOctets(x, ip)} = near
    BY <1>4, <1>5
  <2> QED  BY <2>1 DEF Pool4
<1>9. CASE near # {}
  <2>1. c \in near
    BY <1>8, <1>9
  <2>2. new \in near /\ new \in Nat
    BY <1>5, <1>6, <1>7, <2>1
  <2> QED  BY <1>7, <1>8, <1>9, <2>1, <2>2 DEF NoAddr
<1>10. CASE near = {}
  <2>1. c \in free /\ Distance(c, ip) < Window4
    BY <1>1, <1>4, <1>5, <1>10
  <2>2. new # NoAddr /\ Distance(new, ip) <= Distance(c, ip)
    BY <1>7, <1>10, <2>1
  <2> QED  BY <1>4, <1>7, <1>8, <1>10, <2>2
<1> QED  BY <1>9, <1>10

LEMMA BestHop6 ==
  ASSUME NEW data, data.cf6 \in Seq(Nat \X Nat), Apart(data.cf6),
         NEW ip \in Nat, ip \in data.blocked6, NEW c \in Free6(data, ip),
         NEW new, new = ScanEvasiveV6(ip, data.cf6, data.blocked6)
  PROVE  new # NoAddr /\ Distance(new, ip) <= Distance(c, ip)
<1>1. PICK i \in DOMAIN data.cf6 : InRange(data.cf6[i], ip)
  BY CoveredIs DEF Free6
<1>2. /\ c \in (data.cf6[i][1]..data.cf6[i][2]) \ data.blocked6
      /\ Distance(c, ip) < Window6
  BY <1>1, Free6Is
<1> QED  BY <1>1, <1>2, HopV6

\* Data::new, for any prefixes and block lists: a blocked address that the map
\* leaves out has no free neighbour, so scan_evasive_v4 and scan_evasive_v6
\* never give up early.
THEOREM HopsComplete ==
  ASSUME NEW lists,
         lists.cf4 \in Seq(Nat \X Nat), Apart(lists.cf4),
         lists.cf6 \in Seq(Nat \X Nat), Apart(lists.cf6),
         lists.blocked4 \subseteq Nat, lists.blocked6 \subseteq Nat
  PROVE  CompleteHops(DataNew(lists))
<1> DEFINE d == DataNew(lists)
<1>1. /\ d.cf4 = lists.cf4 /\ d.cf6 = lists.cf6
      /\ d.blocked4 = lists.blocked4 /\ d.blocked6 = lists.blocked6
  BY DEF DataNew
<1>2. /\ \A ip \in lists.blocked4 \ DOMAIN d.evasion4 :
           ScanEvasiveV4(ip, lists.cf4, lists.blocked4) = NoAddr
      /\ \A ip \in lists.blocked6 \ DOMAIN d.evasion6 :
           ScanEvasiveV6(ip, lists.cf6, lists.blocked6) = NoAddr
  BY DEF DataNew
<1> HIDE DEF d
<1>3. ASSUME NEW ip \in d.blocked4 \ DOMAIN d.evasion4 PROVE Free4(d, ip) = {}
  <2> SUFFICES ASSUME Free4(d, ip) # {} PROVE FALSE
    OBVIOUS
  <2>1. PICK c : c \in Pool4(d, ip)
    BY DEF Pool4
  <2>2. ip \in Nat
    BY <1>1
  <2>3. ScanEvasiveV4(ip, d.cf4, d.blocked4) # NoAddr
    BY <1>1, <2>1, <2>2, BestHop4
  <2> QED  BY <1>1, <1>2, <2>3
<1>4. ASSUME NEW ip \in d.blocked6 \ DOMAIN d.evasion6 PROVE Free6(d, ip) = {}
  <2> SUFFICES ASSUME NEW c \in Free6(d, ip) PROVE FALSE
    OBVIOUS
  <2>1. ip \in Nat
    BY <1>1
  <2>2. ScanEvasiveV6(ip, d.cf6, d.blocked6) # NoAddr
    BY <1>1, <2>1, BestHop6
  <2> QED  BY <1>1, <1>2, <2>2
<1>5. CompleteHops(d)
  BY <1>3, <1>4 DEF CompleteHops
<1> QED  BY <1>5 DEF d

\* Data::new, for any prefixes and block lists: a replacement is a closest one
\* among the addresses it may take, in the /24 of the blocked address whenever
\* that has a free host.
THEOREM HopsNearest ==
  ASSUME NEW lists,
         lists.cf4 \in Seq(Nat \X Nat), Apart(lists.cf4),
         lists.cf6 \in Seq(Nat \X Nat), Apart(lists.cf6),
         lists.blocked4 \subseteq Nat, lists.blocked6 \subseteq Nat
  PROVE  NearestHops(DataNew(lists))
<1> DEFINE d == DataNew(lists)
<1>1. /\ d.cf4 = lists.cf4 /\ d.cf6 = lists.cf6
      /\ d.blocked4 = lists.blocked4 /\ d.blocked6 = lists.blocked6
  BY DEF DataNew
<1>2. /\ \A ip \in DOMAIN d.evasion4 :
           /\ ip \in lists.blocked4
           /\ d.evasion4[ip] = ScanEvasiveV4(ip, lists.cf4, lists.blocked4)
      /\ \A ip \in DOMAIN d.evasion6 :
           /\ ip \in lists.blocked6
           /\ d.evasion6[ip] = ScanEvasiveV6(ip, lists.cf6, lists.blocked6)
  BY DEF DataNew
<1> HIDE DEF d
<1>3. ASSUME NEW ip \in DOMAIN d.evasion4, NEW c \in Pool4(d, ip)
      PROVE  d.evasion4[ip] \in Pool4(d, ip) /\ Distance(d.evasion4[ip], ip) <= Distance(c, ip)
  <2>1. ip \in Nat /\ ip \in d.blocked4
    BY <1>1, <1>2
  <2>2. d.evasion4[ip] = ScanEvasiveV4(ip, d.cf4, d.blocked4)
    BY <1>1, <1>2
  <2> QED  BY <1>1, <2>1, <2>2, BestHop4
<1>4. ASSUME NEW ip \in DOMAIN d.evasion6, NEW c \in Free6(d, ip)
      PROVE  Distance(d.evasion6[ip], ip) <= Distance(c, ip)
  <2>1. ip \in Nat /\ ip \in d.blocked6
    BY <1>1, <1>2
  <2>2. d.evasion6[ip] = ScanEvasiveV6(ip, d.cf6, d.blocked6)
    BY <1>1, <1>2
  <2> QED  BY <1>1, <2>1, <2>2, BestHop6
<1>5. NearestHops(d)
  BY <1>3, <1>4, Zenon DEF NearestHops, Pool4
<1> QED  BY <1>5 DEF d

-------------------------------------------------------------------------------
\* merge, main.rs: each range it takes in, in the order of their starts, keeps
\* the ranges apart and adds exactly the addresses of that range.
THEOREM MergeStep ==
  ASSUME NEW out \in Seq(Nat \X Nat), Apart(out),
         NEW r \in Nat \X Nat, r[1] <= r[2],
         out # <<>> => Last(out)[1] <= r[1]
  PROVE  LET new == Absorb(out, r)
         IN  /\ new \in Seq(Nat \X Nat) /\ Apart(new)
             /\ new # <<>> /\ Last(new)[1] <= r[1]
             /\ Covered(new) = Covered(out) \cup (r[1]..r[2])
<1> DEFINE n   == Len(out)
           new == Absorb(out, r)
<1>1. /\ n \in Nat /\ DOMAIN out = 1..n
      /\ \A i \in 1..n : /\ out[i] \in Nat \X Nat
                         /\ out[i][1] \in Nat /\ out[i][2] \in Nat
                         /\ out[i][1] <= out[i][2]
      /\ \A i, j \in 1..n : i < j => out[i][2] + 1 < out[j][1]
  <2>1. n \in Nat /\ DOMAIN out = 1..n /\ \A i \in 1..n : out[i] \in Nat \X Nat
    OBVIOUS
  <2>2. /\ \A i \in 1..n : out[i][1] <= out[i][2]
        /\ \A i, j \in 1..n : i < j => out[i][2] + 1 < out[j][1]
    BY <2>1 DEF Apart
  <2> QED  BY <2>1, <2>2, PairIsRange
<1>2. r[1] \in Nat /\ r[2] \in Nat
  BY PairIsRange
<1>3. CASE out # <<>> /\ r[1] <= Last(out)[2] + 1
  <2> DEFINE top == IF r[2] > out[n][2] THEN r[2] ELSE out[n][2]
  <2>1. n \in 1..n /\ out[n][1] <= r[1] /\ r[1] <= out[n][2] + 1
    BY <1>1, <1>3 DEF Last
  <2>2. new = [out EXCEPT ![n] = <<out[n][1], top>>]
    BY <1>3 DEF Absorb, Last
  <2>3. top \in Nat /\ out[n][2] <= top /\ r[2] <= top /\ top \in {r[2], out[n][2]}
    BY <1>1, <1>2, <2>1
  <2> HIDE DEF top, new
  <2>4. /\ new \in Seq(Nat \X Nat) /\ Len(new) = n /\ DOMAIN new = 1..n
        /\ new[n] = <<out[n][1], top>>
        /\ \A i \in 1..n : i # n => new[i] = out[i]
    BY <1>1, <2>1, <2>2, <2>3
  <2>5. ASSUME NEW i \in 1..n
        PROVE  /\ new[i][1] = out[i][1]
               /\ new[i][2] = IF i = n THEN top ELSE out[i][2]
    <3>1. CASE i = n
      <4>1. <<out[n][1], top>>[1] = out[n][1] /\ <<out[n][1], top>>[2] = top
        OBVIOUS
      <4>2. new[n][1] = out[n][1] /\ new[n][2] = top
        BY <2>4, <4>1, Zenon
      <4> QED  BY <3>1, <4>2
    <3>2. CASE i # n
      BY <2>4, <3>2
    <3> QED  BY <3>1, <3>2
  <2> HIDE DEF n
  <2>6. Apart(new)
    <3>1. \A i \in 1..n : new[i][1] <= new[i][2]
      BY <1>1, <2>1, <2>3, <2>5
    <3>2. ASSUME NEW i \in 1..n, NEW j \in 1..n, i < j PROVE new[i][2] + 1 < new[j][1]
      <4>1. i # n
        BY <1>1, <3>2
      <4>2. new[i][2] = out[i][2] /\ new[j][1] = out[j][1]
        BY <2>5, <4>1
      <4>3. out[i][2] + 1 < out[j][1]
        BY <1>1, <3>2
      <4> QED  BY <4>2, <4>3
    <3> QED  BY <2>4, <3>1, <3>2 DEF Apart
  <2>7. \A c : c \in Covered(new) <=> c \in Covered(out) \cup (r[1]..r[2])
    <3>1. \A c : c \in Covered(new) <=> \E i \in 1..n : c \in new[i][1]..new[i][2]
      BY <2>4 DEF Covered
    <3>2. \A c : c \in Covered(out) <=> \E i \in 1..n : c \in out[i][1]..out[i][2]
      BY <1>1 DEF Covered
    <3>3. \A c : c \in new[n][1]..new[n][2] <=>
                   c \in out[n][1]..out[n][2] \/ c \in r[1]..r[2]
      BY <1>1, <1>2, <2>1, <2>3, <2>5
    <3>4. \A i \in 1..n : i # n => new[i][1]..new[i][2] = out[i][1]..out[i][2]
      BY <2>4
    <3> QED  BY <2>1, <3>1, <3>2, <3>3, <3>4
  <2>8. new # <<>> /\ Last(new)[1] <= r[1]
    BY <2>1, <2>4, <2>5 DEF Last
  <2> QED  BY <2>4, <2>6, <2>7, <2>8 DEF new
<1>4. CASE ~(out # <<>> /\ r[1] <= Last(out)[2] + 1)
  <2>1. new = Append(out, r)
    BY <1>4 DEF Absorb
  <2>2. n > 0 => out[n][2] + 1 < r[1]
    BY <1>1, <1>2, <1>4 DEF Last
  <2> HIDE DEF new
  <2>3. /\ new \in Seq(Nat \X Nat) /\ Len(new) = n + 1 /\ DOMAIN new = 1..(n + 1)
        /\ new[n + 1] = r
        /\ \A i \in 1..n : new[i] = out[i]
    BY <1>1, <2>1
  <2> HIDE DEF n
  <2>4. \A i \in 1..n : out[i][2] + 1 < r[1]
    BY <1>1, <1>2, <2>2
  <2>5. Apart(new)
    <3>1. \A i \in 1..(n + 1) : i \in 1..n \/ i = n + 1
      BY <1>1
    <3>2. \A i \in DOMAIN new : new[i][1] <= new[i][2]
      BY <1>1, <2>3, <3>1
    <3>3. ASSUME NEW i \in DOMAIN new, NEW j \in DOMAIN new, i < j
          PROVE  new[i][2] + 1 < new[j][1]
      <4>1. i \in 1..n /\ new[i] = out[i]
        BY <1>1, <2>3, <3>3
      <4>2. CASE j = n + 1
        BY <2>3, <2>4, <4>1, <4>2
      <4>3. CASE j \in 1..n
        <5>1. new[j] = out[j] /\ out[i][2] + 1 < out[j][1]
          BY <1>1, <2>3, <3>3, <4>1, <4>3
        <5> QED  BY <4>1, <5>1
      <4> QED  BY <2>3, <3>1, <4>2, <4>3
    <3> QED  BY <3>2, <3>3 DEF Apart
  <2>6. \A c : c \in Covered(new) <=> c \in Covered(out) \cup (r[1]..r[2])
    <3>1. \A c : c \in Covered(new) <=> \E i \in 1..(n + 1) : c \in new[i][1]..new[i][2]
      BY <2>3 DEF Covered
    <3>2. \A c : c \in Covered(out) <=> \E i \in 1..n : c \in out[i][1]..out[i][2]
      BY <1>1 DEF Covered
    <3>3. \A i : i \in 1..(n + 1) <=> i \in 1..n \/ i = n + 1
      BY <1>1
    <3> QED  BY <2>3, <3>1, <3>2, <3>3
  <2>7. new # <<>> /\ Last(new)[1] <= r[1]
    BY <1>1, <1>2, <2>3 DEF Last
  <2> QED  BY <2>3, <2>5, <2>6, <2>7 DEF new
<1> QED  BY <1>3, <1>4

\* sort_unstable in merge: every range comes once, in the order of the starts.
\* (The position of a range is the number of those before it.)
LEMMA SortedIs ==
  ASSUME NEW ranges, IsFiniteSet(ranges), ranges \subseteq Nat \X Nat
  PROVE  LET s == Sorted(ranges)
             n == Cardinality(ranges)
         IN  /\ n \in Nat /\ s \in [1..n -> ranges]
             /\ \A r \in ranges : \E i \in 1..n : s[i] = r
             /\ \A i, j \in 1..n : i < j => RangeBefore(s[i], s[j])
<1> DEFINE n == Cardinality(ranges)
           before(x) == {y \in ranges : RangeBefore(y, x)}
           rank == [x \in ranges |-> Cardinality(before(x)) + 1]
           InOrder(s) == \A i, j \in DOMAIN s : i < j => RangeBefore(s[i], s[j])
<1>1. n \in Nat /\ IsFiniteSet(1..n) /\ Cardinality(1..n) = n
  BY FS_CardinalityType, FS_Interval
<1>2. \A x \in ranges : x \in Nat \X Nat /\ x[1] \in Nat /\ x[2] \in Nat
  BY PairIsRange
<1>3. \A x, y \in ranges : x # y => RangeBefore(x, y) \/ RangeBefore(y, x)
  BY <1>2 DEF RangeBefore
<1>4. \A x, y, z \in ranges : RangeBefore(x, y) /\ RangeBefore(y, z) => RangeBefore(x, z)
  BY <1>2 DEF RangeBefore
<1>5. \A x \in ranges : ~ RangeBefore(x, x)
  BY <1>2 DEF RangeBefore
<1>6. ASSUME NEW x \in ranges PROVE IsFiniteSet(before(x)) /\ Cardinality(before(x)) \in Nat
  BY FS_Subset, FS_CardinalityType
<1>7. ASSUME NEW x \in ranges PROVE rank[x] \in 1..n
  <2>1. before(x) \in SUBSET ranges /\ before(x) # ranges
    BY <1>5
  <2>2. Cardinality(before(x)) <= n /\ Cardinality(before(x)) # n
    BY <2>1, FS_Subset
  <2>3. rank[x] = Cardinality(before(x)) + 1
    OBVIOUS
  <2>4. Cardinality(before(x)) \in Nat
    BY <1>6
  <2> HIDE DEF n, before, rank
  <2> QED  BY <1>1, <2>2, <2>3, <2>4
<1>8. ASSUME NEW x \in ranges, NEW y \in ranges, RangeBefore(x, y) PROVE rank[x] < rank[y]
  <2>1. before(x) \in SUBSET before(y) /\ before(x) # before(y)
    BY <1>4, <1>5, <1>8
  <2>2. Cardinality(before(x)) <= Cardinality(before(y)) /\ Cardinality(before(x)) # Cardinality(before(y))
    BY <1>6, <2>1, FS_Subset
  <2> QED  BY <1>6, <2>2
<1>9. \A i \in 1..n : \E x \in ranges : rank[x] = i
  <2>1. rank \in [ranges -> 1..n]
    BY <1>7
  <2>2. \A x, y \in ranges : rank[x] = rank[y] => x = y
    <3>1. \A x \in ranges : rank[x] \in Nat
      BY <1>7
    <3> HIDE DEF rank
    <3> QED  BY <1>3, <1>8, <3>1
  <2> HIDE DEF rank
  <2>3. rank \in Injection(ranges, 1..n)
    BY <2>1, <2>2 DEF Injection, IsInjective
  <2>4. rank \in Surjection(ranges, 1..n)
    BY <1>1, <2>3, FS_Injection
  <2> QED  BY <2>4 DEF Surjection
<1>10. \E s \in SetToSeqs(ranges) : InOrder(s)
  <2> DEFINE s == [i \in 1..n |-> CHOOSE x \in ranges : rank[x] = i]
  <2> HIDE DEF rank
  <2>1. \A i \in 1..n : s[i] \in ranges /\ rank[s[i]] = i
    BY <1>9
  <2>2. s \in [1..n -> ranges]
    BY <2>1
  <2> HIDE DEF s
  <2>3. \A i, j \in 1..n : i # j => s[i] # s[j]
    BY <2>1
  <2>4. s \in SetToSeqs(ranges)
    BY <2>2, <2>3 DEF SetToSeqs
  <2>5. ASSUME NEW i \in 1..n, NEW j \in 1..n, i < j PROVE RangeBefore(s[i], s[j])
    <3>1. s[i] # s[j] /\ ~ RangeBefore(s[j], s[i])
      BY <1>8, <2>1, <2>3, <2>5
    <3> QED  BY <1>3, <2>1, <3>1
  <2> QED  BY <2>2, <2>4, <2>5
<1> HIDE DEF InOrder
<1>11. Sorted(ranges) \in SetToSeqs(ranges) /\ InOrder(Sorted(ranges))
  <2>1. Sorted(ranges) = CHOOSE s \in SetToSeqs(ranges) : InOrder(s)
    BY Zenon DEF Sorted, InOrder
  <2> QED  BY <1>10, <2>1, Zenon
<1> DEFINE t == Sorted(ranges)
<1> HIDE DEF t
<1>12. t \in [1..n -> ranges] /\ \A i, j \in 1..n : t[i] = t[j] => i = j
  <2>1. t \in SetToSeqs(ranges)
    BY <1>11 DEF t
  <2> QED  BY <2>1 DEF SetToSeqs
<1>13. t \in Surjection(1..n, ranges)
  <2>1. t \in Injection(1..n, ranges)
    BY <1>12 DEF Injection, IsInjective
  <2> QED  BY <1>1, <2>1, FS_Injection
<1>14. \A r \in ranges : \E i \in 1..n : t[i] = r
  BY <1>13 DEF Surjection
<1>15. \A i, j \in 1..n : i < j => RangeBefore(t[i], t[j])
  BY <1>11, <1>12 DEF t, InOrder
<1> QED  BY <1>1, <1>12, <1>14, <1>15 DEF t

\* An initial segment, and the one that the recursion of a fold leaves.
LEMMA Segment ==
  ASSUME NEW n \in Nat, NEW k \in 1..n
  PROVE  /\ 1..k \in SUBSET (1..n) /\ 1..k # {}
         /\ Max(1..k) = k /\ (1..k) \ {k} = 1..(k - 1)
<1>1. k \in Nat /\ k \in 1..k
  OBVIOUS
<1>2. 1..k \in SUBSET (1..n) /\ 1..k # {}
  OBVIOUS
<1>3. (1..k) \ {k} = 1..(k - 1)
  OBVIOUS
<1>4. Max(1..k) = k
  BY <1>1, <1>2, MaxOf
<1> QED  BY <1>2, <1>3, <1>4

\* A fold over a sequence goes through the results g[0], g[1], ... of its
\* initial segments.
LEMMA MergeFold ==
  ASSUME NEW seq \in Seq(Nat \X Nat)
  PROVE  \E g : /\ g = [k \in 0..Len(seq) |-> g[k]]
                /\ g[0] = <<>>
                /\ \A k \in 1..Len(seq) : g[k] = Absorb(g[k - 1], seq[k])
                /\ FoldLeft(Absorb, <<>>, seq) = g[Len(seq)]
<1> DEFINE n == Len(seq)
           B == Seq(Nat \X Nat)
           Solves(h) == h = [s \in SUBSET (1..n) |->
                               IF s = {} THEN <<>> ELSE Absorb(h[s \ {Max(s)}], seq[Max(s)])]
           it == CHOOSE h : Solves(h)
           g  == [k \in 0..n |-> it[1..k]]
<1>1. n \in Nat /\ DOMAIN seq = 1..n
  OBVIOUS
<1>2. \A out \in B, r \in Nat \X Nat : Absorb(out, r) \in B
  <2>1. ASSUME NEW out \in B, NEW r \in Nat \X Nat, out # <<>>,
               NEW q \in Nat \X Nat
        PROVE  [out EXCEPT ![Len(out)] = q] \in B
    BY <2>1
  <2>2. ASSUME NEW out \in B, NEW r \in Nat \X Nat, out # <<>>
        PROVE  <<Last(out)[1], IF r[2] > Last(out)[2] THEN r[2] ELSE Last(out)[2]>> \in Nat \X Nat
    <3>1. Last(out) \in Nat \X Nat
      BY <2>2 DEF Last
    <3> QED  BY <3>1, PairIsRange
  <2>3. ASSUME NEW out \in B, NEW r \in Nat \X Nat, out # <<>>
        PROVE  [out EXCEPT ![Len(out)] = <<@[1], IF r[2] > @[2] THEN r[2] ELSE @[2]>>] \in B
    BY <2>1, <2>2, <2>3 DEF Last
  <2>4. \A out \in B, r \in Nat \X Nat : Append(out, r) \in B
    OBVIOUS
  <2> QED  BY <2>3, <2>4 DEF Absorb
<1>3. \E h : Solves(h)
  <2> DEFINE step == [q \in (1..n) \X B |-> Absorb(q[2], seq[q[1]])]
  <2>1. step \in [(1..n) \X B -> B]
    BY <1>1, <1>2
  <2>2. PICK h : FoldOf(h, n, B, <<>>, step)
    <3>1. <<>> \in B
      OBVIOUS
    <3> HIDE DEF step, B, n
    <3> QED  BY <1>1, <2>1, <3>1, FoldExists
  <2>3. ASSUME NEW s \in SUBSET (1..n), s # {}
        PROVE  step[<<Max(s), h[s \ {Max(s)}]>>] = Absorb(h[s \ {Max(s)}], seq[Max(s)])
    <3>1. Max(s) \in 1..n
      BY <1>1, <2>3, MaxOf
    <3>2. h[s \ {Max(s)}] \in B
      BY <2>2 DEF FoldOf
    <3> QED  BY <3>1, <3>2
  <2> HIDE DEF step
  <2>4. h = [s \in SUBSET (1..n) |->
               IF s = {} THEN <<>> ELSE Absorb(h[s \ {Max(s)}], seq[Max(s)])]
    BY <2>2, <2>3 DEF FoldOf
  <2> QED  BY <2>4
<1>4. Solves(it)
  BY <1>3
<1>5. FoldLeft(Absorb, <<>>, seq) = it[DOMAIN seq]
  BY <1>1, Zenon DEF FoldLeft, MapThenFoldSet
<1> HIDE DEF it
<1>6. it[{}] = <<>>
  BY <1>4
<1>7. ASSUME NEW k \in 1..n PROVE it[1..k] = Absorb(it[1..(k - 1)], seq[k])
  <2>1. /\ 1..k \in SUBSET (1..n) /\ 1..k # {}
        /\ Max(1..k) = k /\ (1..k) \ {k} = 1..(k - 1)
    BY <1>1, Segment
  <2> QED  BY <1>4, <2>1
<1>8. g[0] = <<>> /\ g[n] = it[1..n] /\ \A k \in 1..n : g[k] = it[1..k] /\ g[k - 1] = it[1..(k - 1)]
  <2>1. 1..0 = {}
    OBVIOUS
  <2> QED  BY <1>1, <1>6, <2>1
<1>9. g = [k \in 0..n |-> g[k]]
  OBVIOUS
<1> HIDE DEF g
<1> QED  BY <1>1, <1>5, <1>7, <1>8, <1>9, Zenon

\* merge, main.rs: whatever the ranges, those it leaves are apart and hold
\* exactly the addresses of the ranges it was given.
THEOREM MergeKeeps ==
  ASSUME NEW ranges, IsFiniteSet(ranges),
         \A r \in ranges : r \in Nat \X Nat /\ r[1] <= r[2]
  PROVE  /\ Merge(ranges) \in Seq(Nat \X Nat)
         /\ Apart(Merge(ranges))
         /\ Covered(Merge(ranges)) = UNION {r[1]..r[2] : r \in ranges}
<1> DEFINE n == Cardinality(ranges)
           s == Sorted(ranges)
           B == Seq(Nat \X Nat)
<1>1. /\ n \in Nat /\ s \in [1..n -> ranges]
      /\ \A r \in ranges : \E i \in 1..n : s[i] = r
      /\ \A i, j \in 1..n : i < j => RangeBefore(s[i], s[j])
  <2>1. ranges \subseteq Nat \X Nat
    OBVIOUS
  <2> QED  BY <2>1, SortedIs
<1>2. Merge(ranges) = FoldLeft(Absorb, <<>>, s)
  BY Zenon DEF Merge
<1> HIDE DEF n, s
<1>3. \A i \in 1..n : /\ s[i] \in Nat \X Nat /\ s[i][1] <= s[i][2]
                      /\ s[i][1] \in Nat /\ s[i][2] \in Nat
  BY <1>1, PairIsRange
<1>4. s \in B /\ Len(s) = n
  BY <1>1, <1>3
<1>5. PICK g : /\ g[0] = <<>>
               /\ \A k \in 1..n : g[k] = Absorb(g[k - 1], s[k])
               /\ FoldLeft(Absorb, <<>>, s) = g[n]
  BY <1>4, MergeFold
<1> DEFINE Holds(k) == /\ g[k] \in B /\ Apart(g[k])
                       /\ g[k] # <<>> => k \in 1..n /\ Last(g[k])[1] <= s[k][1]
                       /\ \A c : c \in Covered(g[k]) <=> \E i \in 1..k : c \in s[i][1]..s[i][2]
           S == {k \in 0..n : Holds(k)}
<1>6. 0 \in S
  <2>1. <<>> \in B /\ DOMAIN <<>> = {} /\ 1..0 = {}
    OBVIOUS
  <2>2. Apart(<<>>) /\ Covered(<<>>) = {}
    BY <2>1 DEF Apart, Covered
  <2>3. g[0] \in B /\ Apart(g[0]) /\ g[0] = <<>> /\ Covered(g[0]) = {}
    BY <1>5, <2>1, <2>2
  <2>4. \A c : ~ \E i \in 1..0 : c \in s[i][1]..s[i][2]
    BY <2>1
  <2>5. Holds(0)
    BY <2>3, <2>4
  <2>6. 0 \in 0..n
    BY <1>1
  <2> HIDE DEF Holds
  <2> QED  BY <2>5, <2>6
<1>7. ASSUME NEW k \in 0..(n - 1), k \in S PROVE k + 1 \in S
  <2>1. k + 1 \in 1..n /\ k + 1 \in 0..n /\ (k + 1) - 1 = k
    BY <1>1
  <2>2. g[k + 1] = Absorb(g[k], s[k + 1])
    BY <1>5, <2>1
  <2>3. g[k] # <<>> => Last(g[k])[1] <= s[k + 1][1]
    <3>1. ASSUME g[k] # <<>> PROVE Last(g[k])[1] <= s[k + 1][1]
      <4>1. k \in 1..n /\ Last(g[k])[1] <= s[k][1] /\ RangeBefore(s[k], s[k + 1])
        BY <1>1, <1>7, <2>1, <3>1
      <4>2. s[k][1] <= s[k + 1][1]
        BY <1>3, <2>1, <4>1 DEF RangeBefore
      <4>3. Last(g[k])[1] \in Nat
        <5>1. Last(g[k]) \in Nat \X Nat
          BY <1>7, <3>1 DEF Last
        <5> QED  BY <5>1, PairIsRange
      <4> QED  BY <1>3, <2>1, <4>1, <4>2, <4>3
    <3> QED  BY <3>1
  <2>4. /\ g[k + 1] \in B /\ Apart(g[k + 1])
        /\ g[k + 1] # <<>> /\ Last(g[k + 1])[1] <= s[k + 1][1]
        /\ Covered(g[k + 1]) = Covered(g[k]) \cup (s[k + 1][1]..s[k + 1][2])
    <3>1. g[k] \in B /\ Apart(g[k])
      BY <1>7
    <3> QED  BY <1>3, <2>1, <2>2, <2>3, <3>1, MergeStep
  <2>5. \A c : c \in Covered(g[k + 1]) <=> \E i \in 1..(k + 1) : c \in s[i][1]..s[i][2]
    <3>1. \A c : c \in Covered(g[k]) <=> \E i \in 1..k : c \in s[i][1]..s[i][2]
      BY <1>7
    <3>2. 1..(k + 1) = (1..k) \cup {k + 1}
      BY <2>1
    <3> HIDE DEF S, Holds
    <3> QED  BY <2>4, <3>1, <3>2, Zenon
  <2> QED  BY <2>1, <2>4, <2>5
<1>8. Holds(n)
  <2> HIDE DEF Holds
  <2>1. 0..n \subseteq S
    <3> HIDE DEF S
    <3> QED  BY <1>1, <1>6, <1>7, InductionUpTo
  <2> QED  BY <1>1, <2>1
<1>9. Covered(g[n]) = UNION {r[1]..r[2] : r \in ranges}
  <2>1. \A c : (\E i \in 1..n : c \in s[i][1]..s[i][2]) <=> \E r \in ranges : c \in r[1]..r[2]
    BY <1>1, Zenon
  <2>2. \A c : c \in UNION {r[1]..r[2] : r \in ranges} <=> \E r \in ranges : c \in r[1]..r[2]
    BY Zenon
  <2> QED  BY <1>8, <2>1, <2>2
<1> QED  BY <1>2, <1>5, <1>8, <1>9

-------------------------------------------------------------------------------
\* Sizes of prefixes.

\* SizeOf[n] is two to the power n.
LEMMA SizeOfIs ==
  /\ SizeOf \in [Nat -> Nat] /\ SizeOf[0] = 1
  /\ \A n \in Nat : SizeOf[n + 1] = 2 * SizeOf[n]
<1> DEFINE Upto(h, n) == /\ h \in [0..n -> Nat] /\ h[0] = 1
                         /\ \A k \in 0..(n - 1) : h[k + 1] = 2 * h[k]
           H(n) == CHOOSE h : Upto(h, n)
           S == {n \in Nat : \E h : Upto(h, n)}
           f == [n \in Nat |-> H(n)[n]]
<1>1. Nat \subseteq S
  <2>1. 0 \in S
    <3>1. Upto([k \in 0..0 |-> 1], 0)
      OBVIOUS
    <3> HIDE DEF Upto
    <3> QED  BY <3>1
  <2>2. ASSUME NEW n \in Nat, n \in S PROVE n + 1 \in S
    <3>1. PICK h : Upto(h, n)
      BY <2>2
    <3> DEFINE e == [k \in 0..(n + 1) |-> IF k = n + 1 THEN 2 * h[n] ELSE h[k]]
    <3>2. e \in [0..(n + 1) -> Nat]
      BY <3>1
    <3>3. e[0] = 1 /\ \A k \in 0..n : e[k + 1] = 2 * e[k]
      <4>1. e[n + 1] = 2 * h[n] /\ \A k \in 0..n : e[k] = h[k]
        OBVIOUS
      <4> HIDE DEF e
      <4> QED  BY <3>1, <4>1
    <3> HIDE DEF e
    <3>4. Upto(e, n + 1)
      BY <3>2, <3>3
    <3> HIDE DEF Upto
    <3> QED  BY <3>4
  <2> HIDE DEF S
  <2> QED  BY <2>1, <2>2, Induction
<1>2. \A n \in Nat : Upto(H(n), n)
  BY <1>1
<1>3. ASSUME NEW n \in Nat, NEW m \in Nat, n <= m PROVE H(n)[n] = H(m)[n]
  <2> DEFINE T == {k \in 0..n : H(n)[k] = H(m)[k]}
  <2>1. Upto(H(n), n) /\ Upto(H(m), m)
    BY <1>2
  <2> HIDE DEF H
  <2>2. 0 \in T
    BY <2>1
  <2>3. ASSUME NEW k \in 0..(n - 1), k \in T PROVE k + 1 \in T
    BY <1>3, <2>1, <2>3
  <2>4. 0..n \subseteq T
    <3> HIDE DEF T
    <3> QED  BY <2>2, <2>3, InductionUpTo
  <2> QED  BY <2>4
<1>4. f \in [Nat -> Nat] /\ f[0] = 1 /\ \A n \in Nat : f[n + 1] = 2 * f[n]
  <2>1. \A n \in Nat : f[n] = H(n)[n] /\ H(n)[n] \in Nat
    BY <1>2
  <2>2. f \in [Nat -> Nat]
    BY <2>1
  <2>3. f[0] = 1
    BY <1>2
  <2>4. ASSUME NEW n \in Nat PROVE f[n + 1] = 2 * f[n]
    <3>0. n + 1 \in Nat /\ n <= n + 1 /\ n \in 0..((n + 1) - 1)
      OBVIOUS
    <3>1. f[n + 1] = H(n + 1)[n + 1] /\ f[n] = H(n)[n]
      BY <3>0, Zenon
    <3>2. Upto(H(n + 1), n + 1) /\ H(n)[n] = H(n + 1)[n]
      BY <1>2, <1>3, <3>0, Zenon
    <3> HIDE DEF f, H
    <3> QED  BY <3>0, <3>1, <3>2
  <2> QED  BY <2>2, <2>3, <2>4
<1> HIDE DEF f
<1> DEFINE Solves(h) == h = [n \in Nat |-> IF n = 0 THEN 1 ELSE 2 * h[n - 1]]
<1>5. Solves(f)
  <2>1. \A n \in Nat : f[n] = IF n = 0 THEN 1 ELSE 2 * f[n - 1]
    <3>1. ASSUME NEW n \in Nat, n # 0 PROVE f[n] = 2 * f[n - 1]
      <4>1. n - 1 \in Nat /\ (n - 1) + 1 = n
        BY <3>1
      <4> QED  BY <1>4, <4>1
    <3> QED  BY <1>4, <3>1
  <2> QED  BY <1>4, <2>1
<1>6. SizeOf = CHOOSE h : Solves(h)
  BY Zenon DEF SizeOf
<1>7. Solves(SizeOf)
  BY <1>5, <1>6, Zenon
<1>8. SizeOf[0] = 1 /\ \A n \in Nat : SizeOf[n + 1] = 2 * SizeOf[n]
  BY <1>7
<1> DEFINE T == {n \in Nat : SizeOf[n] \in Nat}
<1>9. Nat \subseteq T
  <2>1. 0 \in T /\ \A n \in Nat : n \in T => n + 1 \in T
    BY <1>8
  <2> HIDE DEF T
  <2> QED  BY <2>1, Induction
<1>10. SizeOf \in [Nat -> Nat]
  <2>1. SizeOf = [n \in Nat |-> IF n = 0 THEN 1 ELSE 2 * SizeOf[n - 1]]
    BY <1>7
  <2>2. \A n \in Nat : SizeOf[n] \in Nat
    BY <1>9
  <2> QED  BY <2>1, <2>2
<1> QED  BY <1>8, <1>10

\* A shorter prefix holds a whole number of longer ones.
LEMMA SizeDivides ==
  ASSUME NEW n \in Nat, NEW m \in Nat
  PROVE  /\ SizeOf[n] \in Nat /\ SizeOf[n] > 0
         /\ \E q \in Nat : q > 0 /\ SizeOf[n + m] = q * SizeOf[n]
<1>1. \A k \in Nat : SizeOf[k] \in Nat
  BY SizeOfIs
<1> DEFINE P == {k \in Nat : SizeOf[k] > 0}
           S == {k \in Nat : \E q \in Nat : q > 0 /\ SizeOf[n + k] = q * SizeOf[n]}
<1>2. Nat \subseteq P
  <2>1. 0 \in P /\ \A k \in Nat : k \in P => k + 1 \in P
    BY <1>1, SizeOfIs
  <2> HIDE DEF P
  <2> QED  BY <2>1, Induction
<1>3. Nat \subseteq S
  <2>1. 0 \in S
    <3>1. 1 \in Nat /\ 1 > 0 /\ n + 0 = n /\ SizeOf[n] = 1 * SizeOf[n]
      BY <1>1
    <3> QED  BY <3>1
  <2>2. ASSUME NEW k \in Nat, k \in S PROVE k + 1 \in S
    <3>1. PICK q \in Nat : q > 0 /\ SizeOf[n + k] = q * SizeOf[n]
      BY <2>2
    <3>2. SizeOf[n + (k + 1)] = 2 * SizeOf[n + k]
      <4>1. n + (k + 1) = (n + k) + 1 /\ n + k \in Nat
        OBVIOUS
      <4> QED  BY <4>1, SizeOfIs
    <3>3. 2 * (q * SizeOf[n]) = (2 * q) * SizeOf[n]
      BY <1>1
    <3>4. 2 * q \in Nat /\ 2 * q > 0 /\ SizeOf[n + (k + 1)] = (2 * q) * SizeOf[n]
      BY <3>1, <3>2, <3>3
    <3> QED  BY <3>4
  <2> HIDE DEF S
  <2> QED  BY <2>1, <2>2, Induction
<1> QED  BY <1>1, <1>2, <1>3

\* Distinct multiples of s are at least s apart.
LEMMA Multiples ==
  ASSUME NEW s \in Nat, NEW j \in Nat, NEW k \in Nat, j < k
  PROVE  s * j + s <= s * k
<1>1. PICK e \in Nat : k = j + 1 + e
  <2>1. k - j - 1 \in Nat /\ k = j + 1 + (k - j - 1)
    OBVIOUS
  <2> QED  BY <2>1
<1>2. s * k = s * j + s + s * e
  BY <1>1
<1>3. s * j \in Nat /\ s * e \in Nat
  OBVIOUS
<1> DEFINE x == s * j
           y == s * e
           z == s * k
<1>4. x \in Nat /\ y \in Nat /\ z = x + s + y
  BY <1>2, <1>3
<1> HIDE DEF x, y, z
<1>5. x + s <= z
  BY <1>4
<1> QED  BY <1>5 DEF x, z

\* Masking off the host bits of ip leaves the addresses that share the others.
LEMMA BlockIs ==
  ASSUME NEW s \in Nat, s > 0, NEW ip \in Nat
  PROVE  LET start == ip - (ip % s)
         IN  /\ start \in Nat
             /\ \A a \in Nat : a \in start..(start + s - 1) <=> a \div s = ip \div s
             /\ \A q \in Nat : ip < q * s => start + s - 1 < q * s
<1> DEFINE k == ip \div s
           r == ip % s
<1>1. k \in Nat /\ r \in 0..(s - 1) /\ ip = s * k + r /\ ip - r = s * k
  OBVIOUS
<1>2. s * k \in Nat
  BY <1>1
<1>3. ASSUME NEW a \in Nat PROVE a \in (s * k)..(s * k + s - 1) <=> a \div s = k
  <2> DEFINE j == a \div s
             t == a % s
             x == s * k
             y == s * j
  <2>1. j \in Nat /\ t \in 0..(s - 1) /\ a = y + t
    OBVIOUS
  <2> HIDE DEF j, t, k
  <2>2. x \in Nat /\ y \in Nat
    BY <1>1, <2>1
  <2>3. j = k => y = x
    OBVIOUS
  <2>4. j < k => x >= y + s
    BY <1>1, <2>1, Multiples
  <2>5. j > k => y >= x + s
    BY <1>1, <2>1, Multiples
  <2> HIDE DEF x, y
  <2>6. a \in x..(x + s - 1) <=> j = k
    BY <1>1, <2>1, <2>2, <2>3, <2>4, <2>5
  <2> QED  BY <2>6 DEF j, x
<1>4. ASSUME NEW q \in Nat, ip < q * s PROVE s * k + s - 1 < q * s
  <2> DEFINE x == s * k
             z == q * s
  <2> HIDE DEF k, r
  <2>1. x \in Nat /\ z \in Nat /\ x <= ip /\ ip < z
    BY <1>1, <1>4
  <2>2. z = s * q
    OBVIOUS
  <2>3. /\ k > q => x >= z + s
        /\ k = q => x = z
        /\ k < q => z >= x + s
    BY <1>1, <2>2, Multiples
  <2> HIDE DEF x, z
  <2>4. x + s - 1 < z
    BY <1>1, <2>1, <2>2, <2>3
  <2> QED  BY <2>4 DEF x, z
<1> HIDE DEF k
<1>5. k = ip \div s
  BY DEF k
<1> QED  BY <1>1, <1>2, <1>3, <1>4, <1>5

IsLine(line) == line.ip \in 0..(SizeOf[Bits] - 1) /\ line.bits \in Nat

\* The addresses of a line.
InLine(a, line) ==
  LET size == SizeOf[Bits - line.bits] IN line.bits <= Bits /\ a \div size = line.ip \div size

\* parse_prefix4 and parse_prefix6: the range of a line holds exactly the
\* addresses that share its network bits; a line with too many has none.
LEMMA ParsePrefixIs ==
  ASSUME NEW line, IsLine(line)
  PROVE  LET range == ParsePrefix(line)
         IN  /\ line.bits > Bits => range = NoRange
             /\ line.bits <= Bits =>
                  /\ range \in Nat \X Nat /\ range # NoRange /\ range[1] <= range[2]
                  /\ \A a : a \in range[1]..range[2]
                       <=> a \in 0..(SizeOf[Bits] - 1) /\ InLine(a, line)
<1>1. Bits \in Nat /\ line.bits \in Nat /\ SizeOf[Bits] \in Nat
  BY EvasionMapAssumption, SizeOfIs DEF IsLine
<1>2. CASE line.bits > Bits
  BY <1>1, <1>2 DEF ParsePrefix
<1>3. CASE line.bits <= Bits
  <2> DEFINE s == SizeOf[Bits - line.bits]
             start == line.ip - (line.ip % s)
  <2>1. Bits - line.bits \in Nat /\ Bits = (Bits - line.bits) + line.bits
    BY <1>1, <1>3
  <2>2. PICK q \in Nat : SizeOf[Bits] = q * s
    <3>1. \E q \in Nat : q > 0 /\ SizeOf[(Bits - line.bits) + line.bits] = q * SizeOf[Bits - line.bits]
      BY <1>1, <2>1, SizeDivides, Zenon
    <3> QED  BY <2>1, <3>1
  <2>3. s \in Nat /\ s > 0
    BY <1>1, <2>1, SizeDivides
  <2>4. ParsePrefix(line) = <<start, start + s - 1>>
    BY <1>1, <1>3 DEF ParsePrefix
  <2>5. line.ip \in Nat /\ line.ip < q * s
    BY <1>1, <2>2 DEF IsLine
  <2>6. InLine(line.ip, line)
    BY <1>3 DEF InLine
  <2>7. \A a : InLine(a, line) <=> a \div s = line.ip \div s
    BY <1>3 DEF InLine
  <2> HIDE DEF s
  <2>8. /\ start \in Nat /\ start + s - 1 < q * s
        /\ \A a \in Nat : a \in start..(start + s - 1) <=> a \div s = line.ip \div s
    BY <2>3, <2>5, BlockIs
  <2> HIDE DEF start
  <2>9. \A a : a \in start..(start + s - 1) <=> a \in 0..(SizeOf[Bits] - 1) /\ InLine(a, line)
    <3>1. \A a : a \in start..(start + s - 1) => a \in 0..(SizeOf[Bits] - 1)
      BY <1>1, <2>2, <2>3, <2>8
    <3> QED  BY <2>7, <2>8, <3>1
  <2>10. start + s - 1 \in Nat /\ start <= start + s - 1
    BY <2>3, <2>8
  <2>11. <<start, start + s - 1>>[1] = start /\ <<start, start + s - 1>>[2] = start + s - 1
    OBVIOUS
  <2>12. <<start, start + s - 1>> \in Nat \X Nat
    BY <2>8, <2>10
  <2> QED  BY <1>1, <1>3, <2>4, <2>9, <2>10, <2>11, <2>12, PairIsRange
<1> QED  BY <1>1, <1>2, <1>3

\* Data::load with lists that can be read: the merged ranges are apart, and
\* hold exactly the addresses of the valid lines.
LEMMA LoadedRanges ==
  ASSUME NEW prefixes, IsFiniteSet(prefixes), \A line \in prefixes : IsLine(line)
  PROVE  LET ranges == Merge({ParsePrefix(line) : line \in prefixes} \ {NoRange})
         IN  /\ ranges \in Seq(Nat \X Nat) /\ Apart(ranges)
             /\ Covered(ranges)
                  = {a \in 0..(SizeOf[Bits] - 1) : \E line \in prefixes : InLine(a, line)}
<1> DEFINE all   == {ParsePrefix(line) : line \in prefixes}
           given == all \ {NoRange}
           parse == [line \in prefixes |-> ParsePrefix(line)]
<1>1. IsFiniteSet(given)
  <2>1. parse \in Surjection(prefixes, all)
    BY DEF Surjection
  <2>2. IsFiniteSet(all)
    <3> HIDE DEF parse, all
    <3> QED  BY <2>1, FS_Surjection
  <2>3. given \in SUBSET all
    OBVIOUS
  <2> HIDE DEF all, given
  <2> QED  BY <2>2, <2>3, FS_Subset
<1>2. \A line \in prefixes : line.bits \in Nat /\ Bits \in Nat
  BY EvasionMapAssumption DEF IsLine
<1>3. \A r \in given : r \in Nat \X Nat /\ r[1] <= r[2]
  BY <1>2, ParsePrefixIs
<1>4. \A c : c \in UNION {r[1]..r[2] : r \in given}
               <=> c \in 0..(SizeOf[Bits] - 1) /\ \E line \in prefixes : InLine(c, line)
  <2>1. ASSUME NEW c, NEW r \in given, c \in r[1]..r[2]
        PROVE  c \in 0..(SizeOf[Bits] - 1) /\ \E line \in prefixes : InLine(c, line)
    <3>1. PICK line \in prefixes : r = ParsePrefix(line) /\ r # NoRange
      OBVIOUS
    <3>2. c \in 0..(SizeOf[Bits] - 1) /\ InLine(c, line)
      BY <1>2, <2>1, <3>1, ParsePrefixIs
    <3> QED  BY <3>2
  <2>2. ASSUME NEW c \in 0..(SizeOf[Bits] - 1), NEW line \in prefixes, InLine(c, line)
        PROVE  \E r \in given : c \in r[1]..r[2]
    <3>1. line.bits <= Bits
      BY <2>2 DEF InLine
    <3>2. ParsePrefix(line) # NoRange /\ c \in ParsePrefix(line)[1]..ParsePrefix(line)[2]
      BY <2>2, <3>1, ParsePrefixIs
    <3>3. ParsePrefix(line) \in given
      BY <3>2
    <3> QED  BY <3>2, <3>3
  <2>3. \A c : c \in UNION {r[1]..r[2] : r \in given} <=> \E r \in given : c \in r[1]..r[2]
    BY Zenon
  <2> HIDE DEF given
  <2> QED  BY <2>1, <2>2, <2>3
<1> HIDE DEF all, given
<1>5. /\ Merge(given) \in Seq(Nat \X Nat) /\ Apart(Merge(given))
      /\ Covered(Merge(given)) = UNION {r[1]..r[2] : r \in given}
  BY <1>1, <1>3, MergeKeeps
<1> QED  BY <1>4, <1>5 DEF given, all

-------------------------------------------------------------------------------
\* The jobs.

JobResult ==
  /\ job.kind = "lists"     => result = LoadedData(job.prefixes, job.blocked)
  /\ job.kind = "rules"     => result = ParseTemporaryRedirects(job.lines, job.now)
  /\ job.kind = "arguments" => result = ParseArguments(job.args, job.hostOk)
  /\ job.kind = "packet"    =>
       result = ProcessedPacket(job.packet, RedirectOf(job.packet), job.data, job.rewriteTtl)

JobInv == job \in Jobs /\ done \in BOOLEAN /\ (done => JobResult)

\* What is proved of the functions holds of the result of every job.
LEMMA JobsDone == JobSpec => []JobInv
<1>1. JobInit => JobInv
  BY DEF JobInit, JobInv
<1>2. JobInv /\ [JobNext]_jobVars => JobInv'
  <2> SUFFICES ASSUME JobInv, [JobNext]_jobVars PROVE JobInv'
    OBVIOUS
  <2>1. CASE Load
    BY <2>1 DEF Load, Does, JobInv, JobResult
  <2>2. CASE ReadRules
    BY <2>2 DEF ReadRules, Does, JobInv, JobResult
  <2>3. CASE Configure
    BY <2>3 DEF Configure, Does, JobInv, JobResult
  <2>4. CASE Process
    BY <2>4, Zenon DEF Process, Does, JobInv, JobResult, RedirectOf
  <2>5. CASE UNCHANGED jobVars
    BY <2>5, Zenon DEF jobVars, JobInv, JobResult, RedirectOf
  <2> QED  BY <2>1, <2>2, <2>3, <2>4, <2>5 DEF JobNext
<1> QED  BY <1>1, <1>2, PTL DEF JobSpec

\* Data::load and Data::new together, for lists of any length: the merged ranges
\* hold the addresses of the lines, and the hops are sound and nearest.
LEMMA LoadedIs ==
  ASSUME NEW prefixes, IsFiniteSet(prefixes), \A line \in prefixes : IsLine(line),
         NEW blocked, blocked \subseteq 0..(SizeOf[Bits] - 1)
  PROVE  LET d == LoadedData(prefixes, blocked)
         IN  /\ d.cf4 \in Seq(Nat \X Nat) /\ Apart(d.cf4)
             /\ Covered(d.cf4)
                  = {a \in 0..(SizeOf[Bits] - 1) : \E line \in prefixes : InLine(a, line)}
             /\ SoundHops(d) /\ CompleteHops(d) /\ NearestHops(d)
<1> DEFINE ranges == Merge({ParsePrefix(line) : line \in prefixes} \ {NoRange})
           lists  == [cf4 |-> ranges, cf6 |-> ranges, blocked4 |-> blocked, blocked6 |-> blocked]
           d      == LoadedData(prefixes, blocked)
<1>1. /\ ranges \in Seq(Nat \X Nat) /\ Apart(ranges)
      /\ Covered(ranges) = {a \in 0..(SizeOf[Bits] - 1) : \E line \in prefixes : InLine(a, line)}
  BY LoadedRanges
<1>2. d = DataNew(lists)
  BY Zenon DEF LoadedData
<1> HIDE DEF ranges, d
<1>3. blocked \subseteq Nat
  BY EvasionMapAssumption, SizeOfIs
<1>4. /\ lists.cf4 \in Seq(Nat \X Nat) /\ Apart(lists.cf4)
      /\ lists.cf6 \in Seq(Nat \X Nat) /\ Apart(lists.cf6)
      /\ lists.blocked4 \subseteq Nat /\ lists.blocked6 \subseteq Nat
      /\ lists.cf4 = ranges
  BY <1>1, <1>3
<1> HIDE DEF lists
<1>5. SoundHops(d) /\ CompleteHops(d) /\ NearestHops(d)
  BY <1>2, <1>4, HopsSound, HopsComplete, HopsNearest
<1>6. d.cf4 = ranges
  BY <1>2, <1>4 DEF DataNew
<1> QED  BY <1>1, <1>5, <1>6 DEF d

\* The same, of a list job that is done.
LEMMA ListJobIs ==
  ASSUME JobInv, Did("lists")
  PROVE  /\ result.cf4 \in Seq(Nat \X Nat) /\ Apart(result.cf4)
         /\ Covered(result.cf4)
              = {a \in 0..(SizeOf[Bits] - 1) : \E line \in job.prefixes : InLine(a, line)}
         /\ SoundHops(result) /\ CompleteHops(result) /\ NearestHops(result)
<1>1. result = LoadedData(job.prefixes, job.blocked) /\ job \in Jobs /\ job.kind = "lists"
  BY DEF JobInv, JobResult, Did
<1>2. /\ IsFiniteSet(job.prefixes) /\ job.blocked \subseteq 0..(SizeOf[Bits] - 1)
      /\ \A line \in job.prefixes : IsLine(line)
  BY <1>1, JobsAssumption DEF IsLine
<1> QED  BY <1>1, <1>2, LoadedIs

\* Data::new, main.rs: for any two lists of any length, a replacement is a free
\* address of the merged range of the blocked one.
THEOREM HopsAlwaysSound == JobSpec => []EvasionSound
<1>1. JobInv => EvasionSound
  BY ListJobIs DEF EvasionSound
<1> QED  BY <1>1, JobsDone, PTL

\* Data::new, main.rs: for any two lists of any length, a blocked address has no
\* hop only if no address is free within reach, and its hop is a closest one.
THEOREM HopsAlwaysNearest == JobSpec => []EvasionNearest
<1>1. JobInv => EvasionNearest
  BY ListJobIs DEF EvasionNearest
<1> QED  BY <1>1, JobsDone, PTL

\* merge and containing, main.rs: for any list of lines, the merged ranges cover
\* exactly their addresses, keep a gap, and are all found by the search.
THEOREM PrefixesAlwaysMerged == JobSpec => []PrefixesMerged
<1>1. ASSUME JobInv, Did("lists") PROVE PrefixesMerged
  <2> DEFINE space == 0..(SizeOf[Bits] - 1)
             ranges == result.cf4
  <2>1. /\ ranges \in Seq(Nat \X Nat) /\ Apart(ranges)
        /\ Covered(ranges) = {a \in space : \E line \in job.prefixes : InLine(a, line)}
    BY <1>1, ListJobIs
  <2>2. ASSUME NEW a \in space
        PROVE  IF a \in Covered(ranges) THEN InRange(Containing(ranges, a), a)
                                        ELSE Containing(ranges, a) = NoRange
    <3>1. a \in Nat
      OBVIOUS
    <3>2. CASE a \in Covered(ranges)
      <4>1. PICK i \in DOMAIN ranges : InRange(ranges[i], a)
        BY <2>1, <3>2, CoveredIs
      <4>2. Containing(ranges, a) = ranges[i]
        BY <2>1, <3>1, <4>1, ContainingFinds
      <4> QED  BY <3>2, <4>1, <4>2
    <3>3. CASE a \notin Covered(ranges)
      <4>1. SUFFICES ASSUME Containing(ranges, a) # NoRange PROVE FALSE
        BY <3>3
      <4>2. PICK i \in DOMAIN ranges : ranges[i][1] <= a /\ a <= ranges[i][2]
        BY <2>1, <3>1, <4>1, ContainingHolds
      <4>3. a \in Covered(ranges)
        BY <2>1, <3>1, <4>2, CoveredIs DEF InRange
      <4> QED  BY <3>3, <4>3
    <3> QED  BY <3>2, <3>3
  <2> HIDE DEF space
  <2>3. PrefixesMerged <=> (Did("lists") =>
          /\ Covered(ranges) = {a \in space : \E line \in job.prefixes : InLine(a, line)}
          /\ Apart(ranges)
          /\ \A a \in space : IF a \in Covered(ranges) THEN InRange(Containing(ranges, a), a)
                                                     ELSE Containing(ranges, a) = NoRange)
    BY Zenon DEF PrefixesMerged, InLine, space
  <2> QED  BY <2>1, <2>2, <2>3
<1>2. JobInv => PrefixesMerged
  BY <1>1 DEF PrefixesMerged
<1> QED  BY <1>2, JobsDone, PTL

-------------------------------------------------------------------------------
\* Rules.

Entries       == [v4 : Int, v6 : Int, expires : Int]
TablesOver(names) == UNION {[some -> Entries] : some \in SUBSET names}

\* A table has an entry for some of the names.
LEMMA TablesAre ==
  ASSUME NEW names, NEW table
  PROVE  table \in TablesOver(names)
           <=> table \in [DOMAIN table -> Entries] /\ DOMAIN table \subseteq names
BY Zenon DEF TablesOver

Pinned(rules, some, domain, target) ==
  LET i == LastRule(rules, some, domain, target) IN IF i = 0 THEN NoAddr ELSE rules[i].address

IsOf(rule, domain, target) == rule.target = target /\ NormalizeDomain(rule.domain) = domain

\* The last rule for a domain and a family, when there is one.
LEMMA LastRuleIs ==
  ASSUME NEW rules, NEW k \in Nat, NEW some \in SUBSET (1..k), NEW domain, NEW target
  PROVE  LET mine == {i \in some : IsOf(rules[i], domain, target)}
             last == LastRule(rules, some, domain, target)
         IN  /\ mine = {} => last = 0
             /\ mine # {} => last \in mine /\ last # 0 /\ \A i \in mine : i <= last
<1> DEFINE mine == {i \in some : IsOf(rules[i], domain, target)}
<1>1. LastRule(rules, some, domain, target) = IF mine = {} THEN 0 ELSE Max(mine)
  BY Zenon DEF LastRule, IsOf
<1>2. mine \in SUBSET (1..k)
  OBVIOUS
<1> HIDE DEF mine
<1>3. ASSUME mine # {} PROVE Max(mine) \in mine /\ Max(mine) # 0 /\ \A i \in mine : i <= Max(mine)
  <2>1. Max(mine) \in mine /\ \A i \in mine : i <= Max(mine)
    BY <1>2, <1>3, MaxOf
  <2> QED  BY <1>2, <2>1
<1> QED  BY <1>1, <1>3 DEF mine

\* A further rule pins its own domain and family and leaves the others.
LEMMA PinnedWithOneMore ==
  ASSUME NEW rules, NEW n \in Nat \ {0}, NEW some \in SUBSET (1..(n - 1)), NEW domain, NEW target
  PROVE  Pinned(rules, some \cup {n}, domain, target)
           = IF IsOf(rules[n], domain, target) THEN rules[n].address
             ELSE Pinned(rules, some, domain, target)
<1> DEFINE more == some \cup {n}
           mine(set) == {i \in set : IsOf(rules[i], domain, target)}
           last(set) == LastRule(rules, set, domain, target)
<1>1. n \in Nat /\ n - 1 \in Nat /\ more \in SUBSET (1..n) /\ 0 # n
  OBVIOUS
<1>2. /\ mine(some) = {} => last(some) = 0
      /\ mine(some) # {} => last(some) \in mine(some)
  BY <1>1, LastRuleIs
<1>3. /\ mine(more) = {} => last(more) = 0
      /\ mine(more) # {} => /\ last(more) \in mine(more) /\ last(more) # 0
                            /\ \A i \in mine(more) : i <= last(more)
  BY <1>1, LastRuleIs
<1>4. CASE IsOf(rules[n], domain, target)
  <2>1. n \in mine(more)
    BY <1>4
  <2>2. last(more) \in more /\ n <= last(more)
    BY <1>3, <2>1
  <2>3. \A x \in more : n <= x => x = n
    OBVIOUS
  <2>4. last(more) = n
    <3> HIDE DEF last, more
    <3> QED  BY <2>2, <2>3
  <2> QED  BY <1>1, <1>4, <2>4 DEF Pinned
<1>5. CASE ~ IsOf(rules[n], domain, target)
  <2>1. mine(more) = mine(some)
    BY <1>5
  <2>2. last(more) = last(some)
    BY <2>1, Zenon DEF LastRule, IsOf
  <2> QED  BY <1>5, <2>2, Zenon DEF Pinned
<1> QED  BY <1>4, <1>5

\* A domain without rules has no pin.
LEMMA NotPinned ==
  ASSUME NEW rules, NEW k \in Nat, NEW some \in SUBSET (1..k), NEW domain, NEW target,
         \A i \in some : NormalizeDomain(rules[i].domain) # domain
  PROVE  Pinned(rules, some, domain, target) = NoAddr
<1>1. {i \in some : IsOf(rules[i], domain, target)} = {}
  BY DEF IsOf
<1> QED  BY <1>1, LastRuleIs DEF Pinned

\* IsTableOf, said with Pinned.
LEMMA TableIs ==
  ASSUME NEW table, NEW rules, NEW some
  PROVE  IsTableOf(table, rules, some) <=>
           /\ \A i \in some : NormalizeDomain(rules[i].domain) \in DOMAIN table
           /\ \A d \in DOMAIN table : /\ table[d].v4 = Pinned(rules, some, d, "v4")
                                      /\ table[d].v6 = Pinned(rules, some, d, "v6")
BY Zenon DEF IsTableOf, Pinned

\* Before rule n is added, the table is that of some of the rules before it.
ReadyFor(names, table, rules, n, some) ==
  /\ n \in Nat \ {0} /\ some \in SUBSET (1..(n - 1))
  /\ table \in TablesOver(names) /\ IsTableOf(table, rules, some)
  /\ IsRule(rules[n]) /\ NormalizeDomain(rules[n].domain) \in names

\* add_redirect: an accepted rule is the last of its domain and family, and
\* takes nothing from the others; a refused one pins nothing.
LEMMA AddedRule ==
  ASSUME NEW names, NEW table, NEW rules, NEW n, NEW some, ReadyFor(names, table, rules, n, some)
  PROVE  LET added  == AddRedirect(table, rules[n])
             domain == NormalizeDomain(rules[n].domain)
         IN  /\ added.ok \in BOOLEAN /\ (added.ok <=> Acceptable(rules[n]))
             /\ added.rules \in TablesOver(names)
             /\ IsTableOf(added.rules, rules, IF added.ok THEN some \cup {n} ELSE some)
             /\ added.ok => DOMAIN added.rules = DOMAIN table \cup {domain}
             /\ ~ added.ok => DOMAIN added.rules \subseteq DOMAIN table \cup {domain}
             /\ DOMAIN table \subseteq DOMAIN added.rules
             /\ \A d \in DOMAIN added.rules :
                  added.rules[d].expires = IF d \in DOMAIN table THEN table[d].expires ELSE NoExpiry
<1> DEFINE rule   == rules[n]
           domain == NormalizeDomain(rule.domain)
           added  == AddRedirect(table, rule)
           old    == EntryOf(table, domain)
           more   == some \cup {n}
<1>1. /\ n \in Nat \ {0} /\ n - 1 \in Nat /\ some \in SUBSET (1..(n - 1))
      /\ table \in TablesOver(names) /\ IsTableOf(table, rules, some)
      /\ IsRule(rules[n]) /\ domain \in names
  BY DEF ReadyFor
<1>2. /\ rule.target \in {"v4", "v6", "junk", "nothing"} /\ rule.address \in Int
      /\ domain \in names
  BY <1>1 DEF IsRule, Targets
<1>3. /\ table \in [DOMAIN table -> Entries] /\ DOMAIN table \subseteq names
      /\ \A d \in DOMAIN table : table[d] \in Entries
  BY <1>1, TablesAre
<1>4. /\ \A i \in some : NormalizeDomain(rules[i].domain) \in DOMAIN table
      /\ \A d \in DOMAIN table : /\ table[d].v4 = Pinned(rules, some, d, "v4")
                                 /\ table[d].v6 = Pinned(rules, some, d, "v6")
  BY <1>1, TableIs
<1>5. \A d, t : Pinned(rules, more, d, t)
                  = IF rule.target = t /\ domain = d THEN rule.address ELSE Pinned(rules, some, d, t)
  BY <1>1, PinnedWithOneMore DEF IsOf
<1>6. \A d, t : d \notin DOMAIN table => Pinned(rules, some, d, t) = NoAddr
  BY <1>4, <1>1, NotPinned
<1>7. /\ old \in Entries
      /\ old.v4 = Pinned(rules, some, domain, "v4") /\ old.v6 = Pinned(rules, some, domain, "v6")
      /\ old.expires = IF domain \in DOMAIN table THEN table[domain].expires ELSE NoExpiry
  <2>1. NoRedirect \in Entries /\ NoRedirect.v4 = NoAddr /\ NoRedirect.v6 = NoAddr /\ NoRedirect.expires = NoExpiry
    BY DEF NoRedirect, Entries, NoAddr, NoExpiry
  <2>2. CASE domain \in DOMAIN table
    BY <1>3, <1>4, <2>2 DEF EntryOf
  <2>3. CASE domain \notin DOMAIN table
    BY <1>6, <2>1, <2>3 DEF EntryOf
  <2> QED  BY <2>2, <2>3
<1>8. CASE rule.target = "nothing" \/ domain = <<>>
  <2>1. added = [ok |-> FALSE, rules |-> table] /\ ~ Acceptable(rule)
    BY <1>8 DEF AddRedirect, Acceptable
  <2> QED  BY <1>1, <2>1
<1>9. CASE ~(rule.target = "nothing" \/ domain = <<>>)
  <2> DEFINE new == CASE rule.target = "v4"   -> [old EXCEPT !.v4 = rule.address]
                      [] rule.target = "v6"   -> [old EXCEPT !.v6 = rule.address]
                      [] rule.target = "junk" -> old
             next == [d \in DOMAIN table \cup {domain} |-> IF d = domain THEN new ELSE table[d]]
             ok   == rule.target # "junk"
  <2>1. added = [ok |-> ok, rules |-> next]
    BY <1>9, Zenon DEF AddRedirect
  <2>2. ok <=> Acceptable(rule)
    BY <1>2, <1>9 DEF Acceptable
  <2> DEFINE set == IF ok THEN more ELSE some
  <2>3. new \in Entries /\ new.expires = old.expires
        /\ new.v4 = Pinned(rules, set, domain, "v4") /\ new.v6 = Pinned(rules, set, domain, "v6")
    <3> HIDE DEF old
    <3>1. CASE rule.target = "v4"
      BY <1>2, <1>5, <1>7, <3>1 DEF Entries
    <3>2. CASE rule.target = "v6"
      BY <1>2, <1>5, <1>7, <3>2 DEF Entries
    <3>3. CASE rule.target = "junk"
      BY <1>2, <1>7, <3>3 DEF Entries
    <3> QED  BY <1>2, <1>9, <3>1, <3>2, <3>3
  <2> HIDE DEF new
  <2>4. DOMAIN next = DOMAIN table \cup {domain} /\ next[domain] = new
        /\ \A d \in DOMAIN table : d # domain => next[d] = table[d]
    OBVIOUS
  <2>5. next \in [DOMAIN next -> Entries] /\ DOMAIN next \subseteq names
    BY <1>1, <1>2, <1>3, <2>3
  <2> HIDE DEF next
  <2>6. next \in TablesOver(names)
    BY <2>5, TablesAre
  <2>7. IsTableOf(next, rules, set)
    <3>1. \A i \in set : NormalizeDomain(rules[i].domain) \in DOMAIN next
      BY <1>4, <2>4
    <3>2. \A d \in DOMAIN next : d # domain =>
            next[d].v4 = Pinned(rules, set, d, "v4") /\ next[d].v6 = Pinned(rules, set, d, "v6")
      BY <1>4, <1>5, <2>4
    <3>3. \A d \in DOMAIN next :
            next[d].v4 = Pinned(rules, set, d, "v4") /\ next[d].v6 = Pinned(rules, set, d, "v6")
      BY <2>3, <2>4, <3>2
    <3> HIDE DEF set
    <3> QED  BY <3>1, <3>3, TableIs
  <2>8. \A d \in DOMAIN next :
          next[d].expires = IF d \in DOMAIN table THEN table[d].expires ELSE NoExpiry
    BY <1>7, <2>3, <2>4
  <2>9. added.ok = ok /\ added.rules = next
    BY <2>1
  <2> HIDE DEF added, next, domain
  <2>10. /\ added.ok \in BOOLEAN /\ (added.ok <=> Acceptable(rule))
         /\ added.rules \in TablesOver(names)
         /\ IsTableOf(added.rules, rules, IF added.ok THEN more ELSE some)
         /\ DOMAIN added.rules = DOMAIN table \cup {domain}
         /\ \A d \in DOMAIN added.rules :
              added.rules[d].expires = IF d \in DOMAIN table THEN table[d].expires ELSE NoExpiry
    BY <2>2, <2>4, <2>6, <2>7, <2>8, <2>9
  <2>11. /\ added.ok => DOMAIN added.rules = DOMAIN table \cup {domain}
         /\ ~ added.ok => DOMAIN added.rules \subseteq DOMAIN table \cup {domain}
         /\ DOMAIN table \subseteq DOMAIN added.rules
    BY <2>10
  <2> QED  BY <2>10, <2>11, Zenon DEF added, domain
<1> QED  BY <1>8, <1>9

\* A line of the redirects file.
LineOk(line, now) == line.fields = 2 /\ line.expiry # BadExpiry /\ line.expiry > now

LineReadyFor(names, table, rules, n, some, line, now) ==
  /\ ReadyFor(names, table, rules, n, some)
  /\ line.rule = rules[n] /\ line.expiry \in Int /\ now \in Nat

\* The table after rule n, of a line that is valid or not.
TableAfter(new, valid, names, table, rules, n, some, line) ==
  /\ new \in TablesOver(names)
  /\ IsTableOf(new, rules, IF valid THEN some \cup {n} ELSE some)
  /\ \A d \in DOMAIN new :
       new[d].expires = IF valid /\ d = NormalizeDomain(rules[n].domain) THEN line.expiry
                        ELSE IF d \in DOMAIN table THEN table[d].expires ELSE NoExpiry

\* A line of the redirects file adds its rule if it is valid, else nothing.
LEMMA ReadLineIs ==
  ASSUME NEW names, NEW table, NEW rules, NEW n, NEW some, NEW line, NEW now,
         LineReadyFor(names, table, rules, n, some, line, now)
  PROVE  TableAfter(ReadLine(table, line, now), LineOk(line, now) /\ Acceptable(rules[n]),
                    names, table, rules, n, some, line)
<1> DEFINE rule   == rules[n]
           domain == NormalizeDomain(rule.domain)
           added  == AddRedirect(table, rule)
           new    == ReadLine(table, line, now)
           valid  == LineOk(line, now) /\ Acceptable(rule)
           set    == IF valid THEN some \cup {n} ELSE some
           Expires(t, d) == IF d \in DOMAIN t THEN t[d].expires ELSE NoExpiry
<1>1. /\ ReadyFor(names, table, rules, n, some)
      /\ line.rule = rules[n] /\ line.expiry \in Int /\ now \in Nat
  BY DEF LineReadyFor
<1>2. /\ added.ok \in BOOLEAN /\ (added.ok <=> Acceptable(rule))
      /\ added.rules \in TablesOver(names)
      /\ IsTableOf(added.rules, rules, IF added.ok THEN some \cup {n} ELSE some)
      /\ added.ok => DOMAIN added.rules = DOMAIN table \cup {domain}
      /\ \A d \in DOMAIN added.rules : added.rules[d].expires = Expires(table, d)
  BY <1>1, AddedRule
<1>3. table \in TablesOver(names) /\ IsTableOf(table, rules, some)
  BY <1>1 DEF ReadyFor
<1>4. new = IF ~ LineOk(line, now) THEN table
            ELSE IF added.ok THEN SetExpiry(added.rules, rule, line.expiry) ELSE added.rules
  <2>1. (line.fields # 2 \/ line.expiry = BadExpiry \/ line.expiry <= now) <=> ~ LineOk(line, now)
    BY <1>1 DEF LineOk, BadExpiry
  <2>2. new = IF line.fields # 2 \/ line.expiry = BadExpiry \/ line.expiry <= now THEN table
              ELSE IF added.ok THEN SetExpiry(added.rules, rule, line.expiry) ELSE added.rules
    BY <1>1, Zenon DEF ReadLine
  <2> HIDE DEF new, added
  <2> QED  BY <2>1, <2>2, Zenon
<1> HIDE DEF added, new
<1>5. CASE ~ LineOk(line, now)
  <2>1. new = table /\ set = some /\ ~ valid
    BY <1>4, <1>5
  <2> HIDE DEF set
  <2>2. /\ new \in TablesOver(names) /\ IsTableOf(new, rules, set)
        /\ \A d \in DOMAIN new : new[d].expires = IF valid /\ d = domain THEN line.expiry ELSE Expires(table, d)
    BY <1>3, <2>1
  <2> QED  BY <2>2 DEF set, new, TableAfter
<1>6. CASE LineOk(line, now) /\ ~ added.ok
  <2>1. new = added.rules /\ set = some /\ ~ valid
    BY <1>2, <1>4, <1>6
  <2> HIDE DEF set
  <2>2. /\ new \in TablesOver(names) /\ IsTableOf(new, rules, set)
        /\ \A d \in DOMAIN new : new[d].expires = IF valid /\ d = domain THEN line.expiry ELSE Expires(table, d)
    BY <1>2, <1>6, <2>1
  <2> QED  BY <2>2 DEF set, new, TableAfter
<1>7. CASE LineOk(line, now) /\ added.ok
  <2> DEFINE t == added.rules
  <2>1. new = [t EXCEPT ![domain].expires = line.expiry] /\ valid
    BY <1>2, <1>4, <1>7 DEF SetExpiry
  <2>2. set = some \cup {n}
    BY <2>1
  <2>3. /\ t \in [DOMAIN t -> Entries] /\ DOMAIN t \subseteq names /\ domain \in DOMAIN t
        /\ IsTableOf(t, rules, set) /\ \A d \in DOMAIN t : t[d].expires = Expires(table, d)
    BY <1>2, <1>7, <2>2, TablesAre
  <2> HIDE DEF t, set, domain
  <2>4. /\ new \in [DOMAIN t -> Entries] /\ DOMAIN new = DOMAIN t
        /\ \A d \in DOMAIN t : /\ new[d].v4 = t[d].v4 /\ new[d].v6 = t[d].v6
                               /\ new[d].expires = IF d = domain THEN line.expiry ELSE t[d].expires
    BY <1>1, <2>1, <2>3 DEF Entries
  <2>5. new \in TablesOver(names)
    BY <2>3, <2>4, TablesAre
  <2>6. IsTableOf(new, rules, set)
    BY <2>3, <2>4, TableIs
  <2>7. \A d \in DOMAIN new : new[d].expires = IF valid /\ d = domain THEN line.expiry ELSE Expires(table, d)
    BY <2>1, <2>3, <2>4
  <2> QED  BY <2>5, <2>6, <2>7 DEF set, new, domain, TableAfter
<1>8. added.ok \in BOOLEAN
  BY <1>2
<1> QED  BY <1>5, <1>6, <1>7, <1>8

\* add_redirect leaves a table of the names, whatever the rule.
LEMMA AddedTyped ==
  ASSUME NEW names, NEW table \in TablesOver(names), NEW rule, IsRule(rule),
         NormalizeDomain(rule.domain) \in names
  PROVE  LET added == AddRedirect(table, rule)
         IN  /\ added.rules \in TablesOver(names) /\ added.ok \in BOOLEAN
             /\ added.ok => NormalizeDomain(rule.domain) \in DOMAIN added.rules
<1> DEFINE domain == NormalizeDomain(rule.domain)
           old    == EntryOf(table, domain)
           new    == CASE rule.target = "v4"   -> [old EXCEPT !.v4 = rule.address]
                       [] rule.target = "v6"   -> [old EXCEPT !.v6 = rule.address]
                       [] rule.target = "junk" -> old
           next   == [d \in DOMAIN table \cup {domain} |-> IF d = domain THEN new ELSE table[d]]
           ok     == rule.target # "junk"
<1>1. rule.target \in {"v4", "v6", "junk", "nothing"} /\ rule.address \in Int
  BY DEF IsRule, Targets
<1>2. /\ table \in [DOMAIN table -> Entries] /\ DOMAIN table \subseteq names
      /\ \A d \in DOMAIN table : table[d] \in Entries
  BY TablesAre
<1>3. old \in Entries
  <2>1. NoRedirect \in Entries
    BY DEF NoRedirect, Entries, NoAddr, NoExpiry
  <2> QED  BY <1>2, <2>1 DEF EntryOf
<1>4. AddRedirect(table, rule) = IF rule.target = "nothing" \/ domain = <<>>
                                 THEN [ok |-> FALSE, rules |-> table] ELSE [ok |-> ok, rules |-> next]
  BY Zenon DEF AddRedirect
<1> HIDE DEF old
<1>5. rule.target # "nothing" => new \in Entries
  BY <1>1, <1>3 DEF Entries
<1> HIDE DEF new
<1>6. rule.target # "nothing" => next \in TablesOver(names) /\ domain \in DOMAIN next
  <2>1. DOMAIN next = DOMAIN table \cup {domain} /\ DOMAIN next \subseteq names
    BY <1>2
  <2>2. rule.target # "nothing" => next \in [DOMAIN table \cup {domain} -> Entries]
    BY <1>2, <1>5
  <2> HIDE DEF next
  <2> QED  BY <2>1, <2>2, TablesAre
<1> DEFINE added == AddRedirect(table, rule)
<1>7. CASE rule.target = "nothing" \/ domain = <<>>
  <2>1. added = [ok |-> FALSE, rules |-> table]
    BY <1>4, <1>7
  <2> HIDE DEF added
  <2>2. added.rules = table /\ added.ok = FALSE
    BY <2>1
  <2> QED  BY <2>2 DEF added
<1>8. CASE ~(rule.target = "nothing" \/ domain = <<>>)
  <2>1. added = [ok |-> ok, rules |-> next]
    BY <1>4, <1>8
  <2>2. ok \in BOOLEAN
    OBVIOUS
  <2> HIDE DEF added, next
  <2>3. added.rules = next /\ added.ok \in BOOLEAN
    BY <2>1, <2>2
  <2> HIDE DEF domain
  <2>4. added.rules \in TablesOver(names) /\ domain \in DOMAIN added.rules
    BY <1>6, <1>8, <2>3
  <2> QED  BY <2>3, <2>4 DEF added, domain
<1> QED  BY <1>7, <1>8

\* So does a line.
LEMMA ReadLineTyped ==
  ASSUME NEW names, NEW table \in TablesOver(names), NEW line, IsRule(line.rule), line.expiry \in Int,
         NormalizeDomain(line.rule.domain) \in names, NEW now
  PROVE  ReadLine(table, line, now) \in TablesOver(names)
<1> DEFINE rule   == line.rule
           domain == NormalizeDomain(rule.domain)
           added  == AddRedirect(table, rule)
           t      == added.rules
<1>1. t \in TablesOver(names) /\ added.ok \in BOOLEAN /\ (added.ok => domain \in DOMAIN t)
  BY AddedTyped
<1>2. ReadLine(table, line, now) \in {table, t, SetExpiry(t, rule, line.expiry)}
      /\ (ReadLine(table, line, now) \notin {table, t} => added.ok)
  BY DEF ReadLine
<1> HIDE DEF added
<1>3. t \in [DOMAIN t -> Entries] /\ DOMAIN t \subseteq names
  BY <1>1, TablesAre
<1>4. ASSUME added.ok PROVE SetExpiry(t, rule, line.expiry) \in TablesOver(names)
  <2> DEFINE new == SetExpiry(t, rule, line.expiry)
  <2> HIDE DEF t, domain
  <2>1. new = [t EXCEPT ![domain].expires = line.expiry]
    BY DEF SetExpiry, domain
  <2>2. new \in [DOMAIN t -> Entries] /\ DOMAIN new = DOMAIN t
    BY <1>1, <1>3, <1>4, <2>1 DEF Entries
  <2> HIDE DEF new
  <2>3. new \in TablesOver(names)
    BY <1>3, <2>2, TablesAre
  <2> QED  BY <2>3 DEF new
<1> QED  BY <1>1, <1>2, <1>4

\* The fold of parse_temporary_redirects, line by line.
LinesReadyFor(lines, n, now, names) ==
  /\ n \in Nat /\ DOMAIN lines = 1..n
  /\ \A k \in 1..n, table \in TablesOver(names) : ReadLine(table, lines[k], now) \in TablesOver(names)

\* The loop of parse_temporary_redirects goes through the tables g[0], g[1], ...
\* that it has after each line.
LEMMA LinesFold ==
  ASSUME NEW lines, NEW n, NEW now, NEW names, LinesReadyFor(lines, n, now, names)
  PROVE  \E g : /\ g[0] = <<>>
                /\ \A k \in 1..n : g[k] = ReadLine(g[k - 1], lines[k], now)
                /\ ParseTemporaryRedirects(lines, now) = g[n]
<1> DEFINE B == TablesOver(names)
           Solves(h) == h = [s \in SUBSET (1..n) |->
                               IF s = {} THEN <<>>
                               ELSE ReadLine(h[s \ {Max(s)}], lines[Max(s)], now)]
           it == CHOOSE h : Solves(h)
           g  == [k \in 0..n |-> it[1..k]]
<1>1. /\ n \in Nat /\ DOMAIN lines = 1..n
      /\ \A k \in 1..n, table \in TablesOver(names) : ReadLine(table, lines[k], now) \in TablesOver(names)
  BY DEF LinesReadyFor
<1>2. <<>> \in B
  <2>1. <<>> \in [{} -> Entries]
    OBVIOUS
  <2> QED  BY <2>1 DEF TablesOver
<1>3. \E h : Solves(h)
  <2> DEFINE step == [q \in (1..n) \X B |-> ReadLine(q[2], lines[q[1]], now)]
  <2>1. step \in [(1..n) \X B -> B]
    BY <1>1
  <2>2. PICK h : FoldOf(h, n, B, <<>>, step)
    <3> HIDE DEF step, B
    <3> QED  BY <1>1, <1>2, <2>1, FoldExists
  <2>3. ASSUME NEW s \in SUBSET (1..n), s # {}
        PROVE  step[<<Max(s), h[s \ {Max(s)}]>>] = ReadLine(h[s \ {Max(s)}], lines[Max(s)], now)
    <3>1. Max(s) \in 1..n
      BY <1>1, <2>3, MaxOf
    <3>2. h[s \ {Max(s)}] \in B
      BY <2>2 DEF FoldOf
    <3> QED  BY <3>1, <3>2
  <2> HIDE DEF step
  <2>4. h = [s \in SUBSET (1..n) |->
               IF s = {} THEN <<>> ELSE ReadLine(h[s \ {Max(s)}], lines[Max(s)], now)]
    BY <2>2, <2>3 DEF FoldOf
  <2> QED  BY <2>4
<1>4. Solves(it)
  BY <1>3
<1>5. ParseTemporaryRedirects(lines, now) = it[DOMAIN lines]
  BY <1>1, Zenon DEF ParseTemporaryRedirects, FoldLeft, MapThenFoldSet
<1> HIDE DEF it
<1>6. it[{}] = <<>>
  BY <1>4
<1>7. ASSUME NEW k \in 1..n PROVE it[1..k] = ReadLine(it[1..(k - 1)], lines[k], now)
  <2>1. /\ 1..k \in SUBSET (1..n) /\ 1..k # {}
        /\ Max(1..k) = k /\ (1..k) \ {k} = 1..(k - 1)
    BY <1>1, Segment
  <2> QED  BY <1>4, <2>1
<1>8. g[0] = <<>> /\ g[n] = it[1..n] /\ \A k \in 1..n : g[k] = it[1..k] /\ g[k - 1] = it[1..(k - 1)]
  <2>1. 1..0 = {}
    OBVIOUS
  <2> QED  BY <1>1, <1>6, <2>1
<1> HIDE DEF g
<1>9. ParseTemporaryRedirects(lines, now) = g[n] /\ \A k \in 1..n : g[k] = ReadLine(g[k - 1], lines[k], now)
  BY <1>1, <1>5, <1>7, <1>8
<1> QED  BY <1>8, <1>9, Zenon

\* The table of no rules.
LEMMA EmptyTable ==
  ASSUME NEW names, NEW rules
  PROVE  <<>> \in TablesOver(names) /\ DOMAIN <<>> = {} /\ IsTableOf(<<>>, rules, {})
<1>1. DOMAIN <<>> = {} /\ <<>> \in [{} -> Entries]
  OBVIOUS
<1>2. <<>> \in TablesOver(names)
  BY <1>1 DEF TablesOver
<1>3. IsTableOf(<<>>, rules, {})
  BY <1>1, TableIs
<1> QED  BY <1>1, <1>2, <1>3

\* parse_temporary_redirects, for a file of any length: the table is that of the
\* valid lines, and every expiry in it that of one of them.
LEMMA RulesJobIs ==
  ASSUME job \in Jobs, job.kind = "rules"
  PROVE  LET table == ParseTemporaryRedirects(job.lines, job.now)
         IN  /\ IsTableOf(table, RulesOf(job.lines), ValidLines)
             /\ \A d \in DOMAIN table, j \in ValidLines :
                  NormalizeDomain(job.lines[j].rule.domain) = d =>
                    \E i \in ValidLines : /\ NormalizeDomain(job.lines[i].rule.domain) = d
                                          /\ table[d].expires = job.lines[i].expiry
<1> DEFINE lines == job.lines
           n     == Len(lines)
           now   == job.now
           rules == RulesOf(lines)
           Domain(i) == NormalizeDomain(lines[i].rule.domain)
           names == {Domain(i) : i \in 1..n}
           Valid(i) == LineOk(lines[i], now) /\ Acceptable(lines[i].rule)
           valid(k) == {i \in 1..k : Valid(i)}
<1>1. /\ now \in Nat /\ lines \in Seq(Range(lines))
      /\ \A i \in DOMAIN lines : IsRule(lines[i].rule) /\ lines[i].expiry \in Int
  BY JobsAssumption
<1>2. n \in Nat /\ DOMAIN lines = 1..n
  BY <1>1
<1>3. \A i \in 1..n : rules[i] = lines[i].rule /\ Domain(i) \in names
  BY <1>2 DEF RulesOf
<1>4. ValidLines = valid(n)
  BY <1>2, Zenon DEF ValidLines, LineOk
<1> HIDE DEF names, n
<1> HIDE DEF rules, lines, now
<1>6. ASSUME NEW table, NEW k \in 1..n, NEW some, ReadyFor(names, table, rules, k, some)
      PROVE  TableAfter(ReadLine(table, lines[k], now), Valid(k), names, table, rules, k, some, lines[k])
  <2> DEFINE line == lines[k]
             ok   == LineOk(line, now) /\ Acceptable(rules[k])
  <2>1. LineReadyFor(names, table, rules, k, some, line, now)
    BY <1>1, <1>2, <1>3, <1>6 DEF LineReadyFor
  <2>2. Valid(k) = ok
    BY <1>3
  <2> HIDE DEF line, Valid
  <2>3. TableAfter(ReadLine(table, line, now), ok, names, table, rules, k, some, line)
    BY <2>1, ReadLineIs
  <2> HIDE DEF ok
  <2>4. TableAfter(ReadLine(table, line, now), Valid(k), names, table, rules, k, some, line)
    BY <2>2, <2>3
  <2> QED  BY <2>4 DEF line
<1>7. PICK g : /\ g[0] = <<>>
               /\ \A k \in 1..n : g[k] = ReadLine(g[k - 1], lines[k], now)
               /\ ParseTemporaryRedirects(lines, now) = g[n]
  <2>1. ASSUME NEW k \in 1..n, NEW table \in TablesOver(names)
        PROVE  ReadLine(table, lines[k], now) \in TablesOver(names)
    <3>1. IsRule(lines[k].rule) /\ lines[k].expiry \in Int /\ NormalizeDomain(lines[k].rule.domain) \in names
      BY <1>1, <1>2, <1>3
    <3> QED  BY <3>1, ReadLineTyped
  <2>2. LinesReadyFor(lines, n, now, names)
    BY <1>2, <2>1, Zenon DEF LinesReadyFor
  <2> QED  BY <2>2, LinesFold
<1> DEFINE Agrees(t, k) == \A d \in DOMAIN t, j \in valid(k) :
                             Domain(j) = d => \E i \in valid(k) : /\ Domain(i) = d
                                                                  /\ t[d].expires = lines[i].expiry
           Holds(k) == /\ g[k] \in TablesOver(names) /\ IsTableOf(g[k], rules, valid(k))
                       /\ Agrees(g[k], k)
           S == {k \in 0..n : Holds(k)}
<1>8. 0 \in S
  <2>1. valid(0) = {}
    OBVIOUS
  <2> HIDE DEF valid
  <2>2. Holds(0)
    BY <1>7, <2>1, EmptyTable
  <2>3. 0 \in 0..n
    BY <1>2
  <2> HIDE DEF Holds
  <2> QED  BY <2>2, <2>3
<1>9. ASSUME NEW k \in 0..(n - 1), k \in S PROVE k + 1 \in S
  <2> DEFINE m == k + 1
  <2>1. m \in 1..n /\ m \in 0..n /\ m - 1 = k
    BY <1>2
  <2>2. g[m] = ReadLine(g[k], lines[m], now)
    BY <1>7, <2>1
  <2>3. valid(k) \in SUBSET (1..(m - 1)) /\ valid(m) = IF Valid(m) THEN valid(k) \cup {m} ELSE valid(k)
    <3>1. 1..m = (1..k) \cup {m} /\ 1..(m - 1) = 1..k
      BY <1>2
    <3> HIDE DEF Valid, m
    <3> QED  BY <3>1
  <2> HIDE DEF m, valid, Valid, Domain
  <2>4. g[k] \in TablesOver(names) /\ IsTableOf(g[k], rules, valid(k)) /\ Agrees(g[k], k)
    BY <1>9
  <2>5. /\ g[m] \in TablesOver(names) /\ IsTableOf(g[m], rules, valid(m))
        /\ \A d \in DOMAIN g[m] :
             g[m][d].expires = IF Valid(m) /\ d = Domain(m) THEN lines[m].expiry
                               ELSE IF d \in DOMAIN g[k] THEN g[k][d].expires ELSE NoExpiry
    <3>1. m \in Nat \ {0} /\ IsRule(rules[m]) /\ NormalizeDomain(rules[m].domain) \in names
      BY <1>1, <1>2, <1>3, <2>1 DEF Domain
    <3>2. ReadyFor(names, g[k], rules, m, valid(k))
      BY <2>3, <2>4, <3>1, Zenon DEF ReadyFor
    <3>3. TableAfter(g[m], Valid(m), names, g[k], rules, m, valid(k), lines[m])
      BY <1>6, <2>1, <2>2, <3>2
    <3>4. Domain(m) = NormalizeDomain(rules[m].domain)
      BY <1>3, <2>1 DEF Domain
    <3> QED  BY <2>3, <3>3, <3>4 DEF TableAfter
  <2>6. \A j \in valid(k) : Domain(j) \in DOMAIN g[k]
    <3>1. \A j \in valid(k) : j \in 1..n
      BY <1>2, <2>1, <2>3
    <3>2. \A j \in valid(k) : NormalizeDomain(rules[j].domain) \in DOMAIN g[k]
      BY <2>4, TableIs
    <3> QED  BY <1>3, <3>1, <3>2 DEF Domain
  <2>7. Agrees(g[m], m)
    BY <2>3, <2>4, <2>5, <2>6
  <2> HIDE DEF Agrees
  <2>8. m \in S
    BY <2>1, <2>5, <2>7
  <2> QED  BY <2>8 DEF m
<1>10. Holds(n)
  <2> HIDE DEF S
  <2>1. 0..n \subseteq S /\ n \in 0..n
    BY <1>2, <1>8, <1>9, InductionUpTo
  <2>2. n \in S
    BY <2>1
  <2> QED  BY <2>2 DEF S
<1> QED  BY <1>4, <1>7, <1>10 DEF rules, lines, now

\* The same, of a rules job that is done.
LEMMA RulesReadAsListed ==
  ASSUME JobInv, Did("rules")
  PROVE  /\ IsTableOf(result, RulesOf(job.lines), ValidLines)
         /\ \A d \in DOMAIN result, j \in ValidLines :
              NormalizeDomain(job.lines[j].rule.domain) = d =>
                \E i \in ValidLines : /\ NormalizeDomain(job.lines[i].rule.domain) = d
                                      /\ result[d].expires = job.lines[i].expiry
<1>1. job \in Jobs /\ job.kind = "rules" /\ result = ParseTemporaryRedirects(job.lines, job.now)
  BY DEF JobInv, JobResult, Did
<1> QED  BY <1>1, RulesJobIs

Configs(names) == [ok : BOOLEAN, test : BOOLEAN, rules : TablesOver(names)]

IsArgument(arg, names) ==
  /\ IsRule(arg.rule) /\ arg.flag \in {"test", "redirect", "other"}
  /\ NormalizeDomain(arg.rule.domain) \in names

ArgumentsReadyFor(args, n, names) ==
  n \in Nat /\ DOMAIN args = 1..n /\ \A k \in 1..n : IsArgument(args[k], names)

\* What an argument of the command line changes.
LEMMA ReadArgumentIs ==
  ASSUME NEW names, NEW config \in Configs(names), NEW arg, IsArgument(arg, names)
  PROVE  LET new   == ReadArgument(config, arg)
             added == AddRedirect(config.rules, arg.rule)
         IN  /\ new \in Configs(names)
             /\ ~ config.ok \/ arg.flag = "other" => new.ok = FALSE
             /\ config.ok /\ arg.flag = "test" =>
                  new.ok = TRUE /\ new.test = TRUE /\ new.rules = config.rules
             /\ config.ok /\ arg.flag = "redirect" =>
                  new.ok = added.ok /\ new.test = config.test /\ new.rules = added.rules
<1> DEFINE new   == ReadArgument(config, arg)
           added == AddRedirect(config.rules, arg.rule)
<1>1. config.ok \in BOOLEAN /\ config.test \in BOOLEAN /\ config.rules \in TablesOver(names)
  BY DEF Configs
<1>2. IsRule(arg.rule) /\ arg.flag \in {"test", "redirect", "other"}
      /\ NormalizeDomain(arg.rule.domain) \in names
  BY DEF IsArgument
<1>3. added.rules \in TablesOver(names) /\ added.ok \in BOOLEAN
  BY <1>1, <1>2, AddedTyped
<1>4. CASE ~ config.ok \/ arg.flag = "other"
  <2>1. new = [config EXCEPT !.ok = FALSE]
    BY <1>2, <1>4 DEF ReadArgument
  <2> HIDE DEF new
  <2>2. new \in Configs(names) /\ new.ok = FALSE
    BY <1>1, <2>1 DEF Configs
  <2>3. ~ (config.ok /\ arg.flag = "test") /\ ~ (config.ok /\ arg.flag = "redirect")
    BY <1>4
  <2> QED  BY <2>2, <2>3 DEF new
<1>5. CASE config.ok /\ arg.flag = "test"
  <2>1. new = [config EXCEPT !.test = TRUE]
    BY <1>5 DEF ReadArgument
  <2> HIDE DEF new
  <2>2. new \in Configs(names) /\ new.ok = TRUE /\ new.test = TRUE /\ new.rules = config.rules
    BY <1>1, <1>5, <2>1 DEF Configs
  <2> QED  BY <1>5, <2>2 DEF new
<1>6. CASE config.ok /\ arg.flag = "redirect"
  <2>1. new = [config EXCEPT !.ok = added.ok, !.rules = added.rules]
    BY <1>6 DEF ReadArgument
  <2> HIDE DEF new, added
  <2>2. new \in Configs(names) /\ new.ok = added.ok /\ new.test = config.test /\ new.rules = added.rules
    BY <1>1, <1>3, <2>1 DEF Configs
  <2> QED  BY <1>6, <2>2 DEF new, added
<1> QED  BY <1>1, <1>2, <1>4, <1>5, <1>6

NoConfig == [ok |-> TRUE, test |-> FALSE, rules |-> <<>>]

\* The fold of RuntimeConfig::parse, argument by argument.
LEMMA ArgumentsFold ==
  ASSUME NEW args, NEW n, NEW names, ArgumentsReadyFor(args, n, names)
  PROVE  \E g : /\ g[0] = NoConfig
                /\ \A k \in 1..n : g[k] = ReadArgument(g[k - 1], args[k])
                /\ FoldLeft(ReadArgument, NoConfig, args) = g[n]
<1> DEFINE B == Configs(names)
           Solves(h) == h = [s \in SUBSET (1..n) |->
                               IF s = {} THEN NoConfig
                               ELSE ReadArgument(h[s \ {Max(s)}], args[Max(s)])]
           it == CHOOSE h : Solves(h)
           g  == [k \in 0..n |-> it[1..k]]
<1>1. /\ n \in Nat /\ DOMAIN args = 1..n
      /\ \A k \in 1..n, config \in B : ReadArgument(config, args[k]) \in B
  BY ReadArgumentIs DEF ArgumentsReadyFor
<1>2. NoConfig \in B
  <2>1. <<>> \in TablesOver(names)
    BY EmptyTable
  <2> QED  BY <2>1 DEF Configs, NoConfig
<1>3. \E h : Solves(h)
  <2> DEFINE step == [q \in (1..n) \X B |-> ReadArgument(q[2], args[q[1]])]
  <2>1. step \in [(1..n) \X B -> B]
    BY <1>1
  <2>2. PICK h : FoldOf(h, n, B, NoConfig, step)
    <3> HIDE DEF step, B
    <3> QED  BY <1>1, <1>2, <2>1, FoldExists
  <2>3. ASSUME NEW s \in SUBSET (1..n), s # {}
        PROVE  step[<<Max(s), h[s \ {Max(s)}]>>] = ReadArgument(h[s \ {Max(s)}], args[Max(s)])
    <3>1. Max(s) \in 1..n
      BY <1>1, <2>3, MaxOf
    <3>2. h[s \ {Max(s)}] \in B
      BY <2>2 DEF FoldOf
    <3> QED  BY <3>1, <3>2
  <2> HIDE DEF step
  <2>4. h = [s \in SUBSET (1..n) |->
               IF s = {} THEN NoConfig ELSE ReadArgument(h[s \ {Max(s)}], args[Max(s)])]
    BY <2>2, <2>3 DEF FoldOf
  <2> QED  BY <2>4
<1>4. Solves(it)
  BY <1>3
<1>5. FoldLeft(ReadArgument, NoConfig, args) = it[DOMAIN args]
  BY <1>1, Zenon DEF FoldLeft, MapThenFoldSet
<1> HIDE DEF it
<1>6. it[{}] = NoConfig
  BY <1>4
<1>7. ASSUME NEW k \in 1..n PROVE it[1..k] = ReadArgument(it[1..(k - 1)], args[k])
  <2>1. /\ 1..k \in SUBSET (1..n) /\ 1..k # {}
        /\ Max(1..k) = k /\ (1..k) \ {k} = 1..(k - 1)
    BY <1>1, Segment
  <2> QED  BY <1>4, <2>1
<1>8. g[0] = NoConfig /\ g[n] = it[1..n]
      /\ \A k \in 1..n : g[k] = it[1..k] /\ g[k - 1] = it[1..(k - 1)]
  <2>1. 1..0 = {}
    OBVIOUS
  <2> QED  BY <1>1, <1>6, <2>1
<1> HIDE DEF g
<1>9. FoldLeft(ReadArgument, NoConfig, args) = g[n]
      /\ \A k \in 1..n : g[k] = ReadArgument(g[k - 1], args[k])
  BY <1>1, <1>5, <1>7, <1>8
<1> QED  BY <1>8, <1>9, Zenon

\* What the first k arguments amount to.
Accepted(args, k) ==
  \A i \in 1..k : /\ args[i].flag # "other"
                  /\ args[i].flag = "redirect" => Acceptable(args[i].rule)

GivenRules(args, k) == {i \in 1..k : args[i].flag = "redirect"}

ConfigIs(config, args, k, names) ==
  /\ config \in Configs(names)
  /\ config.ok <=> Accepted(args, k)
  /\ config.ok =>
       /\ config.test <=> \E i \in 1..k : args[i].flag = "test"
       /\ IsTableOf(config.rules, RulesOf(args), GivenRules(args, k))
       /\ \A d \in DOMAIN config.rules : config.rules[d].expires = NoExpiry
       /\ config.rules = <<>> <=> GivenRules(args, k) = {}

\* One more argument: a refused one fails the configuration for good.
LEMMA ArgumentStep ==
  ASSUME NEW args, NEW n, NEW names, ArgumentsReadyFor(args, n, names),
         NEW k \in 1..n, NEW config, ConfigIs(config, args, k - 1, names)
  PROVE  ConfigIs(ReadArgument(config, args[k]), args, k, names)
<1> DEFINE arg   == args[k]
           rules == RulesOf(args)
           new   == ReadArgument(config, arg)
           added == AddRedirect(config.rules, arg.rule)
           some  == GivenRules(args, k - 1)
           more  == GivenRules(args, k)
<1>1. /\ n \in Nat /\ DOMAIN args = 1..n /\ IsArgument(arg, names)
      /\ rules[k] = arg.rule /\ arg.flag \in {"test", "redirect", "other"}
      /\ IsRule(arg.rule) /\ NormalizeDomain(arg.rule.domain) \in names
  BY DEF ArgumentsReadyFor, RulesOf, IsArgument
<1>2. 1..k = (1..(k - 1)) \cup {k}
  BY <1>1
<1>3. /\ config \in Configs(names)
      /\ config.ok <=> Accepted(args, k - 1)
      /\ config.ok =>
           /\ config.test <=> \E i \in 1..(k - 1) : args[i].flag = "test"
           /\ IsTableOf(config.rules, rules, some)
           /\ \A d \in DOMAIN config.rules : config.rules[d].expires = NoExpiry
           /\ config.rules = <<>> <=> some = {}
  BY DEF ConfigIs
<1>4. config.ok \in BOOLEAN /\ config.test \in BOOLEAN /\ config.rules \in TablesOver(names)
  BY <1>3 DEF Configs
<1>5. /\ new \in Configs(names)
      /\ ~ config.ok \/ arg.flag = "other" => new.ok = FALSE
      /\ config.ok /\ arg.flag = "test" =>
           new.ok = TRUE /\ new.test = TRUE /\ new.rules = config.rules
      /\ config.ok /\ arg.flag = "redirect" =>
           new.ok = added.ok /\ new.test = config.test /\ new.rules = added.rules
  BY <1>1, <1>3, ReadArgumentIs
<1>6. Accepted(args, k) <=> /\ Accepted(args, k - 1) /\ arg.flag # "other"
                            /\ arg.flag = "redirect" => Acceptable(arg.rule)
  BY <1>2 DEF Accepted
<1>7. (\E i \in 1..k : args[i].flag = "test")
        <=> (\E i \in 1..(k - 1) : args[i].flag = "test") \/ arg.flag = "test"
  BY <1>2
<1>8. more = IF arg.flag = "redirect" THEN some \cup {k} ELSE some
  BY <1>2 DEF GivenRules
<1>9. some \in SUBSET (1..(k - 1)) /\ k \in Nat \ {0}
  BY <1>1 DEF GivenRules
<1> HIDE DEF new, added, some, more, rules, arg
<1>10. CASE ~ config.ok \/ arg.flag = "other"
  <2>1. new.ok = FALSE /\ ~ Accepted(args, k)
    BY <1>3, <1>5, <1>6, <1>10
  <2> QED  BY <1>5, <2>1 DEF ConfigIs, new, arg
<1>11. CASE config.ok /\ arg.flag = "test"
  <2>1. new.ok = TRUE /\ new.test = TRUE /\ new.rules = config.rules /\ more = some
        /\ Accepted(args, k) /\ \E i \in 1..k : args[i].flag = "test"
    BY <1>3, <1>5, <1>6, <1>7, <1>8, <1>11
  <2>2. ConfigIs(new, args, k, names)
    BY <1>3, <1>5, <1>11, <2>1 DEF ConfigIs, rules, more
  <2> QED  BY <2>2 DEF new, arg
<1>12. CASE config.ok /\ arg.flag = "redirect"
  <2> DEFINE domain == NormalizeDomain(arg.rule.domain)
             table  == config.rules
  <2>1. new.ok = added.ok /\ new.test = config.test /\ new.rules = added.rules /\ more = some \cup {k}
    BY <1>5, <1>8, <1>12
  <2>2. ReadyFor(names, table, rules, k, some)
    BY <1>1, <1>3, <1>4, <1>9, <1>12, Zenon DEF ReadyFor
  <2>3. /\ added.ok \in BOOLEAN /\ (added.ok <=> Acceptable(arg.rule))
        /\ IsTableOf(added.rules, rules, IF added.ok THEN some \cup {k} ELSE some)
        /\ added.ok => DOMAIN added.rules = DOMAIN table \cup {domain}
        /\ \A d \in DOMAIN added.rules :
             added.rules[d].expires = IF d \in DOMAIN table THEN table[d].expires ELSE NoExpiry
    <3> DEFINE it == AddRedirect(table, rules[k])
               of == NormalizeDomain(rules[k].domain)
    <3>1. /\ it.ok \in BOOLEAN /\ (it.ok <=> Acceptable(rules[k]))
          /\ IsTableOf(it.rules, rules, IF it.ok THEN some \cup {k} ELSE some)
          /\ it.ok => DOMAIN it.rules = DOMAIN table \cup {of}
          /\ \A d \in DOMAIN it.rules :
               it.rules[d].expires = IF d \in DOMAIN table THEN table[d].expires ELSE NoExpiry
      BY <2>2, AddedRule
    <3>2. it = added /\ of = domain /\ rules[k] = arg.rule
      BY <1>1 DEF added
    <3> HIDE DEF it, of, domain
    <3> QED  BY <3>1, <3>2
  <2>4. new.ok <=> Accepted(args, k)
    BY <1>3, <1>6, <1>12, <2>1, <2>3
  <2>5. ASSUME new.ok
        PROVE  /\ new.test <=> \E i \in 1..k : args[i].flag = "test"
               /\ IsTableOf(new.rules, rules, more)
               /\ \A d \in DOMAIN new.rules : new.rules[d].expires = NoExpiry
               /\ new.rules = <<>> <=> more = {}
    <3>1. new.test <=> \E i \in 1..k : args[i].flag = "test"
      BY <1>3, <1>7, <1>12, <2>1
    <3>2. added.ok
      BY <2>1, <2>5
    <3>3. IsTableOf(new.rules, rules, more)
      BY <2>1, <2>3, <3>2
    <3>4. \A d \in DOMAIN new.rules : new.rules[d].expires = NoExpiry
      BY <1>3, <1>12, <2>1, <2>3
    <3>5. DOMAIN new.rules # {} /\ more # {}
      BY <2>1, <2>3, <3>2
    <3>6. new.rules # <<>>
      <4>1. DOMAIN <<>> = {}
        OBVIOUS
      <4> QED  BY <3>5, <4>1
    <3> QED  BY <3>1, <3>3, <3>4, <3>5, <3>6
  <2>6. ConfigIs(new, args, k, names)
    BY <1>5, <2>4, <2>5, Zenon DEF ConfigIs, rules, more
  <2> QED  BY <2>6 DEF new, arg
<1> QED  BY <1>1, <1>4, <1>10, <1>11, <1>12

\* RuntimeConfig::parse, for a command line of any length: when it succeeds, and
\* which rules it yields.
LEMMA ArgumentsJobIs ==
  ASSUME JobInv, Did("arguments")
  PROVE  LET args  == job.args
             given == {i \in DOMAIN args : args[i].flag = "redirect"}
         IN  /\ result.ok <=> /\ job.hostOk
                              /\ \A i \in DOMAIN args : args[i].flag # "other"
                              /\ \A i \in given : Acceptable(args[i].rule)
                              /\ given # {} => \E i \in DOMAIN args : args[i].flag = "test"
             /\ result.ok => /\ IsTableOf(result.rules, RulesOf(args), given)
                             /\ \A d \in DOMAIN result.rules : result.rules[d].expires = NoExpiry
<1> DEFINE args  == job.args
           n     == Len(args)
           names == {NormalizeDomain(args[i].rule.domain) : i \in 1..n}
           given == {i \in DOMAIN args : args[i].flag = "redirect"}
<1>1. /\ job \in Jobs /\ job.kind = "arguments" /\ result = ParseArguments(args, job.hostOk)
  BY DEF JobInv, JobResult, Did
<1>2. /\ job.hostOk \in BOOLEAN /\ args \in Seq(Range(args))
      /\ \A i \in DOMAIN args : /\ IsRule(args[i].rule)
                                /\ args[i].flag \in {"test", "redirect", "other"}
  BY <1>1, JobsAssumption
<1>3. n \in Nat /\ DOMAIN args = 1..n
  BY <1>2
<1> HIDE DEF args
<1>4. ArgumentsReadyFor(args, n, names)
  <2> HIDE DEF n
  <2>1. \A k \in 1..n : NormalizeDomain(args[k].rule.domain) \in names
    OBVIOUS
  <2> HIDE DEF names
  <2> QED  BY <1>2, <1>3, <2>1 DEF ArgumentsReadyFor, IsArgument
<1> HIDE DEF n, names
<1>5. PICK g : /\ g[0] = NoConfig
               /\ \A k \in 1..n : g[k] = ReadArgument(g[k - 1], args[k])
               /\ FoldLeft(ReadArgument, NoConfig, args) = g[n]
  BY <1>4, ArgumentsFold
<1> DEFINE S == {k \in 0..n : ConfigIs(g[k], args, k, names)}
<1>6. 0 \in S
  <2>1. 1..0 = {} /\ 0 \in 0..n
    BY <1>3
  <2>2. GivenRules(args, 0) = {} /\ Accepted(args, 0)
    BY <2>1 DEF GivenRules, Accepted
  <2>3. NoConfig \in Configs(names) /\ NoConfig.ok = TRUE /\ NoConfig.test = FALSE /\ NoConfig.rules = <<>>
    BY EmptyTable DEF Configs, NoConfig
  <2>4. ConfigIs(NoConfig, args, 0, names)
    BY <2>1, <2>2, <2>3, EmptyTable DEF ConfigIs
  <2> QED  BY <1>5, <2>1, <2>4
<1>7. ASSUME NEW k \in 0..(n - 1), k \in S PROVE k + 1 \in S
  <2> DEFINE m == k + 1
  <2>1. m \in 1..n /\ m \in 0..n /\ m - 1 = k
    BY <1>3
  <2> HIDE DEF m
  <2>2. ConfigIs(g[m - 1], args, m - 1, names)
    BY <1>7, <2>1
  <2>3. ConfigIs(ReadArgument(g[m - 1], args[m]), args, m, names)
    BY <1>4, <2>1, <2>2, ArgumentStep
  <2>4. m \in S
    BY <1>5, <2>1, <2>3
  <2> QED  BY <2>4 DEF m
<1>8. ConfigIs(g[n], args, n, names)
  <2>1. n \in 0..n
    BY <1>3
  <2> HIDE DEF S
  <2>2. n \in S
    BY <1>3, <1>6, <1>7, <2>1, InductionUpTo
  <2> QED  BY <2>2 DEF S
<1> DEFINE config == g[n]
<1>9. result = [config EXCEPT !.ok = @ /\ (config.test \/ config.rules = <<>>) /\ job.hostOk]
  BY <1>1, <1>5, Zenon DEF ParseArguments, NoConfig
<1> HIDE DEF config
<1>10. /\ config \in Configs(names)
       /\ config.ok <=> Accepted(args, n)
       /\ config.ok =>
            /\ config.test <=> \E i \in 1..n : args[i].flag = "test"
            /\ IsTableOf(config.rules, RulesOf(args), GivenRules(args, n))
            /\ \A d \in DOMAIN config.rules : config.rules[d].expires = NoExpiry
            /\ config.rules = <<>> <=> GivenRules(args, n) = {}
  BY <1>8 DEF ConfigIs, config
<1>11. /\ result.ok <=> config.ok /\ (config.test \/ config.rules = <<>>) /\ job.hostOk
       /\ result.rules = config.rules
  BY <1>2, <1>9, <1>10 DEF Configs
<1>12. given = GivenRules(args, n)
  BY <1>3 DEF GivenRules
<1>13. Accepted(args, n) <=> /\ \A i \in DOMAIN args : args[i].flag # "other"
                             /\ \A i \in given : Acceptable(args[i].rule)
  BY <1>3 DEF Accepted
<1> HIDE DEF given
<1>14. /\ result.ok <=> /\ job.hostOk
                        /\ \A i \in DOMAIN args : args[i].flag # "other"
                        /\ \A i \in given : Acceptable(args[i].rule)
                        /\ given # {} => \E i \in DOMAIN args : args[i].flag = "test"
       /\ result.ok => /\ IsTableOf(result.rules, RulesOf(args), given)
                       /\ \A d \in DOMAIN result.rules : result.rules[d].expires = NoExpiry
  BY <1>3, <1>10, <1>11, <1>12, <1>13
<1> QED  BY <1>14, Zenon DEF given, args

\* parse_temporary_redirects and RuntimeConfig::parse, main.rs: for files and
\* command lines of any length, each family of a domain is pinned by its last
\* rule, and a command line with a bad argument is refused as a whole.
THEOREM RulesAlwaysAsListed == JobSpec => []RulesAsListed
<1>1. JobInv => RulesAsListed
  BY RulesReadAsListed, ArgumentsJobIs, Zenon DEF RulesAsListed
<1> QED  BY <1>1, JobsDone, PTL

\* probe-server.py:212-218: for a file of any length in which the lines of a
\* domain share one expiry, no pin stays in force past its line.
THEOREM NoneEverOutlivesItsLine == JobSpec => []NoneOutlivesItsLine
<1>1. ASSUME JobInv, Did("rules"), NEW d \in DOMAIN result, NEW time \in job.now..(job.now + 3),
             NEW target \in {"v4", "v6"},
             Cardinality({job.lines[i].expiry : i \in {j \in ValidLines :
                            NormalizeDomain(job.lines[j].rule.domain) = d}}) = 1,
             LastRule(RulesOf(job.lines), ValidLines, d, target) # 0,
             InForce(result[d], time)
      PROVE  job.lines[LastRule(RulesOf(job.lines), ValidLines, d, target)].expiry > time
  <2> DEFINE lines == job.lines
             last  == LastRule(RulesOf(lines), ValidLines, d, target)
             mine  == {j \in ValidLines : NormalizeDomain(lines[j].rule.domain) = d}
             ends  == {lines[i].expiry : i \in mine}
  <2>1. job \in Jobs /\ job.kind = "rules"
    BY <1>1 DEF JobInv, Did
  <2>2. /\ job.now \in Nat /\ lines \in Seq(Range(lines))
        /\ \A i \in DOMAIN lines : lines[i].expiry \in Int
    BY <2>1, JobsAssumption
  <2>3. ValidLines \in SUBSET (1..Len(lines)) /\ DOMAIN lines = 1..Len(lines) /\ Len(lines) \in Nat
    BY <2>2 DEF ValidLines
  <2>4. last \in mine
    <3> DEFINE pinning == {i \in ValidLines : IsOf(RulesOf(lines)[i], d, target)}
    <3>1. last \in pinning
      BY <1>1, <2>3, LastRuleIs
    <3>2. \A i \in ValidLines : RulesOf(lines)[i] = lines[i].rule
      BY <2>3 DEF RulesOf
    <3> QED  BY <3>1, <3>2 DEF IsOf
  <2>5. PICK i \in mine : result[d].expires = lines[i].expiry
    BY <1>1, <2>4, RulesReadAsListed
  <2>6. lines[i].expiry = lines[last].expiry
    <3>1. PICK e : ends = {e}
      <4>1. IsFiniteSet(1..Len(lines)) /\ mine \in SUBSET (1..Len(lines))
        <5>1. mine \in SUBSET (1..Len(lines))
          BY <2>3
        <5>2. 1 \in Int /\ Len(lines) \in Int
          BY <2>3
        <5> HIDE DEF mine, lines
        <5>3. IsFiniteSet(1..Len(lines))
          BY <5>2, FS_Interval
        <5> QED  BY <5>1, <5>3
      <4> DEFINE end == [j \in mine |-> lines[j].expiry]
      <4>2. end \in Surjection(mine, ends)
        BY DEF Surjection
      <4> HIDE DEF end, mine, ends
      <4>3. IsFiniteSet(mine)
        BY <4>1, FS_Subset
      <4>4. IsFiniteSet(ends)
        BY <4>2, <4>3, FS_Surjection
      <4>5. Cardinality(ends) = 1
        BY <1>1 DEF ends, mine
      <4> QED  BY <4>4, <4>5, FS_Singleton
    <3> QED  BY <2>4, <2>5, <3>1
  <2>7. lines[i].expiry > job.now /\ lines[i].expiry \in Int
    BY <2>2, <2>3, <2>5 DEF ValidLines
  <2> QED  BY <1>1, <2>2, <2>5, <2>6, <2>7 DEF InForce, NoExpiry
<1>2. JobInv => NoneOutlivesItsLine
  BY <1>1, Zenon DEF NoneOutlivesItsLine
<1> QED  BY <1>2, JobsDone, PTL

-------------------------------------------------------------------------------
\* Packets.

\* Induction from the end of the packet towards its beginning, for the loops
\* whose position only grows.
LEMMA Backwards ==
  ASSUME NEW L \in Nat, NEW S,
         \A pos \in Nat : pos >= L => pos \in S,
         \A pos \in Nat : (\A later \in Nat : later > pos => later \in S) => pos \in S
  PROVE  Nat \subseteq S
<1> DEFINE K == {k \in Nat : \A pos \in Nat : pos + k >= L => pos \in S}
<1>1. 0 \in K
  OBVIOUS
<1>2. ASSUME NEW k \in Nat, k \in K PROVE k + 1 \in K
  <2>1. ASSUME NEW pos \in Nat, pos + k + 1 >= L PROVE pos \in S
    <3>1. \A later \in Nat : later > pos => later + k >= L
      BY <2>1
    <3>2. \A later \in Nat : later > pos => later \in S
      BY <1>2, <3>1
    <3> QED  BY <3>2
  <2> QED  BY <2>1
<1> HIDE DEF K
<1>3. Nat \subseteq K
  BY <1>1, <1>2, Induction
<1> QED  BY <1>3 DEF K

\* A function defined by recursion towards the end of the packet.
Jumps(h, B, base, next, step, goes) ==
  /\ h \in [Nat -> B]
  /\ \A pos \in Nat : h[pos] = IF pos \in goes THEN step[<<pos, h[next[pos]]>>] ELSE base[pos]

\* It exists when every jump from before some length goes forward.
LEMMA JumpExists ==
  ASSUME NEW L \in Nat, NEW B, NEW base \in [Nat -> B], NEW next \in [Nat -> Nat],
         NEW step \in [Nat \X B -> B], NEW goes \in SUBSET Nat,
         \A pos \in goes : pos < L /\ next[pos] > pos
  PROVE  \E h : Jumps(h, B, base, next, step, goes)
<1> DEFINE Body(h, pos) == IF pos \in goes THEN step[<<pos, h[next[pos]]>>] ELSE base[pos]
           Good(h, k) == h \in [Nat -> B] /\ \A pos \in Nat : pos + k >= L => h[pos] = Body(h, pos)
           K == {k \in Nat : \E h : Good(h, k)}
<1>1. 0 \in K
  <2>1. \A pos \in Nat : pos >= L => pos \notin goes
    OBVIOUS
  <2>2. Good(base, 0)
    BY <2>1
  <2> HIDE DEF Good
  <2> QED  BY <2>2
<1>2. ASSUME NEW k \in Nat, k \in K PROVE k + 1 \in K
  <2>1. PICK h : Good(h, k)
    BY <1>2
  <2> DEFINE new == [pos \in Nat |-> IF pos + k >= L THEN h[pos] ELSE Body(h, pos)]
  <2>2. \A pos \in Nat : Body(h, pos) \in B
    BY <2>1
  <2>3. new \in [Nat -> B]
    BY <2>1, <2>2
  <2>4. ASSUME NEW pos \in Nat, pos + k + 1 >= L PROVE new[pos] = Body(new, pos)
    <3>1. new[pos] = Body(h, pos)
      BY <2>1
    <3>2. pos \in goes => new[next[pos]] = h[next[pos]]
      <4>1. pos \in goes => next[pos] \in Nat /\ next[pos] + k >= L
        BY <2>4
      <4> QED  BY <4>1
    <3> HIDE DEF new
    <3> QED  BY <3>1, <3>2
  <2>5. Good(new, k + 1)
    <3> HIDE DEF new, Body
    <3>1. \A pos \in Nat : pos + (k + 1) >= L => pos + k + 1 >= L
      OBVIOUS
    <3> QED  BY <2>3, <2>4, <3>1
  <2> HIDE DEF Good, new
  <2> QED  BY <2>5
<1> HIDE DEF K
<1>3. L \in K
  BY <1>1, <1>2, Induction
<1>4. PICK h : Good(h, L)
  BY <1>3 DEF K
<1>5. \A pos \in Nat : pos + L >= L
  OBVIOUS
<1> QED  BY <1>4, <1>5 DEF Jumps

\* The parts of a finite set.
LEMMA SmallerSet ==
  ASSUME NEW S, IsFiniteSet(S), NEW T \in SUBSET S
  PROVE  /\ IsFiniteSet(T) /\ Cardinality(T) \in Nat /\ (Cardinality(T) = 0 <=> T = {})
         /\ \A x \in T : Cardinality(T \ {x}) = Cardinality(T) - 1
BY FS_Subset, FS_CardinalityType, FS_EmptySet, FS_RemoveElement

\* A fold over a finite set, which takes an arbitrary element at a time.
SetFoldOf(h, S, B, base, step) ==
  /\ h \in [SUBSET S -> B]
  /\ \A T \in SUBSET S :
       h[T] = IF T = {} THEN base
              ELSE step[<<CHOOSE x \in T : TRUE, h[T \ {CHOOSE x \in T : TRUE}]>>]

\* It has a solution, by induction on the size of the part.
LEMMA SetFoldExists ==
  ASSUME NEW S, IsFiniteSet(S), NEW B, NEW base \in B, NEW step \in [S \X B -> B]
  PROVE  \E h : SetFoldOf(h, S, B, base, step)
<1> DEFINE Body(h, T) == IF T = {} THEN base
                         ELSE step[<<CHOOSE x \in T : TRUE, h[T \ {CHOOSE x \in T : TRUE}]>>]
           Good(h, k) == /\ h \in [SUBSET S -> B]
                         /\ \A T \in SUBSET S : Cardinality(T) <= k => h[T] = Body(h, T)
           K == {k \in Nat : \E h : Good(h, k)}
<1>1. \A T \in SUBSET S : T # {} => /\ (CHOOSE x \in T : TRUE) \in T
                                    /\ T \ {CHOOSE x \in T : TRUE} \in SUBSET S
  OBVIOUS
<1>2. \A h \in [SUBSET S -> B], T \in SUBSET S : Body(h, T) \in B
  BY <1>1
<1>3. \A T \in SUBSET S : /\ Cardinality(T) \in Nat /\ (Cardinality(T) = 0 <=> T = {})
                          /\ \A x \in T : Cardinality(T \ {x}) = Cardinality(T) - 1
  BY SmallerSet
<1>4. 0 \in K
  <2> DEFINE h == [T \in SUBSET S |-> base]
  <2>1. \A T \in SUBSET S : Cardinality(T) <= 0 => T = {}
    BY <1>3
  <2>2. Good(h, 0)
    BY <2>1
  <2> HIDE DEF Good, h
  <2> QED  BY <2>2
<1>5. ASSUME NEW k \in Nat, k \in K PROVE k + 1 \in K
  <2>1. PICK h : Good(h, k)
    BY <1>5
  <2> DEFINE new == [T \in SUBSET S |-> IF Cardinality(T) <= k THEN h[T] ELSE Body(h, T)]
  <2> HIDE DEF Body
  <2>2. new \in [SUBSET S -> B]
    BY <1>2, <2>1
  <2>3. ASSUME NEW T \in SUBSET S, Cardinality(T) <= k + 1 PROVE new[T] = Body(new, T)
    <3> DEFINE x == CHOOSE x \in T : TRUE
    <3>1. new[T] = Body(h, T)
      BY <2>1
    <3>2. T # {} => x \in T /\ T \ {x} \in SUBSET S
      BY <1>1
    <3> HIDE DEF x
    <3>3. T # {} => Cardinality(T \ {x}) <= k
      BY <1>3, <2>3, <3>2
    <3>4. T # {} => new[T \ {x}] = h[T \ {x}]
      BY <3>2, <3>3
    <3> HIDE DEF new
    <3> QED  BY <3>1, <3>4 DEF Body, x
  <2> HIDE DEF new
  <2>4. Good(new, k + 1)
    BY <2>2, <2>3
  <2> HIDE DEF Good
  <2> QED  BY <2>4
<1> HIDE DEF K, Body
<1>6. Cardinality(S) \in K
  <2>1. Cardinality(S) \in Nat
    BY <1>3
  <2> QED  BY <1>4, <1>5, <2>1, Induction
<1>7. PICK h : Good(h, Cardinality(S))
  BY <1>6 DEF K
<1>8. \A T \in SUBSET S : Cardinality(T) <= Cardinality(S)
  BY FS_Subset
<1>9. h \in [SUBSET S -> B] /\ \A T \in SUBSET S : h[T] = Body(h, T)
  BY <1>7, <1>8
<1> QED  BY <1>9 DEF Body, SetFoldOf

-------------------------------------------------------------------------------
\* Numbers and bytes.

Packets == Seq(0..255)

\* Two packets of one length have the same bytes from one position up to another.
Alike(p, q, from, to) == \A pos \in from..(to - 1) : At(q, pos) = At(p, pos)

\* An element of a sequence, and a sequence as a function.
LEMMA ElementOf ==
  ASSUME NEW S, NEW seq \in Seq(S), NEW i \in 1..Len(seq)
  PROVE  seq[i] \in S
OBVIOUS

LEMMA SeqIs ==
  ASSUME NEW S, NEW seq \in Seq(S)
  PROVE  Len(seq) \in Nat /\ seq \in [1..Len(seq) -> S]
OBVIOUS

\* A byte of a packet.
LEMMA ByteAt ==
  ASSUME NEW p \in Packets, NEW pos \in Nat, pos < Len(p)
  PROVE  At(p, pos) \in 0..255 /\ At(p, pos) \in Nat
<1>1. pos + 1 \in 1..Len(p) /\ p \in Seq(0..255)
  BY DEF Packets
<1>2. p[pos + 1] \in 0..255
  BY <1>1, ElementOf, Zenon
<1> DEFINE b == p[pos + 1]
<1>3. b \in 0..255
  BY <1>2
<1> HIDE DEF b
<1>4. b \in Nat
  BY <1>3
<1> QED  BY <1>3, <1>4, Zenon DEF At, b

\* The loop of be16 and from_be_bytes, byte by byte.
NumberSteps(g, p, pos, w) ==
  /\ g[0] = 0
  /\ \A k \in 1..w : g[k] = g[k - 1] * 256 + At(p, pos + k - 1)
  /\ Number(p, pos, w) = g[w]

\* A number read from a packet comes about byte by byte.
LEMMA NumberIs ==
  ASSUME NEW p \in Packets, NEW pos \in Nat, NEW w \in Nat, pos + w <= Len(p)
  PROVE  \E g : NumberSteps(g, p, pos, w)
<1> DEFINE seq == [i \in 1..w |-> i]
           Solves(h) == h = [s \in SUBSET (1..w) |->
                               IF s = {} THEN 0
                               ELSE h[s \ {Max(s)}] * 256 + At(p, pos + seq[Max(s)] - 1)]
           it == CHOOSE h : Solves(h)
           g  == [k \in 0..w |-> it[1..k]]
<1>1. ASSUME NEW k \in 1..w PROVE At(p, pos + k - 1) \in Nat
  <2>1. pos + k - 1 \in Nat /\ pos + k - 1 < Len(p)
    BY DEF Packets
  <2> QED  BY <2>1, ByteAt, Zenon
<1>2. \E h : Solves(h)
  <2> DEFINE step == [q \in (1..w) \X Nat |-> q[2] * 256 + At(p, pos + q[1] - 1)]
  <2>1. step \in [(1..w) \X Nat -> Nat]
    <3>1. ASSUME NEW x \in (1..w) \X Nat PROVE x[2] * 256 + At(p, pos + x[1] - 1) \in Nat
      <4>1. x[1] \in 1..w /\ x[2] \in Nat
        OBVIOUS
      <4> DEFINE b == At(p, pos + x[1] - 1)
      <4>2. b \in Nat
        BY <1>1, <4>1
      <4> HIDE DEF b
      <4>3. x[2] * 256 + b \in Nat
        BY <4>1, <4>2
      <4> QED  BY <4>3 DEF b
    <3> QED  BY <3>1
  <2>2. PICK h : FoldOf(h, w, Nat, 0, step)
    <3> HIDE DEF step
    <3>1. 0 \in Nat
      OBVIOUS
    <3> QED  BY <2>1, <3>1, FoldExists
  <2>3. ASSUME NEW s \in SUBSET (1..w), s # {}
        PROVE  step[<<Max(s), h[s \ {Max(s)}]>>] = h[s \ {Max(s)}] * 256 + At(p, pos + seq[Max(s)] - 1)
    <3>1. Max(s) \in 1..w
      BY <2>3, MaxOf
    <3>2. h[s \ {Max(s)}] \in Nat
      BY <2>2 DEF FoldOf
    <3> QED  BY <3>1, <3>2
  <2> HIDE DEF step, seq
  <2>4. h = [s \in SUBSET (1..w) |->
               IF s = {} THEN 0 ELSE h[s \ {Max(s)}] * 256 + At(p, pos + seq[Max(s)] - 1)]
    BY <2>2, <2>3 DEF FoldOf
  <2> QED  BY <2>4
<1>3. Solves(it)
  BY <1>2
<1>4. Number(p, pos, w) = it[DOMAIN seq] /\ DOMAIN seq = 1..w
  <2>1. DOMAIN seq = 1..w
    OBVIOUS
  <2>2. Number(p, pos, w) = it[DOMAIN seq]
    BY <2>1, Zenon DEF Number, FoldLeft, MapThenFoldSet
  <2> QED  BY <2>1, <2>2
<1> HIDE DEF it
<1>5. it[{}] = 0
  BY <1>3
<1>6. ASSUME NEW k \in 1..w PROVE it[1..k] = it[1..(k - 1)] * 256 + At(p, pos + k - 1)
  <2>1. /\ 1..k \in SUBSET (1..w) /\ 1..k # {}
        /\ Max(1..k) = k /\ (1..k) \ {k} = 1..(k - 1)
    BY Segment
  <2>2. seq[Max(1..k)] = k
    BY <2>1
  <2> HIDE DEF seq
  <2>3. it[1..k] = it[(1..k) \ {Max(1..k)}] * 256 + At(p, pos + seq[Max(1..k)] - 1)
    BY <1>3, <2>1
  <2>4. it[1..k] = it[(1..k) \ {Max(1..k)}] * 256 + At(p, pos + k - 1)
    BY <2>2, <2>3, Zenon
  <2> QED  BY <2>1, <2>4, Zenon
<1>7. g[0] = 0 /\ g[w] = it[1..w] /\ \A k \in 1..w : g[k] = it[1..k] /\ g[k - 1] = it[1..(k - 1)]
  <2>1. 1..0 = {}
    OBVIOUS
  <2> QED  BY <1>5, <2>1
<1> HIDE DEF g
<1>8. Number(p, pos, w) = g[w] /\ \A k \in 1..w : g[k] = g[k - 1] * 256 + At(p, pos + k - 1)
  BY <1>4, <1>6, <1>7
<1> QED  BY <1>7, <1>8, Zenon DEF NumberSteps

\* Bytes inside the packet are a number.
LEMMA NumberType ==
  ASSUME NEW p \in Packets, NEW pos \in Nat, NEW w \in Nat, pos + w <= Len(p)
  PROVE  Number(p, pos, w) \in Nat
<1>1. PICK g : NumberSteps(g, p, pos, w)
  BY NumberIs
<1> DEFINE S == {k \in 0..w : g[k] \in Nat}
<1>2. 0 \in S
  BY <1>1 DEF NumberSteps
<1>3. ASSUME NEW k \in 0..(w - 1), k \in S PROVE k + 1 \in S
  <2>1. At(p, pos + k) \in Nat
    <3>1. pos + k \in Nat /\ pos + k < Len(p)
      BY DEF Packets
    <3> QED  BY <3>1, ByteAt, Zenon
  <2>2. g[k + 1] = g[k] * 256 + At(p, pos + k)
    <3>1. k + 1 \in 1..w /\ (k + 1) - 1 = k /\ pos + (k + 1) - 1 = pos + k
      OBVIOUS
    <3> QED  BY <1>1, <3>1 DEF NumberSteps
  <2> QED  BY <1>3, <2>1, <2>2
<1> HIDE DEF S
<1>4. 0..w \subseteq S /\ w \in 0..w
  BY <1>2, <1>3, InductionUpTo
<1> QED  BY <1>1, <1>4 DEF S, NumberSteps

\* The same bytes are the same number.
LEMMA NumberSame ==
  ASSUME NEW p \in Packets, NEW q \in Packets, Len(q) = Len(p),
         NEW pos \in Nat, NEW w \in Nat, pos + w <= Len(p), Alike(p, q, pos, pos + w)
  PROVE  Number(q, pos, w) = Number(p, pos, w)
<1>1. PICK g : NumberSteps(g, p, pos, w)
  BY NumberIs
<1>2. PICK h : NumberSteps(h, q, pos, w)
  <2>1. pos + w <= Len(q)
    OBVIOUS
  <2> QED  BY <2>1, NumberIs, Zenon
<1> DEFINE S == {k \in 0..w : h[k] = g[k]}
<1>3. 0 \in S
  BY <1>1, <1>2 DEF NumberSteps
<1>4. ASSUME NEW k \in 0..(w - 1), k \in S PROVE k + 1 \in S
  <2>1. k + 1 \in 1..w /\ (k + 1) - 1 = k /\ pos + (k + 1) - 1 = pos + k /\ pos + k \in pos..(pos + w - 1)
    OBVIOUS
  <2>2. At(q, pos + k) = At(p, pos + k)
    BY <2>1 DEF Alike
  <2> QED  BY <1>1, <1>2, <1>4, <2>1, <2>2 DEF NumberSteps
<1> HIDE DEF S
<1>5. 0..w \subseteq S /\ w \in 0..w
  BY <1>3, <1>4, InductionUpTo
<1> QED  BY <1>1, <1>2, <1>5 DEF S, NumberSteps

\* to_be_bytes.
LEMMA BytesIs ==
  ASSUME NEW n \in Int, NEW w \in Nat
  PROVE  Bytes(n, w) \in [1..w -> 0..255] /\ Len(Bytes(n, w)) = w
<1>1. ASSUME NEW i \in 1..w PROVE (n \div SizeOf[8 * (w - i)]) % 256 \in 0..255
  <2> DEFINE d == SizeOf[8 * (w - i)]
  <2>1. d \in Nat \ {0}
    <3>1. 8 * (w - i) \in Nat
      OBVIOUS
    <3> QED  BY <3>1, SizeDivides
  <2> HIDE DEF d
  <2>2. n \div d \in Int
    BY <2>1
  <2> DEFINE e == n \div d
  <2>3. e \in Int
    BY <2>2
  <2> HIDE DEF e
  <2>4. e % 256 \in 0..255
    BY <2>3
  <2> QED  BY <2>4 DEF d, e
<1>2. Bytes(n, w) \in [1..w -> 0..255]
  BY <1>1 DEF Bytes
<1> QED  BY <1>2

-------------------------------------------------------------------------------
\* skip_name.

\* Its loop at one position, where f is what it comes to from the positions behind.
SkipBody(p, f, pos) ==
  LET n == At(p, pos)
  IN  IF ~Has(p, pos) THEN None
      ELSE IF IsPointer(n) THEN IF Has(p, pos + 1) THEN pos + 2 ELSE None
      ELSE IF n = 0 THEN pos + 1
      ELSE IF n > 63 \/ pos + 1 + n > Len(p) THEN None ELSE f[pos + 1 + n]

Skips(p, f) == f = [pos \in Nat |-> SkipBody(p, f, pos)]

SkipsOn(p, pos) == pos < Len(p) /\ At(p, pos) \in 1..63 /\ pos + 1 + At(p, pos) <= Len(p)

SkipEnd(p, pos) ==
  IF pos >= Len(p) THEN None
  ELSE IF At(p, pos) = 0 THEN pos + 1
  ELSE IF At(p, pos) \div 64 = 3 /\ pos + 1 < Len(p) THEN pos + 2 ELSE None

\* The loop goes on behind a label, and otherwise stops.
LEMMA SkipBodyIs ==
  ASSUME NEW p \in Packets, NEW f, NEW pos \in Nat
  PROVE  SkipBody(p, f, pos) = IF SkipsOn(p, pos) THEN f[pos + 1 + At(p, pos)] ELSE SkipEnd(p, pos)
<1> DEFINE n == At(p, pos)
           on == f[pos + 1 + n]
<1>1. Len(p) \in Nat
  BY DEF Packets
<1>2. CASE pos >= Len(p)
  BY <1>1, <1>2 DEF SkipBody, SkipsOn, SkipEnd, Has
<1>3. CASE pos < Len(p)
  <2>1. n \in Nat /\ n \in 0..255
    BY <1>3, ByteAt
  <2> HIDE DEF n, on
  <2>2. /\ n = 0 => ~(n \div 64 = 3)
        /\ n \in 1..63 => ~(n \div 64 = 3) /\ n # 0 /\ ~(n > 63)
        /\ n > 63 => n # 0 /\ n \notin 1..63
        /\ n = 0 \/ n \in 1..63 \/ n > 63
    BY <2>1
  <2>3. SkipBody(p, f, pos) =
          IF n \div 64 = 3 THEN IF pos + 1 < Len(p) THEN pos + 2 ELSE None
          ELSE IF n = 0 THEN pos + 1
          ELSE IF n > 63 \/ pos + 1 + n > Len(p) THEN None ELSE on
    BY <1>3, Zenon DEF SkipBody, Has, IsPointer, n, on
  <2>4. pos + 1 + n > Len(p) <=> ~(pos + 1 + n <= Len(p))
    BY <1>1, <2>1
  <2>5. SkipsOn(p, pos) <=> n \in 1..63 /\ pos + 1 + n <= Len(p)
    BY <1>3, Zenon DEF SkipsOn, n
  <2>6. SkipEnd(p, pos) = IF n = 0 THEN pos + 1
                          ELSE IF n \div 64 = 3 /\ pos + 1 < Len(p) THEN pos + 2 ELSE None
    <3>1. ~(pos >= Len(p))
      BY <1>1, <1>3
    <3> QED  BY <3>1, Zenon DEF SkipEnd, n
  <2>7. SkipBody(p, f, pos) = IF SkipsOn(p, pos) THEN on ELSE SkipEnd(p, pos)
    BY <2>2, <2>3, <2>4, <2>5, <2>6, Zenon
  <2> QED  BY <2>7, Zenon DEF on, n
<1> QED  BY <1>1, <1>2, <1>3

\* The recursion of skip_name has a solution, as a name goes on only behind itself;
\* and skip_name is that solution.
LEMMA SkipsExist ==
  ASSUME NEW p \in Packets
  PROVE  \E f : Skips(p, f)
<1> DEFINE B    == Nat \cup {None}
           goes == {pos \in Nat : SkipsOn(p, pos)}
           next == [pos \in Nat |-> IF SkipsOn(p, pos) THEN pos + 1 + At(p, pos) ELSE pos + 1]
           base == [pos \in Nat |-> SkipEnd(p, pos)]
           step == [x \in Nat \X B |-> x[2]]
<1>1. Len(p) \in Nat
  BY DEF Packets
<1>2. ASSUME NEW pos \in Nat, SkipsOn(p, pos)
      PROVE  /\ pos < Len(p)
             /\ pos + 1 + At(p, pos) \in Nat /\ pos + 1 + At(p, pos) > pos
  <2>1. pos < Len(p)
    BY <1>2 DEF SkipsOn
  <2> DEFINE n == At(p, pos)
  <2>2. n \in Nat
    BY <2>1, ByteAt
  <2> HIDE DEF n
  <2>3. pos + 1 + n \in Nat /\ pos + 1 + n > pos
    BY <2>2
  <2> QED  BY <2>1, <2>3 DEF n
<1>3. next \in [Nat -> Nat]
  BY <1>2
<1>4. base \in [Nat -> B]
  BY <1>1 DEF SkipEnd
<1>5. step \in [Nat \X B -> B]
  OBVIOUS
<1>6. \A pos \in goes : pos < Len(p) /\ next[pos] > pos
  BY <1>2
<1>7. goes \in SUBSET Nat
  OBVIOUS
<1>8. PICK f : Jumps(f, B, base, next, step, goes)
  <2> HIDE DEF step, base, next, goes, B
  <2> QED  BY <1>1, <1>3, <1>4, <1>5, <1>6, <1>7, JumpExists
<1>9. ASSUME NEW pos \in Nat PROVE f[pos] = SkipBody(p, f, pos)
  <2>1. CASE SkipsOn(p, pos)
    <3>1. next[pos] = pos + 1 + At(p, pos) /\ next[pos] \in Nat /\ f[next[pos]] \in B
      BY <1>3, <1>8, <2>1 DEF Jumps
    <3>2. step[<<pos, f[next[pos]]>>] = f[next[pos]]
      BY <3>1
    <3>3. f[pos] = f[next[pos]]
      BY <1>8, <2>1, <3>2 DEF Jumps
    <3> HIDE DEF next
    <3> QED  BY <2>1, <3>1, <3>3, SkipBodyIs
  <2>2. CASE ~SkipsOn(p, pos)
    <3>1. f[pos] = SkipEnd(p, pos)
      BY <1>8, <2>2 DEF Jumps
    <3> QED  BY <2>2, <3>1, SkipBodyIs
  <2> QED  BY <2>1, <2>2
<1>10. f = [pos \in Nat |-> SkipBody(p, f, pos)]
  BY <1>8, <1>9 DEF Jumps
<1> QED  BY <1>10 DEF Skips

LEMMA SkipNameIs ==
  ASSUME NEW p \in Packets
  PROVE  \E f : Skips(p, f) /\ \A start : SkipName(p, start) = f[start]
<1> DEFINE it == CHOOSE f : Skips(p, f)
<1>1. Skips(p, it)
  BY SkipsExist
<1>2. \A start : SkipName(p, start) = it[start]
  BY Zenon DEF SkipName, Skips, SkipBody
<1> QED  BY <1>1, <1>2

\* A name ends behind its start and inside the packet.
LEMMA SkipNameBounds ==
  ASSUME NEW p \in Packets, NEW start \in Nat
  PROVE  LET end == SkipName(p, start)
         IN  /\ end \in Nat \cup {None}
             /\ end # None => start < end /\ end <= Len(p)
<1>1. PICK f : Skips(p, f) /\ \A s : SkipName(p, s) = f[s]
  BY SkipNameIs
<1> DEFINE Good(pos) == /\ f[pos] \in Nat \cup {None}
                        /\ f[pos] # None => pos < f[pos] /\ f[pos] <= Len(p)
           S == {pos \in Nat : Good(pos)}
<1>2. Len(p) \in Nat
  BY DEF Packets
<1>3. \A pos \in Nat : f[pos] = IF SkipsOn(p, pos) THEN f[pos + 1 + At(p, pos)] ELSE SkipEnd(p, pos)
  <2>1. \A pos \in Nat : f[pos] = SkipBody(p, f, pos)
    BY <1>1 DEF Skips
  <2> QED  BY <2>1, SkipBodyIs
<1>4. ASSUME NEW pos \in Nat, ~SkipsOn(p, pos) PROVE pos \in S
  BY <1>2, <1>3, <1>4 DEF SkipEnd, None
<1>5. ASSUME NEW pos \in Nat, \A later \in Nat : later > pos => later \in S PROVE pos \in S
  <2>1. CASE SkipsOn(p, pos)
    <3> DEFINE n == pos + 1 + At(p, pos)
    <3>1. n \in Nat /\ n > pos
      <4>1. pos < Len(p)
        BY <2>1 DEF SkipsOn
      <4> DEFINE b == At(p, pos)
      <4>2. b \in Nat
        BY <4>1, ByteAt
      <4> HIDE DEF b
      <4>3. pos + 1 + b \in Nat /\ pos + 1 + b > pos
        BY <4>2
      <4> QED  BY <4>3 DEF b
    <3>2. f[pos] = f[n]
      BY <1>3, <2>1
    <3> HIDE DEF n
    <3>3. n \in S
      BY <1>5, <3>1
    <3>4. f[n] \in Nat \cup {None} /\ (f[n] # None => n < f[n] /\ f[n] <= Len(p))
      BY <3>3
    <3>5. Good(pos)
      BY <1>2, <3>1, <3>2, <3>4 DEF None
    <3> QED  BY <3>5
  <2> QED  BY <1>4, <2>1
<1>6. \A pos \in Nat : pos >= Len(p) => pos \in S
  <2>1. \A pos \in Nat : pos >= Len(p) => ~SkipsOn(p, pos)
    BY <1>2 DEF SkipsOn
  <2> QED  BY <1>4, <2>1
<1> HIDE DEF S
<1>7. Nat \subseteq S
  BY <1>2, <1>5, <1>6, Backwards
<1> QED  BY <1>1, <1>7 DEF S

\* Where the bytes of a name stay, so does its end.
LEMMA SkipNameSame ==
  ASSUME NEW p \in Packets, NEW q \in Packets, Len(q) = Len(p), NEW start \in Nat,
         SkipName(p, start) # None, Alike(p, q, start, SkipName(p, start))
  PROVE  SkipName(q, start) = SkipName(p, start)
<1>1. PICK f : Skips(p, f) /\ \A s : SkipName(p, s) = f[s]
  BY SkipNameIs
<1>2. PICK g : Skips(q, g) /\ \A s : SkipName(q, s) = g[s]
  BY SkipNameIs
<1> DEFINE S == {pos \in Nat : f[pos] # None /\ Alike(p, q, pos, f[pos]) => g[pos] = f[pos]}
<1>3. Len(p) \in Nat
  BY DEF Packets
<1>4. ASSUME NEW pos \in Nat
      PROVE  /\ f[pos] = IF SkipsOn(p, pos) THEN f[pos + 1 + At(p, pos)] ELSE SkipEnd(p, pos)
             /\ g[pos] = IF SkipsOn(q, pos) THEN g[pos + 1 + At(q, pos)] ELSE SkipEnd(q, pos)
             /\ f[pos] \in Nat \cup {None} /\ (f[pos] # None => pos < f[pos])
  <2>1. f[pos] = SkipBody(p, f, pos) /\ g[pos] = SkipBody(q, g, pos)
    BY <1>1, <1>2 DEF Skips
  <2>2. f[pos] \in Nat \cup {None} /\ (f[pos] # None => pos < f[pos])
    BY <1>1, SkipNameBounds
  <2> QED  BY <2>1, <2>2, SkipBodyIs
<1>5. ASSUME NEW pos \in Nat, \A later \in Nat : later > pos => later \in S,
             f[pos] # None, Alike(p, q, pos, f[pos])
      PROVE  g[pos] = f[pos]
  <2>1. f[pos] \in Nat /\ pos < f[pos]
    BY <1>4, <1>5
  <2>2. At(q, pos) = At(p, pos)
    BY <1>5, <2>1 DEF Alike
  <2>3. SkipsOn(q, pos) <=> SkipsOn(p, pos)
    BY <2>2, Zenon DEF SkipsOn
  <2>4. SkipEnd(q, pos) = SkipEnd(p, pos)
    BY <2>2, Zenon DEF SkipEnd
  <2>5. CASE SkipsOn(p, pos)
    <3> DEFINE n == pos + 1 + At(p, pos)
    <3>1. n \in Nat /\ n > pos
      <4>1. pos < Len(p)
        BY <2>5 DEF SkipsOn
      <4> DEFINE b == At(p, pos)
      <4>2. b \in Nat
        BY <4>1, ByteAt
      <4> HIDE DEF b
      <4>3. pos + 1 + b \in Nat /\ pos + 1 + b > pos
        BY <4>2
      <4> QED  BY <4>3 DEF b
    <3>2. f[pos] = f[n]
      BY <1>4, <2>5
    <3>3. g[pos] = g[n]
      BY <1>4, <2>2, <2>3, <2>5
    <3> HIDE DEF n
    <3>4. f[n] # None /\ Alike(p, q, n, f[n])
      <4>1. \A i \in n..(f[n] - 1) : i \in pos..(f[pos] - 1)
        BY <2>1, <3>1, <3>2
      <4> QED  BY <1>5, <3>2, <4>1 DEF Alike
    <3>5. n \in S
      BY <1>5, <3>1
    <3> QED  BY <3>2, <3>3, <3>4, <3>5
  <2>6. CASE ~SkipsOn(p, pos)
    BY <1>4, <2>3, <2>4, <2>6
  <2> QED  BY <2>5, <2>6
<1>6. \A pos \in Nat : pos >= Len(p) => pos \in S
  <2>1. ASSUME NEW pos \in Nat, pos >= Len(p) PROVE f[pos] = None
    <3>1. ~SkipsOn(p, pos) /\ SkipEnd(p, pos) = None
      BY <1>3, <2>1 DEF SkipsOn, SkipEnd
    <3> QED  BY <1>4, <3>1
  <2> QED  BY <2>1
<1>7. \A pos \in Nat : (\A later \in Nat : later > pos => later \in S) => pos \in S
  BY <1>5
<1> HIDE DEF S
<1>8. Nat \subseteq S
  BY <1>3, <1>6, <1>7, Backwards
<1> QED  BY <1>1, <1>2, <1>8 DEF S

-------------------------------------------------------------------------------
\* resource_records: the questions.

Places == Nat \cup {None}

\* A question ends four bytes behind its name, inside the packet, or does not parse.
LEMMA QuestionEndIs ==
  ASSUME NEW p \in Packets, NEW pos \in Places
  PROVE  LET end  == QuestionEnd(p, pos)
             name == SkipName(p, pos)
         IN  /\ end \in Places
             /\ end # None => /\ pos \in Nat /\ name \in Nat /\ pos < name
                              /\ end = name + 4 /\ end <= Len(p)
<1> DEFINE name == SkipName(p, pos)
<1>1. Len(p) \in Nat
  BY DEF Packets
<1>2. pos # None => /\ pos \in Nat /\ name \in Nat \cup {None}
                    /\ name # None => pos < name
  BY SkipNameBounds DEF Places
<1>3. QuestionEnd(p, pos) = IF pos = None \/ name = None \/ name + 4 > Len(p) THEN None ELSE name + 4
  BY Zenon DEF QuestionEnd
<1> HIDE DEF name
<1>4. CASE pos = None \/ name = None
  <2>1. QuestionEnd(p, pos) = None
    BY <1>3, <1>4, Zenon
  <2> QED  BY <2>1 DEF Places
<1>5. CASE ~(pos = None \/ name = None)
  <2>1. pos \in Nat /\ name \in Nat /\ pos < name
    BY <1>2, <1>5
  <2>2. QuestionEnd(p, pos) = IF name + 4 > Len(p) THEN None ELSE name + 4
    BY <1>3, <1>5, Zenon
  <2> QED  BY <1>1, <2>1, <2>2 DEF Places, name
<1> QED  BY <1>4, <1>5

Questions(p) == Number(p, 4, 2)

FirstRecord(p) ==
  FoldLeft(LAMBDA pos, i : QuestionEnd(p, pos), Header, [i \in 1..Number(p, 4, 2) |-> i])

QuestionSteps(g, p) ==
  /\ g[0] = Header
  /\ \A k \in 1..Questions(p) : g[k] = QuestionEnd(p, g[k - 1])
  /\ FirstRecord(p) = g[Questions(p)]

\* The counts in the header.
LEMMA Counts ==
  ASSUME NEW p \in Packets, Len(p) >= Header
  PROVE  /\ Questions(p) \in Nat /\ Number(p, 6, 2) \in Nat
         /\ Number(p, 8, 2) \in Nat /\ Number(p, 10, 2) \in Nat
<1>1. Len(p) \in Nat
  BY DEF Packets
<1>2. \A pos \in {4, 6, 8, 10} : pos \in Nat /\ 2 \in Nat /\ pos + 2 <= Len(p)
  BY <1>1 DEF Header
<1>3. \A pos \in {4, 6, 8, 10} : Number(p, pos, 2) \in Nat
  BY <1>2, NumberType, Zenon
<1> QED  BY <1>3 DEF Questions

\* The loop over the questions goes through the positions g[0], g[1], ...
LEMMA QuestionsAre ==
  ASSUME NEW p \in Packets, Len(p) >= Header
  PROVE  \E g : QuestionSteps(g, p)
<1> DEFINE n   == Questions(p)
           seq == [i \in 1..n |-> i]
           Solves(h) == h = [s \in SUBSET (1..n) |->
                               IF s = {} THEN Header ELSE QuestionEnd(p, h[s \ {Max(s)}])]
           it == CHOOSE h : Solves(h)
           g  == [k \in 0..n |-> it[1..k]]
<1>1. n \in Nat
  BY Counts
<1>2. \E h : Solves(h)
  <2> DEFINE step == [q \in (1..n) \X Places |-> QuestionEnd(p, q[2])]
  <2>1. step \in [(1..n) \X Places -> Places]
    <3>1. \A q \in (1..n) \X Places : q[2] \in Places
      OBVIOUS
    <3> QED  BY <3>1, QuestionEndIs
  <2>2. Header \in Places
    BY DEF Header, Places
  <2> HIDE DEF n
  <2>3. PICK h : FoldOf(h, n, Places, Header, step)
    <3> HIDE DEF step
    <3> QED  BY <1>1, <2>1, <2>2, FoldExists
  <2>4. ASSUME NEW s \in SUBSET (1..n), s # {}
        PROVE  step[<<Max(s), h[s \ {Max(s)}]>>] = QuestionEnd(p, h[s \ {Max(s)}])
    <3>1. Max(s) \in 1..n
      BY <1>1, <2>4, MaxOf
    <3>2. h[s \ {Max(s)}] \in Places
      BY <2>3 DEF FoldOf
    <3> QED  BY <3>1, <3>2
  <2> HIDE DEF step
  <2>5. h = [s \in SUBSET (1..n) |-> IF s = {} THEN Header ELSE QuestionEnd(p, h[s \ {Max(s)}])]
    BY <2>3, <2>4 DEF FoldOf
  <2> QED  BY <2>5
<1>3. Solves(it)
  BY <1>2
<1>4. FirstRecord(p) = it[1..n]
  <2>1. DOMAIN seq = 1..n
    OBVIOUS
  <2>2. FirstRecord(p) = it[DOMAIN seq]
    BY <2>1, Zenon DEF FirstRecord, FoldLeft, MapThenFoldSet, Questions
  <2> QED  BY <2>1, <2>2
<1> HIDE DEF it, n
<1>5. it[{}] = Header
  BY <1>3
<1>6. ASSUME NEW k \in 1..n PROVE it[1..k] = QuestionEnd(p, it[1..(k - 1)])
  <2>1. /\ 1..k \in SUBSET (1..n) /\ 1..k # {}
        /\ Max(1..k) = k /\ (1..k) \ {k} = 1..(k - 1)
    BY <1>1, Segment
  <2>2. it[1..k] = QuestionEnd(p, it[(1..k) \ {Max(1..k)}])
    BY <1>3, <2>1
  <2> QED  BY <2>1, <2>2, Zenon
<1>7. g[0] = Header /\ g[n] = it[1..n] /\ \A k \in 1..n : g[k] = it[1..k] /\ g[k - 1] = it[1..(k - 1)]
  <2>1. 1..0 = {}
    OBVIOUS
  <2> QED  BY <1>1, <1>5, <2>1
<1> HIDE DEF g
<1>8. FirstRecord(p) = g[n] /\ \A k \in 1..n : g[k] = QuestionEnd(p, g[k - 1])
  BY <1>4, <1>6, <1>7
<1> QED  BY <1>7, <1>8, Zenon DEF QuestionSteps, n

\* When the questions parse, each ends behind the one before it.
LEMMA QuestionsInOrder ==
  ASSUME NEW p \in Packets, Len(p) >= Header, NEW g, QuestionSteps(g, p)
  PROVE  /\ FirstRecord(p) \in Places
         /\ FirstRecord(p) # None =>
              \A k \in 0..Questions(p) : g[k] \in Nat /\ Header <= g[k] /\ g[k] <= FirstRecord(p)
<1> DEFINE n == Questions(p)
           first == FirstRecord(p)
           Up == {k \in 0..n : g[k] \in Places /\ (g[k] # None => Header <= g[k])}
           Down == {m \in 0..n : first # None => g[n - m] \in Nat /\ g[n - m] <= first}
<1>1. n \in Nat
  BY Counts
<1>2. /\ g[0] = Header /\ first = g[n]
      /\ \A k \in 1..n : g[k] = QuestionEnd(p, g[k - 1])
  BY DEF QuestionSteps
<1> HIDE DEF n, first
<1>3. 0..n \subseteq Up
  <2>1. 0 \in Up
    BY <1>1, <1>2 DEF Places, Header
  <2>2. ASSUME NEW k \in 0..(n - 1), k \in Up PROVE k + 1 \in Up
    <3>1. k + 1 \in 1..n /\ k + 1 \in 0..n /\ (k + 1) - 1 = k
      BY <1>1
    <3>2. g[k + 1] = QuestionEnd(p, g[k]) /\ g[k] \in Places /\ (g[k] # None => Header <= g[k])
      BY <1>2, <2>2, <3>1
    <3>3. /\ g[k + 1] \in Places
          /\ g[k + 1] # None => /\ g[k] \in Nat /\ SkipName(p, g[k]) \in Nat /\ g[k] < SkipName(p, g[k])
                                /\ g[k + 1] = SkipName(p, g[k]) + 4
      BY <3>2, QuestionEndIs
    <3>4. g[k + 1] # None => Header <= g[k + 1]
      BY <3>2, <3>3 DEF Header, None
    <3> QED  BY <3>1, <3>3, <3>4
  <2> HIDE DEF Up
  <2> QED  BY <1>1, <2>1, <2>2, InductionUpTo
<1>4. \A k \in 0..n : g[k] \in Places /\ (g[k] # None => Header <= g[k])
  BY <1>3
<1>5. 0..n \subseteq Down
  <2>1. 0 \in Down
    BY <1>1, <1>2, <1>4 DEF Places
  <2>2. ASSUME NEW m \in 0..(n - 1), m \in Down PROVE m + 1 \in Down
    <3> DEFINE k == n - (m + 1)
    <3>1. k \in 0..n /\ k + 1 = n - m /\ k + 1 \in 1..n /\ (k + 1) - 1 = k /\ m + 1 \in 0..n
      BY <1>1
    <3> HIDE DEF k
    <3>2. first # None => g[k + 1] \in Nat /\ g[k + 1] <= first
      BY <2>2, <3>1
    <3>3. g[k + 1] = QuestionEnd(p, g[k]) /\ g[k] \in Places
      BY <1>2, <1>4, <3>1
    <3>4. g[k + 1] # None => /\ g[k] \in Nat /\ SkipName(p, g[k]) \in Nat /\ g[k] < SkipName(p, g[k])
                             /\ g[k + 1] = SkipName(p, g[k]) + 4
      BY <3>3, QuestionEndIs
    <3>5. first \in Places
      BY <1>1, <1>2, <1>4
    <3>6. first # None => g[k] \in Nat /\ g[k] <= first
      BY <3>2, <3>4, <3>5 DEF None, Places
    <3> QED  BY <3>1, <3>6 DEF k
  <2> HIDE DEF Down
  <2> QED  BY <1>1, <2>1, <2>2, InductionUpTo
<1>6. ASSUME first # None, NEW k \in 0..n PROVE g[k] \in Nat /\ Header <= g[k] /\ g[k] <= first
  <2>1. n - k \in 0..n /\ n - (n - k) = k
    BY <1>1
  <2>2. g[k] \in Nat /\ g[k] <= first
    BY <1>5, <1>6, <2>1
  <2> QED  BY <1>4, <2>2 DEF None
<1>7. first \in Places
  BY <1>1, <1>2, <1>4
<1> QED  BY <1>6, <1>7 DEF n, first

\* Where the bytes of the questions stay, the records begin at the same place.
LEMMA FirstRecordSame ==
  ASSUME NEW p \in Packets, NEW q \in Packets, Len(q) = Len(p), Len(p) >= Header,
         FirstRecord(p) # None, Alike(p, q, 4, FirstRecord(p))
  PROVE  FirstRecord(q) = FirstRecord(p)
<1>1. PICK g : QuestionSteps(g, p)
  BY QuestionsAre
<1>2. PICK h : QuestionSteps(h, q)
  BY QuestionsAre
<1> DEFINE n == Questions(p)
           first == FirstRecord(p)
           S == {k \in 0..n : h[k] = g[k]}
<1>3. /\ first \in Nat /\ n \in Nat
      /\ \A k \in 0..n : g[k] \in Nat /\ Header <= g[k] /\ g[k] <= first
  <2>1. /\ first \in Places
        /\ first # None => \A k \in 0..n : g[k] \in Nat /\ Header <= g[k] /\ g[k] <= first
    BY <1>1, QuestionsInOrder
  <2>2. n \in Nat
    BY Counts
  <2> QED  BY <2>1, <2>2 DEF Places
<1>4. Header <= first
  BY <1>3 DEF Header
<1>5. \A from, to \in Nat : 4 <= from /\ to <= first => Alike(p, q, from, to)
  BY <1>3 DEF Alike
<1>6. Questions(q) = n
  <2>1. Alike(p, q, 4, 6) /\ 4 + 2 <= Len(p) /\ 4 + 2 = 6
    BY <1>3, <1>4, <1>5 DEF Header, Packets
  <2>2. Alike(p, q, 4, 4 + 2)
    BY <2>1
  <2>3. 4 \in Nat /\ 2 \in Nat
    OBVIOUS
  <2> QED  BY <2>1, <2>2, <2>3, NumberSame, Zenon DEF Questions
<1>7. /\ g[0] = Header /\ first = g[n]
      /\ \A k \in 1..n : g[k] = QuestionEnd(p, g[k - 1])
  BY <1>1 DEF QuestionSteps
<1>8. /\ h[0] = Header /\ FirstRecord(q) = h[n]
      /\ \A k \in 1..n : h[k] = QuestionEnd(q, h[k - 1])
  BY <1>2, <1>6 DEF QuestionSteps
<1> HIDE DEF n, first
<1>9. 0 \in S
  BY <1>3, <1>7, <1>8
<1>10. ASSUME NEW k \in 0..(n - 1), k \in S PROVE k + 1 \in S
  <2> DEFINE name == SkipName(p, g[k])
  <2>1. k + 1 \in 1..n /\ k + 1 \in 0..n /\ (k + 1) - 1 = k /\ k \in 0..n
    BY <1>3
  <2>2. g[k + 1] = QuestionEnd(p, g[k]) /\ h[k + 1] = QuestionEnd(q, g[k])
    BY <1>7, <1>8, <1>10, <2>1
  <2>3. /\ g[k] \in Nat /\ Header <= g[k] /\ g[k + 1] \in Nat /\ g[k + 1] <= first
        /\ g[k] \in Places
    BY <1>3, <2>1 DEF Places
  <2>4. name \in Nat /\ g[k] < name /\ g[k + 1] = name + 4
    BY <2>2, <2>3, QuestionEndIs DEF None
  <2> HIDE DEF name
  <2>5. Alike(p, q, g[k], name) /\ name # None
    BY <1>3, <1>5, <2>3, <2>4 DEF Header, None
  <2>6. SkipName(q, g[k]) = name
    BY <2>3, <2>5, SkipNameSame DEF name
  <2>7. QuestionEnd(q, g[k]) = QuestionEnd(p, g[k])
    BY <2>6, Zenon DEF QuestionEnd, name
  <2> QED  BY <2>1, <2>2, <2>7
<1>11. n \in Nat
  BY <1>3
<1> HIDE DEF S
<1>12. 0..n \subseteq S
  BY <1>9, <1>10, <1>11, InductionUpTo
<1>13. h[n] = g[n]
  BY <1>11, <1>12 DEF S
<1> QED  BY <1>7, <1>8, <1>13 DEF first

-------------------------------------------------------------------------------
\* resource_records: the records.

RecordSet == [start : Nat, kind : Nat, ttl : Nat, rdata : Nat, end : Nat, answer : BOOLEAN]
Accs      == [pos : Places, rrs : Seq(RecordSet)]

\* Where the record at a position ends, None if it does not fit, and the record.
RecordEnd(p, pos) ==
  LET name  == SkipName(p, pos)
      rdata == name + 10
      end   == rdata + Number(p, name + 8, 2)
  IN  IF pos = None \/ name = None \/ rdata > Len(p) \/ ~Fits(p, end) THEN None ELSE end

RecordAt(p, pos, answer) ==
  LET name == SkipName(p, pos)
  IN  [start |-> pos, kind |-> Number(p, name, 2), ttl |-> TtlAt(name), rdata |-> name + 10,
       end |-> name + 10 + Number(p, name + 8, 2), answer |-> answer]

\* A record that fits ends inside the packet, behind its name.
LEMMA RecordEndIs ==
  ASSUME NEW p \in Packets, NEW pos \in Places, NEW answer \in BOOLEAN
  PROVE  LET end  == RecordEnd(p, pos)
             name == SkipName(p, pos)
         IN  /\ end \in Places
             /\ end # None => /\ pos \in Nat /\ name \in Nat /\ pos < name
                              /\ Number(p, name + 8, 2) \in Nat
                              /\ end = name + 10 + Number(p, name + 8, 2) /\ end <= Len(p)
                              /\ RecordAt(p, pos, answer) \in RecordSet
<1> DEFINE name == SkipName(p, pos)
           end  == RecordEnd(p, pos)
           size == Number(p, name + 8, 2)
<1>1. Len(p) \in Nat
  BY DEF Packets
<1>2. pos # None => /\ pos \in Nat /\ name \in Nat \cup {None}
                    /\ name # None => pos < name
  BY SkipNameBounds DEF Places
<1>3. end = IF pos = None \/ name = None \/ name + 10 > Len(p) \/ ~Fits(p, name + 10 + size)
            THEN None ELSE name + 10 + size
  BY Zenon DEF RecordEnd
<1>4. RecordAt(p, pos, answer) =
        [start |-> pos, kind |-> Number(p, name, 2), ttl |-> TtlAt(name), rdata |-> name + 10,
         end |-> name + 10 + size, answer |-> answer]
  BY Zenon DEF RecordAt
<1>5. CASE pos = None \/ name = None \/ name + 10 > Len(p)
  <2>1. end = None
    BY <1>3, <1>5, Zenon
  <2> HIDE DEF end, name
  <2> QED  BY <2>1 DEF Places, end
<1>6. CASE ~(pos = None \/ name = None \/ name + 10 > Len(p))
  <2>1. pos \in Nat /\ name \in Nat /\ pos < name /\ name + 10 <= Len(p)
    BY <1>1, <1>2, <1>6
  <2> DEFINE kind == Number(p, name, 2)
  <2>2. size \in Nat /\ kind \in Nat
    <3>1. name + 8 \in Nat /\ 2 \in Nat /\ (name + 8) + 2 <= Len(p) /\ name + 2 <= Len(p)
      BY <1>1, <2>1
    <3> QED  BY <2>1, <3>1, NumberType, Zenon
  <2>3. end = IF ~Fits(p, name + 10 + size) THEN None ELSE name + 10 + size
    BY <1>3, <1>6, Zenon
  <2>4. RecordAt(p, pos, answer) =
          [start |-> pos, kind |-> kind, ttl |-> name + 4, rdata |-> name + 10,
           end |-> name + 10 + size, answer |-> answer]
    BY <1>4, Zenon DEF TtlAt
  <2> HIDE DEF name, size, end, kind
  <2>5. RecordAt(p, pos, answer) \in RecordSet
    BY <2>1, <2>2, <2>4 DEF RecordSet
  <2>6. end = IF name + 10 + size > Len(p) THEN None ELSE name + 10 + size
    BY <1>1, <2>1, <2>2, <2>3 DEF Fits
  <2>7. /\ end \in Places
        /\ end # None => /\ pos \in Nat /\ name \in Nat /\ pos < name
                         /\ size \in Nat
                         /\ end = name + 10 + size /\ end <= Len(p)
    BY <1>1, <2>1, <2>2, <2>6 DEF Places
  <2> QED  BY <2>5, <2>7, Zenon DEF name, size, end
<1> QED  BY <1>5, <1>6

\* One round of the loop over the records.
LEMMA ReadRecordIs ==
  ASSUME NEW p \in Packets, NEW acc \in Accs, NEW answer \in BOOLEAN
  PROVE  /\ ReadRecord(p, acc, answer) =
              IF RecordEnd(p, acc.pos) = None THEN [pos |-> None, rrs |-> acc.rrs]
              ELSE [pos |-> RecordEnd(p, acc.pos), rrs |-> Append(acc.rrs, RecordAt(p, acc.pos, answer))]
         /\ ReadRecord(p, acc, answer) \in Accs
<1> DEFINE pos  == acc.pos
           rrs  == acc.rrs
           name == SkipName(p, pos)
           end  == name + 10 + Number(p, name + 8, 2)
           fits == ~(pos = None \/ name = None \/ name + 10 > Len(p) \/ ~Fits(p, end))
           record == RecordAt(p, pos, answer)
<1>1. /\ pos \in Places /\ rrs \in Seq(RecordSet) /\ acc = [pos |-> pos, rrs |-> rrs]
      /\ [acc EXCEPT !.pos = None] = [pos |-> None, rrs |-> rrs]
  BY DEF Accs
<1>2. ReadRecord(p, acc, answer) =
        IF ~fits THEN [acc EXCEPT !.pos = None]
        ELSE [pos |-> end, rrs |-> Append(rrs, record)]
  BY Zenon DEF ReadRecord, RecordAt
<1>3. RecordEnd(p, pos) = IF ~fits THEN None ELSE end
  BY Zenon DEF RecordEnd
<1>4. /\ RecordEnd(p, pos) \in Places
      /\ RecordEnd(p, pos) # None => record \in RecordSet
  BY <1>1, RecordEndIs
<1>5. fits => RecordEnd(p, pos) # None
  <2>1. ASSUME fits PROVE end # None
    <3>1. pos \in Nat /\ name \in Nat /\ name + 10 <= Len(p)
      <4>1. pos # None /\ name # None /\ ~(name + 10 > Len(p))
        BY <2>1
      <4>2. pos \in Nat
        BY <1>1, <4>1 DEF Places
      <4>3. name \in Nat
        BY <4>1, <4>2, SkipNameBounds
      <4>4. Len(p) \in Nat
        BY DEF Packets
      <4> HIDE DEF name
      <4> QED  BY <4>1, <4>2, <4>3, <4>4
    <3>2. Number(p, name + 8, 2) \in Nat
      <4>1. name + 8 \in Nat /\ 2 \in Nat /\ (name + 8) + 2 <= Len(p)
        <5>1. Len(p) \in Nat
          BY DEF Packets
        <5> HIDE DEF name
        <5> QED  BY <3>1, <5>1
      <4> QED  BY <4>1, NumberType, Zenon
    <3> DEFINE size == Number(p, name + 8, 2)
    <3> HIDE DEF name, size
    <3>3. name + 10 + size # None
      BY <3>1, <3>2 DEF None, size
    <3> QED  BY <3>3 DEF size
  <2> QED  BY <1>3, <2>1
<1> HIDE DEF fits, end, name, record
<1>6. ReadRecord(p, acc, answer) =
        IF RecordEnd(p, pos) = None THEN [pos |-> None, rrs |-> rrs]
        ELSE [pos |-> RecordEnd(p, pos), rrs |-> Append(rrs, record)]
  BY <1>1, <1>2, <1>3, <1>5
<1>7. ReadRecord(p, acc, answer) \in Accs
  <2> HIDE DEF pos, rrs
  <2>1. CASE RecordEnd(p, pos) = None
    BY <1>1, <1>6, <2>1 DEF Accs, Places
  <2>2. CASE RecordEnd(p, pos) # None
    <3>1. Append(rrs, record) \in Seq(RecordSet)
      BY <1>1, <1>4, <2>2
    <3> QED  BY <1>4, <1>6, <2>2, <3>1 DEF Accs
  <2> QED  BY <2>1, <2>2
<1> QED  BY <1>6, <1>7, Zenon DEF record

AnswerCount(p) == Number(p, 6, 2)
Total(p)       == AnswerCount(p) + Number(p, 8, 2) + Number(p, 10, 2)

RecordSteps(g, p) ==
  /\ g[0] = [pos |-> FirstRecord(p), rrs |-> <<>>]
  /\ \A k \in 1..Total(p) : g[k] = ReadRecord(p, g[k - 1], k <= AnswerCount(p))
  /\ ResourceRecords(p) = g[Total(p)]

\* The loop over the records goes through the states g[0], g[1], ...
LEMMA RecordsAre ==
  ASSUME NEW p \in Packets, Len(p) >= Header
  PROVE  \E g : RecordSteps(g, p)
<1> DEFINE n     == Total(p)
           m     == AnswerCount(p)
           seq   == [i \in 1..n |-> i]
           base  == [pos |-> FirstRecord(p), rrs |-> <<>>]
           Solves(h) == h = [s \in SUBSET (1..n) |->
                               IF s = {} THEN base ELSE ReadRecord(p, h[s \ {Max(s)}], seq[Max(s)] <= m)]
           it == CHOOSE h : Solves(h)
           g  == [k \in 0..n |-> it[1..k]]
<1>1. n \in Nat /\ m \in Nat
  BY Counts DEF Total, AnswerCount
<1>2. base \in Accs
  <2>1. PICK q : QuestionSteps(q, p)
    BY QuestionsAre
  <2>2. FirstRecord(p) \in Places
    BY <2>1, QuestionsInOrder
  <2> QED  BY <2>2 DEF Accs
<1> HIDE DEF n, m, base
<1>3. \E h : Solves(h)
  <2> DEFINE step == [q \in (1..n) \X Accs |-> ReadRecord(p, q[2], q[1] <= m)]
  <2>1. step \in [(1..n) \X Accs -> Accs]
    <3>1. ASSUME NEW q \in (1..n) \X Accs PROVE ReadRecord(p, q[2], q[1] <= m) \in Accs
      <4>1. q[2] \in Accs /\ (q[1] <= m) \in BOOLEAN
        OBVIOUS
      <4> QED  BY <4>1, ReadRecordIs, Zenon
    <3> QED  BY <3>1
  <2>2. PICK h : FoldOf(h, n, Accs, base, step)
    <3> HIDE DEF step
    <3> QED  BY <1>1, <1>2, <2>1, FoldExists
  <2>3. ASSUME NEW s \in SUBSET (1..n), s # {}
        PROVE  step[<<Max(s), h[s \ {Max(s)}]>>] = ReadRecord(p, h[s \ {Max(s)}], seq[Max(s)] <= m)
    <3>1. Max(s) \in 1..n
      BY <1>1, <2>3, MaxOf
    <3>2. h[s \ {Max(s)}] \in Accs
      BY <2>2 DEF FoldOf
    <3>3. seq[Max(s)] = Max(s)
      BY <3>1
    <3>4. step[<<Max(s), h[s \ {Max(s)}]>>] = ReadRecord(p, h[s \ {Max(s)}], Max(s) <= m)
      BY <3>1, <3>2
    <3> QED  BY <3>3, <3>4, Zenon
  <2> HIDE DEF step, seq
  <2>4. h = [s \in SUBSET (1..n) |->
               IF s = {} THEN base ELSE ReadRecord(p, h[s \ {Max(s)}], seq[Max(s)] <= m)]
    BY <2>2, <2>3 DEF FoldOf
  <2> QED  BY <2>4
<1>4. Solves(it)
  BY <1>3
<1>5. ResourceRecords(p) = it[1..n]
  <2>1. DOMAIN seq = 1..n
    OBVIOUS
  <2>2. ResourceRecords(p) =
          FoldLeft(LAMBDA acc, i : ReadRecord(p, acc, i <= m), base, seq)
    <3>1. ~(Len(p) < Header)
      BY DEF Packets, Header
    <3> QED  BY <3>1, Zenon DEF ResourceRecords, FirstRecord, n, m, base, Total, AnswerCount
  <2>3. ResourceRecords(p) = it[DOMAIN seq]
    BY <2>1, <2>2, Zenon DEF FoldLeft, MapThenFoldSet
  <2> QED  BY <2>1, <2>3
<1>6. it[{}] = base
  <2> HIDE DEF it
  <2>1. {} \in SUBSET (1..n)
    OBVIOUS
  <2> QED  BY <1>4, <2>1
<1>7. ASSUME NEW k \in 1..n PROVE it[1..k] = ReadRecord(p, it[1..(k - 1)], k <= m)
  <2>1. /\ 1..k \in SUBSET (1..n) /\ 1..k # {}
        /\ Max(1..k) = k /\ (1..k) \ {k} = 1..(k - 1)
    BY <1>1, Segment
  <2>2. seq[Max(1..k)] = k
    BY <2>1
  <2> HIDE DEF it, seq
  <2>3. it[1..k] = ReadRecord(p, it[(1..k) \ {Max(1..k)}], seq[Max(1..k)] <= m)
    BY <1>4, <2>1
  <2> QED  BY <2>1, <2>2, <2>3, Zenon
<1> HIDE DEF it
<1>8. g[0] = base /\ g[n] = it[1..n] /\ \A k \in 1..n : g[k] = it[1..k] /\ g[k - 1] = it[1..(k - 1)]
  <2>1. 1..0 = {}
    OBVIOUS
  <2> QED  BY <1>1, <1>6, <2>1
<1> HIDE DEF g
<1>9. ResourceRecords(p) = g[n]
  BY <1>5, <1>8, Zenon
<1>10. ASSUME NEW k \in 1..n PROVE g[k] = ReadRecord(p, g[k - 1], k <= m)
  BY <1>7, <1>8, Zenon
<1> QED  BY <1>8, <1>9, <1>10, Zenon DEF RecordSteps, n, m, base

\* When the records parse: where each begins, the first where the questions end.
PlacesOf(at, p) ==
  /\ at \in [0..Total(p) -> Nat]
  /\ at[0] = FirstRecord(p) /\ Header <= at[0]
  /\ \A k \in 1..Total(p) : at[k] = RecordEnd(p, at[k - 1]) /\ at[k - 1] < at[k]
  /\ RecordsOf(p) \in Seq(RecordSet) /\ Len(RecordsOf(p)) = Total(p)
  /\ \A k \in 1..Total(p) : RecordsOf(p)[k] = RecordAt(p, at[k - 1], k <= AnswerCount(p))

\* The records it returns are those at these places.
LEMMA RecordsPlaced ==
  ASSUME NEW p \in Packets, Len(p) >= Header, Parses(p), NEW g, RecordSteps(g, p)
  PROVE  /\ PlacesOf([k \in 0..Total(p) |-> g[k].pos], p)
         /\ \A k \in 0..Total(p) : g[k] \in Accs
<1> DEFINE n == Total(p)
           m == AnswerCount(p)
           InPlace(k) == /\ g[k].pos \in Nat /\ Len(g[k].rrs) = k
                         /\ \A i \in 1..k : /\ g[i - 1].pos \in Nat /\ g[i].pos \in Nat
                                            /\ g[i].pos = RecordEnd(p, g[i - 1].pos)
                                            /\ g[i - 1].pos < g[i].pos
                                            /\ g[k].rrs[i] = RecordAt(p, g[i - 1].pos, i <= m)
           S == {k \in 0..n : g[k] \in Accs /\ (g[k].pos # None => InPlace(k))}
<1>1. n \in Nat /\ m \in Nat
  BY Counts DEF Total, AnswerCount
<1>2. PICK h : QuestionSteps(h, p)
  BY QuestionsAre
<1>3. /\ FirstRecord(p) \in Places
      /\ FirstRecord(p) # None => FirstRecord(p) \in Nat /\ Header <= FirstRecord(p)
  <2>1. Questions(p) \in Nat
    BY Counts
  <2>2. /\ FirstRecord(p) \in Places
        /\ FirstRecord(p) # None =>
             \A k \in 0..Questions(p) : h[k] \in Nat /\ Header <= h[k] /\ h[k] <= FirstRecord(p)
    BY <1>2, QuestionsInOrder
  <2>3. FirstRecord(p) = h[Questions(p)] /\ Questions(p) \in 0..Questions(p)
    BY <1>2, <2>1 DEF QuestionSteps
  <2> QED  BY <2>2, <2>3
<1>4. /\ g[0] = [pos |-> FirstRecord(p), rrs |-> <<>>]
      /\ \A k \in 1..n : g[k] = ReadRecord(p, g[k - 1], k <= m)
      /\ ResourceRecords(p) = g[n]
  BY DEF RecordSteps
<1> HIDE DEF n, m
<1>5. 0 \in S
  <2>1. g[0] \in Accs /\ g[0].pos = FirstRecord(p) /\ Len(g[0].rrs) = 0
    BY <1>3, <1>4 DEF Accs
  <2>2. 1..0 = {}
    OBVIOUS
  <2>3. g[0].pos # None => g[0].pos \in Nat
    BY <1>3, <2>1
  <2> QED  BY <1>1, <2>1, <2>2, <2>3
<1>6. ASSUME NEW k \in 0..(n - 1), k \in S PROVE k + 1 \in S
  <2> DEFINE acc == g[k]
             end == RecordEnd(p, acc.pos)
             record == RecordAt(p, acc.pos, k + 1 <= m)
  <2>1. /\ k + 1 \in 1..n /\ k + 1 \in 0..n /\ (k + 1) - 1 = k /\ (k + 1 <= m) \in BOOLEAN
        /\ acc \in Accs /\ (acc.pos # None => InPlace(k)) /\ acc.pos \in Places
        /\ acc.rrs \in Seq(RecordSet)
    BY <1>1, <1>6 DEF Accs
  <2>2. g[k + 1] = ReadRecord(p, acc, k + 1 <= m)
    BY <1>4, <2>1
  <2>3. /\ g[k + 1] = IF end = None THEN [pos |-> None, rrs |-> acc.rrs]
                      ELSE [pos |-> end, rrs |-> Append(acc.rrs, record)]
        /\ g[k + 1] \in Accs
    <3>1. acc \in Accs /\ (k + 1 <= m) \in BOOLEAN
      BY <2>1
    <3> HIDE DEF acc
    <3>2. /\ ReadRecord(p, acc, k + 1 <= m) =
               IF end = None THEN [pos |-> None, rrs |-> acc.rrs]
               ELSE [pos |-> end, rrs |-> Append(acc.rrs, record)]
          /\ ReadRecord(p, acc, k + 1 <= m) \in Accs
      BY <3>1, ReadRecordIs, Zenon
    <3> QED  BY <2>2, <3>2, Zenon
  <2>4. end # None => /\ acc.pos \in Nat /\ end \in Nat /\ acc.pos < end /\ record \in RecordSet
    <3> DEFINE name == SkipName(p, acc.pos)
               size == Number(p, name + 8, 2)
    <3>1. end # None => /\ acc.pos \in Nat /\ name \in Nat /\ acc.pos < name /\ size \in Nat
                        /\ end = name + 10 + size /\ record \in RecordSet
      BY <2>1, RecordEndIs
    <3> HIDE DEF name, size, end, acc, record
    <3> QED  BY <3>1
  <2>5. ASSUME g[k + 1].pos # None PROVE InPlace(k + 1)
    <3>1. end # None
      BY <2>3, <2>5
    <3>2. /\ g[k + 1] = [pos |-> end, rrs |-> Append(acc.rrs, record)]
          /\ acc.pos \in Nat /\ end \in Nat /\ acc.pos < end /\ record \in RecordSet
      BY <2>3, <2>4, <3>1
    <3>3. acc.pos # None
      BY <3>2 DEF None
    <3>4. InPlace(k)
      BY <2>1, <3>3
    <3>5. /\ g[k + 1].pos = end /\ g[k + 1].rrs = Append(acc.rrs, record)
      BY <3>2
    <3>6. /\ Len(g[k + 1].rrs) = k + 1 /\ g[k + 1].rrs[k + 1] = record
          /\ \A i \in 1..k : g[k + 1].rrs[i] = acc.rrs[i]
      BY <2>1, <3>2, <3>4, <3>5
    <3>7. ASSUME NEW i \in 1..(k + 1)
          PROVE  /\ g[i - 1].pos \in Nat /\ g[i].pos \in Nat
                 /\ g[i].pos = RecordEnd(p, g[i - 1].pos)
                 /\ g[i - 1].pos < g[i].pos
                 /\ g[k + 1].rrs[i] = RecordAt(p, g[i - 1].pos, i <= m)
      <4>1. CASE i = k + 1
        <5>1. g[i] = g[k + 1] /\ g[i - 1] = acc
          BY <2>1, <4>1
        <5> HIDE DEF acc
        <5> QED  BY <3>2, <3>5, <3>6, <4>1, <5>1
      <4>2. CASE i \in 1..k
        BY <3>4, <3>6, <4>2
      <4>3. i = k + 1 \/ i \in 1..k
        BY <2>1
      <4> QED  BY <4>1, <4>2, <4>3
    <3> HIDE DEF acc, end, record
    <3> QED  BY <3>2, <3>5, <3>6, <3>7
  <2> HIDE DEF InPlace
  <2> QED  BY <2>1, <2>3, <2>5
<1>7. n \in Nat
  BY <1>1
<1>8. ASSUME NEW k \in 0..n PROVE k \in S
  <2> HIDE DEF S
  <2>1. 0..n \subseteq S
    BY <1>5, <1>6, <1>7, InductionUpTo
  <2> QED  BY <2>1
<1>9. /\ g[n] \in Accs /\ g[n].pos # None
      /\ RecordsOf(p) = g[n].rrs
  <2>1. n \in 0..n
    BY <1>1
  <2> QED  BY <1>4, <1>8, <2>1 DEF Parses, RecordsOf
<1>10. InPlace(n)
  <2>1. n \in 0..n
    BY <1>1
  <2> QED  BY <1>8, <1>9, <2>1
<1> DEFINE at == [k \in 0..n |-> g[k].pos]
<1>11. at \in [0..n -> Nat]
  <2>1. ASSUME NEW k \in 0..n PROVE g[k].pos \in Nat
    <3>1. k = n \/ (k + 1 \in 1..n /\ (k + 1) - 1 = k)
      BY <1>1
    <3> QED  BY <1>10, <3>1
  <2> QED  BY <2>1
<1>12. at[0] = FirstRecord(p) /\ Header <= at[0]
  <2>1. 0 \in 0..n /\ at[0] = g[0].pos
    BY <1>1
  <2>2. at[0] = FirstRecord(p) /\ at[0] \in Nat
    BY <1>4, <1>11, <2>1
  <2>3. FirstRecord(p) # None
    BY <2>2 DEF None
  <2> QED  BY <1>3, <2>2, <2>3
<1>13. ASSUME NEW k \in 1..n
       PROVE  /\ at[k] = RecordEnd(p, at[k - 1]) /\ at[k - 1] < at[k]
              /\ RecordsOf(p)[k] = RecordAt(p, at[k - 1], k <= m)
  <2>1. at[k] = g[k].pos /\ at[k - 1] = g[k - 1].pos
    BY <1>1
  <2> HIDE DEF at
  <2> QED  BY <1>9, <1>10, <2>1
<1>14. RecordsOf(p) \in Seq(RecordSet) /\ Len(RecordsOf(p)) = n
  BY <1>9, <1>10 DEF Accs
<1>15. \A k \in 0..n : g[k] \in Accs
  BY <1>8
<1>16. PlacesOf(at, p)
  <2> HIDE DEF at
  <2> QED  BY <1>11, <1>12, <1>13, <1>14 DEF PlacesOf, n, m
<1> QED  BY <1>15, <1>16 DEF n

\* Each record begins where the one before it ended, or behind.
LEMMA RecordsInOrder ==
  ASSUME NEW p \in Packets, Len(p) >= Header, NEW at, PlacesOf(at, p),
         NEW i \in 0..Total(p), NEW j \in 0..Total(p), i <= j
  PROVE  at[i] <= at[j]
<1> DEFINE n == Total(p)
           m == n - i
           S == {k \in 0..m : at[i] <= at[i + k]}
<1>1. n \in Nat /\ i \in Nat /\ m \in Nat /\ j - i \in 0..m /\ i + (j - i) = j
  BY Counts DEF Total, AnswerCount
<1>2. at \in [0..n -> Nat] /\ \A k \in 1..n : at[k - 1] < at[k]
  BY DEF PlacesOf
<1> HIDE DEF n
<1>3. 0 \in S
  BY <1>1, <1>2
<1>4. ASSUME NEW k \in 0..(m - 1), k \in S PROVE k + 1 \in S
  <2>1. i + (k + 1) \in 1..n /\ i + (k + 1) - 1 = i + k /\ k + 1 \in 0..m /\ i \in 0..n /\ i + k \in 0..n
    BY <1>1
  <2>2. at[i + k] < at[i + (k + 1)] /\ at[i] <= at[i + k]
    BY <1>2, <1>4, <2>1
  <2>3. at[i] \in Nat /\ at[i + k] \in Nat /\ at[i + (k + 1)] \in Nat
    BY <1>2, <2>1
  <2> QED  BY <2>1, <2>2, <2>3
<1>5. m \in Nat /\ j - i \in 0..m
  BY <1>1
<1> HIDE DEF S, m
<1>6. 0..m \subseteq S
  BY <1>3, <1>4, <1>5, InductionUpTo
<1>7. j - i \in S
  BY <1>5, <1>6
<1> QED  BY <1>1, <1>7 DEF S

\* What is alike is alike in every part.
LEMMA AlikeWithin ==
  ASSUME NEW p, NEW q, NEW from \in Int, NEW to \in Int, NEW a \in Int, NEW b \in Int,
         from <= a, b <= to, Alike(p, q, from, to)
  PROVE  Alike(p, q, a, b)
<1>1. \A i \in a..(b - 1) : i \in from..(to - 1)
  OBVIOUS
<1> QED  BY <1>1, Zenon DEF Alike

\* A record stays the same where its name, its type, its class and its length do.
LEMMA RecordSame ==
  ASSUME NEW p \in Packets, NEW q \in Packets, Len(q) = Len(p), NEW pos \in Nat, RecordEnd(p, pos) # None,
         Alike(p, q, pos, SkipName(p, pos) + 4),
         Alike(p, q, SkipName(p, pos) + 8, SkipName(p, pos) + 10),
         NEW answer \in BOOLEAN
  PROVE  RecordEnd(q, pos) = RecordEnd(p, pos) /\ RecordAt(q, pos, answer) = RecordAt(p, pos, answer)
<1> DEFINE name == SkipName(p, pos)
<1>1. /\ name \in Nat /\ pos < name /\ Len(p) \in Nat
      /\ RecordEnd(p, pos) = name + 10 + Number(p, name + 8, 2) /\ RecordEnd(p, pos) <= Len(p)
      /\ Number(p, name + 8, 2) \in Nat
  <2>1. pos \in Places
    BY DEF Places
  <2>2. Len(p) \in Nat
    BY DEF Packets
  <2> QED  BY <2>1, <2>2, RecordEndIs
<1>2. name # None /\ Alike(p, q, pos, name) /\ Alike(p, q, name, name + 2) /\ name + 2 <= Len(p)
      /\ name + 10 <= Len(p) /\ (name + 8) + 2 = name + 10 /\ name + 8 \in Nat
  <2> DEFINE size == Number(p, name + 8, 2)
  <2> HIDE DEF name, size
  <2>1. name # None /\ name + 10 <= Len(p) /\ name + 2 <= Len(p) /\ (name + 8) + 2 = name + 10 /\ name + 8 \in Nat
    BY <1>1 DEF size, None
  <2>4. Alike(p, q, pos, name + 4)
    BY DEF name
  <2>5. name \in Int /\ name + 4 \in Int /\ name + 2 \in Int /\ pos \in Int /\ pos <= pos /\ pos <= name
        /\ name <= name + 4 /\ name + 2 <= name + 4
    BY <1>1
  <2>6. Alike(p, q, pos, name) 
    BY <2>4, <2>5, AlikeWithin
  <2>7. Alike(p, q, name, name + 2)
    BY <2>4, <2>5, AlikeWithin
  <2> QED  BY <2>1, <2>6, <2>7
<1>3. SkipName(q, pos) = name
  BY <1>2, SkipNameSame
<1> HIDE DEF name
<1>4. Number(q, name, 2) = Number(p, name, 2)
  <2>1. 2 \in Nat
    OBVIOUS
  <2> QED  BY <1>1, <1>2, <2>1, NumberSame, Zenon
<1>5. Number(q, name + 8, 2) = Number(p, name + 8, 2)
  <2>1. Alike(p, q, name + 8, (name + 8) + 2) /\ (name + 8) + 2 <= Len(p) /\ 2 \in Nat /\ name + 8 \in Nat
    BY <1>2 DEF name
  <2> QED  BY <2>1, NumberSame, Zenon
<1>6. SkipName(q, pos) = SkipName(p, pos)
  BY <1>3 DEF name
<1>7. Number(q, SkipName(p, pos), 2) = Number(p, SkipName(p, pos), 2)
  BY <1>4 DEF name
<1>8. Number(q, SkipName(p, pos) + 8, 2) = Number(p, SkipName(p, pos) + 8, 2)
  BY <1>5 DEF name
<1>9. RecordEnd(q, pos) = RecordEnd(p, pos)
  <2>1. \A e : Fits(q, e) <=> Fits(p, e)
    BY Zenon DEF Fits
  <2> QED  BY <1>6, <1>8, <2>1, Zenon DEF RecordEnd
<1>10. RecordAt(q, pos, answer) = RecordAt(p, pos, answer)
  BY <1>6, <1>7, <1>8, Zenon DEF RecordAt
<1> QED  BY <1>9, <1>10

\* The bytes of a packet that its layout rests on.
SameLayout(p, q) ==
  /\ Len(q) = Len(p)
  /\ Alike(p, q, 4, FirstRecord(p))
  /\ \A rr \in Range(RecordsOf(p)) : Alike(p, q, rr.start, rr.ttl) /\ Alike(p, q, rr.ttl + 4, rr.rdata)

\* Where they stay, the records do.
LEMMA RecordsSame ==
  ASSUME NEW p \in Packets, NEW q \in Packets, Len(p) >= Header, Parses(p), SameLayout(p, q)
  PROVE  ResourceRecords(q) = ResourceRecords(p)
<1>1. PICK g : RecordSteps(g, p)
  BY RecordsAre
<1>2. Len(q) = Len(p)
  BY DEF SameLayout
<1>3. PICK h : RecordSteps(h, q)
  <2>1. Len(q) >= Header
    BY <1>2
  <2> QED  BY <2>1, RecordsAre, Zenon
<1> DEFINE n  == Total(p)
           m  == AnswerCount(p)
           at == [k \in 0..n |-> g[k].pos]
           S  == {k \in 0..n : h[k] = g[k]}
<1>4. PlacesOf(at, p) /\ \A k \in 0..n : g[k] \in Accs
  BY <1>1, RecordsPlaced
<1>5. n \in Nat /\ m \in Nat
  BY Counts DEF Total, AnswerCount
<1>6. at \in [0..n -> Nat] /\ at[0] = FirstRecord(p) /\ Header <= at[0]
  BY <1>4 DEF PlacesOf
<1>7. FirstRecord(p) \in Nat /\ Header <= FirstRecord(p) /\ FirstRecord(p) # None
  BY <1>5, <1>6 DEF None
<1>8. FirstRecord(q) = FirstRecord(p)
  BY <1>2, <1>7, FirstRecordSame DEF SameLayout
<1>9. Total(q) = n /\ AnswerCount(q) = m
  <2>1. ASSUME NEW pos \in {6, 8, 10} PROVE Number(q, pos, 2) = Number(p, pos, 2)
    <3>1. Len(p) \in Nat
      BY DEF Packets
    <3>2. pos \in Nat /\ 2 \in Nat /\ pos + 2 <= Len(p)
      BY <3>1 DEF Header
    <3>3. \A i \in pos..(pos + 2 - 1) : i \in 4..(FirstRecord(p) - 1)
      BY <1>7 DEF Header
    <3>4. Alike(p, q, pos, pos + 2)
      BY <3>3 DEF SameLayout, Alike
    <3> QED  BY <1>2, <3>2, <3>4, NumberSame, Zenon
  <2> QED  BY <2>1 DEF Total, AnswerCount
<1>10. /\ g[0] = [pos |-> FirstRecord(p), rrs |-> <<>>]
       /\ \A k \in 1..n : g[k] = ReadRecord(p, g[k - 1], k <= m)
       /\ ResourceRecords(p) = g[n]
  BY <1>1 DEF RecordSteps
<1>11. /\ h[0] = [pos |-> FirstRecord(p), rrs |-> <<>>]
       /\ \A k \in 1..n : h[k] = ReadRecord(q, h[k - 1], k <= m)
       /\ ResourceRecords(q) = h[n]
  BY <1>3, <1>8, <1>9 DEF RecordSteps
<1>12. \A k \in 0..n : at[k] = g[k].pos
  OBVIOUS
<1> HIDE DEF n, m, at
<1>13. 0 \in S
  BY <1>5, <1>10, <1>11
<1>14. ASSUME NEW k \in 0..(n - 1), k \in S PROVE k + 1 \in S
  <2> DEFINE pos    == at[k]
             answer == k + 1 <= m
             name   == SkipName(p, pos)
             record == RecordAt(p, pos, answer)
  <2>1. k + 1 \in 1..n /\ k + 1 \in 0..n /\ (k + 1) - 1 = k /\ k \in 0..n /\ answer \in BOOLEAN
    BY <1>5
  <2>2. pos = g[k].pos /\ pos \in Nat /\ pos \in Places /\ at[k + 1] \in Nat /\ g[k] \in Accs
    BY <1>4, <1>6, <1>12, <2>1 DEF Places
  <2>3. at[k + 1] = RecordEnd(p, pos) /\ RecordsOf(p)[k + 1] = record
    BY <1>4, <2>1 DEF PlacesOf, n, m
  <2>4. RecordEnd(p, pos) # None
    BY <2>2, <2>3 DEF None
  <2>5. record \in Range(RecordsOf(p))
    <3>1. k + 1 \in DOMAIN RecordsOf(p)
      BY <1>4, <2>1 DEF PlacesOf, n
    <3> HIDE DEF record
    <3> QED  BY <2>3, <3>1 DEF Range
  <2>6. record.start = pos /\ record.ttl = name + 4 /\ record.rdata = name + 10
    BY DEF RecordAt, TtlAt
  <2>7. name \in Nat
    BY <2>2, <2>4, RecordEndIs
  <2>8. Alike(p, q, pos, name + 4) /\ Alike(p, q, name + 8, name + 10)
    <3>1. Alike(p, q, record.start, record.ttl) /\ Alike(p, q, record.ttl + 4, record.rdata)
      BY <2>5 DEF SameLayout
    <3> HIDE DEF name, record
    <3>2. (name + 4) + 4 = name + 8
      BY <2>7
    <3> QED  BY <2>6, <3>1, <3>2, Zenon
  <2>9. RecordEnd(q, pos) = RecordEnd(p, pos) /\ RecordAt(q, pos, answer) = record
    <3> HIDE DEF pos, answer
    <3> QED  BY <1>2, <2>1, <2>2, <2>4, <2>8, RecordSame
  <2>10. ReadRecord(q, g[k], answer) = ReadRecord(p, g[k], answer)
    <3>1. /\ RecordEnd(q, g[k].pos) = RecordEnd(p, g[k].pos)
          /\ RecordAt(q, g[k].pos, answer) = RecordAt(p, g[k].pos, answer)
      BY <2>2, <2>9, Zenon
    <3>2. /\ ReadRecord(p, g[k], answer) =
               IF RecordEnd(p, g[k].pos) = None THEN [pos |-> None, rrs |-> g[k].rrs]
               ELSE [pos |-> RecordEnd(p, g[k].pos),
                     rrs |-> Append(g[k].rrs, RecordAt(p, g[k].pos, answer))]
          /\ ReadRecord(q, g[k], answer) =
               IF RecordEnd(q, g[k].pos) = None THEN [pos |-> None, rrs |-> g[k].rrs]
               ELSE [pos |-> RecordEnd(q, g[k].pos),
                     rrs |-> Append(g[k].rrs, RecordAt(q, g[k].pos, answer))]
      <4> HIDE DEF answer
      <4> QED  BY <2>1, <2>2, ReadRecordIs, Zenon
    <3> HIDE DEF answer, pos, name, record
    <3> QED  BY <3>1, <3>2
  <2>11. h[k] = g[k]
    BY <1>14
  <2> QED  BY <1>10, <1>11, <2>1, <2>10, <2>11
<1> HIDE DEF S
<1>15. 0..n \subseteq S
  BY <1>5, <1>13, <1>14, InductionUpTo
<1>16. h[n] = g[n]
  BY <1>5, <1>15 DEF S
<1> QED  BY <1>10, <1>11, <1>16

-------------------------------------------------------------------------------
\* svcb_hint_changes.

\* Its loop over the labels of the target name, where f is what it comes to behind.
TargetBody(p, end, f, pos) ==
  LET n == At(p, pos)
  IN  IF pos >= end \/ n > 63 THEN None
      ELSE IF n = 0 THEN pos + 1
      ELSE IF pos + 1 + n > end THEN None ELSE f[pos + 1 + n]

TargetIs(f, p, end) == f = [pos \in Nat |-> TargetBody(p, end, f, pos)]

TargetOn(p, end, pos) == pos < end /\ At(p, pos) \in 1..63 /\ pos + 1 + At(p, pos) <= end

TargetEnd(p, end, pos) == IF pos < end /\ At(p, pos) = 0 THEN pos + 1 ELSE None

\* The loop goes on behind a label, and otherwise stops.
LEMMA TargetBodyIs ==
  ASSUME NEW p \in Packets, NEW end \in Nat, end <= Len(p), NEW f, NEW pos \in Nat
  PROVE  /\ TargetBody(p, end, f, pos) =
              IF TargetOn(p, end, pos) THEN f[pos + 1 + At(p, pos)] ELSE TargetEnd(p, end, pos)
         /\ TargetOn(p, end, pos) => /\ pos < end /\ pos + 1 + At(p, pos) \in Nat
                                     /\ pos + 1 + At(p, pos) > pos
<1> DEFINE n == At(p, pos)
           on == f[pos + 1 + n]
<1>1. Len(p) \in Nat
  BY DEF Packets
<1>2. CASE pos >= end
  BY <1>2 DEF TargetBody, TargetOn, TargetEnd
<1>3. CASE pos < end
  <2>1. n \in Nat
    BY <1>1, <1>3, ByteAt
  <2> HIDE DEF n, on
  <2>2. TargetBody(p, end, f, pos) =
          IF n > 63 THEN None ELSE IF n = 0 THEN pos + 1 ELSE IF pos + 1 + n > end THEN None ELSE on
    BY <1>3 DEF TargetBody, n, on
  <2>3. TargetOn(p, end, pos) <=> n \in 1..63 /\ pos + 1 + n <= end
    BY <1>3, Zenon DEF TargetOn, n
  <2>4. TargetEnd(p, end, pos) = IF n = 0 THEN pos + 1 ELSE None
    BY <1>3, Zenon DEF TargetEnd, n
  <2>5. TargetBody(p, end, f, pos) = IF n \in 1..63 /\ pos + 1 + n <= end THEN on ELSE TargetEnd(p, end, pos)
    BY <2>1, <2>2, <2>4
  <2>6. pos + 1 + n \in Nat /\ pos + 1 + n > pos
    BY <2>1
  <2>7. TargetBody(p, end, f, pos) = IF TargetOn(p, end, pos) THEN on ELSE TargetEnd(p, end, pos)
    BY <2>3, <2>5, Zenon
  <2> QED  BY <1>3, <2>6, <2>7 DEF n, on
<1> QED  BY <1>2, <1>3

\* It has a solution, and what it returns lies behind its start.
LEMMA TargetExists ==
  ASSUME NEW p \in Packets, NEW end \in Nat, end <= Len(p)
  PROVE  \E f : TargetIs(f, p, end)
<1> DEFINE goes == {pos \in Nat : TargetOn(p, end, pos)}
           next == [pos \in Nat |-> IF TargetOn(p, end, pos) THEN pos + 1 + At(p, pos) ELSE pos + 1]
           base == [pos \in Nat |-> TargetEnd(p, end, pos)]
           step == [x \in Nat \X Places |-> x[2]]
<1>1. \A pos \in Nat : TargetOn(p, end, pos) => /\ pos < end /\ pos + 1 + At(p, pos) \in Nat
                                                /\ pos + 1 + At(p, pos) > pos
  BY TargetBodyIs
<1>2. next \in [Nat -> Nat]
  BY <1>1
<1>3. base \in [Nat -> Places]
  BY DEF TargetEnd, Places
<1>4. step \in [Nat \X Places -> Places]
  OBVIOUS
<1>5. goes \in SUBSET Nat /\ \A pos \in goes : pos < end /\ next[pos] > pos
  BY <1>1
<1>6. PICK f : Jumps(f, Places, base, next, step, goes)
  <2> HIDE DEF step, base, next, goes
  <2> QED  BY <1>2, <1>3, <1>4, <1>5, JumpExists
<1>7. ASSUME NEW pos \in Nat PROVE f[pos] = TargetBody(p, end, f, pos)
  <2>1. CASE TargetOn(p, end, pos)
    <3>1. next[pos] = pos + 1 + At(p, pos) /\ next[pos] \in Nat /\ f[next[pos]] \in Places
      BY <1>2, <1>6, <2>1 DEF Jumps
    <3>2. step[<<pos, f[next[pos]]>>] = f[next[pos]]
      BY <3>1
    <3>3. f[pos] = f[next[pos]]
      BY <1>6, <2>1, <3>2 DEF Jumps
    <3> HIDE DEF next
    <3> QED  BY <2>1, <3>1, <3>3, TargetBodyIs
  <2>2. CASE ~TargetOn(p, end, pos)
    <3>1. f[pos] = TargetEnd(p, end, pos)
      BY <1>6, <2>2 DEF Jumps
    <3> QED  BY <2>2, <3>1, TargetBodyIs
  <2> QED  BY <2>1, <2>2
<1>8. f = [pos \in Nat |-> TargetBody(p, end, f, pos)]
  BY <1>6, <1>7 DEF Jumps
<1> QED  BY <1>8 DEF TargetIs

LEMMA TargetBounds ==
  ASSUME NEW p \in Packets, NEW end \in Nat, end <= Len(p), NEW f, TargetIs(f, p, end), NEW start \in Nat
  PROVE  f[start] \in Places /\ (f[start] # None => start < f[start])
<1> DEFINE Good(pos) == f[pos] \in Places /\ (f[pos] # None => pos < f[pos])
           S == {pos \in Nat : Good(pos)}
<1>1. ASSUME NEW pos \in Nat
      PROVE  /\ f[pos] = IF TargetOn(p, end, pos) THEN f[pos + 1 + At(p, pos)] ELSE TargetEnd(p, end, pos)
             /\ TargetOn(p, end, pos) => /\ pos < end /\ pos + 1 + At(p, pos) \in Nat
                                         /\ pos + 1 + At(p, pos) > pos
  <2>1. f[pos] = TargetBody(p, end, f, pos)
    BY DEF TargetIs
  <2> QED  BY <2>1, TargetBodyIs
<1>2. ASSUME NEW pos \in Nat, ~TargetOn(p, end, pos) PROVE pos \in S
  BY <1>1, <1>2 DEF TargetEnd, Places
<1>3. \A pos \in Nat : pos >= end => pos \in S
  <2>1. \A pos \in Nat : pos >= end => ~TargetOn(p, end, pos)
    BY DEF TargetOn
  <2> QED  BY <1>2, <2>1
<1>4. ASSUME NEW pos \in Nat, \A later \in Nat : later > pos => later \in S PROVE pos \in S
  <2>1. CASE TargetOn(p, end, pos)
    <3> DEFINE n == pos + 1 + At(p, pos)
    <3>1. f[pos] = f[n] /\ n \in Nat /\ n > pos
      BY <1>1, <2>1
    <3> HIDE DEF n
    <3>2. n \in S
      BY <1>4, <3>1
    <3>3. f[n] \in Places /\ (f[n] # None => n < f[n])
      BY <3>2
    <3>4. Good(pos)
      BY <3>1, <3>3 DEF Places
    <3> QED  BY <3>4
  <2> QED  BY <1>2, <2>1
<1> HIDE DEF S
<1>5. Nat \subseteq S
  BY <1>3, <1>4, Backwards
<1> QED  BY <1>5 DEF S

\* Addresses of one width that lie one behind the other.
LEMMA RowFits ==
  ASSUME NEW size \in Nat, NEW w \in Nat \ {0}, NEW i \in 0..(size \div w - 1)
  PROVE  w * i \in Nat /\ w * i + w <= size
<1> DEFINE k == size \div w
<1>1. k \in Nat /\ w * k <= size
  OBVIOUS
<1> HIDE DEF k
<1>2. i \in Nat /\ k - (i + 1) \in Nat
  BY <1>1 DEF k
<1>3. w * (k - (i + 1)) \in Nat /\ w * i \in Nat
  BY <1>2
<1>4. w * (k - (i + 1)) = w * k - w * i - w
  BY <1>1, <1>2
<1>5. w * k \in Int
  BY <1>1
<1> QED  BY <1>1, <1>3, <1>4, <1>5

\* Its loop over the parameters.
ParamsBody(p, end, key, w, f, pos) ==
  LET value == pos + 4
      size  == Number(p, pos + 2, 2)
  IN  IF value > end \/ value + size > end THEN {}
      ELSE (IF Number(p, pos, 2) = key
            THEN {value + w * i : i \in 0..(size \div w - 1)} ELSE {})
             \cup f[value + size]

ParamsIs(f, p, end, key, w) == f = [pos \in Nat |-> ParamsBody(p, end, key, w, f, pos)]

ParamOn(p, end, pos) == pos + 4 <= end /\ pos + 4 + Number(p, pos + 2, 2) <= end

\* The addresses of the parameter at a position.
ParamHints(p, key, w, pos) ==
  IF Number(p, pos, 2) = key
  THEN {pos + 4 + w * i : i \in 0..(Number(p, pos + 2, 2) \div w - 1)} ELSE {}

\* A parameter that fits has its addresses inside it, and the loop goes on behind it.
LEMMA ParamsBodyIs ==
  ASSUME NEW p \in Packets, NEW end \in Nat, end <= Len(p), NEW key, NEW w \in Nat \ {0},
         NEW f, NEW pos \in Nat
  PROVE  /\ ParamOn(p, end, pos) =>
              LET next == pos + 4 + Number(p, pos + 2, 2)
              IN  /\ ParamsBody(p, end, key, w, f, pos) = ParamHints(p, key, w, pos) \cup f[next]
                  /\ next \in Nat /\ pos < next /\ next <= end
                  /\ \A hint \in ParamHints(p, key, w, pos) : hint \in Nat /\ pos <= hint /\ hint + w <= end
         /\ ~ParamOn(p, end, pos) => ParamsBody(p, end, key, w, f, pos) = {}
<1> DEFINE size  == Number(p, pos + 2, 2)
           rest  == f[pos + 4 + size]
           hints == ParamHints(p, key, w, pos)
<1>1. Len(p) \in Nat
  BY DEF Packets
<1>2. ParamsBody(p, end, key, w, f, pos) =
        IF pos + 4 > end \/ pos + 4 + size > end THEN {} ELSE hints \cup rest
  BY Zenon DEF ParamsBody, ParamHints
<1>3. ParamOn(p, end, pos) <=> pos + 4 <= end /\ pos + 4 + size <= end
  BY Zenon DEF ParamOn
<1>4. CASE pos + 4 <= end
  <2>1. size \in Nat
    <3>1. pos + 2 \in Nat /\ 2 \in Nat /\ (pos + 2) + 2 <= Len(p)
      BY <1>1, <1>4
    <3> QED  BY <3>1, NumberType, Zenon
  <2>2. hints \subseteq {pos + 4 + w * i : i \in 0..(size \div w - 1)}
    BY Zenon DEF ParamHints
  <2> HIDE DEF size, rest, hints
  <2>3. ASSUME pos + 4 + size <= end, NEW hint \in hints
        PROVE  hint \in Nat /\ pos <= hint /\ hint + w <= end
    <3>1. PICK i \in 0..(size \div w - 1) : hint = pos + 4 + w * i
      BY <2>2, <2>3
    <3>2. w * i \in Nat /\ w * i + w <= size
      BY <2>1, RowFits
    <3> DEFINE off == w * i
    <3> HIDE DEF off
    <3>3. off \in Nat /\ off + w <= size /\ hint = pos + 4 + off
      BY <3>1, <3>2 DEF off
    <3> QED  BY <2>1, <2>3, <3>3
  <2>4. /\ pos + 4 + size <= end => /\ ParamsBody(p, end, key, w, f, pos) = hints \cup rest
                                    /\ pos + 4 + size \in Nat /\ pos < pos + 4 + size
        /\ ~(pos + 4 + size <= end) => ParamsBody(p, end, key, w, f, pos) = {}
    BY <1>2, <1>4, <2>1
  <2> QED  BY <1>3, <1>4, <2>3, <2>4 DEF size, rest, hints
<1>5. CASE ~(pos + 4 <= end)
  <2>1. pos + 4 > end
    BY <1>5
  <2>2. ParamsBody(p, end, key, w, f, pos) = {} /\ ~ParamOn(p, end, pos)
    BY <1>2, <1>3, <1>5, <2>1, Zenon
  <2> QED  BY <2>2, Zenon
<1> QED  BY <1>4, <1>5

\* This loop has a solution too, and what it returns lies between its start and the end.
LEMMA ParamsExist ==
  ASSUME NEW p \in Packets, NEW end \in Nat, end <= Len(p), NEW key, NEW w \in Nat \ {0}
  PROVE  \E f : ParamsIs(f, p, end, key, w)
<1> DEFINE B    == SUBSET Nat
           after(pos) == pos + 4 + Number(p, pos + 2, 2)
           goes == {pos \in Nat : ParamOn(p, end, pos)}
           next == [pos \in Nat |-> IF ParamOn(p, end, pos) THEN after(pos) ELSE pos + 1]
           base == [pos \in Nat |-> {}]
           step == [x \in Nat \X B |-> (ParamHints(p, key, w, x[1]) \cap Nat) \cup x[2]]
<1>1. ASSUME NEW pos \in Nat, ParamOn(p, end, pos)
      PROVE  after(pos) \in Nat /\ pos < after(pos) /\ after(pos) <= end
  BY <1>1, ParamsBodyIs
<1> HIDE DEF after
<1>2. next \in [Nat -> Nat]
  BY <1>1
<1>3. base \in [Nat -> B]
  OBVIOUS
<1>4. step \in [Nat \X B -> B]
  OBVIOUS
<1>5. goes \in SUBSET Nat /\ \A pos \in goes : pos < end /\ next[pos] > pos
  BY <1>1
<1>6. PICK f : Jumps(f, B, base, next, step, goes)
  <2> HIDE DEF step, base, next, goes, B
  <2> QED  BY <1>2, <1>3, <1>4, <1>5, JumpExists
<1>7. ASSUME NEW pos \in Nat PROVE f[pos] = ParamsBody(p, end, key, w, f, pos)
  <2>1. CASE ParamOn(p, end, pos)
    <3> DEFINE hints == ParamHints(p, key, w, pos)
    <3>1. /\ ParamsBody(p, end, key, w, f, pos) = hints \cup f[after(pos)]
          /\ hints \cap Nat = hints
      <4>1. /\ ParamsBody(p, end, key, w, f, pos) = hints \cup f[after(pos)]
            /\ \A hint \in hints : hint \in Nat
        BY <2>1, ParamsBodyIs DEF after
      <4> HIDE DEF hints
      <4> QED  BY <4>1
    <3>2. next[pos] = after(pos) /\ f[next[pos]] \in B
      BY <1>2, <1>6, <2>1 DEF Jumps
    <3>3. step[<<pos, f[next[pos]]>>] = (hints \cap Nat) \cup f[next[pos]]
      <4> HIDE DEF hints, B, next
      <4> QED  BY <3>2 DEF hints
    <3>4. f[pos] = step[<<pos, f[next[pos]]>>]
      <4> HIDE DEF step, next
      <4> QED  BY <1>6, <2>1 DEF Jumps
    <3> HIDE DEF step, next, hints
    <3> QED  BY <3>1, <3>2, <3>3, <3>4, Zenon
  <2>2. CASE ~ParamOn(p, end, pos)
    <3>1. f[pos] = {}
      BY <1>6, <2>2 DEF Jumps
    <3> QED  BY <2>2, <3>1, ParamsBodyIs
  <2> QED  BY <2>1, <2>2
<1>8. f = [pos \in Nat |-> ParamsBody(p, end, key, w, f, pos)]
  BY <1>6, <1>7 DEF Jumps
<1> QED  BY <1>8 DEF ParamsIs

LEMMA ParamsBounds ==
  ASSUME NEW p \in Packets, NEW end \in Nat, end <= Len(p), NEW key, NEW w \in Nat \ {0},
         NEW f, ParamsIs(f, p, end, key, w), NEW start \in Nat
  PROVE  \A hint \in f[start] : hint \in Nat /\ start <= hint /\ hint + w <= end
<1> DEFINE Good(pos) == \A hint \in f[pos] : hint \in Nat /\ pos <= hint /\ hint + w <= end
           S == {pos \in Nat : Good(pos)}
           after(pos) == pos + 4 + Number(p, pos + 2, 2)
<1>1. ASSUME NEW pos \in Nat
      PROVE  /\ ParamOn(p, end, pos) =>
                  /\ f[pos] = ParamHints(p, key, w, pos) \cup f[after(pos)]
                  /\ after(pos) \in Nat /\ pos < after(pos)
                  /\ \A hint \in ParamHints(p, key, w, pos) : hint \in Nat /\ pos <= hint /\ hint + w <= end
             /\ ~ParamOn(p, end, pos) => f[pos] = {}
  <2>1. f[pos] = ParamsBody(p, end, key, w, f, pos)
    BY DEF ParamsIs
  <2> QED  BY <2>1, ParamsBodyIs
<1> HIDE DEF after
<1>2. ASSUME NEW pos \in Nat, ~ParamOn(p, end, pos) PROVE pos \in S
  BY <1>1, <1>2
<1>3. \A pos \in Nat : pos >= end => pos \in S
  <2>1. ASSUME NEW pos \in Nat, pos >= end PROVE ~ParamOn(p, end, pos)
    <3>1. ~(pos + 4 <= end)
      BY <2>1
    <3> QED  BY <3>1, Zenon DEF ParamOn
  <2> QED  BY <1>2, <2>1
<1>4. ASSUME NEW pos \in Nat, \A later \in Nat : later > pos => later \in S PROVE pos \in S
  <2>1. CASE ParamOn(p, end, pos)
    <3>1. after(pos) \in Nat /\ after(pos) > pos
      BY <1>1, <2>1
    <3>2. Good(after(pos))
      BY <1>4, <3>1
    <3>3. ASSUME NEW hint \in f[pos] PROVE hint \in Nat /\ pos <= hint /\ hint + w <= end
      <4>1. CASE hint \in ParamHints(p, key, w, pos)
        BY <1>1, <2>1, <4>1
      <4>2. CASE hint \in f[after(pos)]
        BY <3>1, <3>2, <4>2
      <4> QED  BY <1>1, <2>1, <4>1, <4>2
    <3> QED  BY <3>3
  <2> QED  BY <1>2, <2>1
<1> HIDE DEF S
<1>5. Nat \subseteq S
  BY <1>3, <1>4, Backwards
<1> QED  BY <1>5 DEF S

\* An address hint lies in the data of its record.
LEMMA HintsInside ==
  ASSUME NEW p \in Packets, NEW rr \in RecordSet, rr.end <= Len(p), NEW key, NEW w \in Nat \ {0},
         NEW pos \in HintOffsets(p, rr, key, w)
  PROVE  pos \in Nat /\ rr.rdata <= pos /\ pos + w <= rr.end
<1> DEFINE end    == rr.end
           target == CHOOSE f : TargetIs(f, p, end)
           params == CHOOSE f : ParamsIs(f, p, end, key, w)
           begin  == target[rr.rdata + 2]
<1>1. end \in Nat /\ rr.rdata \in Nat /\ end <= Len(p)
  BY DEF RecordSet
<1>2. HintOffsets(p, rr, key, w) = IF rr.rdata + 2 > end \/ begin = None THEN {} ELSE params[begin]
  BY Zenon DEF HintOffsets, TargetIs, TargetBody, ParamsIs, ParamsBody
<1> HIDE DEF end
<1>3. TargetIs(target, p, end)
  <2>1. \E f : TargetIs(f, p, end)
    BY <1>1, TargetExists
  <2> QED  BY <2>1
<1>4. ParamsIs(params, p, end, key, w)
  <2>1. \E f : ParamsIs(f, p, end, key, w)
    BY <1>1, ParamsExist
  <2> QED  BY <2>1
<1> HIDE DEF target, params
<1>5. rr.rdata + 2 \in Nat
  BY <1>1
<1>6. begin \in Places /\ (begin # None => rr.rdata + 2 < begin)
  BY <1>1, <1>3, <1>5, TargetBounds
<1> HIDE DEF begin
<1>7. begin # None /\ pos \in params[begin]
  BY <1>2
<1>8. begin \in Nat /\ rr.rdata + 2 < begin
  BY <1>6, <1>7 DEF Places
<1>9. pos \in Nat /\ begin <= pos /\ pos + w <= end
  BY <1>1, <1>4, <1>7, <1>8, ParamsBounds
<1> QED  BY <1>1, <1>8, <1>9 DEF end

-------------------------------------------------------------------------------
\* The offsets of the addresses of a record.

\* An address lies in the data of its record, an A or AAAA record or a hint.
LEMMA OffsetsInside ==
  ASSUME NEW p \in Packets, NEW rr \in RecordSet, rr.end <= Len(p), rr.rdata <= rr.end,
         NEW kind, kind \notin {SVCB, HTTPS}, NEW key, NEW w \in Nat \ {0}
  PROVE  /\ \A pos \in Offsets(p, rr, kind, key, w) : pos \in Nat /\ rr.rdata <= pos /\ pos + w <= rr.end
         /\ IsFiniteSet(Offsets(p, rr, kind, key, w))
<1> DEFINE offsets == Offsets(p, rr, kind, key, w)
<1>1. rr.rdata \in Nat /\ rr.end \in Nat
  BY DEF RecordSet
<1>2. ASSUME NEW pos \in offsets PROVE pos \in Nat /\ rr.rdata <= pos /\ pos + w <= rr.end
  <2>1. CASE rr.kind = kind
    <3>1. offsets = IF rr.end - rr.rdata = w THEN {rr.rdata} ELSE {}
      <4>1. rr.kind \notin {SVCB, HTTPS} /\ ~(rr.kind \notin {kind, SVCB, HTTPS})
        BY <2>1
      <4> QED  BY <2>1, <4>1 DEF Offsets
    <3> HIDE DEF offsets
    <3> QED  BY <1>1, <1>2, <3>1
  <2>2. CASE rr.kind \in {SVCB, HTTPS}
    <3>1. offsets = HintOffsets(p, rr, key, w)
      <4>1. rr.kind # kind /\ ~(rr.kind \notin {kind, SVCB, HTTPS})
        BY <2>2
      <4> QED  BY <2>2, <4>1 DEF Offsets
    <3> HIDE DEF offsets
    <3> QED  BY <1>2, <3>1, HintsInside
  <2>3. CASE rr.kind \notin {kind, SVCB, HTTPS}
    <3>1. offsets = {}
      BY <2>3 DEF Offsets
    <3> QED  BY <1>2, <3>1
  <2> QED  BY <2>1, <2>2, <2>3
<1> HIDE DEF offsets
<1>3. offsets \subseteq 0..rr.end
  BY <1>1, <1>2
<1>4. IsFiniteSet(0..rr.end)
  <2>1. 0 \in Int /\ rr.end \in Int
    BY <1>1
  <2> QED  BY <2>1, FS_Interval, Zenon
<1>5. IsFiniteSet(offsets)
  BY <1>3, <1>4, FS_Subset
<1> QED  BY <1>2, <1>5 DEF offsets

-------------------------------------------------------------------------------
\* copy_from_slice, edit by edit.

\* Induction over the parts of a finite set, in the order a fold takes them.
LEMMA PartByPart ==
  ASSUME NEW S, IsFiniteSet(S), NEW P, {} \in P,
         \A T \in SUBSET S : T # {} /\ T \ {CHOOSE x \in T : TRUE} \in P => T \in P
  PROVE  SUBSET S \subseteq P
<1> DEFINE K == {k \in Nat : \A T \in SUBSET S : Cardinality(T) <= k => T \in P}
<1>1. \A T \in SUBSET S : /\ Cardinality(T) \in Nat /\ (Cardinality(T) = 0 <=> T = {})
                          /\ \A x \in T : Cardinality(T \ {x}) = Cardinality(T) - 1
  BY SmallerSet
<1>2. 0 \in K
  <2>1. \A T \in SUBSET S : Cardinality(T) <= 0 => T = {}
    BY <1>1
  <2> QED  BY <2>1
<1>3. ASSUME NEW k \in Nat, k \in K PROVE k + 1 \in K
  <2>1. ASSUME NEW T \in SUBSET S, Cardinality(T) <= k + 1 PROVE T \in P
    <3> DEFINE x == CHOOSE x \in T : TRUE
    <3>1. T # {} => x \in T /\ T \ {x} \in SUBSET S
      OBVIOUS
    <3> HIDE DEF x
    <3>2. T # {} => Cardinality(T \ {x}) <= k
      BY <1>1, <2>1, <3>1
    <3>3. T # {} => T \ {x} \in P
      BY <1>3, <3>1, <3>2
    <3> QED  BY <3>3 DEF x
  <2> QED  BY <2>1
<1> HIDE DEF K
<1>4. Nat \subseteq K
  BY <1>2, <1>3, Induction
<1>5. ASSUME NEW T \in SUBSET S PROVE T \in P
  <2>1. Cardinality(T) \in Nat /\ Cardinality(T) <= Cardinality(T)
    BY <1>1
  <2> QED  BY <1>4, <2>1 DEF K
<1> QED  BY <1>5

EditSet == [at : Nat, bytes : Seq(0..255)]

Edited(e) == e.at..(e.at + Len(e.bytes) - 1)

\* One edit.
LEMMA PutIs ==
  ASSUME NEW n \in Nat, NEW q \in [1..n -> 0..255], NEW e \in EditSet
  PROVE  /\ Put(e, q) \in [1..n -> 0..255]
         /\ \A i \in 1..n : i - 1 \notin Edited(e) => Put(e, q)[i] = q[i]
<1>1. e.at \in Nat /\ e.bytes \in Seq(0..255) /\ Len(e.bytes) \in Nat
  BY DEF EditSet
<1>2. ASSUME NEW i \in 1..n, i - 1 \in Edited(e) PROVE e.bytes[i - e.at] \in 0..255
  <2>1. i - e.at \in 1..Len(e.bytes)
    BY <1>1, <1>2 DEF Edited
  <2> QED  BY <1>1, <2>1, ElementOf, Zenon
<1>3. Put(e, q) = [i \in 1..n |-> IF i - 1 \in Edited(e) THEN e.bytes[i - e.at] ELSE q[i]]
  <2>1. DOMAIN q = 1..n
    OBVIOUS
  <2> QED  BY <2>1 DEF Put, Edited
<1>4. \A i \in 1..n : q[i] \in 0..255
  OBVIOUS
<1>5. Put(e, q) \in [1..n -> 0..255]
  BY <1>2, <1>3, <1>4, Zenon
<1>6. \A i \in 1..n : i - 1 \notin Edited(e) => Put(e, q)[i] = q[i]
  BY <1>3, Zenon
<1> QED  BY <1>5, <1>6

\* A packet differs from another only where some edits are.
DiffersAt(q, p, n, edits) ==
  /\ q \in [1..n -> 0..255]
  /\ \A i \in 1..n : q[i] # p[i] => \E e \in edits : i - 1 \in Edited(e)

\* All the edits: whatever their order, a byte changes only where one of them is.
LEMMA PutAllIs ==
  ASSUME NEW n \in Nat, NEW p \in [1..n -> 0..255], NEW edits \in SUBSET EditSet, IsFiniteSet(edits)
  PROVE  DiffersAt(PutAll(p, edits), p, n, edits)
<1> DEFINE B == [1..n -> 0..255]
           some(T) == CHOOSE e \in T : TRUE
           Solves(h) == h = [T \in SUBSET edits |->
                               IF T = {} THEN p ELSE Put(some(T), h[T \ {some(T)}])]
           it == CHOOSE h : Solves(h)
           Good(T) == /\ it[T] \in B
                      /\ \A i \in 1..n : it[T][i] # p[i] => \E e \in T : i - 1 \in Edited(e)
           P == {T \in SUBSET edits : Good(T)}
<1>1. \A T \in SUBSET edits : T # {} => /\ some(T) \in T /\ some(T) \in EditSet
                                        /\ T \ {some(T)} \in SUBSET edits
  OBVIOUS
<1> HIDE DEF some
<1>2. \E h : Solves(h)
  <2> DEFINE step == [x \in edits \X B |-> Put(x[1], x[2])]
  <2>1. step \in [edits \X B -> B]
    <3>1. ASSUME NEW x \in edits \X B PROVE Put(x[1], x[2]) \in B
      <4>1. x[1] \in EditSet /\ x[2] \in B
        OBVIOUS
      <4> QED  BY <4>1, PutIs
    <3> HIDE DEF B
    <3> QED  BY <3>1
  <2>2. PICK h : SetFoldOf(h, edits, B, p, step)
    <3>1. p \in B
      OBVIOUS
    <3> HIDE DEF step, B
    <3> QED  BY <2>1, <3>1, SetFoldExists
  <2>3. ASSUME NEW T \in SUBSET edits, T # {}
        PROVE  step[<<some(T), h[T \ {some(T)}]>>] = Put(some(T), h[T \ {some(T)}])
    <3> DEFINE e == some(T)
               q == h[T \ {e}]
    <3>1. e \in edits /\ q \in B
      BY <1>1, <2>2, <2>3 DEF SetFoldOf
    <3> HIDE DEF e, q, B
    <3>2. step[<<e, q>>] = Put(e, q)
      BY <3>1
    <3> QED  BY <3>2 DEF e, q
  <2> HIDE DEF step
  <2>4. \A T \in SUBSET edits : h[T] = IF T = {} THEN p ELSE step[<<some(T), h[T \ {some(T)}]>>]
    BY <2>2, Zenon DEF SetFoldOf, some
  <2>5. h = [T \in SUBSET edits |-> IF T = {} THEN p ELSE Put(some(T), h[T \ {some(T)}])]
    <3>1. h \in [SUBSET edits -> B]
      BY <2>2 DEF SetFoldOf
    <3>2. \A T \in SUBSET edits : h[T] = IF T = {} THEN p ELSE Put(some(T), h[T \ {some(T)}])
      BY <2>3, <2>4, Zenon
    <3> HIDE DEF B
    <3> QED  BY <3>1, <3>2
  <2> QED  BY <2>5
<1>3. Solves(it)
  BY <1>2
<1>4. PutAll(p, edits) = it[edits]
  BY Zenon DEF PutAll, FoldSet, MapThenFoldSet, some
<1> HIDE DEF it
<1>5. {} \in P
  <2>1. {} \in SUBSET edits /\ it[{}] = p
    BY <1>3
  <2> QED  BY <2>1
<1>6. ASSUME NEW T \in SUBSET edits, T # {}, T \ {some(T)} \in P PROVE T \in P
  <2> DEFINE e == some(T)
             q == it[T \ {e}]
  <2>1. e \in T /\ e \in EditSet /\ T \ {e} \in SUBSET edits
    BY <1>1, <1>6
  <2>2. it[T] = Put(e, q)
    BY <1>3, <1>6
  <2>3. q \in B /\ \A i \in 1..n : q[i] # p[i] => \E f \in T \ {e} : i - 1 \in Edited(f)
    BY <1>6
  <2> HIDE DEF e, q
  <2>4. Put(e, q) \in B /\ \A i \in 1..n : i - 1 \notin Edited(e) => Put(e, q)[i] = q[i]
    BY <2>1, <2>3, PutIs
  <2>5. \A i \in 1..n : it[T][i] # p[i] => \E f \in T : i - 1 \in Edited(f)
    <3> HIDE DEF B
    <3> QED  BY <2>1, <2>2, <2>3, <2>4
  <2> QED  BY <2>2, <2>4, <2>5
<1> HIDE DEF P
<1>7. SUBSET edits \subseteq P
  BY <1>5, <1>6, PartByPart DEF some
<1>8. edits \in P
  BY <1>7
<1> QED  BY <1>4, <1>8 DEF P, DiffersAt

-------------------------------------------------------------------------------
\* What the edits leave alone.

\* A response whose sections parse has a header, and places of its records.
LEMMA WhenParsed ==
  ASSUME NEW p \in Packets, Parses(p)
  PROVE  Len(p) >= Header /\ \E at : PlacesOf(at, p)
<1>1. Len(p) >= Header
  <2>1. ASSUME Len(p) < Header PROVE FALSE
    <3>1. ResourceRecords(p) = [pos |-> None, rrs |-> <<>>]
      BY <2>1, Zenon DEF ResourceRecords
    <3> QED  BY <3>1 DEF Parses
  <2>2. Len(p) \in Nat /\ Header \in Nat
    BY DEF Packets, Header
  <2> QED  BY <2>1, <2>2
<1>2. PICK g : RecordSteps(g, p)
  BY <1>1, RecordsAre
<1>3. PlacesOf([k \in 0..Total(p) |-> g[k].pos], p)
  BY <1>1, <1>2, RecordsPlaced
<1> QED  BY <1>1, <1>3

\* One record of a packet that parses.
WellPlaced(p, rr) ==
  /\ rr \in RecordSet /\ rr.start < rr.ttl /\ rr.rdata = rr.ttl + 6
  /\ rr.rdata <= rr.end /\ rr.end <= Len(p)

\* The records of a response that parses are well placed.
LEMMA RecordIs ==
  ASSUME NEW p \in Packets, Len(p) >= Header, NEW at, PlacesOf(at, p), NEW k \in 1..Total(p)
  PROVE  LET rr == RecordsOf(p)[k]
         IN  WellPlaced(p, rr) /\ rr.start = at[k - 1] /\ rr.end = at[k]
<1> DEFINE pos    == at[k - 1]
           answer == k <= AnswerCount(p)
           name   == SkipName(p, pos)
           size   == Number(p, name + 8, 2)
           rr     == RecordAt(p, pos, answer)
<1>1. Total(p) \in Nat /\ AnswerCount(p) \in Nat /\ answer \in BOOLEAN /\ Len(p) \in Nat
  BY Counts DEF Total, AnswerCount, Packets
<1>2. pos \in Nat /\ at[k] \in Nat /\ pos \in Places /\ at[k] = RecordEnd(p, pos) /\ RecordsOf(p)[k] = rr
  <2>1. k - 1 \in 0..Total(p) /\ k \in 0..Total(p)
    BY <1>1
  <2>2. at \in [0..Total(p) -> Nat] /\ at[k] = RecordEnd(p, pos) /\ RecordsOf(p)[k] = rr
    BY DEF PlacesOf
  <2> HIDE DEF rr
  <2> QED  BY <2>1, <2>2 DEF Places
<1>3. at[k] # None
  BY <1>2 DEF None
<1>4. /\ name \in Nat /\ pos < name /\ size \in Nat /\ rr \in RecordSet
      /\ at[k] = name + 10 + size /\ at[k] <= Len(p)
  <2> HIDE DEF pos, answer
  <2> QED  BY <1>1, <1>2, <1>3, RecordEndIs
<1>5. rr.start = pos /\ rr.ttl = name + 4 /\ rr.rdata = name + 10 /\ rr.end = name + 10 + size
  BY DEF RecordAt, TtlAt
<1> HIDE DEF pos, answer, name, size, rr
<1>6. WellPlaced(p, rr) /\ rr.start = pos /\ rr.end = at[k]
  BY <1>1, <1>2, <1>4, <1>5 DEF WellPlaced
<1> QED  BY <1>2, <1>6 DEF pos

\* Where the TTL and the data of a record are.
Inner(rr, pos) == pos \in rr.ttl..(rr.ttl + 3) \/ pos \in rr.rdata..(rr.end - 1)

\* Where the reading of the sections looks.
Framing(p, pos) ==
  \/ pos \in 4..(FirstRecord(p) - 1)
  \/ \E rr \in Range(RecordsOf(p)) :
       pos \in rr.start..(rr.ttl - 1) \/ pos \in (rr.ttl + 4)..(rr.rdata - 1)

\* No TTL and no data is where the reading of the sections looks: the records lie one
\* behind another.
LEMMA FramingIsOutside ==
  ASSUME NEW p \in Packets, Parses(p), NEW pos \in Nat, Framing(p, pos), NEW rr \in Range(RecordsOf(p))
  PROVE  pos # 3 /\ ~Inner(rr, pos)
<1>1. Len(p) >= Header
  BY WhenParsed
<1>2. PICK at : PlacesOf(at, p)
  BY WhenParsed
<1> DEFINE n == Total(p)
<1>3. n \in Nat
  BY <1>1, Counts DEF Total, AnswerCount
<1>4. /\ at \in [0..n -> Nat] /\ at[0] = FirstRecord(p) /\ Header <= at[0]
      /\ DOMAIN RecordsOf(p) = 1..n
  BY <1>2, <1>3 DEF PlacesOf
<1>5. ASSUME NEW r \in Range(RecordsOf(p))
      PROVE  \E k \in 1..n : /\ WellPlaced(p, r) /\ r.start = at[k - 1] /\ r.end = at[k]
                             /\ r = RecordsOf(p)[k]
  <2>1. PICK k \in 1..n : r = RecordsOf(p)[k]
    BY <1>4, <1>5 DEF Range
  <2> QED  BY <1>1, <1>2, <2>1, RecordIs
<1>6. ASSUME NEW i \in 0..n, NEW j \in 0..n, i <= j
      PROVE  at[i] \in Nat /\ at[j] \in Nat /\ at[i] <= at[j] /\ 12 <= at[i]
  <2>1. 0 \in 0..n /\ 0 <= i
    BY <1>3
  <2>2. at[i] <= at[j] /\ at[0] <= at[i]
    BY <1>1, <1>2, <1>6, <2>1, RecordsInOrder
  <2>3. at[i] \in Nat /\ at[j] \in Nat /\ at[0] \in Nat
    BY <1>4, <2>1
  <2> QED  BY <1>4, <2>2, <2>3 DEF Header
<1>7. PICK k \in 1..n : WellPlaced(p, rr) /\ rr.start = at[k - 1] /\ rr.end = at[k] /\ rr = RecordsOf(p)[k]
  BY <1>5
<1>8. /\ rr.start \in Nat /\ rr.ttl \in Nat /\ rr.rdata \in Nat /\ rr.end \in Nat
      /\ rr.start < rr.ttl /\ rr.rdata = rr.ttl + 6 /\ rr.rdata <= rr.end
  BY <1>7 DEF WellPlaced, RecordSet
<1>9. CASE pos \in 4..(FirstRecord(p) - 1)
  <2>1. 0 \in 0..n /\ k - 1 \in 0..n /\ 0 <= k - 1
    BY <1>3
  <2>2. at[0] \in Nat /\ at[0] <= rr.start
    BY <1>6, <1>7, <2>1
  <2>3. 4 <= pos /\ pos < rr.start
    BY <1>4, <1>8, <1>9, <2>2
  <2> QED  BY <1>8, <2>3 DEF Inner
<1>10. ASSUME NEW r \in Range(RecordsOf(p)),
              pos \in r.start..(r.ttl - 1) \/ pos \in (r.ttl + 4)..(r.rdata - 1)
       PROVE  pos # 3 /\ ~Inner(rr, pos)
  <2>1. PICK l \in 1..n : WellPlaced(p, r) /\ r.start = at[l - 1] /\ r.end = at[l] /\ r = RecordsOf(p)[l]
    BY <1>5
  <2>2. /\ r.start \in Nat /\ r.ttl \in Nat /\ r.rdata \in Nat /\ r.end \in Nat
        /\ r.start < r.ttl /\ r.rdata = r.ttl + 6 /\ r.rdata <= r.end
    BY <2>1 DEF WellPlaced, RecordSet
  <2>3. r.start <= pos /\ pos < r.rdata
    BY <1>10, <2>2
  <2>4. 12 <= r.start
    <3>1. l - 1 \in 0..n
      BY <1>3
    <3>2. 12 <= at[l - 1]
      BY <1>3, <1>6, <3>1
    <3> QED  BY <2>1, <3>2
  <2>5. CASE l < k
    <3>1. l \in 0..n /\ k - 1 \in 0..n /\ l <= k - 1
      BY <1>3, <2>5
    <3>2. r.end <= rr.start
      BY <1>6, <1>7, <2>1, <3>1
    <3> QED  BY <1>8, <2>2, <2>3, <2>4, <3>2 DEF Inner
  <2>6. CASE k < l
    <3>1. k \in 0..n /\ l - 1 \in 0..n /\ k <= l - 1
      BY <1>3, <2>6
    <3>2. rr.end <= r.start
      BY <1>6, <1>7, <2>1, <3>1
    <3> QED  BY <1>8, <2>2, <2>3, <2>4, <3>2 DEF Inner
  <2>7. CASE k = l
    <3>1. r = rr
      BY <1>7, <2>1, <2>7
    <3> QED  BY <1>8, <1>10, <2>3, <2>4, <3>1 DEF Inner
  <2>8. k < l \/ l < k \/ k = l
    BY <1>3
  <2> QED  BY <2>5, <2>6, <2>7, <2>8
<1> QED  BY <1>9, <1>10 DEF Framing

\* An edit where a response may change: the AD bit, a TTL, or an address.
SpotOf(p, rr, e) ==
  \/ e.at = rr.ttl /\ Len(e.bytes) = 4
  \/ e.at \in Offsets4(p, rr) /\ Len(e.bytes) = Octets4
  \/ e.at \in Offsets6(p, rr) /\ Len(e.bytes) = Octets6

Spot(p, e) ==
  \/ e.at = 3 /\ Len(e.bytes) = 1
  \/ \E rr \in Range(RecordsOf(p)) : SpotOf(p, rr, e)

\* An edit of a TTL or of an address stays in its record.
LEMMA SpotIsInner ==
  ASSUME NEW p \in Packets, NEW rr, WellPlaced(p, rr), NEW e \in EditSet, SpotOf(p, rr, e),
         NEW pos \in Nat, pos \in Edited(e)
  PROVE  Inner(rr, pos)
<1>1. /\ rr \in RecordSet /\ rr.rdata <= rr.end /\ rr.end <= Len(p)
      /\ rr.ttl \in Nat /\ rr.rdata \in Nat /\ rr.end \in Nat
  BY DEF WellPlaced, RecordSet
<1>2. e.at \in Nat /\ Len(e.bytes) \in Nat
  BY DEF EditSet
<1>3. CASE e.at = rr.ttl /\ Len(e.bytes) = 4
  BY <1>1, <1>3 DEF Edited, Inner
<1>4. CASE e.at \in Offsets4(p, rr) /\ Len(e.bytes) = Octets4
  <2>1. Octets4 \in Nat \ {0} /\ A \notin {SVCB, HTTPS}
    BY DnsPacketAssumption DEF A, SVCB, HTTPS
  <2>2. rr.rdata <= e.at /\ e.at + Octets4 <= rr.end
    BY <1>1, <1>4, <2>1, OffsetsInside DEF Offsets4
  <2> QED  BY <1>1, <1>2, <1>4, <2>1, <2>2 DEF Edited, Inner
<1>5. CASE e.at \in Offsets6(p, rr) /\ Len(e.bytes) = Octets6
  <2>1. Octets6 \in Nat \ {0} /\ AAAA \notin {SVCB, HTTPS}
    BY DnsPacketAssumption DEF AAAA, SVCB, HTTPS
  <2>2. rr.rdata <= e.at /\ e.at + Octets6 <= rr.end
    BY <1>1, <1>5, <2>1, OffsetsInside DEF Offsets6
  <2> QED  BY <1>1, <1>2, <1>5, <2>1, <2>2 DEF Edited, Inner
<1> QED  BY <1>3, <1>4, <1>5 DEF SpotOf

\* The questions end inside the packet.
LEMMA FirstRecordFits ==
  ASSUME NEW p \in Packets, Len(p) >= Header, FirstRecord(p) # None
  PROVE  FirstRecord(p) \in Nat /\ FirstRecord(p) <= Len(p)
<1> DEFINE n == Questions(p)
<1>1. n \in Nat /\ Len(p) \in Nat
  BY Counts DEF Packets
<1>2. PICK g : QuestionSteps(g, p)
  BY QuestionsAre
<1>3. FirstRecord(p) = g[n] /\ g[0] = Header /\ \A k \in 1..n : g[k] = QuestionEnd(p, g[k - 1])
  BY <1>2 DEF QuestionSteps
<1>4. \A k \in 0..n : g[k] \in Nat
  BY <1>2, QuestionsInOrder
<1> HIDE DEF n
<1>5. CASE n = 0
  BY <1>1, <1>3, <1>5 DEF Header
<1>6. CASE n # 0
  <2>1. n \in 1..n /\ n \in 0..n /\ n - 1 \in 0..n
    BY <1>1, <1>6
  <2>2. g[n] = QuestionEnd(p, g[n - 1]) /\ g[n - 1] \in Places /\ g[n] \in Nat /\ g[n] # None
    BY <1>3, <1>4, <2>1 DEF Places, None
  <2>3. g[n] <= Len(p)
    BY <2>2, QuestionEndIs
  <2> QED  BY <1>3, <2>2, <2>3
<1> QED  BY <1>5, <1>6

\* Such edits keep the layout.
LEMMA EditsKeepLayout ==
  ASSUME NEW p \in Packets, Parses(p), NEW edits \in SUBSET EditSet, IsFiniteSet(edits),
         \A e \in edits : Spot(p, e)
  PROVE  LET q == PutAll(p, edits)
         IN  /\ Len(q) = Len(p) /\ DOMAIN q = 1..Len(p)
             /\ ResourceRecords(q) = ResourceRecords(p)
             /\ \A i \in 1..Len(p) : q[i] # p[i] => \E e \in edits : i - 1 \in Edited(e)
<1> DEFINE q == PutAll(p, edits)
           n == Len(p)
<1>1. n \in Nat /\ p \in [1..n -> 0..255] /\ Len(p) >= Header
  <2>1. Len(p) \in Nat /\ p \in [1..Len(p) -> 0..255]
    BY SeqIs, Zenon DEF Packets
  <2>2. Len(p) >= Header
    BY WhenParsed
  <2> QED  BY <2>1, <2>2
<1>2. /\ q \in [1..n -> 0..255]
      /\ \A i \in 1..n : q[i] # p[i] => \E e \in edits : i - 1 \in Edited(e)
  <2> HIDE DEF n, q
  <2>1. DiffersAt(PutAll(p, edits), p, n, edits)
    BY <1>1, PutAllIs
  <2> QED  BY <2>1, Zenon DEF q, DiffersAt
<1> HIDE DEF q, n
<1>3. q \in Packets /\ Len(q) = n /\ DOMAIN q = 1..n
  BY <1>1, <1>2 DEF Packets
<1>4. ASSUME NEW pos \in Nat, Framing(p, pos), pos < n PROVE At(q, pos) = At(p, pos)
  <2>1. SUFFICES ASSUME At(q, pos) # At(p, pos) PROVE FALSE
    OBVIOUS
  <2>2. pos + 1 \in 1..n /\ (pos + 1) - 1 = pos
    BY <1>1, <1>4
  <2>3. PICK e \in edits : pos \in Edited(e)
    BY <1>2, <2>1, <2>2 DEF At
  <2>4. CASE e.at = 3 /\ Len(e.bytes) = 1
    <3>1. pos = 3
      BY <2>3, <2>4 DEF Edited
    <3>2. pos # 3
      <4>1. CASE pos \in 4..(FirstRecord(p) - 1)
        BY <4>1
      <4>2. CASE \E rr \in Range(RecordsOf(p)) : TRUE
        BY <1>4, <4>2, FramingIsOutside
      <4> QED  BY <1>4, <4>1, <4>2 DEF Framing
    <3> QED  BY <3>1, <3>2
  <2>5. CASE \E rr \in Range(RecordsOf(p)) : SpotOf(p, rr, e)
    <3>1. PICK rr \in Range(RecordsOf(p)) : SpotOf(p, rr, e)
      BY <2>5
    <3>2. WellPlaced(p, rr)
      <4>1. PICK at : PlacesOf(at, p)
        BY WhenParsed
      <4>2. DOMAIN RecordsOf(p) = 1..Total(p)
        BY <4>1 DEF PlacesOf
      <4>3. PICK k \in 1..Total(p) : rr = RecordsOf(p)[k]
        BY <4>2 DEF Range
      <4> QED  BY <1>1, <4>1, <4>3, RecordIs
    <3>3. Inner(rr, pos)
      BY <2>3, <3>1, <3>2, SpotIsInner
    <3> QED  BY <1>4, <3>3, FramingIsOutside
  <2> QED  BY <2>4, <2>5 DEF Spot
<1>5. SameLayout(p, q)
  <2>1. PICK at : PlacesOf(at, p)
    BY WhenParsed
  <2>2. Total(p) \in Nat
    BY <1>1, Counts DEF Total, AnswerCount
  <2>3. FirstRecord(p) \in Nat /\ FirstRecord(p) <= n
    <3>1. FirstRecord(p) \in Nat
      BY <2>1, <2>2 DEF PlacesOf
    <3>2. FirstRecord(p) # None
      BY <3>1 DEF None
    <3> QED  BY <1>1, <3>2, FirstRecordFits DEF n
  <2>4. Alike(p, q, 4, FirstRecord(p))
    <3>1. ASSUME NEW pos \in 4..(FirstRecord(p) - 1) PROVE At(q, pos) = At(p, pos)
      <4>1. pos \in Nat /\ pos < n /\ Framing(p, pos)
        BY <1>1, <2>3 DEF Framing
      <4> QED  BY <1>4, <4>1
    <3> QED  BY <3>1 DEF Alike
  <2>5. ASSUME NEW rr \in Range(RecordsOf(p))
        PROVE  Alike(p, q, rr.start, rr.ttl) /\ Alike(p, q, rr.ttl + 4, rr.rdata)
    <3>1. WellPlaced(p, rr)
      <4>1. DOMAIN RecordsOf(p) = 1..Total(p)
        BY <2>1 DEF PlacesOf
      <4>2. PICK k \in 1..Total(p) : rr = RecordsOf(p)[k]
        BY <4>1 DEF Range
      <4> QED  BY <1>1, <2>1, <4>2, RecordIs
    <3>2. /\ rr.start \in Nat /\ rr.ttl \in Nat /\ rr.rdata \in Nat /\ rr.end \in Nat
          /\ rr.start < rr.ttl /\ rr.rdata = rr.ttl + 6 /\ rr.rdata <= rr.end /\ rr.end <= n
      BY <3>1 DEF WellPlaced, RecordSet, n
    <3>3. ASSUME NEW pos, pos \in rr.start..(rr.ttl - 1) \/ pos \in (rr.ttl + 4)..(rr.rdata - 1)
          PROVE  At(q, pos) = At(p, pos)
      <4>1. pos \in Nat /\ pos < n
        BY <1>1, <3>2, <3>3
      <4>2. Framing(p, pos)
        BY <3>3 DEF Framing
      <4> QED  BY <1>4, <4>1, <4>2
    <3> QED  BY <3>3 DEF Alike
  <2> QED  BY <1>3, <2>4, <2>5 DEF SameLayout, n
<1>6. ResourceRecords(q) = ResourceRecords(p)
  BY <1>1, <1>3, <1>5, RecordsSame
<1>7. /\ Len(q) = Len(p) /\ DOMAIN q = 1..Len(p)
      /\ \A i \in 1..Len(p) : q[i] # p[i] => \E e \in edits : i - 1 \in Edited(e)
  BY <1>2, <1>3 DEF n
<1> QED  BY <1>6, <1>7, Zenon DEF q

-------------------------------------------------------------------------------
\* The edits of App::process.

\* A finite set has finite images.
LEMMA ImageIsFinite ==
  ASSUME NEW S, IsFiniteSet(S), NEW f, DOMAIN f = S
  PROVE  IsFiniteSet({f[x] : x \in S})
<1> DEFINE T == {f[x] : x \in S}
           g == [x \in S |-> f[x]]
<1>1. g \in [S -> T] /\ \A t \in T : \E x \in S : g[x] = t
  OBVIOUS
<1>2. g \in Surjection(S, T)
  BY <1>1, Zenon DEF Surjection
<1> HIDE DEF T, g
<1>3. IsFiniteSet(T)
  BY <1>2, FS_Surjection
<1> QED  BY <1>3 DEF T

\* The bytes of a number make an edit.
LEMMA BytesFit ==
  ASSUME NEW at \in Nat, NEW n \in Int, NEW w \in Nat
  PROVE  [at |-> at, bytes |-> Bytes(n, w)] \in EditSet /\ Len(Bytes(n, w)) = w
<1>1. Bytes(n, w) \in [1..w -> 0..255] /\ Len(Bytes(n, w)) = w
  BY BytesIs
<1> DEFINE b == Bytes(n, w)
<1> HIDE DEF b
<1>2. b \in Seq(0..255)
  BY <1>1 DEF b
<1> QED  BY <1>1, <1>2 DEF EditSet, b

\* The edits of the addresses of one family are as wide as an address, where one is.
LEMMA AddressEditsAre ==
  ASSUME NEW p \in Packets, NEW w \in Nat \ {0}, NEW offsets, IsFiniteSet(offsets),
         \A pos \in offsets : pos \in Nat /\ pos + w <= Len(p),
         NEW pin \in Int, NEW hops, Range(hops) \subseteq Nat, NEW rr
  PROVE  LET edits == AddressEdits(p, rr, offsets, w, pin, hops)
         IN  /\ edits \in SUBSET EditSet /\ IsFiniteSet(edits)
             /\ \A e \in edits : e.at \in offsets /\ Len(e.bytes) = w
<1> DEFINE New(pos) == Replacement(Number(p, pos, w), pin, hops)
           f        == [pos \in offsets |-> [at |-> pos, bytes |-> Bytes(New(pos), w)]]
           edits    == AddressEdits(p, rr, offsets, w, pin, hops)
<1>1. ASSUME NEW pos \in offsets PROVE New(pos) \in Int
  <2> DEFINE address == Number(p, pos, w)
  <2>1. address \in Nat
    BY NumberType
  <2> HIDE DEF address
  <2>2. address \in DOMAIN hops => hops[address] \in Nat
    BY DEF Range
  <2>3. Replacement(address, pin, hops) \in Int
    BY <2>1, <2>2 DEF Replacement
  <2> QED  BY <2>3 DEF address
<1>2. edits \subseteq {f[pos] : pos \in offsets}
  BY DEF AddressEdits
<1> HIDE DEF New, edits
<1>3. ASSUME NEW pos \in offsets
      PROVE  f[pos] \in EditSet /\ f[pos].at = pos /\ Len(f[pos].bytes) = w
  <2>1. f[pos] = [at |-> pos, bytes |-> Bytes(New(pos), w)]
    OBVIOUS
  <2> HIDE DEF f
  <2>2. pos \in Nat /\ New(pos) \in Int /\ w \in Nat
    BY <1>1
  <2>3. [at |-> pos, bytes |-> Bytes(New(pos), w)] \in EditSet /\ Len(Bytes(New(pos), w)) = w
    BY <2>2, BytesFit, Zenon
  <2> QED  BY <2>1, <2>3
<1>4. IsFiniteSet({f[pos] : pos \in offsets})
  <2>1. DOMAIN f = offsets
    OBVIOUS
  <2> HIDE DEF f
  <2> QED  BY <2>1, ImageIsFinite
<1> HIDE DEF f
<1>5. IsFiniteSet(edits)
  BY <1>2, <1>4, FS_Subset
<1>6. \A e \in edits : e \in EditSet /\ e.at \in offsets /\ Len(e.bytes) = w
  BY <1>2, <1>3
<1>7. edits \in SUBSET EditSet
  BY <1>6
<1> QED  BY <1>5, <1>6, <1>7 DEF edits

\* The edits of the TTLs are four bytes wide, where a TTL is.
LEMMA TtlEditsAre ==
  ASSUME NEW p \in Packets, NEW rrs, IsFiniteSet(rrs), \A rr \in rrs : WellPlaced(p, rr),
         NEW limit \in Int
  PROVE  LET edits == TtlEdits(p, rrs, limit)
         IN  /\ edits \in SUBSET EditSet /\ IsFiniteSet(edits)
             /\ \A e \in edits : \E rr \in rrs : e.at = rr.ttl /\ Len(e.bytes) = 4
<1> DEFINE New(rr) == Min({Ttl(p, rr.ttl), limit})
           f       == [rr \in rrs |-> [at |-> rr.ttl, bytes |-> Bytes(New(rr), 4)]]
           edits   == TtlEdits(p, rrs, limit)
<1>1. ASSUME NEW rr \in rrs PROVE rr.ttl \in Nat /\ New(rr) \in Int
  <2>1. /\ rr.ttl \in Nat /\ rr.rdata \in Nat /\ rr.end \in Nat /\ Len(p) \in Nat
        /\ rr.rdata = rr.ttl + 6 /\ rr.rdata <= rr.end /\ rr.end <= Len(p)
    BY DEF WellPlaced, RecordSet, Packets
  <2>2. 4 \in Nat /\ rr.ttl + 4 <= Len(p)
    BY <2>1
  <2>3. Number(p, rr.ttl, 4) \in Nat
    BY <2>1, <2>2, NumberType, Zenon
  <2>4. Ttl(p, rr.ttl) \in Int
    <3>1. Ttl(p, rr.ttl) \in {2147483647, Number(p, rr.ttl, 4)}
      BY DEF Ttl
    <3> QED  BY <2>3, <3>1
  <2> DEFINE ttl == Ttl(p, rr.ttl)
  <2> HIDE DEF ttl
  <2>5. Min({ttl, limit}) \in Int
    <3>1. \E x \in {ttl, limit} : \A y \in {ttl, limit} : x <= y
      BY <2>4 DEF ttl
    <3>2. Min({ttl, limit}) \in {ttl, limit}
      BY <3>1 DEF Min
    <3> QED  BY <2>4, <3>2 DEF ttl
  <2> QED  BY <2>1, <2>5 DEF ttl
<1>2. edits \subseteq {f[rr] : rr \in rrs}
  BY DEF TtlEdits
<1> HIDE DEF New, edits
<1>3. ASSUME NEW rr \in rrs
      PROVE  f[rr] \in EditSet /\ f[rr].at = rr.ttl /\ Len(f[rr].bytes) = 4
  <2>1. f[rr] = [at |-> rr.ttl, bytes |-> Bytes(New(rr), 4)]
    OBVIOUS
  <2> HIDE DEF f
  <2>2. rr.ttl \in Nat /\ New(rr) \in Int /\ 4 \in Nat
    BY <1>1
  <2>3. [at |-> rr.ttl, bytes |-> Bytes(New(rr), 4)] \in EditSet /\ Len(Bytes(New(rr), 4)) = 4
    BY <2>2, BytesFit, Zenon
  <2> QED  BY <2>1, <2>3
<1>4. IsFiniteSet({f[rr] : rr \in rrs})
  <2>1. DOMAIN f = rrs
    OBVIOUS
  <2> HIDE DEF f
  <2> QED  BY <2>1, ImageIsFinite
<1> HIDE DEF f
<1>5. IsFiniteSet(edits)
  BY <1>2, <1>4, FS_Subset
<1>6. \A e \in edits : e \in EditSet /\ \E rr \in rrs : e.at = rr.ttl /\ Len(e.bytes) = 4
  BY <1>2, <1>3
<1>7. edits \in SUBSET EditSet
  BY <1>6
<1> QED  BY <1>5, <1>6, <1>7 DEF edits

\* Edits that EditsKeepLayout speaks of.
GoodEdits(p, edits) ==
  edits \in SUBSET EditSet /\ IsFiniteSet(edits) /\ \A e \in edits : Spot(p, e)

\* Good edits together are good.
LEMMA GoodUnion ==
  ASSUME NEW p, NEW a, GoodEdits(p, a), NEW b, GoodEdits(p, b)
  PROVE  GoodEdits(p, a \cup b)
<1>1. IsFiniteSet(a \cup b)
  BY FS_Union DEF GoodEdits
<1> QED  BY <1>1 DEF GoodEdits

\* The edits of the addresses of one record.
RecordEdits(p, rr, redirect, d) ==
  AddressEdits(p, rr, Offsets4(p, rr), Octets4, PinFor(rr, redirect).v4, d.evasion4)
    \cup
  AddressEdits(p, rr, Offsets6(p, rr), Octets6, PinFor(rr, redirect).v6, d.evasion6)

\* The address edits of a record are good, for every pin and every hop,
LEMMA RecordEditsAre ==
  ASSUME NEW p \in Packets, NEW rr \in Range(RecordsOf(p)), WellPlaced(p, rr),
         NEW redirect, redirect.v4 \in Int, redirect.v6 \in Int,
         NEW d, Range(d.evasion4) \subseteq Nat, Range(d.evasion6) \subseteq Nat
  PROVE  GoodEdits(p, RecordEdits(p, rr, redirect, d))
<1> DEFINE pin4 == PinFor(rr, redirect).v4
           pin6 == PinFor(rr, redirect).v6
           a    == AddressEdits(p, rr, Offsets4(p, rr), Octets4, pin4, d.evasion4)
           b    == AddressEdits(p, rr, Offsets6(p, rr), Octets6, pin6, d.evasion6)
<1>1. /\ rr \in RecordSet /\ rr.rdata <= rr.end /\ rr.end <= Len(p) /\ rr.end \in Nat /\ Len(p) \in Nat
  BY DEF WellPlaced, RecordSet, Packets
<1>2. pin4 \in Int /\ pin6 \in Int
  BY DEF PinFor, NoRedirect, NoAddr
<1> HIDE DEF pin4, pin6
<1>3. GoodEdits(p, a)
  <2>1. Octets4 \in Nat \ {0} /\ A \notin {SVCB, HTTPS}
    BY DnsPacketAssumption DEF A, SVCB, HTTPS
  <2>2. /\ IsFiniteSet(Offsets4(p, rr))
        /\ \A pos \in Offsets4(p, rr) : pos \in Nat /\ pos + Octets4 <= rr.end
    BY <1>1, <2>1, OffsetsInside DEF Offsets4
  <2>3. \A pos \in Offsets4(p, rr) : pos \in Nat /\ pos + Octets4 <= Len(p)
    BY <1>1, <2>1, <2>2
  <2>4. /\ a \in SUBSET EditSet /\ IsFiniteSet(a)
        /\ \A e \in a : e.at \in Offsets4(p, rr) /\ Len(e.bytes) = Octets4
    BY <1>2, <2>1, <2>2, <2>3, AddressEditsAre
  <2> HIDE DEF a
  <2> QED  BY <2>4 DEF GoodEdits, Spot, SpotOf
<1>4. GoodEdits(p, b)
  <2>1. Octets6 \in Nat \ {0} /\ AAAA \notin {SVCB, HTTPS}
    BY DnsPacketAssumption DEF AAAA, SVCB, HTTPS
  <2>2. /\ IsFiniteSet(Offsets6(p, rr))
        /\ \A pos \in Offsets6(p, rr) : pos \in Nat /\ pos + Octets6 <= rr.end
    BY <1>1, <2>1, OffsetsInside DEF Offsets6
  <2>3. \A pos \in Offsets6(p, rr) : pos \in Nat /\ pos + Octets6 <= Len(p)
    BY <1>1, <2>1, <2>2
  <2>4. /\ b \in SUBSET EditSet /\ IsFiniteSet(b)
        /\ \A e \in b : e.at \in Offsets6(p, rr) /\ Len(e.bytes) = Octets6
    BY <1>2, <2>1, <2>2, <2>3, AddressEditsAre
  <2> HIDE DEF b
  <2> QED  BY <2>4 DEF GoodEdits, Spot, SpotOf
<1> HIDE DEF a, b
<1>5. GoodEdits(p, a \cup b)
  BY <1>3, <1>4, GoodUnion
<1> QED  BY <1>5 DEF RecordEdits, a, b, pin4, pin6

\* and so are those of a response: rewrite makes nothing but good edits.
LEMMA RewrittenIs ==
  ASSUME NEW p \in Packets, Parses(p),
         NEW redirect, redirect.v4 \in Int, redirect.v6 \in Int,
         NEW d, Range(d.evasion4) \subseteq Nat, Range(d.evasion6) \subseteq Nat,
         NEW rewriteTtl \in Nat
  PROVE  \E edits : /\ GoodEdits(p, edits)
                    /\ RewrittenPacket(p, redirect, d, rewriteTtl) = PutAll(p, edits)
<1> DEFINE rrs   == Range(RecordsOf(p))
           cf    == \E rr \in rrs : \/ \E pos \in Offsets4(p, rr) : Containing(d.cf4, Number(p, pos, Octets4)) # NoRange
                                    \/ \E pos \in Offsets6(p, rr) : Containing(d.cf6, Number(p, pos, Octets6)) # NoRange
           f     == [rr \in rrs |-> RecordEdits(p, rr, redirect, d)]
           edits == UNION {RecordEdits(p, rr, redirect, d) : rr \in rrs}
           hit   == edits # {}
           limit == TtlLimit(cf, hit, rewriteTtl)
           ttls  == IF MustCap(cf, hit) THEN TtlEdits(p, rrs, limit) ELSE {}
           flag  == [at |-> 3, bytes |-> <<ClearAd(At(p, 3))>>]
           flags == IF hit THEN {flag} ELSE {}
<1>1. RewrittenPacket(p, redirect, d, rewriteTtl) = PutAll(p, ttls \cup edits \cup flags)
  BY Zenon DEF RewrittenPacket, RecordEdits, RecordsOf
<1>2. Len(p) >= Header
  BY WhenParsed
<1>3. PICK at : PlacesOf(at, p)
  BY WhenParsed
<1>4. DOMAIN RecordsOf(p) = 1..Total(p) /\ Total(p) \in Nat
  BY <1>2, <1>3, Counts DEF PlacesOf, Total, AnswerCount
<1>5. ASSUME NEW rr \in rrs PROVE WellPlaced(p, rr)
  <2>1. PICK k \in 1..Total(p) : rr = RecordsOf(p)[k]
    BY <1>4, <1>5 DEF Range
  <2> QED  BY <1>2, <1>3, <2>1, RecordIs
<1>6. IsFiniteSet(rrs)
  <2> DEFINE n == Total(p)
             g == [k \in 1..n |-> RecordsOf(p)[k]]
  <2>1. n \in Nat
    BY <1>4
  <2> HIDE DEF n
  <2>2. IsFiniteSet(1..n)
    BY <2>1, SegmentSize
  <2>3. rrs = {g[k] : k \in 1..n} /\ DOMAIN g = 1..n
    BY <1>4 DEF Range, n
  <2> HIDE DEF g, rrs
  <2>4. IsFiniteSet({g[k] : k \in 1..n})
    BY <2>2, <2>3, ImageIsFinite
  <2> QED  BY <2>3, <2>4
<1>7. ASSUME NEW rr \in rrs PROVE GoodEdits(p, RecordEdits(p, rr, redirect, d))
  BY <1>5, RecordEditsAre
<1>8. GoodEdits(p, edits)
  <2> HIDE DEF rrs
  <2>1. {RecordEdits(p, rr, redirect, d) : rr \in rrs} = {f[rr] : rr \in rrs} /\ DOMAIN f = rrs
    OBVIOUS
  <2>2. IsFiniteSet({RecordEdits(p, rr, redirect, d) : rr \in rrs})
    <3> HIDE DEF f
    <3> QED  BY <1>6, <2>1, ImageIsFinite
  <2>3. \A T \in {RecordEdits(p, rr, redirect, d) : rr \in rrs} : GoodEdits(p, T)
    BY <1>7
  <2> DEFINE all == {RecordEdits(p, rr, redirect, d) : rr \in rrs}
  <2> HIDE DEF all
  <2>4. IsFiniteSet(UNION all)
    <3>1. \A T \in all : IsFiniteSet(T)
      BY <2>3, Zenon DEF GoodEdits, all
    <3>2. IsFiniteSet(all)
      BY <2>2, Zenon DEF all
    <3> QED  BY <3>1, <3>2, FS_UNION
  <2>5. GoodEdits(p, UNION all)
    <3>1. \A T \in all : T \in SUBSET EditSet /\ \A e \in T : Spot(p, e)
      BY <2>3, Zenon DEF GoodEdits, all
    <3> QED  BY <2>4, <3>1, Zenon DEF GoodEdits
  <2> QED  BY <2>5 DEF all
<1> HIDE DEF cf, edits
<1>9. limit \in Int
  <2> DEFINE changed == hit
  <2>1. CloudflareMaxTtl \in Nat
    BY DnsResponseAssumption
  <2>2. Min({CloudflareMaxTtl, rewriteTtl}) \in Nat
    <3>1. {CloudflareMaxTtl, rewriteTtl} \subseteq Nat /\ {CloudflareMaxTtl, rewriteTtl} # {}
      BY <2>1
    <3>2. Min({CloudflareMaxTtl, rewriteTtl}) \in {CloudflareMaxTtl, rewriteTtl}
      BY <3>1, MinIsMember
    <3> QED  BY <3>1, <3>2
  <2>3. TtlLimit(cf, hit, rewriteTtl) \in {CloudflareMaxTtl, Min({CloudflareMaxTtl, rewriteTtl}), rewriteTtl}
    <3> HIDE DEF hit
    <3> QED  BY DEF TtlLimit
  <2> QED  BY <2>1, <2>2, <2>3
<1> HIDE DEF limit
<1>10. GoodEdits(p, ttls)
  <2>1. GoodEdits(p, TtlEdits(p, rrs, limit))
    <3>1. /\ TtlEdits(p, rrs, limit) \in SUBSET EditSet /\ IsFiniteSet(TtlEdits(p, rrs, limit))
          /\ \A e \in TtlEdits(p, rrs, limit) : \E rr \in rrs : e.at = rr.ttl /\ Len(e.bytes) = 4
      <4> HIDE DEF rrs
      <4> QED  BY <1>5, <1>6, <1>9, TtlEditsAre
    <3> QED  BY <3>1, Zenon DEF GoodEdits, Spot, SpotOf
  <2>2. GoodEdits(p, {})
    BY FS_EmptySet DEF GoodEdits
  <2> QED  BY <2>1, <2>2
<1>11. GoodEdits(p, flags)
  <2>1. GoodEdits(p, {flag})
    <3> DEFINE byte == At(p, 3)
               new  == ClearAd(byte)
    <3>1. byte \in 0..255
      <4>1. 3 \in Nat /\ 3 < Len(p)
        BY <1>2 DEF Header, Packets
      <4> QED  BY <4>1, ByteAt
    <3> HIDE DEF byte
    <3>2. new \in 0..255
      BY <3>1 DEF ClearAd
    <3> HIDE DEF new
    <3>3. <<new>> \in Seq(0..255) /\ Len(<<new>>) = 1
      BY <3>2
    <3>4. flag = [at |-> 3, bytes |-> <<new>>]
      BY DEF new, byte
    <3>5. flag \in EditSet /\ flag.at = 3 /\ Len(flag.bytes) = 1
      BY <3>3, <3>4 DEF EditSet
    <3> HIDE DEF flag
    <3>6. IsFiniteSet({flag})
      BY FS_Singleton
    <3> QED  BY <3>5, <3>6 DEF GoodEdits, Spot
  <2>2. GoodEdits(p, {})
    BY FS_EmptySet DEF GoodEdits
  <2> QED  BY <2>1, <2>2
<1> HIDE DEF ttls, flags
<1>12. GoodEdits(p, ttls \cup edits \cup flags)
  <2>1. GoodEdits(p, ttls \cup edits)
    BY <1>8, <1>10, GoodUnion
  <2> QED  BY <1>11, <2>1, GoodUnion
<1> QED  BY <1>1, <1>12, Zenon

-------------------------------------------------------------------------------
\* The jobs on packets.

\* The rule in force for a packet has addresses.
LEMMA RedirectTyped ==
  ASSUME job \in Jobs, job.kind = "packet"
  PROVE  RedirectOf(job.packet).v4 \in Int /\ RedirectOf(job.packet).v6 \in Int
<1> DEFINE lines == job.lines
           n     == Len(lines)
           now   == job.now
           names == {NormalizeDomain(lines[i].rule.domain) : i \in 1..n}
           B     == TablesOver(names)
           table == ParseTemporaryRedirects(lines, now)
<1>1. /\ now \in Nat /\ lines \in Seq(Range(lines))
      /\ \A i \in DOMAIN lines : IsRule(lines[i].rule) /\ lines[i].expiry \in Int
  BY JobsAssumption
<1>2. n \in Nat /\ DOMAIN lines = 1..n
  BY <1>1
<1>3. \A i \in 1..n : NormalizeDomain(lines[i].rule.domain) \in names
  OBVIOUS
<1> HIDE DEF n, names, lines, now
<1>4. LinesReadyFor(lines, n, now, names)
  <2>1. ASSUME NEW k \in 1..n, NEW t \in TablesOver(names)
        PROVE  ReadLine(t, lines[k], now) \in TablesOver(names)
    <3>1. IsRule(lines[k].rule) /\ lines[k].expiry \in Int /\ NormalizeDomain(lines[k].rule.domain) \in names
      BY <1>1, <1>2, <1>3
    <3> QED  BY <3>1, ReadLineTyped
  <2> QED  BY <1>2, <2>1 DEF LinesReadyFor
<1>5. PICK g : /\ g[0] = <<>>
               /\ \A k \in 1..n : g[k] = ReadLine(g[k - 1], lines[k], now)
               /\ table = g[n]
  BY <1>4, LinesFold
<1> DEFINE S == {k \in 0..n : g[k] \in B}
<1>6. 0 \in S
  BY <1>2, <1>5, EmptyTable
<1>7. ASSUME NEW k \in 0..(n - 1), k \in S PROVE k + 1 \in S
  <2>1. k + 1 \in 1..n /\ k + 1 \in 0..n /\ (k + 1) - 1 = k
    BY <1>2
  <2>2. g[k + 1] = ReadLine(g[k], lines[k + 1], now)
    BY <1>5, <2>1
  <2> QED  BY <1>4, <1>7, <2>1, <2>2 DEF LinesReadyFor
<1>8. n \in Nat
  BY <1>2
<1> HIDE DEF S
<1>9. 0..n \subseteq S
  BY <1>6, <1>7, <1>8, InductionUpTo
<1>10. table \in B
  BY <1>5, <1>8, <1>9 DEF S
<1> HIDE DEF table
<1>11. \A d \in DOMAIN table : table[d] \in Entries
  BY <1>10, TablesAre
<1>12. NoRedirect \in Entries
  BY DEF NoRedirect, Entries, NoAddr, NoExpiry
<1>13. \A domain : ActiveRedirect(domain, <<>>, table, now) \in Entries
  BY <1>11, <1>12 DEF ActiveRedirect
<1>14. RedirectOf(job.packet) \in Entries
  BY <1>12, <1>13, Zenon DEF RedirectOf, table, lines, now
<1> QED  BY <1>14 DEF Entries

\* App::process, for every packet and every table and lists: a response that is
\* not emptied keeps its length and the places of its records, and differs only
\* in the AD bit, in TTLs and in addresses, because an edit always lies inside
\* the data or the TTL of one record and the records lie one behind another.
THEOREM LayoutAlwaysKept == JobSpec => []LayoutKept
<1>1. ASSUME JobInv, Kept PROVE LayoutKept
  <2> DEFINE p  == job.packet
             rs == Range(RecordsOf(p))
             spans == {<<3, 1>>} \cup {<<rr.ttl, 4>> : rr \in rs}
                        \cup UNION {{<<pos, Octets4>> : pos \in Offsets4(p, rr)}
                                      \cup {<<pos, Octets6>> : pos \in Offsets6(p, rr)} : rr \in rs}
             mayChange == UNION {s[1]..(s[1] + s[2] - 1) : s \in spans}
  <2>1. /\ job \in Jobs /\ job.kind = "packet"
        /\ result = ProcessedPacket(p, RedirectOf(p), job.data, job.rewriteTtl)
        /\ ~SuppressesPacket(p, RedirectOf(p))
    BY <1>1 DEF JobInv, JobResult, Kept, Did
  <2>2. /\ p \in Packets /\ job.rewriteTtl \in Nat
        /\ Range(job.data.evasion4) \subseteq Nat /\ Range(job.data.evasion6) \subseteq Nat
    BY <2>1, JobsAssumption DEF Packets
  <2>3. RedirectOf(p).v4 \in Int /\ RedirectOf(p).v6 \in Int
    BY <2>1, RedirectTyped
  <2> HIDE DEF p
  <2>4. /\ Parses(p) => result = RewrittenPacket(p, RedirectOf(p), job.data, job.rewriteTtl)
        /\ ~Parses(p) => result = p
    BY <2>1 DEF ProcessedPacket
  <2>5. /\ Len(result) = Len(p)
        /\ ResourceRecords(result) = ResourceRecords(p)
        /\ \A i \in DOMAIN result : result[i] # p[i] => i - 1 \in mayChange
    <3>1. CASE ~Parses(p)
      BY <2>4, <3>1
    <3>2. CASE Parses(p)
      <4>1. PICK edits : GoodEdits(p, edits) /\ result = PutAll(p, edits)
        BY <2>2, <2>3, <2>4, <3>2, RewrittenIs
      <4>2. /\ Len(result) = Len(p) /\ DOMAIN result = 1..Len(p)
            /\ ResourceRecords(result) = ResourceRecords(p)
            /\ \A i \in 1..Len(p) : result[i] # p[i] => \E e \in edits : i - 1 \in Edited(e)
        BY <2>2, <3>2, <4>1, EditsKeepLayout DEF GoodEdits
      <4>3. ASSUME NEW e \in edits PROVE Edited(e) \subseteq mayChange
        <5>1. Spot(p, e)
          BY <4>1, <4>3 DEF GoodEdits
        <5>2. <<e.at, Len(e.bytes)>> \in spans
          BY <5>1 DEF Spot, SpotOf
        <5> HIDE DEF spans
        <5> QED  BY <5>2 DEF Edited
      <4> HIDE DEF mayChange
      <4> QED  BY <4>2, <4>3
    <3> QED  BY <3>1, <3>2
  <2> QED  BY <2>5, Zenon DEF LayoutKept, p
<1>2. JobInv => LayoutKept
  BY <1>1 DEF LayoutKept
<1> QED  BY <1>2, JobsDone, PTL
===============================================================================
