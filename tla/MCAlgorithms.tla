----------------------------- MODULE MCAlgorithms -----------------------------
(***************************************************************************)
(* The jobs on which the pure parts are run: list files over a 16-address  *)
(* space, rules, and packets.  The packets are written here from messages, *)
(* byte by byte, so that what is read from them can be compared with what  *)
(* was written.                                                            *)
(***************************************************************************)
EXTENDS Algorithms

\* List jobs.

Lines(ips, lengths) == [ip : ips, bits : lengths]

\* Any two lines (host bits set, nested, equal, adjacent, too long, /0).
MergePrefixes == {{a, b} : a, b \in Lines({0, 3, 4, 6, 8, 12, 15}, 0..(Bits + 1))}
                   \cup {{[ip |-> 0, bits |-> Bits], [ip |-> 1, bits |-> Bits], c} :
                           c \in Lines({2, 4, 15}, 0..Bits)}
MergeBlocked  == {{5}, {0, 2, 15}}

\* One long range across several /24s, one /24, a range inside a /24, two
\* ranges with a gap, the whole space; any set of blocked addresses.
ScanPrefixes == {{[ip |-> 0, bits |-> 0]},
                 {[ip |-> 4, bits |-> 2]},
                 {[ip |-> 2, bits |-> 3], [ip |-> 4, bits |-> 2], [ip |-> 12, bits |-> 3]}}
ScanBlocked  == SUBSET (0..11)

ListJobs == [kind : {"lists"}, prefixes : MergePrefixes, blocked : MergeBlocked]
              \cup [kind : {"lists"}, prefixes : ScanPrefixes, blocked : ScanBlocked]

-------------------------------------------------------------------------------
\* Rule jobs.  The domain of the question, spelled in three ways; another; one
\* with an empty label; one with a label that is too long, one that is too long.

Domain(text, target, address) == [domain |-> text, target |-> target, address |-> address]

Plain  == <<97, 98, 46, 99>>             \* ab.c
Upper  == <<65, 66, 46, 67, 46>>         \* AB.C.
Spaced == <<32>> \o Plain \o <<46, 46>>
Other  == <<120>>
Broken == {<<>>, <<46>>, <<97, 46, 46, 99>>, <<46, 97>>, <<97, 97, 97, 97>>,
           <<97, 46, 97, 46, 97, 46, 97>>}

Line(rule, expiry) == [rule |-> rule, expiry |-> expiry, fields |-> 2]

SomeLines ==
  {Line(Domain(text, t.target, t.address), expiry) :
     text \in {Plain, Upper}, expiry \in {1, 2, 3},
     t \in {[target |-> "v4", address |-> 13], [target |-> "v6", address |-> 9],
            [target |-> "junk", address |-> NoAddr]}}
    \cup {Line(Domain(text, "v4", 14), 3) : text \in {Other} \cup Broken}
    \cup {Line(Domain(Plain, "nothing", NoAddr), 3), Line(Domain(Upper, "v4", 14), BadExpiry),
          [Line(Domain(Upper, "v6", 14), 3) EXCEPT !.fields = 3]}

RuleJobs == [kind : {"rules"}, now : {1}, lines : {<<a, b>> : a, b \in SomeLines}]
              \cup [kind : {"rules"}, now : {1},
                    lines : {<<a, b, c>> : a, b, c \in {l \in SomeLines : l.expiry = 2 /\ l.fields = 2}}]

\* Spaces can only come from the command line.
Arguments == {[flag |-> flag, rule |-> Domain(Plain, "nothing", NoAddr)] : flag \in {"test", "other"}}
               \cup {[flag |-> "redirect", rule |-> rule] :
                       rule \in {l.rule : l \in SomeLines} \cup {Domain(Spaced, "v4", 14)}}

ArgumentJobs == [kind : {"arguments"}, hostOk : BOOLEAN, args : {<<>>} \cup {<<a, b, c>> : a, b, c \in Arguments}]

-------------------------------------------------------------------------------
\* Packet jobs.  The question begins at 12 and takes 10 bytes, so the data of a
\* first answer whose owner is a pointer begins at 34.

QName(first) == <<2, first, 98, 1, 99, 0>>     \* "ab.c", or "Ab.c"
ToQuestion   == <<192, 12>>
ToAlias      == <<192, 34>>

\* A record as it is written, and what it says.
RR(owner, name, kind, ttl, data, v4, v6) ==
  [bytes |-> owner \o Bytes(kind, 2) \o Bytes(1, 2) \o Bytes(ttl, 4) \o Bytes(Len(data), 2) \o data,
   name |-> name, kind |-> kind, ttl |-> ttl, v4 |-> v4, v6 |-> v6]

Ask(kind, ttl, data, v4, v6) == RR(ToQuestion, Plain, kind, ttl, data, v4, v6)

IP4(n) == Bytes(n, Octets4)
IP6(n) == Bytes(n, Octets6)
Param(key, value) == Bytes(key, 2) \o Bytes(Len(value), 2) \o value

Alias    == Ask(5, 7, <<1, 120, 192, 15>>, <<>>, <<>>)              \* x.c
OfAlias  == RR(ToAlias, <<120, 46, 99>>, A, 9, IP4(5), <<5>>, <<>>)
Address4 == Ask(A, 9, IP4(6), <<6>>, <<>>)
Outside  == Ask(A, 1, IP4(14), <<14>>, <<>>)
Wide     == Ask(A, 9, IP4(5) \o <<0>>, <<>>, <<>>)                  \* no IPv4 address
Address6 == RR(<<1, 90, 192, 12>>, <<122, 46>> \o Plain, AAAA, 9, IP6(6), <<>>, <<6>>)
Text     == Ask(16, 9, <<4, 192, 255, 64, 0>>, <<>>, <<>>)
OptRR    == RR(<<0>>, <<>>, OPT, 9, <<>>, <<>>, <<>>)

\* Hints of both families behind another parameter; with bytes left over; in
\* the wrong order; and records whose hints the code leaves alone: a value
\* longer than the record, a compressed target, no parameters, one byte.
Hints    == Ask(HTTPS, 9, <<0, 1, 0>> \o Param(1, <<2, 104, 50>>) \o Param(4, IP4(5) \o IP4(14))
                                      \o Param(6, IP6(6)), <<5, 14>>, <<6>>)
Leftover == Ask(SVCB, 9, <<0, 1, 1, 116, 0>> \o Param(6, IP6(5) \o <<0>>)
                                             \o Param(4, IP4(6) \o <<0>>), <<6>>, <<5>>)
TooLong  == Ask(HTTPS, 9, <<0, 1, 0>> \o Param(4, IP4(5)) \o <<0, 6, 0, 9>> \o IP6(6), <<5>>, <<>>)
Packed   == Ask(HTTPS, 9, <<0, 1, 192, 12>> \o Param(4, IP4(5)), <<>>, <<>>)
Bare     == Ask(HTTPS, 9, <<0, 0, 1, 116, 0>>, <<>>, <<>>)
Stub     == Ask(HTTPS, 9, <<1>>, <<>>, <<>>)

AnswerLists ==
  {<<>>, <<Alias, OfAlias>>, <<Alias, OfAlias, Outside>>, <<Wide>>, <<Text, Address4>>, <<Outside>>}
    \cup {<<r>> : r \in {Address4, Address6, Hints, Leftover, TooLong, Packed, Bare, Stub}}
    \cup {<<Hints, r>> : r \in {Address4, Leftover, TooLong, Packed, Stub}}
Extras == {<<>>, <<OptRR>>, <<Address4, OptRR>>, <<Hints>>}

Joined(rrs) == FoldLeft(LAMBDA bytes, rr : bytes \o rr.bytes, <<>>, rrs)

\* Flags: QR, RD, RA, AD; a name error; without AD.
Message(first, qtype, flags, answers, extras) ==
  LET rrs == answers \o extras
  IN  [packet |-> <<7, 7, 129, flags, 0, 1>> \o Bytes(Len(answers), 2) \o <<0, 0>> \o Bytes(Len(extras), 2)
                    \o QName(first) \o Bytes(qtype, 2) \o <<0, 1>> \o Joined(rrs),
       written |-> [names |-> [i \in DOMAIN rrs |-> rrs[i].name],
                    response |->
         [domain |-> Plain, qtype |-> qtype, rcodeOk |-> flags % 16 = 0, ad |-> flags \in {160, 163},
          parses |-> TRUE,
          rrs |-> [i \in DOMAIN rrs |->
            [kind |-> rrs[i].kind, answer |-> i <= Len(answers), ttl |-> rrs[i].ttl,
             v4 |-> rrs[i].v4, v6 |-> rrs[i].v6]]]]]

Messages ==
  {Message(97, q, 160, answers, extras) : q \in {A, HTTPS}, answers \in AnswerLists, extras \in Extras}
    \cup {Message(65, AAAA, flags, <<Address6>>, <<OptRR>>) : flags \in {128, 160, 163}}

\* No rule, one IPv4 address, both, and one for another domain.
RuleFiles == {<<>>, <<Line(Domain(Upper, "v4", 13), 2)>>,
              <<Line(Domain(Plain, "v4", 5), 2), Line(Domain(Upper, "v6", 9), 2)>>,
              <<Line(Domain(Other, "v4", 13), 2)>>}

NoLists   == LoadedData({}, {})
SomeLists == LoadedData({[ip |-> 4, bits |-> 2]}, {5, 14})

PacketJob(m, whole, cut) ==
  [kind : {"packet"}, packet : {m.packet}, written : {m.written}, whole : {whole}, cut : {cut},
   lines : RuleFiles, now : {1}, data : {SomeLists}, rewriteTtl : {2, 5}]
    \cup [kind : {"packet"}, packet : {m.packet}, written : {m.written}, whole : {whole}, cut : {cut},
          lines : {<<>>}, now : {1}, data : {NoLists}, rewriteTtl : {2}]

Shortened(m) == {[m EXCEPT !.packet = SubSeq(@, 1, n)] : n \in 4..(Len(m.packet) - 1)}

\* One byte of another value, anywhere behind the question.
Damaged(m) ==
  {[m EXCEPT !.packet[i] = byte] : i \in 23..Len(m.packet), byte \in {0, 1, 4, 65, 192, 255}}

Samples == {Message(97, HTTPS, 160, <<Hints>>, <<OptRR>>),
            Message(97, A, 160, <<Alias, OfAlias>>, <<OptRR>>),
            Message(97, SVCB, 160, <<Leftover>>, <<>>)}

PacketJobs ==
  UNION ({PacketJob(m, TRUE, FALSE) : m \in Messages}
           \cup {PacketJob(m, FALSE, TRUE) : m \in UNION {Shortened(s) : s \in Samples}}
           \cup {PacketJob(m, FALSE, FALSE) : m \in UNION {Damaged(s) : s \in Samples}})

MCJobs == ListJobs \cup RuleJobs \cup ArgumentJobs \cup PacketJobs
===============================================================================
