--------------------------- MODULE DnsRewrite_proofs ---------------------------
(***************************************************************************)
(* Proofs about what leaves the proxy, for any responses, redirect tables, *)
(* lists and address sizes, any number of relay tasks and any swap of the  *)
(* table or the lists between their steps.                                 *)
(***************************************************************************)
EXTENDS DnsRewrite, Algorithms_proofs

-------------------------------------------------------------------------------
\* What rewrite makes of a response.

LEMMA MinOfTwo ==
  ASSUME NEW a \in Nat, NEW b \in Nat
  PROVE  Min({a, b}) \in {a, b} /\ Min({a, b}) <= a /\ Min({a, b}) <= b
<1>1. Min({a, b}) \in {a, b}
  BY MinIsMember
<1>2. \E x \in {a, b} : \A y \in {a, b} : x =< y
  <2>1. CASE a <= b
    BY <2>1
  <2>2. CASE b <= a
    BY <2>2
  <2> QED  BY <2>1, <2>2
<1>3. \A y \in {a, b} : Min({a, b}) =< y
  BY <1>2, Zenon DEF Min
<1> QED  BY <1>1, <1>3

\* A record keeps all but its addresses.
LEMMA NewAddressesFields ==
  ASSUME NEW rr \in Records, NEW redirect, NEW d
  PROVE  LET new == NewAddresses(rr, redirect, d)
         IN  /\ new.v4 = Replaced(rr.v4, PinFor(rr, redirect).v4, d.evasion4)
             /\ new.v6 = Replaced(rr.v6, PinFor(rr, redirect).v6, d.evasion6)
             /\ new = [kind |-> rr.kind, answer |-> rr.answer, ttl |-> rr.ttl,
                       v4 |-> new.v4, v6 |-> new.v6]
<1> DEFINE four == Replaced(rr.v4, PinFor(rr, redirect).v4, d.evasion4)
           six  == Replaced(rr.v6, PinFor(rr, redirect).v6, d.evasion6)
<1>1. NewAddresses(rr, redirect, d) = [rr EXCEPT !.v4 = four, !.v6 = six]
  BY DEF NewAddresses
<1> HIDE DEF four, six
<1>2. NewAddresses(rr, redirect, d) = [kind |-> rr.kind, answer |-> rr.answer, ttl |-> rr.ttl,
                                       v4 |-> four, v6 |-> six]
  BY <1>1 DEF Records
<1> QED  BY <1>2 DEF four, six

\* A record keeps all but its TTL.
LEMMA CappedFields ==
  ASSUME NEW kind, NEW answer, NEW ttl, NEW v4, NEW v6, NEW limit
  PROVE  LET rr == [kind |-> kind, answer |-> answer, ttl |-> ttl, v4 |-> v4, v6 |-> v6]
         IN  /\ Capped(rr, limit).kind = kind /\ Capped(rr, limit).answer = answer
             /\ Capped(rr, limit).v4 = v4 /\ Capped(rr, limit).v6 = v6
             /\ Capped(rr, limit).ttl = IF kind \in PseudoKinds THEN ttl ELSE Min({ttl, limit})
BY DEF Capped

NewRecords(p, redirect, d) == [i \in DOMAIN p.rrs |-> NewAddresses(p.rrs[i], redirect, d)]

Changes(p, redirect, d) == Edits(p.rrs, NewRecords(p, redirect, d))

\* Whether, and to what, the TTLs of a response are capped.
Caps(p, redirect, d) == MustCap(HasCloudflare(p.rrs, d), Changes(p, redirect, d) # {})
LimitOf(p, redirect, d, ttl) ==
  TtlLimit(HasCloudflare(p.rrs, d), Changes(p, redirect, d) # {}, ttl)

\* What rewrite makes of each part of a response.
IsRewrite(p, redirect, d, ttl, out) ==
  /\ out.domain = p.domain /\ out.qtype = p.qtype
  /\ out.rcodeOk = p.rcodeOk /\ out.parses = p.parses
  /\ out.ad = (p.ad /\ Changes(p, redirect, d) = {})
  /\ out.rrs = [i \in DOMAIN p.rrs |-> out.rrs[i]]
  /\ \A i \in DOMAIN p.rrs :
       /\ p.rrs[i] \in Records
       /\ out.rrs[i].kind = p.rrs[i].kind
       /\ out.rrs[i].answer = p.rrs[i].answer
       /\ out.rrs[i].v4
            = Replaced(p.rrs[i].v4, PinFor(p.rrs[i], redirect).v4, d.evasion4)
       /\ out.rrs[i].v6
            = Replaced(p.rrs[i].v6, PinFor(p.rrs[i], redirect).v6, d.evasion6)
       /\ out.rrs[i].ttl =
            IF Caps(p, redirect, d) /\ p.rrs[i].kind \notin PseudoKinds
            THEN Min({p.rrs[i].ttl, LimitOf(p, redirect, d, ttl)})
            ELSE p.rrs[i].ttl

LEMMA RewrittenRecords ==
  ASSUME NEW p \in Responses, NEW redirect, NEW d, NEW ttl \in Nat,
         NEW out, out = Rewritten(p, redirect, d, ttl)
  PROVE  IsRewrite(p, redirect, d, ttl, out)
<1> DEFINE new == NewRecords(p, redirect, d)
<1>1. p \in [domain : {p.domain}, qtype : Nat, rcodeOk : BOOLEAN, ad : BOOLEAN,
             parses : BOOLEAN, rrs : Seq(Records)]
  BY DnsRewriteAssumption
<1>2. out = [p EXCEPT !.rrs = [i \in DOMAIN new |->
                IF Caps(p, redirect, d) THEN Capped(new[i], LimitOf(p, redirect, d, ttl))
                ELSE new[i]],
              !.ad = AdAfter(@, Changes(p, redirect, d) # {})]
  BY Zenon DEF Rewritten, Caps, LimitOf, Changes, NewRecords
<1>3. DOMAIN new = DOMAIN p.rrs
  BY DEF NewRecords
<1> HIDE DEF new
<1>4. /\ out.domain = p.domain /\ out.qtype = p.qtype
      /\ out.rcodeOk = p.rcodeOk /\ out.parses = p.parses
      /\ out.rrs = [i \in DOMAIN p.rrs |->
           IF Caps(p, redirect, d) THEN Capped(new[i], LimitOf(p, redirect, d, ttl))
           ELSE new[i]]
      /\ out.ad = AdAfter(p.ad, Changes(p, redirect, d) # {})
  BY <1>1, <1>2, <1>3
<1>5. ASSUME NEW i \in DOMAIN p.rrs
      PROVE  /\ p.rrs[i] \in Records
             /\ out.rrs[i].kind = p.rrs[i].kind
             /\ out.rrs[i].answer = p.rrs[i].answer
             /\ out.rrs[i].v4
                  = Replaced(p.rrs[i].v4, PinFor(p.rrs[i], redirect).v4, d.evasion4)
             /\ out.rrs[i].v6
                  = Replaced(p.rrs[i].v6, PinFor(p.rrs[i], redirect).v6, d.evasion6)
             /\ out.rrs[i].ttl =
                  IF Caps(p, redirect, d) /\ p.rrs[i].kind \notin PseudoKinds
                  THEN Min({p.rrs[i].ttl, LimitOf(p, redirect, d, ttl)})
                  ELSE p.rrs[i].ttl
  <2> DEFINE rr == p.rrs[i]
  <2>1. rr \in Records
    BY <1>1
  <2>2. new[i] = NewAddresses(rr, redirect, d)
    BY DEF new, NewRecords
  <2> HIDE DEF rr
  <2>3. /\ new[i].v4 = Replaced(rr.v4, PinFor(rr, redirect).v4, d.evasion4)
        /\ new[i].v6 = Replaced(rr.v6, PinFor(rr, redirect).v6, d.evasion6)
        /\ new[i] = [kind |-> rr.kind, answer |-> rr.answer, ttl |-> rr.ttl,
                     v4 |-> new[i].v4, v6 |-> new[i].v6]
    BY <2>1, <2>2, NewAddressesFields
  <2>4. CASE Caps(p, redirect, d)
    <3>1. out.rrs[i] = Capped(new[i], LimitOf(p, redirect, d, ttl))
      BY <1>4, <2>4
    <3> DEFINE limit == LimitOf(p, redirect, d, ttl)
               v4 == new[i].v4
               v6 == new[i].v6
    <3> HIDE DEF limit, v4, v6
    <3>2. new[i] = [kind |-> rr.kind, answer |-> rr.answer, ttl |-> rr.ttl, v4 |-> v4, v6 |-> v6]
      BY <2>3 DEF v4, v6
    <3>3. out.rrs[i] = Capped([kind |-> rr.kind, answer |-> rr.answer, ttl |-> rr.ttl,
                               v4 |-> v4, v6 |-> v6], limit)
      BY <3>1, <3>2, Zenon DEF limit
    <3>4. /\ out.rrs[i].kind = rr.kind /\ out.rrs[i].answer = rr.answer
          /\ out.rrs[i].v4 = v4 /\ out.rrs[i].v6 = v6
          /\ out.rrs[i].ttl = IF rr.kind \in PseudoKinds THEN rr.ttl ELSE Min({rr.ttl, limit})
      BY <3>3 DEF Capped
    <3> QED  BY <2>1, <2>3, <2>4, <3>4 DEF rr, limit, v4, v6
  <2>5. CASE ~Caps(p, redirect, d)
    <3>1. out.rrs[i] = new[i]
      BY <1>4, <2>5
    <3>2. new[i].kind = rr.kind /\ new[i].answer = rr.answer /\ new[i].ttl = rr.ttl
      BY <2>3
    <3> QED  BY <2>1, <2>3, <2>5, <3>1, <3>2 DEF rr
  <2> QED  BY <2>4, <2>5
<1>6. AdAfter(p.ad, Changes(p, redirect, d) # {}) = (p.ad /\ Changes(p, redirect, d) = {})
  BY DEF AdAfter
<1>7. out.rrs = [i \in DOMAIN p.rrs |-> out.rrs[i]]
  BY <1>4
<1> QED  BY <1>4, <1>5, <1>6, <1>7 DEF IsRewrite

\* Every record keeps its section, so a rewritten response has the same answers.
LEMMA SameAnswers ==
  ASSUME NEW p \in Responses, NEW redirect, NEW d, NEW ttl \in Nat,
         NEW out, out = Rewritten(p, redirect, d, ttl)
  PROVE  Answers(out) = Answers(p)
<1>1. /\ out.rrs = [i \in DOMAIN p.rrs |-> out.rrs[i]]
      /\ \A i \in DOMAIN p.rrs : out.rrs[i].answer = p.rrs[i].answer
  <2>1. IsRewrite(p, redirect, d, ttl, out)
    BY RewrittenRecords
  <2> QED  BY <2>1 DEF IsRewrite
<1> QED  BY <1>1 DEF Answers

\* The edits that rewrite counts before it caps TTLs are those that the packet
\* shows once it has left.
LEMMA SameEdits ==
  ASSUME NEW p \in Responses, NEW redirect, NEW d, NEW ttl \in Nat,
         NEW out, out = Rewritten(p, redirect, d, ttl)
  PROVE  Edits(p.rrs, out.rrs) = Changes(p, redirect, d)
<1> DEFINE new == NewRecords(p, redirect, d)
<1>1. \A i \in DOMAIN p.rrs : out.rrs[i].v4 = new[i].v4 /\ out.rrs[i].v6 = new[i].v6
  <2> TAKE i \in DOMAIN p.rrs
  <2>1. /\ p.rrs[i] \in Records
        /\ out.rrs[i].v4 = Replaced(p.rrs[i].v4, PinFor(p.rrs[i], redirect).v4, d.evasion4)
        /\ out.rrs[i].v6 = Replaced(p.rrs[i].v6, PinFor(p.rrs[i], redirect).v6, d.evasion6)
    <3>1. IsRewrite(p, redirect, d, ttl, out)
      BY RewrittenRecords
    <3> QED  BY <3>1 DEF IsRewrite
  <2>2. new[i] = NewAddresses(p.rrs[i], redirect, d)
    BY DEF NewRecords
  <2> HIDE DEF new
  <2> QED  BY <2>1, <2>2, NewAddressesFields
<1> HIDE DEF new
<1> DEFINE ChangesAt(recs, i) ==
             {<<i, "v4", j>> : j \in {k \in DOMAIN p.rrs[i].v4 : p.rrs[i].v4[k] # recs[i].v4[k]}}
               \cup
             {<<i, "v6", j>> : j \in {k \in DOMAIN p.rrs[i].v6 : p.rrs[i].v6[k] # recs[i].v6[k]}}
<1>2. \A i \in DOMAIN p.rrs : ChangesAt(out.rrs, i) = ChangesAt(new, i)
  BY <1>1
<1>3. Edits(p.rrs, out.rrs) = UNION {ChangesAt(out.rrs, i) : i \in DOMAIN p.rrs}
  BY DEF Edits
<1>4. Edits(p.rrs, new) = UNION {ChangesAt(new, i) : i \in DOMAIN p.rrs}
  BY DEF Edits
<1> HIDE DEF ChangesAt
<1>5. {ChangesAt(out.rrs, i) : i \in DOMAIN p.rrs} = {ChangesAt(new, i) : i \in DOMAIN p.rrs}
  BY <1>2
<1> QED  BY <1>3, <1>4, <1>5 DEF new, Changes

LEMMA FiniteImage ==
  ASSUME NEW f, IsFiniteSet(DOMAIN f)
  PROVE  IsFiniteSet({f[x] : x \in DOMAIN f})
<1> DEFINE T == {f[x] : x \in DOMAIN f}
           g == [x \in DOMAIN f |-> f[x]]
<1>1. g \in Surjection(DOMAIN f, T)
  BY DEF Surjection
<1> QED  BY <1>1, FS_Surjection

LEMMA SeqDomainFinite ==
  ASSUME NEW S, NEW s \in Seq(S)
  PROVE  IsFiniteSet(DOMAIN s)
<1>1. DOMAIN s = 1..Len(s) /\ Len(s) \in Nat
  OBVIOUS
<1> QED  BY <1>1, SegmentSize

LEMMA EditsFinite ==
  ASSUME NEW p \in Responses, NEW new
  PROVE  IsFiniteSet(Edits(p.rrs, new))
<1> DEFINE four(i) == {k \in DOMAIN p.rrs[i].v4 : p.rrs[i].v4[k] # new[i].v4[k]}
           six(i)  == {k \in DOMAIN p.rrs[i].v6 : p.rrs[i].v6[k] # new[i].v6[k]}
           ChangesAt(i) == {<<i, "v4", j>> : j \in four(i)} \cup {<<i, "v6", j>> : j \in six(i)}
           at == [i \in DOMAIN p.rrs |-> ChangesAt(i)]
<1>1. p.rrs \in Seq(Records)
  BY DnsRewriteAssumption
<1>2. ASSUME NEW i \in DOMAIN p.rrs PROVE IsFiniteSet(ChangesAt(i))
  <2>1. p.rrs[i].v4 \in Seq(Nat) /\ p.rrs[i].v6 \in Seq(Nat)
    <3>1. p.rrs[i] \in Records
      BY <1>1
    <3> QED  BY <3>1 DEF Records
  <2>2. IsFiniteSet(four(i)) /\ IsFiniteSet(six(i))
    <3>1. IsFiniteSet(DOMAIN p.rrs[i].v4) /\ IsFiniteSet(DOMAIN p.rrs[i].v6)
      BY <2>1, SeqDomainFinite
    <3> QED  BY <3>1, FS_Subset
  <2> DEFINE f == [j \in four(i) |-> <<i, "v4", j>>]
             g == [j \in six(i) |-> <<i, "v6", j>>]
  <2>3. IsFiniteSet({f[j] : j \in DOMAIN f}) /\ IsFiniteSet({g[j] : j \in DOMAIN g})
    <3>1. DOMAIN f = four(i) /\ DOMAIN g = six(i)
      OBVIOUS
    <3> HIDE DEF f, g, four, six
    <3> QED  BY <2>2, <3>1, FiniteImage
  <2>4. /\ {f[j] : j \in DOMAIN f} = {<<i, "v4", j>> : j \in four(i)}
        /\ {g[j] : j \in DOMAIN g} = {<<i, "v6", j>> : j \in six(i)}
    OBVIOUS
  <2> QED  BY <2>3, <2>4, FS_Union
<1>3. IsFiniteSet(DOMAIN p.rrs)
  BY <1>1, SeqDomainFinite
<1>4. Edits(p.rrs, new) = UNION {ChangesAt(i) : i \in DOMAIN p.rrs}
  BY DEF Edits
<1> HIDE DEF ChangesAt
<1>5. IsFiniteSet({at[i] : i \in DOMAIN at})
  BY <1>3, FiniteImage
<1>6. {at[i] : i \in DOMAIN at} = {ChangesAt(i) : i \in DOMAIN p.rrs}
  OBVIOUS
<1>7. \A T \in {ChangesAt(i) : i \in DOMAIN p.rrs} : IsFiniteSet(T)
  BY <1>2
<1> QED  BY <1>4, <1>5, <1>6, <1>7, FS_UNION

LEMMA AnswersFinite ==
  ASSUME NEW p \in Responses
  PROVE  IsFiniteSet(Answers(p)) /\ Cardinality(Answers(p)) \in Nat
<1>1. p.rrs \in Seq(Records)
  BY DnsRewriteAssumption
<1>2. IsFiniteSet(DOMAIN p.rrs)
  BY <1>1, SeqDomainFinite
<1> QED  BY <1>2, FS_Subset, FS_CardinalityType DEF Answers

\* The emptied response has no answer and no AD flag, and parses as it did.
LEMMA EmptiedFields ==
  ASSUME NEW p \in Responses
  PROVE  Answers(Emptied(p)) = {} /\ Emptied(p).ad = FALSE /\ Emptied(p).domain = p.domain
<1> DEFINE opts == SelectSeq(p.rrs, LAMBDA rr : rr.kind = OPT)
           rrs  == [i \in DOMAIN opts |-> [kind |-> OPT, answer |-> FALSE, ttl |-> opts[i].ttl,
                                      v4 |-> opts[i].v4, v6 |-> opts[i].v6]]
<1>1. p \in [domain : {p.domain}, qtype : Nat, rcodeOk : BOOLEAN, ad : BOOLEAN,
             parses : BOOLEAN, rrs : Seq(Records)]
  BY DnsRewriteAssumption
<1>2. Emptied(p) = [p EXCEPT !.ad = FALSE, !.rrs = rrs]
  BY DEF Emptied
<1> HIDE DEF opts
<1>3. Emptied(p).rrs = rrs /\ Emptied(p).ad = FALSE /\ Emptied(p).domain = p.domain
  BY <1>1, <1>2
<1>4. \A i \in DOMAIN rrs : rrs[i].answer # TRUE
  OBVIOUS
<1> HIDE DEF rrs
<1> QED  BY <1>3, <1>4 DEF Answers

-------------------------------------------------------------------------------
\* What a task holds at each step.

Loaded == {DataNew(lists) : lists \in ListVersions}
Tables == RedirectTables \cup {NoTable}
Steps  == {"suppressTable", "suppress", "rewriteData", "rewriteTable", "rewrite", "send"}

\* The rule for a response, had it been looked up at some time.
RuleAt(t, time) == ActiveRedirect(t.orig.domain, TestRedirects, t.table, time)

\* The task let its response through, at some time up to now, by its snapshot.
Spared(t, now) == \E time \in t.since..now : ~MustSuppress(t.orig, RuleAt(t, time))

\* The three ways to the client's socket: emptied before the lists were read,
\* unreadable, or rewritten by the rule in force at some time since it came.
Outcome(t, now, ttl) ==
  \/ t.data = NoData /\ t.orig.parses /\ Answers(t.orig) # {} /\ t.packet = Emptied(t.orig)
  \/ ~t.orig.parses /\ t.packet = t.orig
  \/ /\ t.orig.parses /\ t.data \in Loaded
     /\ ~t.moved => Spared(t, now)
     /\ \E time \in t.since..now : t.packet = Rewritten(t.orig, RuleAt(t, time), t.data, ttl)

\* A snapshot of the table that nothing has replaced since is the table.
InHand(t, now, table, ttl) ==
  /\ t \in [pc : Steps, orig : Responses, packet : {t.packet}, table : Tables,
            data : {t.data}, since : 0..now, moved : BOOLEAN]
  /\ t.pc # "send" => t.packet = t.orig
  /\ t.pc \in {"suppressTable", "suppress", "rewriteData"} => t.data = NoData
  /\ t.pc \in {"rewriteTable", "rewrite"} => t.data \in Loaded
  /\ t.pc # "suppressTable" /\ ~t.moved => t.table = table
  /\ t.pc \in {"rewriteData", "rewriteTable", "rewrite"} /\ ~t.moved => Spared(t, now)
  /\ t.pc = "send" => Outcome(t, now, ttl)

Types ==
  /\ rewriteTtl \in Nat /\ clock \in Nat
  /\ temporary \in Tables /\ data \in Loaded
  /\ task = [w \in Workers |-> task[w]]

\* The inductive invariant of the properties of the packets.
IndInv ==
  /\ Types
  /\ \A w \in Workers : task[w] = Idle \/ InHand(task[w], clock, temporary, rewriteTtl)

\* The one of the counters.
CountsInv ==
  /\ counters \in [total : Nat, evadedQueries : Nat, evadedRecords : Nat]
  /\ sent.responses \in Nat /\ sent.changed \in Nat /\ sent.edits \in Nat
  /\ \A w \in Leaving : Difference(task[w].orig, task[w].packet) \in Nat
  /\ ResponsesCounted
  /\ RecordsCounted

\* A rule still in force now was in force at every earlier time.
LEMMA InForceEarlier ==
  ASSUME NEW r, r.expires \in Int, NEW then \in Nat, NEW now \in Nat, then <= now,
         InForce(r, now)
  PROVE  InForce(r, then)
BY DEF InForce

\* Time passing, and the table being replaced, leave what is in hand as it was.
LEMMA InHandLater ==
  ASSUME NEW t, NEW now \in Nat, NEW later \in Nat, now <= later, NEW table, NEW ttl,
         InHand(t, now, table, ttl)
  PROVE  InHand(t, later, table, ttl)
<1>1. \A time \in t.since..now : time \in t.since..later
  BY DEF InHand
<1>2. t.since \in 0..later
  BY DEF InHand
<1>3. Spared(t, now) => Spared(t, later)
  BY <1>1 DEF Spared
<1>4. Outcome(t, now, ttl) => Outcome(t, later, ttl)
  BY <1>1, <1>3 DEF Outcome
<1> QED  BY <1>2, <1>3, <1>4 DEF InHand

LEMMA InHandMoved ==
  ASSUME NEW t, NEW now, NEW table, NEW newTable, NEW ttl, InHand(t, now, table, ttl)
  PROVE  InHand([t EXCEPT !.moved = TRUE], now, newTable, ttl)
<1> DEFINE u == [t EXCEPT !.moved = TRUE]
<1>1. /\ u.pc = t.pc /\ u.orig = t.orig /\ u.packet = t.packet /\ u.table = t.table
      /\ u.data = t.data /\ u.since = t.since /\ u.moved = TRUE
  BY DEF InHand
<1>2. u \in [pc : Steps, orig : Responses, packet : {u.packet}, table : Tables,
            data : {u.data}, since : 0..now, moved : BOOLEAN]
  BY DEF InHand
<1> HIDE DEF u
<1>3. \A time : RuleAt(u, time) = RuleAt(t, time)
  BY <1>1 DEF RuleAt
<1>4. Outcome(t, now, ttl) => Outcome(u, now, ttl)
  BY <1>1, <1>3 DEF Outcome
<1>5. InHand(u, now, newTable, ttl)
  BY <1>1, <1>2, <1>4 DEF InHand
<1> QED  BY <1>5 DEF u

\* A step of one task.
LEMMA OneTask ==
  ASSUME IndInv, NEW w \in Workers, NEW t,
         task' = [task EXCEPT ![w] = t],
         t = Idle \/ InHand(t, clock, temporary, rewriteTtl),
         UNCHANGED <<rewriteTtl, temporary, data, clock>>
  PROVE  IndInv'
<1>1. \A v \in Workers : task'[v] = IF v = w THEN t ELSE task[v]
  BY DEF IndInv, Types
<1>2. task' = [v \in Workers |-> task'[v]]
  BY DEF IndInv, Types
<1> QED  BY <1>1, <1>2 DEF IndInv, Types

-------------------------------------------------------------------------------
\* The steps.

LEMMA InitIndInv == Init => IndInv
<1> SUFFICES ASSUME Init PROVE IndInv
  OBVIOUS
<1>1. task = [w \in Workers |-> task[w]] /\ \A w \in Workers : task[w] = Idle
  BY DEF Init
<1>2. rewriteTtl \in Nat /\ clock \in Nat /\ temporary \in Tables /\ data \in Loaded
  BY DnsRewriteAssumption DEF Init, Loaded, Tables
<1> QED  BY <1>1, <1>2 DEF IndInv, Types

LEMMA ReceiveKeeps == ASSUME IndInv, NEW w \in Workers, Receive(w) PROVE IndInv'
<1>1. PICK p \in Responses :
        task' = [task EXCEPT ![w] =
          [pc |-> "suppressTable", orig |-> p, packet |-> p, table |-> NoTable,
           data |-> NoData, since |-> clock, moved |-> FALSE]]
  BY DEF Receive
<1> DEFINE t == [pc |-> "suppressTable", orig |-> p, packet |-> p, table |-> NoTable,
                 data |-> NoData, since |-> clock, moved |-> FALSE]
<1>2. InHand(t, clock, temporary, rewriteTtl)
  <2>1. /\ t.pc = "suppressTable" /\ t.orig = p /\ t.packet = p /\ t.table = NoTable
        /\ t.data = NoData /\ t.since = clock /\ t.moved = FALSE
    OBVIOUS
  <2>2. t \in [pc : Steps, orig : Responses, packet : {t.packet}, table : Tables,
              data : {t.data}, since : 0..clock, moved : BOOLEAN]
    BY DEF IndInv, Types, Steps, Tables
  <2> HIDE DEF t
  <2> QED  BY <2>1, <2>2 DEF InHand
<1> HIDE DEF t
<1>3. task' = [task EXCEPT ![w] = t]
  BY <1>1 DEF t
<1>4. UNCHANGED <<rewriteTtl, temporary, data, clock>>
  BY DEF Receive
<1> QED  BY <1>2, <1>3, <1>4, OneTask

\* What a task that is not idle holds.
LEMMA BusyTask ==
  ASSUME IndInv, NEW w \in Workers, task[w].pc # "idle"
  PROVE  InHand(task[w], clock, temporary, rewriteTtl)
BY DEF IndInv, Idle

LEMMA SuppressTableKeeps == ASSUME IndInv, NEW w \in Workers, SuppressTable(w) PROVE IndInv'
<1> DEFINE o == task[w]
           t == [o EXCEPT !.pc = "suppress", !.table = temporary]
<1>1. o.pc = "suppressTable" /\ task' = [task EXCEPT ![w] = t]
  BY DEF SuppressTable
<1>2. InHand(o, clock, temporary, rewriteTtl)
  BY <1>1, BusyTask
<1>3. InHand(t, clock, temporary, rewriteTtl)
  <2>1. /\ t.pc = "suppress" /\ t.orig = o.orig /\ t.packet = o.packet /\ t.table = temporary
        /\ t.data = o.data /\ t.since = o.since /\ t.moved = o.moved
    BY <1>2 DEF InHand
  <2>2. t \in [pc : Steps, orig : Responses, packet : {t.packet}, table : Tables,
              data : {t.data}, since : 0..clock, moved : BOOLEAN]
    BY <1>2 DEF InHand, IndInv, Types, Steps
  <2> HIDE DEF t, o
  <2> QED  BY <1>1, <1>2, <2>1, <2>2 DEF InHand
<1>4. UNCHANGED <<rewriteTtl, temporary, data, clock>>
  BY DEF SuppressTable
<1> HIDE DEF t
<1> QED  BY <1>1, <1>3, <1>4, OneTask

LEMMA RewriteDataKeeps == ASSUME IndInv, NEW w \in Workers, RewriteData(w) PROVE IndInv'
<1> DEFINE o == task[w]
           t == [o EXCEPT !.pc = "rewriteTable", !.data = data]
<1>1. o.pc = "rewriteData" /\ task' = [task EXCEPT ![w] = t]
  BY DEF RewriteData
<1>2. InHand(o, clock, temporary, rewriteTtl)
  BY <1>1, BusyTask
<1>3. InHand(t, clock, temporary, rewriteTtl)
  <2>1. /\ t.pc = "rewriteTable" /\ t.orig = o.orig /\ t.packet = o.packet
        /\ t.table = o.table /\ t.data = data /\ t.since = o.since /\ t.moved = o.moved
    BY <1>2 DEF InHand
  <2>2. t \in [pc : Steps, orig : Responses, packet : {t.packet}, table : Tables,
              data : {t.data}, since : 0..clock, moved : BOOLEAN]
    BY <1>2 DEF InHand, Steps
  <2>3. data \in Loaded
    BY DEF IndInv, Types
  <2> HIDE DEF t, o
  <2>4. Spared(o, clock) => Spared(t, clock)
    BY <2>1 DEF Spared, RuleAt
  <2> QED  BY <1>1, <1>2, <2>1, <2>2, <2>3, <2>4 DEF InHand
<1>4. UNCHANGED <<rewriteTtl, temporary, data, clock>>
  BY DEF RewriteData
<1> HIDE DEF t
<1> QED  BY <1>1, <1>3, <1>4, OneTask

LEMMA RewriteTableKeeps == ASSUME IndInv, NEW w \in Workers, RewriteTable(w) PROVE IndInv'
<1> DEFINE o == task[w]
           t == [o EXCEPT !.pc = "rewrite", !.table = temporary]
<1>1. o.pc = "rewriteTable" /\ task' = [task EXCEPT ![w] = t]
  BY DEF RewriteTable
<1>2. InHand(o, clock, temporary, rewriteTtl)
  BY <1>1, BusyTask
<1>3. InHand(t, clock, temporary, rewriteTtl)
  <2>1. /\ t.pc = "rewrite" /\ t.orig = o.orig /\ t.packet = o.packet
        /\ t.table = temporary /\ t.data = o.data /\ t.since = o.since /\ t.moved = o.moved
    BY <1>2 DEF InHand
  <2>2. t \in [pc : Steps, orig : Responses, packet : {t.packet}, table : Tables,
              data : {t.data}, since : 0..clock, moved : BOOLEAN]
    BY <1>2 DEF InHand, IndInv, Types, Steps
  <2> HIDE DEF t, o
  <2>3. o.moved \/ (o.table = temporary /\ Spared(o, clock))
    BY <1>1, <1>2 DEF InHand
  <2>4. o.table = temporary /\ Spared(o, clock) => Spared(t, clock)
    BY <2>1 DEF Spared, RuleAt
  <2> QED  BY <1>1, <1>2, <2>1, <2>2, <2>3, <2>4 DEF InHand
<1>4. UNCHANGED <<rewriteTtl, temporary, data, clock>>
  BY DEF RewriteTable
<1> HIDE DEF t
<1> QED  BY <1>1, <1>3, <1>4, OneTask

LEMMA SuppressKeeps == ASSUME IndInv, NEW w \in Workers, Suppress(w) PROVE IndInv'
<1> DEFINE o == task[w]
<1>1. o.pc = "suppress" /\ UNCHANGED <<rewriteTtl, temporary, data, clock>>
  BY DEF Suppress
<1>2. InHand(o, clock, temporary, rewriteTtl)
  BY <1>1, BusyTask
<1>3. o.packet = o.orig /\ clock \in o.since..clock
  BY <1>1, <1>2 DEF InHand, IndInv, Types
<1>4. RuleFor(w) = RuleAt(o, clock)
  BY <1>3 DEF RuleFor, RuleAt
<1>5. CASE MustSuppress(o.packet, RuleFor(w))
  <2> DEFINE t == [o EXCEPT !.pc = "send", !.packet = Emptied(o.packet)]
  <2>1. task' = [task EXCEPT ![w] = t]
    BY <1>5 DEF Suppress
  <2>2. InHand(t, clock, temporary, rewriteTtl)
    <3>1. /\ t.pc = "send" /\ t.orig = o.orig /\ t.packet = Emptied(o.orig)
          /\ t.table = o.table /\ t.data = o.data /\ t.since = o.since /\ t.moved = o.moved
      BY <1>2, <1>3 DEF InHand
    <3>2. t \in [pc : Steps, orig : Responses, packet : {t.packet}, table : Tables,
                data : {t.data}, since : 0..clock, moved : BOOLEAN]
      BY <1>2 DEF InHand, Steps
    <3> HIDE DEF t, o
    <3>3. Outcome(t, clock, rewriteTtl)
      BY <1>1, <1>2, <1>3, <1>5, <3>1 DEF Outcome, InHand, MustSuppress
    <3> QED  BY <1>1, <1>2, <3>1, <3>2, <3>3 DEF InHand
  <2> HIDE DEF t
  <2> QED  BY <1>1, <2>1, <2>2, OneTask
<1>6. CASE ~MustSuppress(o.packet, RuleFor(w))
  <2> DEFINE t == [o EXCEPT !.pc = "rewriteData"]
  <2>1. task' = [task EXCEPT ![w] = t]
    BY <1>6 DEF Suppress
  <2>2. InHand(t, clock, temporary, rewriteTtl)
    <3>1. /\ t.pc = "rewriteData" /\ t.orig = o.orig /\ t.packet = o.packet
          /\ t.table = o.table /\ t.data = o.data /\ t.since = o.since /\ t.moved = o.moved
      BY <1>2 DEF InHand
    <3>2. t \in [pc : Steps, orig : Responses, packet : {t.packet}, table : Tables,
                data : {t.data}, since : 0..clock, moved : BOOLEAN]
      BY <1>2 DEF InHand, Steps
    <3> HIDE DEF t, o
    <3>3. Spared(t, clock)
      BY <1>3, <1>4, <1>6, <3>1 DEF Spared, RuleAt
    <3> QED  BY <1>1, <1>2, <3>1, <3>2, <3>3 DEF InHand
  <2> HIDE DEF t
  <2> QED  BY <1>1, <2>1, <2>2, OneTask
<1> QED  BY <1>5, <1>6

LEMMA RewriteKeeps == ASSUME IndInv, NEW w \in Workers, Rewrite(w) PROVE IndInv'
<1> DEFINE o == task[w]
           out == IF o.packet.parses
                  THEN Rewritten(o.packet, RuleFor(w), o.data, rewriteTtl) ELSE o.packet
           t == [o EXCEPT !.pc = "send", !.packet = out]
<1>1. o.pc = "rewrite" /\ UNCHANGED <<rewriteTtl, temporary, data, clock>>
  BY DEF Rewrite
<1>2. InHand(o, clock, temporary, rewriteTtl)
  BY <1>1, BusyTask
<1>3. o.packet = o.orig /\ clock \in o.since..clock
  BY <1>1, <1>2 DEF InHand, IndInv, Types
<1>4. RuleFor(w) = RuleAt(o, clock)
  BY <1>3 DEF RuleFor, RuleAt
<1>5. task' = [task EXCEPT ![w] = t]
  BY DEF Rewrite
<1>6. InHand(t, clock, temporary, rewriteTtl)
  <2>1. /\ t.pc = "send" /\ t.orig = o.orig /\ t.packet = out
        /\ t.table = o.table /\ t.data = o.data /\ t.since = o.since /\ t.moved = o.moved
    BY <1>2 DEF InHand
  <2>2. t \in [pc : Steps, orig : Responses, packet : {t.packet}, table : Tables,
              data : {t.data}, since : 0..clock, moved : BOOLEAN]
    BY <1>2 DEF InHand, Steps
  <2>3. /\ ~o.orig.parses => out = o.orig
        /\ o.orig.parses => out = Rewritten(o.orig, RuleAt(o, clock), o.data, rewriteTtl)
    BY <1>3, <1>4
  <2>4. o.data \in Loaded /\ (~o.moved => Spared(o, clock) /\ o.table = temporary)
    BY <1>1, <1>2 DEF InHand
  <2> HIDE DEF t, o, out
  <2>5. /\ \A time : RuleAt(t, time) = RuleAt(o, time)
        /\ Spared(o, clock) => Spared(t, clock)
    BY <2>1 DEF Spared, RuleAt
  <2>6. Outcome(t, clock, rewriteTtl)
    BY <1>3, <2>1, <2>3, <2>4, <2>5 DEF Outcome
  <2> QED  BY <2>1, <2>2, <2>4, <2>6 DEF InHand
<1> HIDE DEF t
<1> QED  BY <1>1, <1>5, <1>6, OneTask

LEMMA SendKeeps == ASSUME IndInv, NEW w \in Workers, Send(w) PROVE IndInv'
<1>1. task' = [task EXCEPT ![w] = Idle] /\ UNCHANGED <<rewriteTtl, temporary, data, clock>>
  BY DEF Send
<1> QED  BY <1>1, OneTask

LEMMA InstallRedirectsKeeps == ASSUME IndInv, InstallRedirects PROVE IndInv'
<1>1. /\ temporary' \in Tables
      /\ task' = [w \in Workers |-> task'[w]]
      /\ \A w \in Workers :
           task'[w] = IF task[w] = Idle THEN Idle ELSE [task[w] EXCEPT !.moved = TRUE]
      /\ UNCHANGED <<rewriteTtl, data, clock>>
  BY DEF InstallRedirects, Tables
<1>2. ASSUME NEW w \in Workers
      PROVE  task'[w] = Idle \/ InHand(task'[w], clock, temporary', rewriteTtl)
  BY <1>1, InHandMoved DEF IndInv
<1> QED  BY <1>1, <1>2 DEF IndInv, Types

LEMMA ReloadDataKeeps == ASSUME IndInv, ReloadData PROVE IndInv'
BY DEF ReloadData, IndInv, Types, Loaded

LEMMA TickKeeps == ASSUME IndInv, Tick PROVE IndInv'
<1>1. clock' = clock + 1 /\ UNCHANGED <<rewriteTtl, temporary, data, task>>
  BY DEF Tick
<1>2. clock' \in Nat /\ clock <= clock'
  BY <1>1 DEF IndInv, Types
<1>3. ASSUME NEW w \in Workers
      PROVE  task[w] = Idle \/ InHand(task[w], clock', temporary, rewriteTtl)
  BY <1>2, InHandLater DEF IndInv, Types
<1> QED  BY <1>1, <1>2, <1>3 DEF IndInv, Types

LEMMA NextIndInv == IndInv /\ [Next]_vars => IndInv'
<1> SUFFICES ASSUME IndInv, [Next]_vars PROVE IndInv'
  OBVIOUS
<1>1. CASE UNCHANGED vars
  BY <1>1 DEF vars, IndInv, Types
<1> QED
  BY <1>1, ReceiveKeeps, SuppressTableKeeps, SuppressKeeps, RewriteDataKeeps, RewriteTableKeeps,
     RewriteKeeps, SendKeeps, InstallRedirectsKeeps, ReloadDataKeeps, TickKeeps DEF Next

LEMMA IndInvHolds == Spec => []IndInv
BY InitIndInv, NextIndInv, PTL DEF Spec

-------------------------------------------------------------------------------
\* What leaves.

\* A replacement is not blocked, and only a Cloudflare address has one.
LEMMA LoadedHops ==
  ASSUME NEW d \in Loaded
  PROVE  /\ \A a \in DOMAIN d.evasion4 :
              d.evasion4[a] \notin d.blocked4 /\ Containing(d.cf4, a) # NoRange
         /\ \A a \in DOMAIN d.evasion6 :
              d.evasion6[a] \notin d.blocked6 /\ Containing(d.cf6, a) # NoRange
<1>1. PICK lists \in ListVersions : d = DataNew(lists)
  BY DEF Loaded
<1>2. /\ d.blocked4 = lists.blocked4 /\ d.blocked6 = lists.blocked6
      /\ d.cf4 = lists.cf4 /\ d.cf6 = lists.cf6
  BY <1>1 DEF DataNew
<1>3. ASSUME NEW a \in DOMAIN d.evasion4
      PROVE  d.evasion4[a] \notin d.blocked4 /\ Containing(d.cf4, a) # NoRange
  <2>1. /\ ScanEvasiveV4(a, lists.cf4, lists.blocked4) # NoAddr
        /\ d.evasion4[a] = ScanEvasiveV4(a, lists.cf4, lists.blocked4)
    BY <1>1 DEF DataNew
  <2> QED  BY <1>2, <2>1, ScanV4IsFree
<1>4. ASSUME NEW a \in DOMAIN d.evasion6
      PROVE  d.evasion6[a] \notin d.blocked6 /\ Containing(d.cf6, a) # NoRange
  <2>1. /\ ScanEvasiveV6(a, lists.cf6, lists.blocked6) # NoAddr
        /\ d.evasion6[a] = ScanEvasiveV6(a, lists.cf6, lists.blocked6)
    BY <1>1 DEF DataNew
  <2> QED  BY <1>2, <2>1, ScanV6IsFree
<1> QED  BY <1>3, <1>4

LEMMA LeavingTask ==
  ASSUME IndInv, NEW w \in Leaving
  PROVE  /\ w \in Workers
         /\ InHand(task[w], clock, temporary, rewriteTtl)
         /\ Outcome(task[w], clock, rewriteTtl)
<1>1. w \in Workers /\ task[w].pc = "send"
  BY DEF Leaving
<1>2. InHand(task[w], clock, temporary, rewriteTtl)
  BY <1>1, BusyTask
<1> QED  BY <1>1, <1>2 DEF InHand

\* A response that went through rewrite, with the time at which its rule was
\* looked up.
LEMMA RewrittenTask ==
  ASSUME IndInv, NEW w \in Leaving, WasRewritten(w)
  PROVE  LET t == task[w]
         IN  /\ t.orig \in Responses /\ t.data \in Loaded /\ t.since \in Nat
             /\ \E time \in t.since..clock :
                  IsRewrite(t.orig, RuleAt(t, time), t.data, rewriteTtl, t.packet)
<1> DEFINE t == task[w]
<1>1. /\ InHand(t, clock, temporary, rewriteTtl) /\ Outcome(t, clock, rewriteTtl)
  BY LeavingTask
<1>2. t.packet.parses /\ t.data # NoData
  BY DEF WasRewritten
<1> HIDE DEF t
<1>3. PICK time \in t.since..clock : /\ t.data \in Loaded
                                     /\ t.packet = Rewritten(t.orig, RuleAt(t, time), t.data,
                                                             rewriteTtl)
  BY <1>1, <1>2 DEF Outcome
<1>4. t.orig \in Responses /\ t.since \in Nat /\ rewriteTtl \in Nat
  BY <1>1 DEF InHand, IndInv, Types
<1>5. IsRewrite(t.orig, RuleAt(t, time), t.data, rewriteTtl, t.packet)
  BY <1>3, <1>4, RewrittenRecords
<1> QED  BY <1>3, <1>4, <1>5 DEF t

\* The rule looked up is the one of the last snapshot, or none.
LEMMA RuleLookedUp ==
  ASSUME NEW w, NEW time
  PROVE  /\ RuleAt(task[w], time) = IF InForce(Rule(w), time) THEN Rule(w) ELSE NoRedirect
         /\ NoRedirect.v4 = NoAddr /\ NoRedirect.v6 = NoAddr /\ NoRedirect.expires = NoExpiry
BY DEF RuleAt, Rule, ActiveRedirect, NoRedirect

\* What a replaced address is.
LEMMA ReplacedAddress ==
  ASSUME NEW old, NEW new, NEW pin, NEW hops, new = Replaced(old, pin, hops), NEW j \in DOMAIN new
  PROVE  /\ j \in DOMAIN old
         /\ new[j] = IF pin # NoAddr THEN pin
                     ELSE IF old[j] \in DOMAIN hops THEN hops[old[j]] ELSE old[j]
BY DEF Replaced, Replacement

LEMMA NoEvadableStep == IndInv => NoEvadableAddressSent
<1> SUFFICES ASSUME IndInv PROVE NoEvadableAddressSent
  OBVIOUS
<1> DEFINE Allowed(old, new, pin, blocked, hops) ==
             new \in blocked => (pin # NoAddr /\ new = pin) \/ (new = old /\ new \notin DOMAIN hops)
<1>1. ASSUME NEW w \in Leaving, WasRewritten(w), NEW i \in DOMAIN task[w].packet.rrs
      PROVE  LET t   == task[w]
                 old == t.orig.rrs[i]
                 new == t.packet.rrs[i]
                 pin == IF new.answer THEN Rule(w) ELSE NoRedirect
             IN  /\ \A j \in DOMAIN new.v4 : Allowed(old.v4[j], new.v4[j], pin.v4,
                                                     t.data.blocked4, t.data.evasion4)
                 /\ \A j \in DOMAIN new.v6 : Allowed(old.v6[j], new.v6[j], pin.v6,
                                                     t.data.blocked6, t.data.evasion6)
  <2> DEFINE t   == task[w]
             old == t.orig.rrs[i]
             new == t.packet.rrs[i]
             pin == IF new.answer THEN Rule(w) ELSE NoRedirect
  <2>1. t.data \in Loaded
    BY <1>1, RewrittenTask
  <2>2. PICK time : IsRewrite(t.orig, RuleAt(t, time), t.data, rewriteTtl, t.packet)
    BY <1>1, RewrittenTask
  <2> DEFINE used == PinFor(old, RuleAt(t, time))
  <2>3. /\ new.answer = old.answer
        /\ new.v4 = Replaced(old.v4, used.v4, t.data.evasion4)
        /\ new.v6 = Replaced(old.v6, used.v6, t.data.evasion6)
    <3>1. i \in DOMAIN t.orig.rrs
      BY <1>1, <2>2 DEF IsRewrite
    <3> QED  BY <2>2, <3>1 DEF IsRewrite
  <2>4. used = pin \/ used = NoRedirect
    BY <2>3, RuleLookedUp DEF PinFor
  <2>5. NoRedirect.v4 = NoAddr /\ NoRedirect.v6 = NoAddr
    BY DEF NoRedirect
  <2> HIDE DEF t, old, new, pin, used
  <2>6. ASSUME NEW j \in DOMAIN new.v4
        PROVE  Allowed(old.v4[j], new.v4[j], pin.v4, t.data.blocked4, t.data.evasion4)
    BY <2>1, <2>3, <2>4, <2>5, ReplacedAddress, LoadedHops
  <2>7. ASSUME NEW j \in DOMAIN new.v6
        PROVE  Allowed(old.v6[j], new.v6[j], pin.v6, t.data.blocked6, t.data.evasion6)
    BY <2>1, <2>3, <2>4, <2>5, ReplacedAddress, LoadedHops
  <2> QED  BY <2>6, <2>7 DEF t, old, new, pin
<1> QED  BY <1>1 DEF NoEvadableAddressSent

\* With no Cloudflare address in it and no rule, rewrite keeps a response.
LEMMA KeptOffCloudflare ==
  ASSUME NEW p \in Responses, NEW d \in Loaded, ~HasCloudflare(p.rrs, d), NEW ttl
  PROVE  Rewritten(p, NoRedirect, d, ttl) = p
<1> DEFINE new == NewRecords(p, NoRedirect, d)
<1>1. p \in [domain : {p.domain}, qtype : Nat, rcodeOk : BOOLEAN, ad : BOOLEAN,
             parses : BOOLEAN, rrs : Seq(Records)]
  BY DnsRewriteAssumption
<1>2. ASSUME NEW i \in DOMAIN p.rrs PROVE new[i] = p.rrs[i]
  <2> DEFINE rr == p.rrs[i]
  <2>1. rr \in Records
    BY <1>1
  <2>2. PinFor(rr, NoRedirect).v4 = NoAddr /\ PinFor(rr, NoRedirect).v6 = NoAddr
    BY DEF PinFor, NoRedirect
  <2>3. /\ \A j \in DOMAIN rr.v4 : rr.v4[j] \notin DOMAIN d.evasion4
        /\ \A j \in DOMAIN rr.v6 : rr.v6[j] \notin DOMAIN d.evasion6
    BY LoadedHops DEF HasCloudflare
  <2>4. new[i] = NewAddresses(rr, NoRedirect, d)
    BY DEF NewRecords
  <2> HIDE DEF rr, new
  <2>5. rr.v4 = [j \in DOMAIN rr.v4 |-> rr.v4[j]] /\ rr.v6 = [j \in DOMAIN rr.v6 |-> rr.v6[j]]
    BY <2>1 DEF Records
  <2>6. /\ Replaced(rr.v4, NoAddr, d.evasion4) = rr.v4
        /\ Replaced(rr.v6, NoAddr, d.evasion6) = rr.v6
    BY <2>3, <2>5 DEF Replaced, Replacement
  <2>7. new[i] = [kind |-> rr.kind, answer |-> rr.answer, ttl |-> rr.ttl,
                  v4 |-> rr.v4, v6 |-> rr.v6]
    BY <2>1, <2>2, <2>4, <2>6, NewAddressesFields
  <2> QED  BY <2>1, <2>7 DEF Records, rr
<1>3. new = p.rrs
  BY <1>1, <1>2 DEF NewRecords
<1>4. Changes(p, NoRedirect, d) = {}
  BY <1>3 DEF Changes, Edits
<1>5. ~MustCap(HasCloudflare(p.rrs, d), FALSE)
  BY DEF MustCap
<1>6. Rewritten(p, NoRedirect, d, ttl)
        = [p EXCEPT !.rrs = [i \in DOMAIN p.rrs |-> p.rrs[i]], !.ad = AdAfter(@, FALSE)]
  <2> HIDE DEF new
  <2> QED  BY <1>3, <1>4, <1>5 DEF Rewritten, Changes, NewRecords, new
<1>7. AdAfter(p.ad, FALSE) = p.ad
  BY <1>1 DEF AdAfter
<1>8. p.rrs = [i \in DOMAIN p.rrs |-> p.rrs[i]]
  BY <1>1
<1>9. Rewritten(p, NoRedirect, d, ttl) = [p EXCEPT !.rrs = p.rrs, !.ad = p.ad]
  BY <1>6, <1>7, <1>8
<1> QED  BY <1>1, <1>9

LEMMA OffCloudflareStep == IndInv => OffCloudflareUntouched
<1> SUFFICES ASSUME IndInv, NEW w \in Leaving, WasRewritten(w),
                    \/ Rule(w) = NoRedirect
                    \/ Rule(w).expires # NoExpiry /\ Rule(w).expires <= task[w].since,
                    ~HasCloudflare(task[w].orig.rrs, task[w].data)
             PROVE  task[w].packet = task[w].orig
  BY DEF OffCloudflareUntouched
<1> DEFINE t == task[w]
<1>1. InHand(t, clock, temporary, rewriteTtl) /\ Outcome(t, clock, rewriteTtl)
  BY LeavingTask
<1>2. t.packet.parses /\ t.data # NoData
  BY DEF WasRewritten
<1>3. Rule(w).expires \in Int
  <2>1. t.table \in Tables
    BY <1>1 DEF InHand
  <2> QED  BY <2>1, DnsRewriteAssumption DEF Rule, Tables, NoTable, NoRedirect, NoExpiry
<1>4. t.orig \in Responses /\ t.since \in Nat /\ rewriteTtl \in Nat
  BY <1>1 DEF InHand, IndInv, Types
<1>5. \A time \in t.since..clock : RuleAt(t, time) = NoRedirect
  <2> TAKE time \in t.since..clock
  <2>1. time \in Int /\ t.since <= time
    BY <1>4
  <2>2. Rule(w) = NoRedirect \/ ~InForce(Rule(w), time)
    BY <1>3, <1>4, <2>1 DEF InForce
  <2> QED  BY <2>2, RuleLookedUp
<1> HIDE DEF t
<1>6. /\ t.data \in Loaded
      /\ \E time \in t.since..clock :
           t.packet = Rewritten(t.orig, RuleAt(t, time), t.data, rewriteTtl)
  BY <1>1, <1>2 DEF Outcome
<1>7. t.packet = Rewritten(t.orig, NoRedirect, t.data, rewriteTtl)
  BY <1>5, <1>6
<1>8. t.packet = t.orig
  BY <1>4, <1>6, <1>7, KeptOffCloudflare DEF t
<1> QED  BY <1>8 DEF t

\* Capping a TTL never raises it, and brings it to the limit.
LEMMA LimitReached ==
  ASSUME NEW cloudflare \in BOOLEAN, NEW changed \in BOOLEAN, NEW ttl \in Nat
  PROVE  LET limit == TtlLimit(cloudflare, changed, ttl)
         IN  /\ limit \in Nat
             /\ cloudflare => limit <= CloudflareMaxTtl
             /\ changed => limit <= ttl
<1>1. CloudflareMaxTtl \in Nat
  BY DnsResponseAssumption
<1>2. /\ Min({CloudflareMaxTtl, ttl}) \in {CloudflareMaxTtl, ttl}
      /\ Min({CloudflareMaxTtl, ttl}) <= CloudflareMaxTtl
      /\ Min({CloudflareMaxTtl, ttl}) <= ttl
  BY <1>1, MinOfTwo
<1> DEFINE m == Min({CloudflareMaxTtl, ttl})
<1>3. TtlLimit(cloudflare, changed, ttl)
        = IF cloudflare /\ ~changed THEN CloudflareMaxTtl
          ELSE IF cloudflare /\ changed THEN m ELSE ttl
  BY DEF TtlLimit
<1> HIDE DEF m
<1>4. m \in Nat /\ m <= CloudflareMaxTtl /\ m <= ttl
  BY <1>1, <1>2 DEF m
<1> QED  BY <1>1, <1>3, <1>4

LEMMA TtlCappedStep == IndInv => TtlCapped
<1> SUFFICES ASSUME IndInv, NEW w \in Leaving, WasRewritten(w),
                    NEW i \in DOMAIN task[w].packet.rrs
             PROVE  LET t   == task[w]
                        old == t.orig.rrs[i].ttl
                        new == t.packet.rrs[i].ttl
                    IN  IF t.orig.rrs[i].kind \in PseudoKinds THEN new = old
                        ELSE /\ new <= old
                             /\ HasCloudflare(t.orig.rrs, t.data) => new <= CloudflareMaxTtl
                             /\ Edits(t.orig.rrs, t.packet.rrs) # {} => new <= rewriteTtl
  BY DEF TtlCapped
<1> DEFINE t   == task[w]
           old == t.orig.rrs[i].ttl
           new == t.packet.rrs[i].ttl
<1>1. InHand(t, clock, temporary, rewriteTtl) /\ Outcome(t, clock, rewriteTtl)
  BY LeavingTask
<1>2. t.packet.parses /\ t.data # NoData
  BY DEF WasRewritten
<1>3. t.orig \in Responses /\ rewriteTtl \in Nat
  BY <1>1 DEF InHand, IndInv, Types
<1>4. PICK time : t.packet = Rewritten(t.orig, RuleAt(t, time), t.data, rewriteTtl)
  <2> HIDE DEF t
  <2> QED  BY <1>1, <1>2 DEF Outcome
<1> DEFINE redirect   == RuleAt(t, time)
           cloudflare == HasCloudflare(t.orig.rrs, t.data)
           changed    == Changes(t.orig, redirect, t.data) # {}
           limit      == LimitOf(t.orig, redirect, t.data, rewriteTtl)
<1>5. IsRewrite(t.orig, redirect, t.data, rewriteTtl, t.packet)
  BY <1>3, <1>4, RewrittenRecords
<1>6. Edits(t.orig.rrs, t.packet.rrs) = Changes(t.orig, redirect, t.data)
  BY <1>3, <1>4, SameEdits
<1>7. /\ t.orig.rrs[i] \in Records
      /\ new = IF Caps(t.orig, redirect, t.data) /\ t.orig.rrs[i].kind \notin PseudoKinds
               THEN Min({old, limit}) ELSE old
  BY <1>5 DEF IsRewrite
<1>8. old \in Nat
  BY <1>7 DEF Records
<1>9. cloudflare \in BOOLEAN /\ changed \in BOOLEAN
  BY DEF HasCloudflare
<1>10. /\ limit \in Nat
       /\ cloudflare => limit <= CloudflareMaxTtl
       /\ changed => limit <= rewriteTtl
  BY <1>3, <1>9, LimitReached DEF LimitOf
<1>11. Caps(t.orig, redirect, t.data) <=> cloudflare \/ changed
  BY DEF Caps, MustCap
<1> HIDE DEF t, old, new, cloudflare, changed, limit, redirect
<1>12. Min({old, limit}) \in {old, limit} /\ Min({old, limit}) <= old /\ Min({old, limit}) <= limit
  BY <1>8, <1>10, MinOfTwo
<1> DEFINE m == Min({old, limit})
<1>13. m \in Nat /\ m <= old /\ m <= limit
  BY <1>8, <1>10, <1>12
<1> HIDE DEF m
<1>14. new = IF (cloudflare \/ changed) /\ t.orig.rrs[i].kind \notin PseudoKinds THEN m ELSE old
  BY <1>7, <1>11 DEF m
<1>15. IF t.orig.rrs[i].kind \in PseudoKinds THEN new = old
       ELSE /\ new <= old
            /\ cloudflare => new <= CloudflareMaxTtl
            /\ changed => new <= rewriteTtl
  BY <1>3, <1>8, <1>10, <1>13, <1>14, DnsResponseAssumption
<1>16. /\ cloudflare = HasCloudflare(t.orig.rrs, t.data)
       /\ changed = (Edits(t.orig.rrs, t.packet.rrs) # {})
  BY <1>6 DEF cloudflare, changed
<1> QED  BY <1>15, <1>16 DEF t, old, new

\* What the packets show of each of the three outcomes.
LEMMA DifferenceNone ==
  ASSUME NEW p \in Responses
  PROVE  Edits(p.rrs, p.rrs) = {} /\ Difference(p, p) = 0
<1>1. Edits(p.rrs, p.rrs) = {}
  BY DEF Edits
<1> QED  BY <1>1, FS_EmptySet DEF Difference

LEMMA DifferenceEmptied ==
  ASSUME NEW p \in Responses, Answers(p) # {}
  PROVE  /\ Difference(p, Emptied(p)) = Cardinality(Answers(p))
         /\ Difference(p, Emptied(p)) \in Nat /\ Difference(p, Emptied(p)) > 0
<1>1. Difference(p, Emptied(p)) = Cardinality(Answers(p))
  BY EmptiedFields DEF Difference
<1>2. IsFiniteSet(Answers(p)) /\ Cardinality(Answers(p)) \in Nat
  BY AnswersFinite
<1>3. Cardinality(Answers(p)) # 0
  BY <1>2, FS_EmptySet
<1> QED  BY <1>1, <1>2, <1>3

LEMMA DifferenceRewritten ==
  ASSUME NEW p \in Responses, NEW redirect, NEW d, NEW ttl \in Nat,
         NEW out, out = Rewritten(p, redirect, d, ttl)
  PROVE  /\ Difference(p, out) = Cardinality(Edits(p.rrs, out.rrs))
         /\ Difference(p, out) = Cardinality(Changes(p, redirect, d))
         /\ Difference(p, out) \in Nat
         /\ Difference(p, out) = 0 <=> Changes(p, redirect, d) = {}
<1>1. Answers(out) = Answers(p)
  BY SameAnswers
<1>2. Edits(p.rrs, out.rrs) = Changes(p, redirect, d)
  BY SameEdits
<1>3. IsFiniteSet(Edits(p.rrs, out.rrs))
  BY EditsFinite
<1>4. Difference(p, out) = Cardinality(Edits(p.rrs, out.rrs))
  BY <1>1 DEF Difference
<1>5. /\ Cardinality(Edits(p.rrs, out.rrs)) \in Nat
      /\ Cardinality(Edits(p.rrs, out.rrs)) = 0 <=> Edits(p.rrs, out.rrs) = {}
  BY <1>3, FS_CardinalityType, FS_EmptySet
<1> QED  BY <1>2, <1>4, <1>5

LEMMA AuthenticStep == IndInv => AuthenticOnlyIfUnchanged
<1> SUFFICES ASSUME IndInv, NEW w \in Leaving, task[w].packet.ad
             PROVE  task[w].orig.ad /\ Difference(task[w].orig, task[w].packet) = 0
  BY DEF AuthenticOnlyIfUnchanged
<1> DEFINE t == task[w]
<1>1. Outcome(t, clock, rewriteTtl) /\ t.orig \in Responses /\ rewriteTtl \in Nat
  BY LeavingTask DEF InHand, IndInv, Types
<1>2. t.packet.ad
  OBVIOUS
<1> HIDE DEF t
<1>3. CASE t.packet = Emptied(t.orig)
  BY <1>1, <1>2, <1>3, EmptiedFields
<1>4. CASE t.packet = t.orig
  BY <1>1, <1>2, <1>4, DifferenceNone DEF t
<1>5. ASSUME NEW time, t.packet = Rewritten(t.orig, RuleAt(t, time), t.data, rewriteTtl)
      PROVE  t.orig.ad /\ Difference(t.orig, t.packet) = 0
  <2>1. IsRewrite(t.orig, RuleAt(t, time), t.data, rewriteTtl, t.packet)
    BY <1>1, <1>5, RewrittenRecords
  <2>2. t.orig.ad /\ Changes(t.orig, RuleAt(t, time), t.data) = {}
    BY <1>2, <2>1 DEF IsRewrite
  <2> QED  BY <1>1, <1>5, <2>2, DifferenceRewritten
<1>6. t.orig.ad /\ Difference(t.orig, t.packet) = 0
  BY <1>1, <1>3, <1>4, <1>5 DEF Outcome, t
<1> QED  BY <1>6 DEF t

\* While the table stands, a rule in force now was the one looked up at every
\* earlier time.
LEMMA RuleStands ==
  ASSUME IndInv, NEW w \in Leaving, NEW time \in task[w].since..clock,
         RuleAt(task[w], clock) # NoRedirect
  PROVE  RuleAt(task[w], time) = RuleAt(task[w], clock)
<1>1. task[w].table \in Tables /\ task[w].since \in Nat /\ clock \in Nat
  BY LeavingTask DEF InHand, IndInv, Types
<1>2. time \in Nat /\ time <= clock
  BY <1>1
<1>3. Rule(w).expires \in Int
  BY <1>1, DnsRewriteAssumption DEF Rule, Tables, NoTable, NoRedirect, NoExpiry
<1>4. InForce(Rule(w), clock)
  BY RuleLookedUp
<1>5. InForce(Rule(w), time)
  BY <1>1, <1>2, <1>3, <1>4, InForceEarlier
<1> QED  BY <1>4, <1>5, RuleLookedUp

LEMMA PinObeyedStep == IndInv => PinObeyed
<1> SUFFICES ASSUME IndInv, NEW w \in Leaving, task[w].packet.parses, ~task[w].moved
             PROVE  LET r == RuleFor(w)
                        p == task[w].packet
                    IN  /\ HidesUnverified(w)
                        /\ \A i \in Answers(p) :
                             /\ r.v4 # NoAddr => \A j \in DOMAIN p.rrs[i].v4 : p.rrs[i].v4[j] = r.v4
                             /\ r.v6 # NoAddr => \A j \in DOMAIN p.rrs[i].v6 : p.rrs[i].v6[j] = r.v6
  BY DEF PinObeyed
<1> DEFINE t == task[w]
           p == t.packet
           r == RuleFor(w)
<1>1. /\ InHand(t, clock, temporary, rewriteTtl) /\ Outcome(t, clock, rewriteTtl)
      /\ t.orig \in Responses /\ rewriteTtl \in Nat
  BY LeavingTask DEF InHand, IndInv, Types
<1>2. p.parses /\ ~t.moved
  OBVIOUS
<1>3. CASE p = Emptied(t.orig)
  <2>1. Answers(p) = {}
    BY <1>1, <1>3, EmptiedFields
  <2> QED  BY <2>1 DEF HidesUnverified
<1>4. CASE p # Emptied(t.orig)
  <2>1. /\ t.orig.parses /\ Spared(t, clock)
        /\ \E time \in t.since..clock : p = Rewritten(t.orig, RuleAt(t, time), t.data, rewriteTtl)
    <3> HIDE DEF t
    <3> QED  BY <1>1, <1>2, <1>4 DEF Outcome
  <2>2. PICK time \in t.since..clock : p = Rewritten(t.orig, RuleAt(t, time), t.data, rewriteTtl)
    BY <2>1
  <2>3. IsRewrite(t.orig, RuleAt(t, time), t.data, rewriteTtl, p) /\ Answers(p) = Answers(t.orig)
    BY <1>1, <2>2, RewrittenRecords, SameAnswers
  <2>4. /\ p.domain = t.orig.domain /\ p.qtype = t.orig.qtype
        /\ p.rcodeOk = t.orig.rcodeOk /\ p.parses = t.orig.parses
    BY <2>3 DEF IsRewrite
  <2>5. r = RuleAt(t, clock)
    BY <2>4 DEF RuleFor, RuleAt
  <2>6. r # NoRedirect => \A earlier \in t.since..clock : RuleAt(t, earlier) = r
    BY <2>5, RuleStands
  <2>7. NoRedirect.v4 = NoAddr /\ NoRedirect.v6 = NoAddr
    BY DEF NoRedirect
  <2>8. ASSUME r.v4 # NoAddr, r.v6 = NoAddr, p.rcodeOk, p.qtype \in Suppressible
        PROVE  Answers(p) = {}
    <3>1. PICK earlier \in t.since..clock : ~MustSuppress(t.orig, RuleAt(t, earlier))
      BY <2>1 DEF Spared
    <3>2. RuleAt(t, earlier) = r
      <4> HIDE DEF r, t, p
      <4> QED  BY <2>6, <2>7, <2>8
    <3> HIDE DEF r, t, p
    <3> QED  BY <2>1, <2>3, <2>4, <2>8, <3>1, <3>2 DEF MustSuppress, OnlyIPv4
  <2>9. ASSUME NEW i \in Answers(p)
        PROVE  /\ r.v4 # NoAddr => \A j \in DOMAIN p.rrs[i].v4 : p.rrs[i].v4[j] = r.v4
               /\ r.v6 # NoAddr => \A j \in DOMAIN p.rrs[i].v6 : p.rrs[i].v6[j] = r.v6
    <3> HIDE DEF r, t, p
    <3>1. i \in DOMAIN t.orig.rrs /\ t.orig.rrs[i].answer
      BY <2>3 DEF Answers
    <3>2. PinFor(t.orig.rrs[i], RuleAt(t, time)) = RuleAt(t, time)
      BY <3>1 DEF PinFor
    <3>3. /\ p.rrs[i].v4 = Replaced(t.orig.rrs[i].v4, RuleAt(t, time).v4, t.data.evasion4)
          /\ p.rrs[i].v6 = Replaced(t.orig.rrs[i].v6, RuleAt(t, time).v6, t.data.evasion6)
      BY <2>3, <3>1, <3>2 DEF IsRewrite
    <3>4. r # NoRedirect => RuleAt(t, time) = r
      BY <2>2, <2>6
    <3>5. ASSUME r.v4 # NoAddr, NEW j \in DOMAIN p.rrs[i].v4 PROVE p.rrs[i].v4[j] = r.v4
      BY <2>7, <3>3, <3>4, <3>5, ReplacedAddress
    <3>6. ASSUME r.v6 # NoAddr, NEW j \in DOMAIN p.rrs[i].v6 PROVE p.rrs[i].v6[j] = r.v6
      BY <2>7, <3>3, <3>4, <3>6, ReplacedAddress
    <3> QED  BY <3>5, <3>6
  <2> QED  BY <2>8, <2>9 DEF HidesUnverified
<1> QED  BY <1>3, <1>4

-------------------------------------------------------------------------------
\* Sums.

\* The sum of the values of a function with a finite domain.
SumOf(f) == FoldFunction(+, 0, f)

\* The sums of its parts, as the recursion of the fold has them.
Sums(h, f, S) ==
  h = [T \in SUBSET S |-> IF T = {} THEN 0
                          ELSE f[CHOOSE x \in T : TRUE] + h[T \ {CHOOSE x \in T : TRUE}]]

\* The recursion has a solution.
LEMMA SumsExist ==
  ASSUME NEW S, IsFiniteSet(S), NEW f \in [S -> Int]
  PROVE  \E h : Sums(h, f, S) /\ h \in [SUBSET S -> Int]
<1> DEFINE step == [x \in S \X Int |-> f[x[1]] + x[2]]
           some(T) == CHOOSE x \in T : TRUE
<1>1. step \in [S \X Int -> Int] /\ 0 \in Int
  OBVIOUS
<1>2. PICK h : SetFoldOf(h, S, Int, 0, step)
  <2> HIDE DEF step
  <2> QED  BY <1>1, SetFoldExists
<1>3. h \in [SUBSET S -> Int]
  BY <1>2 DEF SetFoldOf
<1>4. ASSUME NEW T \in SUBSET S, T # {}
      PROVE  step[<<some(T), h[T \ {some(T)}]>>] = f[some(T)] + h[T \ {some(T)}]
  <2>1. some(T) \in S /\ T \ {some(T)} \in SUBSET S
    BY <1>4
  <2> HIDE DEF some
  <2>2. h[T \ {some(T)}] \in Int
    BY <1>3, <2>1
  <2> QED  BY <2>1, <2>2
<1>5. \A T \in SUBSET S : h[T] = IF T = {} THEN 0 ELSE step[<<some(T), h[T \ {some(T)}]>>]
  BY <1>2, Zenon DEF SetFoldOf
<1> HIDE DEF step
<1>6. \A T \in SUBSET S : h[T] = IF T = {} THEN 0 ELSE f[some(T)] + h[T \ {some(T)}]
  BY <1>4, <1>5, Zenon
<1> HIDE DEF some
<1>7. h = [T \in SUBSET S |-> IF T = {} THEN 0 ELSE f[some(T)] + h[T \ {some(T)}]]
  BY <1>3, <1>6
<1> QED  BY <1>3, <1>7, Zenon DEF Sums, some

\* The sum is that of the whole set in such a recursion.
LEMMA SumsAre ==
  ASSUME NEW S, IsFiniteSet(S), NEW f \in [S -> Int]
  PROVE  \E h : Sums(h, f, S) /\ SumOf(f) = h[S]
<1> DEFINE it == CHOOSE h : Sums(h, f, S)
<1>1. Sums(it, f, S)
  BY SumsExist
<1>2. DOMAIN f = S
  OBVIOUS
<1>3. SumOf(f) = it[DOMAIN f]
  BY <1>2, Zenon DEF SumOf, FoldFunction, FoldFunctionOnSet, MapThenFoldSet, Sums
<1> QED  BY <1>1, <1>2, <1>3

Summable(f, S) == IsFiniteSet(S) /\ f \in [S -> Int]

\* A sum does not depend on the order in which the fold goes through the set.
OrderFree(h, f, S) ==
  \A T \in SUBSET S : h[T] \in Int /\ \A x \in T : h[T] = f[x] + h[T \ {x}]

LEMMA SumsOneOut ==
  ASSUME NEW S, NEW f, NEW h, Summable(f, S), Sums(h, f, S)
  PROVE  OrderFree(h, f, S)
<1> DEFINE Good(T) == h[T] \in Int /\ \A x \in T : h[T] = f[x] + h[T \ {x}]
           K == {k \in Nat : \A T \in SUBSET S : Cardinality(T) <= k => Good(T)}
<1>1. IsFiniteSet(S) /\ f \in [S -> Int]
  BY DEF Summable
<1>2. h[{}] = 0
  BY DEF Sums
<1>3. \A T \in SUBSET S : T # {} => \E y \in T : h[T] = f[y] + h[T \ {y}]
  <2>1. ASSUME NEW T \in SUBSET S, T # {} PROVE \E y \in T : h[T] = f[y] + h[T \ {y}]
    <3> DEFINE y == CHOOSE x \in T : TRUE
    <3>1. y \in T
      BY <2>1
    <3>2. h[T] = f[y] + h[T \ {y}]
      BY <2>1 DEF Sums
    <3> QED  BY <3>1, <3>2
  <2> QED  BY <2>1
<1>4. 0 \in K
  <2>1. ASSUME NEW T \in SUBSET S, Cardinality(T) <= 0 PROVE Good(T)
    <3>1. T = {}
      BY <2>1, <1>1, SmallerSet
    <3> QED  BY <1>2, <3>1
  <2> HIDE DEF Good
  <2> QED  BY <2>1
<1>5. ASSUME NEW k \in Nat, k \in K PROVE k + 1 \in K
  <2>1. ASSUME NEW T \in SUBSET S, Cardinality(T) <= k + 1, T # {} PROVE Good(T)
    <3>1. PICK y \in T : h[T] = f[y] + h[T \ {y}]
      BY <1>3, <2>1
    <3>2. \A U \in SUBSET S : Cardinality(U) <= k => Good(U)
      BY <1>5
    <3>3. Cardinality(T) \in Nat /\ \A x \in T : Cardinality(T \ {x}) = Cardinality(T) - 1
      BY <1>1, SmallerSet
    <3>4. \A x \in T : T \ {x} \in SUBSET S /\ Cardinality(T \ {x}) <= k
      BY <2>1, <3>3
    <3> HIDE DEF Good
    <3>5. \A x \in T : Good(T \ {x})
      BY <3>2, <3>4
    <3>6. \A x \in T : h[T \ {x}] \in Int /\ f[x] \in Int
      BY <1>1, <3>5 DEF Good
    <3>7. ASSUME NEW x \in T, x # y PROVE h[T] = f[x] + h[T \ {x}]
      <4>1. /\ x \in T \ {y} /\ y \in T \ {x} /\ (T \ {y}) \ {x} = (T \ {x}) \ {y}
        BY <3>7
      <4> DEFINE U == (T \ {x}) \ {y}
      <4>2. h[T \ {y}] = f[x] + h[U] /\ h[T \ {x}] = f[y] + h[U]
        BY <3>5, <4>1 DEF Good
      <4>3. h[U] \in Int
        <5>1. U \in SUBSET S /\ U = (T \ {x}) \ {y}
          OBVIOUS
        <5>2. Cardinality(U) = Cardinality(T \ {x}) - 1 /\ Cardinality(T \ {x}) \in Nat
          BY <3>4, <1>1, <4>1, SmallerSet
        <5> HIDE DEF U
        <5>3. Cardinality(U) <= k
          BY <3>4, <5>2
        <5> QED  BY <3>2, <5>1, <5>3 DEF Good
      <4> HIDE DEF U
      <4> QED  BY <3>1, <3>6, <4>2, <4>3
    <3>8. h[T] \in Int /\ \A x \in T : h[T] = f[x] + h[T \ {x}]
      <4>1. \A x \in T : h[T] = f[x] + h[T \ {x}]
        BY <3>1, <3>7
      <4>2. f[y] \in Int /\ h[T \ {y}] \in Int
        BY <3>6
      <4>3. h[T] \in Int
        BY <3>1, <4>2
      <4> QED  BY <4>1, <4>3, Zenon
    <3> QED  BY <3>8, Zenon DEF Good
  <2>2. Good({})
    BY <1>2
  <2> HIDE DEF Good
  <2> QED  BY <2>1, <2>2
<1>6. Nat \subseteq K
  <2> HIDE DEF K
  <2> QED  BY <1>4, <1>5, Induction
<1>7. ASSUME NEW T \in SUBSET S PROVE Good(T)
  <2>1. Cardinality(T) \in Nat /\ Cardinality(T) <= Cardinality(T)
    BY <1>1, SmallerSet
  <2> HIDE DEF Good
  <2> QED  BY <1>6, <2>1
<1> QED  BY <1>7 DEF OrderFree

\* Functions that agree on a set have the same sums there.
LEMMA SumsAgree ==
  ASSUME NEW S, IsFiniteSet(S), NEW f \in [S -> Int], NEW h, Sums(h, f, S),
         NEW R \in SUBSET S, NEW e \in [R -> Int], NEW g, Sums(g, e, R),
         \A x \in R : e[x] = f[x]
  PROVE  g[R] = h[R]
<1> DEFINE K == {k \in Nat : \A T \in SUBSET R : Cardinality(T) <= k => g[T] = h[T]}
<1>1. IsFiniteSet(R)
  BY FS_Subset
<1>2. /\ \A T \in SUBSET R : \A x \in T : g[T] = e[x] + g[T \ {x}]
      /\ \A T \in SUBSET R : \A x \in T : h[T] = f[x] + h[T \ {x}]
  <2>1. \A T \in SUBSET R : \A x \in T : g[T] = e[x] + g[T \ {x}]
    <3>1. Summable(e, R)
      BY <1>1 DEF Summable
    <3>2. OrderFree(g, e, R)
      BY <3>1, SumsOneOut
    <3> QED  BY <3>2 DEF OrderFree
  <2>2. \A T \in SUBSET S : \A x \in T : h[T] = f[x] + h[T \ {x}]
    <3>1. Summable(f, S)
      BY DEF Summable
    <3>2. OrderFree(h, f, S)
      BY <3>1, SumsOneOut
    <3> QED  BY <3>2 DEF OrderFree
  <2> QED  BY <2>1, <2>2
<1>3. g[{}] = 0 /\ h[{}] = 0
  BY DEF Sums
<1>4. 0 \in K
  BY <1>1, <1>3, SmallerSet
<1>5. ASSUME NEW k \in Nat, k \in K PROVE k + 1 \in K
  <2>1. ASSUME NEW T \in SUBSET R, Cardinality(T) <= k + 1, NEW x \in T PROVE g[T] = h[T]
    <3>1. Cardinality(T) \in Nat /\ Cardinality(T \ {x}) = Cardinality(T) - 1
      BY <1>1, SmallerSet
    <3>2. T \ {x} \in SUBSET R /\ Cardinality(T \ {x}) <= k
      BY <2>1, <3>1
    <3>3. g[T \ {x}] = h[T \ {x}]
      BY <1>5, <3>2
    <3> QED  BY <1>2, <3>3
  <2>2. ASSUME NEW T \in SUBSET R, Cardinality(T) <= k + 1 PROVE g[T] = h[T]
    <3>1. CASE T = {}
      BY <1>3, <3>1
    <3>2. CASE T # {}
      BY <2>1, <2>2, <3>2
    <3> QED  BY <3>1, <3>2
  <2>3. k + 1 \in Nat
    OBVIOUS
  <2> QED  BY <2>2, <2>3, Zenon
<1>6. Nat \subseteq K
  <2> HIDE DEF K
  <2> QED  BY <1>4, <1>5, Induction
<1>7. Cardinality(R) \in Nat
  BY <1>1, FS_CardinalityType
<1> QED  BY <1>6, <1>7

LacksOne(e, f, S, x) ==
  /\ IsFiniteSet(S) /\ f \in [S -> Int] /\ x \in S
  /\ e \in [S \ {x} -> Int] /\ \A y \in S \ {x} : e[y] = f[y]

\* A sum and that of the function without one of its arguments.
LEMMA SumOneMore ==
  ASSUME NEW S, NEW f, NEW x, NEW e, LacksOne(e, f, S, x)
  PROVE  SumOf(f) = f[x] + SumOf(e) /\ SumOf(e) \in Int /\ SumOf(f) \in Int
<1> DEFINE R == S \ {x}
<1>1. /\ IsFiniteSet(S) /\ f \in [S -> Int] /\ x \in S
      /\ e \in [R -> Int] /\ \A y \in R : e[y] = f[y]
  BY DEF LacksOne
<1>2. R \in SUBSET S /\ IsFiniteSet(R)
  BY <1>1, FS_Subset
<1>3. PICK h : Sums(h, f, S) /\ SumOf(f) = h[S]
  BY <1>1, SumsAre
<1>4. PICK g : Sums(g, e, R) /\ SumOf(e) = g[R]
  BY <1>1, <1>2, SumsAre
<1>5. h[S] = f[x] + h[R] /\ h[S] \in Int /\ h[R] \in Int
  <2>1. Summable(f, S)
    BY <1>1 DEF Summable
  <2>2. OrderFree(h, f, S)
    BY <1>3, <2>1, SumsOneOut
  <2>3. /\ h[S] \in Int /\ h[R] \in Int
        /\ h[S] = f[x] + h[S \ {x}]
    BY <1>1, <1>2, <2>2 DEF OrderFree
  <2> QED  BY <2>3
<1>6. g[R] = h[R]
  BY <1>1, <1>2, <1>3, <1>4, SumsAgree
<1> QED  BY <1>3, <1>4, <1>5, <1>6

\* The empty sum.
LEMMA SumOfNone ==
  ASSUME NEW f, f \in [{} -> Int]
  PROVE  SumOf(f) = 0
<1>1. IsFiniteSet({})
  BY FS_EmptySet
<1>2. PICK h : Sums(h, f, {}) /\ SumOf(f) = h[{}]
  BY <1>1, SumsAre
<1> QED  BY <1>2 DEF Sums

\* A sum and that of a function that differs at one argument only, where either
\* may lack the argument.
LEMMA SumChanges ==
  ASSUME NEW S, IsFiniteSet(S), NEW f \in [S -> Int], NEW T, NEW g \in [T -> Int], NEW x,
         S \ {x} = T \ {x}, \A y \in S \ {x} : f[y] = g[y]
  PROVE  /\ SumOf(g) + (IF x \in S THEN f[x] ELSE 0) = SumOf(f) + (IF x \in T THEN g[x] ELSE 0)
         /\ SumOf(f) \in Int /\ SumOf(g) \in Int
<1> DEFINE R == S \ {x}
           e == [y \in R |-> f[y]]
<1>1. e \in [R -> Int] /\ \A y \in R : e[y] = f[y] /\ e[y] = g[y]
  OBVIOUS
<1>2. IsFiniteSet(R) /\ IsFiniteSet(T)
  <2>1. IsFiniteSet(R)
    BY FS_Subset
  <2>2. IsFiniteSet(R \cup {x})
    BY <2>1, FS_AddElement
  <2>3. T \in SUBSET (R \cup {x})
    OBVIOUS
  <2> QED  BY <2>1, <2>2, <2>3, FS_Subset
<1>3. SumOf(e) \in Int
  <2>1. PICK h : Sums(h, e, R) /\ SumOf(e) = h[R]
    BY <1>1, <1>2, SumsAre
  <2>2. Summable(e, R)
    BY <1>1, <1>2 DEF Summable
  <2>3. OrderFree(h, e, R)
    BY <2>1, <2>2, SumsOneOut
  <2> QED  BY <2>1, <2>3 DEF OrderFree
<1> HIDE DEF e
<1>4. SumOf(f) = (IF x \in S THEN f[x] ELSE 0) + SumOf(e) /\ SumOf(f) \in Int
  <2>1. CASE x \in S
    <3>1. SumOf(f) = f[x] + SumOf(e) /\ SumOf(f) \in Int
      <4>1. LacksOne(e, f, S, x)
        BY <1>1, <2>1 DEF LacksOne
      <4> QED  BY <4>1, SumOneMore
    <3> QED  BY <2>1, <3>1
  <2>2. CASE x \notin S
    <3>1. f = e
      BY <1>1, <2>2 DEF e
    <3> QED  BY <1>3, <2>2, <3>1
  <2> QED  BY <2>1, <2>2
<1>5. SumOf(g) = (IF x \in T THEN g[x] ELSE 0) + SumOf(e) /\ SumOf(g) \in Int
  <2>1. CASE x \in T
    <3>1. R = T \ {x}
      OBVIOUS
    <3>2. SumOf(g) = g[x] + SumOf(e) /\ SumOf(g) \in Int
      <4>1. LacksOne(e, g, T, x)
        BY <1>1, <1>2, <2>1, <3>1 DEF LacksOne
      <4> QED  BY <4>1, SumOneMore
    <3> QED  BY <2>1, <3>2
  <2>2. CASE x \notin T
    <3>1. g = e
      BY <1>1, <2>2 DEF e
    <3> QED  BY <1>3, <2>2, <3>1
  <2> QED  BY <2>1, <2>2
<1>6. (IF x \in S THEN f[x] ELSE 0) \in Int /\ (IF x \in T THEN g[x] ELSE 0) \in Int
  OBVIOUS
<1> QED  BY <1>3, <1>4, <1>5, <1>6

-------------------------------------------------------------------------------
\* The counters.

ShowsChange(t) == t.pc = "send" /\ Difference(t.orig, t.packet) > 0

DoneSet    == {w \in Workers : task[w].pc \in CountsDone}
ChangedSet == {w \in Workers : ShowsChange(task[w])}

Told(b) == IF b THEN 1 ELSE 0

\* What a task adds to the records of the responses that are about to leave.
Owed(t) == IF t.pc = "send" THEN Difference(t.orig, t.packet) ELSE 0

Unsent == [w \in Leaving |-> Difference(task[w].orig, task[w].packet)]

LEMMA ChangedSetIs ==
  ChangedSet = {w \in Leaving : Difference(task[w].orig, task[w].packet) > 0}
BY DEF ChangedSet, ShowsChange, Leaving

LEMMA SetsFinite ==
  /\ IsFiniteSet(DoneSet) /\ Cardinality(DoneSet) \in Nat
  /\ IsFiniteSet(ChangedSet) /\ Cardinality(ChangedSet) \in Nat
<1>1. DoneSet \in SUBSET Workers /\ ChangedSet \in SUBSET Workers
  BY DEF DoneSet, ChangedSet
<1>2. IsFiniteSet(DoneSet) /\ IsFiniteSet(ChangedSet)
  BY <1>1, DnsRewriteAssumption, FS_Subset
<1> QED  BY <1>2, FS_CardinalityType

\* How a step of one task changes the two sets.
LEMMA SetsAfter ==
  ASSUME IndInv, NEW w \in Workers, NEW t, task' = [task EXCEPT ![w] = t]
  PROVE  /\ Cardinality(DoneSet') + Told(task[w].pc \in CountsDone)
              = Cardinality(DoneSet) + Told(t.pc \in CountsDone)
         /\ Cardinality(ChangedSet') + Told(ShowsChange(task[w]))
              = Cardinality(ChangedSet) + Told(ShowsChange(t))
         /\ Cardinality(DoneSet') \in Nat /\ Cardinality(ChangedSet') \in Nat
<1>1. \A v \in Workers : task'[v] = IF v = w THEN t ELSE task[v]
  BY DEF IndInv, Types
<1>2. DoneSet' = IF t.pc \in CountsDone THEN DoneSet \cup {w} ELSE DoneSet \ {w}
  BY <1>1 DEF DoneSet
<1>3. ChangedSet' = IF ShowsChange(t) THEN ChangedSet \cup {w} ELSE ChangedSet \ {w}
  BY <1>1 DEF ChangedSet
<1>4. /\ IsFiniteSet(DoneSet) /\ Cardinality(DoneSet) \in Nat
      /\ IsFiniteSet(ChangedSet) /\ Cardinality(ChangedSet) \in Nat
  BY SetsFinite
<1>5. \A S : IsFiniteSet(S) =>
        /\ Cardinality(S \cup {w}) = IF w \in S THEN Cardinality(S) ELSE Cardinality(S) + 1
        /\ Cardinality(S \ {w}) = IF w \in S THEN Cardinality(S) - 1 ELSE Cardinality(S)
        /\ Cardinality(S \cup {w}) \in Nat /\ Cardinality(S \ {w}) \in Nat
  BY FS_AddElement, FS_RemoveElement, FS_CardinalityType
<1>6. (w \in DoneSet <=> task[w].pc \in CountsDone) /\ (w \in ChangedSet <=> ShowsChange(task[w]))
  BY DEF DoneSet, ChangedSet
<1>7. /\ Cardinality(DoneSet') + Told(task[w].pc \in CountsDone)
           = Cardinality(DoneSet) + Told(t.pc \in CountsDone)
      /\ Cardinality(DoneSet') \in Nat
  BY <1>2, <1>4, <1>5, <1>6 DEF Told
<1>8. /\ Cardinality(ChangedSet') + Told(ShowsChange(task[w]))
           = Cardinality(ChangedSet) + Told(ShowsChange(t))
      /\ Cardinality(ChangedSet') \in Nat
  <2>1. ShowsChange(t) \in BOOLEAN /\ ShowsChange(task[w]) \in BOOLEAN
    BY DEF ShowsChange
  <2>2. /\ Told(ShowsChange(t)) = IF ShowsChange(t) THEN 1 ELSE 0
        /\ Told(ShowsChange(task[w])) = IF ShowsChange(task[w]) THEN 1 ELSE 0
    BY DEF Told
  <2> DEFINE k == Cardinality(ChangedSet)
  <2>3. /\ Cardinality(ChangedSet \cup {w}) = IF w \in ChangedSet THEN k ELSE k + 1
        /\ Cardinality(ChangedSet \ {w}) = IF w \in ChangedSet THEN k - 1 ELSE k
        /\ k \in Nat
        /\ Cardinality(ChangedSet \cup {w}) \in Nat /\ Cardinality(ChangedSet \ {w}) \in Nat
    BY <1>4, <1>5
  <2> HIDE DEF k
  <2>4. /\ Cardinality(ChangedSet') + (IF w \in ChangedSet THEN 1 ELSE 0)
             = k + (IF ShowsChange(t) THEN 1 ELSE 0)
        /\ Cardinality(ChangedSet') \in Nat
    BY <1>3, <2>1, <2>3
  <2> QED  BY <1>6, <2>1, <2>2, <2>4 DEF k
<1> QED  BY <1>7, <1>8

RecordsBalance == counters.evadedRecords = sent.edits + SumOf(Unsent)

\* RecordsCounted, said with SumOf.
LEMMA RecordsCountedIs ==
  (RecordsCounted <=> RecordsBalance) /\ (RecordsCounted' <=> RecordsBalance')
<1>1. RecordsCounted <=> RecordsBalance
  BY Zenon DEF RecordsCounted, RecordsBalance, SumOf, Unsent
<1> QED  BY <1>1, PTL

\* How a step of one task changes the records that have not left.
LEMMA OwedAfter ==
  ASSUME IndInv, CountsInv, NEW w \in Workers, NEW t, task' = [task EXCEPT ![w] = t],
         Owed(t) \in Nat
  PROVE  /\ SumOf(Unsent') + Owed(task[w]) = SumOf(Unsent) + Owed(t)
         /\ SumOf(Unsent) \in Int /\ SumOf(Unsent') \in Int
         /\ \A v \in Leaving' : Difference(task'[v].orig, task'[v].packet) \in Nat
<1> DEFINE S == Leaving
           T == Leaving'
           f == Unsent
           g == Unsent'
<1>1. \A v \in Workers : task'[v] = IF v = w THEN t ELSE task[v]
  BY DEF IndInv, Types
<1>2. S \ {w} = T \ {w} /\ (w \in S <=> task[w].pc = "send") /\ (w \in T <=> t.pc = "send")
  BY <1>1 DEF Leaving
<1>3. \A v \in Leaving' : Difference(task'[v].orig, task'[v].packet) \in Nat
  <2>1. ASSUME NEW v \in Leaving' PROVE Difference(task'[v].orig, task'[v].packet) \in Nat
    <3>1. CASE v = w
      BY <1>1, <1>2, <3>1 DEF Owed
    <3>2. CASE v # w
      <4>1. v \in Leaving /\ task'[v] = task[v]
        BY <1>1, <3>2 DEF Leaving
      <4> QED  BY <4>1 DEF CountsInv
    <3> QED  BY <3>1, <3>2
  <2> QED  BY <2>1
<1>4. f \in [S -> Int] /\ g \in [T -> Int]
  <2>1. \A v \in S : f[v] \in Int
    BY DEF CountsInv, Unsent
  <2>2. \A v \in T : g[v] \in Int
    BY <1>3 DEF Unsent
  <2> QED  BY <2>1, <2>2 DEF Unsent
<1>5. \A v \in S \ {w} : f[v] = g[v]
  BY <1>1, <1>2 DEF Unsent, Leaving
<1>6. /\ w \in S => f[w] = Owed(task[w])
      /\ w \notin S => Owed(task[w]) = 0
      /\ w \in T => g[w] = Owed(t)
      /\ w \notin T => Owed(t) = 0
  BY <1>1, <1>2 DEF Unsent, Owed
<1>7. IsFiniteSet(S)
  BY DnsRewriteAssumption, FS_Subset DEF Leaving
<1> HIDE DEF S, T, f, g
<1>8. /\ SumOf(g) + (IF w \in S THEN f[w] ELSE 0) = SumOf(f) + (IF w \in T THEN g[w] ELSE 0)
      /\ SumOf(f) \in Int /\ SumOf(g) \in Int
  BY <1>2, <1>4, <1>5, <1>7, SumChanges
<1>9. SumOf(g) + Owed(task[w]) = SumOf(f) + Owed(t)
  BY <1>6, <1>8
<1> QED  BY <1>3, <1>8, <1>9 DEF f, g

LEMMA InitCounts == Init => CountsInv
<1> SUFFICES ASSUME Init PROVE CountsInv
  OBVIOUS
<1>1. DoneSet = {} /\ ChangedSet = {}
  BY DEF Init, DoneSet, ChangedSet, ShowsChange, CountsDone, Idle
<1>2. /\ Cardinality({w \in Workers : task[w].pc \in CountsDone}) = 0
      /\ Cardinality({w \in Leaving : Difference(task[w].orig, task[w].packet) > 0}) = 0
  BY <1>1, ChangedSetIs, FS_EmptySet DEF DoneSet
<1>3. /\ counters = [total |-> 0, evadedQueries |-> 0, evadedRecords |-> 0]
      /\ sent = [responses |-> 0, changed |-> 0, edits |-> 0]
  BY DEF Init
<1>4. Leaving = {}
  BY DEF Init, Leaving, Idle
<1>5. SumOf(Unsent) = 0
  <2>1. Unsent \in [{} -> Int]
    BY <1>4 DEF Unsent
  <2> QED  BY <2>1, SumOfNone
<1>6. RecordsCounted
  BY <1>3, <1>5, RecordsCountedIs DEF RecordsBalance
<1> QED  BY <1>2, <1>3, <1>4, <1>6 DEF CountsInv, ResponsesCounted

\* A step of one task after which the counters have grown by what it adds to
\* the responses that were counted and have not left.
Adds(w, t) ==
  /\ task' = [task EXCEPT ![w] = t] /\ Owed(t) \in Nat
  /\ counters' \in [total : Nat, evadedQueries : Nat, evadedRecords : Nat]
  /\ sent'.responses \in Nat /\ sent'.changed \in Nat /\ sent'.edits \in Nat
  /\ counters'.total + sent.responses + Told(task[w].pc \in CountsDone)
       = counters.total + sent'.responses + Told(t.pc \in CountsDone)
  /\ counters'.evadedQueries + sent.changed + Told(ShowsChange(task[w]))
       = counters.evadedQueries + sent'.changed + Told(ShowsChange(t))
  /\ counters'.evadedRecords + sent.edits + Owed(task[w])
       = counters.evadedRecords + sent'.edits + Owed(t)

\* It keeps them right.
LEMMA CountsStep ==
  ASSUME IndInv, CountsInv, NEW w \in Workers, NEW t, Adds(w, t)
  PROVE  CountsInv'
<1> DEFINE was == Told(task[w].pc \in CountsDone)
           is == Told(t.pc \in CountsDone)
           wasSeen == Told(ShowsChange(task[w]))
           isSeen == Told(ShowsChange(t))
<1>1. task' = [task EXCEPT ![w] = t] /\ Owed(t) \in Nat
  BY DEF Adds
<1>2. /\ Cardinality(DoneSet') + was = Cardinality(DoneSet) + is
      /\ Cardinality(ChangedSet') + wasSeen = Cardinality(ChangedSet) + isSeen
  BY <1>1, SetsAfter
<1>3. /\ Cardinality(DoneSet) \in Nat /\ Cardinality(ChangedSet) \in Nat
      /\ Cardinality(DoneSet') \in Nat /\ Cardinality(ChangedSet') \in Nat
  BY <1>1, SetsFinite, SetsAfter
<1>4. /\ counters.total = sent.responses + Cardinality(DoneSet)
      /\ counters.evadedQueries = sent.changed + Cardinality(ChangedSet)
      /\ counters.total \in Nat /\ counters.evadedQueries \in Nat
      /\ sent.responses \in Nat /\ sent.changed \in Nat
  BY ChangedSetIs DEF CountsInv, ResponsesCounted, DoneSet
<1>5. /\ was \in Nat /\ is \in Nat /\ wasSeen \in Nat /\ isSeen \in Nat
      /\ counters'.total \in Nat /\ counters'.evadedQueries \in Nat
      /\ sent'.responses \in Nat /\ sent'.changed \in Nat
  BY DEF Told, Adds
<1>6. /\ counters'.total + sent.responses + was = counters.total + sent'.responses + is
      /\ counters'.evadedQueries + sent.changed + wasSeen
           = counters.evadedQueries + sent'.changed + isSeen
  BY DEF Adds
<1> HIDE DEF was, is, wasSeen, isSeen
<1>7. counters'.total = sent'.responses + Cardinality(DoneSet')
  BY <1>2, <1>3, <1>4, <1>5, <1>6
<1>8. counters'.evadedQueries = sent'.changed + Cardinality(ChangedSet')
  <2> DEFINE queries0 == counters.evadedQueries
             queries1 == counters'.evadedQueries
             changed0 == sent.changed
             changed1 == sent'.changed
             seen0    == Cardinality(ChangedSet)
             seen1    == Cardinality(ChangedSet')
  <2>1. /\ queries0 \in Int /\ queries1 \in Int /\ changed0 \in Int /\ changed1 \in Int
        /\ seen0 \in Int /\ seen1 \in Int /\ wasSeen \in Int /\ isSeen \in Int
    BY <1>3, <1>4, <1>5
  <2>2. /\ seen1 + wasSeen = seen0 + isSeen /\ queries0 = changed0 + seen0
        /\ queries1 + changed0 + wasSeen = queries0 + changed1 + isSeen
    BY <1>2, <1>4, <1>6
  <2> HIDE DEF queries0, queries1, changed0, changed1, seen0, seen1
  <2>3. queries1 = changed1 + seen1
    BY <2>1, <2>2
  <2> QED  BY <2>3 DEF queries1, changed1, seen1
<1>9. ChangedSet' = {v \in Leaving' : Difference(task'[v].orig, task'[v].packet) > 0}
  BY DEF ChangedSet, ShowsChange, Leaving
<1>10. ResponsesCounted'
  BY <1>7, <1>8, <1>9 DEF ResponsesCounted, DoneSet
<1>11. RecordsCounted'
  <2> DEFINE owed == SumOf(Unsent)
             owes == SumOf(Unsent')
             mine == Owed(task[w])
             new  == Owed(t)
  <2>1. owes + mine = owed + new /\ owed \in Int /\ owes \in Int
    BY <1>1, OwedAfter
  <2>2. counters.evadedRecords = sent.edits + owed
    BY RecordsCountedIs DEF CountsInv, RecordsBalance
  <2>3. /\ counters'.evadedRecords \in Int /\ counters.evadedRecords \in Int
        /\ sent'.edits \in Int /\ sent.edits \in Int /\ new \in Int
    BY DEF CountsInv, Adds
  <2>4. mine \in Int
    BY DEF Owed, CountsInv, Leaving
  <2>5. counters'.evadedRecords + sent.edits + mine = counters.evadedRecords + sent'.edits + new
    BY DEF Adds
  <2> DEFINE records0 == counters.evadedRecords
             records1 == counters'.evadedRecords
             edits0   == sent.edits
             edits1   == sent'.edits
  <2> HIDE DEF owed, owes, mine, new, records0, records1, edits0, edits1
  <2>6. records1 = edits1 + owes
    <3>1. /\ records0 = edits0 + owed /\ records1 + edits0 + mine = records0 + edits1 + new
          /\ records0 \in Int /\ records1 \in Int /\ edits0 \in Int /\ edits1 \in Int
      BY <2>2, <2>3, <2>5 DEF records0, records1, edits0, edits1
    <3> QED  BY <2>1, <2>3, <2>4, <3>1
  <2> QED  BY <2>6, RecordsCountedIs DEF RecordsBalance, owes, records1, edits1
<1>12. \A v \in Leaving' : Difference(task'[v].orig, task'[v].packet) \in Nat
  BY <1>1, OwedAfter
<1> QED  BY <1>10, <1>11, <1>12 DEF CountsInv, Adds

\* A step that counts nothing and sends nothing.
LEMMA QuietStep ==
  ASSUME IndInv, CountsInv, NEW w \in Workers, NEW t, task' = [task EXCEPT ![w] = t],
         UNCHANGED <<counters, sent>>,
         task[w].pc # "send",
         (t.pc \in CountsDone) <=> (task[w].pc \in CountsDone),
         t.pc = "send" => Difference(t.orig, t.packet) = 0
  PROVE  CountsInv'
<1>1. /\ Told(t.pc \in CountsDone) = Told(task[w].pc \in CountsDone)
      /\ Told(ShowsChange(t)) = Told(ShowsChange(task[w]))
      /\ Owed(t) = 0 /\ Owed(task[w]) = 0
  BY DEF ShowsChange, Told, Owed
<1>2. /\ counters \in [total : Nat, evadedQueries : Nat, evadedRecords : Nat]
      /\ sent.responses \in Nat /\ sent.changed \in Nat /\ sent.edits \in Nat
  BY DEF CountsInv
<1>3. Adds(w, t)
  BY <1>1, <1>2 DEF Adds
<1> QED  BY <1>3, CountsStep

LEMMA ReceiveCounts == ASSUME IndInv, CountsInv, NEW w \in Workers, Receive(w) PROVE CountsInv'
<1>1. PICK p \in Responses :
        task' = [task EXCEPT ![w] =
          [pc |-> "suppressTable", orig |-> p, packet |-> p, table |-> NoTable,
           data |-> NoData, since |-> clock, moved |-> FALSE]]
  BY DEF Receive
<1> DEFINE t == [pc |-> "suppressTable", orig |-> p, packet |-> p, table |-> NoTable,
                 data |-> NoData, since |-> clock, moved |-> FALSE]
<1>2. task' = [task EXCEPT ![w] = t] /\ t.pc = "suppressTable"
  BY <1>1
<1>3. task[w].pc = "idle" /\ UNCHANGED <<counters, sent>>
  BY DEF Receive, Idle
<1> HIDE DEF t
<1> QED  BY <1>2, <1>3, QuietStep DEF CountsDone

LEMMA SuppressTableCounts ==
  ASSUME IndInv, CountsInv, NEW w \in Workers, SuppressTable(w) PROVE CountsInv'
<1> DEFINE t == [task[w] EXCEPT !.pc = "suppress", !.table = temporary]
<1>1. task' = [task EXCEPT ![w] = t] /\ UNCHANGED <<counters, sent>>
  BY DEF SuppressTable
<1>2. task[w].pc = "suppressTable" /\ t.pc = "suppress"
  BY BusyTask DEF SuppressTable, InHand, Idle
<1> HIDE DEF t
<1> QED  BY <1>1, <1>2, QuietStep DEF CountsDone

LEMMA RewriteTableCounts ==
  ASSUME IndInv, CountsInv, NEW w \in Workers, RewriteTable(w) PROVE CountsInv'
<1> DEFINE t == [task[w] EXCEPT !.pc = "rewrite", !.table = temporary]
<1>1. task' = [task EXCEPT ![w] = t] /\ UNCHANGED <<counters, sent>>
  BY DEF RewriteTable
<1>2. task[w].pc = "rewriteTable" /\ t.pc = "rewrite"
  BY BusyTask DEF RewriteTable, InHand, Idle
<1> HIDE DEF t
<1> QED  BY <1>1, <1>2, QuietStep DEF CountsDone

LEMMA RewriteDataCounts ==
  ASSUME IndInv, CountsInv, NEW w \in Workers, RewriteData(w) PROVE CountsInv'
<1> DEFINE t == [task[w] EXCEPT !.pc = "rewriteTable", !.data = data]
<1>1. /\ task' = [task EXCEPT ![w] = t] /\ task[w].pc = "rewriteData"
      /\ counters' = [counters EXCEPT !.total = @ + 1] /\ sent' = sent
  BY DEF RewriteData
<1>2. t.pc = "rewriteTable"
  BY <1>1, BusyTask DEF InHand
<1>3. /\ counters \in [total : Nat, evadedQueries : Nat, evadedRecords : Nat]
      /\ sent.responses \in Nat /\ sent.changed \in Nat /\ sent.edits \in Nat
  BY DEF CountsInv
<1>4. /\ counters' \in [total : Nat, evadedQueries : Nat, evadedRecords : Nat]
      /\ counters'.total = counters.total + 1 /\ counters'.evadedQueries = counters.evadedQueries
      /\ counters'.evadedRecords = counters.evadedRecords
  BY <1>1, <1>3
<1>5. /\ Told(task[w].pc \in CountsDone) = 0 /\ Told(t.pc \in CountsDone) = 1
      /\ Told(ShowsChange(task[w])) = 0 /\ Told(ShowsChange(t)) = 0
      /\ Owed(task[w]) = 0 /\ Owed(t) = 0
  <2> HIDE DEF t
  <2> QED  BY <1>1, <1>2 DEF Told, ShowsChange, CountsDone, Owed
<1> HIDE DEF t
<1>6. /\ counters'.total + sent.responses + Told(task[w].pc \in CountsDone)
           = counters.total + sent'.responses + Told(t.pc \in CountsDone)
      /\ counters'.evadedQueries + sent.changed + Told(ShowsChange(task[w]))
           = counters.evadedQueries + sent'.changed + Told(ShowsChange(t))
      /\ counters'.evadedRecords + sent.edits + Owed(task[w])
           = counters.evadedRecords + sent'.edits + Owed(t)
  BY <1>1, <1>3, <1>4, <1>5
<1>7. Adds(w, t)
  BY <1>1, <1>3, <1>4, <1>5, <1>6 DEF Adds
<1> QED  BY <1>7, CountsStep

LEMMA SuppressCounts ==
  ASSUME IndInv, CountsInv, NEW w \in Workers, Suppress(w) PROVE CountsInv'
<1> DEFINE o == task[w]
           n == Cardinality(Answers(o.orig))
<1>1. o.pc = "suppress" /\ InHand(o, clock, temporary, rewriteTtl) /\ sent' = sent
  BY BusyTask DEF Suppress
<1>2. o.packet = o.orig /\ o.orig \in Responses
  BY <1>1 DEF InHand
<1>3. CASE MustSuppress(o.packet, RuleFor(w))
  <2> DEFINE t == [o EXCEPT !.pc = "send", !.packet = Emptied(o.packet)]
  <2>1. task' = [task EXCEPT ![w] = t] /\ counters' = Suppressed(counters, n)
    BY <1>2, <1>3 DEF Suppress
  <2>2. t.pc = "send" /\ t.orig = o.orig /\ t.packet = Emptied(o.orig)
    BY <1>1, <1>2 DEF InHand
  <2>3. /\ Difference(t.orig, t.packet) = n /\ n \in Nat
        /\ Difference(t.orig, t.packet) > 0
    BY <1>2, <1>3, <2>2, DifferenceEmptied DEF MustSuppress
  <2>4. /\ counters \in [total : Nat, evadedQueries : Nat, evadedRecords : Nat]
        /\ sent.responses \in Nat /\ sent.changed \in Nat /\ sent.edits \in Nat
    BY DEF CountsInv
  <2> HIDE DEF n
  <2>5. /\ counters' \in [total : Nat, evadedQueries : Nat, evadedRecords : Nat]
        /\ counters'.total = counters.total + 1
        /\ counters'.evadedQueries = counters.evadedQueries + 1
        /\ counters'.evadedRecords = counters.evadedRecords + n
    <3> DEFINE records == counters.evadedRecords + n
    <3>1. counters' = [counters EXCEPT !.total = counters.total + 1,
                                       !.evadedQueries = counters.evadedQueries + 1,
                                       !.evadedRecords = records]
      BY <2>1 DEF Suppressed
    <3>2. records \in Nat
      BY <2>3, <2>4
    <3> HIDE DEF records
    <3>3. counters' = [total |-> counters.total + 1,
                       evadedQueries |-> counters.evadedQueries + 1, evadedRecords |-> records]
      BY <2>4, <3>1
    <3>4. /\ counters' \in [total : Nat, evadedQueries : Nat, evadedRecords : Nat]
          /\ counters'.total = counters.total + 1
          /\ counters'.evadedQueries = counters.evadedQueries + 1
          /\ counters'.evadedRecords = records
      BY <2>4, <3>2, <3>3
    <3> QED  BY <3>4 DEF records
  <2> HIDE DEF t, o
  <2>6. /\ Told(o.pc \in CountsDone) = 0 /\ Told(t.pc \in CountsDone) = 1
        /\ Told(ShowsChange(o)) = 0 /\ Told(ShowsChange(t)) = 1
        /\ Owed(o) = 0 /\ Owed(t) = n
    BY <1>1, <2>2, <2>3 DEF Told, ShowsChange, CountsDone, Owed
  <2>7. /\ counters'.total + sent.responses + Told(o.pc \in CountsDone)
             = counters.total + sent'.responses + Told(t.pc \in CountsDone)
        /\ counters'.evadedQueries + sent.changed + Told(ShowsChange(o))
             = counters.evadedQueries + sent'.changed + Told(ShowsChange(t))
        /\ counters'.evadedRecords + sent.edits + Owed(o)
             = counters.evadedRecords + sent'.edits + Owed(t)
    BY <1>1, <2>3, <2>4, <2>5, <2>6
  <2>8. Adds(w, t)
    BY <1>1, <2>1, <2>3, <2>4, <2>5, <2>6, <2>7 DEF Adds, o
  <2> QED  BY <2>8, CountsStep
<1>4. CASE ~MustSuppress(o.packet, RuleFor(w))
  <2> DEFINE t == [o EXCEPT !.pc = "rewriteData"]
  <2>1. task' = [task EXCEPT ![w] = t] /\ UNCHANGED <<counters, sent>>
    BY <1>4 DEF Suppress
  <2>2. t.pc = "rewriteData"
    BY <1>1 DEF InHand
  <2> HIDE DEF t
  <2> QED  BY <1>1, <2>1, <2>2, QuietStep DEF CountsDone
<1> QED  BY <1>3, <1>4

LEMMA RewriteCounts ==
  ASSUME IndInv, CountsInv, NEW w \in Workers, Rewrite(w) PROVE CountsInv'
<1> DEFINE o   == task[w]
           out == IF o.packet.parses
                  THEN Rewritten(o.packet, RuleFor(w), o.data, rewriteTtl) ELSE o.packet
           n   == Cardinality(Edits(o.packet.rrs, out.rrs))
           t   == [o EXCEPT !.pc = "send", !.packet = out]
<1>1. o.pc = "rewrite" /\ InHand(o, clock, temporary, rewriteTtl) /\ sent' = sent
  BY BusyTask DEF Rewrite
<1>2. o.packet = o.orig /\ o.orig \in Responses /\ rewriteTtl \in Nat
  BY <1>1 DEF InHand, IndInv, Types
<1>3. /\ task' = [task EXCEPT ![w] = t]
      /\ counters' = IF n = 0 THEN counters
                     ELSE [counters EXCEPT !.evadedQueries = @ + 1, !.evadedRecords = @ + n]
  BY DEF Rewrite
<1>4. t.pc = "send" /\ t.orig = o.orig /\ t.packet = out
  BY <1>1 DEF InHand
<1>5. Difference(o.orig, out) = n /\ n \in Nat
  <2>1. CASE o.orig.parses
    <3>1. out = Rewritten(o.orig, RuleFor(w), o.data, rewriteTtl)
      BY <1>2, <2>1
    <3> HIDE DEF out
    <3> QED  BY <1>2, <3>1, DifferenceRewritten
  <2>2. CASE ~o.orig.parses
    <3>1. out = o.orig
      BY <1>2, <2>2
    <3> HIDE DEF out
    <3> QED  BY <1>2, <3>1, DifferenceNone, FS_EmptySet
  <2> QED  BY <2>1, <2>2
<1>6. /\ counters \in [total : Nat, evadedQueries : Nat, evadedRecords : Nat]
      /\ sent.responses \in Nat /\ sent.changed \in Nat /\ sent.edits \in Nat
  BY DEF CountsInv
<1> HIDE DEF t, o, out, n
<1>7. /\ counters' \in [total : Nat, evadedQueries : Nat, evadedRecords : Nat]
      /\ counters'.total = counters.total
      /\ counters'.evadedQueries = counters.evadedQueries + (IF n = 0 THEN 0 ELSE 1)
      /\ counters'.evadedRecords = counters.evadedRecords + n
  <2>1. CASE n = 0
    BY <1>3, <1>6, <2>1
  <2>2. CASE n # 0
    <3> DEFINE records == counters.evadedRecords + n
    <3>1. counters' = [counters EXCEPT !.evadedQueries = counters.evadedQueries + 1,
                                       !.evadedRecords = records]
      BY <1>3, <2>2
    <3>2. records \in Nat
      BY <1>5, <1>6
    <3> HIDE DEF records
    <3>3. counters' = [total |-> counters.total, evadedQueries |-> counters.evadedQueries + 1,
                       evadedRecords |-> records]
      BY <1>6, <3>1
    <3>4. /\ counters' \in [total : Nat, evadedQueries : Nat, evadedRecords : Nat]
          /\ counters'.total = counters.total
          /\ counters'.evadedQueries = counters.evadedQueries + 1
          /\ counters'.evadedRecords = records
      BY <1>6, <3>2, <3>3
    <3> QED  BY <2>2, <3>4 DEF records
  <2> QED  BY <2>1, <2>2
<1>8. /\ Told(o.pc \in CountsDone) = 1 /\ Told(t.pc \in CountsDone) = 1
      /\ Told(ShowsChange(o)) = 0 /\ Told(ShowsChange(t)) = (IF n = 0 THEN 0 ELSE 1)
      /\ Owed(o) = 0 /\ Owed(t) = n
  BY <1>1, <1>4, <1>5 DEF Told, ShowsChange, CountsDone, Owed
<1>9. /\ counters'.total + sent.responses + Told(o.pc \in CountsDone)
           = counters.total + sent'.responses + Told(t.pc \in CountsDone)
      /\ counters'.evadedQueries + sent.changed + Told(ShowsChange(o))
           = counters.evadedQueries + sent'.changed + Told(ShowsChange(t))
      /\ counters'.evadedRecords + sent.edits + Owed(o)
           = counters.evadedRecords + sent'.edits + Owed(t)
  <2>1. counters'.total + sent.responses + Told(o.pc \in CountsDone)
          = counters.total + sent'.responses + Told(t.pc \in CountsDone)
    BY <1>1, <1>7, <1>8
  <2>2. counters'.evadedQueries + sent.changed + Told(ShowsChange(o))
          = counters.evadedQueries + sent'.changed + Told(ShowsChange(t))
    BY <1>1, <1>6, <1>7, <1>8
  <2>3. counters'.evadedRecords + sent.edits + Owed(o)
          = counters.evadedRecords + sent'.edits + Owed(t)
    BY <1>1, <1>5, <1>6, <1>7, <1>8
  <2> QED  BY <2>1, <2>2, <2>3
<1>10. Adds(w, t)
  BY <1>1, <1>3, <1>5, <1>6, <1>7, <1>8, <1>9 DEF Adds, o
<1> QED  BY <1>10, CountsStep

LEMMA SendCounts == ASSUME IndInv, CountsInv, NEW w \in Workers, Send(w) PROVE CountsInv'
<1> DEFINE o == task[w]
           n == Difference(o.orig, o.packet)
<1>1. o.pc = "send" /\ Outcome(o, clock, rewriteTtl) /\ o.orig \in Responses /\ rewriteTtl \in Nat
  BY LeavingTask DEF Send, Leaving, InHand, IndInv, Types
<1>2. /\ task' = [task EXCEPT ![w] = Idle] /\ counters' = counters
      /\ sent' = [responses |-> sent.responses + 1,
                  changed   |-> sent.changed + (IF n > 0 THEN 1 ELSE 0),
                  edits     |-> sent.edits + n]
  BY DEF Send
<1>3. /\ counters \in [total : Nat, evadedQueries : Nat, evadedRecords : Nat]
      /\ sent.responses \in Nat /\ sent.changed \in Nat /\ sent.edits \in Nat
  BY DEF CountsInv
<1>4. n \in Nat
  BY <1>1 DEF CountsInv, Leaving
<1> HIDE DEF o, n
<1>5. /\ Told(o.pc \in CountsDone) = 1 /\ Told(Idle.pc \in CountsDone) = 0
      /\ Told(ShowsChange(o)) = (IF n > 0 THEN 1 ELSE 0) /\ Told(ShowsChange(Idle)) = 0
      /\ Owed(o) = n /\ Owed(Idle) = 0
  BY <1>1 DEF Told, ShowsChange, CountsDone, Idle, n, Owed
<1>6. /\ sent'.responses \in Nat /\ sent'.changed \in Nat /\ sent'.edits \in Nat
      /\ sent'.responses = sent.responses + 1
      /\ sent'.changed = sent.changed + (IF n > 0 THEN 1 ELSE 0)
      /\ sent'.edits = sent.edits + n
  BY <1>2, <1>3, <1>4
<1>7. /\ counters'.total + sent.responses + Told(o.pc \in CountsDone)
           = counters.total + sent'.responses + Told(Idle.pc \in CountsDone)
      /\ counters'.evadedQueries + sent.changed + Told(ShowsChange(o))
           = counters.evadedQueries + sent'.changed + Told(ShowsChange(Idle))
      /\ counters'.evadedRecords + sent.edits + Owed(o)
           = counters.evadedRecords + sent'.edits + Owed(Idle)
  BY <1>2, <1>3, <1>4, <1>5, <1>6
<1>8. Adds(w, Idle)
  BY <1>2, <1>3, <1>5, <1>6, <1>7 DEF Adds, o
<1> QED  BY <1>8, CountsStep

\* Installing a table touches nothing the counters are about.
LEMMA InstallRedirectsCounts == ASSUME IndInv, CountsInv, InstallRedirects PROVE CountsInv'
<1>1. UNCHANGED <<counters, sent>>
  BY DEF InstallRedirects
<1>2. ASSUME NEW w \in Workers
      PROVE  /\ task'[w].pc = task[w].pc
             /\ task[w].pc # "idle" => /\ task'[w].orig = task[w].orig
                                        /\ task'[w].packet = task[w].packet
  <2>1. task'[w] = IF task[w] = Idle THEN Idle ELSE [task[w] EXCEPT !.moved = TRUE]
    BY DEF InstallRedirects
  <2>2. task[w] # Idle => InHand(task[w], clock, temporary, rewriteTtl)
    BY DEF IndInv
  <2> QED  BY <2>1, <2>2 DEF InHand, Idle
<1>3. {w \in Workers : task'[w].pc \in CountsDone} = {w \in Workers : task[w].pc \in CountsDone}
  BY <1>2
<1>4. {w \in Leaving' : Difference(task'[w].orig, task'[w].packet) > 0}
        = {w \in Leaving : Difference(task[w].orig, task[w].packet) > 0}
  BY <1>2 DEF Leaving
<1>5. /\ Leaving' = Leaving
      /\ \A w \in Leaving : Difference(task'[w].orig, task'[w].packet)
                            = Difference(task[w].orig, task[w].packet)
  BY <1>2 DEF Leaving
<1>6. RecordsCounted'
  <2>1. Unsent' = Unsent
    BY <1>5 DEF Unsent
  <2>2. counters.evadedRecords = sent.edits + SumOf(Unsent)
    BY RecordsCountedIs DEF CountsInv, RecordsBalance
  <2>3. counters'.evadedRecords = sent'.edits + SumOf(Unsent')
    BY <1>1, <2>1, <2>2
  <2> QED  BY <2>3, RecordsCountedIs DEF RecordsBalance
<1> QED  BY <1>1, <1>3, <1>4, <1>5, <1>6 DEF CountsInv, ResponsesCounted

LEMMA NextCounts == IndInv /\ CountsInv /\ [Next]_vars => CountsInv'
<1> SUFFICES ASSUME IndInv, CountsInv, [Next]_vars PROVE CountsInv'
  OBVIOUS
<1>1. ASSUME UNCHANGED <<task, counters, sent>> PROVE CountsInv'
  <2>1. ResponsesCounted'
    BY <1>1 DEF CountsInv, ResponsesCounted, Leaving
  <2>2. Unsent' = Unsent /\ Leaving' = Leaving
    BY <1>1 DEF Unsent, Leaving
  <2>3. RecordsCounted'
    BY <1>1, <2>2, RecordsCountedIs DEF CountsInv, RecordsBalance
  <2> QED  BY <1>1, <2>1, <2>2, <2>3 DEF CountsInv
<1>2. CASE UNCHANGED vars
  BY <1>1, <1>2 DEF vars
<1>3. CASE ReloadData \/ Tick
  BY <1>1, <1>3 DEF ReloadData, Tick
<1> QED
  BY <1>2, <1>3, ReceiveCounts, SuppressTableCounts, SuppressCounts, RewriteDataCounts,
     RewriteTableCounts, RewriteCounts, SendCounts, InstallRedirectsCounts DEF Next

-------------------------------------------------------------------------------
\* README.md:77.  For any lists and any tables: no blocked address that has a
\* free neighbour leaves in a rewritten response, unless a pin put it there.
THEOREM EvadableNeverSent == Spec => []NoEvadableAddressSent
BY IndInvHolds, NoEvadableStep, PTL

\* README.md:79.  A response with no Cloudflare address leaves exactly as it came if
\* the table it is rewritten with has no rule for its domain, or one that had
\* expired when it arrived.
THEOREM OffCloudflareKept == Spec => []OffCloudflareUntouched
BY IndInvHolds, OffCloudflareStep, PTL

\* README.md:78.  TTLs are capped as promised, and none is raised.
THEOREM TtlsCapped == Spec => []TtlCapped
BY IndInvHolds, TtlCappedStep, PTL

\* main.rs:648-649.  The AD flag never leaves on a response that was changed.
THEOREM AdOnlyIfUnchanged == Spec => []AuthenticOnlyIfUnchanged
BY IndInvHolds, AuthenticStep, PTL

\* README.md:169.  While the table stands, the rule in force decides a response.
THEOREM PinsObeyed == Spec => []PinObeyed
BY IndInvHolds, PinObeyedStep, PTL

\* App.counters, main.rs: every response is counted once, whichever path it
\* takes, and one counts as evaded exactly when it was changed, however the
\* tasks interleave.
THEOREM EveryResponseCounted == Spec => []ResponsesCounted
<1>1. Spec => []CountsInv
  BY IndInvHolds, InitCounts, NextCounts, PTL DEF Spec
<1>2. CountsInv => ResponsesCounted
  BY DEF CountsInv
<1> QED  BY <1>1, <1>2, PTL

\* App.counters, main.rs: the evaded records are the answers removed and the
\* addresses changed in the responses that left or are about to.
THEOREM EveryRecordCounted == Spec => []RecordsCounted
<1>1. Spec => []CountsInv
  BY IndInvHolds, InitCounts, NextCounts, PTL DEF Spec
<1>2. CountsInv => RecordsCounted
  BY DEF CountsInv
<1> QED  BY <1>1, <1>2, PTL
===============================================================================
