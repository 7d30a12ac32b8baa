------------------------------ MODULE DnsRewrite ------------------------------
(***************************************************************************)
(* The tasks of evade-proxy that process upstream responses (App::process),*)
(* together with the maintenance task, which swaps the redirect table and  *)
(* the lists under their locks between any two reads.  What a response     *)
(* becomes is defined in DnsResponse; here are the reads it depends on, in *)
(* their order, and the counters.                                          *)
(***************************************************************************)
EXTENDS DnsResponse

CONSTANTS
  Workers,         \* relay tasks
  Responses,       \* the responses upstream may return
  TestRedirects,   \* domain -> redirect, from the command line
  RedirectTables,  \* the temporary tables the maintenance task may install
  ListVersions,    \* the lists it may load
  RewriteTtls,     \* the values EVADE_REWRITE_TTL may have
  MaxClock,        \* bound: the clock stops here
  MaxResponses     \* bound: responses processed in one behaviour

NoTable == <<>>
NoData  == <<>>
Idle    == [pc |-> "idle"]

Records == [kind : Nat, answer : BOOLEAN, ttl : Nat, v4 : Seq(Nat), v6 : Seq(Nat)]

ASSUME DnsRewriteAssumption ==
  /\ IsFiniteSet(Workers)
  /\ RewriteTtls \subseteq Nat
  /\ MaxClock \in Nat /\ MaxResponses \in Nat
  /\ \A p \in Responses :
       p \in [domain : {p.domain}, qtype : Nat, rcodeOk : BOOLEAN, ad : BOOLEAN,
             parses : BOOLEAN, rrs : Seq(Records)]
  /\ \A d \in DOMAIN TestRedirects : TestRedirects[d].expires = NoExpiry
  /\ \A table \in RedirectTables : \A d \in DOMAIN table : table[d].expires \in Int

VARIABLES
  rewriteTtl, \* Paths.rewrite_ttl, read once from the environment
  temporary,  \* App.temporary_redirects
  data,       \* App.data
  clock,      \* epoch()
  task,       \* each relay task's local state
  counters,   \* App.counters
  sent        \* history: what left, counted from the packets themselves

vars == <<rewriteTtl, temporary, data, clock, task, counters, sent>>

-------------------------------------------------------------------------------
\* The relay tasks.

Init ==
  /\ rewriteTtl \in RewriteTtls
  /\ temporary \in RedirectTables \cup {NoTable}
  /\ data \in {DataNew(lists) : lists \in ListVersions}
  /\ clock = 0
  /\ task = [w \in Workers |-> Idle]
  /\ counters = [total |-> 0, evadedQueries |-> 0, evadedRecords |-> 0]
  /\ sent = [responses |-> 0, changed |-> 0, edits |-> 0]

Active == {w \in Workers : task[w].pc # "idle"}

\* An upstream response arrives: process() starts with it.  (History, read by
\* the properties only: "since", when; "moved", whether the redirect table was
\* replaced in the meantime.)
Receive(w) ==
  /\ task[w] = Idle
  /\ sent.responses + Cardinality(Active) < MaxResponses
  /\ \E p \in Responses :
       task' = [task EXCEPT ![w] =
         [pc |-> "suppressTable", orig |-> p, packet |-> p,
          table |-> NoTable, data |-> NoData, since |-> clock, moved |-> FALSE]]
  /\ UNCHANGED <<rewriteTtl, temporary, data, clock, counters, sent>>

\* suppress_unverified_family takes its own snapshot of the table.
SuppressTable(w) ==
  /\ task[w].pc = "suppressTable"
  /\ task' = [task EXCEPT ![w].pc = "suppress", ![w].table = temporary]
  /\ UNCHANGED <<rewriteTtl, temporary, data, clock, counters, sent>>

Suppressed_NoTotal(c, n) ==
  [c EXCEPT !.evadedQueries = @ + 1, !.evadedRecords = @ + n]

Suppressed_OneRecord(c, n) ==
  [c EXCEPT !.total = @ + 1, !.evadedQueries = @ + 1, !.evadedRecords = @ + 1]

Suppressed(c, n) ==
  [c EXCEPT !.total = @ + 1, !.evadedQueries = @ + 1, !.evadedRecords = @ + n]

RuleFor(w) == ActiveRedirect(task[w].packet.domain, TestRedirects, task[w].table, clock)

Suppress(w) ==
  LET p == task[w].packet
  IN  /\ task[w].pc = "suppress"
      /\ UNCHANGED <<rewriteTtl, temporary, data, clock, sent>>
      /\ IF MustSuppress(p, RuleFor(w))
         THEN /\ task' = [task EXCEPT ![w].pc = "send", ![w].packet = Emptied(p)]
              /\ counters' = Suppressed(counters, Cardinality(Answers(p)))
         ELSE task' = [task EXCEPT ![w].pc = "rewriteData"] /\ UNCHANGED counters

\* rewrite counts the response before it looks at it, then takes a snapshot of
\* the lists ...
RewriteData(w) ==
  /\ task[w].pc = "rewriteData"
  /\ counters' = [counters EXCEPT !.total = @ + 1]
  /\ task' = [task EXCEPT ![w].pc = "rewriteTable", ![w].data = data]
  /\ UNCHANGED <<rewriteTtl, temporary, data, clock, sent>>

\* ... and a second snapshot of the redirect table.
RewriteTable(w) ==
  /\ task[w].pc = "rewriteTable"
  /\ task' = [task EXCEPT ![w].pc = "rewrite", ![w].table = temporary]
  /\ UNCHANGED <<rewriteTtl, temporary, data, clock, counters, sent>>

\* A response whose records do not parse leaves as it came.
Rewrite(w) ==
  LET p   == task[w].packet
      out == IF p.parses THEN Rewritten(p, RuleFor(w), task[w].data, rewriteTtl) ELSE p
      n   == Cardinality(Edits(p.rrs, out.rrs))
  IN  /\ task[w].pc = "rewrite"
      /\ task' = [task EXCEPT ![w].pc = "send", ![w].packet = out]
      /\ counters' = IF n = 0 THEN counters
                     ELSE [counters EXCEPT !.evadedQueries = @ + 1, !.evadedRecords = @ + n]
      /\ UNCHANGED <<rewriteTtl, temporary, data, clock, sent>>

\* Answers removed or addresses changed, read off the packets alone.
Difference(orig, out) ==
  IF Answers(orig) # {} /\ Answers(out) = {} THEN Cardinality(Answers(orig))
  ELSE Cardinality(Edits(orig.rrs, out.rrs))

\* The relay hands the response to the client's socket.
Send(w) ==
  LET n == Difference(task[w].orig, task[w].packet)
  IN  /\ task[w].pc = "send"
      /\ task' = [task EXCEPT ![w] = Idle]
      /\ sent' = [responses |-> sent.responses + 1,
                  changed   |-> sent.changed + (IF n > 0 THEN 1 ELSE 0),
                  edits     |-> sent.edits + n]
      /\ UNCHANGED <<rewriteTtl, temporary, data, clock, counters>>

-------------------------------------------------------------------------------
\* The maintenance task and the clock.

\* The table is replaced only when it differs from the one in place.
InstallRedirects ==
  /\ temporary' \in RedirectTables \ {temporary}
  /\ task' = [w \in Workers |->
                IF task[w] = Idle THEN Idle ELSE [task[w] EXCEPT !.moved = TRUE]]
  /\ UNCHANGED <<rewriteTtl, data, clock, counters, sent>>

ReloadData ==
  /\ data' \in {DataNew(lists) : lists \in ListVersions}
  /\ UNCHANGED <<rewriteTtl, temporary, clock, task, counters, sent>>

Tick ==
  /\ clock < MaxClock
  /\ clock' = clock + 1
  /\ UNCHANGED <<rewriteTtl, temporary, data, task, counters, sent>>

Next ==
  \/ \E w \in Workers : \/ Receive(w) \/ SuppressTable(w) \/ Suppress(w)
                        \/ RewriteData(w) \/ RewriteTable(w) \/ Rewrite(w) \/ Send(w)
  \/ InstallRedirects
  \/ ReloadData
  \/ Tick

Spec == Init /\ [][Next]_vars

-------------------------------------------------------------------------------
\* Properties.  They look at a response that is about to leave.

Leaving == {w \in Workers : task[w].pc = "send"}

\* It went through rewrite (a suppressed one took no snapshot of the lists).
WasRewritten(w) == task[w].packet.parses /\ task[w].data # NoData

\* The rule its last snapshot of the table holds for the domain, expired or not.
Rule(w) ==
  LET domain == task[w].orig.domain
  IN  IF domain \in DOMAIN TestRedirects THEN TestRedirects[domain]
      ELSE IF domain \in DOMAIN task[w].table THEN task[w].table[domain] ELSE NoRedirect

\* README.md:77.  No address blocked in the lists of the response leaves the
\* proxy, in any section or hint, unless a pin put it there or it has no free
\* neighbour; in particular no replacement is itself blocked.
NoEvadableAddressSent ==
  \A w \in Leaving : WasRewritten(w) =>
    LET t == task[w]
        Allowed(old, new, pin, blocked, hops) ==
          new \in blocked => (pin # NoAddr /\ new = pin) \/ (new = old /\ new \notin DOMAIN hops)
    IN  \A i \in DOMAIN t.packet.rrs :
          LET old == t.orig.rrs[i]
              new == t.packet.rrs[i]
              pin == IF new.answer THEN Rule(w) ELSE NoRedirect
          IN  /\ \A j \in DOMAIN new.v4 : Allowed(old.v4[j], new.v4[j], pin.v4,
                                                 t.data.blocked4, t.data.evasion4)
              /\ \A j \in DOMAIN new.v6 : Allowed(old.v6[j], new.v6[j], pin.v6,
                                                 t.data.blocked6, t.data.evasion6)

\* README.md:79.  A response with no Cloudflare address leaves as it came, blocked
\* addresses, TTLs and AD flag included, if the table it is rewritten with, the
\* snapshot taken last, has no rule for its domain or one that had expired when it
\* arrived.  (A rule installed between its arrival and that snapshot does pin it.)
OffCloudflareUntouched ==
  \A w \in Leaving :
    LET t == task[w]
        expired == Rule(w).expires # NoExpiry /\ Rule(w).expires <= t.since
    IN  (/\ WasRewritten(w)
         /\ Rule(w) = NoRedirect \/ expired
         /\ ~HasCloudflare(t.orig.rrs, t.data)) => t.packet = t.orig

\* README.md:78 and main.rs:631-632.  A response with a Cloudflare address, or
\* with a changed one, has every record capped; no TTL is raised and the TTL
\* field of a pseudo-record is left alone.
TtlCapped ==
  \A w \in Leaving : WasRewritten(w) =>
    LET t == task[w]
    IN  \A i \in DOMAIN t.packet.rrs :
          LET old == t.orig.rrs[i].ttl
              new == t.packet.rrs[i].ttl
          IN  IF t.orig.rrs[i].kind \in PseudoKinds THEN new = old
              ELSE /\ new <= old
                   /\ HasCloudflare(t.orig.rrs, t.data) => new <= CloudflareMaxTtl
                   /\ Edits(t.orig.rrs, t.packet.rrs) # {} => new <= rewriteTtl

\* main.rs:648-649.  A response leaves with the AD flag only if the upstream
\* set it and no answer was removed and no address changed.
AuthenticOnlyIfUnchanged ==
  \A w \in Leaving : task[w].packet.ad =>
    task[w].orig.ad /\ Difference(task[w].orig, task[w].packet) = 0

\* While the response uses a rule that pins only an IPv4 address, an AAAA,
\* SVCB or HTTPS question gets no answer.
HidesUnverified(w) ==
  LET r == RuleFor(w)
      p == task[w].packet
  IN  (/\ r.v4 # NoAddr /\ r.v6 = NoAddr
       /\ p.parses /\ p.rcodeOk /\ p.qtype \in Suppressible)
        => Answers(p) = {}

\* README.md:169.  If the table did not change while the response was in hand,
\* a rule still in force decides it: pinned families carry the pin throughout
\* the answer section, and a pin of IPv4 alone leaves no other answer.
PinObeyed ==
  \A w \in Leaving : task[w].packet.parses /\ ~task[w].moved =>
    LET r == RuleFor(w)
        p == task[w].packet
    IN  /\ HidesUnverified(w)
        /\ \A i \in Answers(p) :
             /\ r.v4 # NoAddr => \A j \in DOMAIN p.rrs[i].v4 : p.rrs[i].v4[j] = r.v4
             /\ r.v6 # NoAddr => \A j \in DOMAIN p.rrs[i].v6 : p.rrs[i].v6[j] = r.v6

\* README.md:169 without the proviso of PinObeyed.  process() reads the table
\* twice, so a rule installed between the two reads pins the IPv4 hint of an
\* HTTPS answer and leaves its IPv6 hint: the code does not keep this.
UnverifiedFamilyHidden == \A w \in Leaving : HidesUnverified(w)

CountsDone == {"rewriteTable", "rewrite", "send"}

\* Counters.  Every response is counted once, whichever path it takes, and one
\* counts as evaded exactly when what leaves differs from what came.
ResponsesCounted ==
  /\ counters.total = sent.responses + Cardinality({w \in Workers : task[w].pc \in CountsDone})
  /\ counters.evadedQueries
       = sent.changed + Cardinality({w \in Leaving : Difference(task[w].orig, task[w].packet) > 0})

\* Counters.  The evaded records are the differences seen on the wire and those
\* of responses that are about to leave.
RecordsCounted ==
  counters.evadedRecords =
    sent.edits + FoldFunction(+, 0, [w \in Leaving |-> Difference(task[w].orig, task[w].packet)])
===============================================================================
