------------------------------ MODULE ProbeServer ------------------------------
(***************************************************************************)
(* The probe server (probe-server.py).  A probe on a subscriber's line     *)
(* says which addresses of which domains serve from there; the server      *)
(* checks each of them from its own line.  An address that serves here and *)
(* not there in several reports in a row is blocked: it goes to a file     *)
(* that the blocklist updater merges (strategy cf-blocklist), or a healthy *)
(* address of the same domain is pinned instead of it in the redirects     *)
(* file of evade-proxy (verified-pool).                                    *)
(*                                                                         *)
(* Each report is served by a thread of its own, which takes the time,     *)
(* makes its checks, and applies the report under a lock.  The janitor     *)
(* thread drops addresses that nobody has confirmed for long.              *)
(*                                                                         *)
(* One address family: the two share nothing but the lock.  A check's      *)
(* outcome is free, so the cache of checks is part of that freedom.  The   *)
(* redirects file is the table of pins, written again at every report with *)
(* a new expiry, so it has no variable of its own.                         *)
(*                                                                         *)
(* A time is kept as its age: the code only compares differences of times. *)
(***************************************************************************)
EXTENDS Integers, FiniteSets

CONSTANTS
  Domains, Pools,  \* the domains of domains.json, and those with verified-pool
  Addrs,
  Named,           \* bound: the addresses that a report may name of a domain; the
                   \* server takes any, once each (the probe repeats none)
  Rank,            \* the place of a domain in domains.json, and in a report
  Configs,         \* the domains the file may list at the start
  Confirm, Clear,  \* CONFIRM and CLEAR: rounds
  BlockTtl,        \* BLOCK_TTL
  JanitorEvery,    \* 60
  MaxReports,      \* bound: reports served at a time
  MaxReport,       \* bound: the longest that a report's checks last
  MaxMishaps       \* bound: edits, restarts and failed writes, together

ASSUME ProbeServerAssumption ==
  /\ Pools \subseteq Domains
  /\ Named \in [Domains -> SUBSET Addrs]
  /\ Rank \in [Domains -> Nat] /\ \A d, e \in Domains : Rank[d] = Rank[e] => d = e
  /\ Configs \subseteq SUBSET Domains
  /\ Confirm \in Nat \ {0} /\ Clear \in Nat \ {0} /\ Clear <= Confirm
  /\ BlockTtl \in Nat
  /\ JanitorEvery \in Nat \ {0} /\ MaxReport \in Nat /\ MaxReports \in Nat \ {0}
  /\ MaxMishaps \in Nat

NoPin      == "no pin"
NotBlocked == -1
Never      == -1  \* no confirmation that still has to count

ASSUME NoPinAssumption == NoPin \notin Addrs

VARIABLES
  config,         \* _cfg: the domains listed now
  state,          \* _state: the counts of each key, Unseen if it has none
  redirects,      \* _redirects
  blocked,        \* _blocked: age of the last confirmation, or NotBlocked
  reports,        \* those whose checks go on: their age, the domains known at
                  \* their start
  wake,           \* how long the janitor sleeps still
  blockedFile,    \* probe_blocked_ips.txt: a set of addresses
  sky,            \* environment: "mixed", or "clear": from now on every address
                  \* serves from both lines
  streak,         \* history: rounds in a row that each key was blocked, or served;
                  \* rounds that it served since the last that it was blocked
  confirmed,      \* history: age of the last report that confirmed an address
                  \* blocked, until a domain has seen it serve CLEAR rounds since
                  \* it last saw it blocked, this round among them
  doubted,        \* history: those that a domain had seen serve so often before they
                  \* were confirmed
  stale,          \* history: a write of the file failed, or its reading broke off,
                  \* and it has not been written since
  mishaps         \* bound: those so far

memory  == <<state, redirects, blocked, reports, wake>>
history == <<streak, confirmed, doubted, stale>>
vars    == <<config, memory, blockedFile, sky, history, mishaps>>

Keys     == Domains \X Addrs
Unseen   == [blocked |-> 0, serving |-> 0]

\* "block": it serves from here and not from there; "outage": not from here.
Verdicts == {"block", "serve", "outage"}

NoStreak == [blocks |-> 0, serves |-> 0, since |-> 0]

UpTo(n, limit) == IF n < limit THEN n ELSE limit

Init ==
  /\ config \in Configs
  /\ state = [k \in Keys |-> Unseen]
  /\ redirects = [p \in Pools |-> NoPin]
  /\ blocked = [a \in Addrs |-> NotBlocked]
  /\ reports = {}
  /\ wake = JanitorEvery
  /\ blockedFile = {}
  /\ sky = "mixed"
  /\ streak = [k \in Keys |-> NoStreak]
  /\ confirmed = [a \in Addrs |-> Never] /\ doubted = {}
  /\ stale = FALSE
  /\ mishaps = 0

-------------------------------------------------------------------------------
\* process_report.

\* A thread takes the time and looks up the domains; its checks begin.
Receive ==
  /\ Cardinality(reports) < MaxReports
  /\ reports' = reports \cup {[age |-> 0, known |-> config]}
  /\ UNCHANGED <<config, state, redirects, blocked, wake, blockedFile, sky, history, mishaps>>

\* What a report with its checks may say: something of some of the addresses it
\* knows, as resolutions vary; or, of all of them, that they serve.
KnownKeys == [known \in SUBSET Domains |-> {k \in Keys : k[1] \in known /\ k[2] \in Named[k[1]]}]
Rounds    == [known \in SUBSET Domains |-> UNION {[K -> Verdicts] : K \in SUBSET KnownKeys[known]}]
AllServe  == [known \in SUBSET Domains |-> {[k \in KnownKeys[known] |-> "serve"]}]

Counted_OutageKeepsBlocked(st, verdict) ==
  CASE verdict = "block"  -> [blocked |-> UpTo(st.blocked + 1, Confirm), serving |-> 0]
    [] verdict = "serve"  -> [blocked |-> 0, serving |-> UpTo(st.serving + 1, Clear)]
    [] verdict = "outage" -> st

\* The counts are kept up to the values they are compared with.
Counted(st, verdict) ==
  CASE verdict = "block"  -> [blocked |-> UpTo(st.blocked + 1, Confirm), serving |-> 0]
    [] verdict = "serve"  -> [blocked |-> 0, serving |-> UpTo(st.serving + 1, Clear)]
    [] verdict = "outage" -> [blocked |-> 0, serving |-> st.serving]

Counts(round) ==
  [k \in Keys |-> IF k \in DOMAIN round THEN Counted(state[k], round[k]) ELSE state[k]]

\* The buckets of by_dom.
Reported(round)            == {k[1] : k \in DOMAIN round}
BlockedIn(round, counts, d) ==
  {a \in Addrs : <<d, a>> \in DOMAIN round /\ counts[<<d, a>>].blocked >= Confirm}
HealthyIn_AnyVerdict(round, counts, d) ==
  {a \in Addrs : <<d, a>> \in DOMAIN round /\ counts[<<d, a>>].serving >= Clear}
HealthyIn(round, counts, d) ==
  {a \in Addrs : /\ <<d, a>> \in DOMAIN round /\ round[<<d, a>>] = "serve"
                 /\ counts[<<d, a>>].serving >= Clear}

\* cf-blocklist.  The domains of a report act one after the other: each adds its
\* blocked addresses, then removes those it counts as serving.
Blockers(round, counts, a) == {d \in Reported(round) \ Pools : a \in BlockedIn(round, counts, d)}
Clearers(round, counts, a) ==
  {d \in Reported(round) \ Pools : counts[<<d, a>>].serving >= Clear}

LastSays(D, E) == \E d \in D : \A e \in E : Rank[e] < Rank[d]

BlockedAfter(round, counts, age) ==
  [a \in Addrs |->
     LET B == Blockers(round, counts, a)
         C == Clearers(round, counts, a)
     IN  IF LastSays(B, C) THEN age ELSE IF C # {} THEN NotBlocked ELSE blocked[a]]

\* verified-pool.  Among the healthy addresses the report's fastest is taken.
PinsAfter(round, counts, p) ==
  LET B == BlockedIn(round, counts, p)
      H == HealthyIn(round, counts, p)
      pin == redirects[p]
  IN  IF p \notin Reported(round) THEN {pin}
      ELSE IF B # {} /\ H # {} THEN H
      ELSE IF B = {} /\ pin # NoPin /\ counts[<<p, pin>>].serving >= Clear THEN {NoPin}
      ELSE {pin}

\* expire_blocked, for a report that took its time "age" ago.
Expired(ages, age) ==
  [a \in Addrs |-> IF ages[a] - age > BlockTtl THEN NotBlocked ELSE ages[a]]

\* The counts of keys that are not reported for an hour are purged.  The hour is
\* far beyond the other times of this module: any key that is not in this report may
\* have been out for that long.
Purged(counts, old) == [k \in Keys |-> IF k \in old THEN Unseen ELSE counts[k]]

Mishap == mishaps < MaxMishaps /\ mishaps' = mishaps + 1

FlushBlocked_OnlyNews ==
  IF blocked' = blocked THEN UNCHANGED <<blockedFile, stale, mishaps>>
  ELSE \/ blockedFile' = {a \in Addrs : blocked'[a] # NotBlocked} /\ stale' = FALSE /\ UNCHANGED mishaps
       \/ Mishap /\ stale' = TRUE /\ UNCHANGED blockedFile

\* flush_blocked_files.  An error is printed and leaves the old file.
FlushBlocked ==
  \/ blockedFile' = {a \in Addrs : blocked'[a] # NotBlocked} /\ stale' = FALSE /\ UNCHANGED mishaps
  \/ Mishap /\ stale' = TRUE /\ UNCHANGED blockedFile

\* What this round, and the rounds before it, say of an address and not the server's
\* counts: a domain confirms it blocked; one sees it serve steadily; one did before.
Confirms(round, a) ==
  \E d \in Domains \ Pools : <<d, a>> \in DOMAIN round /\ streak'[<<d, a>>].blocks >= Confirm
Serves(round, a) ==
  \E d \in Domains \ Pools :
    <<d, a>> \in DOMAIN round /\ round[<<d, a>>] = "serve" /\ streak'[<<d, a>>].since >= Clear
ServedBefore(round, a) ==
  \E d \in Domains \ Pools :
    /\ <<d, a>> \notin DOMAIN round \/ round[<<d, a>>] = "outage"
    /\ streak[<<d, a>>].since >= Clear

Remember(round, old) ==
  /\ streak' = [k \in Keys |->
       IF k \in old THEN NoStreak ELSE IF k \notin DOMAIN round THEN streak[k]
       ELSE [blocks |-> IF round[k] = "block" THEN UpTo(streak[k].blocks + 1, Confirm) ELSE 0,
             serves |-> IF round[k] = "serve" THEN UpTo(streak[k].serves + 1, Clear) ELSE 0,
             since  |-> CASE round[k] = "block"  -> 0
                          [] round[k] = "serve"  -> UpTo(streak[k].since + 1, Clear)
                          [] round[k] = "outage" -> streak[k].since]]
  /\ confirmed' = [a \in Addrs |->
       IF Serves(round, a) THEN Never ELSE IF Confirms(round, a) THEN 0 ELSE confirmed[a]]
  /\ doubted' = {a \in Addrs :
       /\ confirmed'[a] # Never
       /\ IF Confirms(round, a) THEN ServedBefore(round, a) ELSE a \in doubted}

\* The report is applied, in one critical section.
Apply(report) ==
  /\ reports' = reports \ {report}
  /\ \E round \in (IF sky = "clear" THEN AllServe ELSE Rounds)[report.known],
        old \in SUBSET {k \in Keys : state[k] # Unseen} :
       LET counts == Counts(round)
       IN  /\ old \cap DOMAIN round = {}
           /\ state' = Purged(counts, old)
           /\ blocked' = Expired(BlockedAfter(round, counts, report.age), report.age)
           /\ redirects' \in {pins \in [Pools -> Addrs \cup {NoPin}] :
                              \A p \in Pools : pins[p] \in PinsAfter(round, counts, p)}
           /\ Remember(round, old)
  /\ FlushBlocked
  /\ UNCHANGED <<config, wake, sky>>

-------------------------------------------------------------------------------
\* The janitor, restarts, and the rest of the world.

Janitor_NoFlush ==
  /\ wake = 0
  /\ blocked' = Expired(blocked, 0)
  /\ wake' = JanitorEvery
  /\ UNCHANGED <<config, state, redirects, reports, blockedFile, sky, history, mishaps>>

Janitor ==
  /\ wake = 0
  /\ blocked' = Expired(blocked, 0)
  /\ FlushBlocked
  /\ wake' = JanitorEvery
  /\ UNCHANGED <<config, state, redirects, reports, sky, streak, confirmed, doubted>>

Recover(recovered) ==
  /\ blocked' = [a \in Addrs |-> IF a \in recovered THEN 0 ELSE NotBlocked]
  /\ state' = [k \in Keys |-> Unseen]
  /\ redirects' = [p \in Pools |-> NoPin]
  /\ reports' = {}
  /\ wake' = JanitorEvery
  /\ streak' = [k \in Keys |-> NoStreak]
  /\ UNCHANGED <<config, blockedFile, sky>>

Restart_Forgets ==
  /\ Mishap
  /\ Recover({})
  /\ UNCHANGED <<confirmed, doubted, stale>>

\* load_blocked_files: the confirmed addresses come back as if confirmed now; an
\* error while reading leaves those read so far, and lets the others go.  Counts
\* and pins are lost, and a confirmation that could not be written.
Restart ==
  /\ Mishap
  /\ \E recovered \in SUBSET blockedFile :
       /\ Recover(recovered)
       /\ stale' = (recovered # blockedFile)
       /\ confirmed' = [a \in Addrs |->
            IF a \in blockedFile \ recovered \/ (stale /\ a \notin blockedFile)
            THEN Never ELSE confirmed[a]]
       /\ doubted' = {a \in doubted : confirmed'[a] # Never}

\* A domain is taken out of domains.json; load_config reads it again when it has
\* changed, so the reports whose checks begin from now on do not know it.
Edit ==
  /\ Mishap
  /\ \E d \in config : config' = config \ {d}
  /\ UNCHANGED <<memory, blockedFile, sky, history>>

\* The janitor is not late, and no report's checks last longer than MaxReport.
Tick ==
  /\ wake > 0 /\ wake' = wake - 1
  /\ \A r \in reports : r.age < MaxReport
  /\ reports' = {[r EXCEPT !.age = @ + 1] : r \in reports}
  /\ blocked' = [a \in Addrs |-> IF blocked[a] = NotBlocked THEN NotBlocked ELSE blocked[a] + 1]
  /\ confirmed' = [a \in Addrs |->
       IF confirmed[a] = Never \/ confirmed[a] >= BlockTtl - MaxReport THEN Never ELSE confirmed[a] + 1]
  /\ doubted' = {a \in doubted : confirmed'[a] # Never}
  /\ UNCHANGED <<config, state, redirects, blockedFile, sky, streak, stale, mishaps>>

SkyClears ==
  /\ sky = "mixed" /\ sky' = "clear"
  /\ UNCHANGED <<config, memory, blockedFile, history, mishaps>>

Next ==
  \/ Receive \/ \E r \in reports : Apply(r)
  \/ Janitor \/ Restart \/ Edit \/ Tick \/ SkyClears

Spec == Init /\ [][Next]_vars

\* The probe reports for ever (its loop retries after any error), every report whose
\* checks have had their time is applied or dies with the server, and the janitor wakes.
LiveSpec ==
  /\ Spec
  /\ WF_vars(Receive) /\ WF_vars(Janitor) /\ WF_vars(Tick)
  /\ WF_reports(\E r \in reports : r.age = MaxReport /\ reports' = reports \ {r})

-------------------------------------------------------------------------------
\* Properties.

\* probe-server.py:44, probe/README.md:106.  An address is confirmed, or confirmed
\* again, only after CONFIRM verdicts in a row against it for one domain.
BlockNeedsRounds ==
  [][\A a \in Addrs :
       /\ blocked'[a] # NotBlocked
       /\ blocked[a] = NotBlocked \/ blocked'[a] < blocked[a]
       /\ ~Restart
       => \E d \in Domains \ Pools :
            streak'[<<d, a>>].blocks >= Confirm]_vars

\* A confirmation that counts still: young enough, the time of a confirmation being
\* that of its report's start.
Recent(a) == confirmed[a] # Never /\ confirmed[a] <= BlockTtl - MaxReport

\* probe-server.py:50, 339.  A confirmed address stays blocked until a domain sees it
\* serve, in CLEAR rounds since it last saw it blocked, or nobody confirms it for
\* BLOCK_TTL, less what a report may last.  An outage or a round that does not name it
\* ends nothing, and neither does a restart, unless it could not be written or read.
\* An address that a domain had seen serve so often before it was confirmed is
\* excepted: any report that names that domain reverts it, whatever it saw this time.
StaysBlocked == \A a \in Addrs : Recent(a) /\ a \notin doubted => blocked[a] # NotBlocked

\* probe-server.py:50, 181-194.  Even if no probe ever reports again, the file names
\* no address whose last confirmation is older than BLOCK_TTL (or than the longest
\* report) by more than the janitor's round.  It names one that is not blocked only
\* while the last write or read of it has failed.
BlockEnds ==
  LET life == IF BlockTtl < MaxReport THEN MaxReport ELSE BlockTtl
  IN  \A a \in blockedFile :
        IF blocked[a] = NotBlocked THEN stale ELSE blocked[a] <= life + JanitorEvery

\* probe-server.py:11-12, probe/README.md:35-37.  A pin is set only for a domain
\* with an address found blocked CONFIRM times in a row, and on an address that
\* the same report saw serve.
PinVerified ==
  [][\A p \in Pools : redirects'[p] \notin {redirects[p], NoPin} =>
       /\ streak'[<<p, redirects'[p]>>].serves >= 1
       /\ \E a \in Addrs : streak'[<<p, a>>].blocks >= Confirm]_vars

\* probe-server.py:336, 348.  Once everything serves again, the file of
\* blocked addresses ends up empty, and so do the pins of the domains still
\* listed, whatever happened before: a failed write is made good.
Heals ==
  <>[](sky = "clear") =>
    <>[](blockedFile = {} /\ \A p \in Pools \cap config : redirects[p] = NoPin)

\* probe-server.py:45, "rondas consecutivas sirviendo para revertir": a block is
\* reverted only after CLEAR verdicts in a row that it serves.  An outage does
\* not reset the count of serving rounds: the code does not keep this.
RevertNeedsRounds ==
  [][\A a \in Addrs :
       /\ blocked[a] # NotBlocked /\ blocked'[a] = NotBlocked
       /\ blocked[a] <= BlockTtl /\ ~Restart
       => \E d \in Domains \ Pools :
            streak'[<<d, a>>].serves >= Clear]_vars
===============================================================================
