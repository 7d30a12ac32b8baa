-------------------------- MODULE ProbeServer_proofs --------------------------
(***************************************************************************)
(* Proofs about the probe server, for any domains, addresses and           *)
(* thresholds, any number of reports served at once and any number of      *)
(* restarts and failed writes.                                             *)
(***************************************************************************)
EXTENDS ProbeServer, TLAPS

Counters == [blocked : Nat, serving : Nat]
Streaks  == [blocks : Nat, serves : Nat, since : Nat]
Reports  == [age : 0..MaxReport, known : SUBSET Domains]

Types ==
  /\ config \in SUBSET Domains
  /\ state \in [Keys -> Counters]
  /\ redirects \in [Pools -> Addrs \cup {NoPin}]
  /\ blocked \in [Addrs -> Nat \cup {NotBlocked}]
  /\ reports \in SUBSET Reports
  /\ wake \in 0..JanitorEvery
  /\ blockedFile \in SUBSET Addrs
  /\ streak \in [Keys -> Streaks]
  /\ confirmed \in [Addrs -> Nat \cup {Never}]
  /\ doubted \in SUBSET Addrs
  /\ stale \in BOOLEAN

\* The server counts the rounds that blocked a key exactly, and those that it served
\* since then.
CountsRounds ==
  \A k \in Keys : state[k].blocked = streak[k].blocks /\ state[k].serving = streak[k].since

\* The file holds what is blocked, but for a fault since it was last written.
FileKept == ~stale => blockedFile = {a \in Addrs : blocked[a] # NotBlocked}

\* A confirmation is recorded with the time of its report's start, so it looks
\* older than it is by what a report may last, and by no more.
Recorded(a) ==
  Recent(a) /\ a \notin doubted
    => blocked[a] # NotBlocked /\ blocked[a] <= confirmed[a] + MaxReport

\* No domain counts enough serving rounds to undo a confirmation.
Unserved(a) ==
  confirmed[a] # Never /\ a \notin doubted
    => \A d \in Domains \ Pools : streak[<<d, a>>].since < Clear

\* What the janitor leaves is at most Life old, and so is what a report records.
Life == IF BlockTtl < MaxReport THEN MaxReport ELSE BlockTtl
Young(a) == blocked[a] # NotBlocked => blocked[a] + wake <= Life + JanitorEvery

IndInv ==
  /\ Types /\ CountsRounds /\ FileKept
  /\ \A a \in Addrs : Recorded(a) /\ Unserved(a) /\ Young(a)
-------------------------------------------------------------------------------
\* A report.

\* What a report may say, it says of known keys.
LEMMA RoundShape ==
  ASSUME NEW known \in SUBSET Domains,
         NEW round \in (IF sky = "clear" THEN AllServe ELSE Rounds)[known]
  PROVE  DOMAIN round \subseteq Keys /\ \A k \in DOMAIN round : round[k] \in Verdicts
<1>1. KnownKeys[known] \subseteq Keys
  BY DEF KnownKeys
<1>2. CASE round \in AllServe[known]
  BY <1>1, <1>2 DEF AllServe, Verdicts
<1>3. CASE round \in Rounds[known]
  <2>1. PICK K \in SUBSET KnownKeys[known] : round \in [K -> Verdicts]
    BY <1>3 DEF Rounds
  <2> QED  BY <1>1, <2>1
<1> QED  BY <1>2, <1>3

LEMMA CountedType ==
  ASSUME NEW st \in Counters, NEW verdict \in Verdicts
  PROVE  /\ Counted(st, verdict) \in Counters
         /\ Counted(st, verdict).blocked
              = IF verdict = "block" THEN UpTo(st.blocked + 1, Confirm) ELSE 0
         /\ Counted(st, verdict).serving
              = CASE verdict = "block"  -> 0
                  [] verdict = "serve"  -> UpTo(st.serving + 1, Clear)
                  [] verdict = "outage" -> st.serving
<1> USE ProbeServerAssumption DEF Counted, Counters, Verdicts, UpTo
<1>1. CASE verdict = "block"
  BY <1>1
<1>2. CASE verdict = "serve"
  BY <1>2
<1>3. CASE verdict = "outage"
  BY <1>3
<1> QED  BY <1>1, <1>2, <1>3

\* The counts and their history go up, are reset and are purged together.
LEMMA CountsAfterReport ==
  ASSUME Types, CountsRounds, NEW round, NEW old \in SUBSET Keys,
         DOMAIN round \subseteq Keys, \A k \in DOMAIN round : round[k] \in Verdicts,
         old \cap DOMAIN round = {},
         state' = Purged(Counts(round), old), Remember(round, old)
  PROVE  /\ state' \in [Keys -> Counters] /\ streak' \in [Keys -> Streaks]
         /\ CountsRounds'
         /\ \A k \in Keys :
              /\ k \in DOMAIN round =>
                   /\ Counts(round)[k].blocked = streak'[k].blocks
                   /\ Counts(round)[k].serving = streak'[k].since
                   /\ round[k] = "serve" => streak'[k].serves >= 1
                   /\ round[k] = "block" => streak'[k].since = 0
                   /\ round[k] = "outage" => streak'[k].since = streak[k].since
              /\ k \notin DOMAIN round =>
                   /\ Counts(round)[k].serving = streak[k].since
                   /\ streak'[k].since \in {0, streak[k].since}
<1> DEFINE counts == Counts(round)
<1>1. ASSUME NEW k \in Keys
      PROVE  /\ counts[k] \in Counters
             /\ k \notin DOMAIN round => counts[k] = state[k]
             /\ k \in DOMAIN round =>
                  /\ counts[k].blocked =
                       IF round[k] = "block" THEN UpTo(state[k].blocked + 1, Confirm) ELSE 0
                  /\ counts[k].serving =
                       CASE round[k] = "block"  -> 0
                         [] round[k] = "serve"  -> UpTo(state[k].serving + 1, Clear)
                         [] round[k] = "outage" -> state[k].serving
  BY CountedType DEF Counts, Types
<1>2. counts = [k \in Keys |-> counts[k]]
  BY DEF Counts
<1> HIDE DEF counts
<1>3. state' = [k \in Keys |-> IF k \in old THEN Unseen ELSE counts[k]]
  BY DEF Purged, counts
<1>4. Unseen \in Counters /\ Unseen.blocked = 0 /\ Unseen.serving = 0
  BY DEF Unseen, Counters
<1>5. state' \in [Keys -> Counters]
  BY <1>1, <1>3, <1>4
<1>6. streak' = [k \in Keys |->
        IF k \in old THEN NoStreak ELSE IF k \notin DOMAIN round THEN streak[k]
        ELSE [blocks |-> IF round[k] = "block" THEN UpTo(streak[k].blocks + 1, Confirm) ELSE 0,
              serves |-> IF round[k] = "serve" THEN UpTo(streak[k].serves + 1, Clear) ELSE 0,
              since  |-> CASE round[k] = "block"  -> 0
                           [] round[k] = "serve"  -> UpTo(streak[k].since + 1, Clear)
                           [] round[k] = "outage" -> streak[k].since]]
  BY DEF Remember
<1>7. ASSUME NEW k \in Keys
      PROVE  /\ streak'[k] \in Streaks
             /\ state'[k].blocked = streak'[k].blocks /\ state'[k].serving = streak'[k].since
             /\ k \in DOMAIN round =>
                  /\ counts[k].blocked = streak'[k].blocks
                  /\ counts[k].serving = streak'[k].since
                  /\ round[k] = "serve" => streak'[k].serves >= 1
                  /\ round[k] = "block" => streak'[k].since = 0
                  /\ round[k] = "outage" => streak'[k].since = streak[k].since
             /\ k \notin DOMAIN round =>
                  /\ counts[k].serving = streak[k].since
                  /\ streak'[k].since \in {0, streak[k].since}
  <2>1. /\ streak[k] \in Streaks
        /\ streak[k].blocks \in Nat /\ streak[k].serves \in Nat /\ streak[k].since \in Nat
        /\ state[k].blocked = streak[k].blocks /\ state[k].serving = streak[k].since
    BY DEF Types, Streaks, CountsRounds
  <2>2. CASE k \in old
    BY <1>1, <1>3, <1>4, <1>6, <2>1, <2>2 DEF NoStreak, Streaks
  <2>3. CASE k \notin old /\ k \notin DOMAIN round
    BY <1>1, <1>3, <1>6, <2>1, <2>3
  <2>4. CASE k \in DOMAIN round
    <3>1. k \notin old /\ state'[k] = counts[k]
      BY <1>3, <2>4
    <3>2. CASE round[k] = "block"
      BY <1>1, <1>6, <2>1, <2>4, <3>1, <3>2, ProbeServerAssumption DEF UpTo, Streaks
    <3>3. CASE round[k] = "serve"
      BY <1>1, <1>6, <2>1, <2>4, <3>1, <3>3, ProbeServerAssumption DEF UpTo, Streaks
    <3>4. CASE round[k] = "outage"
      BY <1>1, <1>6, <2>1, <2>4, <3>1, <3>4, ProbeServerAssumption DEF UpTo, Streaks
    <3> QED  BY <2>4, <3>2, <3>3, <3>4 DEF Verdicts
  <2> QED  BY <2>2, <2>3, <2>4
<1>8. streak' \in [Keys -> Streaks]
  BY <1>6, <1>7
<1> QED  BY <1>5, <1>7, <1>8 DEF CountsRounds, counts

\* After a report an address that is confirmed, and not doubted, is one that no domain
\* of the blocklist counts as serving: neither when the report is applied, nor later.
LEMMA NoneServes ==
  ASSUME IndInv, NEW round, NEW old \in SUBSET Keys,
         DOMAIN round \subseteq Keys, \A k \in DOMAIN round : round[k] \in Verdicts,
         old \cap DOMAIN round = {},
         state' = Purged(Counts(round), old), Remember(round, old),
         NEW a \in Addrs, confirmed'[a] # Never, a \notin doubted',
         NEW d \in Domains \ Pools
  PROVE  Counts(round)[<<d, a>>].serving < Clear /\ streak'[<<d, a>>].since < Clear
<1> DEFINE k == <<d, a>>
<1>1. k \in Keys
  BY DEF Keys
<1>2. /\ ~Serves(round, a)
      /\ IF Confirms(round, a) THEN ~ServedBefore(round, a)
         ELSE confirmed[a] # Never /\ a \notin doubted
  BY DEF Remember
<1>3. /\ streak[k].since \in Nat /\ Clear \in Nat \ {0}
      /\ ~Confirms(round, a) => streak[k].since < Clear
  BY <1>1, <1>2, ProbeServerAssumption DEF IndInv, Types, Streaks, Unserved
<1>4. k \notin DOMAIN round \/ round[k] = "outage" => streak[k].since < Clear
  BY <1>2, <1>3 DEF ServedBefore
<1>5. k \in DOMAIN round /\ round[k] = "serve" => ~(streak'[k].since >= Clear)
  BY <1>2 DEF Serves
<1>6. /\ streak'[k].since \in Nat
      /\ k \in DOMAIN round =>
           /\ Counts(round)[k].serving = streak'[k].since
           /\ round[k] = "block" => streak'[k].since = 0
           /\ round[k] = "outage" => streak'[k].since = streak[k].since
      /\ k \notin DOMAIN round =>
           /\ Counts(round)[k].serving = streak[k].since
           /\ streak'[k].since \in {0, streak[k].since}
  BY <1>1, CountsAfterReport DEF IndInv, Streaks
<1> HIDE DEF k
<1>7. k \in DOMAIN round => round[k] \in {"block", "serve", "outage"}
  BY DEF Verdicts
<1>8. Counts(round)[k].serving < Clear /\ streak'[k].since < Clear
  BY <1>3, <1>4, <1>5, <1>6, <1>7
<1> QED  BY <1>8 DEF k

LEMMA FlushKeepsFile ==
  ASSUME Types, FlushBlocked
  PROVE  FileKept' /\ stale' \in BOOLEAN /\ blockedFile' \in SUBSET Addrs
BY DEF FlushBlocked, FileKept, Types, Mishap

LEMMA ApplyKeepsIndInv ==
  ASSUME IndInv, NEW report \in reports, Apply(report)
  PROVE  IndInv'
<1>1. PICK round \in (IF sky = "clear" THEN AllServe ELSE Rounds)[report.known],
           old \in SUBSET {k \in Keys : state[k] # Unseen} :
        /\ old \cap DOMAIN round = {}
        /\ state' = Purged(Counts(round), old)
        /\ blocked' = Expired(BlockedAfter(round, Counts(round), report.age), report.age)
        /\ redirects' \in {pins \in [Pools -> Addrs \cup {NoPin}] :
                           \A p \in Pools : pins[p] \in PinsAfter(round, Counts(round), p)}
        /\ Remember(round, old)
  BY DEF Apply
<1>2. report.age \in 0..MaxReport /\ report.known \in SUBSET Domains
  BY DEF IndInv, Types, Reports
<1>3. /\ state' \in [Keys -> Counters] /\ streak' \in [Keys -> Streaks]
      /\ CountsRounds'
  BY <1>1, <1>2, RoundShape, CountsAfterReport DEF IndInv
<1>4. FileKept' /\ stale' \in BOOLEAN /\ blockedFile' \in SUBSET Addrs
  BY FlushKeepsFile DEF Apply, IndInv
<1>5. /\ DOMAIN round \subseteq Keys /\ \A k \in DOMAIN round : round[k] \in Verdicts
      /\ old \in SUBSET Keys
  BY <1>2, RoundShape
<1> DEFINE B(a) == Blockers(round, Counts(round), a)
           C(a) == Clearers(round, Counts(round), a)
<1>6. ASSUME NEW a \in Addrs
      PROVE  /\ blocked'[a] \in {report.age, NotBlocked, blocked[a]}
             /\ C(a) = {} /\ B(a) # {} => blocked'[a] = report.age
             /\ C(a) = {} /\ B(a) = {} /\ blocked[a] <= BlockTtl => blocked'[a] = blocked[a]
  <2> DEFINE after == BlockedAfter(round, Counts(round), report.age)[a]
  <2>1. after = IF LastSays(B(a), C(a)) THEN report.age
                ELSE IF C(a) # {} THEN NotBlocked ELSE blocked[a]
    BY DEF BlockedAfter
  <2>2. blocked'[a] = IF after - report.age > BlockTtl THEN NotBlocked ELSE after
    BY <1>1 DEF Expired
  <2>3. C(a) = {} => (LastSays(B(a), C(a)) <=> B(a) # {})
    BY DEF LastSays
  <2> HIDE DEF after, B, C
  <2>4. report.age \in Nat /\ BlockTtl \in Nat /\ blocked[a] \in Nat \cup {NotBlocked}
    BY <1>2, ProbeServerAssumption DEF IndInv, Types
  <2> QED  BY <2>1, <2>2, <2>3, <2>4 DEF NotBlocked
<1>7. ASSUME NEW a \in Addrs
      PROVE  Confirms(round, a) <=> B(a) # {}
  <2>1. \A k \in DOMAIN round : Counts(round)[k].blocked = streak'[k].blocks
    BY <1>1, <1>5, CountsAfterReport DEF IndInv
  <2>2. ASSUME NEW d \in Domains \ Pools, <<d, a>> \in DOMAIN round, streak'[<<d, a>>].blocks >= Confirm
        PROVE  d \in B(a)
    BY <2>1, <2>2 DEF Blockers, BlockedIn, Reported
  <2>3. ASSUME NEW d \in B(a)
        PROVE  d \in Domains \ Pools /\ <<d, a>> \in DOMAIN round /\ streak'[<<d, a>>].blocks >= Confirm
    BY <1>5, <2>1 DEF Blockers, BlockedIn, Keys
  <2> QED  BY <2>2, <2>3 DEF Confirms
<1>8. ASSUME NEW a \in Addrs, confirmed'[a] # Never, a \notin doubted'
      PROVE  C(a) = {} /\ \A d \in Domains \ Pools : streak'[<<d, a>>].since < Clear
  <2>1. ASSUME NEW d \in Domains \ Pools
        PROVE  Counts(round)[<<d, a>>].serving < Clear /\ streak'[<<d, a>>].since < Clear
    BY <1>1, <1>5, <1>8, NoneServes
  <2>2. Reported(round) \subseteq Domains
    BY <1>5 DEF Reported, Keys
  <2>3. ASSUME NEW d \in C(a) PROVE FALSE
    <3>1. d \in Domains \ Pools /\ Counts(round)[<<d, a>>].serving >= Clear
      BY <2>2, <2>3 DEF Clearers
    <3>2. Counts(round)[<<d, a>>] \in Counters
      <4>1. <<d, a>> \in Keys
        BY <3>1 DEF Keys
      <4> QED  BY <1>5, <4>1, CountedType DEF Counts, IndInv, Types
    <3> QED  BY <2>1, <3>1, <3>2, ProbeServerAssumption DEF Counters
  <2> QED  BY <2>1, <2>3
<1>9. /\ blocked' = [a \in Addrs |-> blocked'[a]]
      /\ confirmed' = [a \in Addrs |-> confirmed'[a]]
      /\ doubted' \in SUBSET Addrs
  BY <1>1 DEF Expired, Remember
<1> HIDE DEF B, C
<1>10. ASSUME NEW a \in Addrs
      PROVE  /\ blocked'[a] \in Nat \cup {NotBlocked} /\ confirmed'[a] \in Nat \cup {Never}
             /\ Recorded(a)' /\ Unserved(a)' /\ Young(a)'
  <2>1. /\ blocked[a] \in Nat \cup {NotBlocked} /\ confirmed[a] \in Nat \cup {Never}
        /\ Recorded(a) /\ Young(a) /\ wake' = wake /\ wake \in 0..JanitorEvery
    BY DEF IndInv, Types, Apply
  <2>2. /\ confirmed'[a] \in {Never, 0, confirmed[a]}
        /\ confirmed'[a] # Never => confirmed'[a] = IF B(a) # {} THEN 0 ELSE confirmed[a]
        /\ confirmed'[a] # Never /\ a \notin doubted' /\ B(a) = {} => a \notin doubted
    BY <1>1, <1>7 DEF Remember
  <2>3. Recorded(a)'
    <3> SUFFICES ASSUME Recent(a)', a \notin doubted'
                 PROVE  blocked'[a] # NotBlocked /\ blocked'[a] <= confirmed'[a] + MaxReport
      BY DEF Recorded
    <3>1. confirmed'[a] # Never /\ confirmed'[a] <= BlockTtl - MaxReport
      BY DEF Recent
    <3>2. C(a) = {}
      BY <1>8, <3>1
    <3>3. CASE B(a) # {}
      BY <1>2, <1>6, <2>2, <3>1, <3>2, <3>3, ProbeServerAssumption DEF NotBlocked
    <3>4. CASE B(a) = {}
      <4>1. confirmed'[a] = confirmed[a] /\ a \notin doubted
        BY <2>2, <3>1, <3>4
      <4>2. blocked[a] # NotBlocked /\ blocked[a] <= confirmed[a] + MaxReport
        BY <2>1, <3>1, <4>1 DEF Recorded, Recent
      <4>3. blocked[a] <= BlockTtl
        BY <2>1, <3>1, <4>1, <4>2, ProbeServerAssumption
      <4> QED  BY <1>6, <3>2, <3>4, <4>1, <4>2, <4>3
    <3> QED  BY <3>3, <3>4
  <2>4. Unserved(a)'
    BY <1>8 DEF Unserved
  <2>5. Young(a)'
    BY <1>2, <1>6, <2>1, ProbeServerAssumption DEF Young, Life, NotBlocked
  <2> QED  BY <1>2, <1>6, <2>1, <2>2, <2>3, <2>4, <2>5 DEF NotBlocked
<1>11. /\ blocked' \in [Addrs -> Nat \cup {NotBlocked}]
      /\ confirmed' \in [Addrs -> Nat \cup {Never}]
  BY <1>9, <1>10
<1>12. /\ config' \in SUBSET Domains /\ reports' \in SUBSET Reports /\ wake' \in 0..JanitorEvery
      /\ redirects' \in [Pools -> Addrs \cup {NoPin}]
  BY <1>1 DEF IndInv, Types, Apply
<1> QED  BY <1>3, <1>4, <1>9, <1>10, <1>11, <1>12 DEF IndInv, Types

-------------------------------------------------------------------------------
\* The other actions, and the invariant.

LEMMA InitIndInv == Init => IndInv
<1> SUFFICES ASSUME Init PROVE IndInv
  OBVIOUS
<1> USE ProbeServerAssumption DEF Init
<1>1. Unseen \in Counters /\ NoStreak \in Streaks /\ Unseen.blocked = 0 /\ NoStreak.blocks = 0
      /\ Unseen.serving = 0 /\ NoStreak.since = 0
  BY DEF Unseen, NoStreak, Counters, Streaks
<1>2. Types
  <2>1. config \in SUBSET Domains /\ wake \in 0..JanitorEvery
    OBVIOUS
  <2>2. state \in [Keys -> Counters] /\ streak \in [Keys -> Streaks]
    BY <1>1
  <2>3. reports \in SUBSET Reports /\ blockedFile \in SUBSET Addrs
    OBVIOUS
  <2> QED  BY <2>1, <2>2, <2>3 DEF Types
<1>3. CountsRounds /\ FileKept
  BY <1>1 DEF CountsRounds, FileKept
<1>4. \A a \in Addrs : Recorded(a) /\ Unserved(a) /\ Young(a)
  BY DEF Recorded, Recent, Unserved, Young
<1> QED  BY <1>2, <1>3, <1>4 DEF IndInv

LEMMA JanitorKeepsIndInv ==
  ASSUME IndInv, Janitor  PROVE IndInv'
<1>1. FileKept' /\ stale' \in BOOLEAN /\ blockedFile' \in SUBSET Addrs
  BY FlushKeepsFile DEF Janitor, IndInv
<1>2. CountsRounds'
  BY DEF Janitor, IndInv, CountsRounds
<1>3. /\ blocked' = [a \in Addrs |-> IF blocked[a] - 0 > BlockTtl THEN NotBlocked ELSE blocked[a]]
      /\ wake = 0 /\ wake' = JanitorEvery /\ UNCHANGED <<confirmed, doubted, streak>>
  BY DEF Janitor, Expired
<1>4. ASSUME NEW a \in Addrs
      PROVE  /\ blocked'[a] \in Nat \cup {NotBlocked}
             /\ Recorded(a)' /\ Unserved(a)' /\ Young(a)'
  <2>1. /\ blocked[a] \in Nat \cup {NotBlocked} /\ confirmed[a] \in Nat \cup {Never}
        /\ Recorded(a) /\ Unserved(a) /\ Young(a)
    BY DEF IndInv, Types
  <2>2. Unserved(a)'
    BY <1>3, <2>1 DEF Unserved
  <2> QED  BY <1>3, <2>1, <2>2, ProbeServerAssumption
           DEF Recorded, Recent, Young, Life, NotBlocked, Never
<1>5. blocked' \in [Addrs -> Nat \cup {NotBlocked}]
  BY <1>3, <1>4
<1>6. Types'
  BY <1>1, <1>3, <1>5, ProbeServerAssumption DEF Janitor, IndInv, Types
<1> QED  BY <1>1, <1>2, <1>4, <1>6 DEF IndInv

LEMMA RestartKeepsIndInv ==
  ASSUME IndInv, Restart  PROVE IndInv'
<1>1. PICK recovered \in SUBSET blockedFile :
        /\ Recover(recovered)
        /\ stale' = (recovered # blockedFile)
        /\ confirmed' = [a \in Addrs |->
             IF a \in blockedFile \ recovered \/ (stale /\ a \notin blockedFile)
             THEN Never ELSE confirmed[a]]
        /\ doubted' = {a \in doubted : confirmed'[a] # Never}
  BY DEF Restart
<1>2. Unseen \in Counters /\ NoStreak \in Streaks /\ Unseen.blocked = 0 /\ NoStreak.blocks = 0
      /\ Unseen.serving = 0 /\ NoStreak.since = 0
  BY DEF Unseen, NoStreak, Counters, Streaks
<1>3. CountsRounds'
  BY <1>1, <1>2 DEF Recover, CountsRounds
<1>4. FileKept'
  <2>1. \A a \in Addrs : blocked'[a] # NotBlocked <=> a \in recovered
    BY <1>1 DEF Recover, NotBlocked
  <2>2. recovered \subseteq Addrs /\ blockedFile' = blockedFile
    BY <1>1 DEF Recover, IndInv, Types
  <2>3. stale' \/ recovered = blockedFile
    BY <1>1
  <2> QED  BY <2>1, <2>2, <2>3 DEF FileKept
<1>5. ASSUME NEW a \in Addrs
      PROVE  Recorded(a)' /\ Unserved(a)' /\ Young(a)'
  <2>1. /\ blocked[a] \in Nat \cup {NotBlocked} /\ confirmed[a] \in Nat \cup {Never}
        /\ Recorded(a) /\ (~stale => (a \in blockedFile <=> blocked[a] # NotBlocked))
    BY DEF IndInv, Types, FileKept
  <2>2. /\ blocked'[a] = IF a \in recovered THEN 0 ELSE NotBlocked
        /\ wake' = JanitorEvery
        /\ confirmed'[a] = IF a \in blockedFile \ recovered \/ (stale /\ a \notin blockedFile)
                          THEN Never ELSE confirmed[a]
        /\ confirmed'[a] # Never /\ a \notin doubted' => a \notin doubted
    BY <1>1 DEF Recover
  <2>3. Young(a)'
    BY <2>2, ProbeServerAssumption DEF Young, Life, NotBlocked
  <2>4. Recorded(a)'
    BY <2>1, <2>2, ProbeServerAssumption DEF Recorded, Recent, NotBlocked, Never
  <2>5. Unserved(a)'
    BY <1>1, <1>2, ProbeServerAssumption DEF Recover, Unserved, Keys
  <2> QED  BY <2>3, <2>4, <2>5
<1>6. blocked' \in [Addrs -> Nat \cup {NotBlocked}] /\ confirmed' \in [Addrs -> Nat \cup {Never}]
  BY <1>1 DEF Recover, IndInv, Types
<1>7. state' \in [Keys -> Counters] /\ streak' \in [Keys -> Streaks]
  BY <1>1, <1>2 DEF Recover
<1>8. wake' \in 0..JanitorEvery /\ stale' \in BOOLEAN
  BY <1>1, ProbeServerAssumption DEF Recover
<1>9. /\ config' \in SUBSET Domains /\ reports' \in SUBSET Reports /\ blockedFile' \in SUBSET Addrs
      /\ redirects' \in [Pools -> Addrs \cup {NoPin}] /\ doubted' \in SUBSET Addrs
  BY <1>1 DEF Recover, IndInv, Types
<1>10. Types'
  BY <1>6, <1>7, <1>8, <1>9 DEF Types
<1> QED  BY <1>3, <1>4, <1>5, <1>10 DEF IndInv

LEMMA TickKeepsIndInv ==
  ASSUME IndInv, Tick  PROVE IndInv'
<1>1. ASSUME NEW r \in reports PROVE [r EXCEPT !.age = @ + 1] \in Reports
  <2>1. r \in Reports /\ r.age \in 0..MaxReport /\ r.age < MaxReport
    BY DEF Tick, IndInv, Types, Reports
  <2>2. r.age + 1 \in 0..MaxReport
    BY <2>1, ProbeServerAssumption
  <2> QED  BY <2>1, <2>2 DEF Reports
<1>2. reports' \in SUBSET Reports
  BY <1>1 DEF Tick
<1>3. ASSUME NEW a \in Addrs
      PROVE  /\ blocked'[a] \in Nat \cup {NotBlocked} /\ confirmed'[a] \in Nat \cup {Never}
             /\ (blocked'[a] = NotBlocked <=> blocked[a] = NotBlocked)
             /\ Recorded(a)' /\ Unserved(a)' /\ Young(a)'
  <2>1. /\ blocked[a] \in Nat \cup {NotBlocked} /\ confirmed[a] \in Nat \cup {Never}
        /\ Recorded(a) /\ Unserved(a) /\ Young(a) /\ wake \in 0..JanitorEvery /\ wake' = wake - 1
    BY DEF IndInv, Types, Tick
  <2>2. /\ blocked'[a] = IF blocked[a] = NotBlocked THEN NotBlocked ELSE blocked[a] + 1
        /\ confirmed'[a] = IF confirmed[a] = Never \/ confirmed[a] >= BlockTtl - MaxReport
                          THEN Never ELSE confirmed[a] + 1
        /\ confirmed'[a] # Never /\ a \notin doubted' => a \notin doubted
        /\ UNCHANGED streak
    BY DEF Tick
  <2>3. confirmed'[a] # Never => confirmed[a] # Never
    BY <2>2
  <2>4. Unserved(a)'
    BY <2>1, <2>2, <2>3 DEF Unserved
  <2> QED  BY <2>1, <2>2, <2>3, <2>4, ProbeServerAssumption
           DEF Recorded, Recent, Young, Life, NotBlocked, Never
<1>4. FileKept' /\ CountsRounds'
  BY <1>3 DEF Tick, FileKept, CountsRounds, IndInv
<1>5. blocked' \in [Addrs -> Nat \cup {NotBlocked}] /\ confirmed' \in [Addrs -> Nat \cup {Never}]
  BY <1>3 DEF Tick
<1>6. Types'
  BY <1>2, <1>5, ProbeServerAssumption DEF Tick, IndInv, Types
<1> QED  BY <1>3, <1>4, <1>6 DEF IndInv

\* A report begins, a domain is taken out, the sky clears: nothing recorded changes.
LEMMA RestKeepsIndInv ==
  ASSUME IndInv, Receive \/ Edit \/ SkyClears \/ UNCHANGED vars
  PROVE  IndInv'
<1>1. UNCHANGED <<state, redirects, blocked, wake, blockedFile, history>>
  BY DEF Receive, Edit, SkyClears, vars, memory
<1>2. config' \in SUBSET Domains
  BY DEF Receive, Edit, SkyClears, vars, IndInv, Types
<1>3. reports' \in SUBSET Reports
  <2>1. [age |-> 0, known |-> config] \in Reports
    BY ProbeServerAssumption DEF Reports, IndInv, Types
  <2> QED  BY <2>1 DEF Receive, Edit, SkyClears, vars, memory, IndInv, Types
<1> QED  BY <1>1, <1>2, <1>3
         DEF IndInv, Types, CountsRounds, FileKept, Recorded, Recent, Unserved, Young, history

LEMMA NextIndInv == IndInv /\ [Next]_vars => IndInv'
BY ApplyKeepsIndInv, JanitorKeepsIndInv, RestartKeepsIndInv, TickKeepsIndInv, RestKeepsIndInv
   DEF Next

LEMMA IndInvHolds == Spec => []IndInv
BY InitIndInv, NextIndInv, PTL DEF Spec

\* probe-server.py:50, 339.  A confirmed address stays blocked until a domain sees it
\* serve, in CLEAR rounds since it last saw it blocked, or nobody confirms it for
\* BLOCK_TTL, less what a report may last: across outages, rounds that do not name it
\* and restarts, for any thresholds and any number of reports at a time.  It is
\* excepted if a domain had seen it serve so often before it was confirmed, which
\* the server does not tell from seeing it serve again.
THEOREM ConfirmedStaysBlocked == Spec => []StaysBlocked
<1>1. IndInv => StaysBlocked
  BY DEF IndInv, Recorded, Recent, StaysBlocked
<1> QED  BY <1>1, IndInvHolds, PTL

\* probe-server.py:50, 181-194.  The file names no address that nobody has
\* confirmed for longer than BLOCK_TTL and a round of the janitor, and one that
\* is not blocked only after a fault.
THEOREM BlocksEnd == Spec => []BlockEnds
<1>1. ASSUME IndInv PROVE BlockEnds
  <2> SUFFICES ASSUME NEW a \in blockedFile
               PROVE  IF blocked[a] = NotBlocked THEN stale ELSE blocked[a] <= Life + JanitorEvery
    BY DEF BlockEnds, Life
  <2>1. a \in Addrs /\ blocked[a] \in Nat \cup {NotBlocked} /\ wake \in Nat /\ stale \in BOOLEAN
    BY <1>1, ProbeServerAssumption DEF IndInv, Types
  <2>2. CASE blocked[a] = NotBlocked
    BY <1>1, <2>1, <2>2 DEF IndInv, FileKept
  <2>3. CASE blocked[a] # NotBlocked
    BY <1>1, <2>1, <2>3, ProbeServerAssumption DEF IndInv, Young, Life
  <2> QED  BY <2>2, <2>3
<1> QED  BY <1>1, IndInvHolds, PTL

-------------------------------------------------------------------------------
\* What a step may do.

\* An address is confirmed only by a report that makes its CONFIRM-th round.
LEMMA ConfirmStep ==
  ASSUME IndInv, [Next]_vars, ~Restart, NEW a \in Addrs,
         blocked'[a] # NotBlocked, blocked[a] = NotBlocked \/ blocked'[a] < blocked[a]
  PROVE  \E d \in Domains \ Pools : streak'[<<d, a>>].blocks >= Confirm
<1>1. blocked[a] \in Nat \cup {NotBlocked}
  BY DEF IndInv, Types
<1>2. blocked'[a] # blocked[a]
  BY <1>1
<1>3. ~Tick /\ ~Janitor
  BY <1>1, <1>2 DEF Tick, Janitor, Expired, NotBlocked
<1>4. ~(Receive \/ Edit \/ SkyClears \/ UNCHANGED vars)
  BY <1>2 DEF Receive, Edit, SkyClears, vars, memory
<1>5. PICK report \in reports : Apply(report)
  BY <1>3, <1>4 DEF Next
<1>6. PICK round \in (IF sky = "clear" THEN AllServe ELSE Rounds)[report.known],
           old \in SUBSET {k \in Keys : state[k] # Unseen} :
        /\ old \cap DOMAIN round = {}
        /\ state' = Purged(Counts(round), old)
        /\ blocked' = Expired(BlockedAfter(round, Counts(round), report.age), report.age)
        /\ Remember(round, old)
  BY <1>5 DEF Apply
<1>7. DOMAIN round \subseteq Keys /\ \A k \in DOMAIN round : round[k] \in Verdicts
  BY RoundShape DEF IndInv, Types, Reports
<1>8. \A k \in DOMAIN round : Counts(round)[k].blocked = streak'[k].blocks
  BY <1>6, <1>7, CountsAfterReport DEF IndInv
<1> DEFINE B == Blockers(round, Counts(round), a)
           C == Clearers(round, Counts(round), a)
<1>9. LastSays(B, C)
  <2>1. BlockedAfter(round, Counts(round), report.age)[a]
          = IF LastSays(B, C) THEN report.age ELSE IF C # {} THEN NotBlocked ELSE blocked[a]
    BY DEF BlockedAfter
  <2>2. blocked'[a] \in {NotBlocked, BlockedAfter(round, Counts(round), report.age)[a]}
    BY <1>6 DEF Expired
  <2> HIDE DEF B, C
  <2> QED  BY <1>2, <2>1, <2>2
<1>10. PICK d \in B : TRUE
  BY <1>9 DEF LastSays
<1>11. d \in Reported(round) \ Pools /\ <<d, a>> \in DOMAIN round
       /\ Counts(round)[<<d, a>>].blocked >= Confirm
  BY <1>10 DEF Blockers, BlockedIn
<1>12. d \in Domains \ Pools
  BY <1>7, <1>11 DEF Keys
<1> QED  BY <1>8, <1>11, <1>12

\* probe-server.py:44, probe/README.md:106.  An address is confirmed, or confirmed
\* again, only after CONFIRM verdicts in a row against it for one domain.
THEOREM BlocksNeedRounds == Spec => BlockNeedsRounds
<1>1. IndInv /\ [Next]_vars =>
        [\A a \in Addrs :
           /\ blocked'[a] # NotBlocked
           /\ blocked[a] = NotBlocked \/ blocked'[a] < blocked[a]
           /\ ~Restart
           => \E d \in Domains \ Pools :
                streak'[<<d, a>>].blocks >= Confirm]_vars
  BY ConfirmStep
<1> QED  BY <1>1, IndInvHolds, PTL DEF Spec, BlockNeedsRounds

LEMMA PinStep ==
  ASSUME IndInv, [Next]_vars, NEW p \in Pools, redirects'[p] \notin {redirects[p], NoPin}
  PROVE  /\ streak'[<<p, redirects'[p]>>].serves >= 1
         /\ \E a \in Addrs : streak'[<<p, a>>].blocks >= Confirm
<1>1. ~(Receive \/ Edit \/ SkyClears \/ UNCHANGED vars \/ Tick \/ Janitor \/ Restart)
  BY DEF Receive, Edit, SkyClears, Tick, Janitor, Restart, Recover, vars, memory
<1>2. PICK report \in reports : Apply(report)
  BY <1>1 DEF Next
<1>3. PICK round \in (IF sky = "clear" THEN AllServe ELSE Rounds)[report.known],
           old \in SUBSET {k \in Keys : state[k] # Unseen} :
        /\ old \cap DOMAIN round = {}
        /\ state' = Purged(Counts(round), old)
        /\ redirects'[p] \in PinsAfter(round, Counts(round), p)
        /\ Remember(round, old)
  BY <1>2 DEF Apply
<1>4. DOMAIN round \subseteq Keys /\ \A k \in DOMAIN round : round[k] \in Verdicts
  BY RoundShape DEF IndInv, Types, Reports
<1>5. \A k \in DOMAIN round :
        /\ Counts(round)[k].blocked = streak'[k].blocks
        /\ round[k] = "serve" => streak'[k].serves >= 1
  BY <1>3, <1>4, CountsAfterReport DEF IndInv
<1>6. /\ BlockedIn(round, Counts(round), p) # {}
      /\ redirects'[p] \in HealthyIn(round, Counts(round), p)
  BY <1>3 DEF PinsAfter
<1>7. streak'[<<p, redirects'[p]>>].serves >= 1
  BY <1>5, <1>6 DEF HealthyIn
<1>8. PICK a \in BlockedIn(round, Counts(round), p) : TRUE
  BY <1>6
<1>9. a \in Addrs /\ streak'[<<p, a>>].blocks >= Confirm
  BY <1>5, <1>8 DEF BlockedIn
<1> QED  BY <1>7, <1>9

\* probe-server.py:11-12, probe/README.md:35-37.  A pin is set only for a domain
\* with an address found blocked CONFIRM times in a row, and on an address that
\* the same report saw serve.
THEOREM PinsVerified == Spec => PinVerified
<1>1. IndInv /\ [Next]_vars =>
        [\A p \in Pools : redirects'[p] \notin {redirects[p], NoPin} =>
           /\ streak'[<<p, redirects'[p]>>].serves >= 1
           /\ \E a \in Addrs : streak'[<<p, a>>].blocks >= Confirm]_vars
  BY PinStep
<1> QED  BY <1>1, IndInvHolds, PTL DEF Spec, PinVerified
===============================================================================
