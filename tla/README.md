# A TLA+ model of xdp-dns-evadeproxy

This directory models the programs of the repository in TLA+: what they do is
model-checked with TLC on small instances, and the results that matter most are
proved with TLAPS for every value of the constants. Paths such as `main.rs:497`
are relative to the repository (`src/main.rs`, `probe/probe-server.py`, ...).

To run something: `tlc -config MCUdpRelay.cfg MCUdpRelay`, and
`tlapm UdpRelay_proofs.tla`. `PROJECT.json` lists every run, what each definition
translates (file and lines), and, for every property, a mutant of the code's
model that violates it.

## 1. The system

`evade-proxy` (Rust, tokio) stands between DNS clients and a local Unbound. When an
ISP cuts Cloudflare addresses, it replaces the blocked address in an answer by a
free neighbour of the same Cloudflare range. A *probe* on a subscriber's line
finds out which addresses are cut; a *probe server* compares it with its own
line and writes files; an *updater* merges those with a public list; the proxy
reads the results again every few seconds.

```
 clients ==UDP/TCP==> relays ==UDP/TCP==> Unbound
                        | App::process (rewrite)
                        |   reads under a lock: lists + hops, redirect table
                        |   adds to: counters
                 maintenance (each second: redirects; each 5: lists; then: statistics)
                        ^ list files            ^ redirects.txt      v evade_stats.json
      updater (timer) --+     ^ probe_blocked_*  |
      prefix updater ---+     +--- probe server -+ <==HTTP== probe agent (home line)
```

### Inventory

| Component | State | Operations | Interacts through |
|---|---|---|---|
| Address arithmetic (`main.rs:207-344, 1327-1411`) | none; `Data` once built does not change | parse prefixes, `merge`, `containing`, `scan_evasive_v4/v6`, `Data::new` | called by the loader |
| Response processing (`main.rs:466-662, 705-812`) | per task: the packet, two snapshots | `process`, `suppress_unverified_family`, `rewrite` | reads `App.data` and `App.temporary_redirects`, adds to the counters |
| UDP relay (`main.rs:883-946`) | semaphore, one task and socket per query | `serve_udp`, `forward_udp`, `recv_exact` | Unbound, clients |
| TCP relay (`main.rs:949-1036`) | semaphore, one task per connection, its upstream connection | `serve_tcp`, `handle_tcp`, `exchange_tcp`, `tcp_roundtrip` | Unbound, clients |
| Maintenance (`main.rs:1193-1325`) | tick counter, last stamps | poll redirects, stamp, reload, save statistics | the files, `App` |
| Statistics and shutdown (`main.rs:346-393, 1277-1287, 1421-1460`) | counters, `evade_stats.json` | load, save, last save | the runtime's blocking pool |
| Metrics (`main.rs:1038-1191`) | none | answer an HTTP request | reads counters, semaphores, files |
| Probe server (`probe/probe-server.py`) | counts per (domain, family, address), blocked table, pins | report, expiry, flush, recovery, configuration | HTTP, files |
| Probe agent (`probe/agent/xdp-probe.py`) | back-off | targets, checks, report | HTTP |
| Blocklist updater (`scripts/update-blocked-ips.sh`) | files only | fetch, merge, publish | files |
| Prefix updater (`scripts/update-cloudflare-prefixes.py`) | files only | fetch, collapse, publish | files |
| Configuration, packet parsing (`main.rs:43-205, 666-880`) | none | environment, names, records | called at start, per packet |
| Packaging (Docker, systemd, install scripts) | none | - | - |

### What is hard, and what makes each part correct

- **Address arithmetic.** Boundaries: nested and adjacent prefixes, ranges that
  touch the ends of the space, the network and broadcast octets, a capped window.
  Correct: a hop is another free address of the same range, exists whenever one is
  in reach, and is the nearest.
- **Response processing.** The redirect table and the lists are swapped between
  any two reads of one response. Correct: no address leaves that the response's own
  snapshot calls blocked and evadable; responses that do not concern Cloudflare are
  left alone; TTLs are capped and never raised; AD survives only in an unchanged
  response; a pin in force is obeyed; the counters say what left.
- **Relays.** A bounded number of slots, timers racing answers, ports that are
  reused with answers still on their way, dead upstream connections, clients that
  leave. Correct: no slot leaks, a query is dropped only when the pool is full,
  everything admitted ends, no answer reaches the wrong client.
- **Maintenance.** Files are replaced between stamp and read, and reads fail.
  Correct: no version is skipped or taken back, and what is loaded ends up being
  what is on disk.
- **Statistics.** Writes in the blocking pool outlive an aborted task; kills.
  Correct: the file is always whole and never goes back.
- **Updater.** A pass may be killed or end at a write, or go on after one that failed; the
  public list may be away, and sources change while it runs. Correct: nothing that stays
  listed is taken out of force (as long as no failed write goes unnoticed), and in the
  end the proxy has what the sources list, in both families.
- **Packets and rules.** Lengths, counts and pointers come from outside; rules of a domain
  are spread over lines. Correct: what is read is what was written, a truncated packet is
  refused, edits leave the layout alone, and each family is pinned by its last valid rule.
- **Probe server.** Overlapping reports with checks outside the lock, times taken
  before the checks, restarts, failed writes. Correct: an address is blocked only
  after enough consecutive verdicts, stays blocked as long as it is confirmed, and
  everything heals once the blocks end.

## 2. Modules

| Module | Models | Proofs |
|---|---|---|
| `EvasionMap` | address arithmetic and `Data::new` | `Algorithms_proofs` |
| `DnsResponse` (extends `EvasionMap`) | what `App::process` makes of a response, as an operator | |
| `DnsRewrite` (extends `DnsResponse`) | `App::process` against reloads and the clock | `DnsRewrite_proofs` |
| `DnsPacket` (extends `DnsResponse`) | names, records, SVCB hints and `App::process`, on bytes | `Algorithms_proofs` |
| `Redirects` (extends `DnsPacket`) | redirect rules: `normalize_domain`, `add_redirect`, the file, the command line | `Algorithms_proofs` |
| `Algorithms` (extends `Redirects`) | one job for the functions of the four above: `Data::load`, the loops over rules, `process` on a packet | `Algorithms_proofs` |
| `Admission` | abstract: what both relays promise about load | |
| `UdpRelay` (refines `Admission`) | `serve_udp`, `forward_udp` | `UdpRelay_proofs` |
| `TcpRelay` (refines `Admission`) | `serve_tcp`, `handle_tcp`, `exchange_tcp` | `TcpRelay_proofs` |
| `ListReload` | `maintenance`, `Data::load`, the redirects poll | `ListReload_proofs` |
| `StatsSave` | `save_stats`, the end of `main`, `Counters::load` | `StatsSave_proofs` |
| `ProbeServer` | `process_report`, `janitor`, `load_blocked_files` | `ProbeServer_proofs` |
| `Updater` | `update-blocked-ips.sh`, `update-cloudflare-prefixes.py` | `Updater_proofs` |

An `MC*` module gives the constants of a run; `MCAlgorithms` also writes the jobs of
`Algorithms`, packets byte by byte. Definitions named `X_Something` beside a definition `X` are
mutants of `X`: no specification uses them.

### How state and actions correspond to the code

**EvasionMap.** `Bits`, `OctetSize` and the windows are constants, so that the
code's 32 or 128 bits, octets of 256 and windows of 65536 and 1024 become small. `merge`
is a left fold of `Absorb` over the sorted ranges (`Sorted`), `SizeOf` is the recursive
function 2^n, `containing` is the `partition_point`, and both scans look at the
candidates in the order `Around` (+1, -1, +2, -2, ...). `DataNew` is computed once per
reload, as in `Data::new`.

**DnsResponse.** A response is a record: question, AD flag, RCODE ok or not,
"parses" or not, and per record its kind, section, TTL and addresses. `Processed` is
the whole of `App::process` for a given redirect and lists; it is built of
`MustSuppress`, `Emptied` and `Rewritten`, which the next two modules use.

**DnsRewrite.** A task goes through `Receive`, `SuppressTable` (first read of the table),
`Suppress`, `RewriteData` (reads the lists), `RewriteTable` (second read of the table),
`Rewrite`, `Send`: one action between two reads of shared state. `InstallRedirects`,
`ReloadData` and `Tick` may happen between any two. Counters that one code path
updates together are updated in one action. `sent`, `since` and `moved` are history.

**DnsPacket.** A packet is a sequence of bytes and an offset counts from 0, as in the
code. `SkipName`, `DecodeName` and the two loops of `HintOffsets` are recursive
functions of the position; the loops over questions and records are folds whose
accumulator is the position, `None` once something does not fit. `AsResponse` is the
response of `DnsResponse` that a packet stands for, so that the edits on bytes can be
compared with the edits on responses. Address widths, the limit on pointers and the
longest label and domain are constants.

**Redirects.** A rule is a domain as written and what follows its `=`. `AddRedirect` makes
the entry before it looks at the address, as `entry().or_default()` does, so that a rule
with a junk address leaves an entry that pins nothing. `ReadLine` and `ReadArgument`
are the bodies of the loops over the file and over the command line.

**Algorithms.** The pure parts as a specification, so that TLC and the proofs speak of the
same formulas: a behaviour is given a job out of `Jobs`, does it in one step and stops.
`Load` is `Data::load`, `ReadRules` and `Configure` read rules, `Process` is `process` on
the bytes of a packet with the rule of its question. The assumption on `Jobs` says what a
job may hold (lines with a non-negative length, addresses of the family's space, rules
with a known target, packets of bytes), and neither how many nor in what order.

**UdpRelay.** `pc[q]` is the position of the task of query `q` in `forward_udp`;
`port`, `inbox` are its socket; `upstream` holds what Unbound may still answer. An
answer goes to whichever socket has the port by then: ports come from a small set
and are reused at once. Each `.ok()?` is a `LocalError`. `Release` is a step of its
own because the client has its answer before the task drops its permit.

**TcpRelay.** `pc[c]` is the position of the task of connection `c`; `link[c]`
is its upstream connection, with queries unanswered and answers unread; queries are
numbered per connection, and an answer is the number of its query. `LinkError` and
`LinkTimeout` carry the one retry of `exchange_tcp`, on a fresh connection and only
if the failed one was reused and did not time out.

**ListReload.** A version stands for a file's content and its stamp. `Poll` runs each
tick; on reload ticks the stamps are taken one file at a time in any order
(`join!`), compared, and the files read one at a time; `Install` swaps the lists and
records the stamps taken *before* the reads. A read may fail while the stamp can be
taken. `Init` is any state that an earlier process may have left, so a restart is
`Init` again.

**StatsSave.** A file is an inode, so that a write under way follows it through a
rename; opening truncates, filling completes. Two savers, maintenance and main, share
one temporary name. `abort` has a state "asked", because a poll in progress ends
first. All counters are one number.

**Updater.** `pc` is the step of a pass and the family it works on. A pass runs
`Start`, perhaps `AskRanges` and `PutRanges`, and for IPv4 and then IPv6 `Fetch`, `Merge`,
`Publish`, `Backup`; sources, files and the proxy may change between any two steps.
`Backup` either goes on or ends the pass (`set -e`), `Abort` is a kill or a failure that
`set -e` sees. The writes that make a list in its temporary file are not among those
(`|| true`, or an `&&` list): `Fetch` and `Merge` may leave any part of the lines, and
perhaps a cut one (`Torn`, `Spoilt`), and go on. `RemovePublic` takes the static IPv6 file
away. The reload of the proxy is one step per family (`ListReload` has its detail).
`kept`, `gone` and `torn` are history: what was in force, or nowhere, when a pass began and
has not been touched by a source since, and the families whose list has lost lines to
a failed write since the last pass began.

**ProbeServer.** `Receive` takes the time and looks up the domains; `Apply` is the
whole critical section of `process_report`: counts, buckets, the domains' actions in
order, expiry, purge and flush. Between them other reports, the janitor, time, a restart
or an edit of `domains.json` may come. A time is its age, which makes the state space
finite without a bound on the clock. A round's verdicts are free, which stands for
both lines and for the cache of checks; from `SkyClears` on everything serves.
The server takes reports about any valid address of a listed domain; which ones a report
of the instance names is the bound `Named`. A report names an address of a domain once,
as the agent does, which reports the targets it was given; the code would count a
repeated one twice.
`streak`, `confirmed`, `doubted` and `stale` are history: the true runs of verdicts; when an
address was last confirmed, until a domain has seen it serve `CLEAR` rounds since it last
saw it blocked, this round among them; the addresses that a domain had seen serve so
often before that confirmation; and whether the file has missed a write, or lost lines to
its own reading, since it last was what is blocked. They are made from the verdicts of the
rounds, never from the server's counts.

## 3. Runs

| Run | Instance | Shows |
|---|---|---|
| `algorithms` | 16 addresses; all pairs of 42 prefix lines; 4096 blocked sets x 3 range shapes; redirects files of 2 and 3 lines; command lines of 3 arguments; 155 messages, and 3 of them cut at every byte or with any one byte set to each of 6 values, under 4 sets of rules | `PrefixesMerged`, `EvasionSound`, `EvasionNearest`, `RulesAsListed`, `NoneOutlivesItsLine`, `ReadAsWritten`, `BytesMatchResponse`, `LayoutKept` |
| `rewrite` | 2 tasks, 9 responses, 4 tables, 3 list versions, 2 rewrite TTLs, clock to 2 | `NoEvadableAddressSent`, `OffCloudflareUntouched`, `TtlCapped`, `AuthenticOnlyIfUnchanged`, `PinObeyed`, `ResponsesCounted`, `RecordsCounted` |
| `unverified` | 1 task, 2 responses | **violated:** finding 1 |
| `udp` | 3 queries on 2 listeners, 2 slots, 2 ports | `SlotsConserved`, `CountersExact`, `AnswersNotShared`, `KeepsAdmission` (refinement), `AdmittedEnds` (liveness) |
| `tcp` | 2 connections, 1 slot, 2 queries each | `AnswersInOrder`, `UpstreamUse`, `KeepsAdmission` (refinement), `QueryEnds`, `GoneClientEnds` (liveness) |
| `reload` | 2 lists, 2 versions, 1 failed read, tick counter that wraps | `SeenMeansLoaded`, `NeverOlder`, `CatchesUp`, `PinsFollowFile` (liveness) |
| `reload_missed` | as `reload` | **violated:** finding 2 |
| `stats` | 4 inodes, 3 counts, 2 orderly stops, 1 kill | `FileWhole`, `AloneSaveKept`, `NeverShrinks` |
| `stats_last` | as `stats` | **violated:** finding 3 |
| `probe` | 2 domains sharing an address, or 1 pool of 2; 2 overlapping reports; 2 restarts, failed writes or edits | `StaysBlocked`, `BlockEnds`, `BlockNeedsRounds`, `PinVerified`, `Heals` (liveness) |
| `probe_revert` | as `probe`, with `CONFIRM` 3 and 1 mishap | **violated:** finding 4 |
| `updater` | 1 address of either family, 2 changes of the sources, 2 versions of the ranges, 1 fault | `FeedSteady`, `Delivered`, `RangesFollow` (liveness) |

`ReadAsWritten` and `BytesMatchResponse` tie the bytes to the responses: the messages are
written byte by byte in `MCAlgorithms`, with pointers into the question and into an
earlier record, upper case, hints behind other parameters, values that do not fit
and targets the code refuses; what is read back has to be what was written, and
`App::process` on the packet has to give the packet of `Processed` on the response.
So what `rewrite` shows of responses is about packets. `BytesMatchResponse` also says
that the names of the records read as before, wherever their pointers lead (`NamesKept`,
which leaves damaged packets out, for a damaged pointer may lead into an address and
an edit then changes what it reads). `LayoutKept` is about what is not edited, in
damaged packets too.

The whole set takes some ten minutes; `probe` is the longest, at about three.

### Findings

1. *A pin installed half-way through a response* (`unverified`).
   `process` reads the redirect table twice (`main.rs:502` and `545`). A rule that
   pins only IPv4, installed between the two, is missed by the first and applied by
   the second: the HTTPS answer leaves with its IPv4 hint pinned and its IPv6 hint
   intact, which `README.md:169` excludes. `PinObeyed` is what does hold: the table
   did not change while the response was in hand.
2. *A list whose read failed once* (`reload_missed`). The stamps are recorded as
   seen although a file could not be read and kept its old entries
   (`main.rs:1225`); it is not looked at again until some stamp changes.
   `CatchesUp` holds for lists whose last read did not fail.
3. *The last save can be undone* (`stats_last`). Aborting the maintenance task does
   not stop a write or a rename that the blocking pool has begun, and both saves
   use one temporary file (`main.rs:1454`): after main's save succeeded, the file can
   hold an older snapshot or a torn one. `FileWhole`, `NeverShrinks` and
   `AloneSaveKept` hold when no maintenance save was under way.
4. *Rounds that are not consecutive revert a block* (`probe_revert`). An outage
   round resets the count of blocked rounds and not that of serving rounds
   (`probe-server.py:324-326`), so "serve, outage, serve" removes an address, where
   `probe-server.py:45` says consecutive rounds. `StaysBlocked` holds for the addresses
   that no domain counted as serving when they were confirmed.

Not findings, but worth knowing: `find -mtime +1` is true of a file two days old, so the
prefixes are refreshed every other day, not after 24 hours
(`update-blocked-ips.sh:42-43`, `README.md:158`); a pass without the public list leaves
the probe's IPv4 additions unmerged, and its removals too, until the list is back
(`Delivered` says what is left of the promise); lines of one domain in the redirects file
share the expiry of the last one (`main.rs:1269`), which matters to no file the probe
server writes; `xdp_evade_inflight{proto="tcp"}` counts connections
that hold a slot, idle ones included, and not "queries waiting" (`README.md:200`,
`main.rs:1127`), because the slot is held from accept to close; and a pin of a
domain that left `domains.json`, or on an address that is no longer probed, is refreshed
for ever, since only a report of its own domain that counts the address as serving
removes it (`Heals` speaks of the others).

Three more are steps of the models that the properties have to except:

- *An old serving count undoes a confirmation.* Every domain of a report removes the
  blocked addresses it counts as serving (`probe-server.py:340-343`), whether or not it
  saw them serve this time. Where two domains share an address, `CLEAR` rounds that one saw
  it serve before the other confirmed it blocked take it off the list at the next report
  that names the first, be that an outage for it or silent about the address;
  `probe-server.py:339` speaks of those that serve again. These addresses are `doubted` in
  `ProbeServer`, and `StaysBlocked` without that exception is false.
- *A failed write that nobody notices.* While a list is made, a failed write is ignored
  (`update-blocked-ips.sh:53-54`, `57-59`, `82-83`), and what there is of the list is
  published: addresses still listed go out of force, though `publish` is there so that the
  proxy "must never see a truncated or half-written file" (`update-blocked-ips.sh:31-32`).
  These families are `torn` in `Updater`; `FeedSteady` holds for the others, and
  `Delivered` says that a later pass makes it good.
- *The static IPv6 list does not go.* With its file taken away and none from the probe,
  the IPv6 part is skipped (`update-blocked-ips.sh:80`) and the last list stays, where line
  79 defines the list as the union of the two. `Delivered` therefore speaks of IPv6
  addresses while there is a file of them (`Found`).

### Bounds

- `algorithms`, lists: four "/24s" of four addresses, so that a range can start and end inside
  one and span several; the IPv4 window (6) is wider than a /24 and narrower than the
  space, as 65536 is between 256 and 2^32; the IPv6 window (4) is narrower than the
  ranges. The scan's ranges cover every position of network and broadcast octets.
- `algorithms`, rules: the longest label has 3 bytes and the longest domain 6 (63 and 253),
  so that both are exceeded; two lines or three are enough for one to overwrite, follow
  or spoil another.
- `algorithms`, packets: addresses of 2 and 3 bytes (4 and 16) keep every offset different
  from every other; 3 pointers in one name (128) let a loop end. 255 is the only byte that
  counts as no text. TTLs from 2^31 up, beyond TLC's integers, count as 2^31 - 1: every
  cap is far below. Every message asks one question: of a packet that says it has more,
  `main.rs:519-528` keeps the count and copies the first, and no property looks at that.
  Three messages are cut and damaged, and damaged only behind the question.
- `rewrite`: `FewWhenSeveral` gives two responses at a time, or one after the other, fewer
  kinds of response, tables and lists, because they meet in the counters only; alone, a
  response has them all. The two tasks are interchangeable (`SYMMETRY`). Tables are
  chosen so that a rule pins one family, both, a blocked address, or is hidden by the
  command line; the clock passes every expiry. The rewrite TTL is below or above the cap.
- `udp`: two ports and three queries are the least with which a port is reused while
  the first query's answer is still on its way and a third socket is open.
- `tcp`: two connections on one slot fill the pool; two pipelined queries reuse an
  upstream connection. `Room` = 1 answer makes the write to the client wait.
- `reload`: two lists make stamps and reads interleave; `TickWrap` 3 with
  `ReloadEvery` 2 gives two reload ticks in a row as 255 and 0 of the `u8` do; one
  failed read is enough for finding 2.
- `stats`: four inodes are the file, the temporary file, and one for each write under
  way. Two stops, so that one process loads what another saved.
- `probe`: `CONFIRM` is 2 and not the code's 3 (which `probe_revert` has): the code only ever
  compares a count with it by `>=`, and two already tell a verdict from verdicts in a row.
  `CLEAR` is the code's 2. `BLOCK_TTL`, the janitor's period and a report's duration are 2,
  1 and 1 units, in the order of the code's 600, 60 and seconds; two reports at a time
  overlap. Two mishaps, because a failed write does harm only at the restart that reads
  the old file. A confirmation is forgotten by the history once it is too old for
  `StaysBlocked` to speak of it. The theorems bound neither mishaps nor reports.
- `updater`: addresses do not influence one another (every step acts on whole lists),
  so one is enough. Two changes let it appear and go away, or be listed by both sources
  and then by one; two versions of the ranges make one stale; the fault may be at
  any step, backups fail at will.

### Deadlock

Only `algorithms`, `udp` and `tcp` switch the check off. The first ends after
its one step; in the other two every query or connection of the instance is finite
and ends. Everywhere else the system runs for ever and TLC checks that it can:
`rewrite` can always reload a list, `stats` stops only to start again.

### Fairness

- Relays: `WF(TaskStep)` of each query or connection, since tokio runs a task that is
  ready and its timers fire. Nothing is assumed of Unbound. For TCP also
  `WF(ClientReads)`: `write_all` to the client has no timeout (`main.rs:991`), so a
  client that keeps its connection open and never reads does hold its slot for ever.
  The write upstream has no timeout either; the model takes a query to fit the
  socket's empty buffer.
- `ListReload`: `WF(MaintenanceStep)`, since the ticker fires and the loop has no exit.
  Nothing of the writers: `CatchesUp` speaks of lists that stay in place.
- `ProbeServer`: the agent loops for ever and retries after any error, the checks
  of every report have time-outs (so that none stays at `MaxReport` for ever: it is applied,
  or gone with a restart), the janitor wakes, time passes. `Heals` needs the
  world to clear up for good, which is its premise and not a fairness condition.
- `Updater`: `WF(Pass)`, since a timer starts a pass every 15 s and each step of it ends
  (`curl` and `urlopen` have time-outs); `WF(Age)`, time passes; `WF(Reload)`, which is
  `CatchesUp` of `ListReload`. Nothing of the public list and nothing of backups:
  `Delivered` is conditional on the list staying reachable, and a backup may fail in every
  pass. Faults are bounded, so `RangesFollow` takes it that the prefix updater's own writes
  and backups work in the end.
- `DnsRewrite` and `StatsSave` state safety only.

## 4. Proofs

Every theorem holds for all values of the constants that the modules' ASSUMEs allow;
TLC evaluates those assumptions on the runs' values.

- **`Algorithms_proofs`, hops.** For any width and any lists whose ranges are in order and
  apart, `DataNew` maps a blocked address only to an unblocked address of the same range,
  and an IPv4 one to a host address (`HopsSound`); it leaves out only addresses that have
  no free neighbour (`HopsComplete`); and a hop is a nearest one among the addresses it may
  take, in the /24 whenever that has a free host (`HopsNearest`). The argument for the
  first: `FirstIn` returns a member of the set it is given (`FirstInIsMember`), and
  `Containing` returns the range that holds the address (`ContainingHolds`, by counting
  an initial segment of the ranges). For the others, the converse: a range that holds the
  address is found (`ContainingFinds`), a stretch of covered addresses lies in one range
  (`OneRange`), `Around` goes outwards and reaches everything within its distance
  (`AroundIs`, `AroundReaches`), so that its first hit is a nearest one (`ScanAround`),
  and neither the 254 offsets of the first scan nor the cap of the second by the size of
  the range loses a candidate (`OctetReach`, `CappedReach`).
- **`Algorithms_proofs`, folds.** The loops over prefixes, lines and arguments are
  `FoldLeft`s, and what they return is proved for inputs of any length. The library's
  induction theorems cannot be used (they take an operator as a parameter), but the
  fact below them can: a non-empty set of naturals has a least member (`LeastExists`, from
  the well-foundedness of `<`), so a set of naturals that holds 0 and is closed under +1 is
  all of them (`Induction`, `InductionUpTo`). A fold, expanded, is `CHOOSE` of a recursive
  function; `FoldExists` shows by induction that there is one, and from then on the fold
  is a sequence of values `g[0], g[1], ...`, each made of the one before
  (`MergeFold`, `LinesFold`, `ArgumentsFold`). `SizeOfIs` does the same
  for the function 2^n.
  - `MergeKeeps`: the ranges `Merge` leaves are apart and cover exactly what they were given.
    One step is `MergeStep`; `SortedIs` shows that a finite set of ranges can be put in
    order, by the number of ranges before each. With `ParsePrefixIs` (a line's range is
    its block of addresses, since a power of two divides the larger ones) this gives
    `PrefixesAlwaysMerged`, and takes the assumption "in order and apart" off the
    theorems on hops: `HopsAlwaysSound` and `HopsAlwaysNearest` hold from the lines on.
  - `RulesAlwaysAsListed`: after `k` lines the table is that of the valid ones among them
    (`IsTableOf`), and `AddedRule` is the step: an accepted rule becomes the last of its
    domain and family and takes nothing from the others, a refused one leaves an entry
    that pins nothing. For a command line the same, together with when it is refused
    (`ArgumentStep`).
  - `NoneEverOutlivesItsLine`: the expiry of an entry is that of some valid line of its
    domain; when those share one expiry, that is its own line's.
- **`Algorithms_proofs`, packets.** `LayoutAlwaysKept`: whatever the packet (damaged, cut
  or with pointers that go in circles), the rules and the lists, a response that is not
  emptied keeps its length and the places of its records, and every byte but that of
  the AD bit, the TTLs and the addresses.
  - What is read. `SkipName` and the loops of `HintOffsets` go forward in the packet, so they
    are determined from its end: `Backwards` is that induction, and `JumpExists` shows that
    a recursive function whose jumps go forward exists. The loops over questions and
    records are sequences of positions, like the folds above (`QuestionsAre`, `RecordsAre`);
    each record lies inside the packet (`RecordsPlaced`), the records are in order and apart
    (`RecordsInOrder`), and the hints and addresses of a record lie in its own data
    (`HintsInside`, `OffsetsInside`).
  - What is written. A set of edits is applied in an order nobody names: `SetFoldExists`
    is the fold over a finite set, `PutAllIs` says that a byte no edit touches stays, in
    any order, and `RewrittenIs` that all edits are of TTLs, addresses or the byte of
    the AD bit.
  - What one has to do with the other. All that the readers look at (counts, lengths,
    kinds, names) is outside the edited bytes (`FramingIsOutside`): so they read the same
    records from the result (`RecordsSame`). Without records in order and apart, an edit of
    one could be the length of the next.
- **`UdpRelay_proofs`.** `IndInv` is `TypeOK /\ SlotsConserved /\ SocketOpen`. The slots are
  needed because only they keep `permits` below its limit, and `SocketOpen` (a task has
  a port exactly from its bind to the return of `forward_udp`) because `SendUp` puts that
  port on the wire. It gives `TypeCorrect` and `SlotsNeverLeak`.
  `RelayKeepsAdmission` maps each step to a step of `Admission` or a stutter; the guard
  "the pool is full" of the abstract drop is exactly `SlotsConserved`.
  `AnswersNeverShared` needs `AnswerInv`: an answer is one token that is upstream, in one
  inbox or in one hand, and a token that has moved past its own query's socket means
  that the query returned without it. `CountersCount` adds the counters as
  cardinalities.
- **`TcpRelay_proofs`.** `SlotInv`: free slots plus the connections whose task has not ended
  make up the limit. Every step of a task but the last stays among the states that hold
  a slot (`InTaskHolds`), so it is a stutter of `Admission`; `TcpKeepsAdmission` follows as for
  UDP. `QueryInv` is about each connection by itself, for any number of pipelined queries:
  the client was told `1..n` and `n` fits where the task is (`Told`), the upstream
  connection carries nothing but the query in hand and that only while it is awaited
  (`Carried`), and a query written once already is on a fresh connection or about to be
  (`Tried`). `Told` alone is not inductive: `AwaitBody` takes whatever the upstream
  connection holds, and only `Carried` says that this is not a leftover. They give
  `TcpAnswersInOrder` and `TcpUpstreamUse`.
- **`ListReload_proofs`.** `IndInv` is `TypeOK` and five facts about a pass: what `current` and
  `read` may hold at each point (`PassOK`), that nothing read or stamped is newer than
  the disk (`FromDisk`), that a read is not older than what is loaded (`Forward`),
  that a stamp is not newer than the read that follows it (`StampedFirst`), and
  `SeenMeansLoaded`. None of the safety properties is inductive without them: each
  compares what two different steps of a pass saw of the disk. They give `ReloadTypes`,
  `StampsNeverHideAVersion` and `ListsNeverGoBack`.
- **`Updater_proofs`: `FeedNeverShakes`.** `FeedSteady` speaks of the published and the loaded
  lists; the list in hand may have been made several steps ago, from sources that have
  changed since. `IndInv` adds that what is kept is still listed and what is gone is
  not (`Settled`), and that the list in hand, between its steps, holds everything kept
  and nothing gone (`InHand`); both for the families that are not `torn`, and a pass that
  begins forgets what was settled of those that were.
- **`DnsRewrite_proofs`.** First, lemmas on the operators: what `Rewritten` makes of each
  field of a response and of each record (`RewrittenRecords`), that an emptied response
  has no answers and no AD flag and keeps its domain (`EmptiedFields`), that the hops
  in force are those of `HopsSound` (`LoadedHops`), that a response without a Cloudflare
  address keeps its addresses (`KeptOffCloudflare`), and that `Difference` sees exactly
  the edits. `IndInv` says of a task what it holds: until it sends, its packet is the
  response as it came, and when it sends, the packet is the emptied response, the response
  itself, or what `Rewritten` makes of it with the lists the task holds and the rule in
  force at some moment since the response came (`Outcome`); a snapshot of the table is the
  table unless `moved`. That "some moment" is what makes it inductive, for the clock moves
  between the reads; and `Spared` records that the first read found no reason to suppress
  the response, which the second read no longer knows. `EvadableNeverSent`,
  `OffCloudflareKept`, `TtlsCapped`, `AdOnlyIfUnchanged` and `PinsObeyed` follow from
  `Outcome`. The counters have `CountsInv`. `EveryResponseCounted` needs of it only that
  counters and history are numbers, and `Difference*` for the step that compares both.
  `EveryRecordCounted` adds up the edits of the responses about to leave, a sum over the
  tasks: `SumsAre` turns the fold into its recursion, which by induction on the size of the
  set does not depend on the order it takes (`SumsOneOut`), so that a response that becomes
  ready adds its own edits and nothing else (`SumOneMore`) and one that leaves moves them
  to the history (`RecordsBalance`).
- **`StatsSave_proofs`.** `IndInv` says that only an open file has an inode and the temporary
  file is never the file itself (`Apart`), and, as long as the two savers did not overlap,
  that a saver under way owns the temporary file, which holds its snapshot once it is
  written (`Owner`), that this snapshot is neither older than the file nor newer than the
  counters, and that no maintenance save is left once main's began (`Alone`). `FileWhole` is
  not inductive without `Apart` (a write could tear the file itself) nor without `Owner`
  (a rename could publish what another saver is writing). It gives `StatsFileWhole`,
  `StatsLastSave` and, from the same invariant, the action property `StatsNeverShrink`.
- **`ProbeServer_proofs`.** `IndInv`: the server's count of blocked rounds is the true run, and
  that of serving rounds the true number since the last blocked one (`CountsRounds`), no
  domain has enough of those to undo a confirmation, unless it is doubted or a
  round has just ended it (`Unserved`), the file names what is blocked unless a fault came between
  (`FileKept`), a confirmation that has not run out is recorded, and as no older than a
  report may last (`Recorded`), and nothing blocked is older than its life plus what is
  left of the janitor's round (`Young`). `StaysBlocked` is not inductive alone because a
  restart replaces the table by the file: `FileKept` is what carries a block across; and
  because the code reverts by its counts: `NoneServes` shows that after a report no count
  of a confirmed address is high enough. They
  give `ConfirmedStaysBlocked` and `BlocksEnd`, and with the step lemmas `ConfirmStep`
  and `PinStep` the action properties `BlocksNeedRounds` and `PinsVerified`.

The proofs corrected three properties whose runs had passed because the instances were
too small:

- `StaysBlocked` and a file that missed a write: a restart that follows recovers the
  older file, and with it forgets a confirmation. The run allowed one mishap and could not
  have both. The history `stale` now says when that may happen, and `probe` has two.
- `BlockEnds` bounded a block by `BLOCK_TTL`; a report that lasts longer than that is
  recorded as older than that and is dropped by the expiry of the next report or of the
  janitor, up to which it stays in the file. The bound is the longer of the two.
- `PinObeyed` said that a pin of one family leaves no records of the other; the glue of
  a response without answers stays. It speaks of answers now, and `rewrite` has such a
  response (`NoAaaa`).

With two mishaps `Heals` failed as well: with every domain taken out of `domains.json`,
reports that began later could be applied for ever while an older one never was, and time
stood still. The fairness asked that some report is applied, not every one; it asks now
that no report outstays its time-outs.

`TypeOK` of `UdpRelay` and of `ListReload` is proved and not run. Only model-checked:

- all liveness (`AdmittedEnds`, `QueryEnds`, `GoneClientEnds`, `CatchesUp`,
  `PinsFollowFile`, `Heals`, `Delivered`, `RangesFollow`): fairness is out of the prover's
  reach;
- what the names and addresses in a packet say (`ReadAsWritten`, `BytesMatchResponse`).
  `ReadAsWritten` compares with the response a message was written from, and the writer
  belongs to the instance. `BytesMatchResponse` depends on where the compression pointers
  of a packet lead, which only its writer knows, and needs that the sorted offsets of a
  record stand for the same addresses before and after the edits;
- the properties of the four runs that find a violation.

## 5. Not modelled

- The paths and ports taken from the environment, the help text and the syntax of numbers
  and addresses: what `parse` accepts is given to the model parsed.
- The 16-bit length of a TCP frame: an answer is processed in place or shrinks.
- Metrics text; a reader of the metrics sees counters that several atomic operations
  update one after the other, which the model groups.
- In the probe server: HTTP and its token, the cache of resolved targets, the
  bookkeeping per probe, the two reads of shared tables after the lock is released
  (`probe-server.py:373-378`, which only feed the response), and the redirects file, which
  each report writes again from the pins. Both families behave alike and one is kept.
- The agent: it keeps nothing from one round to the next but its back-off, and
  `ProbeServer` already takes any verdicts, in reports that overlap and go missing.
- In the updaters: the AS13335 lists and the backups, which nothing of the system reads,
  and the optional hook.
- Docker, systemd and install scripts.

## 6. Plan

Done, in order of importance: hops and rewriting, the relays with their abstract
specification, the reload, the statistics, the probe server, packets and rules byte by
byte, the updater; proofs of the safety of all of these, but for what the names and
addresses in a packet say.

Next modules:

1. `EvasionPipeline`: composes `ProbeServer`, `Updater` and `ListReload` by their files.
   Abstract specification: an address confirmed blocked at home is evaded by the
   proxy in the end, and no longer once it serves again; the pipeline refines it.
   `Updater` already has the middle part, with the two ends as single steps.
2. The redirects file with its expiry, between `ProbeServer` and `ListReload`.

Next proofs: that the updater's lists are what its sources list whenever a pass is not under
way; the pipeline's invariants, once it exists; lemmas on `Suppress` and the table's merge
of configured and temporary rules that the pipeline will need.
