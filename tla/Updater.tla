-------------------------------- MODULE Updater --------------------------------
(***************************************************************************)
(* The way of an address from those who know that it is blocked to         *)
(* evade-proxy: update-blocked-ips.sh, run by a timer, joins a list it     *)
(* downloads (IPv4) or finds on disk (IPv6) with the addresses of the      *)
(* probe server, and publishes the result for the proxy.  Before that it   *)
(* refreshes Cloudflare's ranges, by update-cloudflare-prefixes.py, when   *)
(* the file of the IPv4 ones is missing or old.                            *)
(*                                                                         *)
(* A pass is a sequence of steps, with the rest of the world in between.   *)
(* It may be killed.  It exits when a write fails while it publishes (set  *)
(* -e); but while it makes a list, in a temporary file, it ignores that    *)
(* and publishes what there is.                                            *)
(* Published files are replaced by rename, so each read sees one version.  *)
(* The backups of the published files, which nobody reads, and the lists   *)
(* of AS13335, which are informational, are left out.                      *)
(***************************************************************************)
EXTENDS Naturals

CONSTANTS
  Addrs,      \* addresses of either family
  MaxRanges,  \* bound: versions of Cloudflare's ranges
  MaxChanges, \* bound: changes of the sources
  MaxFaults   \* bound: killed passes, failed writes and requests for the ranges

ASSUME UpdaterAssumption ==
  MaxRanges \in Nat \ {0} /\ MaxChanges \in Nat /\ MaxFaults \in Nat

VARIABLES
  up,       \* the URL of the public list answers
  public,   \* family -> the list at BLOCKLIST_URL (4), or in EVADE_OONI_IPV6_FILE (6)
  probe,    \* family -> the probe server's file; no entry while there is none
  ranges,   \* the version of Cloudflare's ranges that its site serves
  target,   \* family -> the published list; no entry while there is none
  cf,       \* family -> the published version of the ranges, 0 for none
  old,      \* the file of the IPv4 ranges has passed its age
  pc,       \* where the pass is
  list,     \* the list in hand
  got,      \* the version of the ranges in hand, 0 for none
  loaded,   \* family -> the list evade-proxy uses
  kept,     \* history: family -> addresses that a source has listed ever since a
            \* pass began with them published and loaded
  gone,     \* history: the same, of those neither listed nor published nor loaded
  torn,     \* history: families whose list lost lines to a failed write, until
            \* the next pass begins
  changes, faults  \* bounds: those so far

world  == <<up, public, probe, ranges>>
disk   == <<target, cf, old>>
script == <<pc, list, got>>
vars   == <<world, disk, script, loaded, kept, gone, torn, changes, faults>>

Families == {4, 6}
Idle     == <<"idle", 0>>

Entry(files, f) == IF f \in DOMAIN files THEN files[f] ELSE {}

WithEntry(files, f, v) == [g \in DOMAIN files \cup {f} |-> IF g = f THEN v ELSE files[g]]

Listed(f) == Entry(public, f) \cup Entry(probe, f)

Init ==
  /\ up \in BOOLEAN
  /\ public \in {[f \in F |-> {}] : F \in {{4}, {4, 6}}}
  /\ probe = [f \in {} |-> {}]
  /\ ranges = 1
  /\ target = [f \in {} |-> {}]
  /\ cf = [f \in Families |-> 0] /\ old = FALSE
  /\ pc = Idle /\ list = {} /\ got = 0
  /\ loaded = [f \in Families |-> {}]
  /\ kept = [f \in Families |-> {}] /\ gone = [f \in Families |-> {}] /\ torn = {}
  /\ changes = 0 /\ faults = 0

-------------------------------------------------------------------------------
\* A pass.

Goto(step, f) == pc' = <<step, f>>

RangesDue_IfMissing == cf[4] = 0
RangesDue           == cf[4] = 0 \/ old

\* The timer starts it.  (History: what is settled now is remembered, and where a
\* list was torn nothing that was settled before.)
Start ==
  /\ pc = Idle
  /\ IF RangesDue THEN Goto("askRanges", 4) ELSE Goto("fetch", 4)
  /\ kept' = [f \in Families |-> (IF f \in torn THEN {} ELSE kept[f])
                 \cup (Listed(f) \cap Entry(target, f) \cap loaded[f])]
  /\ gone' = [f \in Families |-> (IF f \in torn THEN {} ELSE gone[f])
                 \cup (Addrs \ (Listed(f) \cup Entry(target, f) \cup loaded[f]))]
  /\ torn' = {}
  /\ UNCHANGED <<world, disk, list, got, loaded, changes, faults>>

Fault == faults < MaxFaults /\ faults' = faults + 1

\* The two requests for the ranges, taken as one: both must succeed.
AskRanges ==
  /\ pc = <<"askRanges", 4>>
  /\ \/ got' = ranges /\ Goto("putRanges", 4) /\ UNCHANGED faults
     \/ Fault /\ Goto("fetch", 4) /\ UNCHANGED got
  /\ UNCHANGED <<world, disk, list, loaded, kept, gone, torn, changes>>

\* The two files.  An error, in a file or in its backup, ends the prefix script,
\* not the pass.
PutRanges(f) ==
  /\ pc = <<"putRanges", f>>
  /\ LET Written == cf' = [cf EXCEPT ![f] = got] /\ old' = (f = 6 /\ old)
     IN  \/ /\ Written
            /\ pc' = IF f = 4 THEN <<"putRanges", 6>> ELSE <<"fetch", 4>>
            /\ UNCHANGED faults
         \/ Fault /\ Goto("fetch", 4) /\ (Written \/ UNCHANGED <<cf, old>>)
  /\ UNCHANGED <<world, target, list, got, loaded, kept, gone, torn, changes>>

Next6Or(f) == IF f = 4 THEN <<"fetch", 6>> ELSE Idle

\* A download that fails leaves an empty file.
Source(f) == IF f = 4 /\ ~up THEN {} ELSE Entry(public, f)

\* Without the public list the IPv4 part is skipped, the probe's addresses too;
\* without either source the IPv6 part is.
Found_Always(f) == f = 4 \/ 6 \in DOMAIN public \cup DOMAIN probe
Found(f) == IF f = 4 THEN up ELSE 6 \in DOMAIN public \cup DOMAIN probe

\* What a write that fails half-way leaves of some lines: the first ones, and perhaps
\* one cut short, which may read as another address.
Torn(lines) ==
  {whole \cup cut : whole \in SUBSET lines \ {lines}, cut \in {{}} \cup {{a} : a \in Addrs}}
    \ {lines}

\* The IPv4 list is written here for the first time ("|| true").
Fetch(f) ==
  /\ pc = <<"fetch", f>>
  /\ \/ Found(f) /\ list' = Source(f) /\ Goto("merge", f) /\ UNCHANGED <<torn, faults>>
     \/ Found(f) /\ f = 4 /\ Fault /\ list' \in Torn(Source(f))
          /\ torn' = torn \cup {f} /\ Goto("merge", f)
     \/ ~Found(f) /\ pc' = Next6Or(f) /\ UNCHANGED <<list, torn, faults>>
  /\ UNCHANGED <<world, disk, got, loaded, kept, gone, changes>>

UpToDate_AnyFile(f, entries) == f \in DOMAIN target
UpToDate(f, entries)         == f \in DOMAIN target /\ target[f] = entries

\* What a failed write leaves of the merged list.  For IPv4 the list in hand stays as
\* it is ("&& mv"), unless its last line is cut and runs into the first of the
\* probe's; the IPv6 list is written here ("|| true").
Spoilt(f, merged) == IF f = 4 /\ f \notin torn THEN {list} \ {merged} ELSE Torn(merged)

Merge(f) ==
  LET merged == list \cup Entry(probe, f)
  IN  /\ pc = <<"merge", f>>
      /\ \/ list' = merged /\ UNCHANGED <<torn, faults>>
         \/ /\ list' \in Spoilt(f, merged) /\ torn' = torn \cup {f}
            /\ IF f \in torn THEN UNCHANGED faults ELSE Fault
      /\ pc' = IF UpToDate(f, list') THEN Next6Or(f) ELSE <<"publish", f>>
      /\ UNCHANGED <<world, disk, got, loaded, kept, gone, changes>>

\* The list, and then its backup; without it the pass ends here, as it does each
\* time if the backup can never be written.
Publish(f) ==
  /\ pc = <<"publish", f>>
  /\ target' = WithEntry(target, f, list)
  /\ Goto("backup", f)
  /\ UNCHANGED <<world, cf, old, list, got, loaded, kept, gone, torn, changes, faults>>

Backup(f) ==
  /\ pc = <<"backup", f>>
  /\ pc' \in {Next6Or(f), Idle}
  /\ UNCHANGED <<world, disk, list, got, loaded, kept, gone, torn, changes, faults>>

\* Killed, or ended by what is checked: a temporary file that cannot be made, the copy
\* beside the published file and its rename, a message.
Abort ==
  /\ pc # Idle
  /\ Fault
  /\ pc' = Idle
  /\ UNCHANGED <<world, disk, list, got, loaded, kept, gone, torn, changes>>

-------------------------------------------------------------------------------
\* The proxy, whose reload is modelled in ListReload: it ends up with each list.

Reload(f) ==
  /\ f \in DOMAIN target /\ loaded[f] # target[f]
  /\ loaded' = [loaded EXCEPT ![f] = target[f]]
  /\ UNCHANGED <<world, disk, script, kept, gone, torn, changes, faults>>

\* The sources.

Change == changes < MaxChanges /\ changes' = changes + 1

Forget(f, before, after) ==
  /\ kept' = [kept EXCEPT ![f] = @ \ (before \ after)]
  /\ gone' = [gone EXCEPT ![f] = @ \ after]

EditPublic(f) ==
  /\ Change
  /\ \E S \in SUBSET Addrs :
       /\ public' = WithEntry(public, f, S)
       /\ Forget(f, Entry(public, f), S)
  /\ UNCHANGED <<up, probe, ranges, disk, script, loaded, torn, faults>>

\* The optional list of IPv6 addresses may be taken away altogether.
RemovePublic ==
  /\ Change
  /\ 6 \in DOMAIN public
  /\ public' = [f \in DOMAIN public \ {6} |-> public[f]]
  /\ Forget(6, public[6], {})
  /\ UNCHANGED <<up, probe, ranges, disk, script, loaded, torn, faults>>

\* The probe server writes its file (see ProbeServer).
EditProbe(f) ==
  /\ Change
  /\ \E S \in SUBSET Addrs :
       /\ probe' = WithEntry(probe, f, S)
       /\ Forget(f, Entry(probe, f), S)
  /\ UNCHANGED <<up, public, ranges, disk, script, loaded, torn, faults>>

NewRanges ==
  /\ ranges < MaxRanges
  /\ ranges' = ranges + 1
  /\ UNCHANGED <<up, public, probe, disk, script, loaded, kept, gone, torn, changes, faults>>

Toggle ==
  /\ up' = ~up
  /\ UNCHANGED <<public, probe, ranges, disk, script, loaded, kept, gone, torn, changes, faults>>

Age ==
  /\ cf[4] # 0 /\ ~old
  /\ old' = TRUE
  /\ UNCHANGED <<world, target, cf, script, loaded, kept, gone, torn, changes, faults>>

Step(f) == PutRanges(f) \/ Fetch(f) \/ Merge(f) \/ Publish(f) \/ Backup(f)

Pass == Start \/ AskRanges \/ \E f \in Families : Step(f)

Next ==
  \/ Pass \/ Abort
  \/ \E f \in Families : Reload(f) \/ EditPublic(f) \/ EditProbe(f)
  \/ RemovePublic \/ NewRanges \/ Toggle \/ Age

Spec == Init /\ [][Next]_vars

\* The timer goes on, each step of a pass ends (downloads have time-outs), files
\* age, the proxy reloads.  Nothing is assumed of the public list nor of backups.
LiveSpec ==
  /\ Spec
  /\ WF_vars(Pass) /\ WF_vars(Age)
  /\ \A f \in Families : WF_vars(Reload(f))

-------------------------------------------------------------------------------
\* Properties.

\* update-blocked-ips.sh:63-64, 84-85.  An address that was published and loaded
\* when a pass began stays so for as long as its sources list it; and one that
\* was neither comes back only if a source lists it.  Failed downloads, killed
\* passes and writes that fail while a list is published change nothing of that;
\* one that fails while a list is made does, for that list, until a next pass.
FeedSteady ==
  \A f \in Families \ torn : /\ kept[f] \subseteq Entry(target, f) \cap loaded[f]
                             /\ gone[f] \cap (Entry(target, f) \cup loaded[f]) = {}

\* README.md:152-157.  While the public list can be fetched, the proxy ends up
\* with the addresses of both IPv4 sources and no others, and while there is a file
\* of IPv6 addresses, with those of both IPv6 ones.  A list that was published
\* truncated is made good; a backup that can never be written hinders neither.
Delivered ==
  \A f \in Families, a \in Addrs :
    /\ <>[](a \in Entry(public, f) /\ Found(f)) => <>[](a \in loaded[f])
    /\ <>[](a \in Entry(probe, f) /\ Found(f)) => <>[](a \in loaded[f])
    /\ <>[](a \notin Listed(f) /\ Found(f)) => <>[](a \notin loaded[f])

\* README.md:158.  The ranges of both families end up being Cloudflare's, though
\* only the age of the IPv4 file is looked at, and an update may have ended
\* between the two.
RangesFollow ==
  \A f \in Families, v \in 1..MaxRanges : <>[](ranges = v) => <>[](cf[f] = v)
===============================================================================
