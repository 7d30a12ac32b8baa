----------------------------- MODULE Updater_proofs -----------------------------
(***************************************************************************)
(* Theorem about Updater, for any set of addresses and every bound.        *)
(*                                                                         *)
(* What is published is the list in hand of the pass, read earlier: it     *)
(* holds the settled addresses because a source that drops or adds one in  *)
(* the meantime unsettles it, unless a failed write has torn it, and then  *)
(* nothing is said of that family until the next pass.                     *)
(***************************************************************************)
EXTENDS Updater, TLAPS

Shape ==
  /\ kept = [f \in Families |-> kept[f]]
  /\ gone = [f \in Families |-> gone[f]]
  /\ loaded = [f \in Families |-> loaded[f]]

\* What is settled agrees with the sources, the published list and the proxy.
Settled(f) ==
  /\ kept[f] \subseteq Listed(f) \cap Entry(target, f) \cap loaded[f]
  /\ gone[f] \cap (Listed(f) \cup Entry(target, f) \cup loaded[f]) = {}

\* So does the list in hand, on its way to being published.
InHand(f) ==
  /\ pc = <<"merge", f>> =>
       kept[f] \subseteq list \cup Entry(probe, f) /\ gone[f] \cap list = {}
  /\ pc = <<"publish", f>> => kept[f] \subseteq list /\ gone[f] \cap list = {}

IndInv == Shape /\ \A f \in Families \ torn : Settled(f) /\ InHand(f)
-------------------------------------------------------------------------------
LEMMA EntryOfWithEntry ==
  ASSUME NEW F, NEW f, NEW v, NEW g
  PROVE  Entry(WithEntry(F, f, v), g) = IF g = f THEN v ELSE Entry(F, g)
BY DEF Entry, WithEntry

\* The files after one of them is written or taken away: S is its list.
Changed(files, before, f, S) == \A g : Entry(files, g) = IF g = f THEN S ELSE Entry(before, g)

\* A source that changes its list unsettles exactly what it drops or adds.
LEMMA ForgetKeepsSettled ==
  ASSUME IndInv, NEW f \in Families, NEW S \in SUBSET Addrs,
         \/ /\ Changed(public', public, f, S) /\ Forget(f, Entry(public, f), S)
            /\ UNCHANGED probe
         \/ /\ Changed(probe', probe, f, S) /\ Forget(f, Entry(probe, f), S)
            /\ UNCHANGED public,
         UNCHANGED <<target, loaded, pc, list, torn>>
  PROVE  IndInv'
<1>1. Shape'
  BY DEF IndInv, Shape, Forget
<1>2. ASSUME NEW g \in Families \ torn
      PROVE  Settled(g)' /\ InHand(g)'
  <2>1. CASE g # f
    <3>1. kept'[g] = kept[g] /\ gone'[g] = gone[g]
      BY <2>1 DEF IndInv, Shape, Forget
    <3>2. Entry(public', g) = Entry(public, g) /\ Entry(probe', g) = Entry(probe, g)
      BY <2>1 DEF Changed
    <3>3. Entry(target', g) = Entry(target, g)
      OBVIOUS
    <3> QED  BY <3>1, <3>2, <3>3 DEF IndInv, Settled, InHand, Listed
  <2>2. CASE g = f /\ UNCHANGED probe /\ Changed(public', public, f, S)
                   /\ Forget(f, Entry(public, f), S)
    <3>1. /\ kept'[f] = kept[f] \ (Entry(public, f) \ S)
          /\ gone'[f] = gone[f] \ S
      BY <2>2 DEF IndInv, Shape, Forget
    <3>2. Entry(public', f) = S /\ Entry(probe', f) = Entry(probe, f)
      BY <2>2 DEF Changed
    <3>3. Entry(target', f) = Entry(target, f)
      OBVIOUS
    <3>4. Settled(f) /\ InHand(f)
      BY <2>2 DEF IndInv
    <3> QED  BY <2>2, <3>1, <3>2, <3>3, <3>4 DEF Settled, InHand, Listed
  <2>3. CASE g = f /\ UNCHANGED public /\ Changed(probe', probe, f, S)
                   /\ Forget(f, Entry(probe, f), S)
    <3>1. /\ kept'[f] = kept[f] \ (Entry(probe, f) \ S)
          /\ gone'[f] = gone[f] \ S
      BY <2>3 DEF IndInv, Shape, Forget
    <3>2. Entry(probe', f) = S /\ Entry(public', f) = Entry(public, f)
      BY <2>3 DEF Changed
    <3>3. Entry(target', f) = Entry(target, f)
      OBVIOUS
    <3>4. Settled(f) /\ InHand(f)
      BY <2>3 DEF IndInv
    <3> QED  BY <2>3, <3>1, <3>2, <3>3, <3>4 DEF Settled, InHand, Listed
  <2> QED  BY <2>1, <2>2, <2>3
<1> QED  BY <1>1, <1>2 DEF IndInv

-------------------------------------------------------------------------------
LEMMA InitIndInv == Init => IndInv
<1> SUFFICES ASSUME Init PROVE IndInv
  OBVIOUS
<1>1. Shape
  BY DEF Init, Shape
<1>2. ASSUME NEW f \in Families PROVE Settled(f) /\ InHand(f)
  BY <1>2 DEF Init, Settled, InHand, Idle
<1> QED  BY <1>1, <1>2 DEF IndInv

\* Steps that touch neither what is settled nor the lists.
LEMMA StutterOfLists ==
  ASSUME IndInv,
         UNCHANGED <<public, probe, target, loaded, kept, gone, torn>>,
         \A f \in Families : pc' # <<"merge", f>> /\ pc' # <<"publish", f>>
  PROVE  IndInv'
BY DEF IndInv, Shape, Settled, InHand, Listed

LEMMA NextIndInv == IndInv /\ [Next]_vars => IndInv'
<1> SUFFICES ASSUME IndInv, [Next]_vars PROVE IndInv'
  OBVIOUS
<1> USE DEF Families
<1>1. CASE Start
  <2>1. Shape'
    <3>1. kept' = [f \in Families |-> kept'[f]] /\ gone' = [f \in Families |-> gone'[f]]
      BY <1>1 DEF Start
    <3>2. loaded' = loaded
      BY <1>1 DEF Start
    <3>3. Shape
      BY DEF IndInv
    <3> QED  BY <3>1, <3>2, <3>3 DEF Shape
  <2>2. ASSUME NEW f \in Families PROVE Settled(f)' /\ InHand(f)'
    <3>1. /\ kept'[f] = (IF f \in torn THEN {} ELSE kept[f])
                          \cup (Listed(f) \cap Entry(target, f) \cap loaded[f])
          /\ gone'[f] = (IF f \in torn THEN {} ELSE gone[f])
                          \cup (Addrs \ (Listed(f) \cup Entry(target, f) \cup loaded[f]))
      BY <1>1 DEF Start
    <3>2. Listed(f)' = Listed(f) /\ Entry(target, f)' = Entry(target, f) /\ loaded' = loaded
      BY <1>1 DEF Start, world, disk, Listed
    <3>3. pc' \in {<<"askRanges", 4>>, <<"fetch", 4>>}
      BY <1>1 DEF Start, Goto
    <3>4. f \in torn \/ Settled(f)
      BY DEF IndInv
    <3>5. Settled(f)'
      BY <3>1, <3>2, <3>4 DEF Settled
    <3> QED  BY <3>3, <3>5 DEF InHand
  <2> QED  BY <2>1, <2>2 DEF IndInv
<1>2. CASE AskRanges
  BY <1>2, StutterOfLists DEF AskRanges, Goto, world, disk
<1>3. ASSUME NEW f \in Families, PutRanges(f) PROVE IndInv'
  BY <1>3, StutterOfLists DEF PutRanges, Goto, world
<1>4. ASSUME NEW f \in Families, Fetch(f) PROVE IndInv'
  <2>1. UNCHANGED <<public, probe, target, loaded, kept, gone>>
    BY <1>4 DEF Fetch, world, disk
  <2>2. CASE ~Found(f)
    <3>1. pc' \in {<<"fetch", 6>>, Idle} /\ torn' = torn
      BY <1>4, <2>2 DEF Fetch, Next6Or
    <3> QED  BY <2>1, <3>1, StutterOfLists DEF Idle
  <2>3. CASE Found(f)
    <3>1. /\ pc' = <<"merge", f>>
          /\ \/ torn' = torn /\ list' = Entry(public, f)
             \/ torn' = torn \cup {f}
      BY <1>4, <2>3 DEF Fetch, Found, Source, Goto
    <3>2. ASSUME NEW g \in Families \ torn' PROVE Settled(g)' /\ InHand(g)'
      <4>1. g \in Families \ torn
        BY <3>1, <3>2
      <4>2. Settled(g)'
        BY <2>1, <4>1 DEF IndInv, Settled, Listed
      <4>3. g = f => kept[g] \subseteq list' \cup Entry(probe, g) /\ gone[g] \cap list' = {}
        BY <3>1, <3>2, <4>1 DEF IndInv, Settled, Listed
      <4>4. pc' # <<"publish", g>> /\ (pc' = <<"merge", g>> => g = f)
        BY <3>1
      <4> QED  BY <2>1, <4>2, <4>3, <4>4 DEF InHand
    <3> QED  BY <2>1, <3>2 DEF IndInv, Shape
  <2> QED  BY <2>2, <2>3
<1>5. ASSUME NEW f \in Families, Merge(f) PROVE IndInv'
  <2>1. UNCHANGED <<public, probe, target, loaded, kept, gone>>
    BY <1>5 DEF Merge, world, disk
  <2>2. /\ pc = <<"merge", f>> /\ pc' \in {<<"publish", f>>, <<"fetch", 6>>, Idle}
        /\ \/ torn' = torn /\ list' = list \cup Entry(probe, f)
           \/ torn' = torn \cup {f}
    BY <1>5 DEF Merge, Next6Or
  <2>3. ASSUME NEW g \in Families \ torn' PROVE Settled(g)' /\ InHand(g)'
    <3>1. g \in Families \ torn
      BY <2>2, <2>3
    <3>2. Settled(g)'
      BY <2>1, <3>1 DEF IndInv, Settled, Listed
    <3>3. g = f => kept[g] \subseteq list' /\ gone[g] \cap list' = {}
      BY <2>2, <2>3, <3>1 DEF IndInv, Settled, Listed, InHand
    <3>4. pc' # <<"merge", g>> /\ (pc' = <<"publish", g>> => g = f)
      BY <2>2 DEF Idle
    <3> QED  BY <2>1, <3>2, <3>3, <3>4 DEF InHand
  <2> QED  BY <2>1, <2>3 DEF IndInv, Shape
<1>6. ASSUME NEW f \in Families, Publish(f) PROVE IndInv'
  <2>1. UNCHANGED <<public, probe, loaded, kept, gone, torn>>
    BY <1>6 DEF Publish, world
  <2>2. target' = WithEntry(target, f, list) /\ pc = <<"publish", f>> /\ pc' = <<"backup", f>>
    BY <1>6 DEF Publish, Goto
  <2>3. ASSUME NEW g \in Families \ torn PROVE Settled(g)' /\ InHand(g)'
    <3>1. Entry(target', g) = IF g = f THEN list ELSE Entry(target, g)
      BY <2>2, EntryOfWithEntry
    <3>2. Settled(g) /\ InHand(g)
      BY <2>3 DEF IndInv
    <3>3. Settled(g)'
      BY <2>1, <2>2, <3>1, <3>2 DEF Settled, InHand, Listed
    <3> QED  BY <2>2, <3>3 DEF InHand
  <2> QED  BY <2>1, <2>3 DEF IndInv, Shape
<1>7. ASSUME NEW f \in Families, Backup(f) PROVE IndInv'
  <2>1. pc' \in {<<"fetch", 6>>, Idle}
    BY <1>7 DEF Backup, Next6Or
  <2> QED  BY <1>7, <2>1, StutterOfLists DEF Backup, world, disk, Idle
<1>8. CASE Abort
  BY <1>8, StutterOfLists DEF Abort, world, disk, Idle
<1>9. ASSUME NEW f \in Families, Reload(f) PROVE IndInv'
  <2>1. UNCHANGED <<public, probe, target, pc, list, kept, gone, torn>>
    BY <1>9 DEF Reload, world, disk, script
  <2>2. loaded' = [loaded EXCEPT ![f] = Entry(target, f)]
    BY <1>9 DEF Reload, Entry
  <2>3. ASSUME NEW g \in Families \ torn PROVE Settled(g)' /\ InHand(g)'
    <3>1. loaded'[g] = IF g = f THEN Entry(target, f) ELSE loaded[g]
      BY <2>2, <2>3 DEF IndInv, Shape
    <3>2. Settled(g) /\ InHand(g)
      BY <2>3 DEF IndInv
    <3> QED  BY <2>1, <3>1, <3>2 DEF Settled, InHand, Listed
  <2>4. Shape'
    BY <2>1, <2>2 DEF IndInv, Shape
  <2> QED  BY <2>1, <2>3, <2>4 DEF IndInv
<1>10. ASSUME NEW f \in Families, EditPublic(f) PROVE IndInv'
  <2>1. PICK S \in SUBSET Addrs : public' = WithEntry(public, f, S) /\ Forget(f, Entry(public, f), S)
    BY <1>10 DEF EditPublic
  <2>2. Changed(public', public, f, S)
    BY <2>1, EntryOfWithEntry DEF Changed
  <2> QED  BY <1>10, <2>1, <2>2, ForgetKeepsSettled DEF EditPublic, disk, script
<1>11. ASSUME NEW f \in Families, EditProbe(f) PROVE IndInv'
  <2>1. PICK S \in SUBSET Addrs : probe' = WithEntry(probe, f, S) /\ Forget(f, Entry(probe, f), S)
    BY <1>11 DEF EditProbe
  <2>2. Changed(probe', probe, f, S)
    BY <2>1, EntryOfWithEntry DEF Changed
  <2> QED  BY <1>11, <2>1, <2>2, ForgetKeepsSettled DEF EditProbe, disk, script
<1>12. CASE NewRanges \/ Toggle \/ Age \/ UNCHANGED vars
  <2>1. UNCHANGED <<public, probe, target, loaded, pc, list, kept, gone, torn>>
    BY <1>12 DEF NewRanges, Toggle, Age, vars, world, disk, script
  <2> QED  BY <2>1 DEF IndInv, Shape, Settled, InHand, Listed
<1>13. CASE RemovePublic
  <2>1. Changed(public', public, 6, {})
    BY <1>13 DEF RemovePublic, Changed, Entry
  <2>2. Forget(6, Entry(public, 6), {})
    BY <1>13 DEF RemovePublic, Entry
  <2> QED  BY <1>13, <2>1, <2>2, ForgetKeepsSettled DEF RemovePublic, disk, script
<1> QED  BY <1>1, <1>2, <1>3, <1>4, <1>5, <1>6, <1>7, <1>8, <1>9, <1>10, <1>11, <1>12, <1>13
         DEF Next, Pass, Step

-------------------------------------------------------------------------------
\* update-blocked-ips.sh:63-64, 84-85.  Whatever is downloaded or killed, and whatever
\* write fails while a list is published, an address that was published and loaded when
\* a pass began stays so while its sources list it, and one that was neither comes back
\* only if a source does.  A list that an ignored failed write has torn is excepted,
\* from that write until the next pass begins.
THEOREM FeedNeverShakes == Spec => []FeedSteady
<1>1. IndInv => FeedSteady
  BY DEF IndInv, Settled, FeedSteady
<1> QED  BY <1>1, InitIndInv, NextIndInv, PTL DEF Spec
===============================================================================
