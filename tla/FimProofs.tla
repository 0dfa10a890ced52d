----------------------------- MODULE FimProofs -----------------------------
(***************************************************************************)
(* FimMonitor for every set of paths, descriptions and bounds: the records *)
(* follow the baseline across failures and restarts, a complete rescan     *)
(* leaves nothing untold, and no change is reported that did not happen.   *)
(***************************************************************************)
EXTENDS FimMonitor, TLAPS

Values == {0} \cup Descriptions

FimTypes ==
    /\ files \in [Paths -> Values] /\ baseline \in [Paths -> Values]
    /\ stored \in [Paths -> Values] /\ recorded \in [Paths -> Values]
    /\ changes \subseteq [path : Paths, after : Values]
    /\ dirty \subseteq Paths /\ named \subseteq Paths /\ untold \subseteq Paths
    /\ fim_up \in BOOLEAN /\ rescanned \in BOOLEAN

\* A directory that is not there has nothing below it.
FilesTree == \A p, q \in Paths : q \in Below[p] /\ files[p] = 0 => files[q] = 0

\* While the sensor runs, a found change is the baseline's and a complete rescan
\* has made the baseline the host's; while it is down, nothing is being written
\* and the stored baseline is what the records say, up to what is known untold.
FimLinks ==
    /\ \A c \in changes : c.after = baseline[c.path]
    /\ fim_up /\ rescanned => \A p \in Paths : baseline[p] = files[p]
    /\ ~fim_up => changes = {}
    /\ ~fim_up /\ file_is = "good" => \A p \in Paths : recorded[p] = stored[p] \/ p \in untold

FimInv == FimTypes /\ FilesTree /\ FimLinks /\ BaselineTold

\* What Adopt makes of a base and a current state: the changes are the current
\* values of exactly the paths that differ.
LEMMA Adopting ==
    ASSUME NEW base \in [Paths -> Values], NEW current \in [Paths -> Values],
           stored \in [Paths -> Values], Adopt(base, current)
    PROVE  /\ baseline' = current /\ stored' \in [Paths -> Values]
           /\ changes' \subseteq [path : Paths, after : Values]
           /\ \A c \in changes' : c.after = baseline'[c.path] /\ base[c.path] # current[c.path]
           /\ Changed' = {p \in Paths : base[p] # current[p]}
<1>1. baseline' = current /\ stored' \in [Paths -> Values]
  BY DEF Adopt, StoreBaseline
<1>2. changes' = {[path |-> p, after |-> current[p]] : p \in {q \in Paths : base[q] # current[q]}}
  BY DEF Adopt
<1>3. changes' \subseteq [path : Paths, after : Values]
  BY <1>2
<1>4. \A c \in changes' : c.after = baseline'[c.path] /\ base[c.path] # current[c.path]
  BY <1>1, <1>2
<1>5. Changed' = {p \in Paths : base[p] # current[p]}
  <2> DEFINE diff == {p \in Paths : base[p] # current[p]}
  <2>1. ASSUME NEW p \in diff PROVE p \in Changed'
    <3>1. [path |-> p, after |-> current[p]] \in changes'
      BY <1>2
    <3> QED
      BY <3>1 DEF Changed
  <2>2. ASSUME NEW p \in Changed' PROVE p \in diff
    BY <1>3, <1>4 DEF Changed
  <2> QED
    BY <2>1, <2>2
<1> QED
  BY <1>1, <1>3, <1>4, <1>5

LEMMA FimInitInv == FimInit => FimInv
<1> SUFFICES ASSUME FimInit PROVE FimInv
  OBVIOUS
<1>1. FimTypes
  BY DEF FimInit, FimTypes, Values
<1>2. FilesTree
  BY DEF FimInit, FilesTree
<1>3. FimLinks /\ BaselineTold
  BY DEF FimInit, FimLinks, BaselineTold
<1> QED
  BY <1>1, <1>2, <1>3 DEF FimInv

\* Removing a directory removes all below it, and nothing appears below one that
\* is not there.
LEMMA EditKeeps ==
    ASSUME FimInv, NEW p \in Paths, NEW d \in Values, NEW seen \in BOOLEAN, EditPath(p, d, seen)
    PROVE  FimInv'
<1> USE DEF FimInv
<1>1. FimTypes'
  BY DEF EditPath, FimTypes
<1>2. FilesTree'
  BY FimAssumption DEF EditPath, FilesTree, FimTypes
<1>3. FimLinks'
  BY DEF EditPath, FimLinks
<1>4. BaselineTold'
  BY DEF EditPath, BaselineTold, Changed
<1> QED
  BY <1>1, <1>2, <1>3, <1>4

LEMMA DueKeeps ==
    ASSUME FimInv, NEW due \in SUBSET Paths, TakeDue(due)
    PROVE  FimInv'
<1> USE DEF FimInv
<1> DEFINE below == {q \in Paths : baseline[q] # 0 /\ \E p \in due : files[p] = 0 /\ q \in Below[p]}
           current == [p \in Paths |-> IF p \in due \cup below THEN files[p] ELSE baseline[p]]
<1>1. Adopt(baseline, current) /\ current \in [Paths -> Values]
  BY DEF TakeDue, FimTypes
<1>2. /\ fim_up /\ changes = {} /\ dirty' = dirty \ due
      /\ UNCHANGED <<files, named, fim_up, recorded, untold, rescanned>>
  BY DEF TakeDue
<1>3. /\ baseline' = current /\ stored' \in [Paths -> Values]
      /\ changes' \subseteq [path : Paths, after : Values]
      /\ \A c \in changes' : c.after = baseline'[c.path]
      /\ Changed' = {p \in Paths : baseline[p] # current[p]}
  BY <1>1, Adopting DEF FimTypes
<1>4. FimTypes'
  BY <1>1, <1>2, <1>3 DEF FimTypes
<1>5. FilesTree'
  BY <1>2 DEF FilesTree
<1>6. FimLinks'
  BY <1>2, <1>3 DEF FimLinks
<1>7. BaselineTold'
  BY <1>2, <1>3 DEF BaselineTold, Changed
<1> QED
  BY <1>4, <1>5, <1>6, <1>7

\* A rescan and a start from a stored baseline adopt what the scan reached.
LEMMA ScanKeeps ==
    ASSUME FimInv, NEW unseen \in SUBSET Paths, Rescan(unseen) \/ StartLoaded(unseen)
    PROVE  FimInv'
<1> USE DEF FimInv
<1> DEFINE base == IF fim_up THEN baseline ELSE stored
           current == ScannedPaths(base, unseen)
<1>1. Adopt(base, current) /\ base \in [Paths -> Values] /\ current \in [Paths -> Values]
  BY DEF Rescan, StartLoaded, ScannedPaths, FimTypes
<1>2. /\ fim_up' /\ rescanned' = (unseen = {}) /\ (~fim_up => file_is = "good")
      /\ changes = {} /\ UNCHANGED <<files, named, dirty, recorded, untold>>
  BY DEF Rescan, StartLoaded, FimLinks
<1>3. /\ baseline' = current /\ stored' \in [Paths -> Values]
      /\ changes' \subseteq [path : Paths, after : Values]
      /\ \A c \in changes' : c.after = baseline'[c.path]
      /\ Changed' = {p \in Paths : base[p] # current[p]}
  BY <1>1, Adopting DEF FimTypes
<1>4. FimTypes'
  BY <1>1, <1>2, <1>3 DEF FimTypes, Rescan, StartLoaded
<1>5. FilesTree'
  BY <1>2 DEF FilesTree
<1>6. FimLinks'
  BY <1>2, <1>3 DEF FimLinks, ScannedPaths
<1>7. \A p \in Paths : recorded[p] = base[p] \/ p \in untold
  BY <1>2 DEF FimLinks, BaselineTold, Changed
<1>8. BaselineTold'
  BY <1>2, <1>3, <1>7 DEF BaselineTold
<1> QED
  BY <1>4, <1>5, <1>6, <1>8

LEMMA FreshKeeps ==
    ASSUME FimInv, NEW unseen \in SUBSET Paths, StartFresh(unseen)
    PROVE  FimInv'
<1> USE DEF FimInv
<1>1. FimTypes'
  BY DEF StartFresh, StoreBaseline, FimTypes, Values
<1>2. FilesTree'
  BY DEF StartFresh, FilesTree
<1>3. FimLinks'
  BY DEF StartFresh, StoreBaseline, FimLinks
<1>4. BaselineTold'
  BY DEF StartFresh, BaselineTold
<1> QED
  BY <1>1, <1>2, <1>3, <1>4

LEMMA WriteKeeps ==
    ASSUME FimInv, NEW c \in changes, WriteChange(c) \/ RefuseChange(c)
    PROVE  FimInv'
<1> USE DEF FimInv
<1>1. c.path \in Paths /\ c.after \in Values /\ c.after = baseline[c.path]
  BY DEF FimTypes, FimLinks
<1>2. FimTypes'
  BY <1>1 DEF WriteChange, RefuseChange, FimTypes
<1>3. FilesTree'
  BY DEF WriteChange, RefuseChange, FilesTree
<1>4. FimLinks'
  BY DEF WriteChange, RefuseChange, FimLinks
<1>5. Changed \subseteq Changed' \cup {c.path}
  BY DEF WriteChange, RefuseChange, Changed
<1>6. BaselineTold'
  BY <1>1, <1>5 DEF WriteChange, RefuseChange, BaselineTold, FimTypes
<1> QED
  BY <1>2, <1>3, <1>4, <1>6

LEMMA FimCrashKeeps ==
    ASSUME FimInv, FimCrash \/ DamageFile \/ (\E p \in Paths : Note(p))
    PROVE  FimInv'
<1> USE DEF FimInv
<1>1. FimTypes'
  BY DEF FimCrash, DamageFile, Note, FimTypes, Changed
<1>2. FilesTree'
  BY DEF FimCrash, DamageFile, Note, FilesTree
<1>3. FimLinks'
  BY DEF FimCrash, DamageFile, Note, FimLinks, BaselineTold
<1>4. BaselineTold'
  BY DEF FimCrash, DamageFile, Note, BaselineTold, Changed
<1> QED
  BY <1>1, <1>2, <1>3, <1>4

LEMMA FimStutters == ASSUME FimInv, UNCHANGED fimVars PROVE FimInv'
BY DEF FimInv, FimTypes, FilesTree, FimLinks, BaselineTold, Changed, fimVars

LEMMA FimNextInv == FimInv /\ [FimNext]_fimVars => FimInv'
<1> SUFFICES ASSUME FimInv, [FimNext]_fimVars PROVE FimInv'
  OBVIOUS
<1>1. CASE \E p \in Paths, d \in {0} \cup Descriptions, seen \in BOOLEAN : EditPath(p, d, seen)
  BY <1>1, EditKeeps DEF Values
<1>2. CASE \E due \in SUBSET Paths : TakeDue(due)
  BY <1>2, DueKeeps
<1>3. CASE \E unseen \in SUBSET Paths : Rescan(unseen) \/ StartLoaded(unseen) \/ StartFresh(unseen)
  BY <1>3, ScanKeeps, FreshKeeps
<1>4. CASE \E c \in changes : WriteChange(c) \/ RefuseChange(c)
  BY <1>4, WriteKeeps
<1>5. CASE FimCrash \/ DamageFile \/ (\E p \in Paths : Note(p))
  BY <1>5, FimCrashKeeps
<1>6. CASE UNCHANGED fimVars
  BY <1>6, FimStutters
<1> QED
  BY <1>1, <1>2, <1>3, <1>4, <1>5, <1>6 DEF FimNext

\* The records follow the baseline, whatever failed and however often the
\* sensor died and started.
THEOREM FimTellsBaseline == FimSpec => []BaselineTold
<1>1. FimInv => BaselineTold
  BY DEF FimInv
<1> QED
  BY <1>1, FimInitInv, FimNextInv, PTL DEF FimSpec

\* After a rescan that reached every path nothing is untold, however many events
\* were lost or dropped by the full set of dirty paths.
THEOREM FimRescanFinds == FimSpec => []RescanFinds
<1>1. FimInv => RescanFinds
  BY DEF FimInv, FimLinks, BaselineTold, RescanFinds
<1> QED
  BY <1>1, FimInitInv, FimNextInv, PTL DEF FimSpec

\* Every change a step finds is one of the host: nothing that a truncated scan
\* did not reach is reported as removed.
THEOREM FimChangesReal == FimSpec => ChangesReal
<1> DEFINE Real == \A c \in changes' \ changes : c.after = files[c.path]
<1>1. ASSUME FimInv, [FimNext]_fimVars PROVE [Real]_fimVars
  <2> SUFFICES ASSUME FimNext PROVE Real
    BY <1>1
  <2>0. FimTypes
    BY <1>1 DEF FimInv
  <2>1. CASE \E due \in SUBSET Paths : TakeDue(due)
    <3>1. PICK due \in SUBSET Paths : TakeDue(due)
      BY <2>1
    <3> DEFINE below == {q \in Paths : baseline[q] # 0 /\ \E p \in due : files[p] = 0 /\ q \in Below[p]}
               current == [p \in Paths |-> IF p \in due \cup below THEN files[p] ELSE baseline[p]]
    <3>2. Adopt(baseline, current) /\ current \in [Paths -> Values]
      BY <2>0, <3>1 DEF TakeDue, FimTypes
    <3>3. \A c \in changes' : c.path \in Paths /\ c.after = current[c.path] /\ baseline[c.path] # current[c.path]
      BY <2>0, <3>2, Adopting DEF FimTypes
    <3> QED
      BY <3>3
  <2>2. CASE \E unseen \in SUBSET Paths : Rescan(unseen) \/ StartLoaded(unseen)
    <3>1. PICK unseen \in SUBSET Paths : Rescan(unseen) \/ StartLoaded(unseen)
      BY <2>2
    <3> DEFINE base == IF fim_up THEN baseline ELSE stored
               current == ScannedPaths(base, unseen)
    <3>2. Adopt(base, current) /\ base \in [Paths -> Values] /\ current \in [Paths -> Values]
      BY <2>0, <3>1 DEF Rescan, StartLoaded, ScannedPaths, FimTypes
    <3>3. \A c \in changes' : c.path \in Paths /\ c.after = current[c.path] /\ base[c.path] # current[c.path]
      BY <2>0, <3>2, Adopting DEF FimTypes
    <3> QED
      BY <3>3 DEF ScannedPaths
  <2>3. CASE \E unseen \in SUBSET Paths : StartFresh(unseen)
    BY <2>3 DEF StartFresh
  <2>4. CASE \E p \in Paths, d \in {0} \cup Descriptions, seen \in BOOLEAN : EditPath(p, d, seen)
    BY <2>4 DEF EditPath
  <2>5. CASE FimCrash \/ DamageFile \/ (\E p \in Paths : Note(p))
    BY <2>5 DEF FimCrash, DamageFile, Note
  <2>6. CASE \E c \in changes : WriteChange(c) \/ RefuseChange(c)
    BY <2>6 DEF WriteChange, RefuseChange
  <2> QED
    BY <2>1, <2>2, <2>3, <2>4, <2>5, <2>6 DEF FimNext
<1> QED
  BY <1>1, FimInitInv, FimNextInv, PTL DEF FimSpec, ChangesReal

\* A path that was due is as the host has it, and with a directory that is gone
\* so is everything below it.
THEOREM FimDueFinds == FimSpec => DueFinds
<1> DEFINE Found == \A p \in dirty \ dirty' : fim_up' => baseline'[p] = files[p]
                        /\ (files[p] = 0 => \A q \in Below[p] : baseline'[q] = 0)
<1>1. ASSUME FimInv, [FimNext]_fimVars PROVE [Found]_fimVars
  <2> SUFFICES ASSUME FimNext PROVE Found
    BY <1>1
  <2>0. FimTypes /\ FilesTree
    BY <1>1 DEF FimInv
  <2>1. CASE \E due \in SUBSET Paths : TakeDue(due)
    <3>1. PICK due \in SUBSET Paths : TakeDue(due)
      BY <2>1
    <3> DEFINE below == {q \in Paths : baseline[q] # 0 /\ \E p \in due : files[p] = 0 /\ q \in Below[p]}
               current == [p \in Paths |-> IF p \in due \cup below THEN files[p] ELSE baseline[p]]
    <3>2. baseline' = current /\ dirty' = dirty \ due
      BY <3>1 DEF TakeDue, Adopt
    <3>3. ASSUME NEW p \in due, files[p] = 0, NEW q \in Below[p] PROVE current[q] = 0
      <4>1. q \in Paths /\ files[q] = 0
        BY <2>0, <3>3, FimAssumption DEF FilesTree
      <4>2. baseline[q] # 0 => q \in below
        BY <3>3, <4>1
      <4> QED
        BY <4>1, <4>2
    <3>4. \A p \in due : current[p] = files[p]
      OBVIOUS
    <3> HIDE DEF below, current
    <3> QED
      BY <3>2, <3>3, <3>4
  <2>2. CASE \E unseen \in SUBSET Paths : Rescan(unseen) \/ StartLoaded(unseen) \/ StartFresh(unseen)
    BY <2>2 DEF Rescan, StartLoaded, StartFresh
  <2>3. CASE \E p \in Paths, d \in {0} \cup Descriptions, seen \in BOOLEAN : EditPath(p, d, seen)
    BY <2>3 DEF EditPath
  <2>4. CASE FimCrash \/ DamageFile \/ (\E p \in Paths : Note(p))
    BY <2>4 DEF FimCrash, DamageFile, Note
  <2>5. CASE \E c \in changes : WriteChange(c) \/ RefuseChange(c)
    BY <2>5 DEF WriteChange, RefuseChange
  <2> QED
    BY <2>1, <2>2, <2>3, <2>4, <2>5 DEF FimNext
<1> QED
  BY <1>1, FimInitInv, FimNextInv, PTL DEF FimSpec, DueFinds
=============================================================================
