---------------------------- MODULE FimMonitor ----------------------------
(***************************************************************************)
(* File integrity monitoring (sensor/fim.cpp) as the pipeline drives it:   *)
(* a baseline in memory and on disk, paths named by file events and        *)
(* described again after a debounce, periodic rescans that may not reach   *)
(* everything, and the fim.changed records of what differed.  The baseline *)
(* is adopted and stored first and the records are written afterwards; the *)
(* sensor can die in between.                                              *)
(*                                                                         *)
(* A description (kind, hash, mode, owner, target) is one value; 0 stands  *)
(* for a path that is not there.  A debounce ends at any time.             *)
(***************************************************************************)
EXTENDS Integers, FiniteSets

CONSTANTS
    Paths,          \* persistence paths
    Below,          \* path -> the paths below it, for a directory
    Descriptions,   \* what describe() can say of a path that is there
    MaximumDirty,   \* fim_options::maximum_dirty
    FimBudgets      \* bounds: a set of [edit, crash, append, store, damage]

ASSUME FimAssumption ==
    /\ Below \in [Paths -> SUBSET Paths]
    /\ \A p, q \in Paths : q \in Below[p] => p # q /\ Below[q] \subseteq Below[p]
    /\ 0 \notin Descriptions /\ MaximumDirty \in Nat

VARIABLES
    files,       \* the host: path -> description or 0
    named,       \* paths of file events the pipeline has not handled
    fim_up,      \* the sensor runs
    baseline,    \* baseline_
    file_is,     \* the baseline file: "none", "good" or "bad" (load_baseline rejects it)
    stored,      \* what a good one holds
    dirty,       \* dirty_
    changes,     \* found, adopted and not yet written: [path, after]
    fim_left,    \* what remains of the budget
    \* History.
    recorded,    \* path -> what the records say of it
    untold,      \* paths whose change a failure or a crash kept out of the records
    rescanned    \* a rescan has seen every path since the last edit

fimVars == <<files, named, fim_up, baseline, file_is, stored, dirty, changes, fim_left,
             recorded, untold, rescanned>>

May(what) == fim_left[what] > 0
Spends(what) == fim_left' = [fim_left EXCEPT ![what] = @ - 1]
Changed == {c.path : c \in changes}
-----------------------------------------------------------------------------
(* The host: a path changes, with or without an event the sensor sees.  A  *)
(* directory takes what is below it along, without events of its own.      *)

EditPath(p, d, seen) ==
    /\ files[p] # d /\ May("edit") /\ Spends("edit")
    /\ \A q \in Paths : p \in Below[q] => files[q] # 0
    /\ files' = [q \in Paths |-> IF q = p THEN d ELSE IF d = 0 /\ q \in Below[p] THEN 0 ELSE files[q]]
    /\ named' = IF seen /\ fim_up THEN named \cup {p} ELSE named
    /\ rescanned' = FALSE
    /\ UNCHANGED <<fim_up, baseline, file_is, stored, dirty, changes, recorded, untold>>
-----------------------------------------------------------------------------
(* fim_monitor.  Nothing is looked for while found changes are written.    *)

\* note(): a full set drops the path; "the periodic rescan still finds it".
Note(p) ==
    /\ fim_up /\ changes = {} /\ p \in named /\ named' = named \ {p}
    /\ dirty' = IF p \in dirty \/ Cardinality(dirty) < MaximumDirty THEN dirty \cup {p} ELSE dirty
    /\ UNCHANGED <<files, fim_up, baseline, file_is, stored, changes, fim_left, recorded, untold, rescanned>>

\* store(): a new file takes the place of the old one, whatever that was, or does not.
StoreBaseline(current) ==
    \/ stored' = current /\ file_is' = "good" /\ UNCHANGED fim_left
    \/ May("store") /\ Spends("store") /\ UNCHANGED <<stored, file_is>>

\* The state `current` replaces `base`, and is stored if anything differs.
Adopt(base, current) ==
    LET diff == {p \in Paths : base[p] # current[p]}
    IN  /\ baseline' = current
        /\ changes' = {[path |-> p, after |-> current[p]] : p \in diff}
        /\ IF diff = {} THEN UNCHANGED <<stored, file_is, fim_left>> ELSE StoreBaseline(current)

\* Mutant: what is below a directory that vanished is not looked at.
TakeDueFlat(due) ==
    /\ fim_up /\ changes = {} /\ due \subseteq dirty /\ due # {} /\ dirty' = dirty \ due
    /\ Adopt(baseline, [p \in Paths |-> IF p \in due THEN files[p] ELSE baseline[p]])
    /\ UNCHANGED <<files, named, fim_up, recorded, untold, rescanned>>

\* take_due(): the due paths are described again, and what the baseline holds
\* below those that are gone.
TakeDue(due) ==
    LET below == {q \in Paths : baseline[q] # 0 /\ \E p \in due : files[p] = 0 /\ q \in Below[p]}
    IN  /\ fim_up /\ changes = {} /\ due \subseteq dirty /\ due # {} /\ dirty' = dirty \ due
        /\ Adopt(baseline, [p \in Paths |-> IF p \in due \cup below THEN files[p] ELSE baseline[p]])
        /\ UNCHANGED <<files, named, fim_up, recorded, untold, rescanned>>

\* Mutant: a path the scan did not reach counts as gone.
ScannedForgets(base, unseen) == [p \in Paths |-> IF p \in unseen THEN 0 ELSE files[p]]

\* What a scan that did not reach `unseen` makes of the baseline `base`.
ScannedPaths(base, unseen) == [p \in Paths |-> IF p \in unseen THEN base[p] ELSE files[p]]

Rescan(unseen) ==
    /\ fim_up /\ changes = {}
    /\ Adopt(baseline, ScannedPaths(baseline, unseen))
    /\ rescanned' = (unseen = {})
    /\ UNCHANGED <<files, named, fim_up, dirty, recorded, untold>>

\* Mutant: a stored baseline is taken as it is, without a scan.
StartUnscanned(unseen) ==
    /\ ~fim_up /\ fim_up' = TRUE /\ file_is = "good" /\ Adopt(stored, stored)
    /\ rescanned' = (unseen = {})
    /\ UNCHANGED <<files, named, dirty, recorded, untold>>

\* start() with a stored baseline: it is loaded and rescanned.
StartLoaded(unseen) ==
    /\ ~fim_up /\ fim_up' = TRUE /\ file_is = "good"
    /\ Adopt(stored, ScannedPaths(stored, unseen))
    /\ rescanned' = (unseen = {})
    /\ UNCHANGED <<files, named, dirty, recorded, untold>>

\* start() without one: what the scan reaches is the baseline, and a record says so.
StartFresh(unseen) ==
    LET current == [p \in Paths |-> IF p \in unseen THEN 0 ELSE files[p]]
    IN  /\ ~fim_up /\ fim_up' = TRUE /\ file_is # "good"
        /\ baseline' = current /\ recorded' = current /\ rescanned' = (unseen = {})
        /\ \/ StoreBaseline(current) /\ untold' = {}
           \/ /\ May("append") /\ Spends("append")
              /\ stored' = current /\ file_is' = "good" /\ untold' = Paths
        /\ UNCHANGED <<files, named, dirty, changes>>

\* emit_fim_changes(): each change is appended, or refused and only counted.
WriteChange(c) ==
    /\ fim_up /\ c \in changes /\ changes' = changes \ {c}
    /\ recorded' = [recorded EXCEPT ![c.path] = c.after] /\ untold' = untold \ {c.path}
    /\ UNCHANGED <<files, named, fim_up, baseline, file_is, stored, dirty, fim_left, rescanned>>
RefuseChange(c) ==
    /\ fim_up /\ c \in changes /\ changes' = changes \ {c} /\ May("append") /\ Spends("append")
    /\ untold' = untold \cup {c.path}
    /\ UNCHANGED <<files, named, fim_up, baseline, file_is, stored, dirty, recorded, rescanned>>

\* The sensor dies: the changes not yet written, and whatever the file does not
\* hold because a store failed, are gone.
FimCrash ==
    /\ fim_up /\ fim_up' = FALSE /\ May("crash") /\ Spends("crash")
    /\ untold' = untold \cup Changed \cup {p \in Paths : stored[p] # baseline[p]}
    /\ named' = {} /\ dirty' = {} /\ changes' = {}
    /\ UNCHANGED <<files, baseline, file_is, stored, recorded, rescanned>>
DamageFile ==
    /\ ~fim_up /\ file_is = "good" /\ May("damage") /\ Spends("damage")
    /\ file_is' = "bad"
    /\ UNCHANGED <<files, named, fim_up, baseline, stored, dirty, changes, recorded, untold, rescanned>>

FimInit ==
    /\ files \in [Paths -> {0} \cup Descriptions]
    /\ \A p, q \in Paths : q \in Below[p] /\ files[p] = 0 => files[q] = 0
    /\ named = {} /\ fim_up = FALSE /\ file_is = "none" /\ dirty = {} /\ changes = {}
    /\ baseline = [p \in Paths |-> 0] /\ stored = baseline
    /\ recorded = baseline /\ untold = {} /\ rescanned = FALSE
    /\ fim_left \in FimBudgets

FimNext ==
    \/ \E p \in Paths, d \in {0} \cup Descriptions, seen \in BOOLEAN : EditPath(p, d, seen)
    \/ \E p \in Paths : Note(p)
    \/ \E due \in SUBSET Paths : TakeDue(due)
    \/ \E unseen \in SUBSET Paths : Rescan(unseen) \/ StartLoaded(unseen) \/ StartFresh(unseen)
    \/ FimCrash \/ DamageFile
    \/ \E c \in changes : WriteChange(c) \/ RefuseChange(c)
FimSpec == FimInit /\ [][FimNext]_fimVars
-----------------------------------------------------------------------------
\* The records follow the baseline: whatever was adopted is in them, being written, or
\* known to have been kept out by a failed write or a crash.
BaselineTold ==
    fim_up => \A p \in Paths : recorded[p] = baseline[p] \/ p \in Changed \cup untold

\* A rescan that reaches everything leaves nothing untold, whatever events were
\* lost, dropped or late: "the periodic rescan still finds it" (fim.cpp).
RescanFinds ==
    fim_up /\ rescanned => \A p \in Paths : recorded[p] = files[p] \/ p \in Changed \cup untold

\* No change is reported that did not happen: an item a truncated scan, or one
\* with holes, did not reach is not reported as removed.
ChangesReal == [][\A c \in changes' \ changes : c.after = files[c.path]]_fimVars

\* An event that is handled finds the whole change: what was below a directory
\* that went with it is found too.
DueFinds == [][\A p \in dirty \ dirty' : fim_up' => baseline'[p] = files[p]
                   /\ (files[p] = 0 => \A q \in Below[p] : baseline'[q] = 0)]_fimVars
=============================================================================
