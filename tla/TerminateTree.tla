--------------------------- MODULE TerminateTree ---------------------------
(***************************************************************************)
(* Killing a process with all its descendants (respond_terminate_tree of   *)
(* response.cpp): the responder takes a pidfd on the named process, stops  *)
(* it, and scans /proc for descendants to stop until a scan finds no new   *)
(* one; then it kills them all, or lets them all go.  Meanwhile the host   *)
(* forks, exits, reaps and gives PIDs to new processes.                    *)
(*                                                                         *)
(* A process instance is <<pid, start>>; a pidfd is the instance it was    *)
(* taken on.  A signal takes effect when it is sent, a killed process dies *)
(* some time later.  A scan reads one PID at a time.                       *)
(***************************************************************************)
EXTENDS Integers, FiniteSets

CONSTANTS
    LastPid,         \* PIDs are 1 .. LastPid; 0 is the parent of orphans
    Target,          \* the instance the caller names
    Shielded,        \* instances protected_reason() names
    TreeHosts,       \* what may run at the start
    TreeLimit,       \* response_options::maximum_tree_size
    MaximumRounds,   \* maximum_rounds (8)
    TreeBudgets      \* bound: a set of [fork, exit]

TreePids == 1 .. LastPid
NoTask == [start |-> 0, parent |-> 0, run |-> "none"]
Unread == [start |-> 0, parent |-> 0, parent_start |-> 0]

ASSUME TreeAssumption ==
    /\ LastPid \in Nat \ {0} /\ TreeLimit \in Nat \ {0} /\ MaximumRounds \in Nat \ {0}
    /\ TreeHosts \subseteq [TreePids -> [start : Nat, parent : 0 .. LastPid, run : {"runs", "none"}]]

VARIABLES
    task,        \* the host: pid -> who has it, its parent, "runs", "stopped", "dying", "zombie"
    births,      \* the next start time
    tree_left,   \* what remains of the budget
    step,        \* where the responder is
    round,       \* 0: before anything is stopped
    at,          \* the PID the scan reads next
    seen,        \* table: pid -> what the scan read
    subject,     \* the instance a handle is being opened for
    handle,      \* its pidfd
    held,        \* root_handle and held
    fresh,       \* members of this round still to be handled
    known,       \* known
    verdict,     \* outcome.status
    \* History.
    family,      \* instances below the target by live links, and the target
    kin,         \* the target, and who descends by birth from it or a later holder of its PID
    struck,      \* live instances that were sent SIGSTOP or SIGKILL
    killed,      \* those that were sent SIGKILL
    met,         \* instances handled as members
    mixed,       \* a scan joined a child to another instance of its parent's PID
    missed       \* a new member had the PID of a known one

scanVars == <<at, seen>>
responder == <<step, round, scanVars, subject, handle, held, fresh, known, verdict>>
treeHistory == <<family, kin, struck, killed, met, mixed, missed>>
killVars == <<task, births, tree_left, responder, treeHistory>>

Holder(p) == <<p, task[p].start>>
Alive(i) == task[i[1]].start = i[2] /\ task[i[1]].run \in {"runs", "stopped"}

\* descendants_of(): who hangs below a PID in a table of parents.
DescendantsIn(table, pid) ==
    LET reach[n \in 0 .. LastPid] ==
            IF n = 0 THEN {pid}
            ELSE reach[n - 1] \cup {q \in TreePids : table[q].start # 0 /\ table[q].parent \in reach[n - 1]}
    IN  reach[LastPid] \ {pid}
-----------------------------------------------------------------------------
(* The host.                                                               *)

HostForked(p, q) ==
    /\ tree_left.fork > 0 /\ tree_left' = [tree_left EXCEPT !.fork = @ - 1]
    /\ task[p].run = "runs" /\ task[q] = NoTask
    /\ task' = [task EXCEPT ![q] = [start |-> births, parent |-> p, run |-> "runs"]]
    /\ births' = births + 1
    /\ family' = IF Holder(p) \in family THEN family \cup {<<q, births>>} ELSE family
    /\ kin' = IF Holder(p) \in kin \/ p = Target[1] THEN kin \cup {<<q, births>>} ELSE kin
    /\ UNCHANGED <<responder, struck, killed, met, mixed, missed>>

\* A process ends: its children are orphans.
Ended(p) ==
    [q \in TreePids |->
        IF q = p THEN [task[p] EXCEPT !.run = "zombie"]
        ELSE IF task[q].parent = p THEN [task[q] EXCEPT !.parent = 0] ELSE task[q]]

\* ... by itself or by another's signal, and what was below it is no longer below
\* the target; or killed here.
HostExited(p) ==
    /\ tree_left.exit > 0 /\ tree_left' = [tree_left EXCEPT !.exit = @ - 1]
    /\ task[p].run \in {"runs", "stopped"} /\ task' = Ended(p)
    /\ family' = family \ {Holder(q) : q \in DescendantsIn(task, p)}
    /\ UNCHANGED <<births, responder, kin, struck, killed, met, mixed, missed>>
HostKilled(p) ==
    /\ task[p].run = "dying" /\ task' = Ended(p)
    /\ UNCHANGED <<births, tree_left, responder, treeHistory>>

\* The parent waits for it, or never wanted to know.
HostReaped(p) ==
    /\ task[p].run = "zombie"
    /\ task' = [task EXCEPT ![p] = NoTask]
    /\ UNCHANGED <<births, tree_left, responder, treeHistory>>
-----------------------------------------------------------------------------
(* Signals through pidfds: they reach the instance or nobody.              *)

Signalled(handles, from, to) ==
    [p \in TreePids |-> IF Holder(p) \in handles /\ task[p].run \in from
                        THEN [task[p] EXCEPT !.run = to] ELSE task[p]]
Strike(handles) == struck' = struck \cup {i \in handles : Alive(i)}

\* Mutant: only the root is continued.
ReleaseRootOnly(status) ==
    /\ task' = Signalled({Target}, {"stopped"}, "runs")
    /\ verdict' = status /\ step' = "done"

\* resume_all() and a refusal; before the root is stopped there is nothing to resume.
Release(status) ==
    /\ task' = Signalled(held, {"stopped"}, "runs")
    /\ verdict' = status /\ step' = "done"
-----------------------------------------------------------------------------
(* process_handle::open(): first the reference, then the start time.       *)

CheckTarget ==
    /\ step = "begin"
    /\ IF Holder(Target[1]) \in Shielded
       THEN step' = "done" /\ verdict' = "refused_protected"
       ELSE step' = "open" /\ verdict' = verdict
    /\ UNCHANGED <<task, births, tree_left, round, scanVars, subject, handle, held, fresh, known, treeHistory>>

\* The root is refused, a member is left aside ("not ours to signal").
NotOpened ==
    /\ step' = IF round = 0 THEN "done" ELSE "members"
    /\ verdict' = IF round = 0 THEN "refused_mismatch" ELSE verdict
    /\ UNCHANGED <<task, handle, held, scanVars, struck>>

TakeReference ==
    /\ step = "open"
    /\ IF task[subject[1]] = NoTask THEN NotOpened
       ELSE /\ handle' = Holder(subject[1]) /\ step' = "verify"
            /\ UNCHANGED <<task, held, scanVars, verdict, struck>>
    /\ UNCHANGED <<births, tree_left, round, subject, fresh, known, family, kin, killed, met, mixed, missed>>

\* The start time is right.  A member is stopped, the root not yet.
Opened ==
    /\ held' = held \cup {handle}
    /\ IF round = 0
       THEN step' = "scan" /\ UNCHANGED <<task, struck>>
       ELSE /\ step' = "members"
            /\ task' = Signalled({handle}, {"runs"}, "stopped") /\ Strike({handle})
    /\ UNCHANGED <<handle, scanVars, verdict>>

\* Mutant: whoever has the PID is taken for the one that was named.
VerifyNothing ==
    /\ step = "verify" /\ Opened
    /\ UNCHANGED <<births, tree_left, round, subject, fresh, known, family, kin, killed, met, mixed, missed>>

Verify ==
    /\ step = "verify"
    /\ IF task[subject[1]].start = subject[2] THEN Opened ELSE NotOpened
    /\ UNCHANGED <<births, tree_left, round, subject, fresh, known, family, kin, killed, met, mixed, missed>>
-----------------------------------------------------------------------------
(* scan_processes(), and what follows from a scan.                         *)

Link(p) == [start |-> task[p].start, parent |-> task[p].parent,
            parent_start |-> IF task[p].parent = 0 THEN 0 ELSE task[task[p].parent].start]

\* The child read at q hangs, for descendants_of(), below another instance than its
\* parent: one that had the PID when the scan was there.
Misjoined(table, q) ==
    /\ table[q].parent \notin {0, Target[1]}
    /\ table[table[q].parent].start \notin {0, table[q].parent_start}

ScanPid ==
    /\ step = "scan"
    /\ seen' = [seen EXCEPT ![at] = Link(at)]
    /\ at' = IF at = LastPid THEN 1 ELSE at + 1
    /\ step' = IF at = LastPid THEN "scanned" ELSE "scan"
    /\ mixed' = (mixed \/ /\ at = LastPid
                          /\ \E q \in TreePids : Misjoined(seen', q))
    /\ UNCHANGED <<task, births, tree_left, round, subject, handle, held, fresh, known, verdict,
                   family, kin, struck, killed, met, missed>>

\* /proc is larger than maximum_scan_entries.
ScanFails ==
    /\ step = "scan" /\ Release("refused_limit")
    /\ UNCHANGED <<births, tree_left, round, scanVars, subject, handle, held, fresh, known, treeHistory>>

FoundBelow == DescendantsIn(seen, Target[1])

\* Nothing is stopped yet: the whole operation is refused, or only rehearsed.
Refuse(status) ==
    /\ step = "scanned" /\ round = 0
    /\ \/ status = "refused_limit" /\ Cardinality(FoundBelow) + 1 > TreeLimit
       \/ /\ status = "refused_protected" /\ Cardinality(FoundBelow) < TreeLimit
          /\ \E p \in FoundBelow : Holder(p) \in Shielded
       \/ status = "dry_run" /\ Cardinality(FoundBelow) < TreeLimit /\ \A p \in FoundBelow : Holder(p) \notin Shielded
    /\ verdict' = status /\ step' = "done"
    /\ UNCHANGED <<task, births, tree_left, round, scanVars, subject, handle, held, fresh, known, treeHistory>>

StopRoot ==
    /\ step = "scanned" /\ round = 0 /\ Cardinality(FoundBelow) < TreeLimit
    /\ \A p \in FoundBelow : Holder(p) \notin Shielded
    /\ IF \E p \in TreePids : Holder(p) \in held
       THEN step' = "scan" /\ round' = 1 /\ verdict' = verdict
       ELSE step' = "done" /\ round' = 0 /\ verdict' = "already_gone"
    /\ task' = Signalled(held, {"runs"}, "stopped") /\ Strike(held)
    /\ known' = {Target[1]}
    /\ UNCHANGED <<births, tree_left, scanVars, subject, handle, held, fresh, family, kin, killed, met,
                   mixed, missed>>

\* Mutant: the members found are killed without looking again.
ReadRoundOnce ==
    /\ step = "scanned" /\ round > 0
    /\ fresh' = FoundBelow \ known
    /\ step' = IF round > 1 \/ fresh' = {} THEN "kill" ELSE "members"
    /\ missed' = (missed \/ \E p \in FoundBelow \cap known : <<p, seen[p].start>> \notin met)
    /\ UNCHANGED <<task, births, tree_left, round, scanVars, subject, handle, held, known, verdict,
                   family, kin, struck, killed, met, mixed>>

ReadRound ==
    /\ step = "scanned" /\ round > 0
    /\ fresh' = FoundBelow \ known
    /\ step' = IF fresh' = {} THEN "kill" ELSE "members"
    /\ missed' = (missed \/ \E p \in FoundBelow \cap known : <<p, seen[p].start>> \notin met)
    /\ UNCHANGED <<task, births, tree_left, round, scanVars, subject, handle, held, known, verdict,
                   family, kin, struck, killed, met, mixed>>

\* A new member: too many or a protected one ends it all.
TakeMember(p) ==
    /\ step = "members" /\ p \in fresh
    /\ fresh' = fresh \ {p} /\ known' = known \cup {p}
    /\ subject' = <<p, seen[p].start>> /\ met' = met \cup {subject'}
    /\ IF Cardinality(known') > TreeLimit THEN Release("refused_limit")
       ELSE IF Holder(p) \in Shielded THEN Release("refused_protected")
       ELSE step' = "open" /\ UNCHANGED <<task, verdict>>
    /\ UNCHANGED <<births, tree_left, round, scanVars, handle, held, family, kin, struck, killed, mixed, missed>>

RoundEnds ==
    /\ step = "members" /\ fresh = {}
    /\ IF round < MaximumRounds
       THEN step' = "scan" /\ round' = round + 1 /\ UNCHANGED <<task, verdict>>
       ELSE Release("refused_limit") /\ round' = round
    /\ UNCHANGED <<births, tree_left, scanVars, subject, handle, held, fresh, known, treeHistory>>

\* One step, as everyone held is stopped: the order of the signals makes no difference.
KillTree ==
    /\ step = "kill" /\ step' = "wait"
    /\ task' = Signalled(held, {"runs", "stopped"}, "dying")
    /\ Strike(held) /\ killed' = killed \cup {i \in held : Alive(i)}
    /\ UNCHANGED <<births, tree_left, round, scanVars, subject, handle, held, fresh, known, verdict,
                   family, kin, met, mixed, missed>>

\* wait_exit() of everyone, which gives up after a while.
AwaitExit ==
    /\ step = "wait" /\ step' = "done"
    /\ verdict' = IF \E p \in TreePids : Holder(p) \in held /\ task[p].run = "dying"
                  THEN "signalled" ELSE "terminated"
    /\ UNCHANGED <<task, births, tree_left, round, scanVars, subject, handle, held, fresh, known, treeHistory>>
-----------------------------------------------------------------------------
TreeInit ==
    /\ task \in TreeHosts /\ births = LastPid + 2 /\ tree_left \in TreeBudgets
    /\ step = "begin" /\ round = 0 /\ at = 1 /\ seen = [p \in TreePids |-> Unread]
    /\ subject = Target /\ handle = Target /\ held = {} /\ fresh = {} /\ known = {} /\ verdict = "none"
    /\ family = {Target} \cup {Holder(p) : p \in DescendantsIn(task, Target[1])} /\ kin = family
    /\ struck = {} /\ killed = {} /\ met = {} /\ mixed = FALSE /\ missed = FALSE

TreeHostMoves ==
    \E p \in TreePids :
        (\E q \in TreePids : HostForked(p, q)) \/ HostExited(p) \/ HostKilled(p) \/ HostReaped(p)
Responds ==
    \/ CheckTarget \/ TakeReference \/ Verify \/ ScanPid \/ ScanFails
    \/ (\E status \in {"refused_limit", "refused_protected", "dry_run"} : Refuse(status))
    \/ StopRoot \/ ReadRound \/ (\E p \in TreePids : TakeMember(p)) \/ RoundEnds \/ KillTree \/ AwaitExit

TreeNext == TreeHostMoves \/ Responds
TreeSpec == TreeInit /\ [][TreeNext]_killVars
-----------------------------------------------------------------------------
\* Whatever the responder answers, it leaves nobody stopped; and unless it says
\* that it signalled, nobody was killed ("it was released unharmed").
ReleasedUnharmed ==
    step = "done" =>
        /\ \A p \in TreePids : task[p].run # "stopped"
        /\ verdict \notin {"terminated", "signalled"} => killed = {}

\* When it says so, it has killed everyone below the target ("and every
\* descendant", response.hpp), those forked while it collected the tree
\* included.  Except where a new member had the PID of one handled before.
NobodyLeftBehind ==
    verdict \in {"terminated", "signalled"} /\ ~missed =>
        \A p \in TreePids : Holder(p) \in family => task[p].run \in {"dying", "zombie"}

\* It signals nobody who does not descend from the target, however PIDs are given
\* again between its looks and its signals.  With two exceptions, both the code's own:
\* a PID given again while one scan is under way (mixed); and the target's own PID, for
\* descendants_of() takes whoever has it for the target: the children of a later
\* holder are signalled too, the holder never.
OnlyTheTree == ~mixed => struck \subseteq kin
=============================================================================
