------------------------------ MODULE MCLocal ------------------------------
(* Small instances of the components that watch the host and keep to       *)
(* themselves: policy, entity graph, isolation helper, file integrity,     *)
(* self integrity and the killing of process trees.  They share no state,  *)
(* so a behaviour is one of any one of them (`component`); the others stay *)
(* where they start.                                                       *)
EXTENDS PolicyStore, EntityGraph, Isolation, FimMonitor, Integrity, TerminateTree

VARIABLE component

localVars == <<policyVars, treeVars, isolationVars, fimVars, integrityVars, killVars, component>>
AnyOf(set) == CHOOSE x \in set : TRUE

\* Policy: the same version signed by two keys and with two bodies, and a newer one.
Bundle(v, b, k, i, e) == [version |-> v, body |-> b, key |-> k, issued |-> i, expires |-> e]
SomeBundles == {Bundle(1, "x", "A", 0, 9), Bundle(1, "x", "B", 0, 9), Bundle(1, "y", "A", 0, 9),
                Bundle(2, "x", "B", 2, 4)}
PolicyEdits(f, k, s, c, x) == [file |-> f, keys |-> k, state |-> s, crash |-> c, start |-> x]
SomePolicyEdits == {PolicyEdits(2, 0, 1, 0, 1), PolicyEdits(1, 2, 0, 0, 1), PolicyEdits(1, 0, 1, 1, 1)}

\* Entity graph: two forks, or one and a lost record, or an exec, another event and a
\* lost record, or scans that cannot read /proc.
Host5(f, e, t, l, h) == [fork |-> f, exec |-> e, touch |-> t, lose |-> l, hide |-> h]
ReadableHosts == {Host5(2, 0, 0, 0, 0), Host5(1, 0, 0, 1, 0), Host5(0, 1, 1, 1, 0)}
SomeHosts == ReadableHosts \cup {Host5(0, 0, 0, 0, 2)}

\* Isolation: three orders, with deaths, reboots, a power loss and failures.
SomeFaults == [crash |-> 2, reboot |-> 2, power |-> 1, fail |-> 2, ask |-> 3]

\* File integrity: a directory and a file below it; two edits and what may fail.
Tree == [p \in {"d", "f"} |-> IF p = "d" THEN {"f"} ELSE {}]
FimTrouble(e, c, a, s, d) == [edit |-> e, crash |-> c, append |-> a, store |-> s, damage |-> d]
SomeFim == {FimTrouble(2, 1, 1, 0, 0), FimTrouble(2, 1, 0, 1, 0), FimTrouble(2, 2, 0, 0, 1)}

\* Self integrity: edits of the binary, of the manifest, and a restart.
Edits4(f, m, r, s) == [file |-> f, manifest |-> m, restart |-> r, save |-> s]
SomeEdits == {Edits4(2, 0, 0, 0), Edits4(1, 0, 1, 0), Edits4(1, 1, 0, 0), Edits4(0, 2, 1, 1)}

\* Process trees: the target 1 with the child 2, a stranger 3 and a free PID; the
\* child may be one that is protected.
Task(s, p) == [start |-> s, parent |-> p, run |-> "runs"]
TreeHost(child) ==
    [p \in TreePids |-> IF p = 2 THEN Task(child, 1) ELSE IF p < 4 THEN Task(1, 0) ELSE NoTask]
SomeTreeHosts == {TreeHost(2), TreeHost(3)}
SomeTarget == <<1, 1>>
SomeShielded == {<<2, 3>>}
SomeTreeBudgets == {[fork |-> 2, exit |-> 1], [fork |-> 1, exit |-> 2]}

LocalInit ==
    /\ component \in {"policy", "graph", "isolation", "fim", "integrity", "tree"}
    /\ PolicyInit
    /\ component # "policy" => policy_file = AnyOf(Bundles) /\ key_file = {} /\ edits = AnyOf(EditBudgets)
    /\ GraphInit
    /\ component # "graph" => left = AnyOf(HostBudgets) /\ told = {} /\ (\A p \in Pids : proc[p] = None)
    /\ IsolationInit /\ FimInit
    /\ component # "fim" => fim_left = AnyOf(FimBudgets) /\ (\A p \in Paths : files[p] = 0)
    /\ IntegrityInit
    /\ component # "integrity" => edits_left = AnyOf(HostEdits) /\ bin.content = AnyOf(Builds)
    /\ TreeInit
    /\ component # "tree" => task = AnyOf(TreeHosts) /\ tree_left = AnyOf(TreeBudgets)

LocalNext ==
    /\ UNCHANGED component
    /\ \/ /\ component = "policy" /\ PolicyNext
          /\ UNCHANGED <<treeVars, isolationVars, fimVars, integrityVars, killVars>>
       \/ /\ component = "graph" /\ GraphNext
          /\ UNCHANGED <<policyVars, isolationVars, fimVars, integrityVars, killVars>>
       \/ /\ component = "isolation" /\ IsolationNext
          /\ UNCHANGED <<policyVars, treeVars, fimVars, integrityVars, killVars>>
       \/ /\ component = "fim" /\ FimNext
          /\ UNCHANGED <<policyVars, treeVars, isolationVars, integrityVars, killVars>>
       \/ /\ component = "integrity" /\ IntegrityNext
          /\ UNCHANGED <<policyVars, treeVars, isolationVars, fimVars, killVars>>
       \/ /\ component = "tree" /\ TreeNext
          /\ UNCHANGED <<policyVars, treeVars, isolationVars, fimVars, integrityVars>>
LocalSpec == LocalInit /\ [][LocalNext]_localVars
=============================================================================
