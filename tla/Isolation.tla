----------------------------- MODULE Isolation -----------------------------
(***************************************************************************)
(* Host isolation: the sensor asks a privileged helper over a socket       *)
(* (isolation.cpp, local_executor::isolation) and the helper changes the   *)
(* kernel's ruleset and records what it did (isolation_helper_main.cpp).   *)
(* The helper can die at any step, the client can give up waiting, the     *)
(* host can reboot (its ruleset is gone, its files stay) or lose power     *)
(* (what was not written back is gone too: save_state() does not sync).    *)
(***************************************************************************)
EXTENDS Integers, Sequences, FiniteSets

CONSTANT HostFaults    \* bounds: [crash, reboot, power, fail, ask]

ASSUME IsolationAssumption == \A f \in DOMAIN HostFaults : HostFaults[f] \in Nat

Opcodes == {"isolate", "release"}

VARIABLES
    ruleset,     \* the kernel: is the host isolated?
    saved_state,  \* the state file as written: does it say "isolated"?
    disk_file,   \* ... as the disk holds it
    helper,      \* where the helper is: "down", "idle", "asked", "changed", "truncated"
    serving,     \* the opcode it serves
    outcome,     \* what the executor reports of the last request, or "none", "waiting"
    host_left,   \* what remains of the faults
    \* History.
    pledged,     \* the last opcode answered with success, until another one reaches the helper
    record_lost  \* the state file was truncated and not written, or lost with the power

isolationVars == <<ruleset, saved_state, disk_file, helper, serving, outcome, host_left, pledged,
                   record_lost>>

Can(f) == host_left[f] > 0 /\ host_left' = [host_left EXCEPT ![f] = @ - 1]
Means(op) == op = "isolate"
\* The answer, if the client still waits for one.
Answer(status) == outcome' = IF outcome = "waiting" THEN status ELSE outcome
\* Whatever stops save_state() now leaves the state file empty.
Torn == helper = "truncated"
-----------------------------------------------------------------------------
(* The helper.                                                             *)

\* Mutant: the helper starts serving without putting back what it recorded.
HelperStartsBare(ok) ==
    /\ helper = "down" /\ helper' = "idle"
    /\ UNCHANGED <<ruleset, saved_state, disk_file, serving, outcome, host_left, pledged, record_lost>>

\* main(): the recorded state is put back, or the helper does not serve.
HelperStarts(ok) ==
    /\ helper = "down" /\ (ok \/ (saved_state /\ host_left.fail > 0))
    /\ ruleset' = (ruleset \/ (saved_state /\ ok))
    /\ helper' = IF ok THEN "idle" ELSE "down"
    /\ host_left' = IF ok THEN host_left ELSE [host_left EXCEPT !.fail = @ - 1]
    /\ UNCHANGED <<saved_state, disk_file, serving, outcome, pledged, record_lost>>

\* apply_isolation_ruleset() or release_isolation_ruleset(): one transaction.
ChangeRuleset ==
    /\ helper = "asked" /\ ruleset' = Means(serving) /\ helper' = "changed"
    /\ UNCHANGED <<saved_state, disk_file, serving, outcome, host_left, pledged, record_lost>>
ChangeFails ==
    /\ helper = "asked" /\ Can("fail") /\ helper' = "idle" /\ Answer("refused")
    /\ UNCHANGED <<ruleset, saved_state, disk_file, serving, pledged, record_lost>>

\* save_state(): the file is truncated, then written.
Truncate ==
    /\ helper = "changed" /\ helper' = "truncated" /\ saved_state' = FALSE
    /\ UNCHANGED <<ruleset, disk_file, serving, outcome, host_left, pledged, record_lost>>
WriteState ==
    /\ helper = "truncated" /\ helper' = "idle" /\ saved_state' = Means(serving)
    /\ record_lost' = FALSE /\ Answer("accepted")
    /\ pledged' = IF outcome = "waiting" THEN serving ELSE pledged
    /\ UNCHANGED <<ruleset, disk_file, serving, host_left>>
SaveFails ==
    /\ helper \in {"changed", "truncated"} /\ Can("fail") /\ helper' = "idle" /\ Answer("refused")
    /\ record_lost' = (record_lost \/ Torn)
    /\ UNCHANGED <<ruleset, saved_state, disk_file, serving, pledged>>
-----------------------------------------------------------------------------
(* The client: exchange_isolation_request(), one request at a time.        *)

Ask(op) ==
    /\ outcome # "waiting" /\ Can("ask")
    /\ \/ helper = "idle" /\ helper' = "asked" /\ serving' = op /\ outcome' = "waiting"
          /\ pledged' = IF pledged = op THEN op ELSE "none"
       \/ helper = "down" /\ outcome' = "unreachable" /\ UNCHANGED <<helper, serving, pledged>>
    /\ UNCHANGED <<ruleset, saved_state, disk_file, record_lost>>

\* The receive times out, or the helper died and the connection with it.
GiveUp ==
    /\ outcome = "waiting" /\ outcome' = "no_answer"
    /\ UNCHANGED <<ruleset, saved_state, disk_file, helper, serving, host_left, pledged, record_lost>>
-----------------------------------------------------------------------------
(* The host.                                                               *)

WriteBack ==
    /\ disk_file # saved_state /\ disk_file' = saved_state
    /\ UNCHANGED <<ruleset, saved_state, helper, serving, outcome, host_left, pledged, record_lost>>
HelperDies ==
    /\ helper # "down" /\ Can("crash") /\ helper' = "down"
    /\ record_lost' = (record_lost \/ Torn)
    /\ UNCHANGED <<ruleset, saved_state, disk_file, serving, outcome, pledged>>
Reboot ==
    /\ Can("reboot") /\ helper' = "down" /\ ruleset' = FALSE /\ disk_file' = saved_state
    /\ Answer("no_answer") /\ record_lost' = (record_lost \/ Torn)
    /\ UNCHANGED <<saved_state, serving, pledged>>
PowerLoss ==
    /\ Can("power") /\ helper' = "down" /\ ruleset' = FALSE /\ saved_state' = disk_file
    /\ Answer("no_answer") /\ record_lost' = (record_lost \/ Torn \/ disk_file # saved_state)
    /\ UNCHANGED <<disk_file, serving, pledged>>

IsolationInit ==
    /\ ruleset = FALSE /\ saved_state = FALSE /\ disk_file = FALSE /\ helper = "down"
    /\ serving = "release" /\ outcome = "none" /\ host_left = HostFaults /\ pledged = "none"
    /\ record_lost = FALSE

IsolationNext ==
    \/ \E ok \in BOOLEAN : HelperStarts(ok)
    \/ \E op \in Opcodes : Ask(op)
    \/ ChangeRuleset \/ ChangeFails \/ Truncate \/ WriteState \/ SaveFails \/ GiveUp
    \/ WriteBack \/ HelperDies \/ Reboot \/ PowerLoss
IsolationSpec == IsolationInit /\ [][IsolationNext]_isolationVars
-----------------------------------------------------------------------------
\* "succeeded" stays true until the opposite is asked: whatever crashed, failed,
\* rebooted or was asked again since, a helper that serves is on a host in the
\* state the answer named - "a crash never silently un-isolates a host" (ADR 004).
\* Unless the record was lost: save_state() stopped between truncating the file and
\* writing it, or power was lost before the kernel wrote it back.
AnswerStaysTrue ==
    pledged # "none" /\ helper = "idle" /\ ~record_lost => ruleset = Means(pledged)
=============================================================================
