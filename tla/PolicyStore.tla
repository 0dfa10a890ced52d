---------------------------- MODULE PolicyStore ----------------------------
(***************************************************************************)
(* The signed local policy (policy_store of sensor/policy_bundle.cpp, with *)
(* sensor_pipeline::refresh_policy and its sweep).  Files that others edit *)
(* - the policy, the pinned keys, the record of the accepted version - are *)
(* looked at on a schedule by one thread; a process can end between any    *)
(* two looks.                                                              *)
(*                                                                         *)
(* A bundle is its version, its body, the key that signed it and the time  *)
(* it is valid for.  Junk stands for every file that is refused for what   *)
(* it holds: malformed, badly signed, or for another host.                 *)
(***************************************************************************)
EXTENDS Integers, FiniteSets

CONSTANTS
    Bundles,       \* [version, body, key, issued, expires]
    Keys,          \* policy signing keys
    CheckSeconds,  \* sensor_config::policy_check_seconds
    SameTick,      \* two writes of one second can leave the same timestamp
    Processes,     \* processes of the host
    MaxNow,        \* bound: the clock stops here
    EditBudgets    \* bound: how many edits of each kind there can be

EditKinds == {"file", "keys", "state", "crash", "start"}
NoPolicy == [version |-> 0]
Junk == [version |-> -1]
Missing == [version |-> -2]
Unreadable == {"unreadable"}
NoStamp == [time |-> -9, id |-> 0]

ASSUME PolicyAssumption ==
    /\ \A b \in Bundles : /\ b.version \in Nat \ {0}
                          /\ b.issued \in Int /\ b.expires \in Int
    /\ "unreadable" \notin Keys
    /\ CheckSeconds \in Nat \ {0} /\ SameTick \in BOOLEAN /\ MaxNow \in Nat
    /\ EditBudgets \subseteq [EditKinds -> Nat]

VARIABLES
    \* The host.
    policy_now,     \* unix time, in seconds
    policy_file,    \* what the policy file holds
    policy_stamp,   \* its identity: size, times and inode
    key_file,       \* the keys the key file pins, or Unreadable
    state_file,     \* the accepted version on disk: NoPolicy, Junk or a bundle
    \* The store, lost with the process.
    pinned,         \* keys_: the keys loaded last, or Unreadable before any
    saved,          \* saved_: NoPolicy, Junk (unreadable) or the bundle accepted
    policy,         \* active_
    decided_on,     \* last_file_digest_ with the refusals that stand for it
    seen_stamp,     \* the identity of the file last read
    swept,          \* swept_policy_: the version, 0 for none
    policy_expires, \* policy_expires_unix_
    last_policy,    \* last_policy_ns_ (-1: the process has not started)
    \* History and bounds.
    newest,         \* the newest bundle ever in force
    unrecorded,     \* the record of the accepted version was lost or not written
    passed_over,    \* the file in place was left aside and is not looked at again
    decided,        \* process -> the version that last decided on it; 0: none;
                    \* -1: it does not run
    edits           \* edits left, by kind

hostVars == <<policy_now, policy_file, policy_stamp, key_file, state_file>>
storeVars == <<pinned, saved, policy, decided_on, seen_stamp, swept, policy_expires,
               last_policy>>
policyVars == <<hostVars, storeVars, newest, unrecorded, passed_over, decided, edits>>

Edit(kind) == edits[kind] > 0 /\ edits' = [edits EXCEPT ![kind] = @ - 1]
InForce(b, now) == b # NoPolicy /\ now < b.expires   \* policy_store::active
SameContent(a, b) == a # NoPolicy /\ a.version = b.version /\ a.body = b.body
-----------------------------------------------------------------------------
(* policy_store::refresh and consider, then the rest of refresh_policy.    *)

KeysNow == IF key_file = Unreadable THEN pinned ELSE key_file

\* Only a key list that was read and no longer names the key revokes it.
Revoked == policy # NoPolicy /\ key_file # Unreadable /\ policy.key \notin KeysNow
Kept == IF Revoked THEN NoPolicy ELSE policy
Listed(keys) == keys \ Unreadable

\* Mutant: a changed key list is no reason to decide again.
KeysDoNotMatter == FALSE

KeysChanged == Listed(KeysNow) # Listed(pinned) /\ ~Revoked

\* The file is read if its identity changed, if it was written within the last
\* two seconds, or if the keys changed and the policy in force was not revoked.
Looks ==
    /\ policy_file # Missing
    /\ policy_stamp # seen_stamp \/ policy_stamp.time >= policy_now - 1 \/ KeysChanged

\* Content decided on before is not decided on again, unless the keys changed.
Judges == Looks /\ (decided_on # policy_file \/ KeysChanged)

\* Every check up to the version passes.
Valid(b) ==
    /\ b \in Bundles /\ KeysNow # Unreadable /\ b.key \in KeysNow
    /\ b.issued <= policy_now /\ policy_now < b.expires

\* Mutant: an older version is accepted.
AnyVersion(b) == TRUE

\* The version is above the accepted one, or the same with the same content.
NotRollback(b) ==
    saved \in {NoPolicy, Junk} \/ saved.version < b.version \/ SameContent(saved, b)

Loads == Judges /\ Valid(policy_file) /\ ~SameContent(Kept, policy_file) /\ NotRollback(policy_file)

\* "resumed" leaves the state file; anything else writes it, or fails to and
\* goes on.
Resumes == saved \notin {NoPolicy, Junk} /\ saved.version = policy_file.version
Records ==
    \/ /\ ~Loads \/ Resumes
       /\ UNCHANGED <<state_file, unrecorded, edits>>
    \/ /\ Loads /\ ~Resumes
       /\ state_file' = policy_file
       /\ UNCHANGED <<unrecorded, edits>>
    \/ /\ Loads /\ ~Resumes /\ Edit("state")
       /\ unrecorded' = TRUE
       /\ UNCHANGED state_file

\* A process that runs is decided on by version v.
DecidedBy(v) == [p \in Processes |-> IF decided[p] = -1 THEN -1 ELSE v]

\* Mutant: a policy that goes out of force still counts as swept.
SweepOnce(b) ==
    IF InForce(b, policy_now) /\ swept # b.version
    THEN swept' = b.version /\ decided' = DecidedBy(b.version)
    ELSE UNCHANGED <<swept, decided>>

\* A policy that comes into force decides on every running process.
Sweep(b) ==
    IF ~InForce(b, policy_now) THEN swept' = 0 /\ UNCHANGED decided
    ELSE IF swept = b.version THEN UNCHANGED <<swept, decided>>
    ELSE swept' = b.version /\ decided' = DecidedBy(b.version)

\* At start, every CheckSeconds, and when the policy in force expires.
Due ==
    \/ last_policy = -1 \/ policy_now - last_policy >= CheckSeconds
    \/ policy_expires # 0 /\ policy_now >= policy_expires

Refresh ==
    LET now_active == IF Loads THEN policy_file ELSE Kept
    IN  /\ Due /\ last_policy' = policy_now
        /\ pinned' = KeysNow
        /\ policy' = now_active
        /\ saved' = IF Loads THEN policy_file ELSE saved
        /\ seen_stamp' = IF policy_file = Missing THEN NoStamp
                         ELSE IF Looks THEN policy_stamp ELSE seen_stamp
        /\ decided_on' = IF policy_file = Missing THEN Missing
                         ELSE IF Looks THEN policy_file ELSE decided_on
        /\ Records
        /\ policy_expires' = IF InForce(now_active, policy_now) THEN now_active.expires ELSE 0
        /\ Sweep(now_active)
        /\ newest' = IF Loads /\ newest.version <= policy_file.version THEN policy_file ELSE newest
        /\ passed_over' = IF Judges
                          THEN policy_file \in Bundles /\ policy_now < policy_file.issued
                          ELSE (passed_over \/ Revoked)
        /\ UNCHANGED <<policy_now, policy_file, policy_stamp, key_file>>
-----------------------------------------------------------------------------
(* The host and the process.                                               *)

\* A process execs: the policy in force at that moment decides on it.
Exec ==
    /\ Edit("start")
    /\ \E p \in Processes :
         decided' = [decided EXCEPT ![p] = IF InForce(policy, policy_now) THEN policy.version ELSE 0]
    /\ UNCHANGED <<hostVars, storeVars, newest, unrecorded, passed_over>>

Tick ==
    /\ policy_now < MaxNow /\ policy_now' = policy_now + 1
    /\ UNCHANGED <<policy_file, policy_stamp, key_file, state_file, storeVars, newest,
                   unrecorded, passed_over, decided, edits>>

\* The policy file is replaced or removed.
EditFile ==
    /\ Edit("file")
    /\ policy_file' \in (Bundles \cup {Junk, Missing}) \ {policy_file}
    /\ policy_stamp' \in {[time |-> policy_now, id |-> edits["file"]]} \cup
           {s \in {policy_stamp} : SameTick /\ s.time = policy_now}
    /\ UNCHANGED <<policy_now, key_file, state_file, storeVars, newest, unrecorded,
                   passed_over, decided>>

EditKeys ==
    /\ Edit("keys")
    /\ key_file' \in (SUBSET Keys \cup {Unreadable}) \ {key_file}
    /\ UNCHANGED <<policy_now, policy_file, policy_stamp, state_file, storeVars, newest,
                   unrecorded, passed_over, decided>>

\* The record of the accepted version is removed or garbled.
LoseState ==
    /\ Edit("state") /\ state_file \in Bundles
    /\ state_file' \in {NoPolicy, Junk} /\ unrecorded' = TRUE
    /\ UNCHANGED <<policy_now, policy_file, policy_stamp, key_file, storeVars, newest,
                   passed_over, decided>>

\* The process ends, cleanly or not, and a new one loads the saved state.
Restart ==
    /\ Edit("crash")
    /\ saved' = state_file
    /\ pinned' = Unreadable /\ policy' = NoPolicy /\ decided_on' = Missing
    /\ seen_stamp' = NoStamp /\ swept' = 0 /\ policy_expires' = 0 /\ last_policy' = -1
    /\ decided' = DecidedBy(0) /\ passed_over' = FALSE
    /\ UNCHANGED <<hostVars, newest, unrecorded>>

PolicyInit ==
    /\ policy_now = 0 /\ policy_file \in Bundles /\ key_file \in SUBSET Keys
    /\ policy_stamp = [time |-> 0, id |-> 99] /\ state_file = NoPolicy
    /\ pinned = Unreadable /\ saved = NoPolicy /\ policy = NoPolicy
    /\ decided_on = Missing /\ seen_stamp = NoStamp /\ swept = 0
    /\ policy_expires = 0 /\ last_policy = -1
    /\ newest = NoPolicy /\ unrecorded = FALSE /\ passed_over = FALSE
    /\ decided = [p \in Processes |-> -1] /\ edits \in EditBudgets

PolicyNext ==
    Refresh \/ Exec \/ Tick \/ EditFile \/ EditKeys \/ LoseState \/ Restart

PolicySpec == PolicyInit /\ [][PolicyNext]_policyVars
-----------------------------------------------------------------------------
\* While the record of the accepted version is intact, the policy in force is
\* the newest ever in force on this host, with the content that version had
\* first: not through restarts, revocations, expiry or a file put back
\* (ADR 032: "Monotonic").
NeverOlder ==
    policy # NoPolicy /\ ~unrecorded => SameContent(newest, policy)

Checked == last_policy = policy_now

\* A file that every check would accept is in force after a look at it, unless
\* it was refused before its time, or left aside while another was revoked.
PolicyTaken ==
    Checked /\ ~passed_over /\ Valid(policy_file) /\ NotRollback(policy_file)
    /\ pinned = KeysNow /\ seen_stamp = policy_stamp =>
        SameContent(policy, policy_file)

\* Whenever the policy in force was looked at, every running process has been
\* decided on by it: those that ran before it came, those that started while
\* none was in force, and those that ran through a revocation.
AllDecided ==
    Checked /\ InForce(policy, policy_now) =>
        \A p \in Processes : decided[p] \in {-1, policy.version}
=============================================================================
