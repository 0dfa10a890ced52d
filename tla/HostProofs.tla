----------------------------- MODULE HostProofs -----------------------------
(***************************************************************************)
(* Isolation, Integrity, PolicyStore and TerminateTree for every bound: an *)
(* accepted isolation or release stays in force across deaths, failures    *)
(* and reboots, no older build is in force unnoticed, no older policy is,  *)
(* and a tree that is not killed is let go.                                *)
(***************************************************************************)
EXTENDS Isolation, Integrity, PolicyStore, TerminateTree, TLAPS

HelperSteps == {"down", "idle", "asked", "changed", "truncated"}

\* What holds while an accepted answer stands: the state file says what was pledged
\* except while it is rewritten, the ruleset says it too while the helper is up, and
\* one that outlived the helper does not say the opposite.
Standing ==
    /\ helper # "truncated" => saved_state = Means(pledged)
    /\ helper # "down" => ruleset = Means(pledged)
    /\ ruleset => Means(pledged)

IsolationInv ==
    /\ ruleset \in BOOLEAN /\ saved_state \in BOOLEAN /\ disk_file \in BOOLEAN
    /\ record_lost \in BOOLEAN /\ helper \in HelperSteps /\ serving \in Opcodes
    /\ pledged \in Opcodes \cup {"none"}
    /\ helper \in {"asked", "changed", "truncated"} /\ pledged # "none" => serving = pledged
    /\ helper \in {"changed", "truncated"} => ruleset = Means(serving)
    /\ pledged # "none" /\ ~record_lost => Standing

LEMMA IsolationInitInv == IsolationInit => IsolationInv
BY DEF IsolationInit, IsolationInv, Opcodes, HelperSteps

LEMMA IsolationNextInv == IsolationInv /\ [IsolationNext]_isolationVars => IsolationInv'
<1> SUFFICES ASSUME IsolationInv, [IsolationNext]_isolationVars PROVE IsolationInv'
  OBVIOUS
<1> USE DEF IsolationInv, Standing, Means, HelperSteps, Opcodes
<1>1. CASE \E ok \in BOOLEAN : HelperStarts(ok)
  BY <1>1 DEF HelperStarts
<1>2. CASE \E op \in Opcodes : Ask(op)
  BY <1>2 DEF Ask, Can
<1>3. CASE ChangeRuleset
  BY <1>3 DEF ChangeRuleset
<1>4. CASE ChangeFails
  BY <1>4 DEF ChangeFails, Answer, Can
<1>5. CASE Truncate
  BY <1>5 DEF Truncate
<1>6. CASE WriteState
  BY <1>6 DEF WriteState, Answer
<1>7. CASE SaveFails
  BY <1>7 DEF SaveFails, Answer, Can, Torn
<1>8. CASE GiveUp
  BY <1>8 DEF GiveUp
<1>9. CASE WriteBack
  BY <1>9 DEF WriteBack
<1>10. CASE HelperDies
  BY <1>10 DEF HelperDies, Can, Torn
<1>11. CASE Reboot
  BY <1>11 DEF Reboot, Answer, Can, Torn
<1>12. CASE PowerLoss
  BY <1>12 DEF PowerLoss, Answer, Can, Torn
<1>13. CASE UNCHANGED isolationVars
  BY <1>13 DEF isolationVars
<1> QED
  BY <1>1, <1>2, <1>3, <1>4, <1>5, <1>6, <1>7, <1>8, <1>9, <1>10, <1>11, <1>12, <1>13
     DEF IsolationNext

\* An accepted request stays in force until the opposite one reaches the helper, for
\* any number of deaths, failed transactions, failed saves, reboots and repeated
\* requests that do not lose the record.
THEOREM IsolationStands == IsolationSpec => []AnswerStaysTrue
<1>1. IsolationInv => AnswerStaysTrue
  BY DEF IsolationInv, Standing, AnswerStaysTrue
<1> QED
  BY <1>1, IsolationInitInv, IsolationNextInv, PTL DEF IsolationSpec
-----------------------------------------------------------------------------
\* The mark in memory is the newest build ever verified unless it was forgotten, the
\* one on disk unless it was not saved either, and the flag compares the manifest in
\* force with the mark in memory.
IntegrityInv ==
    /\ high_water \in Int /\ saved_water \in Int /\ in_force \in Int /\ newest_build \in Int
    /\ mark \in {"saved", "unsaved", "forgotten"}
    /\ high_water <= newest_build /\ saved_water <= newest_build
    /\ mark # "forgotten" => high_water = newest_build
    /\ mark = "saved" => saved_water = newest_build
    /\ in_force # 0 /\ in_force < high_water => rollback

LEMMA BuildsAreTimes == \A b \in Builds : b \in Int /\ b # 0
BY IntegrityAssumption

LEMMA IntegrityInitInv == IntegrityInit => IntegrityInv
<1> SUFFICES ASSUME IntegrityInit PROVE IntegrityInv
  OBVIOUS
<1>1. high_water = 0 /\ saved_water = 0 /\ in_force = 0 /\ newest_build = 0 /\ mark = "saved"
  BY DEF IntegrityInit
<1> QED
  BY <1>1 DEF IntegrityInv

LEMMA IntegrityNextInv == IntegrityInv /\ [IntegrityNext]_integrityVars => IntegrityInv'
<1> SUFFICES ASSUME IntegrityInv, [IntegrityNext]_integrityVars PROVE IntegrityInv'
  OBVIOUS
<1> USE DEF IntegrityInv
<1>1. CASE ReadManifest
  <2>1. CASE reread /\ manifest.build \in Builds
    <3> DEFINE b == manifest.build
    <3>1. b \in Int
      BY <2>1, BuildsAreTimes
    <3>2. in_force' = b /\ NoteBuild(b)
      BY <1>1, <2>1 DEF ReadManifest
    <3> HIDE DEF b
    <3>3. rollback' = (b < high_water)
      BY <3>2 DEF NoteBuild
    <3>4. CASE b <= high_water
      <4>1. UNCHANGED <<high_water, saved_water, newest_build, mark>>
        BY <3>1, <3>2, <3>4 DEF NoteBuild
      <4> QED
        BY <3>1, <3>2, <3>3, <4>1
    <3>5. CASE b > high_water
      <4>1. /\ high_water' = b
            /\ \/ saved_water' = b /\ Marked(b, "saved")
               \/ saved_water' = saved_water /\ Marked(b, "unsaved")
        BY <3>1, <3>2, <3>5 DEF NoteBuild
      <4>2. CASE b < newest_build
        <5>1. newest_build' = newest_build /\ mark' = mark /\ mark = "forgotten"
          BY <3>1, <3>5, <4>1, <4>2 DEF Marked
        <5> QED
          BY <3>1, <3>2, <4>1, <4>2, <5>1
      <4>3. CASE b >= newest_build
        <5>1. newest_build' = b
          BY <3>1, <4>1, <4>3 DEF Marked
        <5>2. (saved_water' = b /\ mark' = "saved") \/ (saved_water' = saved_water /\ mark' = "unsaved")
          BY <3>1, <4>1, <4>3 DEF Marked
        <5> QED
          BY <3>1, <3>2, <4>1, <4>3, <5>1, <5>2
      <4> QED
        BY <3>1, <4>2, <4>3
    <3> QED
      BY <3>1, <3>4, <3>5
  <2>2. CASE ~(reread /\ manifest.build \in Builds)
    BY <1>1, <2>2 DEF ReadManifest
  <2> QED
    BY <2>1, <2>2
<1>2. CASE RestartSensor
  <2>1. /\ high_water' = saved_water /\ saved_water' = saved_water /\ in_force' = 0
        /\ newest_build' = newest_build /\ mark' = IF mark = "unsaved" THEN "forgotten" ELSE mark
    BY <1>2 DEF RestartSensor
  <2> QED
    BY <2>1
<1>3. CASE StatManifest \/ HashFile
  BY <1>3 DEF StatManifest, HashFile
<1>4. CASE ClockTicks \/ (\E c \in Builds \cup {0}, i \in 1..2, s \in {clock, clock - 1} : WriteFile(c, i, s))
           \/ (\E b \in Builds \cup {0, -1} : WriteManifest(b))
  <2>1. UNCHANGED monitor
    BY <1>4 DEF ClockTicks, WriteFile, WriteManifest
  <2> QED
    BY <2>1 DEF monitor
<1>5. CASE UNCHANGED integrityVars
  BY <1>5 DEF integrityVars
<1> QED
  BY <1>1, <1>2, <1>3, <1>4, <1>5 DEF IntegrityNext

\* No build older than the newest this endpoint has ever verified is in force without
\* the rollback flag, for any order of builds, restarts and failed saves, unless the
\* process that could not save the mark of that build has ended.
THEOREM IntegrityNoQuietRollback == IntegritySpec => []NoQuietRollback
<1>1. IntegrityInv => NoQuietRollback
  <2> SUFFICES ASSUME IntegrityInv, in_force \in Builds, in_force < newest_build,
                      mark # "forgotten" PROVE rollback
    BY DEF NoQuietRollback
  <2>1. in_force # 0
    BY IntegrityAssumption
  <2> QED
    BY <2>1 DEF IntegrityInv
<1> QED
  BY <1>1, IntegrityInitInv, IntegrityNextInv, PTL DEF IntegritySpec
-----------------------------------------------------------------------------
\* While no record of it was lost, memory, the state file and the newest bundle
\* ever in force are the same version with the same content.
Recorded ==
    \/ newest = NoPolicy /\ saved = NoPolicy /\ state_file = NoPolicy /\ policy = NoPolicy
    \/ /\ newest \in Bundles /\ saved \in Bundles /\ state_file \in Bundles
       /\ SameContent(newest, saved) /\ SameContent(newest, state_file)
       /\ policy = NoPolicy \/ (policy \in Bundles /\ SameContent(newest, policy))
PolicyInv == unrecorded \/ Recorded

LEMMA BundlesAreVersioned ==
    /\ \A b \in Bundles : b.version \in Nat /\ b.version > 0 /\ b # NoPolicy /\ b # Junk
    /\ NoPolicy.version = 0 /\ NoPolicy # Junk
BY PolicyAssumption DEF NoPolicy, Junk

LEMMA RefreshInv == ASSUME PolicyInv, Refresh PROVE PolicyInv'
<1> SUFFICES ASSUME Recorded, ~unrecorded' PROVE Recorded'
  BY DEF PolicyInv, Refresh, Records
<1>1. CASE ~Loads
  <2>1. UNCHANGED <<saved, newest, state_file>> /\ policy' \in {policy, NoPolicy}
    BY <1>1 DEF Refresh, Records, Kept
  <2> QED
    BY <2>1 DEF Recorded, SameContent
<1>2. CASE Loads
  <2>1. policy_file \in Bundles /\ NotRollback(policy_file)
    BY <1>2 DEF Loads, Valid
  <2>2. /\ saved' = policy_file /\ policy' = policy_file
        /\ newest' = IF newest.version <= policy_file.version THEN policy_file ELSE newest
    BY <1>2 DEF Refresh
  <2>3. state_file' = policy_file \/ (Resumes /\ state_file' = state_file)
    BY <1>2 DEF Refresh, Records
  <2>4. CASE newest = NoPolicy
    <3>1. saved = NoPolicy
      BY <2>4, BundlesAreVersioned DEF Recorded
    <3>2. state_file' = policy_file /\ newest' = policy_file
      BY <2>1, <2>2, <2>3, <2>4, <3>1, BundlesAreVersioned DEF Resumes
    <3> QED
      BY <2>1, <2>2, <3>2, BundlesAreVersioned DEF Recorded, SameContent
  <2>5. CASE newest # NoPolicy
    <3>1. /\ newest \in Bundles /\ saved \in Bundles /\ state_file \in Bundles
          /\ newest.version = saved.version /\ newest.body = saved.body
          /\ newest.version = state_file.version /\ newest.body = state_file.body
      BY <2>5 DEF Recorded, SameContent
    <3>2. \/ saved.version < policy_file.version
          \/ saved.version = policy_file.version /\ saved.body = policy_file.body
      BY <2>1, <3>1, BundlesAreVersioned DEF NotRollback, SameContent
    <3>3. newest' = policy_file
      BY <2>1, <2>2, <3>1, <3>2, BundlesAreVersioned
    <3>4. state_file' \in Bundles /\ SameContent(policy_file, state_file')
      <4>1. CASE state_file' = policy_file
        BY <4>1, <2>1, BundlesAreVersioned DEF SameContent
      <4>2. CASE Resumes /\ state_file' = state_file
        <5>1. saved.version = policy_file.version
          BY <4>2 DEF Resumes
        <5>2. saved.body = policy_file.body
          BY <5>1, <3>1, <3>2, <2>1, BundlesAreVersioned
        <5> QED
          BY <4>2, <5>1, <5>2, <3>1, <2>1, BundlesAreVersioned DEF SameContent
      <4> QED
        BY <2>3, <4>1, <4>2
    <3> QED
      BY <2>1, <2>2, <3>3, <3>4, BundlesAreVersioned DEF Recorded, SameContent
  <2> QED
    BY <2>4, <2>5
<1> QED
  BY <1>1, <1>2

LEMMA PolicyNextInv == PolicyInv /\ [PolicyNext]_policyVars => PolicyInv'
<1> SUFFICES ASSUME PolicyInv, [PolicyNext]_policyVars PROVE PolicyInv'
  OBVIOUS
<1>1. CASE Refresh
  BY <1>1, RefreshInv
<1>2. CASE LoseState
  BY <1>2 DEF LoseState, PolicyInv
<1>3. CASE Restart
  <2>1. saved' = state_file /\ policy' = NoPolicy /\ UNCHANGED <<newest, unrecorded, state_file>>
    BY <1>3 DEF Restart, hostVars
  <2> QED
    BY <2>1 DEF PolicyInv, Recorded, SameContent
<1>4. CASE Exec \/ Tick \/ EditFile \/ EditKeys \/ UNCHANGED policyVars
  <2>1. UNCHANGED <<newest, unrecorded, state_file, saved, policy>>
    BY <1>4 DEF Exec, Tick, EditFile, EditKeys, policyVars, hostVars, storeVars
  <2> QED
    BY <2>1 DEF PolicyInv, Recorded, SameContent
<1> QED
  BY <1>1, <1>2, <1>3, <1>4 DEF PolicyNext

\* While the record of the accepted version is intact the policy in force is the
\* newest ever in force, for any bundles, keys, edits, restarts and expiries.
THEOREM PolicyNeverOlder == PolicySpec => []NeverOlder
<1>1. PolicyInit => PolicyInv
  BY DEF PolicyInit, PolicyInv, Recorded
<1>2. PolicyInv => NeverOlder
  BY DEF PolicyInv, Recorded, NeverOlder
<1> QED
  BY <1>1, <1>2, PolicyNextInv, PTL DEF PolicySpec
-----------------------------------------------------------------------------
Tasks == [start : Nat, parent : 0 .. LastPid,
          run : {"none", "runs", "stopped", "dying", "zombie"}]

\* Whoever is stopped is in the responder's hands while it works, and it kills
\* only on the way to saying so.
TreeInv ==
    /\ task \in [TreePids -> Tasks] /\ births \in Nat /\ round \in Nat
    /\ \A p \in TreePids :
         task[p].run = "stopped" =>
             Holder(p) \in held /\ round # 0 /\ step \notin {"begin", "wait", "done"}
    /\ killed # {} => \/ step = "wait"
                      \/ step = "done" /\ verdict \in {"terminated", "signalled"}

\* Signals change only whether a process runs.
LEMMA SignalledTasks ==
    ASSUME task \in [TreePids -> Tasks], NEW handles, NEW from,
           NEW to \in {"runs", "stopped", "dying"}
    PROVE  /\ Signalled(handles, from, to) \in [TreePids -> Tasks]
           /\ \A p \in TreePids :
                /\ Signalled(handles, from, to)[p].start = task[p].start
                /\ Holder(p) \in handles /\ task[p].run \in from =>
                      Signalled(handles, from, to)[p].run = to
                /\ ~(Holder(p) \in handles /\ task[p].run \in from) =>
                      Signalled(handles, from, to)[p] = task[p]
BY DEF Signalled, Tasks

\* A process that ends stops nobody.
LEMMA EndedTasks ==
    ASSUME task \in [TreePids -> Tasks], NEW p \in TreePids
    PROVE  /\ Ended(p) \in [TreePids -> Tasks]
           /\ \A q \in TreePids : /\ Ended(p)[q].start = task[q].start
                                  /\ Ended(p)[q].run = "stopped" => task[q].run = "stopped"
BY TreeAssumption DEF Ended, Tasks, TreePids

\* resume_all() continues everyone who is stopped.
LEMMA ReleaseResumes ==
    ASSUME TreeInv, NEW status, Release(status)
    PROVE  /\ task' \in [TreePids -> Tasks] /\ step' = "done"
           /\ \A p \in TreePids : task'[p].run # "stopped"
<1>1. \A p \in TreePids : task[p].run = "stopped" => Holder(p) \in held
  BY DEF TreeInv
<1> QED
  BY <1>1, SignalledTasks DEF TreeInv, Release

\* The host only ends, starts and reaps processes.
LEMMA HostKeepsTreeInv == TreeInv /\ TreeHostMoves => TreeInv'
<1> SUFFICES ASSUME TreeInv, NEW p \in TreePids,
                    (\E q \in TreePids : HostForked(p, q)) \/ HostExited(p) \/ HostKilled(p) \/ HostReaped(p)
             PROVE  TreeInv'
  BY DEF TreeHostMoves
<1>0. task \in [TreePids -> Tasks] /\ births \in Nat /\ UNCHANGED <<held, step, round, killed, verdict>>
  BY DEF TreeInv, HostForked, HostExited, HostKilled, HostReaped, responder, treeHistory
<1>1. CASE \E q \in TreePids : HostForked(p, q)
  <2>1. PICK q \in TreePids : HostForked(p, q)
    BY <1>1
  <2>2. /\ task' = [task EXCEPT ![q] = [start |-> births, parent |-> p, run |-> "runs"]]
        /\ births' = births + 1
    BY <2>1 DEF HostForked
  <2>3. [start |-> births, parent |-> p, run |-> "runs"] \in Tasks
    BY <1>0, TreeAssumption DEF Tasks, TreePids
  <2>4. task' \in [TreePids -> Tasks] /\ births' \in Nat
    BY <1>0, <2>2, <2>3
  <2>5. \A r \in TreePids : task'[r].run = "stopped" => r # q /\ task'[r] = task[r]
    BY <1>0, <2>2
  <2> QED
    BY <1>0, <2>4, <2>5 DEF TreeInv, Holder
<1>2. CASE HostExited(p) \/ HostKilled(p)
  <2>1. task' = Ended(p) /\ births' = births
    BY <1>2 DEF HostExited, HostKilled
  <2> QED
    BY <1>0, <2>1, EndedTasks DEF TreeInv, Holder
<1>3. CASE HostReaped(p)
  <2>1. task' = [task EXCEPT ![p] = NoTask] /\ births' = births
    BY <1>3 DEF HostReaped
  <2>2. NoTask \in Tasks /\ NoTask.run # "stopped"
    BY TreeAssumption DEF NoTask, Tasks
  <2>3. \A r \in TreePids : task'[r].run = "stopped" => task'[r] = task[r]
    BY <1>0, <2>1, <2>2
  <2> QED
    BY <1>0, <2>1, <2>2, <2>3 DEF TreeInv, Holder
<1> QED
  BY <1>1, <1>2, <1>3

\* Every path of respond_terminate_tree() holds, lets go or kills what it stopped.
LEMMA ResponderKeepsTreeInv == TreeInv /\ Responds => TreeInv'
<1> SUFFICES ASSUME TreeInv, Responds PROVE TreeInv'
  OBVIOUS
<1>0. task \in [TreePids -> Tasks] /\ births \in Nat /\ births' = births
  BY DEF TreeInv, Responds, CheckTarget, TakeReference, Verify, ScanPid, ScanFails, Refuse, StopRoot,
         ReadRound, TakeMember, RoundEnds, KillTree, AwaitExit
\* What a step that lets go, or that signals nobody, preserves.
<1>1. ASSUME NEW status, Release(status), UNCHANGED killed, round' \in Nat, step \notin {"wait", "done"}
      PROVE  TreeInv'
  BY <1>0, <1>1, ReleaseResumes DEF TreeInv
<1>2. ASSUME UNCHANGED <<task, killed>>, held \subseteq held', round' \in Nat,
             round # 0 => round' # 0, step \notin {"begin", "wait", "done"},
             step' \notin {"begin", "wait", "done"}
      PROVE  TreeInv'
  BY <1>0, <1>2 DEF TreeInv, Holder
<1>3. ASSUME UNCHANGED <<task, killed>>, step \notin {"wait", "done"},
             round = 0 \/ step = "begin", round' \in Nat
      PROVE  TreeInv'
  <2>1. \A p \in TreePids : task[p].run # "stopped"
    BY <1>3 DEF TreeInv
  <2> QED
    BY <1>0, <1>3, <2>1 DEF TreeInv
<1>4. CASE CheckTarget
  BY <1>3, <1>4 DEF CheckTarget, treeHistory, TreeInv
<1>5. CASE TakeReference
  <2>1. CASE NotOpened
    BY <1>2, <1>3, <1>5, <2>1 DEF TakeReference, NotOpened, TreeInv
  <2>2. CASE UNCHANGED <<task, held>> /\ step' = "verify"
    BY <1>2, <1>5, <2>2 DEF TakeReference, TreeInv
  <2> QED
    BY <1>5, <2>1, <2>2 DEF TakeReference
<1>6. CASE Verify
  <2>1. CASE NotOpened
    BY <1>2, <1>3, <1>6, <2>1 DEF Verify, NotOpened, TreeInv
  <2>2. CASE Opened
    <3>1. CASE round = 0
      BY <1>3, <1>6, <2>2, <3>1 DEF Verify, Opened, TreeInv
    <3>2. CASE round # 0
      <4>1. /\ task' = Signalled({handle}, {"runs"}, "stopped") /\ held' = held \cup {handle}
            /\ step' = "members" /\ round' = round /\ killed' = killed /\ step = "verify"
        BY <1>6, <2>2, <3>2 DEF Verify, Opened
      <4>2. task' \in [TreePids -> Tasks]
        BY <1>0, <4>1, SignalledTasks
      <4>3. \A p \in TreePids : /\ task'[p].start = task[p].start
                                /\ task'[p].run = "stopped" => Holder(p) \in held \cup {handle}
        BY <1>0, <4>1, SignalledTasks DEF TreeInv
      <4>4. \A p \in TreePids : Holder(p)' = Holder(p)
        BY <4>3 DEF Holder
      <4>5. killed' = {}
        BY <4>1 DEF TreeInv
      <4> QED
        BY <1>0, <3>2, <4>1, <4>2, <4>3, <4>4, <4>5 DEF TreeInv
    <3> QED
      BY <3>1, <3>2
  <2> QED
    BY <1>6, <2>1, <2>2 DEF Verify
<1>7. CASE ScanPid
  BY <1>2, <1>7 DEF ScanPid, TreeInv
<1>8. CASE ScanFails
  BY <1>1, <1>8 DEF ScanFails, treeHistory, TreeInv
<1>9. CASE \E status \in {"refused_limit", "refused_protected", "dry_run"} : Refuse(status)
  BY <1>3, <1>9 DEF Refuse, treeHistory, TreeInv
<1>10. CASE StopRoot
  <2>1. /\ task' = Signalled(held, {"runs"}, "stopped") /\ held' = held /\ killed' = killed
        /\ step = "scanned" /\ round = 0
        /\ \/ (\E p \in TreePids : Holder(p) \in held) /\ step' = "scan" /\ round' = 1
           \/ (\A p \in TreePids : Holder(p) \notin held) /\ step' = "done" /\ round' = 0
    BY <1>10 DEF StopRoot
  <2>2. /\ task' \in [TreePids -> Tasks]
        /\ \A p \in TreePids : /\ task'[p].start = task[p].start
                               /\ task'[p].run = "stopped" => Holder(p) \in held
    BY <1>0, <2>1, SignalledTasks DEF TreeInv
  <2>3. \A p \in TreePids : Holder(p)' = Holder(p)
    BY <2>2 DEF Holder
  <2>4. killed' = {}
    BY <2>1 DEF TreeInv
  <2>5. CASE step' = "scan" /\ round' = 1
    BY <1>0, <2>1, <2>2, <2>3, <2>4, <2>5 DEF TreeInv
  <2>6. CASE (\A p \in TreePids : Holder(p) \notin held) /\ round' = 0
    BY <1>0, <2>2, <2>4, <2>6 DEF TreeInv
  <2> QED
    BY <2>1, <2>5, <2>6
<1>11. CASE ReadRound
  BY <1>2, <1>11 DEF ReadRound, TreeInv
<1>12. CASE \E p \in TreePids : TakeMember(p)
  <2>1. PICK p \in TreePids : TakeMember(p)
    BY <1>12
  <2>2. step = "members" /\ UNCHANGED <<held, round, killed>> /\ round' \in Nat
    BY <2>1 DEF TakeMember, TreeInv
  <2>3. \/ Release("refused_limit") \/ Release("refused_protected")
        \/ step' = "open" /\ UNCHANGED task
    BY <2>1 DEF TakeMember
  <2> QED
    BY <1>1, <1>2, <2>2, <2>3
<1>13. CASE RoundEnds
  <2>1. step = "members" /\ UNCHANGED <<held, killed>>
    BY <1>13 DEF RoundEnds, treeHistory
  <2>2. CASE round < MaximumRounds
    BY <1>2, <1>13, <2>1, <2>2 DEF RoundEnds, TreeInv
  <2>3. CASE ~(round < MaximumRounds)
    BY <1>1, <1>13, <2>1, <2>3 DEF RoundEnds, TreeInv
  <2> QED
    BY <2>2, <2>3
<1>14. CASE KillTree
  <2>1. /\ task' = Signalled(held, {"runs", "stopped"}, "dying") /\ step' = "wait" /\ round' = round
    BY <1>14 DEF KillTree
  <2>2. \A p \in TreePids : task[p].run = "stopped" => Holder(p) \in held
    BY DEF TreeInv
  <2>3. task' \in [TreePids -> Tasks] /\ \A p \in TreePids : task'[p].run # "stopped"
    BY <1>0, <2>1, <2>2, SignalledTasks
  <2> QED
    BY <1>0, <2>1, <2>3 DEF TreeInv
<1>15. CASE AwaitExit
  <2>1. /\ step = "wait" /\ step' = "done" /\ verdict' \in {"terminated", "signalled"}
        /\ UNCHANGED <<task, held, round, killed>>
    BY <1>15 DEF AwaitExit, treeHistory
  <2> QED
    BY <1>0, <2>1 DEF TreeInv
<1> QED
  BY <1>4, <1>5, <1>6, <1>7, <1>8, <1>9, <1>10, <1>11, <1>12, <1>13, <1>14, <1>15 DEF Responds

\* The responder leaves nobody stopped, and has killed nobody unless it says so,
\* whatever the tree, the limits and what the host does meanwhile.
THEOREM TreeReleased == TreeSpec => []ReleasedUnharmed
<1>1. TreeInit => TreeInv
  BY TreeAssumption DEF TreeInit, TreeInv, Tasks
<1>2. TreeInv /\ UNCHANGED killVars => TreeInv'
  BY DEF TreeInv, killVars, responder, treeHistory, Holder
<1>3. TreeInv /\ [TreeNext]_killVars => TreeInv'
  BY <1>2, HostKeepsTreeInv, ResponderKeepsTreeInv DEF TreeNext
<1>4. TreeInv => ReleasedUnharmed
  BY DEF TreeInv, ReleasedUnharmed
<1> QED
  BY <1>1, <1>3, <1>4, PTL DEF TreeSpec
=============================================================================
