---------------------------- MODULE OutboxProofs ----------------------------
(***************************************************************************)
(* For every quota, segment size, chunk count and budget of faults, what   *)
(* the outbox retires is retained by the Manager, and what a collection    *)
(* was told is saved is retained there or still on the disk.               *)
(*                                                                         *)
(* The argument: the first segment on disk never starts after the oldest   *)
(* record that is not retired.  The quota could drop it, but save()        *)
(* refuses before the log would; acknowledge() and recovery drop segments  *)
(* that end at or below what is retired; a power loss cuts above synced,   *)
(* and nothing above synced is retired or pledged.                         *)
(***************************************************************************)
EXTENDS ArtifactOutbox, SequenceTheorems, WellFoundedInduction, NaturalsInduction, TLAPS

OutboxTypes ==
    /\ log \in Seq(Artifacts) /\ segments \in Seq(Nat)
    /\ synced \in Nat /\ retired \in Nat
    /\ retired <= synced /\ synced <= Len(log)
    /\ saving => Len(log) > 0

\* The disk holds every record that is not retired.
DiskHolds ==
    /\ retired < Len(log) => segments # <<>>
    /\ segments # <<>> => segments[1] <= retired + 1

\* An upload is of a record of the log, and is retired once it is retained.
UploadOfOldest ==
    /\ upload.step # "idle" => retired < synced
    /\ upload.step = "retire" => log[retired + 1] \in retained

PledgedSynced == \A a \in pledged : \E n \in 1..synced : log[n] = a

OutboxInv == OutboxTypes /\ DiskHolds /\ UploadOfOldest /\ PledgedSynced /\ RetiredRetained
-----------------------------------------------------------------------------
LEMMA LeastOf ==
    ASSUME NEW S \in SUBSET Nat, S # {}
    PROVE  \E m \in S : \A x \in S : m <= x
<1>1. PICK m \in S : \A x \in S : ~(<<x, m>> \in OpToRel(<, Nat))
  BY ZenonT(30), NatLessThanWellFounded, WFMin
<1>2. ASSUME NEW x \in S PROVE m <= x
  <2>1. x \in Nat /\ m \in Nat
    BY <1>1
  <2>2. ~(x < m)
    BY <1>1, <2>1, Zenon DEF OpToRel
  <2> QED
    BY <2>1, <2>2
<1> QED
  BY <1>1, <1>2

\* The first segment kept starts at or below the first record not acknowledged.
LEMMA KeptCovers ==
    ASSUME NEW segs \in Seq(Nat), NEW seq \in Nat, segs # <<>>, segs[1] <= seq + 1
    PROVE  /\ Kept(segs, seq) \in Seq(Nat) /\ Kept(segs, seq) # <<>>
           /\ Kept(segs, seq)[1] <= seq + 1
<1> DEFINE live == {i \in 1..Len(segs) : i = Len(segs) \/ segs[i + 1] > seq + 1}
           first == CHOOSE i \in live : \A j \in live : i <= j
<1>1. live \in SUBSET Nat /\ Len(segs) \in live
  OBVIOUS
<1>2. \E i \in live : \A j \in live : i <= j
  <2> HIDE DEF live
  <2> QED
    BY <1>1, LeastOf, ZenonT(30)
<1>3. first \in live /\ \A j \in live : first <= j
  <2> HIDE DEF live
  <2> QED
    BY <1>2
<1> HIDE DEF first
<1>4. first \in 1..Len(segs) /\ segs[first] <= seq + 1
  <2>1. CASE first = 1
    BY <2>1
  <2>2. CASE first # 1
    <3>1. first - 1 \in 1..Len(segs) /\ first - 1 \notin live
      <4>1. first \in 1..Len(segs)
        BY <1>3
      <4>2. ~(first <= first - 1)
        BY <4>1
      <4>3. first - 1 \notin live
        <5> HIDE DEF live
        <5> QED
          BY <1>3, <4>2
      <4> QED
        BY <2>2, <4>1, <4>3
    <3>2. segs[(first - 1) + 1] <= seq + 1
      BY <3>1
    <3> QED
      BY <1>3, <3>2
  <2> QED
    BY <2>1, <2>2, <1>3
<1>5. Kept(segs, seq) = SubSeq(segs, first, Len(segs))
  BY DEF Kept, first
<1>6. /\ SubSeq(segs, first, Len(segs)) \in Seq(Nat)
      /\ Len(SubSeq(segs, first, Len(segs))) = Len(segs) - first + 1
      /\ SubSeq(segs, first, Len(segs))[1] = segs[first]
  <2> HIDE DEF live
  <2> QED
    BY <1>4, SubSeqProperties
<1> DEFINE rest == SubSeq(segs, first, Len(segs))
<1>7. rest \in Seq(Nat) /\ Len(rest) > 0 /\ rest[1] <= seq + 1
  BY <1>4, <1>6
<1> HIDE DEF rest, live
<1>8. rest # <<>>
  BY <1>7
<1>9. Kept(segs, seq) = rest
  BY <1>5 DEF rest
<1> QED
  BY <1>7, <1>8, <1>9, Zenon
-----------------------------------------------------------------------------
LEMMA OutboxInitInv == OutboxInit => OutboxInv
BY DEF OutboxInit, OutboxInv, OutboxTypes, DiskHolds, UploadOfOldest, PledgedSynced,
       RetiredRetained, Idle

\* save() extends the log without dropping a segment.
LEMMA SaveInv == ASSUME OutboxInv, NEW a \in Artifacts, SaveArtifact(a) PROVE OutboxInv'
<1> USE DEF OutboxInv, OutboxTypes
<1>1. /\ log' = Append(log, a) /\ segments' = Enforced(Extended, Len(log) + 1) /\ Admitted
      /\ saving' = TRUE /\ synced' \in {synced, Len(log)}
      /\ UNCHANGED <<retired, upload, retained, pledged>>
  BY DEF SaveArtifact
<1>2. /\ log' \in Seq(Artifacts) /\ Len(log') = Len(log) + 1
      /\ \A n \in 1..Len(log) : log'[n] = log[n]
  BY <1>1
<1>3. /\ Extended \in Seq(Nat) /\ Extended # <<>> /\ Extended[1] <= retired + 1
      /\ Enforced(Extended, Len(log) + 1) = Extended
  <2>1. CASE segments = <<>>
    <3>1. Extended = Append(<<>>, Len(log) + 1) /\ retired = Len(log)
      BY <2>1 DEF Extended, DiskHolds
    <3> QED
      BY <3>1 DEF Enforced
  <2>2. CASE segments # <<>>
    <3>1. Extended \in {segments, Append(segments, Len(log) + 1)}
      BY DEF Extended
    <3>2. Extended \in Seq(Nat) /\ Len(Extended) > 0 /\ Extended[1] = segments[1]
      <4>1. CASE Extended = segments
        BY <2>2, <4>1
      <4>2. CASE Extended = Append(segments, Len(log) + 1)
        <5>1. /\ Append(segments, Len(log) + 1) \in Seq(Nat)
              /\ Len(Append(segments, Len(log) + 1)) = Len(segments) + 1
              /\ Append(segments, Len(log) + 1)[1] = segments[1]
          BY <2>2
        <5> QED
          BY <4>2, <5>1
      <4> QED
        BY <3>1, <4>1, <4>2
    <3>3. Len(log) + 2 - segments[1] <= OutboxQuota
      BY <1>1, <2>2 DEF Admitted, OnDisk
    <3>4. Head(Extended) = segments[1]
      BY <3>2
    <3>5. ~(Len(log) + 1 + 1 - Head(Extended) > OutboxQuota)
      BY <3>3, <3>4, <2>2, OutboxAssumption
    <3> QED
      BY <2>2, <3>2, <3>5 DEF Enforced, DiskHolds
  <2> QED
    BY <2>1, <2>2
<1>4. OutboxTypes' /\ DiskHolds'
  BY <1>1, <1>2, <1>3 DEF DiskHolds
<1>5. UploadOfOldest' /\ PledgedSynced' /\ RetiredRetained'
  BY <1>1, <1>2 DEF UploadOfOldest, PledgedSynced, RetiredRetained
<1> QED
  BY <1>4, <1>5

\* acknowledge() of the oldest record, which the Manager retains.
LEMMA RetireInv == ASSUME OutboxInv, Retire PROVE OutboxInv'
<1> USE DEF OutboxInv, OutboxTypes
<1>1. upload.step = "retire" /\ upload'.step = "idle"
      /\ UNCHANGED <<log, synced, saving, retained, pledged>>
  BY DEF Retire, Calls, Idle
<1>2. retired < synced /\ retired' = retired + 1 /\ segments' = Kept(segments, retired + 1)
  BY DEF Retire
<1>3. segments # <<>> /\ segments[1] <= retired + 1 + 1 /\ retired + 1 \in Nat
  BY <1>2 DEF DiskHolds
<1>4. segments' \in Seq(Nat) /\ segments' # <<>> /\ segments'[1] <= retired + 1 + 1
  BY <1>2, <1>3, KeptCovers
<1>5. RetiredRetained'
  BY <1>1, <1>2 DEF RetiredRetained, UploadOfOldest
<1> QED
  BY <1>1, <1>2, <1>4, <1>5 DEF DiskHolds, UploadOfOldest, PledgedSynced

\* recover() of the outbox's log.
LEMMA OpenInv == ASSUME OutboxInv, OpenOutbox, upload.step = "idle" PROVE OutboxInv'
<1> USE DEF OutboxInv, OutboxTypes
<1>1. /\ synced' = Len(log) /\ UNCHANGED <<log, retired, saving, upload, retained, pledged>>
      /\ segments' = IF retired = Len(log) THEN <<>> ELSE Kept(segments, retired)
  BY DEF OpenOutbox
<1>2. segments' \in Seq(Nat) /\ DiskHolds'
  <2>1. CASE retired = Len(log)
    BY <1>1, <2>1 DEF DiskHolds
  <2>2. CASE retired # Len(log)
    <3>1. segments # <<>> /\ segments[1] <= retired + 1
      BY <2>2 DEF DiskHolds
    <3> QED
      BY <1>1, <2>2, <3>1, KeptCovers DEF DiskHolds
  <2> QED
    BY <2>1, <2>2
<1>3. OutboxTypes' /\ UploadOfOldest' /\ RetiredRetained'
  BY <1>1, <1>2 DEF UploadOfOldest, RetiredRetained
<1>4. PledgedSynced'
  BY <1>1 DEF PledgedSynced
<1> QED
  BY <1>2, <1>3, <1>4

\* A power loss takes what was not synced, and the segments that held nothing else.
LEMMA PowerInv == ASSUME OutboxInv, NEW half \in BOOLEAN, HostDies(half) PROVE OutboxInv'
<1> USE DEF OutboxInv, OutboxTypes
<1>1. /\ saving' = FALSE /\ upload'.step = "idle"
      /\ UNCHANGED <<synced, retired, retained, pledged>>
  BY DEF HostDies, Idle
<1>2. PICK last \in synced..Len(log), k \in 0..Len(segments) :
        /\ log' = SubSeq(log, 1, last) /\ segments' = SubSeq(segments, 1, k)
        /\ \A i \in 1..Len(segments) : segments[i] <= last <=> i <= k
  BY DEF HostDies
<1>3. log' \in Seq(Artifacts) /\ Len(log') = last /\ \A n \in 1..last : log'[n] = log[n]
  BY <1>2
<1>4. segments' \in Seq(Nat) /\ Len(segments') = k /\ (k > 0 => segments'[1] = segments[1])
  BY <1>2
<1>5. retired < last => k > 0
  <2> SUFFICES ASSUME retired < last PROVE k > 0
    OBVIOUS
  <2>1. 1 \in 1..Len(segments) /\ segments[1] <= last
    BY DEF DiskHolds
  <2> QED
    BY <1>2, <2>1
<1>6. DiskHolds'
  BY <1>1, <1>3, <1>4, <1>5 DEF DiskHolds
<1>7. \A n \in 1..synced : n \in 1..last /\ log'[n] = log[n]
  BY <1>2, <1>3
<1>8. PledgedSynced' /\ RetiredRetained'
  <2>1. \A n \in 1..retired : n \in 1..synced
    OBVIOUS
  <2>2. RetiredRetained'
    BY <1>1, <1>7, <2>1, Zenon DEF RetiredRetained
  <2>3. PledgedSynced'
    BY <1>1, <1>7, Zenon DEF PledgedSynced
  <2> QED
    BY <2>2, <2>3
<1>9. OutboxTypes' /\ UploadOfOldest'
  BY <1>1, <1>2, <1>3, <1>4 DEF UploadOfOldest
<1> QED
  BY <1>6, <1>8, <1>9

\* Every step.  While the outbox is not open no upload is in progress.
OutboxIdle == outbox # "open" => upload.step = "idle"

LEMMA OutboxNextInv ==
    OutboxInv /\ OutboxIdle /\ [OutboxNext]_outboxVars => OutboxInv' /\ OutboxIdle'
<1> SUFFICES ASSUME OutboxInv, OutboxIdle, [OutboxNext]_outboxVars PROVE OutboxInv' /\ OutboxIdle'
  OBVIOUS
<1> USE DEF OutboxIdle
<1>1. ASSUME NEW a \in Artifacts, SaveArtifact(a) PROVE OutboxInv' /\ OutboxIdle'
  BY <1>1, SaveInv DEF SaveArtifact
<1>2. CASE SyncArtifact
  <2>1. synced' = Len(log) /\ saving /\ ~saving' /\ pledged' = pledged \cup {log[Len(log)]}
        /\ UNCHANGED <<log, segments, retired, outbox, upload, retained>>
    BY <1>2 DEF SyncArtifact
  <2>2. OutboxTypes' /\ DiskHolds' /\ UploadOfOldest' /\ RetiredRetained' /\ OutboxIdle'
    BY <2>1 DEF OutboxInv, OutboxTypes, DiskHolds, UploadOfOldest, RetiredRetained
  <2>3. PledgedSynced'
    BY <2>1 DEF OutboxInv, OutboxTypes, PledgedSynced
  <2> QED
    BY <2>2, <2>3 DEF OutboxInv
<1>3. CASE SyncFails
  BY <1>3 DEF SyncFails, OutboxInv, OutboxTypes, DiskHolds, UploadOfOldest, PledgedSynced, RetiredRetained
<1>4. CASE BeginUpload \/ Admit \/ PutChunk \/ Complete \/ Unanswered
  <2>1. UNCHANGED <<log, segments, synced, retired, outbox, saving, pledged>> /\ outbox = "open"
    BY <1>4 DEF BeginUpload, Admit, PutChunk, Complete, Unanswered, LeavesLog, Calls
  <2>2. retained \subseteq retained'
    BY <1>4 DEF BeginUpload, Admit, PutChunk, Complete, Unanswered
  <2>3. upload'.step # "idle" => retired < synced
    <3>1. CASE BeginUpload
      BY <3>1 DEF BeginUpload
    <3>2. CASE Admit \/ PutChunk \/ Complete \/ Unanswered
      BY <3>2 DEF OutboxInv, UploadOfOldest, Admit, PutChunk, Complete, Unanswered, Calls
    <3> QED
      BY <1>4, <3>1, <3>2
  <2>4. upload'.step = "retire" => log[retired + 1] \in retained'
    <3>1. CASE Complete
      BY <3>1 DEF Complete, Idle, Oldest
    <3>2. CASE BeginUpload \/ Admit \/ PutChunk \/ Unanswered
      BY <3>2 DEF BeginUpload, Admit, PutChunk, Unanswered, Idle, Continue
    <3> QED
      BY <1>4, <3>1, <3>2
  <2> QED
    BY <2>1, <2>2, <2>3, <2>4 DEF OutboxInv, OutboxTypes, DiskHolds, UploadOfOldest, PledgedSynced,
       RetiredRetained
<1>5. CASE Retire
  BY <1>5, RetireInv DEF Retire, Calls
<1>6. CASE OpenOutbox
  BY <1>6, OpenInv DEF OpenOutbox
<1>7. ASSUME NEW a \in Artifacts, Expire(a) PROVE OutboxInv' /\ OutboxIdle'
  BY <1>7 DEF Expire, LeavesLog, OutboxInv, OutboxTypes, DiskHolds, UploadOfOldest, PledgedSynced,
     RetiredRetained
<1>8. ASSUME NEW mid \in BOOLEAN, SensorDies(mid) PROVE OutboxInv' /\ OutboxIdle'
  <2>1. UNCHANGED <<log, segments, synced, retired, retained, pledged>> /\ ~saving' /\ upload'.step = "idle"
    BY <1>8 DEF SensorDies, Idle
  <2> QED
    BY <2>1 DEF OutboxInv, OutboxTypes, DiskHolds, UploadOfOldest, PledgedSynced, RetiredRetained
<1>9. ASSUME NEW half \in BOOLEAN, HostDies(half) PROVE OutboxInv' /\ OutboxIdle'
  BY <1>9, PowerInv DEF HostDies, Idle
<1>10. CASE UNCHANGED outboxVars
  BY <1>10 DEF outboxVars, OutboxInv, OutboxTypes, DiskHolds, UploadOfOldest, PledgedSynced,
     RetiredRetained
<1> QED
  BY <1>1, <1>2, <1>3, <1>4, <1>5, <1>6, <1>7, <1>8, <1>9, <1>10 DEF OutboxNext, Uploads

LEMMA OutboxHolds == OutboxSpec => [](OutboxInv /\ OutboxIdle)
<1>1. OutboxInit => OutboxIdle
  BY DEF OutboxInit, OutboxIdle, Idle
<1> QED
  BY <1>1, OutboxInitInv, OutboxNextInv, PTL DEF OutboxSpec

\* flush() retires nothing the Manager does not retain, whatever requests and
\* replies were lost, expired or repeated and whenever the sensor died.
THEOREM OutboxRetires == OutboxSpec => []RetiredRetained
<1>1. OutboxInv => RetiredRetained
  BY DEF OutboxInv
<1> QED
  BY <1>1, OutboxHolds, PTL

\* What save() reported as saved is retained by the Manager or on the disk below
\* synced: neither the quota nor a crash nor a power loss takes it away.
THEOREM OutboxKeepsPledge == OutboxSpec => []PledgeKept
<1>1. OutboxInv => PledgeKept
  <2> SUFFICES ASSUME OutboxInv, NEW a \in pledged, a \notin retained
               PROVE  segments # <<>> /\ \E n \in Head(segments)..synced : log[n] = a
    BY DEF PledgeKept
  <2>1. PICK n \in 1..synced : log[n] = a
    BY DEF OutboxInv, PledgedSynced
  <2>2. n > retired
    BY <2>1 DEF OutboxInv, OutboxTypes, RetiredRetained
  <2>3. segments # <<>> /\ segments[1] <= n /\ segments[1] \in Nat /\ Head(segments) = segments[1]
    BY <2>2 DEF OutboxInv, OutboxTypes, DiskHolds
  <2> QED
    BY <2>1, <2>3
<1> QED
  BY <1>1, OutboxHolds, PTL
=============================================================================
