---------------------------- MODULE UplinkProofs ----------------------------
(***************************************************************************)
(* The steps of the uplink thread and of the Manager preserve the invariant  *)
(* of Delivery.                                                            *)
(***************************************************************************)
EXTENDS PipelineProofs, FiniteSetTheorems, WellFoundedInduction

\* The maximum the code takes of a batch or of the recovered segments exists.
LEMMA MaxOfBounded ==
    ASSUME NEW n \in Nat, NEW S, S \subseteq 0 .. n, S # {}
    PROVE  Max(S) \in S /\ \A x \in S : x <= Max(S)
<1> DEFINE T == {n - x : x \in S}
<1>1. T \subseteq Nat /\ T # {}
  <2>1. \A x \in S : n - x \in Nat
    OBVIOUS
  <2>2. PICK x \in S : TRUE
    BY ZenonT(30)
  <2>3. n - x \in T
    BY <2>2
  <2> QED
    BY <2>1, <2>3
<1>2. PICK d \in T : \A e \in T : ~(<<e, d>> \in OpToRel(<, Nat))
  BY ZenonT(30), <1>1, NatLessThanWellFounded, WFMin
<1>3. PICK m \in S : d = n - m
  OBVIOUS
<1>4. \A x \in S : m >= x
  <2> SUFFICES ASSUME NEW x \in S PROVE m >= x
    BY ZenonT(30)
  <2>1. n - x \in T /\ n - x \in Nat /\ d \in Nat
    BY <1>1
  <2>2. ~(n - x < d)
    BY ZenonT(30), <1>2, <2>1 DEF OpToRel
  <2> QED
    BY <2>2, <1>3
<1> QED
  BY <1>4 DEF Max

\* A frame has no more frames below it than a later one.
LEMMA BelowMonotone ==
    ASSUME NEW S, S \subseteq Seqs, NEW p \in Int, NEW q \in Int, p <= q
    PROVE  Below(S, p) <= Below(S, q) /\ Below(S, p) \in Nat /\ Below(S, q) \in Nat
<1> DEFINE P == {x \in S : x < p}
           Q == {x \in S : x < q}
<1>1. IsFiniteSet(Seqs)
  BY FS_Interval, WalAssumption DEF Seqs
<1>2. IsFiniteSet(Q) /\ Q \in SUBSET Seqs
  BY <1>1, FS_Subset
<1>3. P \in SUBSET Q
  <2>1. \A x \in S : x \in Int
    BY DEF Seqs
  <2>2. \A x \in S : x < p => x < q
    BY <2>1
  <2> QED
    BY <2>2
<1>4. IsFiniteSet(P) /\ Cardinality(P) <= Cardinality(Q)
  BY <1>2, <1>3, FS_Subset
<1> QED
  BY <1>2, <1>4, FS_CardinalityType DEF Below

\* The uplink between its read and its answer: the log does not change.
LEMMA UplinkInv ==
    ASSUME IInv, ManagerStores \/ PostFails \/ PostTooLarge
    PROVE  IInv'
<1> USE DeliveryAssumption DEF walVars, memory, history, Explained
<1>1. UNCHANGED <<walVars, reported, forgotten>> /\ stored \subseteq stored'
      /\ UNCHANGED quarantined
  BY DEF ManagerStores, PostFails, PostTooLarge
<1>2. TypeOK'
  <2>1. /\ phase' \in Phases /\ batch' \subseteq batch /\ stored' \subseteq stored \cup batch
        /\ record_budget' \in 1 .. MaximumRecords /\ sent' = sent
    BY DEF IInv, TypeOK, ManagerStores, PostFails, PostTooLarge, Phases
  <2> QED
    BY <1>1, <2>1 DEF IInv, TypeOK
<1>3. BatchCovers'
  BY <1>1 DEF IInv, BatchCovers, ManagerStores, PostFails, PostTooLarge
<1>4. NoSilentSkip'
  BY <1>1 DEF IInv, NoSilentSkip, Settled
<1>5. Ordered' /\ Indexed' /\ Filed' /\ Accounted' /\ FrontForgotten'
  BY <1>1 DEF IInv, Ordered, Indexed, Filed, Accounted, FrontForgotten, Holds, In
<1> QED
  BY <1>2, <1>3, <1>4, <1>5 DEF IInv

\* The cursor moves to the end of a batch whose every record is settled.
LEMMA AnswerInv ==
    ASSUME IInv, AnswerArrives
    PROVE  IInv'
<1> USE DEF history
<1>1. TypeOK /\ Filed /\ Ordered /\ Indexed /\ BatchCovers /\ NoSilentSkip /\ Accounted
  BY DEF IInv
<1>2. /\ phase = "answering" /\ phase' = "idle" /\ batch' = {} /\ up
      /\ UNCHANGED <<sent, stored, reported, forgotten>>
      /\ quarantined' = quarantined \cup (batch \cap Invalid)
  BY <1>1 DEF AnswerArrives, BatchCovers
<1> DEFINE last == Max(batch)
<1>3. last \in batch /\ last \in Seqs
  <2>1. batch \subseteq 0 .. MaxSeq /\ batch # {}
    BY <1>1, <1>2 DEF TypeOK, BatchCovers, Seqs
  <2> QED
    BY <1>1, <2>1, MaxOfBounded, WalAssumption DEF TypeOK
<1>4. /\ acknowledged_seq < last /\ last <= durable_seq
      /\ \A q \in Seqs : acknowledged_seq < q /\ q <= last => q \in batch \cup Explained
      /\ batch \subseteq stored \cup Invalid
  BY <1>1, <1>2, <1>3 DEF BatchCovers
<1> HIDE DEF last
<1>5. \A q \in Seqs : q <= last => q \in stored \cup quarantined' \cup Explained
  <2>1. \A q \in Seqs : q <= acknowledged_seq => q \in Settled
    BY <1>1, <1>2 DEF Ordered, NoSilentSkip, TypeOK, Seqs
  <2> QED
    BY <1>1, <1>2, <1>4, <2>1 DEF Settled, TypeOK, Seqs
<1>6. record_budget' \in 1 .. MaximumRecords
  <2>1. record_budget' \in {record_budget, Min({MaximumRecords, 2 * record_budget})}
    BY DEF AnswerArrives
  <2>2. \A a, b \in Nat \ {0} : Min({a, b}) \in {a, b} /\ Min({a, b}) <= a
    BY DEF Min
  <2>3. 2 * record_budget \in Nat \ {0} /\ MaximumRecords \in Nat \ {0}
    BY <1>1, DeliveryAssumption DEF TypeOK
  <2> QED
    BY <1>1, <2>1, <2>2, <2>3 DEF TypeOK
<1>7. CASE Acknowledge(last)
  <2> DEFINE done == {s \in DOMAIN segments : ~IsBack(segments, s) /\ segments[s] <= last}
  <2>1. /\ UNCHANGED <<active, next_seq, durable_seq, pending, losses, reader_seq, up, faults>>
        /\ cursor' = last /\ acknowledged_seq' = last
        /\ segments' = Without(segments, done) /\ disk' = Without(disk, done)
    BY <1>7 DEF Acknowledge
  <2>2. /\ DOMAIN segments' = DOMAIN segments \ done
        /\ \A s \in DOMAIN segments' : segments'[s] = segments[s]
        /\ segments' = [s \in DOMAIN segments' |-> segments'[s]]
        /\ DOMAIN disk' = DOMAIN disk \ done
        /\ \A s \in DOMAIN disk' : disk'[s] = disk[s]
        /\ disk' = [s \in DOMAIN disk' |-> disk'[s]]
    BY <2>1 DEF Without, Restrict
  <2>3. TypeOK'
    <3>1. DOMAIN segments' \subseteq Seqs /\ segments' \in [DOMAIN segments' -> 0 .. MaxSeq]
      BY <1>1, <2>2 DEF TypeOK
    <3>2. DOMAIN disk' \subseteq Seqs /\ disk' \in [DOMAIN disk' -> File]
      BY <1>1, <2>2 DEF TypeOK
    <3>3. last \in 0 .. MaxSeq
      BY <1>3 DEF Seqs
    <3>4. quarantined' \subseteq Seqs
      BY <1>1, <1>2 DEF TypeOK
    <3> QED
      BY SMTT(30), <1>1, <1>2, <1>6, <2>1, <3>1, <3>2, <3>3, <3>4 DEF TypeOK, Phases
  <2>4. Ordered' /\ Indexed' /\ Filed'
    <3> HIDE DEF done
    <3>1. Ordered'
      BY <1>1, <1>2, <1>3, <1>4, <2>1 DEF Ordered, TypeOK, Seqs
    <3>2. Indexed'
      BY <1>1, <2>1, <2>2 DEF Indexed
    <3>3. Filed'
      BY <1>1, <2>1, <2>2 DEF Filed
    <3> QED
      BY <3>1, <3>2, <3>3
  <2>5. Accounted'
    <3>1. \A q \in Seqs : last < q /\ Holds(segments, q) => Holds(segments', q)
      BY <1>1, <1>3, <2>2 DEF Holds, In, TypeOK, Seqs
    <3>2. Explained' = Explained
      BY <1>2, <2>1 DEF Explained
    <3>3. \A q \in Seqs : last < q => acknowledged_seq < q
      BY SMTT(30), <1>1, <1>3, <1>4 DEF TypeOK, Seqs
    <3> QED
      BY <1>1, <1>2, <2>1, <3>1, <3>2, <3>3 DEF Accounted
  <2>6. NoSilentSkip' /\ BatchCovers' /\ FrontForgotten'
    BY <1>2, <1>5, <2>1 DEF NoSilentSkip, Settled, Explained, BatchCovers, FrontForgotten
  <2> QED
    BY <2>3, <2>4, <2>5, <2>6 DEF IInv
<1>8. CASE AcknowledgeFails(last)
  <2>1. UNCHANGED <<memory, disk>> /\ cursor' \in {cursor, last}
    BY <1>8 DEF AcknowledgeFails
  <2>2. faults' \in [FaultNames -> Nat]
    BY <1>1, <1>8, SpendType DEF TypeOK, AcknowledgeFails, FaultNames
  <2>3. TypeOK'
    <3>1. last \in 0 .. MaxSeq
      BY <1>3 DEF Seqs
    <3> QED
      BY SMTT(30), <1>1, <1>2, <1>6, <2>1, <2>2, <3>1 DEF TypeOK, memory, Phases
  <2>4. Ordered' /\ Indexed' /\ Filed' /\ Accounted'
    BY SMTT(30), <1>1, <1>2, <1>3, <1>4, <2>1
    DEF memory, Ordered, Indexed, Filed, Accounted, Explained, Holds, In, TypeOK, Seqs
  <2>5. NoSilentSkip' /\ BatchCovers' /\ FrontForgotten'
    BY <1>1, <1>2, <1>5, <2>1 DEF memory, NoSilentSkip, Settled, Explained, BatchCovers, FrontForgotten
  <2> QED
    BY <2>3, <2>4, <2>5 DEF IInv
<1> QED
  BY <1>7, <1>8 DEF AnswerArrives, last

\* A batch is a prefix of what the log still holds from the cursor on: the
\* read leaves out no record it could have returned, and what it passes over
\* is in the losses by the time it returns.
LEMMA ReadIsPrefix ==
    ASSUME IInv, "length" \notin DamageKinds, up,
           NEW from, from = acknowledged_seq + 1, NEW count \in Nat,
           NEW b \in ReadResult(from, count),
           NEW q \in Seqs, acknowledged_seq < q, q <= b
    PROVE  \/ q \in ReadResult(from, count) \/ q \in Explained
           \/ q \in LostWith(segments, IF MeetsMissing(from, count) THEN Missing ELSE {})
<1>1. TypeOK /\ Filed /\ Ordered /\ Accounted
  BY DEF IInv
<1>2. /\ b \in Seqs /\ b <= durable_seq /\ SkippedDamage(from) = {}
      /\ \A d \in Damaged(from) : b < d
      /\ Below(Readable(from), b) < count
  BY SMTT(30) DEF ReadResult, Readable
<1>3. q < next_seq /\ q <= durable_seq /\ from <= q /\ from \in Nat
  BY <1>1, <1>2 DEF Ordered, TypeOK, Seqs
<1>4. Holds(segments, q) \/ q \in Explained
  BY <1>1, <1>3 DEF Accounted
<1>5. ASSUME NEW s \in DOMAIN segments, In(segments, s, q), s \in DOMAIN disk
      PROVE  q \in ReadResult(from, count)
  <2>1. ~Overshot(from, s)
    BY SMTT(30), <1>1, <1>5 DEF Overshot, Filed
  <2>2. q \in Readable(from)
    BY SMTT(30), <1>3, <1>5, <2>1 DEF Readable, Frame
  <2>3. \A d \in Damaged(from) : q < d
    BY <1>2 DEF Seqs, Damaged, Readable
  <2>4. Below(Readable(from), q) < count
    <3>1. Readable(from) \subseteq Seqs /\ q \in Int /\ b \in Int
      BY <1>2 DEF Readable, Seqs
    <3> QED
      BY <1>2, <3>1, BelowMonotone
  <2> QED
    BY SMTT(30), <1>2, <2>2, <2>3, <2>4 DEF ReadResult
<1>6. ASSUME NEW s \in DOMAIN segments, In(segments, s, q), s \notin DOMAIN disk
      PROVE  MeetsMissing(from, count) /\ q \in LostWith(segments, Missing)
  <2>1. s \in Missing
    BY SMTT(30), <1>6 DEF Missing
  <2>2. s \in Nat /\ segments[s] \in Nat /\ s <= q /\ q <= segments[s] /\ s <= b
        /\ s <= durable_seq /\ from <= segments[s]
    BY SMTT(30), <1>1, <1>2, <1>3, <1>6 DEF TypeOK, Seqs, In
  <2>3. \A d \in Damaged(from) : s < d
    BY <1>2, <2>2 DEF Seqs, Damaged, Readable
  <2>4. Below(Readable(from), s) <= count
    <3>1. Readable(from) \subseteq Seqs /\ s \in Int /\ b \in Int
      BY <1>2, <2>2 DEF Readable, Seqs
    <3> QED
      BY SMTT(30), <1>2, <2>2, <3>1, BelowMonotone
  <2>5. MeetsMissing(from, count)
    BY SMTT(30), <1>2, <2>1, <2>2, <2>3, <2>4 DEF MeetsMissing
  <2> QED
    BY <1>6, <2>1, <2>5 DEF LostWith
<1>7. CASE Holds(segments, q)
  <2>1. PICK s \in DOMAIN segments : In(segments, s, q)
    BY <1>7 DEF Holds
  <2> QED
    BY <1>5, <1>6, <2>1
<1> QED
  BY <1>4, <1>7

\* uplink::step up to the post: the batch covers the log from the cursor on.
LEMMA ReadBatchInv ==
    ASSUME IInv, ReadBatch, "length" \notin DamageKinds
    PROVE  IInv'
<1> USE DEF history
<1> DEFINE from == acknowledged_seq + 1
<1>1. TypeOK /\ Filed /\ Ordered /\ Indexed /\ Accounted
  BY DEF IInv
<1>2. PICK count \in 1 .. record_budget : Read(from, count) /\ batch' = ReadResult(from, count)
  BY SMTT(30) DEF ReadBatch
<1> DEFINE bad == Isolated(from, count)
           drop == IF MeetsMissing(from, count) THEN Missing ELSE {}
           cut == {s \in DOMAIN segments : \E q \in bad : Frame(s, q)}
           emptied == {s \in cut : s \in bad}
           sealed == active /\ \E s \in cut \cup drop : IsBack(segments, s)
           got == ReadResult(from, count)
           ended == drop # {} /\ \A s \in DOMAIN segments \ drop : \E q \in got : segments[s] <= q
           at(s) == CHOOSE q \in bad : Frame(s, q)
           base == IF sealed THEN SyncedBack ELSE disk
<1>3. /\ up /\ from <= durable_seq
      /\ segments' = [s \in DOMAIN segments \ (drop \cup emptied) |->
             IF s \in cut THEN at(s) - 1 ELSE segments[s]]
      /\ losses' = losses \cup LostWith(segments, drop)
             \cup {q \in LostWith(segments, cut) : \E b \in bad : b <= q}
      /\ active' = (active /\ ~sealed)
      /\ durable_seq' = IF sealed THEN next_seq - 1 ELSE durable_seq
      /\ pending' = (pending /\ ~sealed)
      /\ reader_seq' \in IF bad # {} \/ got = {} \/ ended THEN {0} ELSE Position(from, got)
      /\ disk' = Without(base, emptied)
      /\ UNCHANGED <<next_seq, acknowledged_seq, up, cursor, faults>>
  BY ZenonT(30), <1>2 DEF Read
<1>4. /\ phase' = IF batch' = {} THEN "idle" ELSE "posting"
      /\ sent' = sent \cup batch'
      /\ UNCHANGED <<record_budget, quarantined, stored, reported, forgotten>>
  BY SMTT(30) DEF ReadBatch
<1>5. bad \subseteq Seqs /\ got \subseteq Seqs /\ drop \cap DOMAIN disk = {}
  BY ZenonT(30) DEF Isolated, SkippedDamage, Damaged, Readable, ReadResult, Missing
<1>6. \A s \in cut : at(s) \in bad /\ s <= at(s) /\ at(s) <= segments[s] /\ at(s) \in Seqs
                     /\ s \in DOMAIN disk
  <2>1. \A s \in cut : at(s) \in bad /\ Frame(s, at(s))
    OBVIOUS
  <2> HIDE DEF at, cut, bad
  <2> QED
    BY <1>5, <2>1 DEF Frame, In
<1>7. active' \in BOOLEAN /\ pending' \in BOOLEAN
  BY <1>3, Zenon
<1> HIDE DEF bad, drop, cut, sealed, got, ended, at
<1>8. /\ DOMAIN base = DOMAIN disk
      /\ \A s \in DOMAIN disk :
           /\ base[s] \in File
           /\ base[s].last = disk[s].last /\ base[s].bad = disk[s].bad
           /\ base[s].kind = disk[s].kind
           /\ disk[s].synced <= base[s].synced /\ base[s].synced <= disk[s].last
  <2>1. \A s \in DOMAIN disk : disk[s] \in File /\ disk[s].synced <= disk[s].synced
                               /\ disk[s].synced <= disk[s].last
    BY SMTT(30), <1>1 DEF TypeOK, Filed, File
  <2> QED
    BY SMTT(30), <1>1, <2>1, SyncedBackFacts
<1> HIDE DEF base
<1>9. /\ DOMAIN disk' = DOMAIN disk \ emptied
      /\ \A s \in DOMAIN disk' : disk'[s] = base[s]
      /\ disk' = [s \in DOMAIN disk' |-> disk'[s]]
  BY SMTT(30), <1>3, <1>8 DEF Without, Restrict
<1>10. /\ DOMAIN segments' = DOMAIN segments \ (drop \cup emptied)
       /\ \A s \in DOMAIN segments' : segments'[s] = IF s \in cut THEN at(s) - 1 ELSE segments[s]
       /\ segments' = [s \in DOMAIN segments' |-> segments'[s]]
  BY SMTT(30), <1>3
<1>11. \A s \in DOMAIN segments : s \in Nat /\ s > 0 /\ segments[s] \in 0 .. MaxSeq /\ segments[s] \in Nat
  BY <1>1 DEF TypeOK, Seqs
<1>12. \A s \in DOMAIN segments' : s \in cut =>
         segments'[s] \in Nat /\ s <= segments'[s] /\ segments'[s] < segments[s]
  BY SMTT(30), <1>5, <1>6, <1>10, <1>11 DEF Seqs
<1>13. durable_seq' \in 0 .. MaxSeq /\ durable_seq <= durable_seq' /\ durable_seq' < next_seq
  <2>1. durable_seq' \in {durable_seq, next_seq - 1}
    BY ZenonT(30), <1>3
  <2> QED
    BY SMTT(30), <1>1, <1>3, <2>1, WalAssumption DEF TypeOK, Ordered
<1>14. TypeOK'
  <2>1. DOMAIN segments' \subseteq Seqs /\ segments' \in [DOMAIN segments' -> 0 .. MaxSeq]
    BY SMTT(30), <1>1, <1>10, <1>11, <1>12, WalAssumption DEF TypeOK
  <2>2. DOMAIN disk' \subseteq Seqs /\ disk' \in [DOMAIN disk' -> File]
    BY SMTT(30), <1>1, <1>8, <1>9 DEF TypeOK
  <2>3. losses' \subseteq Seqs
    BY <1>1, <1>3 DEF TypeOK, LostWith
  <2>4. reader_seq' \in 0 .. MaxSeq + 1
    <3>1. Position(from, got) \subseteq 1 .. MaxSeq + 1
      BY SMTT(30), WalAssumption DEF Position, Readable, Seqs
    <3>2. reader_seq' = 0 \/ reader_seq' \in Position(from, got)
      BY ZenonT(30), <1>3
    <3> QED
      BY SMTT(30), <3>1, <3>2, WalAssumption
  <2>5. batch' \subseteq Seqs /\ sent' \subseteq Seqs
    BY SMTT(30), <1>1, <1>2, <1>4, <1>5 DEF TypeOK, got
  <2> QED
    BY ZenonT(30), <1>1, <1>3, <1>4, <1>7, <1>13, <2>1, <2>2, <2>3, <2>4, <2>5 DEF TypeOK, Phases
<1>15. Filed'
  <2>1. \A s \in DOMAIN disk' : disk'[s].synced \in Nat
    BY <1>14 DEF TypeOK, File
  <2>2. DOMAIN disk' \subseteq DOMAIN segments'
    BY ZenonT(30), <1>1, <1>3, <1>5, <1>9, <1>10 DEF Filed
  <2>3. next_seq \in Nat /\ next_seq' \in Nat /\ next_seq <= next_seq'
    BY <1>1, <1>3 DEF TypeOK
  <2> QED
    BY ZenonT(30), <1>1, <1>3, <1>8, <1>9, <2>1, <2>2, <2>3, FiledKept
<1>16. Indexed'
  <2>1. \A s \in DOMAIN segments' : segments'[s] \in Nat /\ segments'[s] <= segments[s]
          /\ s \in DOMAIN segments /\ (s <= segments'[s] \/ segments'[s] = segments[s])
    BY <1>10, <1>11, <1>12
  <2>2. next_seq \in Nat
    BY SMTT(30), <1>1 DEF TypeOK
  <2>3. next_seq' = next_seq
    BY ZenonT(30), <1>3
  <2>4. \A s, t \in DOMAIN segments' : s < t => segments'[s] < t
    <3> SUFFICES ASSUME NEW s \in DOMAIN segments', NEW t \in DOMAIN segments', s < t
                 PROVE  segments'[s] < t
      OBVIOUS
    <3>1. segments[s] < t /\ s \in DOMAIN segments /\ t \in DOMAIN segments
      BY <1>1, <2>1 DEF Indexed
    <3> QED
      BY <1>11, <2>1, <3>1
  <2>5. ASSUME NEW s \in DOMAIN segments'
        PROVE  /\ s <= next_seq
               /\ segments'[s] = 0 \/ (s <= segments'[s] /\ segments'[s] < next_seq)
    <3>1. s <= next_seq /\ (segments[s] = 0 \/ (s <= segments[s] /\ segments[s] < next_seq))
      BY <1>1, <2>1 DEF Indexed
    <3> QED
      BY <1>11, <2>1, <2>2, <3>1
  <2> QED
    BY <2>3, <2>4, <2>5 DEF Indexed
<1>17. \A q \in Seqs : acknowledged_seq < q /\ q < next_seq /\ Holds(segments, q)
          => Holds(segments', q) \/ q \in losses'
  <2> SUFFICES ASSUME NEW q \in Seqs, acknowledged_seq < q, NEW s \in DOMAIN segments, In(segments, s, q)
               PROVE  Holds(segments', q) \/ q \in losses'
    BY SMTT(30) DEF Holds
  <2>1. CASE s \in drop
    BY <1>3, <2>1 DEF LostWith
  <2>2. CASE s \in cut
    <3>1. CASE \E b \in bad : b <= q
      BY SMTT(30), <1>3, <2>2, <3>1 DEF LostWith
    <3>2. CASE ~\E b \in bad : b <= q
      <4>1. s \notin emptied
        BY <3>2 DEF In
      <4>2. q <= at(s) - 1
        BY <1>6, <2>2, <3>2 DEF Seqs
      <4> QED
        BY <1>10, <2>1, <2>2, <4>1, <4>2 DEF Holds, In
    <3> QED
      BY SMTT(30), <3>1, <3>2
  <2>3. CASE s \notin drop /\ s \notin cut
    BY SMTT(30), <1>10, <2>3 DEF Holds, In
  <2> QED
    BY <2>1, <2>2, <2>3
<1>18. Ordered' /\ Accounted' /\ FrontForgotten' /\ NoSilentSkip'
  BY SMTT(30), <1>3, <1>4, <1>13, <1>14, <1>17, LogStep
<1>19. BatchCovers'
  <2> SUFFICES ASSUME batch' # {} PROVE BatchCovers'
    BY <1>4 DEF BatchCovers
  <2>1. \A b \in batch' : acknowledged_seq < b /\ b <= durable_seq'
    <3>1. \A b \in batch' : b \in Seqs /\ from <= b /\ b <= durable_seq
      BY SMTT(30), <1>2 DEF ReadResult, Readable
    <3> QED
      BY SMTT(30), <1>1, <1>13, <3>1 DEF TypeOK, Seqs
  <2>2. \A b \in batch', q \in Seqs : acknowledged_seq < q /\ q <= b => q \in batch' \cup Explained'
    <3> SUFFICES ASSUME NEW b \in batch', NEW q \in Seqs, acknowledged_seq < q, q <= b
                 PROVE  q \in batch' \cup Explained'
      OBVIOUS
    <3>1. count \in Nat
      BY SMTT(30), <1>1 DEF TypeOK
    <3>2. q \in batch' \/ q \in Explained \/ q \in LostWith(segments, drop)
      BY <1>2, <1>3, <3>1, ReadIsPrefix DEF drop
    <3> QED
      BY <1>3, <1>4, <3>2 DEF Explained
  <2> QED
    BY ZenonT(30), <1>3, <1>4, <2>1, <2>2 DEF BatchCovers
<1> QED
  BY <1>14, <1>15, <1>16, <1>18, <1>19 DEF IInv
=============================================================================
