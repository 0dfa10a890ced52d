--------------------------- MODULE DeliveryProofs ---------------------------
(***************************************************************************)
(* NoSilentSkip for every number of records, every segment and quota size, *)
(* batch size and number of faults, as long as damage does not hit a       *)
(* length field: first state, crashes, restarts, damage and removals, and  *)
(* the steps of both threads put together.                                 *)
(***************************************************************************)
EXTENDS UplinkProofs

\* An empty log directory and an idle uplink satisfy the invariant.
THEOREM InitInv == Init => IInv
<1> SUFFICES ASSUME Init PROVE IInv
  OBVIOUS
<1> USE WalAssumption, DeliveryAssumption DEF Init, WalInit, NoMap, Seqs
<1>1. TypeOK
  <2>1. DOMAIN segments = {} /\ segments \in [{} -> 0 .. MaxSeq]
    OBVIOUS
  <2>2. DOMAIN disk = {} /\ disk \in [{} -> File]
    OBVIOUS
  <2>3. DOMAIN segments \subseteq Seqs /\ segments \in [DOMAIN segments -> 0 .. MaxSeq]
    BY <2>1
  <2>4. DOMAIN disk \subseteq Seqs /\ disk \in [DOMAIN disk -> File]
    BY <2>2
  <2>5. next_seq \in 1 .. MaxSeq + 1 /\ reader_seq \in 0 .. MaxSeq + 1 /\ record_budget \in 1 .. MaximumRecords
    OBVIOUS
  <2>6. durable_seq \in 0 .. MaxSeq /\ acknowledged_seq \in 0 .. MaxSeq /\ cursor \in 0 .. MaxSeq
    OBVIOUS
  <2>7. active \in BOOLEAN /\ pending \in BOOLEAN /\ up \in BOOLEAN
    BY ZenonT(30)
  <2> QED
    BY <2>3, <2>4, <2>5, <2>6, <2>7 DEF TypeOK, Phases
<1>2. Ordered /\ Indexed /\ Filed /\ Accounted /\ FrontForgotten /\ BatchCovers /\ NoSilentSkip
  BY DEF Ordered, Indexed, Filed, Accounted, FrontForgotten, BatchCovers, NoSilentSkip
<1> QED
  BY <1>1, <1>2 DEF IInv

\* Damage changes what a frame holds, not where it is.
LEMMA DamageInv ==
    ASSUME IInv, Damage, Quiet
    PROVE  IInv'
<1> USE DEF Quiet, uplinkVars, history, memory
<1>1. TypeOK /\ Filed
  BY DEF IInv
<1>2. UNCHANGED <<memory, cursor>>
  BY SMTT(30) DEF Damage
<1>3. PICK s \in DOMAIN disk, kind \in DamageKinds : \E q \in s .. disk[s].synced :
        disk' = [disk EXCEPT ![s].bad = q, ![s].kind = kind]
  BY ZenonT(30) DEF Damage
<1> PICK q \in s .. disk[s].synced : disk' = [disk EXCEPT ![s].bad = q, ![s].kind = kind]
  BY ZenonT(30), <1>3
<1>4. faults' \in [FaultNames -> Nat]
  BY <1>1, SpendType DEF TypeOK, Damage, FaultNames
<1>5. disk[s] \in File /\ s \in Nat /\ q \in Nat /\ s <= q /\ q <= disk[s].synced /\ kind \in Kinds
  BY <1>1, <1>3, WalAssumption DEF TypeOK, Seqs, File
<1> DEFINE hit == [disk[s] EXCEPT !.bad = q, !.kind = kind]
<1>6. /\ hit \in File /\ hit.last = disk[s].last /\ hit.synced = disk[s].synced
      /\ hit.bad = q /\ hit.kind = kind
  BY <1>5 DEF File
<1>7. /\ DOMAIN disk' = DOMAIN disk /\ disk'[s] = hit
      /\ \A t \in DOMAIN disk : t # s => disk'[t] = disk[t]
      /\ disk' = [t \in DOMAIN disk |-> disk'[t]]
  <2>1. disk' = [disk EXCEPT ![s] = hit]
    BY ZenonT(30), <1>3
  <2> HIDE DEF hit
  <2> QED
    BY ZenonT(30), <1>1, <2>1 DEF TypeOK
<1> HIDE DEF hit
<1>8. TypeOK'
  <2>1. DOMAIN disk' \subseteq Seqs /\ disk' \in [DOMAIN disk' -> File]
    BY <1>1, <1>6, <1>7 DEF TypeOK
  <2> QED
    BY <1>1, <1>2, <1>4, <2>1 DEF TypeOK
<1>9. Filed'
  BY <1>1, <1>2, <1>5, <1>6, <1>7 DEF Filed
<1>10. Ordered' /\ Indexed' /\ Accounted' /\ NoSilentSkip' /\ BatchCovers'
  BY <1>2 DEF IInv, Ordered, Indexed, Accounted, NoSilentSkip, Settled, Explained, BatchCovers, Holds, In
<1>11. FrontForgotten'
  <2>1. \A t \in DOMAIN disk : disk'[t].last = disk[t].last
    BY <1>6, <1>7
  <2> QED
    BY <1>2, <1>7, <2>1 DEF IInv, FrontForgotten, Explained
<1> QED
  BY <1>8, <1>9, <1>10, <1>11 DEF IInv

\* A crash keeps every file; what it forgets is what only memory knew.
LEMMA DieInv ==
    ASSUME IInv, Die
    PROVE  IInv'
<1>1. TypeOK /\ Filed /\ Ordered /\ Accounted /\ NoSilentSkip
  BY DEF IInv
<1>2. /\ segments' = NoMap /\ active' = FALSE /\ next_seq' = 1 /\ durable_seq' = 0
      /\ acknowledged_seq' = 0 /\ pending' = FALSE /\ losses' = {} /\ reader_seq' = 0
      /\ up' = FALSE /\ up /\ UNCHANGED cursor /\ Spend("crash")
      /\ phase' = "idle" /\ batch' = {} /\ record_budget' = MaximumRecords
      /\ forgotten' = forgotten \cup losses \cup LostWith(segments, Missing)
      /\ UNCHANGED <<sent, quarantined, stored, reported>>
  BY DEF Die, Crash, Down
<1>3. PICK kept \in 0 .. MaxSeq, part \in BOOLEAN :
        disk' = [s \in DOMAIN disk |-> Survived(disk[s], kept, part)]
  BY DEF Die, Crash
<1>4. \A s \in DOMAIN disk :
        /\ disk'[s] \in File
        /\ disk'[s].last \in Nat /\ disk'[s].synced = disk[s].synced
        /\ disk[s].synced <= disk'[s].last /\ disk'[s].last <= disk[s].last
        /\ disk'[s].bad = disk[s].bad /\ disk'[s].kind = disk[s].kind
  <2> SUFFICES ASSUME NEW s \in DOMAIN disk
               PROVE  /\ disk'[s] \in File
                      /\ disk'[s].last \in Nat /\ disk'[s].synced = disk[s].synced
                      /\ disk[s].synced <= disk'[s].last /\ disk'[s].last <= disk[s].last
                      /\ disk'[s].bad = disk[s].bad /\ disk'[s].kind = disk[s].kind
    OBVIOUS
  <2>1. disk[s] \in File /\ disk[s].synced <= disk[s].last
    BY <1>1 DEF TypeOK, Filed
  <2> DEFINE last == IF kept < disk[s].synced THEN disk[s].synced
                     ELSE IF kept < disk[s].last THEN kept ELSE disk[s].last
             torn == disk[s].torn \/ (part /\ last < disk[s].last)
  <2>2. last \in Nat /\ disk[s].synced <= last /\ last <= disk[s].last
    BY <1>3, <2>1 DEF File
  <2>3. torn \in BOOLEAN
    BY <2>1, Zenon DEF File
  <2>4. disk'[s] = [disk[s] EXCEPT !.last = last, !.torn = torn]
    BY ZenonT(30), <1>3 DEF Survived
  <2> HIDE DEF last, torn
  <2> QED
    BY ZenonT(30), <2>1, <2>2, <2>3, <2>4 DEF File
<1>5. DOMAIN disk' = DOMAIN disk
  BY <1>3
<1>6. TypeOK'
  <2>1. DOMAIN segments' = {} /\ segments' \in [{} -> 0 .. MaxSeq]
    BY <1>2 DEF NoMap
  <2>2. DOMAIN disk' \subseteq Seqs /\ disk' \in [DOMAIN disk' -> File]
    BY <1>1, <1>3, <1>4, <1>5 DEF TypeOK
  <2>3. faults' \in [FaultNames -> Nat]
    BY <1>1, <1>2, SpendType DEF TypeOK, FaultNames
  <2>4. forgotten' \subseteq Seqs
    BY <1>1, <1>2 DEF TypeOK, LostWith
  <2>5. /\ next_seq' \in 1 .. MaxSeq + 1 /\ reader_seq' \in 0 .. MaxSeq + 1
        /\ durable_seq' \in 0 .. MaxSeq /\ acknowledged_seq' \in 0 .. MaxSeq
        /\ record_budget' \in 1 .. MaximumRecords
    BY <1>2, WalAssumption, DeliveryAssumption
  <2>6. DOMAIN segments' \subseteq Seqs /\ segments' \in [DOMAIN segments' -> 0 .. MaxSeq]
    BY SMTT(30), <2>1
  <2> QED
    BY ZenonT(30), <1>1, <1>2, <2>2, <2>3, <2>4, <2>5, <2>6 DEF TypeOK, Phases
<1>7. Filed'
  <2>1. \A s \in DOMAIN disk : s \in Nat /\ disk[s].last \in Nat /\ disk[s].synced \in Nat
    BY <1>1 DEF TypeOK, File, Seqs
  <2> QED
    BY <1>1, <1>2, <1>4, <1>5, <2>1, WalAssumption DEF Filed
<1>8. FrontForgotten'
  <2> SUFFICES ASSUME NEW q \in Seqs, cursor < q, NEW f \in DOMAIN disk, q <= disk'[f].last
               PROVE  (\E s \in DOMAIN disk : s <= q) \/ q \in Explained'
    BY ZenonT(30), <1>2, <1>5 DEF FrontForgotten
  <2>1. q < next_seq /\ acknowledged_seq < q
    BY SMTT(30), <1>1, <1>2, <1>4 DEF Filed, Ordered, TypeOK, File, Seqs
  <2>2. Holds(segments, q) \/ q \in Explained
    BY <1>1, <1>2, <2>1 DEF Accounted
  <2>3. CASE q \in Explained
    BY <1>2, <2>3 DEF Explained
  <2>4. CASE Holds(segments, q)
    <3>1. PICK s \in DOMAIN segments : In(segments, s, q)
      BY <2>4 DEF Holds
    <3>2. CASE s \in DOMAIN disk
      BY <3>1, <3>2 DEF In
    <3>3. CASE s \notin DOMAIN disk
      BY <1>2, <2>1, <3>1, <3>3 DEF Explained, LostWith, Missing
    <3> QED
      BY <3>2, <3>3
  <2> QED
    BY SMTT(30), <2>2, <2>3, <2>4
<1>9. NoSilentSkip'
  BY <1>1, <1>2 DEF NoSilentSkip, Settled, Explained
<1>10. Ordered' /\ Indexed' /\ Accounted' /\ BatchCovers'
  BY <1>2 DEF Ordered, Indexed, Accounted, BatchCovers, NoMap
<1> QED
  BY <1>6, <1>7, <1>8, <1>9, <1>10 DEF IInv

\* A file that goes while the process runs is noticed; one that goes while
\* it does not is forgotten.
LEMMA UnlinkInv ==
    ASSUME IInv, Unlink
    PROVE  IInv'
<1> USE DEF memory, uplinkVars
<1>1. TypeOK /\ Filed
  BY DEF IInv
<1>2. PICK s \in DOMAIN disk :
        /\ Spend("remove") /\ disk' = Without(disk, {s}) /\ UNCHANGED <<memory, cursor>>
        /\ forgotten' = forgotten \cup
             {q \in Seqs : ~up /\ s <= q /\ \A t \in DOMAIN disk : t <= q => t <= s}
        /\ UNCHANGED <<uplinkVars, stored, reported>>
  BY DEF Unlink, Remove
<1>3. /\ DOMAIN disk' = DOMAIN disk \ {s}
      /\ \A t \in DOMAIN disk' : disk'[t] = disk[t]
      /\ disk' = [t \in DOMAIN disk' |-> disk'[t]]
  BY <1>2 DEF Without, Restrict
<1>4. Explained \subseteq Explained'
  BY <1>2 DEF Explained
<1>5. TypeOK'
  <2>1. DOMAIN disk' \subseteq Seqs /\ disk' \in [DOMAIN disk' -> File]
    BY <1>1, <1>3 DEF TypeOK
  <2>2. faults' \in [FaultNames -> Nat]
    BY <1>1, <1>2, SpendType DEF TypeOK, FaultNames
  <2>3. forgotten' \subseteq Seqs
    BY <1>1, <1>2 DEF TypeOK
  <2> QED
    BY ZenonT(30), <1>1, <1>2, <2>1, <2>2, <2>3 DEF TypeOK
<1>6. Filed'
  BY ZenonT(30), <1>1, <1>2, <1>3 DEF Filed
<1>7. Ordered' /\ Indexed' /\ NoSilentSkip' /\ BatchCovers' /\ Accounted'
  BY <1>2, <1>4
  DEF IInv, Ordered, Indexed, NoSilentSkip, Settled, BatchCovers, Accounted, Holds, In
<1>8. FrontForgotten'
  <2> SUFFICES ASSUME ~up, NEW q \in Seqs, cursor < q,
                      NEW f \in DOMAIN disk', q <= disk'[f].last
               PROVE  (\E t \in DOMAIN disk' : t <= q) \/ q \in Explained'
    BY SMTT(30), <1>2 DEF FrontForgotten, IInv
  <2>1. (\E t \in DOMAIN disk : t <= q) \/ q \in Explained
    BY <1>3 DEF IInv, FrontForgotten
  <2>2. CASE \A t \in DOMAIN disk' : ~(t <= q)
    <3>1. \A t \in DOMAIN disk : t <= q => t = s
      BY <1>3, <2>2
    <3>2. CASE s <= q
      <4>1. \A t \in DOMAIN disk : t <= q => t <= s
        BY <1>1, <3>1, <3>2 DEF TypeOK, Seqs
      <4> QED
        BY <1>2, <3>2, <4>1 DEF Explained
    <3> QED
      BY <1>4, <2>1, <3>1, <3>2
  <2> QED
    BY <2>2
<1> QED
  BY <1>5, <1>6, <1>7, <1>8 DEF IInv

\* Recovery accounts for every record above the cursor: it is in the valid
\* prefix of a file, in a gap between files, or in front of the first file.
LEMMA RecoverInv ==
    ASSUME IInv, Quiet, NEW truncated \in BOOLEAN, Recover(truncated),
           faults' \in [FaultNames -> Nat]
    PROVE  IInv'
<1> USE DEF Quiet, uplinkVars, history
<1>1. TypeOK /\ Filed /\ FrontForgotten /\ NoSilentSkip /\ BatchCovers
  BY SMTT(30) DEF IInv
<1> DEFINE kept == {s \in DOMAIN disk : s <= Valid(s) /\ cursor < Valid(s)}
           full == {s \in DOMAIN disk : s <= Valid(s)}
           RL == RecoveredLast
<1>2. /\ segments' = [s \in kept |-> Valid(s)]
      /\ disk' = [s \in kept |->
            [last |-> Valid(s), synced |-> Valid(s), bad |-> 0,
             kind |-> "payload", torn |-> ~truncated /\ Garbage(s)]]
      /\ losses' = Gaps /\ ~up /\ up' = TRUE /\ acknowledged_seq' = cursor
      /\ next_seq' = RL + 1 /\ durable_seq' = RL /\ pending' = FALSE
      /\ reader_seq' = 0 /\ UNCHANGED cursor
  BY ZenonT(30) DEF Recover
<1>3. active' \in BOOLEAN
  BY Zenon DEF Recover
<1>4. \A s \in DOMAIN disk : /\ s \in Seqs /\ s \in Nat /\ Valid(s) \in Nat
                             /\ Valid(s) <= disk[s].last /\ disk[s].last \in Nat
                             /\ Valid(s) <= MaxSeq
  <2>1. \A s \in DOMAIN disk : /\ s \in Seqs /\ s \in Nat /\ s > 0
                               /\ disk[s].last \in Nat /\ disk[s].bad \in Nat /\ disk[s].synced \in Nat
    BY <1>1 DEF TypeOK, Seqs, File
  <2> QED
    BY <1>1, <2>1, WalAssumption DEF Valid, Filed
<1>5. /\ RL \in 0 .. MaxSeq /\ cursor <= RL /\ \A s \in full : Valid(s) <= RL
      /\ RL = cursor \/ \E s \in full : RL = Valid(s)
  <2> DEFINE S == {cursor} \cup {Valid(s) : s \in full}
  <2>1. S \subseteq 0 .. MaxSeq /\ S # {}
    BY SMTT(30), <1>1, <1>4, WalAssumption DEF TypeOK
  <2>2. RL \in S /\ \A x \in S : x <= RL
    BY ZenonT(30), <2>1, MaxOfBounded, WalAssumption DEF RecoveredLast
  <2> QED
    BY <2>1, <2>2
<1> HIDE DEF RL
<1>6. /\ DOMAIN segments' = kept /\ DOMAIN disk' = kept
      /\ \A s \in kept : segments'[s] = Valid(s) /\ disk'[s].last = Valid(s)
            /\ disk'[s].synced = Valid(s) /\ disk'[s].bad = 0 /\ disk'[s].kind = "payload"
  BY <1>2
<1>7. TypeOK'
  <2>1. DOMAIN segments' \subseteq Seqs /\ segments' \in [DOMAIN segments' -> 0 .. MaxSeq]
    <3>1. \A s \in kept : s \in Seqs /\ segments'[s] \in 0 .. MaxSeq
      BY <1>4, <1>6, WalAssumption
    <3>2. segments' = [s \in kept |-> segments'[s]]
      BY <1>2, <1>6
    <3> HIDE DEF kept
    <3> QED
      BY <1>6, <3>1, <3>2
  <2>2. \A s \in kept : Valid(s) \in Nat /\ (~truncated /\ Garbage(s)) \in BOOLEAN
    BY SMTT(30), <1>4
  <2>3. DOMAIN disk' \subseteq Seqs /\ disk' \in [DOMAIN disk' -> File]
    BY ZenonT(30), <1>2, <1>4, <2>2 DEF File, Kinds
  <2>4. losses' \subseteq Seqs
    BY <1>2 DEF Gaps
  <2>5. next_seq' \in 1 .. MaxSeq + 1 /\ durable_seq' \in 0 .. MaxSeq /\ reader_seq' \in 0 .. MaxSeq + 1
    BY SMTT(30), <1>2, <1>5, WalAssumption
  <2> QED
    BY ZenonT(30), <1>1, <1>2, <1>3, <2>1, <2>3, <2>4, <2>5 DEF TypeOK
<1>8. Ordered'
  BY SMTT(30), <1>1, <1>2, <1>5, WalAssumption DEF Ordered, TypeOK
<1>9. Indexed' /\ Filed'
  <2>1. \A s, t \in kept : s < t => Valid(s) < t
    BY SMTT(30), <1>1, <1>4 DEF Filed
  <2>2. \A s \in kept : s <= Valid(s) /\ Valid(s) < RL + 1 /\ s <= RL + 1 /\ Valid(s) <= MaxSeq
                        /\ Valid(s) <= Valid(s)
    BY <1>4, <1>5, WalAssumption
  <2> HIDE DEF kept
  <2> QED
    BY SMTT(30), <1>2, <1>6, <2>1, <2>2 DEF Indexed, Filed
<1>10. Accounted'
  <2> SUFFICES ASSUME NEW q \in Seqs, cursor < q, q < RL + 1
               PROVE  Holds(segments', q) \/ q \in Explained'
    BY SMTT(30), <1>2 DEF Accounted
  <2>1. PICK b \in full : RL = Valid(b)
    BY SMTT(30), <1>1, <1>5, WalAssumption DEF TypeOK, Seqs
  <2>2. q <= Valid(b) /\ q <= disk[b].last
    BY SMTT(30), <1>4, <2>1 DEF Seqs
  <2>3. (\E s \in DOMAIN disk : s <= q) \/ q \in Explained
    BY SMTT(30), <1>1, <1>2, <2>2 DEF FrontForgotten
  <2>4. CASE q \in Explained
    BY ZenonT(30), <1>1, <1>2, <2>4 DEF Explained, FrontForgotten
  <2>5. CASE \E s \in DOMAIN disk : s <= q /\ q <= Valid(s)
    <3>1. PICK s \in DOMAIN disk : s <= q /\ q <= Valid(s)
      BY SMTT(30), <2>5
    <3>2. s \in kept
      BY SMTT(30), <1>1, <1>4, <3>1 DEF TypeOK, Seqs
    <3> QED
      BY <1>6, <3>1, <3>2 DEF Holds, In
  <2>6. CASE (\E s \in DOMAIN disk : s <= q) /\ ~\E s \in DOMAIN disk : s <= q /\ q <= Valid(s)
    <3>1. q < b
      BY <1>4, <2>2, <2>6 DEF Seqs
    <3>2. q \in Gaps
      BY SMTT(30), <2>6, <3>1 DEF Gaps
    <3> QED
      BY SMTT(30), <1>2, <3>2 DEF Explained
  <2> QED
    BY SMTT(30), <2>3, <2>4, <2>5, <2>6
<1>11. NoSilentSkip' /\ FrontForgotten' /\ BatchCovers'
  BY ZenonT(30), <1>1, <1>2 DEF NoSilentSkip, Settled, Explained, FrontForgotten, BatchCovers
<1> QED
  BY <1>7, <1>8, <1>9, <1>10, <1>11 DEF IInv

\* The invariant is inductive: one step per action of each thread.
THEOREM NextInv ==
    ASSUME IInv, [Next]_vars, "length" \notin DamageKinds
    PROVE  IInv'
<1>1. CASE Pipeline
  BY <1>1, WriteInv, RotateFailsInv, RotateLeavesEmptyInv, SealInv, SyncInv,
     VerifyStorageInv, ReportInv DEF Pipeline
<1>2. CASE Uplink
  BY <1>2, ReadBatchInv, UplinkInv, AnswerInv DEF Uplink
<1>3. CASE ManagerStores
  BY <1>3, UplinkInv
<1>4. CASE Environment
  <2>1. CASE Restart /\ Quiet
    BY ZenonT(30), <2>1, RecoverInv DEF Restart, IInv, TypeOK
  <2>2. CASE RestartUncut /\ Quiet
    <3>1. faults' \in [FaultNames -> Nat]
      BY <2>2, SpendType DEF RestartUncut, IInv, TypeOK, FaultNames
    <3> QED
      BY ZenonT(30), <2>2, <3>1, RecoverInv DEF RestartUncut
  <2> QED
    BY SMTT(30), <1>4, <2>1, <2>2, DieInv, UnlinkInv, DamageInv DEF Environment
<1>5. CASE UNCHANGED vars
  BY ZenonT(30), <1>5 DEF IInv, TypeOK, Ordered, Indexed, Filed, Accounted, FrontForgotten, BatchCovers,
              NoSilentSkip, Settled, Explained, Holds, In, vars, walVars, memory, uplinkVars, history
<1> QED
  BY <1>1, <1>2, <1>3, <1>4, <1>5 DEF Next

\* The cursor never passes a record that is not stored, quarantined or part of
\* a loss, through any interleaving of the pipeline, the uplink, crashes,
\* removals, I/O failures and damage other than to a length field.
THEOREM DeliveryAccounts ==
    ASSUME "length" \notin DamageKinds
    PROVE  Spec => []NoSilentSkip
<1>1. IInv => NoSilentSkip
  BY DEF IInv
<1>2. IInv /\ [Next]_vars => IInv'
  BY NextInv
<1> QED
  BY InitInv, <1>1, <1>2, PTL DEF Spec

\* The state keeps its types: in particular no seq passes the end of the log.
THEOREM DeliveryTypes ==
    ASSUME "length" \notin DamageKinds
    PROVE  Spec => []TypeOK
<1>1. IInv => TypeOK
  BY DEF IInv
<1>2. IInv /\ [Next]_vars => IInv'
  BY NextInv
<1> QED
  BY InitInv, <1>1, <1>2, PTL DEF Spec
=============================================================================
