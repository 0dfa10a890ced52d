--------------------------- MODULE PipelineProofs ---------------------------
(***************************************************************************)
(* The steps of the pipeline thread (append, rotate, seal, sync, verify,   *)
(* take_losses) preserve the invariant of Delivery.                        *)
(***************************************************************************)
EXTENDS Delivery, TLAPS

\* Spending a fault keeps the budgets natural numbers.
LEMMA SpendType ==
    ASSUME faults \in [FaultNames -> Nat], NEW fault \in FaultNames, Spend(fault)
    PROVE  faults' \in [FaultNames -> Nat]
<1>1. faults[fault] \in Nat /\ faults[fault] > 0
  BY DEF Spend
<1>2. faults[fault] - 1 \in Nat
  BY <1>1
<1> QED
  BY <1>2 DEF Spend

\* fdatasync of the open segment moves `synced` up to `last`, nothing else.
LEMMA SyncedBackFacts ==
    ASSUME TypeOK, Filed
    PROVE  /\ DOMAIN SyncedBack = DOMAIN disk
           /\ SyncedBack \in [DOMAIN disk -> File]
           /\ \A s \in DOMAIN disk :
                /\ SyncedBack[s].last = disk[s].last /\ SyncedBack[s].bad = disk[s].bad
                /\ SyncedBack[s].kind = disk[s].kind
                /\ disk[s].synced <= SyncedBack[s].synced
                /\ SyncedBack[s].synced <= disk[s].last
<1>1. \A s \in DOMAIN disk : disk[s] \in File /\ disk[s].synced <= disk[s].last
  BY DEF TypeOK, Filed
<1>2. \A s \in DOMAIN disk : [disk[s] EXCEPT !.synced = disk[s].last] \in File
  BY <1>1 DEF File
<1>3. \A s \in DOMAIN disk :
        LET f == [disk[s] EXCEPT !.synced = disk[s].last]
        IN  f.last = disk[s].last /\ f.bad = disk[s].bad /\ f.kind = disk[s].kind
            /\ f.synced = disk[s].last
  BY <1>1 DEF File
<1>4. \A s \in DOMAIN disk : disk[s].synced \in Nat /\ disk[s].last \in Nat
  BY <1>1 DEF File
<1> QED
  BY <1>1, <1>2, <1>3, <1>4 DEF SyncedBack

\* Files whose frames stay where they are stay filed.
LEMMA FiledKept ==
    ASSUME TypeOK, Filed, next_seq \in Nat, next_seq' \in Nat, next_seq <= next_seq',
           DOMAIN disk' \subseteq DOMAIN disk,
           \A s \in DOMAIN disk' :
              /\ disk'[s].last = disk[s].last /\ disk'[s].bad = disk[s].bad
              /\ disk'[s].kind = disk[s].kind /\ disk'[s].synced \in Nat
              /\ disk[s].synced <= disk'[s].synced
              /\ disk'[s].synced <= disk[s].last,
           up' => up, up' => DOMAIN disk' \subseteq DOMAIN segments'
    PROVE  Filed'
<1>1. \A s \in DOMAIN disk : disk[s].synced \in Nat /\ disk[s].last \in Nat /\ disk[s].bad \in Nat
  BY DEF TypeOK, File
<1> QED
  BY <1>1 DEF Filed

\* A step of the running log that gives out no seq and moves no cursor keeps
\* the records accounted for if what leaves the index enters the losses.
LEMMA LogStep ==
    ASSUME IInv, up, up', TypeOK',
           UNCHANGED <<next_seq, acknowledged_seq, cursor, reported, forgotten,
                       quarantined, stored>>,
           durable_seq <= durable_seq', durable_seq' < next_seq,
           losses \subseteq losses',
           \A q \in Seqs : acknowledged_seq < q /\ q < next_seq /\ Holds(segments, q)
               => Holds(segments', q) \/ q \in losses'
    PROVE  /\ Ordered' /\ Accounted' /\ FrontForgotten' /\ NoSilentSkip'
           /\ UNCHANGED <<phase, batch>> => BatchCovers'
<1>1. Explained \subseteq Explained'
  BY DEF Explained
<1>2. Ordered'
  BY DEF IInv, Ordered, TypeOK
<1>3. Accounted'
  BY <1>1 DEF IInv, Accounted, Explained
<1>4. FrontForgotten' /\ NoSilentSkip'
  BY <1>1 DEF IInv, FrontForgotten, NoSilentSkip, Settled
<1>5. UNCHANGED <<phase, batch>> => BatchCovers'
  BY <1>1 DEF IInv, TypeOK, BatchCovers, Seqs
<1> QED
  BY <1>2, <1>3, <1>4, <1>5

\* take_losses() hands the losses over; none is dropped on the way.
LEMMA ReportInv ==
    ASSUME IInv, Report
    PROVE  IInv'
<1> USE DEF uplinkVars
<1>1. /\ UNCHANGED <<segments, active, next_seq, durable_seq, acknowledged_seq,
                     pending, reader_seq, up, disk, cursor, faults>>
      /\ UNCHANGED <<uplinkVars, stored, forgotten>>
      /\ losses' = {} /\ reported' = reported \cup losses /\ up
  BY DEF Report, TakeLosses
<1>2. Explained' = Explained
  BY <1>1 DEF Explained
<1>3. TypeOK'
  BY <1>1 DEF IInv, TypeOK
<1>4. BatchCovers'
  BY <1>1, <1>2 DEF IInv, BatchCovers
<1>5. NoSilentSkip' /\ Ordered' /\ Indexed' /\ Filed' /\ Accounted' /\ FrontForgotten'
  BY <1>1, <1>2 DEF IInv, NoSilentSkip, Settled, Ordered, Indexed, Filed, Accounted, FrontForgotten, Holds, In
<1> QED
  BY <1>3, <1>4, <1>5 DEF IInv

\* sync(): the records up to the end of the log become durable.
LEMMA SyncInv ==
    ASSUME IInv, Sync, Quiet
    PROVE  IInv'
<1> USE DEF Quiet, uplinkVars, history
<1>1. TypeOK /\ Filed /\ Ordered
  BY DEF IInv
<1>2. /\ UNCHANGED <<segments, active, next_seq, acknowledged_seq, losses,
                     reader_seq, up, cursor, faults>>
      /\ up /\ pending' = FALSE /\ durable_seq' = next_seq - 1 /\ disk' = SyncedBack
  BY DEF Sync
<1>3. durable_seq' \in 0 .. MaxSeq /\ durable_seq <= durable_seq' /\ durable_seq' < next_seq
  BY <1>1, <1>2, WalAssumption DEF TypeOK, Ordered
<1>4. TypeOK'
  BY ZenonT(30), <1>1, <1>2, <1>3, SyncedBackFacts DEF TypeOK
<1>5. Filed'
  <2>1. \A s \in DOMAIN disk' : disk'[s].synced \in Nat
    BY <1>4 DEF TypeOK, File
  <2>2. DOMAIN disk' \subseteq DOMAIN segments'
    BY <1>1, <1>2, SyncedBackFacts DEF Filed
  <2>3. next_seq \in Nat /\ next_seq' \in Nat /\ next_seq <= next_seq'
    BY <1>1, <1>2 DEF TypeOK
  <2> QED
    BY <1>1, <1>2, <2>1, <2>2, <2>3, SyncedBackFacts, FiledKept
<1>6. Indexed'
  BY <1>2 DEF IInv, Indexed
<1> QED
  BY <1>2, <1>3, <1>4, <1>5, <1>6, LogStep DEF IInv

\* Closing a full segment, whatever becomes of the next one.
LEMMA RotateFailsInv ==
    ASSUME IInv, RotateFails, Quiet
    PROVE  IInv'
<1> USE DEF Quiet, uplinkVars, history
<1>1. TypeOK /\ Filed /\ Ordered
  BY DEF IInv
<1>2. /\ UNCHANGED <<segments, next_seq, acknowledged_seq, losses, reader_seq, up, cursor>>
      /\ up /\ pending' = ClosedPending /\ active' = FALSE
      /\ durable_seq' \in {ClosedDurable, next_seq - 1} /\ disk' = SyncedBack
  BY DEF RotateFails
<1>3. /\ durable_seq' \in 0 .. MaxSeq /\ durable_seq <= durable_seq' /\ durable_seq' < next_seq
      /\ pending' \in BOOLEAN
  <2>1. durable_seq' \in {durable_seq, next_seq - 1}
    BY <1>2 DEF ClosedDurable
  <2>2. pending' \in BOOLEAN
    BY <1>1, <1>2, Zenon DEF TypeOK, ClosedPending
  <2> QED
    BY <1>1, <1>2, <2>1, <2>2, WalAssumption DEF TypeOK, Ordered
<1>4. faults' \in [FaultNames -> Nat]
  BY <1>1, SpendType DEF TypeOK, RotateFails, FaultNames
<1>5. TypeOK'
  BY ZenonT(30), <1>1, <1>2, <1>3, <1>4, SyncedBackFacts DEF TypeOK
<1>6. Filed'
  <2>1. \A s \in DOMAIN disk' : disk'[s].synced \in Nat
    BY <1>5 DEF TypeOK, File
  <2>2. DOMAIN disk' \subseteq DOMAIN segments'
    BY <1>1, <1>2, SyncedBackFacts DEF Filed
  <2>3. next_seq \in Nat /\ next_seq' \in Nat /\ next_seq <= next_seq'
    BY <1>1, <1>2 DEF TypeOK
  <2> QED
    BY <1>1, <1>2, <2>1, <2>2, <2>3, SyncedBackFacts, FiledKept
<1>7. Indexed'
  BY <1>2 DEF IInv, Indexed
<1> QED
  BY <1>2, <1>3, <1>5, <1>6, <1>7, LogStep DEF IInv

\* append() that leaves an empty segment behind: no record moves.
LEMMA RotateLeavesEmptyInv ==
    ASSUME IInv, RotateLeavesEmpty, Quiet
    PROVE  IInv'
<1> USE DEF Quiet, uplinkVars, history
<1>1. TypeOK /\ Filed /\ Ordered /\ Indexed
  BY DEF IInv
<1>2. /\ UNCHANGED <<next_seq, acknowledged_seq, losses, reader_seq, up, cursor>>
      /\ up /\ active' = TRUE /\ next_seq \in Seqs
      /\ pending' = ClosedPending /\ durable_seq' = ClosedDurable
      /\ segments' = Put(segments, next_seq, 0)
      /\ disk' = Put(SyncedBack, next_seq, NewFile)
  BY DEF RotateLeavesEmpty
<1>3. /\ durable_seq' \in 0 .. MaxSeq /\ durable_seq <= durable_seq' /\ durable_seq' < next_seq
      /\ pending' \in BOOLEAN
  <2>1. durable_seq' \in {durable_seq, next_seq - 1}
    BY <1>2 DEF ClosedDurable
  <2>2. pending' \in BOOLEAN
    BY <1>1, <1>2, Zenon DEF TypeOK, ClosedPending
  <2> QED
    BY <1>1, <1>2, <2>1, <2>2, WalAssumption DEF TypeOK, Ordered
<1>4. faults' \in [FaultNames -> Nat]
  BY <1>1, SpendType DEF TypeOK, RotateLeavesEmpty, FaultNames
<1>5. /\ DOMAIN segments' = DOMAIN segments \cup {next_seq}
      /\ \A s \in DOMAIN segments' : segments'[s] = IF s = next_seq THEN 0 ELSE segments[s]
      /\ segments' = [s \in DOMAIN segments' |-> segments'[s]]
  BY <1>2 DEF Put
<1>6. /\ DOMAIN disk' = DOMAIN disk \cup {next_seq}
      /\ \A s \in DOMAIN disk' : disk'[s] = IF s = next_seq THEN NewFile ELSE SyncedBack[s]
      /\ disk' = [s \in DOMAIN disk' |-> disk'[s]]
  BY <1>1, <1>2, SyncedBackFacts DEF Put
<1>7. NewFile \in File /\ NewFile.last = next_seq - 1 /\ NewFile.synced = next_seq - 1
      /\ NewFile.bad = 0 /\ NewFile.kind = "payload"
  BY <1>2 DEF NewFile, File, Seqs, Kinds
<1>8. TypeOK'
  <2>1. DOMAIN segments' \subseteq Seqs /\ segments' \in [DOMAIN segments' -> 0 .. MaxSeq]
    BY <1>1, <1>2, <1>5, WalAssumption DEF TypeOK
  <2>2. DOMAIN disk' \subseteq Seqs /\ disk' \in [DOMAIN disk' -> File]
    BY <1>1, <1>2, <1>6, <1>7, SyncedBackFacts DEF TypeOK
  <2> QED
    BY <1>1, <1>2, <1>3, <1>4, <2>1, <2>2 DEF TypeOK
<1>9. Filed'
  <2>1. \A s \in DOMAIN disk : /\ s \in Nat /\ disk[s].last \in Nat /\ disk[s].synced \in Nat
                               /\ disk[s].bad \in Nat /\ SyncedBack[s].synced \in Nat
    BY <1>1, SyncedBackFacts DEF TypeOK, File, Seqs
  <2>2. \A s \in DOMAIN disk : disk[s].last < next_seq /\ s <= next_seq
    BY <1>1, <1>2 DEF Filed, Indexed
  <2>3. next_seq \in Nat /\ next_seq - 1 <= MaxSeq /\ next_seq - 1 \in Nat /\ MaxSeq \in Nat
    BY <1>2, WalAssumption DEF Seqs
  <2>4. \A s, t \in DOMAIN disk' : s < t => disk'[s].last < t
    BY SMTT(30), <1>1, <1>6, <1>7, <2>1, <2>2, <2>3, SyncedBackFacts DEF Filed
  <2>5. \A s \in DOMAIN disk' :
         /\ disk'[s].synced <= disk'[s].last /\ disk'[s].last <= MaxSeq
         /\ disk'[s].kind \in DamageKinds \cup {"payload", "header"}
         /\ s \in DOMAIN segments' /\ disk'[s].last < next_seq
    BY SMTT(30), <1>1, <1>2, <1>5, <1>6, <1>7, <2>1, <2>2, <2>3, SyncedBackFacts DEF Filed
  <2> QED
    BY <1>2, <2>4, <2>5 DEF Filed
<1>10. Indexed'
  BY <1>1, <1>2, <1>5 DEF Indexed, TypeOK, Seqs
<1>11. \A q \in Seqs : acknowledged_seq < q /\ q < next_seq /\ Holds(segments, q)
          => Holds(segments', q) \/ q \in losses'
  BY <1>2, <1>5 DEF Holds, In, Seqs
<1> QED
  BY <1>2, <1>3, <1>8, <1>9, <1>10, <1>11, LogStep DEF IInv

\* Sealing a segment that could be neither written nor cut.
LEMMA SealInv ==
    ASSUME IInv, Seal, Quiet
    PROVE  IInv'
<1> USE DEF Quiet, uplinkVars, history
<1>1. TypeOK /\ Filed /\ Ordered /\ Indexed
  BY DEF IInv
<1>2. /\ UNCHANGED <<next_seq, acknowledged_seq, pending, losses, reader_seq, up, cursor>>
      /\ up /\ active' = FALSE
  BY DEF Seal
<1> DEFINE Gone(s) == IF segments[s] = 0 THEN {s} ELSE {}
           Base(fault) == IF fault = "io" THEN SyncedBack ELSE disk
           Torn(s, fault) == [t \in DOMAIN Base(fault) |->
               IF t = s THEN [Base(fault)[t] EXCEPT !.torn = TRUE] ELSE Base(fault)[t]]
<1>3. PICK s \in DOMAIN segments, fault \in {"io", "fsync"} :
         /\ Spend(fault)
         /\ durable_seq' = IF fault = "io" THEN next_seq - 1 ELSE durable_seq
         /\ segments' = Without(segments, Gone(s))
         /\ disk' = Without(Torn(s, fault), Gone(s))
  BY ZenonT(30) DEF Seal
<1>4. durable_seq' \in 0 .. MaxSeq /\ durable_seq <= durable_seq' /\ durable_seq' < next_seq
  BY <1>1, <1>2, <1>3, WalAssumption DEF TypeOK, Ordered
<1>5. faults' \in [FaultNames -> Nat]
  BY <1>1, <1>3, SpendType DEF TypeOK, FaultNames
<1>6. /\ DOMAIN segments' = DOMAIN segments \ Gone(s)
      /\ \A t \in DOMAIN segments' : segments'[t] = segments[t]
      /\ segments' = [t \in DOMAIN segments' |-> segments'[t]]
  BY <1>3 DEF Without, Restrict
<1>7. /\ DOMAIN Base(fault) = DOMAIN disk
      /\ \A t \in DOMAIN disk :
           /\ Base(fault)[t] \in File
           /\ Base(fault)[t].last = disk[t].last /\ Base(fault)[t].bad = disk[t].bad
           /\ Base(fault)[t].kind = disk[t].kind
           /\ disk[t].synced <= Base(fault)[t].synced
           /\ Base(fault)[t].synced <= disk[t].last
  <2>1. \A t \in DOMAIN disk : disk[t] \in File /\ disk[t].synced <= disk[t].last /\ disk[t].synced <= disk[t].synced
    BY <1>1 DEF TypeOK, Filed, File
  <2> QED
    BY <1>1, <2>1, SyncedBackFacts
<1>8. /\ DOMAIN disk' = DOMAIN disk \ Gone(s)
      /\ \A t \in DOMAIN disk' : disk'[t] = Torn(s, fault)[t]
      /\ disk' = [t \in DOMAIN disk' |-> disk'[t]]
  BY <1>3, <1>7 DEF Without, Restrict
<1>9. \A t \in DOMAIN disk :
           /\ Torn(s, fault)[t] \in File
           /\ Torn(s, fault)[t].last = disk[t].last /\ Torn(s, fault)[t].bad = disk[t].bad
           /\ Torn(s, fault)[t].kind = disk[t].kind
           /\ disk[t].synced <= Torn(s, fault)[t].synced
           /\ Torn(s, fault)[t].synced <= disk[t].last
  <2>1. \A f \in File : /\ [f EXCEPT !.torn = TRUE] \in File
                        /\ [f EXCEPT !.torn = TRUE].last = f.last
                        /\ [f EXCEPT !.torn = TRUE].bad = f.bad
                        /\ [f EXCEPT !.torn = TRUE].kind = f.kind
                        /\ [f EXCEPT !.torn = TRUE].synced = f.synced
    BY ZenonT(30) DEF File
  <2> HIDE DEF Base
  <2> QED
    BY <1>7, <2>1
<1> HIDE DEF Torn, Base
<1>10. TypeOK'
  <2>1. DOMAIN segments' \subseteq Seqs /\ segments' \in [DOMAIN segments' -> 0 .. MaxSeq]
    BY <1>1, <1>6 DEF TypeOK
  <2>2. DOMAIN disk' \subseteq Seqs /\ disk' \in [DOMAIN disk' -> File]
    BY <1>1, <1>8, <1>9 DEF TypeOK
  <2> QED
    BY ZenonT(30), <1>1, <1>2, <1>4, <1>5, <2>1, <2>2 DEF TypeOK
<1>11. Filed'
  <2>1. \A t \in DOMAIN disk' : disk'[t].synced \in Nat
    BY <1>10 DEF TypeOK, File
  <2>2. DOMAIN disk' \subseteq DOMAIN segments'
    BY <1>1, <1>2, <1>6, <1>8 DEF Filed
  <2>3. next_seq \in Nat /\ next_seq' \in Nat /\ next_seq <= next_seq'
    BY <1>1, <1>2 DEF TypeOK
  <2> QED
    BY <1>1, <1>2, <1>8, <1>9, <2>1, <2>2, <2>3, FiledKept
<1>12. Indexed'
  BY <1>1, <1>2, <1>6 DEF Indexed
<1>13. \A q \in Seqs : acknowledged_seq < q /\ q < next_seq /\ Holds(segments, q)
          => Holds(segments', q) \/ q \in losses'
  BY <1>1, <1>6 DEF Holds, In, Seqs, TypeOK
<1> QED
  BY <1>2, <1>4, <1>10, <1>11, <1>12, <1>13, LogStep DEF IInv

\* drop_missing_segments(): what leaves the index is in the losses.
LEMMA VerifyStorageInv ==
    ASSUME IInv, VerifyStorage, Quiet
    PROVE  IInv'
<1> USE DEF Quiet, uplinkVars, history
<1>1. TypeOK /\ Filed /\ Ordered /\ Indexed
  BY DEF IInv
<1>2. /\ UNCHANGED <<next_seq, acknowledged_seq, up, disk, cursor, faults>> /\ up
      /\ reader_seq' = 0 /\ active' \in BOOLEAN /\ pending' \in BOOLEAN
      /\ losses' = losses \cup LostWith(segments, Missing)
      /\ durable_seq' \in {durable_seq, next_seq - 1}
  BY DEF VerifyStorage
<1>3. /\ DOMAIN segments' = DOMAIN segments \ Missing
      /\ \A s \in DOMAIN segments' : segments'[s] = segments[s]
      /\ segments' = [s \in DOMAIN segments \ Missing |-> segments[s]]
  BY DEF VerifyStorage, Without, Restrict
<1>4. durable_seq' \in 0 .. MaxSeq /\ durable_seq <= durable_seq' /\ durable_seq' < next_seq
  BY <1>1, <1>2, WalAssumption DEF TypeOK, Ordered
<1>5. TypeOK'
  <2>1. losses' \subseteq Seqs
    BY <1>1, <1>2 DEF TypeOK, LostWith
  <2>2. DOMAIN segments' \subseteq Seqs /\ segments' \in [DOMAIN segments' -> 0 .. MaxSeq]
    BY <1>1, <1>3 DEF TypeOK
  <2> QED
    BY <1>1, <1>2, <1>4, <2>1, <2>2, WalAssumption DEF TypeOK
<1>6. Filed'
  BY <1>1, <1>2, <1>3 DEF Filed, Missing
<1>7. Indexed'
  BY <1>1, <1>2, <1>3 DEF Indexed
<1>8. \A q \in Seqs : acknowledged_seq < q /\ q < next_seq /\ Holds(segments, q)
          => Holds(segments', q) \/ q \in losses'
  BY <1>2, <1>3 DEF Holds, In, LostWith
<1> QED
  BY <1>2, <1>4, <1>5, <1>6, <1>7, <1>8, LogStep DEF IInv

\* An append: the new record is in the last segment; what the quota drops is
\* in the losses.
LEMMA WriteInv ==
    ASSUME IInv, Write
    PROVE  IInv'
<1> USE DEF uplinkVars
<1>1. TypeOK /\ Filed /\ Ordered /\ Indexed /\ Accounted /\ NoSilentSkip /\ BatchCovers
  BY DEF IInv
<1>2. /\ up /\ next_seq \in Seqs /\ next_seq' = next_seq + 1
      /\ active' = TRUE /\ pending' = TRUE
      /\ durable_seq' \in {durable_seq, next_seq - 1}
      /\ UNCHANGED <<acknowledged_seq, reader_seq, up, cursor, faults>>
      /\ reported' = reported \ {next_seq} /\ forgotten' = forgotten \ {next_seq}
      /\ UNCHANGED <<uplinkVars, stored>>
  BY DEF Write, Append, ClosedDurable
<1> DEFINE m(cur) == Put(segments, cur, next_seq)
           opened(cur) == IF MustRotate THEN Put(SyncedBack, cur, NewFile) ELSE disk
           written(cur, kind) == [s \in DOMAIN opened(cur) |->
                                    IF s = cur THEN Extended(opened(cur)[s], kind) ELSE opened(cur)[s]]
           gone(cur) == OverQuota(m(cur))
<1>3. PICK cur \in Seqs, kind \in {"payload", "header"} :
         /\ IF MustRotate THEN cur = next_seq ELSE IsBack(segments, cur)
         /\ segments' = Without(m(cur), gone(cur))
         /\ losses' = losses \cup LostWith(m(cur), gone(cur))
         /\ disk' = Without(written(cur, kind), gone(cur))
  BY ZenonT(30) DEF Write, Append
<1>4. /\ cur \in Nat /\ cur <= next_seq /\ next_seq \in Nat
      /\ \A t \in DOMAIN segments : t \in Nat /\ t <= cur /\ segments[t] \in Nat
  BY <1>1, <1>2, <1>3 DEF TypeOK, Indexed, IsBack, Seqs
<1>5. /\ DOMAIN m(cur) = DOMAIN segments \cup {cur}
      /\ \A t \in DOMAIN m(cur) : m(cur)[t] = IF t = cur THEN next_seq ELSE segments[t]
  BY DEF Put
<1>6. cur \notin gone(cur)
  <2>1. IsBack(m(cur), cur)
    BY <1>4, <1>5 DEF IsBack
  <2> QED
    BY <2>1 DEF OverQuota
<1> HIDE DEF gone
<1>7. /\ DOMAIN segments' = (DOMAIN segments \cup {cur}) \ gone(cur)
      /\ \A t \in DOMAIN segments' : segments'[t] = IF t = cur THEN next_seq ELSE segments[t]
      /\ segments' = [t \in DOMAIN segments' |-> segments'[t]]
  BY <1>3, <1>5 DEF Without, Restrict
<1>8. /\ DOMAIN opened(cur) \subseteq DOMAIN disk \cup {cur}
      /\ opened(cur) = [t \in DOMAIN opened(cur) |-> opened(cur)[t]]
      /\ \A t \in DOMAIN opened(cur) :
           /\ opened(cur)[t] \in File
           /\ \/ /\ t = cur /\ cur = next_seq /\ opened(cur)[t].synced = next_seq - 1
                 /\ opened(cur)[t].bad = 0 /\ opened(cur)[t].kind = "payload"
              \/ /\ t \in DOMAIN disk /\ opened(cur)[t].last = disk[t].last
                 /\ opened(cur)[t].bad = disk[t].bad /\ opened(cur)[t].kind = disk[t].kind
                 /\ disk[t].synced <= opened(cur)[t].synced
                 /\ opened(cur)[t].synced <= disk[t].last
  <2>1. NewFile \in File /\ NewFile.last = next_seq - 1 /\ NewFile.synced = next_seq - 1
        /\ NewFile.bad = 0 /\ NewFile.kind = "payload"
    BY <1>2 DEF NewFile, File, Seqs, Kinds
  <2>2. CASE MustRotate
    <3>1. /\ DOMAIN opened(cur) = DOMAIN disk \cup {cur}
          /\ \A t \in DOMAIN opened(cur) : opened(cur)[t] = IF t = cur THEN NewFile ELSE SyncedBack[t]
          /\ opened(cur) = [t \in DOMAIN opened(cur) |-> opened(cur)[t]]
      BY SMTT(30), <1>1, <2>2, SyncedBackFacts DEF Put
    <3> HIDE DEF opened
    <3> QED
      BY SMTT(30), <1>1, <1>3, <2>1, <2>2, <3>1, SyncedBackFacts
  <2>3. CASE ~MustRotate
    <3>1. opened(cur) = disk
      BY SMTT(30), <2>3
    <3>2. \A t \in DOMAIN disk : disk[t] \in File /\ disk[t].synced <= disk[t].synced /\ disk[t].synced <= disk[t].last
      BY <1>1 DEF TypeOK, Filed, File
    <3>3. disk = [t \in DOMAIN disk |-> disk[t]]
      BY <1>1 DEF TypeOK
    <3> HIDE DEF opened
    <3> QED
      BY <3>1, <3>2, <3>3
  <2> QED
    BY ZenonT(30), <2>2, <2>3
<1> HIDE DEF opened
<1>9. /\ DOMAIN written(cur, kind) = DOMAIN opened(cur)
      /\ written(cur, kind) = [t \in DOMAIN written(cur, kind) |-> written(cur, kind)[t]]
      /\ \A t \in DOMAIN written(cur, kind) :
           written(cur, kind)[t] = IF t = cur THEN Extended(opened(cur)[t], kind) ELSE opened(cur)[t]
  OBVIOUS
<1> HIDE DEF written
<1>10. /\ DOMAIN disk' = DOMAIN written(cur, kind) \ gone(cur)
       /\ \A t \in DOMAIN disk' : disk'[t] = written(cur, kind)[t]
       /\ disk' = [t \in DOMAIN disk' |-> disk'[t]]
  BY SMTT(30), <1>3 DEF Without, Restrict
<1>11. \A t \in DOMAIN disk' :
         /\ disk'[t] \in File
         /\ t \in DOMAIN disk \cup {cur}
         /\ t # cur => /\ t \in DOMAIN disk /\ disk'[t].last = disk[t].last
                       /\ disk'[t].kind = disk[t].kind
                       /\ disk'[t].synced <= disk[t].last
         /\ t = cur => /\ disk'[t].last = next_seq
                       /\ \/ cur = next_seq /\ disk'[t].synced = next_seq - 1
                             /\ disk'[t].kind \in {"payload", "header"}
                          \/ /\ t \in DOMAIN disk
                             /\ disk'[t].kind \in {disk[t].kind, "payload", "header"}
                             /\ disk'[t].synced <= disk[t].last
  <2>1. ASSUME NEW f \in File
        PROVE  /\ Extended(f, kind) \in File
               /\ Extended(f, kind).last = next_seq /\ Extended(f, kind).synced = f.synced
               /\ Extended(f, kind).kind \in {f.kind, "payload", "header"}
    <3>1. kind \in Kinds /\ kind \in {"payload", "header"}
      BY <1>3 DEF Kinds
    <3>2. CASE f.torn /\ f.bad = 0
      <4>1. Extended(f, kind) = [f EXCEPT !.last = next_seq, !.bad = next_seq, !.kind = kind]
        BY <3>2 DEF Extended
      <4> QED
        BY <1>4, <3>1, <4>1 DEF File
    <3>3. CASE ~(f.torn /\ f.bad = 0)
      <4>1. Extended(f, kind) = [f EXCEPT !.last = next_seq]
        BY <3>3 DEF Extended
      <4> QED
        BY <1>4, <4>1 DEF File
    <3> QED
      BY <3>2, <3>3
  <2> SUFFICES ASSUME NEW t \in DOMAIN disk'
               PROVE
                      /\ disk'[t] \in File
                      /\ t \in DOMAIN disk \cup {cur}
                      /\ t # cur => /\ t \in DOMAIN disk /\ disk'[t].last = disk[t].last
                                    /\ disk'[t].kind = disk[t].kind
                                    /\ disk'[t].synced <= disk[t].last
                      /\ t = cur => /\ disk'[t].last = next_seq
                                    /\ \/ cur = next_seq /\ disk'[t].synced = next_seq - 1
                                          /\ disk'[t].kind \in {"payload", "header"}
                                       \/ /\ t \in DOMAIN disk
                                          /\ disk'[t].kind \in {disk[t].kind, "payload", "header"}
                                          /\ disk'[t].synced <= disk[t].last
    OBVIOUS
  <2>2. t \in DOMAIN opened(cur) /\ disk'[t] = written(cur, kind)[t]
    BY SMTT(30), <1>9, <1>10
  <2>3. CASE t = cur
    <3>1. disk'[t] = Extended(opened(cur)[t], kind)
      BY <1>9, <2>2, <2>3
    <3>2. opened(cur)[t] \in File
      BY <1>8, <2>2
    <3>3. /\ disk'[t] \in File /\ disk'[t].last = next_seq
          /\ disk'[t].kind \in {opened(cur)[t].kind, "payload", "header"}
          /\ disk'[t].synced = opened(cur)[t].synced
      BY <2>1, <3>1, <3>2
    <3> QED
      BY <1>8, <2>2, <2>3, <3>3
  <2>4. CASE t # cur
    <3>1. disk'[t] = opened(cur)[t]
      BY SMTT(30), <1>9, <2>2, <2>4
    <3> QED
      BY <1>8, <2>2, <2>4, <3>1
  <2> QED
    BY ZenonT(30), <2>3, <2>4
<1>12. durable_seq' \in 0 .. MaxSeq /\ durable_seq <= durable_seq' /\ durable_seq' < next_seq
  BY SMTT(30), <1>1, <1>2, WalAssumption DEF TypeOK, Ordered, Seqs
<1>13. TypeOK'
  <2>1. DOMAIN segments' \subseteq Seqs /\ segments' \in [DOMAIN segments' -> 0 .. MaxSeq]
    BY SMTT(30), <1>1, <1>2, <1>3, <1>7 DEF TypeOK, Seqs
  <2>2. DOMAIN disk' \subseteq Seqs /\ disk' \in [DOMAIN disk' -> File]
    <3>1. DOMAIN disk \subseteq Seqs
      BY <1>1 DEF TypeOK
    <3>2. DOMAIN disk' \subseteq Seqs
      BY ZenonT(30), <1>3, <1>11, <3>1
    <3>3. \A t \in DOMAIN disk' : disk'[t] \in File
      BY ZenonT(30), <1>11
    <3>4. disk' = [t \in DOMAIN disk' |-> disk'[t]]
      BY <1>10
    <3>5. disk' \in [DOMAIN disk' -> File]
      BY ZenonT(30), <3>3, <3>4
    <3> QED
      BY <3>2, <3>5
  <2>3. losses' \subseteq Seqs
    BY <1>1, <1>3 DEF TypeOK, LostWith
  <2>4. next_seq' \in 1 .. MaxSeq + 1
    BY SMTT(30), <1>2, WalAssumption DEF Seqs
  <2> QED
    BY SMTT(30), <1>1, <1>2, <1>12, <2>1, <2>2, <2>3, <2>4 DEF TypeOK
<1>14. Ordered'
  BY <1>1, <1>2, <1>12 DEF Ordered, TypeOK, Seqs
<1>15. Indexed'
  <2>1. cur > 0 /\ (cur \in DOMAIN segments \/ cur = next_seq)
    BY <1>3 DEF IsBack, Seqs
  <2>2. \A t \in DOMAIN segments : t < cur => segments[t] < cur
    BY <1>1, <1>4, <2>1 DEF Indexed
  <2>3. \A s, t \in DOMAIN segments' : s < t => segments'[s] < t
    BY <1>1, <1>4, <1>7, <2>2 DEF Indexed
  <2>4. \A s \in DOMAIN segments' :
         /\ s <= next_seq + 1
         /\ segments'[s] = 0 \/ (s <= segments'[s] /\ segments'[s] < next_seq + 1)
    BY SMTT(30), <1>1, <1>4, <1>7 DEF Indexed
  <2> QED
    BY <1>2, <2>3, <2>4 DEF Indexed
<1>16. Filed'
  <2>1. \A t \in DOMAIN disk : /\ t \in Nat /\ disk[t].last \in Nat /\ disk[t].synced \in Nat
                               /\ disk[t].bad \in Nat
                               /\ disk[t].last < next_seq /\ t \in DOMAIN segments
    BY SMTT(30), <1>1, <1>2 DEF TypeOK, File, Seqs, Filed
  <2>2. \A t \in DOMAIN disk' : disk'[t].synced \in Nat
    BY <1>11 DEF File
  <2>3. next_seq <= MaxSeq /\ MaxSeq \in Nat
    BY SMTT(30), <1>2, WalAssumption DEF Seqs
  <2>4. \A s, t \in DOMAIN disk' : s < t => disk'[s].last < t
    BY SMTT(30), <1>1, <1>4, <1>11, <2>1 DEF Filed
  <2>5. DOMAIN disk' \subseteq DOMAIN segments'
    BY SMTT(30), <1>7, <1>10, <1>11, <2>1
  <2>6. ASSUME NEW t \in DOMAIN disk'
        PROVE  /\ disk'[t].synced <= disk'[t].last /\ disk'[t].last <= MaxSeq
               /\ disk'[t].kind \in DamageKinds \cup {"payload", "header"}
               /\ disk'[t].last < next_seq'
    <3>1. next_seq \in Nat /\ next_seq' = next_seq + 1
      BY <1>2, <1>4
    <3>2. ASSUME t \in DOMAIN disk
          PROVE  /\ disk[t].synced <= disk[t].last
                 /\ disk[t].kind \in DamageKinds \cup {"payload", "header"}
      BY <1>1, <3>2 DEF Filed
    <3>3. CASE t = cur
      BY <1>11, <2>1, <2>2, <2>3, <3>1, <3>2, <3>3
    <3>4. CASE t # cur
      BY <1>11, <2>1, <2>2, <2>3, <3>1, <3>2, <3>4
    <3> QED
      BY <3>3, <3>4
  <2> QED
    BY SMTT(30), <2>4, <2>5, <2>6 DEF Filed
<1>17. \A q \in Explained : q # next_seq => q \in Explained'
  BY <1>2, <1>3 DEF Explained
<1>18. Accounted'
  <2> SUFFICES ASSUME NEW q \in Seqs, acknowledged_seq < q, q < next_seq + 1
               PROVE  Holds(segments', q) \/ q \in Explained'
    BY <1>2 DEF Accounted
  <2>1. CASE q = next_seq
    BY <1>4, <1>6, <1>7, <2>1 DEF Holds, In
  <2>2. CASE q # next_seq
    <3>1. q < next_seq
      BY <1>4, <2>2 DEF Seqs
    <3>2. Holds(segments, q) \/ q \in Explained
      BY <1>1, <1>2, <3>1 DEF Accounted
    <3>3. CASE Holds(segments, q)
      <4>1. PICK s \in DOMAIN segments : s <= q /\ q <= segments[s]
        BY <3>3 DEF Holds, In
      <4>2. In(m(cur), s, q)
        <5>1. s \in DOMAIN m(cur) /\ q <= m(cur)[s]
          BY SMTT(30), <1>4, <1>5, <3>1, <4>1 DEF Seqs
        <5> QED
          BY SMTT(30), <4>1, <5>1 DEF In
      <4>3. CASE s \in gone(cur)
        BY <1>3, <4>2, <4>3 DEF Explained, LostWith
      <4>4. CASE s \notin gone(cur)
        <5>1. s \in DOMAIN segments' /\ s <= q /\ q <= segments'[s]
          BY SMTT(30), <1>4, <1>7, <3>1, <4>1, <4>4 DEF Seqs
        <5> QED
          BY <5>1 DEF Holds, In
      <4> QED
        BY <4>3, <4>4
    <3> QED
      BY <1>17, <2>2, <3>2, <3>3
  <2> QED
    BY <2>1, <2>2
<1>19. NoSilentSkip' /\ FrontForgotten'
  <2>1. \A q \in Seqs : q <= cursor => q # next_seq
    BY SMTT(30), <1>1, <1>2 DEF Ordered, TypeOK, Seqs
  <2> QED
    BY SMTT(30), <1>1, <1>2, <1>17, <2>1 DEF NoSilentSkip, Settled, FrontForgotten
<1>20. BatchCovers'
  <2>1. \A q \in Seqs, b \in batch : q <= b /\ b <= durable_seq => q # next_seq
    BY SMTT(30), <1>1, <1>2 DEF Ordered, TypeOK, Seqs
  <2>2. \A b \in batch : b <= durable_seq => b <= durable_seq'
    BY <1>1, <1>12 DEF TypeOK, Seqs
  <2> QED
    BY SMTT(30), <1>1, <1>2, <1>17, <2>1, <2>2 DEF BatchCovers
<1> QED
  BY <1>13, <1>14, <1>15, <1>16, <1>18, <1>19, <1>20 DEF IInv
=============================================================================
