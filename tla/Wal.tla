-------------------------------- MODULE Wal --------------------------------
(***************************************************************************)
(* The sensor's write-ahead log (sensor/wal.cpp): segment files holding    *)
(* consecutive frames, an in-memory index of them, a durable delivery      *)
(* cursor, recovery, quota, and what the log does when its files are       *)
(* damaged or removed under it.  The class takes one mutex in every        *)
(* method, so every method is one action.  The pipeline thread appends,    *)
(* syncs and verifies; the uplink thread reads and acknowledges.           *)
(*                                                                         *)
(* A frame is one unit long: SegmentFrames and QuotaFrames stand for       *)
(* segment_bytes and quota_bytes.  A segment is named by its first seq,    *)
(* as its file is.                                                         *)
(***************************************************************************)
EXTENDS Integers, FiniteSets, FiniteSetsExt, Functions

CONSTANTS
    MaxSeq,         \* bound: no record above this seq is appended
    SegmentFrames,  \* frames a segment holds
    QuotaFrames,    \* frames all segments together may hold
    DamageKinds,    \* how a frame at rest can be damaged
    MaxFaults       \* bound: faults of each kind in one behaviour

Kinds == {"payload", "header", "length"}
FaultNames == {"crash", "damage", "remove", "io", "fsync"}

\* write_ahead_log::open refuses a quota below two segments.
ASSUME WalAssumption ==
    /\ MaxSeq \in Nat
    /\ SegmentFrames \in Nat \ {0}
    /\ QuotaFrames \in Nat /\ QuotaFrames >= 2 * SegmentFrames
    /\ DamageKinds \subseteq Kinds
    /\ MaxFaults \in [FaultNames -> Nat]

VARIABLES
    \* The process's view, lost in a crash.
    segments,          \* first seq -> last seq (0: no frame yet)
    active,            \* active_fd_ >= 0: the last segment is open for appends
    next_seq, durable_seq, acknowledged_seq,
    pending,           \* pending_bytes_ > 0
    losses,            \* seqs covered by losses_, not yet taken
    reader_seq,        \* the seq the cached read position stands on (0: none).
                       \* delete_segment() drops a position in its file; the
                       \* frames below it went with the file, so a read finds
                       \* its first frame the same way with it as without it
    up,                \* the process runs
    \* The disk.
    disk,              \* first seq -> the file: see File
    cursor,            \* the seq in the cursor file (0: none)
    \* Bounds.
    faults             \* faults left, by kind

memory == <<segments, active, next_seq, durable_seq, acknowledged_seq,
            pending, losses, reader_seq, up>>
walVars == <<memory, disk, cursor, faults>>

Seqs == 1 .. MaxSeq
NoMap == [s \in {} |-> 0]

\* A segment file: the last frame written into it, the last one an fdatasync
\* covered, the damaged frame if any, and whether bytes that are no frame
\* follow the last one.
File == [last : Nat, synced : Nat, bad : Nat, kind : Kinds, torn : BOOLEAN]

Without(map, gone) == Restrict(map, DOMAIN map \ gone)
Put(map, key, value) ==
    [s \in DOMAIN map \cup {key} |-> IF s = key THEN value ELSE map[s]]

\* Segment s of the index m holds the record q.
In(m, s, q) == s <= q /\ q <= m[s]
Holds(m, q) == \E s \in DOMAIN m : In(m, s, q)
IsBack(m, s) == s \in DOMAIN m /\ \A t \in DOMAIN m : t <= s
Bytes(m, s) == IF m[s] = 0 THEN 0 ELSE m[s] - s + 1

\* Mutant: a loss that starts one record too late.
LostWithLate(m, gone) ==
    {q \in Seqs : q > acknowledged_seq + 1 /\ \E s \in gone : In(m, s, q)}

\* The unacknowledged records of the given segments: what a loss reports.
LostWith(m, gone) ==
    {q \in Seqs : q > acknowledged_seq /\ \E s \in gone : In(m, s, q)}

Spend(fault) ==
    /\ faults[fault] > 0
    /\ faults' = [faults EXCEPT ![fault] = @ - 1]
-----------------------------------------------------------------------------
\* Mutant: the open segment is closed without fdatasync.
NotSyncedBack == disk

\* fdatasync of the open segment: its frames are on stable storage.  A file
\* that lost its name is synced too, but no reader will find it.
SyncedBack ==
    [s \in DOMAIN disk |->
        IF active /\ IsBack(segments, s)
        THEN [disk[s] EXCEPT !.synced = disk[s].last] ELSE disk[s]]

\* append() must open a segment: none is open, or the frame does not fit.
MustRotate ==
    ~active \/ \E s \in DOMAIN segments :
                  IsBack(segments, s) /\ Bytes(segments, s) + 1 > SegmentFrames

\* open_active() syncs the segment it closes.
ClosedDurable == IF active THEN next_seq - 1 ELSE durable_seq
ClosedPending == IF active THEN FALSE ELSE pending

NewFile == [last |-> next_seq - 1, synced |-> next_seq - 1, bad |-> 0,
            kind |-> "payload", torn |-> FALSE]

\* Mutant: one frame over the quota is let through.
OverQuotaByOne(m) ==
    {s \in DOMAIN m :
        /\ ~IsBack(m, s)
        /\ QuotaFrames + 1 < MapThenSumSet(LAMBDA t : Bytes(m, t),
                                           {t \in DOMAIN m : t >= s})}

\* enforce_quota(): the oldest segments go until the rest fit; the last stays.
OverQuota(m) ==
    {s \in DOMAIN m :
        /\ ~IsBack(m, s)
        /\ QuotaFrames < MapThenSumSet(LAMBDA t : Bytes(m, t),
                                       {t \in DOMAIN m : t >= s})}

\* The file with the next frame at its end.  Where bytes that are no frame were
\* left there, it lies behind them, and a reader finds them in its place.
Extended(f, kind) ==
    IF f.torn /\ f.bad = 0
    THEN [f EXCEPT !.last = next_seq, !.bad = next_seq, !.kind = kind]
    ELSE [f EXCEPT !.last = next_seq]

Append ==
    /\ up /\ next_seq \in Seqs
    /\ \E cur \in Seqs, kind \in {"payload", "header"} :
        LET m == Put(segments, cur, next_seq)
            opened == IF MustRotate THEN Put(SyncedBack, cur, NewFile) ELSE disk
            written == [s \in DOMAIN opened |->
                            IF s = cur THEN Extended(opened[s], kind) ELSE opened[s]]
            gone == OverQuota(m)
        IN  /\ IF MustRotate THEN cur = next_seq ELSE IsBack(segments, cur)
            /\ segments' = Without(m, gone)
            /\ losses' = losses \cup LostWith(m, gone)
            /\ disk' = Without(written, gone)
    /\ durable_seq' = IF MustRotate THEN ClosedDurable ELSE durable_seq
    /\ next_seq' = next_seq + 1
    /\ active' = TRUE /\ pending' = TRUE
    /\ UNCHANGED <<acknowledged_seq, reader_seq, up, cursor, faults>>

\* append() returned an error after closing the segment that was open, if any:
\* the next one could not be created; or it was created and the frame neither
\* written nor cut, and it was removed again, perhaps after its fdatasync.
RotateFails ==
    /\ up /\ MustRotate /\ Spend("io")
    /\ active' = FALSE /\ pending' = ClosedPending
    /\ durable_seq' \in {ClosedDurable, next_seq - 1}
    /\ disk' = SyncedBack
    /\ UNCHANGED <<segments, next_seq, acknowledged_seq, losses, reader_seq,
                   up, cursor>>

\* append() returned an error after creating the next segment: the directory
\* could not be synced, or the frame not written.  The segment stays, empty.
RotateLeavesEmpty ==
    /\ up /\ next_seq \in Seqs /\ MustRotate /\ Spend("io")
    /\ segments' = Put(segments, next_seq, 0)
    /\ disk' = Put(SyncedBack, next_seq, NewFile)
    /\ active' = TRUE
    /\ durable_seq' = ClosedDurable /\ pending' = ClosedPending
    /\ UNCHANGED <<next_seq, acknowledged_seq, losses, reader_seq, up, cursor>>

\* append() could neither write the frame nor cut what it wrote of it: the
\* segment is sealed.  Whether its fdatasync succeeds decides durable_seq_.
Seal ==
    /\ up /\ active /\ ~MustRotate
    /\ \E s \in DOMAIN segments, fault \in {"io", "fsync"} :
        LET f == IF fault = "io" THEN SyncedBack ELSE disk
            gone == IF segments[s] = 0 THEN {s} ELSE {}
        IN  /\ IsBack(segments, s) /\ Spend(fault)
            /\ durable_seq' = IF fault = "io" THEN next_seq - 1 ELSE durable_seq
            /\ segments' = Without(segments, gone)
            /\ disk' = Without([t \in DOMAIN f |->
                   IF t = s THEN [f[t] EXCEPT !.torn = TRUE] ELSE f[t]], gone)
    /\ active' = FALSE
    /\ UNCHANGED <<next_seq, acknowledged_seq, pending, losses, reader_seq, up,
                   cursor>>

Sync ==
    /\ up /\ pending /\ active
    /\ durable_seq' = next_seq - 1
    /\ pending' = FALSE
    /\ disk' = SyncedBack
    /\ UNCHANGED <<segments, active, next_seq, acknowledged_seq, losses,
                   reader_seq, up, cursor, faults>>
-----------------------------------------------------------------------------
\* drop_missing_segments(): segments whose file has lost its name.
Missing == DOMAIN segments \ DOMAIN disk
ActiveMissing == active /\ \E s \in Missing : IsBack(segments, s)

VerifyStorage ==
    /\ up /\ Missing # {}
    /\ segments' = Without(segments, Missing)
    /\ losses' = losses \cup LostWith(segments, Missing)
    /\ reader_seq' = 0
    /\ active' = (active /\ ~ActiveMissing)
    /\ durable_seq' = IF ActiveMissing THEN next_seq - 1 ELSE durable_seq
    /\ pending' = (pending /\ ~ActiveMissing)
    /\ UNCHANGED <<next_seq, acknowledged_seq, up, disk, cursor, faults>>

\* read(): the frames it looks at, in order.  A read that does not resume at
\* its cached position walks over the frames below `from` by their length
\* fields alone.
Frame(s, q) == s \in DOMAIN disk /\ In(segments, s, q)
Bad(s, q) == disk[s].bad = q
ReadStart(from, s) ==
    s <= from /\ \A t \in DOMAIN segments : t <= from => t <= s

\* A damaged length field of a frame that is walked over carries the walk
\* past the end of the segment, which looks like its regular end.
Overshot(from, s) ==
    /\ reader_seq # from
    /\ disk[s].kind = "length" /\ disk[s].bad # 0 /\ disk[s].bad < from
Readable(from) ==
    {q \in Seqs : /\ from <= q /\ q <= durable_seq
                  /\ \E s \in DOMAIN segments : Frame(s, q) /\ ~Overshot(from, s)}

\* A damaged magic or seq is noticed in a frame that is walked over too.
SkippedDamage(from) ==
    {q \in Seqs : /\ q < from /\ reader_seq # from
                  /\ \E s \in DOMAIN segments :
                       /\ Frame(s, q) /\ ReadStart(from, s)
                       /\ Bad(s, q) /\ disk[s].kind = "header"}
Damaged(from) ==
    {q \in Readable(from) : \E s \in DOMAIN segments : Frame(s, q) /\ Bad(s, q)}

Below(S, q) == Cardinality({p \in S : p < q})

\* The records returned: up to `count`, and none at or after a damaged frame.
ReadResult(from, count) ==
    {q \in Readable(from) :
        /\ SkippedDamage(from) = {}
        /\ \A d \in Damaged(from) : q < d
        /\ Below(Readable(from), q) < count}

\* The damaged frame the read runs into, if any (at most one).  The header is
\* checked before the record count, the payload after it.
Isolated(from, count) ==
    SkippedDamage(from) \cup
    {d \in Damaged(from) :
        /\ SkippedDamage(from) = {}
        /\ \A e \in Damaged(from) : d <= e
        /\ \E s \in DOMAIN segments :
             /\ Frame(s, d)
             /\ Below(Readable(from), d) < count + (IF disk[s].kind = "header" THEN 1 ELSE 0)}

\* The read opens a segment that is gone before it has what it wants.
MeetsMissing(from, count) ==
    \E s \in Missing :
        /\ s <= durable_seq /\ from <= segments[s]
        /\ SkippedDamage(from) = {}
        /\ \A d \in Damaged(from) : s < d
        /\ Below(Readable(from), s) <= count

\* Where read() leaves its cached position: on the next frame if the batch was
\* full, otherwise behind its last record.
Position(from, got) ==
    LET rest == {q \in Readable(from) : \A p \in got : p < q}
    IN  {q \in rest : \A r \in rest : q <= r} \cup
        {q \in 1 .. MaxSeq + 1 : rest = {} /\ q - 1 \in got /\ \A p \in got : p < q}

\* read(), with isolate_corrupt_tail() where it meets a damaged frame: the
\* records from there to the end of the segment are lost, the rest is kept.
Read(from, count) ==
    LET bad == Isolated(from, count)
        drop == IF MeetsMissing(from, count) THEN Missing ELSE {}
        cut == {s \in DOMAIN segments : \E q \in bad : Frame(s, q)}
        emptied == {s \in cut : s \in bad}
        sealed == active /\ \E s \in cut \cup drop : IsBack(segments, s)
        got == ReadResult(from, count)
        ended == drop # {} /\ \A s \in DOMAIN segments \ drop : \E q \in got : segments[s] <= q
    IN  /\ up /\ from <= durable_seq
        /\ segments' = [s \in DOMAIN segments \ (drop \cup emptied) |->
               IF s \in cut THEN (CHOOSE q \in bad : Frame(s, q)) - 1 ELSE segments[s]]
        /\ losses' = losses \cup LostWith(segments, drop)
               \cup {q \in LostWith(segments, cut) : \E b \in bad : b <= q}
        /\ active' = (active /\ ~sealed)
        /\ durable_seq' = IF sealed THEN next_seq - 1 ELSE durable_seq
        /\ pending' = (pending /\ ~sealed)
        /\ reader_seq' \in IF bad # {} \/ got = {} \/ ended THEN {0} ELSE Position(from, got)
        /\ disk' = Without(IF sealed THEN SyncedBack ELSE disk, emptied)
        /\ UNCHANGED <<next_seq, acknowledged_seq, up, cursor, faults>>

\* acknowledge(): the cursor file first, then the segments it has passed.
Acknowledge(seq) ==
    LET done == {s \in DOMAIN segments : ~IsBack(segments, s) /\ segments[s] <= seq}
    IN  /\ up /\ acknowledged_seq < seq /\ seq <= durable_seq
        /\ cursor' = seq
        /\ acknowledged_seq' = seq
        /\ segments' = Without(segments, done)
        /\ disk' = Without(disk, done)
        /\ UNCHANGED <<active, next_seq, durable_seq, pending, losses,
                       reader_seq, up, faults>>

\* persist_cursor() failed, before or after the rename.
AcknowledgeFails(seq) ==
    /\ up /\ acknowledged_seq < seq /\ seq <= durable_seq
    /\ Spend("io")
    /\ cursor' \in {cursor, seq}
    /\ UNCHANGED <<memory, disk>>

TakeLosses ==
    /\ up /\ losses # {}
    /\ losses' = {}
    /\ UNCHANGED <<segments, active, next_seq, durable_seq, acknowledged_seq,
                   pending, reader_seq, up, disk, cursor, faults>>
-----------------------------------------------------------------------------
\* The process dies.  Of the frames no fdatasync covered, those up to `kept`
\* had reached the disk; the next one may be there in part.
Survived(f, kept, part) ==
    LET last == IF kept < f.synced THEN f.synced
                ELSE IF kept < f.last THEN kept ELSE f.last
    IN  [f EXCEPT !.last = last, !.torn = f.torn \/ (part /\ last < f.last)]

Down ==
    /\ segments' = NoMap /\ active' = FALSE
    /\ next_seq' = 1 /\ durable_seq' = 0 /\ acknowledged_seq' = 0
    /\ pending' = FALSE /\ losses' = {} /\ reader_seq' = 0 /\ up' = FALSE

Crash ==
    /\ up /\ Spend("crash")
    /\ \E kept \in 0 .. MaxSeq, part \in BOOLEAN :
         disk' = [s \in DOMAIN disk |-> Survived(disk[s], kept, part)]
    /\ Down
    /\ UNCHANGED cursor

\* recover(): each file keeps its longest valid prefix; what is missing
\* between files is a gap; what the cursor has passed is deleted.
Valid(s) == IF disk[s].bad \in s .. disk[s].last THEN disk[s].bad - 1 ELSE disk[s].last
Garbage(s) == disk[s].torn \/ disk[s].bad # 0
\* Mutant: holes between files go unnoticed.
NoGaps == {}

Gaps ==
    {q \in Seqs : /\ \E s \in DOMAIN disk : s <= q
                  /\ \E s \in DOMAIN disk : q < s
                  /\ \A s \in DOMAIN disk : ~(s <= q /\ q <= Valid(s))}

\* Mutant: the end of the log is taken from the files alone.
RecoveredLastOfFiles == Max({0} \cup {Valid(s) : s \in {t \in DOMAIN disk : t <= Valid(t)}})

RecoveredLast == Max({cursor} \cup {Valid(s) : s \in {t \in DOMAIN disk : t <= Valid(t)}})

\* If the cut of a damaged tail fails, the bytes stay.  The last file is then not
\* reused for appends; an earlier one is, when the files behind it go for want of
\* a valid frame.
Recover(truncated) ==
    LET kept == {s \in DOMAIN disk : s <= Valid(s) /\ cursor < Valid(s)}
    IN  /\ segments' = [s \in kept |-> Valid(s)]
        /\ disk' = [s \in kept |->
               [last |-> Valid(s), synced |-> Valid(s), bad |-> 0,
                kind |-> "payload", torn |-> ~truncated /\ Garbage(s)]]
        /\ losses' = Gaps
        /\ active' = \E s \in kept :
               /\ IsBack(segments', s) /\ Bytes(segments', s) < SegmentFrames
               /\ truncated \/ \A b \in DOMAIN disk : IsBack(disk, b) => ~Garbage(b)
    /\ ~up /\ up' = TRUE
    /\ acknowledged_seq' = cursor
    /\ next_seq' = RecoveredLast + 1
    /\ durable_seq' = RecoveredLast
    /\ pending' = FALSE /\ reader_seq' = 0
    /\ UNCHANGED cursor

Restart == Recover(TRUE) /\ UNCHANGED faults
RestartUncut ==
    /\ \E s \in DOMAIN disk : Garbage(s)
    /\ Spend("io") /\ Recover(FALSE)

\* The medium rots under one frame, or a file is removed from outside.
Damage ==
    /\ Spend("damage")
    /\ \E s \in DOMAIN disk, kind \in DamageKinds : \E q \in s .. disk[s].synced :
         /\ disk[s].bad = 0
         /\ disk' = [disk EXCEPT ![s].bad = q, ![s].kind = kind]
    /\ UNCHANGED <<memory, cursor>>

Remove(s) ==
    /\ s \in DOMAIN disk /\ Spend("remove")
    /\ disk' = Without(disk, {s})
    /\ UNCHANGED <<memory, cursor>>
-----------------------------------------------------------------------------
\* The first start: an empty directory.
WalInit ==
    /\ segments = NoMap /\ active = FALSE
    /\ next_seq = 1 /\ durable_seq = 0 /\ acknowledged_seq = 0
    /\ pending = FALSE /\ losses = {} /\ reader_seq = 0 /\ up = TRUE
    /\ disk = NoMap /\ cursor = 0
    /\ faults = MaxFaults
=============================================================================
