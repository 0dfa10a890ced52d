------------------------------ MODULE Delivery ------------------------------
(***************************************************************************)
(* Delivery of the log to the Manager: the pipeline thread that appends,   *)
(* syncs and verifies, the uplink thread (sensor/uplink.cpp) that reads a  *)
(* batch, posts it, waits for the answer and moves the cursor, and the     *)
(* Manager, which stores records by seq.  uplink::step is cut where it     *)
(* releases the log's mutex and where the network can fail.                *)
(***************************************************************************)
EXTENDS Wal

CONSTANTS
    MaximumRecords,  \* uplink_options::maximum_records
    Invalid          \* seqs of the records the Manager will never accept

ASSUME DeliveryAssumption ==
    MaximumRecords \in Nat \ {0} /\ Invalid \subseteq Nat

VARIABLES
    phase,          \* where uplink::step is
    batch,          \* the records it has read and not finished with
    record_budget,
    stored,         \* external: the seqs the Manager has stored
    sent,           \* history: seqs ever posted
    quarantined,    \* seqs copied to quarantine and skipped
    reported,       \* history: seqs handed over by take_losses
    forgotten       \* history: seqs whose loss no process could report

uplinkVars == <<phase, batch, record_budget, sent, quarantined>>
history == <<reported, forgotten>>
vars == <<walVars, uplinkVars, stored, history>>

Phases == {"idle", "posting", "answering"}

\* The state's types; record_budget stays between 1 and its maximum through
\* every halving and doubling (uplink::step).
TypeOK ==
    /\ DOMAIN segments \subseteq Seqs /\ segments \in [DOMAIN segments -> 0 .. MaxSeq]
    /\ DOMAIN disk \subseteq Seqs /\ disk \in [DOMAIN disk -> File]
    /\ active \in BOOLEAN /\ pending \in BOOLEAN /\ up \in BOOLEAN
    /\ next_seq \in 1 .. MaxSeq + 1 /\ reader_seq \in 0 .. MaxSeq + 1
    /\ durable_seq \in 0 .. MaxSeq /\ acknowledged_seq \in 0 .. MaxSeq
    /\ cursor \in 0 .. MaxSeq
    /\ faults \in [FaultNames -> Nat]
    /\ phase \in Phases /\ record_budget \in 1 .. MaximumRecords
    /\ batch \subseteq Seqs /\ sent \subseteq Seqs /\ stored \subseteq Seqs
    /\ quarantined \subseteq Seqs /\ losses \subseteq Seqs
    /\ reported \subseteq Seqs /\ forgotten \subseteq Seqs
-----------------------------------------------------------------------------
\* A seq given to a new record says nothing about its former holder.
Write ==
    /\ Append
    /\ reported' = reported \ {next_seq}
    /\ forgotten' = forgotten \ {next_seq}
    /\ UNCHANGED <<uplinkVars, stored>>

Quiet == UNCHANGED <<uplinkVars, stored, history>>

Report ==
    /\ TakeLosses
    /\ reported' = reported \cup losses
    /\ UNCHANGED <<uplinkVars, stored, forgotten>>

\* uplink::step up to the post.  The byte limit can end a batch before the
\* record budget does.
ReadBatch ==
    /\ phase = "idle"
    /\ \E count \in 1 .. record_budget :
         /\ Read(acknowledged_seq + 1, count)
         /\ batch' = ReadResult(acknowledged_seq + 1, count)
    /\ phase' = IF batch' = {} THEN "idle" ELSE "posting"
    /\ sent' = sent \cup batch'
    /\ UNCHANGED <<record_budget, quarantined, stored, history>>

\* The Manager stores what it can and answers for every record.
ManagerStores ==
    /\ phase = "posting"
    /\ stored' = stored \cup (batch \ Invalid)
    /\ phase' = "answering"
    /\ UNCHANGED <<walVars, batch, record_budget, sent, quarantined, history>>

\* uplink::fail: the request or its answer is lost, refused, or does not
\* account for every record.  The cursor stays and the batch is read again.
PostFails ==
    /\ phase \in {"posting", "answering"}
    /\ phase' = "idle" /\ batch' = {}
    /\ UNCHANGED <<walVars, record_budget, sent, quarantined, stored, history>>

\* Mutant: the batch is halved whatever its size.
PostTooLargeAlways ==
    /\ phase = "posting"
    /\ phase' = "idle" /\ batch' = {}
    /\ record_budget' = record_budget \div 2
    /\ UNCHANGED <<walVars, sent, quarantined, stored, history>>

\* HTTP 413: the next batch is half as large.
PostTooLarge ==
    /\ phase = "posting" /\ record_budget > 1
    /\ phase' = "idle" /\ batch' = {}
    /\ record_budget' = record_budget \div 2
    /\ UNCHANGED <<walVars, sent, quarantined, stored, history>>

\* The answer matches the batch: rejected records are quarantined and the
\* cursor moves to the last record of the batch.
AnswerArrives ==
    /\ phase = "answering"
    /\ quarantined' = quarantined \cup (batch \cap Invalid)
    /\ \/ /\ Acknowledge(Max(batch))
          /\ record_budget' = Min({MaximumRecords, 2 * record_budget})
       \/ AcknowledgeFails(Max(batch)) /\ UNCHANGED record_budget
    /\ phase' = "idle" /\ batch' = {}
    /\ UNCHANGED <<sent, stored, history>>

\* A crash forgets the losses not yet taken, and the removals not yet noticed.
Die ==
    /\ Crash
    /\ forgotten' = forgotten \cup losses \cup LostWith(segments, Missing)
    /\ phase' = "idle" /\ batch' = {} /\ record_budget' = MaximumRecords
    /\ UNCHANGED <<sent, quarantined, stored, reported>>

\* A file stands for every seq from its first up to the next file's.  While
\* no process runs, nobody sees it go.
Unlink ==
    \E s \in DOMAIN disk :
        /\ Remove(s)
        /\ forgotten' = forgotten \cup
             {q \in Seqs : ~up /\ s <= q /\ \A t \in DOMAIN disk : t <= q => t <= s}
        /\ UNCHANGED <<uplinkVars, stored, reported>>

Init ==
    /\ WalInit
    /\ phase = "idle" /\ batch = {} /\ record_budget = MaximumRecords
    /\ stored = {} /\ sent = {} /\ quarantined = {}
    /\ reported = {} /\ forgotten = {}

Pipeline ==
    \/ Write
    \/ (RotateFails \/ RotateLeavesEmpty \/ Seal \/ Sync \/ VerifyStorage) /\ Quiet
    \/ Report
Uplink == ReadBatch \/ PostFails \/ PostTooLarge \/ AnswerArrives
Environment ==
    \/ Die \/ Unlink
    \/ (Restart \/ RestartUncut \/ Damage) /\ Quiet

Next == Pipeline \/ Uplink \/ ManagerStores \/ Environment

Spec == Init /\ [][Next]_vars
-----------------------------------------------------------------------------
\* What became of a record that is no longer in the log.
Explained == losses \cup reported \cup forgotten
Settled == stored \cup quarantined \cup Explained

\* The log and the uplink as the stream of records they implement.
Stream == INSTANCE RecordStream WITH
    next <- IF up THEN next_seq ELSE 0, rejected <- quarantined, lost <- Explained,
    Reuses <- MaxFaults.damage + MaxFaults.remove > 0

\* Segments, files, cursor, batches and requests implement the stream: every
\* step of either thread, of the Manager and of the environment is a step of
\* RecordStream or none.  In particular append() numbers without a gap,
\* acknowledge() moves only over records that have ended, and recover() gives
\* no seq twice while the files are left alone.
ImplementsStream == Stream!StreamSpec

\* The cursor never passes a record that is not accounted for: everything at
\* or below it is stored by the Manager, quarantined, or part of a loss
\* (uplink.hpp: the cursor moves only on a matching answer; wal.cpp: what
\* leaves the log unacknowledged is pushed to losses_).  Only a crash, or a
\* removal while no process runs, makes a loss a forgotten one.
NoSilentSkip == \A q \in Seqs : q <= cursor => q \in Settled

\* The next seq is above every seq the Manager was ever sent, so no two
\* records share a seq: the Manager would take the second for a duplicate
\* (recover() derives next_seq_ from what it finds on disk).
NextAboveSent == up => \A q \in sent : q < next_seq

\* durable_seq_ tells the truth: a record at or below it that is still to be
\* delivered is in a file, below that file's last successful fdatasync.
DurableOnDisk ==
    up => \A q \in Seqs : (cursor < q /\ q <= durable_seq) =>
              \/ \E s \in DOMAIN disk : s <= q /\ q <= disk[s].synced
              \/ q \in Explained

\* A file's size, with the bytes behind its last frame that could not be cut.
FileSize(s) == disk[s].last - s + 1 + (IF disk[s].torn THEN 1 ELSE 0)
Spent(fault) == MaxFaults[fault] - faults[fault]

\* The files exceed the quota by no more than a frame for each write or cut that
\* failed: enforce_quota() counts the index, which leaves out what append() and
\* recover() could not cut, and no crash or restart adds to that.
DiskWithinQuota ==
    MapThenSumSet(FileSize, DOMAIN disk) <= QuotaFrames + Spent("io") + Spent("fsync")

\* The threads keep running, the supervisor restarts the process, and the
\* network does not lose every exchange for ever.  Nothing is assumed of
\* appends or faults.
Fairness ==
    /\ WF_vars(Sync /\ Quiet) /\ WF_vars(VerifyStorage /\ Quiet) /\ WF_vars(Report)
    /\ WF_vars(ReadBatch) /\ SF_vars(ManagerStores) /\ SF_vars(AnswerArrives)
    /\ WF_vars(Restart /\ Quiet)
FairSpec == Spec /\ Fairness

\* Every record that became durable is eventually settled, or its seq is back
\* above the log's end (a restart that found it damaged).
DurableSettles ==
    \A q \in Seqs : (up /\ q <= durable_seq) ~> (q \in Settled \/ (up /\ next_seq <= q))
-----------------------------------------------------------------------------
(* The inductive invariant behind NoSilentSkip.                            *)

\* The cursor, the durable end and the end of the log stay in order; the
\* cursor file may be ahead of memory after a failed persist_cursor().
Ordered ==
    up => /\ acknowledged_seq <= cursor /\ cursor <= durable_seq
          /\ durable_seq < next_seq

\* The index: segments in order, none past the end of the log.
Indexed ==
    /\ \A s, t \in DOMAIN segments : s < t => segments[s] < t
    /\ \A s \in DOMAIN segments :
         /\ s <= next_seq
         /\ segments[s] = 0 \/ (s <= segments[s] /\ segments[s] < next_seq)

\* The files: disjoint, synced up to a frame they hold, and known to the index
\* while the process runs.
Filed ==
    /\ \A s, t \in DOMAIN disk : s < t => disk[s].last < t
    /\ \A s \in DOMAIN disk :
         /\ disk[s].synced <= disk[s].last /\ disk[s].last <= MaxSeq
         /\ disk[s].kind \in DamageKinds \cup {"payload", "header"}
         /\ up => s \in DOMAIN segments /\ disk[s].last < next_seq

\* Every record behind the cursor's back is in a segment or in a loss.
Accounted ==
    up => \A q \in Seqs : (acknowledged_seq < q /\ q < next_seq) =>
              Holds(segments, q) \/ q \in Explained

\* While no process runs, only the files before the first one can be missing
\* without recovery noticing: those records are forgotten.
FrontForgotten ==
    ~up => /\ losses = {}
           /\ \A q \in Seqs : cursor < q /\ (\E s \in DOMAIN disk : q <= disk[s].last)
                => (\E s \in DOMAIN disk : s <= q) \/ q \in Explained

\* What the uplink holds covers the log from the cursor to its last record.
BatchCovers ==
    phase # "idle" =>
        /\ up /\ batch # {}
        /\ \A b \in batch :
             /\ acknowledged_seq < b /\ b <= durable_seq
             /\ \A q \in Seqs : (acknowledged_seq < q /\ q <= b) => q \in batch \cup Explained
        /\ phase = "answering" => batch \ Invalid \subseteq stored

\* All of it: preserved by every step of both threads and of the environment.
IInv ==
    TypeOK /\ Ordered /\ Indexed /\ Filed /\ Accounted /\ FrontForgotten
    /\ BatchCovers /\ NoSilentSkip
=============================================================================
