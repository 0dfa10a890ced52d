--------------------------- MODULE ArtifactOutbox ---------------------------
(***************************************************************************)
(* Collected artifacts on their way to the Manager (artifact_outbox.cpp,   *)
(* run_artifacts() of command_channel.cpp, submit_artifact() of            *)
(* command_https.cpp): a collection saves its artifact in a private        *)
(* write-ahead log and reports success; a thread of its own uploads the    *)
(* oldest one in chunks, resuming where the Manager says it is, and        *)
(* retires it when the Manager says it retains it.  Requests and replies   *)
(* are lost, transfers expire at the Manager, the sensor and the host die. *)
(*                                                                         *)
(* Records have one size; an artifact is a name; the log is that of        *)
(* wal.cpp as far as this client of it goes.                               *)
(***************************************************************************)
EXTENDS Integers, Sequences

CONSTANTS
    Artifacts,
    Chunks,           \* chunks of an artifact
    ChunksPerCall,    \* PUTs of one resume_artifact_upload() (4)
    OutboxQuota,      \* quota_, in records
    SegmentRecords,   \* records of a segment
    OutboxBudgets     \* bounds: a set of [crash, power, lose, expire, sync]

ASSUME OutboxAssumption ==
    /\ Chunks \in Nat \ {0} /\ ChunksPerCall \in Nat \ {0}
    /\ SegmentRecords \in Nat \ {0} /\ OutboxQuota \in Nat /\ OutboxQuota >= 2 * SegmentRecords

VARIABLES
    log,        \* every record of the log in order of its seq
    segments,   \* the segment files on disk, each by its first seq
    synced,     \* durable_seq_
    retired,    \* acknowledged_seq_, which is stored before it moves
    torn,       \* the tail of the last segment is half a frame
    outbox,     \* "open"; "down": the sensor is down; "failed": open() refused
    saving,     \* a save() has appended and not synced
    upload,     \* the upload in progress: [step, at, puts]
    received,   \* the Manager: chunks it has of each artifact
    retained,   \* the Manager: artifacts it retains
    outbox_left,
    pledged     \* history: artifacts whose save() returned success

outboxVars == <<log, segments, synced, retired, torn, outbox, saving, upload, received, retained,
                outbox_left, pledged>>

Meet(what) == outbox_left[what] > 0
Met(what) == outbox_left' = [outbox_left EXCEPT ![what] = @ - 1]
Idle == [step |-> "idle", at |-> 0, puts |-> 0]
OnDisk == IF segments = <<>> THEN 0 ELSE Len(log) + 1 - Head(segments)
Names == {log[n] : n \in 1..Len(log)}
-----------------------------------------------------------------------------
(* The producer: save(), under producer_.                                  *)

\* append(): a new segment when the last is full or there is none; a full one is
\* synced before the next is opened.
Rotates == segments # <<>> /\ Len(log) + 1 - segments[Len(segments)] >= SegmentRecords
Extended ==
    IF segments = <<>> \/ Rotates THEN Append(segments, Len(log) + 1) ELSE segments

\* enforce_quota(): the oldest segment goes when there is too much.
Enforced(segs, last) ==
    IF Len(segs) > 1 /\ last + 1 - Head(segs) > OutboxQuota THEN Tail(segs) ELSE segs

\* Mutant: nothing is refused.
AdmitAll == TRUE

\* "artifact quota reached; originals preserved".
Admitted == OnDisk + 1 <= OutboxQuota

SaveArtifact(a) ==
    /\ outbox = "open" /\ ~saving /\ saving' = TRUE /\ a \notin Names /\ Admitted
    /\ log' = Append(log, a) /\ segments' = Enforced(Extended, Len(log) + 1)
    /\ synced' = IF Rotates THEN Len(log) ELSE synced
    /\ UNCHANGED <<retired, torn, outbox, upload, received, retained, outbox_left, pledged>>

SyncArtifact ==
    /\ outbox = "open" /\ saving /\ saving' = FALSE
    /\ synced' = Len(log) /\ pledged' = pledged \cup {log[Len(log)]}
    /\ UNCHANGED <<log, segments, retired, torn, outbox, upload, received, retained, outbox_left>>

\* save() fails, and the record stays in the log.
SyncFails ==
    /\ outbox = "open" /\ saving /\ saving' = FALSE /\ Meet("sync") /\ Met("sync")
    /\ UNCHANGED <<log, segments, synced, retired, torn, outbox, upload, received, retained, pledged>>
-----------------------------------------------------------------------------
(* The uploader: flush() and resume_artifact_upload() for the oldest record. *)

Oldest == log[retired + 1]
Calls(step) == outbox = "open" /\ upload.step = step
LeavesLog == UNCHANGED <<log, segments, synced, retired, torn, outbox, saving, pledged>>

\* read() gives what is synced.
BeginUpload ==
    /\ Calls("idle") /\ retired < synced
    /\ upload' = [Idle EXCEPT !.step = "admit"]
    /\ UNCHANGED <<received, retained, outbox_left>> /\ LeavesLog

\* The Manager's answer to each request, and what the sensor does next.
Continue(got, puts) ==
    [step |-> IF got = Chunks THEN "complete" ELSE IF puts < ChunksPerCall THEN "put" ELSE "idle",
     at |-> got, puts |-> puts]
\* Mutant: an upload starts at the first chunk again.
AdmitFromStart ==
    /\ Calls("admit") /\ upload' = Continue(0, 0)
    /\ UNCHANGED <<received, retained, outbox_left>> /\ LeavesLog

Admit ==
    /\ Calls("admit") /\ upload' = Continue(received[Oldest], 0)
    /\ UNCHANGED <<received, retained, outbox_left>> /\ LeavesLog
\* A chunk is taken where the transfer stands; elsewhere the request is refused.
PutChunk ==
    /\ Calls("put")
    /\ IF received[Oldest] = upload.at
       THEN received' = [received EXCEPT ![Oldest] = @ + 1] /\ upload' = Continue(upload.at + 1, upload.puts + 1)
       ELSE UNCHANGED received /\ upload' = Idle
    /\ UNCHANGED <<retained, outbox_left>> /\ LeavesLog
Complete ==
    /\ Calls("complete")
    /\ IF received[Oldest] = Chunks
       THEN retained' = retained \cup {Oldest} /\ upload' = [Idle EXCEPT !.step = "retire"]
       ELSE UNCHANGED retained /\ upload' = Idle
    /\ UNCHANGED <<received, outbox_left>> /\ LeavesLog

\* A request or its reply is lost: the call ends, whether or not the Manager acted.
Unanswered ==
    /\ upload.step \in {"admit", "put", "complete"} /\ outbox = "open" /\ Meet("lose") /\ Met("lose")
    /\ upload' = Idle
    /\ \/ UNCHANGED <<received, retained>>
       \/ upload.step = "put" /\ received[Oldest] = upload.at /\ UNCHANGED retained
          /\ received' = [received EXCEPT ![Oldest] = @ + 1]
       \/ upload.step = "complete" /\ received[Oldest] = Chunks /\ UNCHANGED received
          /\ retained' = retained \cup {Oldest}
    /\ LeavesLog

\* The segments left once everything to `seq` is acknowledged; the last one stays.
Kept(segs, seq) ==
    LET live == {i \in 1..Len(segs) : i = Len(segs) \/ segs[i + 1] > seq + 1}
    IN  SubSeq(segs, CHOOSE i \in live : \A j \in live : i <= j, Len(segs))

\* Mutant: the last chunk taken retires the artifact.
RetireEarly ==
    /\ outbox = "open" /\ upload.step \in {"complete", "retire"} /\ upload' = Idle
    /\ retired < synced /\ retired' = retired + 1 /\ segments' = Kept(segments, retired + 1)
    /\ UNCHANGED <<log, synced, torn, outbox, saving, received, retained, outbox_left, pledged>>

\* acknowledge(): the cursor moves, then what it has passed is deleted.
Retire ==
    /\ Calls("retire") /\ upload' = Idle
    /\ retired < synced /\ retired' = retired + 1 /\ segments' = Kept(segments, retired + 1)
    /\ UNCHANGED <<log, synced, torn, outbox, saving, received, retained, outbox_left, pledged>>
-----------------------------------------------------------------------------
(* Faults.                                                                 *)

\* The Manager drops a transfer that was not completed (expires_at).
Expire(a) ==
    /\ Meet("expire") /\ Met("expire") /\ a \notin retained /\ received[a] > 0
    /\ received' = [received EXCEPT ![a] = 0]
    /\ UNCHANGED <<retained, upload>> /\ LeavesLog

\* The sensor dies, perhaps in the middle of an append; the host may lose power,
\* and with it any of the last records that were not synced.
SensorDies(mid) ==
    /\ outbox # "down" /\ Meet("crash") /\ Met("crash")
    /\ torn' = ((mid /\ outbox = "open" /\ ~saving) \/ torn)
    /\ outbox' = "down" /\ saving' = FALSE /\ upload' = Idle
    /\ UNCHANGED <<log, segments, synced, retired, received, retained, pledged>>
HostDies(half) ==
    /\ Meet("power") /\ Met("power") /\ outbox' = "down" /\ saving' = FALSE /\ upload' = Idle
    /\ \E last \in synced..Len(log), k \in 0..Len(segments) :
        /\ log' = SubSeq(log, 1, last) /\ torn' = ((half /\ last < Len(log)) \/ torn)
        /\ \A i \in 1..Len(segments) : segments[i] <= last <=> i <= k
        /\ segments' = SubSeq(segments, 1, k)
    /\ UNCHANGED <<synced, retired, received, retained, pledged>>

\* open(): recovery syncs what it finds, drops what was acknowledged
\* whole and cuts a torn tail; a cut counts as loss, and this start goes without
\* an outbox.
OpenOutbox ==
    /\ outbox = "down" /\ outbox' = (IF torn THEN "failed" ELSE "open") /\ torn' = FALSE
    /\ synced' = Len(log) /\ segments' = IF retired = Len(log) THEN <<>> ELSE Kept(segments, retired)
    /\ UNCHANGED <<log, retired, saving, upload, received, retained, outbox_left, pledged>>

OutboxInit ==
    /\ log = <<>> /\ segments = <<>> /\ synced = 0 /\ retired = 0 /\ torn = FALSE
    /\ outbox = "down" /\ saving = FALSE /\ upload = Idle
    /\ received = [a \in Artifacts |-> 0] /\ retained = {} /\ pledged = {}
    /\ outbox_left \in OutboxBudgets

Uploads == BeginUpload \/ Admit \/ PutChunk \/ Complete \/ Retire
OutboxNext ==
    \/ \E a \in Artifacts : SaveArtifact(a) \/ Expire(a)
    \/ SyncArtifact \/ SyncFails \/ Uploads \/ Unanswered \/ OpenOutbox
    \/ \E half \in BOOLEAN : SensorDies(half) \/ HostDies(half)

\* The service manager restarts the sensor, and the upload thread keeps running.
OutboxSpec == OutboxInit /\ [][OutboxNext]_outboxVars
OutboxFairSpec == OutboxSpec /\ WF_outboxVars(Uploads) /\ WF_outboxVars(OpenOutbox)
-----------------------------------------------------------------------------
\* Nothing is retired that the Manager does not retain, whatever replies were
\* lost and whatever expired or was sent twice.
RetiredRetained == \A n \in 1..retired : log[n] \in retained

\* An artifact a collection reported as saved is retained by the Manager or is on
\* the disk, to be sent: no quota, crash or power loss takes it away.
PledgeKept ==
    \A a \in pledged :
        \/ a \in retained
        \/ segments # <<>> /\ \E n \in Head(segments)..synced : log[n] = a

\* It also gets there, unless a torn tail makes a start go without the outbox:
\* again and again, all that was saved is retained (Artifacts is finite).
ArtifactsArrive == []<>(pledged \subseteq retained \/ outbox = "failed")
=============================================================================
