----------------------------- MODULE Reporting -----------------------------
(***************************************************************************)
(* How the pipeline accounts for what it loses (sensor/pipeline.cpp with   *)
(* record_queue of sensor/provider.hpp): providers push events into a      *)
(* bounded queue and count what they could not take; the pipeline thread   *)
(* pops a batch, writes one record per event, and in collect_losses()      *)
(* turns every loss counter, every refused record and every range the log  *)
(* dropped into loss records, writing again what dropped loss records had  *)
(* said; the instance marker tells the next process how this one ended.    *)
(* The log is the RecordStream that Delivery implements; the uplink moves  *)
(* its cursor between any two writes.                                      *)
(*                                                                         *)
(* step() is cut where another thread can come between: pc says which part *)
(* of it runs, todo holds the reports that part still has to emit.         *)
(***************************************************************************)
EXTENDS RecordStream, Sequences, FiniteSets, FiniteSetsExt, SequencesExt

CONSTANTS
    QueueCapacity,   \* sensor_config::queue_capacity
    MaximumPending,  \* emit_loss: maximum_pending (64)
    MaximumTracked,  \* emit_loss: maximum_tracked (8192)
    Budgets          \* bound: how much of each kind of trouble there can be

\* Drops by a provider, records the sink refuses, ranges the log drops,
\* crashes, clean stops, and marker files that could not be written.
Troubles == {"event", "kernel", "refuse", "drop", "crash", "stop", "mark"}

ASSUME ReportingAssumption ==
    /\ MaxSeq \in Nat /\ QueueCapacity \in Nat \ {0}
    /\ MaximumPending \in Nat \ {0} /\ MaximumTracked \in Nat \ {0}
    /\ Budgets \subseteq [Troubles -> Nat]

VARIABLES
    items, dropped,   \* record_queue: events in it, and dropped_
    kernel,           \* a provider's own loss counter (take_losses and its like)
    pc,               \* the part of the pipeline thread's step that runs
    batch,            \* batch_: events popped and not yet processed
    todo,             \* reports the running part still passes to emit_loss
    unwritten,        \* records_unwritten - unwritten_reported_
    write_failed,
    pending,          \* pending_losses_
    written,          \* written_losses_
    taken,            \* collect_losses: `dropped`, the seqs taken from the log
    untaken,          \* the log's losses_: dropped seqs not yet taken
    said,             \* seq -> the report the record carries
    durable,          \* the log's durable_seq_: what the uplink may read
    in_flight,        \* the uplink's batch: read, posted, not yet answered
    begun,            \* begin_instance() has run in this process
    marker,           \* the instance marker file
    unmarked,         \* this process could not replace a marker that is not "unclean"
    \* History.
    amount,           \* everything this process lost: events and seqs
    first,            \* no process has run before this one
    blind,            \* a process that had its marker ended without shutdown();
                      \* no Manager knows
    overtaken,        \* the cursor passed a dropped loss record before it was carried
    hidden,           \* "clean" was written over reports still in memory
    misfiled,         \* a report was added to one of another stage
    left              \* bound: troubles left

queueVars == <<items, dropped, kernel>>
reportVars == <<unwritten, write_failed, pending, written>>
pipeVars == <<pc, batch, todo, reportVars, taken, begun, marker, unmarked>>
history == <<amount, first, blind, overtaken, hidden, misfiled>>
logVars == <<streamVars, untaken, said, durable, in_flight>>
vars == <<queueVars, pipeVars, logVars, history, left>>

Stages == {"queue", "kernel", "wal", "sensor_gap"}
Nothing == [stage |-> "record", count |-> 0]

StageOrder == <<"kernel", "queue", "sensor_gap", "wal">>  \* a std::map's

Sum(reports) == FoldLeft(LAMBDA n, r : n + r.count, 0, reports)
Spend(trouble) ==
    left[trouble] > 0 /\ left' = [left EXCEPT ![trouble] = @ - 1]
-----------------------------------------------------------------------------
(* The record queue and the providers' counters.                           *)

Running == pc \notin {"down", "draining", "closing"}
KeepFlags == UNCHANGED <<first, blind, overtaken, hidden, misfiled>>

\* record_queue::push: a full queue drops the event and counts it.
Push ==
    /\ Running /\ Spend("event")
    /\ IF items < QueueCapacity
       THEN items' = items + 1 /\ UNCHANGED <<dropped, amount>>
       ELSE items' = items /\ dropped' = dropped + 1 /\ amount' = amount + 1
    /\ UNCHANGED <<kernel, pipeVars, logVars>> /\ KeepFlags

\* A provider counts what it lost before the queue.
KernelLoses ==
    /\ Running /\ Spend("kernel")
    /\ kernel' = kernel + 1 /\ amount' = amount + 1
    /\ UNCHANGED <<items, dropped, pipeVars, logVars>> /\ KeepFlags
-----------------------------------------------------------------------------
(* emit() and emit_loss().                                                 *)

\* What an append may drop to stay within the quota: the oldest records.
InLog == {q \in Given : q > cursor} \ lost
LogPrefixes == {{q \in InLog : q <= k} : k \in InLog}

\* emit(): the log takes the record, dropping its oldest range if it must.  A
\* new segment syncs the one before it.
Stored(record) ==
    /\ write_failed' = FALSE
    /\ said' = [q \in DOMAIN said \cup {next} |-> IF q = next THEN record ELSE said[q]]
    /\ \/ lost' = lost \ {next} /\ Give /\ UNCHANGED <<untaken, left>>
       \/ \E range \in LogPrefixes :
            /\ lost' = (lost \ {next}) \cup range /\ Give /\ Spend("drop")
            /\ untaken' = untaken \cup {range}
    /\ durable' \in {durable, next - 1}
    /\ UNCHANGED in_flight

\* emit() failed: the seq was not used.
Refused == write_failed' = TRUE /\ Spend("refuse") /\ UNCHANGED logVars

Dropped == Cardinality(lost' \ lost)

\* Past the limit the oldest entry is folded into the next of its stage, or
\* dropped if there is none.
Tracked(entries) ==
    LET same == {j \in 2 .. Len(entries) : entries[j].report.stage = entries[1].report.stage}
        j == Min(same)
    IN  IF Len(entries) <= MaximumTracked THEN entries
        ELSE IF same = {} THEN Tail(entries)
        ELSE RemoveAt([entries EXCEPT ![1].report.count = @ + entries[j].report.count], j)

\* A refused report waits; at the limit its count joins the last one's.
Deferred(r) ==
    IF Len(pending) < MaximumPending THEN Append(pending, r)
    ELSE [pending EXCEPT ![Len(pending)].count = @ + r.count]

EmitLoss ==
    /\ todo # <<>> /\ todo' = Tail(todo)
    /\ \/ /\ Stored(Head(todo))
          /\ written' = Tracked(Append(written, [seq |-> next, report |-> Head(todo)]))
          /\ amount' = amount + Dropped
          /\ UNCHANGED <<pending, misfiled>>
       \/ /\ Refused
          /\ pending' = Deferred(Head(todo))
          /\ misfiled' = (misfiled \/ /\ Len(pending) = MaximumPending
                                      /\ Last(pending).stage # Head(todo).stage)
          /\ UNCHANGED <<written, amount>>
    /\ UNCHANGED <<queueVars, pc, batch, unwritten, taken, begun, marker, unmarked,
                   first, blind, overtaken, hidden>>

\* An event becomes a record, or one record more that was not written.
EmitRecord ==
    /\ pc \in {"process", "draining"} /\ batch > 0 /\ batch' = batch - 1
    /\ \/ /\ Stored(Nothing)
          /\ amount' = amount + Dropped
          /\ UNCHANGED unwritten
       \/ /\ Refused
          /\ unwritten' = unwritten + 1 /\ amount' = amount + 1
    /\ UNCHANGED <<queueVars, pc, todo, pending, written, taken, begun, marker, unmarked>>
    /\ KeepFlags
-----------------------------------------------------------------------------
(* step(): a batch, then collect_losses().                                 *)

Done(part) == pc = part /\ todo = <<>>

\* The step before has flushed the log if it was time to.
PopBatch ==
    /\ Done("idle") /\ begun /\ pc' = "process"
    /\ batch' = items /\ items' = 0
    /\ durable' \in {durable, next - 1}
    /\ UNCHANGED <<dropped, kernel, todo, reportVars, taken, begun, marker, unmarked, streamVars,
                   untaken, said, in_flight, history, left>>

Count(stage, n) == IF n > 0 THEN <<[stage |-> stage, count |-> n]>> ELSE <<>>

\* Mutant: refused records stay to be reported.
RetryCountsTwice ==
    /\ Done("process") /\ batch = 0 /\ pc' = "retry"
    /\ todo' = pending \o Count("wal", unwritten)
    /\ pending' = <<>>
    /\ UNCHANGED <<queueVars, batch, unwritten, write_failed, written, taken, begun,
                   marker, unmarked, logVars, history, left>>

\* Mutant: deferred reports wait for ever.
RetryRecordsOnly ==
    /\ Done("process") /\ batch = 0 /\ pc' = "retry"
    /\ todo' = Count("wal", unwritten) /\ unwritten' = 0
    /\ UNCHANGED <<queueVars, batch, pending, write_failed, written, taken, begun,
                   marker, unmarked, logVars, history, left>>

\* The deferred reports and the refused records are tried again: at once after
\* a successful write, once a second while the sink refuses.
Retry ==
    /\ Done("process") /\ batch = 0 /\ pc' = "retry"
    /\ todo' = pending \o Count("wal", unwritten)
    /\ pending' = <<>> /\ unwritten' = 0
    /\ UNCHANGED <<queueVars, batch, write_failed, written, taken, begun, marker, unmarked,
                   logVars, history, left>>
RetryLater ==
    /\ Done("process") /\ batch = 0 /\ pc' = "retry" /\ write_failed
    /\ UNCHANGED <<queueVars, batch, todo, reportVars, taken, begun, marker, unmarked, logVars,
                   history, left>>

\* take_dropped() of the queue and the providers' counters.
TakeCounters ==
    /\ Done("retry") /\ pc' = "count"
    /\ todo' = Count("queue", dropped) \o Count("kernel", kernel)
    /\ dropped' = 0 /\ kernel' = 0
    /\ UNCHANGED <<items, batch, reportVars, taken, begun, marker, unmarked, logVars, history, left>>

\* What the cursor has passed is taken for delivered.
Prune ==
    /\ Done("count") /\ pc' = "prune"
    /\ written' = SelectSeq(written, LAMBDA e : e.seq > cursor)
    /\ overtaken' = (overtaken \/ \E i \in DOMAIN written :
           written[i].seq <= cursor /\ written[i].seq \in lost \ stored)
    /\ UNCHANGED <<queueVars, batch, todo, unwritten, write_failed, pending, taken,
                   begun, marker, unmarked, logVars, amount, first, blind, hidden,
                   misfiled, left>>

TakeLosses ==
    /\ Done("prune") /\ pc' = "take"
    /\ LET ranges == SetToSeq(untaken)
       IN  todo' = [i \in DOMAIN ranges |->
                       [stage |-> "wal", count |-> Cardinality(ranges[i])]]
    /\ taken' = UNION untaken /\ untaken' = {}
    /\ UNCHANGED <<queueVars, batch, reportVars, begun, marker, unmarked, streamVars, said,
                   durable, in_flight, history, left>>

\* carry_dropped_loss_reports(): one report per stage for the loss records
\* that went with the ranges just taken.
CarriedCount(stage) ==
    Sum(SelectSeq([i \in DOMAIN written |-> [stage |-> written[i].report.stage,
                                             count |-> written[i].report.count,
                                             seq |-> written[i].seq]],
                  LAMBDA r : r.stage = stage /\ r.seq \in taken))

\* Mutant: only the first stage's reports are written again.
CarryFirstStage ==
    /\ Done("take") /\ pc' = "idle"
    /\ todo' = Count("queue", CarriedCount("queue"))
    /\ written' = SelectSeq(written, LAMBDA e : e.seq \notin taken)
    /\ taken' = {}
    /\ UNCHANGED <<queueVars, batch, unwritten, write_failed, pending, begun, marker, unmarked,
                   logVars, history, left>>

Carry ==
    /\ Done("take") /\ pc' = "idle"
    /\ todo' = FlattenSeq([i \in 1 .. Len(StageOrder) |->
                              Count(StageOrder[i], CarriedCount(StageOrder[i]))])
    /\ written' = SelectSeq(written, LAMBDA e : e.seq \notin taken)
    /\ taken' = {}
    /\ UNCHANGED <<queueVars, batch, unwritten, write_failed, pending, begun, marker, unmarked,
                   logVars, history, left>>
-----------------------------------------------------------------------------
(* The instance marker: begin_instance(), shutdown(), crashes.             *)

Unclean == marker = "unclean"

\* start(), after its collect_losses(): an unclean marker is a gap.
BeginInstance ==
    /\ Done("idle") /\ ~begun /\ pc' = "mark"
    /\ todo' = Count("sensor_gap", IF Unclean THEN 1 ELSE 0)
    /\ amount' = amount + (IF Unclean THEN 1 ELSE 0)
    /\ UNCHANGED <<queueVars, batch, reportVars, taken, begun, marker, unmarked, logVars, left>>
    /\ KeepFlags

\* Mutant: the marker of a clean end stays.
MarkBegunQuietly ==
    /\ Done("mark") /\ pc' = "idle"
    /\ begun' = TRUE /\ durable' = next - 1
    /\ marker' = IF marker = "clean" THEN "clean" ELSE "unclean"
    /\ UNCHANGED <<queueVars, batch, todo, reportVars, taken, unmarked, streamVars, untaken,
                   said, in_flight, history, left>>

\* ... and then this process is the one to be missed, if its marker can be
\* written: nobody looks.  start() ends with a forced flush.
MarkBegun ==
    /\ Done("mark") /\ pc' = "idle"
    /\ begun' = TRUE /\ durable' = next - 1
    /\ \/ marker' = "unclean" /\ UNCHANGED <<unmarked, left>>
       \/ Spend("mark") /\ unmarked' = ~Unclean /\ UNCHANGED marker
    /\ UNCHANGED <<queueVars, batch, todo, reportVars, taken, streamVars, untaken, said,
                   in_flight, history>>

\* step(): the marker is written again every heartbeat interval.
Heartbeat ==
    /\ Done("idle") /\ begun /\ ~Unclean
    /\ marker' = "unclean" /\ unmarked' = FALSE
    /\ UNCHANGED <<queueVars, pc, batch, todo, reportVars, taken, begun, logVars, history,
                   left>>

\* shutdown(): the providers stop and the queue is drained.
Shutdown ==
    /\ Done("idle") /\ begun /\ Spend("stop") /\ pc' = "draining"
    /\ batch' = items /\ items' = 0
    /\ UNCHANGED <<dropped, kernel, todo, reportVars, taken, begun, marker, unmarked, logVars,
                   history>>

\* The last health record, which nothing reports if it is refused.
LastHealth ==
    /\ pc = "draining" /\ batch = 0 /\ pc' = "closing"
    /\ \/ Stored(Nothing) /\ amount' = amount + Dropped /\ UNCHANGED unwritten
       \/ Refused /\ unwritten' = unwritten + 1 /\ amount' = amount + 1
    /\ UNCHANGED <<queueVars, batch, todo, pending, written, taken, begun,
                   marker, unmarked>>
    /\ KeepFlags

\* Losses that only this process's memory knows of.
DroppedReports ==
    Sum(SelectSeq([i \in DOMAIN written |-> [count |-> written[i].report.count,
                                             seq |-> written[i].seq]],
                  LAMBDA r : r.seq \in lost \ stored))
InMemory ==
    dropped + kernel + unwritten + Sum(pending) + Sum(todo)
    + Cardinality(UNION untaken) + DroppedReports

\* The process is gone with what it held in memory; of the log, what was
\* synced survives, and of the rest a prefix.
Gone(kept) ==
    /\ pc' = "down" /\ next' = 0 /\ durable' = 0
    /\ said' = [q \in {p \in DOMAIN said : p <= kept} |-> said[q]]
    /\ items' = 0 /\ dropped' = 0 /\ kernel' = 0 /\ batch' = 0 /\ todo' = <<>>
    /\ unwritten' = 0 /\ write_failed' = FALSE /\ pending' = <<>> /\ written' = <<>>
    /\ taken' = {} /\ untaken' = {} /\ in_flight' = {} /\ begun' = FALSE
    /\ unmarked' = FALSE
    /\ UNCHANGED <<cursor, stored, rejected, lost, amount, first, overtaken, misfiled>>

\* What the loss records say that the Manager has, or the log still holds.
Alive == DOMAIN said \ (lost \ stored)
Told == MapThenSumSet(LAMBDA q : said[q].count, Alive)

GapKnown == "sensor_gap" \in {said[q].stage : q \in Alive}

\* flush() succeeded: the marker says "clean", whatever is still in memory, or
\* cannot be written and stays.
CloseClean ==
    /\ pc = "closing"
    /\ \/ marker' = "clean" /\ hidden' = (hidden \/ InMemory > 0) /\ UNCHANGED left
       \/ Spend("mark") /\ UNCHANGED <<marker, hidden>>
    /\ Gone(next - 1)
    /\ blind' = (blind /\ ~GapKnown)

\* flush() failed: the marker stays as it is.
CloseUnclean ==
    /\ pc = "closing" /\ Spend("refuse")
    /\ \E kept \in durable .. MaxSeq : Gone(kept)
    /\ UNCHANGED <<marker, hidden>> /\ blind' = (blind \/ ~unmarked)

Crash ==
    /\ pc # "down" /\ Spend("crash")
    /\ \E kept \in durable .. MaxSeq : Gone(kept)
    /\ blind' = (blind \/ (begun /\ ~unmarked))
    /\ UNCHANGED <<marker, hidden>>

\* start(): the log is recovered, and losses collected before begin_instance().
Begin ==
    /\ pc = "down" /\ pc' = "process" /\ first' = FALSE
    /\ next' = Max({cursor} \cup DOMAIN said) + 1 /\ durable' = next' - 1
    /\ UNCHANGED <<cursor, stored, rejected, lost, queueVars, batch, todo, reportVars,
                   taken, begun, marker, unmarked, untaken, said, in_flight, amount, blind,
                   overtaken, hidden, misfiled, left>>
-----------------------------------------------------------------------------
(* The uplink's side of the log.                                           *)

\* A batch is read and posted; the Manager stores it.
Post ==
    /\ in_flight = {} /\ in_flight' \in {b \in LogPrefixes : \A q \in b : q <= durable}
    /\ stored' = stored \cup in_flight'
    /\ UNCHANGED <<next, cursor, rejected, lost, untaken, said, durable, queueVars, pipeVars,
                   history, left>>

\* The answer arrives, or is lost and the batch is read again.
Answer ==
    /\ in_flight # {} /\ in_flight' = {}
    /\ cursor' \in {cursor, Max(in_flight)}
    /\ UNCHANGED <<next, stored, rejected, lost, untaken, said, durable, queueVars, pipeVars,
                   history, left>>

\* read() meets a damaged frame: the records behind it in its segment are lost.
ReadFindsDamage ==
    /\ Spend("drop")
    /\ \E a, b \in {q \in InLog : q <= durable} :
         LET range == {q \in InLog : a <= q /\ q <= b}
         IN  /\ a <= b
             /\ lost' = lost \cup range /\ untaken' = untaken \cup {range}
             /\ amount' = amount + Cardinality(range)
    /\ UNCHANGED <<next, cursor, stored, rejected, said, durable, in_flight, queueVars,
                   pipeVars>>
    /\ KeepFlags
-----------------------------------------------------------------------------
Init ==
    /\ StreamInit
    /\ items = 0 /\ dropped = 0 /\ kernel = 0
    /\ pc = "process" /\ batch = 0 /\ todo = <<>>
    /\ unwritten = 0 /\ write_failed = FALSE /\ pending = <<>> /\ written = <<>>
    /\ taken = {} /\ untaken = {} /\ said = [q \in {} |-> Nothing]
    /\ durable = 0 /\ in_flight = {} /\ begun = FALSE /\ marker = "none"
    /\ unmarked = FALSE
    /\ amount = 0 /\ first = TRUE /\ blind = FALSE /\ overtaken = FALSE /\ hidden = FALSE
    /\ misfiled = FALSE /\ left \in Budgets

Providers == Push \/ KernelLoses
Collect ==
    Retry \/ RetryLater \/ TakeCounters \/ Prune \/ TakeLosses \/ Carry \/ EmitLoss
Working ==
    \/ PopBatch \/ EmitRecord \/ Collect
    \/ BeginInstance \/ MarkBegun \/ Heartbeat \/ LastHealth \/ CloseClean \/ CloseUnclean
Uplink == Post \/ Answer \/ ReadFindsDamage
Process == Crash \/ Begin

Next == Providers \/ Working \/ Shutdown \/ Uplink \/ Process

Spec == Init /\ [][Next]_vars
-----------------------------------------------------------------------------
\* Until the first process ends: nothing it lost is unaccounted for.  Every
\* event a full queue dropped, every loss a provider counted, every record
\* the sink refused and every seq the log dropped is in a counter, a waiting
\* report, or a loss record that was not itself dropped without being written
\* again (pipeline.hpp: "so the loss records that survive always explain the
\* whole gap").  Except where the cursor overtook the carrying: see Carried.
LossesExplained == pc # "down" /\ first /\ ~overtaken => amount <= Told + InMemory

\* ... and nothing is counted twice, unless the Manager has stored a record
\* the log dropped while its batch was in flight (carry_dropped_loss_reports:
\* "every missing seq is still counted exactly once").
LossesExact ==
    pc # "down" /\ first /\ ~overtaken /\ stored \cap lost = {} => amount = Told + InMemory

\* A loss record leaves written_losses_ only delivered or carried: the cursor
\* never passes one the log has dropped before its report is written again
\* (collect_losses: "Acknowledged loss records have been delivered; only
\* unacknowledged ones can still be dropped").
Carried == ~overtaken

\* The report of a gap is deferred, about to be emitted, or kept with its record.
GapWaiting ==
    \/ \E r \in Range(pending) \cup Range(todo) : r.stage = "sensor_gap"
    \/ \E i \in DOMAIN written : written[i].report.stage = "sensor_gap"

\* A process that ends without shutdown(), and was not without its marker then
\* (begin_instance() and every heartbeat write it, and ignore failure), is known
\* of: the marker does not say "clean" until the gap is reported, and then the
\* report waits or a record that survives tells of it.  Except where a report was
\* overtaken, added to one of another stage, or hidden by a later "clean".
BlindIsKnown ==
    blind /\ ~overtaken /\ ~misfiled /\ ~hidden =>
        IF begun \/ pc = "mark" THEN GapKnown \/ GapWaiting ELSE marker = "unclean"

\* The pipeline thread keeps running, a refused report is tried again once a
\* second, and the sink does not refuse for ever (refusals are bounded).
\* Nothing is assumed of providers, the uplink or shutdowns.
Fairness == WF_vars(Working) /\ SF_vars(Retry) /\ WF_vars(Begin)
FairSpec == Spec /\ Fairness

\* Every loss ends in a loss record: what only memory knows of is written, or
\* the process ends, or the log has reached the bound of the model.
LossesTold ==
    (pc # "down" /\ InMemory > 0) ~>
        (InMemory = 0 \/ pc \in {"down", "draining", "closing"} \/ next > MaxSeq)
=============================================================================
