# TLA+ models of the Panopticon Linux sensor

These modules model the parts of `panopticon-sensord` and its helpers whose correctness depends on the order
of steps: the write-ahead log and its delivery to the Manager, the accounting for what is lost, the execution
of Manager commands and the upload of what they collect, the policy, the process table, file and self
integrity, host isolation and the killing of process trees. TLC checks small instances; TLAPS proves a dozen
of the properties, and the invariants behind them, for all instances.

Source paths below are relative to `src/src/`: `sensor/x.cpp` is `src/src/sensor/x.cpp`.

## The system

| Part | State | Operations | Works with | Module |
|---|---|---|---|---|
| Providers (eBPF, netlink, audit, fanotify, auth log, sock_diag) | kernel handles, loss counters | observe, push, report losses and gaps | record queue | only their losses |
| Record queue (`provider.hpp`) | bounded FIFO, drop counter | push, pop_batch, take_dropped | providers, pipeline | `Reporting` |
| Pipeline (`sensor/pipeline.cpp`) | pending and written loss reports, instance marker, timers | step, emit, collect_losses, start, shutdown | everything | `Reporting`, parts in others |
| Write-ahead log (`sensor/wal.cpp`) | segments, `next_seq_`, `durable_seq_`, cursor, `losses_` | append, sync, read, acknowledge, verify_storage, take_losses, recover | pipeline and uplink threads | `Wal` |
| Uplink (`sensor/uplink.cpp`) | batch, record budget, backoff | step | log, Manager | `Delivery` |
| Command channel (`sensor/command_channel.cpp`) | thread position, recent changes | step: close interrupted, repeat results, poll, handle, report | ledger, executor, Manager | `CommandChannel` |
| Command ledger (same file) | entries, epoch, append-only file | open_or_recover, mark_received, mark_done, mark_reported | channel | `CommandLedger` |
| Artifact outbox (`sensor/artifact_outbox.cpp`) | a private log, upload position | save, flush, chunked upload | executor, Manager | `ArtifactOutbox` |
| Hash service (`sensor/hash_service.cpp`) | queue, waiters, cache, answers | submit, drain, worker, destructor | pipeline | `HashService` |
| Policy store (`sensor/policy_bundle.cpp`) | policy, keys, accepted version | refresh, consider, sweep | pipeline | `PolicyStore` |
| Entity graph, containers (`sensor/entity_graph.cpp`, `sensor/container_tracker.cpp`) | two process indexes, members | apply, reconcile, purge | pipeline | `EntityGraph` |
| File integrity (`sensor/fim.cpp`) | baseline, dirty paths | start, note, take_due, rescan | pipeline | `FimMonitor` |
| Self integrity (`sensor/integrity.cpp`) | manifest, hash cache, high-water mark | refresh | pipeline | `Integrity` |
| Isolation helper (`isolation.cpp`, `isolation_helper_main.cpp`) | ruleset, state file | isolate, release, start | executor | `Isolation` |
| Process response (`response.cpp`) | handles on a process tree | terminate tree | executor | `TerminateTree` |

What is hard here: two threads share the log and the uplink holds a batch across a network call; the process
may die between any two file operations; files can be damaged, removed or edited under the running process;
writes, cuts and syncs fail one at a time; the Manager loses requests, answers and repeats commands; kernel
records are lost or late; PIDs are reused; clocks differ. `PROJECT.json` lists each such hazard at its line.

## Modules

| Module | Models |
|---|---|
| `RecordStream` | What log and uplink promise together: seqs without a gap, each stored, rejected or lost; the cursor passes only those. |
| `Wal` | `write_ahead_log`. Every method holds the log's mutex, so each is one action. |
| `Delivery` | The pipeline thread, the uplink thread and the Manager around `Wal`; the properties of delivery; the mapping to `RecordStream`. |
| `Reporting` | The record queue and the pipeline's loss accounting, on top of `RecordStream`. |
| `HashService`, `ArtifactOutbox` | As above. |
| `CommandLedger`, `CommandChannel` | The ledger; `command_channel_provider::step` and `command_processor`, one action between any two ledger appends or network calls. |
| `PolicyStore`, `EntityGraph`, `Isolation`, `FimMonitor`, `Integrity`, `TerminateTree` | As above. |
| `MCDelivery`, `MCCommandChannel` | Fault budgets and command sets for TLC. |
| `MCPipeline` | Instances of `Reporting`, `HashService` and `ArtifactOutbox`. |
| `MCLocal` | Instances of `PolicyStore`, `EntityGraph`, `Isolation`, `FimMonitor`, `Integrity` and `TerminateTree`. |
| `PipelineProofs`, `UplinkProofs`, `DeliveryProofs` | Proofs about `Delivery`, by the thread that takes the step. |
| `ChannelProofs`, `CommandProofs` | Proofs about `CommandChannel`. |
| `OutboxProofs`, `FimProofs` | Proofs about `ArtifactOutbox` and `FimMonitor`. |
| `HostProofs` | Proofs about `Isolation`, `Integrity`, `PolicyStore` and `TerminateTree`. |

The components of `MCPipeline`, and those of `MCLocal`, share no state. Each behaviour of the run is one of a
single component, chosen in the initial state (`component`), while the others stay where they start: the run
is the union of the components' own state graphs, not their product.

### Wal and Delivery

A frame is one unit long; `SegmentFrames` and `QuotaFrames` stand for the byte limits. `segments` is
`segments_` (first seq to last seq), `disk` the files: the last frame written, the last one synced, the
damaged frame and its kind, and whether bytes that are no frame follow. `losses` holds the seqs that `losses_`
covers. A crash keeps all synced frames and any prefix of the others, the next one perhaps in part; fdatasync
is taken at its word when it succeeds.

Damage hits one frame: its payload (`payload`), its magic or seq (`header`), or its length field (`length`).
`read()` notices the first where it reads the record and the second wherever it passes; the third it follows.

`uplink::step` is cut in three: read the batch, post it, take the answer. Between them the pipeline appends,
drops at the quota and verifies storage, and the process may die. `stored` is what the Manager has. `reported`
is what `take_losses` handed to the pipeline and `forgotten` what no process was left to hand over; both are
history variables that no action reads. The pipeline's own loss record is an ordinary append: what it says,
and that it is said again when it is itself dropped, is `Reporting`.

`ImplementsStream` is `RecordStream` with `next` mapped to `next_seq` (0 while the process is down), `cursor`
to the cursor in force, `stored` to what the Manager has, `rejected` to the quarantined seqs and `lost` to
`losses`, `reported` and `forgotten` together. Every crash, recovery, quota drop and answer of the detailed
model is then one abstract step or none.

Appending to a file whose end is garbage that could not be cut gives a frame that recovery cannot reach: its
`bad` frame is the first one behind the garbage, with the payload or the header wrong.

Left out: segments that overlap at recovery; a failed directory sync that later undoes a create or rename; a
failed fdatasync inside `isolate_corrupt_tail`; a file replaced by another of the same name, or one that cannot
be removed; read errors other than a missing file; the quarantine file's own limit. Backoff times are left to
fairness.

### CommandLedger and CommandChannel

The lines about different commands do not interact, so the file is, for each command, what `open()` would make
of its lines: `cached` as the kernel holds it, `stable` as the last fdatasync left it. `Parsed` is the state
machine of the parser, with its `malformed` result. A failed append either leaves the file as it was (perhaps
closing the ledger) or leaves the line there unsynced.

`pc` stands where the thread is, `loop` which loop of `step()` a report returns to. The checks of `handle()`
that depend on what a command is (identity, signature, boot, policy) are the set `Refusable`; those that
depend on time, on the ledger and on the rate are modelled. The executor acts, with any outcome but
`rejected`, or finds the target wrong and answers `rejected` without acting. A command for which no record
could be made is answered too; the model calls that answer `turned_away`, to tell it from a refusal that is on
record. The Manager (`manager`, external) sends a command again and again until it has heard that it is
accepted; a result alone does not stop it. `Kept` says how long `open()` keeps a reported entry; what the
Manager sends later than that has expired and is refused as new.

Left out: the executor's internals, audit records, the keyring's refresh, a ledger over its bound or without
an epoch, the directory entry of a compacted ledger. A clean stop is a crash at `wait`. The branch that
answers `replay` in `handle()` cannot be reached from the one thread that calls it.

### Reporting

`pc` says which part of `step()`, `start()` or `shutdown()` runs, `todo` the reports that part has still to
emit. Another thread (a provider pushing, the uplink moving the cursor) may come between any two of them.
`written` is `written_losses_`, `pending` the deferred reports, `said` what each loss record in the log says.
Counts are kept; which event was lost is not. A write of the instance marker may fail, which nobody notices, and
a heartbeat writes it again. Waking, lingering and the limit of 1024 events in a batch are
left out, and the sink refuses any append the budget allows.

### HashService and ArtifactOutbox

In `HashService` a subject is submitted once; `KeyOf` says which content it asks for. The worker's read of a
file is one step with any outcome. `closes` counts how often a subject's descriptor was closed.

In `ArtifactOutbox` the log is that of `wal.cpp` as this one client uses it: records of one size, whole
segments deleted from the front, a torn tail after a power loss. The Manager keeps a half-finished transfer
until it expires; requests and replies are lost. A start that finds a torn tail goes without the outbox for
the life of that process; a record whose sync failed is not uploaded before a later save or start syncs it. A
head that the Manager refuses for ever, or that was collected for another scope, blocks what is behind it; the
model has no such head.

### PolicyStore, Integrity, FimMonitor

Others edit the files; a look is a stat and, if the identity changed or is too fresh, a read. A policy bundle
is its version, body, key and validity; clock skew is part of `issued`. The pipeline's sweep decides on every
process at once (its limits on matches and hashes are left out).

`Integrity` has one listed file and the running image, whose content is fixed. `refresh()` is cut between
stat, read and hash; a file replaced after it was opened is hashed as it was (`Hashed`). `newest_build` is the
newest build ever verified, and `mark` whether its high-water mark was saved, is in memory only, or went with
the process; both are history. Two manifests never share a timestamp; unreadable files and changes of the key list are
left out.

`FimMonitor` describes a path by one value. A scan is atomic but may miss any set of paths; an event names a
path and a debounce ends at any time. A store replaces the file, damaged or not, or fails and leaves it. A
crash keeps the records that were appended.

### EntityGraph

The host forks, execs, exits, reaps and reuses PIDs; each of these queues a record that may be lost and is
applied late; a scan shows `/proc` when it is read, or nobody when it cannot be read. An instance is `<<pid, start>>`. Names, arguments,
credentials, exec generations and parent links are left out.

### Isolation

The client's exchange, the helper's change of the ruleset, and the truncation and rewriting of its state file
are separate steps, so that helper, client and host can fail between them. `pledged` is the answer that stands
(an accepted request, until the opposite one reaches the helper), `record_lost` whether a failure hit the state
file while it was truncated or not yet written back. Requests that wait in the socket
while the helper is busy are left out.

### TerminateTree

A pidfd is the instance it was taken on, so a signal reaches that instance or nobody. `process_handle::open`
is two steps, the reference and the check of the start time; a scan reads one PID at a time. A sent SIGSTOP
takes effect before the next step of the responder (the kernel may let a running fork finish first), and
nobody else sends SIGCONT. The kills are one step: everybody held is stopped by then and can neither fork nor
exit by itself, but a stopped process may still be killed by others. `kin` is everybody who ever descended from
the target, and from later holders of its PID. `family` follows who is below the target by live links: a process whose parent
exits by itself leaves it, with everything below. The PID fallback, used where pidfds are missing, and signals
the kernel refuses are left out.

## What TLC checks

| Run | Shows |
|---|---|
| `delivery_crash` | Two crashes and a failed file operation: no seq is given twice (`NextAboveSent`), what is called durable is on disk (`DurableOnDisk`), the files' sizes stay within the quota and one frame for each failed operation (`DiskWithinQuota`), and `Delivery` implements `RecordStream` (`ImplementsStream`). |
| `delivery_faults` | A damaged frame, a removed file and a crash, in any order: nothing is skipped unaccounted (`NoSilentSkip`); the proof's invariant `IInv`. |
| `delivery_live` | `DurableSettles`: what is durable is eventually stored, quarantined or in a loss. |
| `command_once` | `AtMostOnce` and its `IInv` under every kind of fault. |
| `command_answers` | `OneAnswer`, `AnswersTrue` under two crashes, with the ledger at its limit and room returning; `RateBounded` until the first crash. |
| `command_live` | `AcceptedCloses`; `AnswersTrue` under a crash and a failed write. |
| `pipeline` | Losses: all are explained, none twice, each ends in a record, and an unclean end is known (`LossesExplained`, `LossesExact`, `LossesTold`, `BlindIsKnown`). Hashes: one answer each, every descriptor closed once, no answer missing (`OneResult`, `DescriptorsClosed`, `PendingArrives`). Artifacts: none retired early, none lost, all uploaded (`RetiredRetained`, `PledgeKept`, `ArtifactsArrive`). |
| `local` | Policy: `NeverOlder`, `PolicyTaken`, `AllDecided`. Process table: `IndexesAgree`, `GraphRepaired`, `ExitTold`, `MembersLeave`. Isolation: `AnswerStaysTrue`. File integrity: `RescanFinds`, `ChangesReal`, `DueFinds`. Self integrity: `ReportedIsWrong`, `NoQuietRollback`. Process trees: `ReleasedUnharmed`, `NobodyLeftBehind`, `OnlyTheTree`. |

Runs that end in a violation, each of a sentence in the code or its documents:

| Run | What happens |
|---|---|
| `seq_reuse` | Recovery cuts a damaged tail; seqs already sent are given to new records. |
| `two_answers` | A failed `mark_done` makes the same process answer twice, differently. |
| `report_overtaken` | A loss record is dropped, the cursor passes it, and its report is pruned as delivered before the drop is taken. |
| `zombie_returns` | A scan finds a process that has exited and is not reaped, and follows it again as live. |

Limits of the passing runs. TLC finds a counterexample when the instance or the property is changed as said;
these are not kept as runs.

- A crash between dropping a segment at the quota and writing its loss record leaves a hole that no later
  process reports, because recovery does not look before the first file. `NoSilentSkip` counts it as
  `forgotten`; with `forgotten` left out of `Settled`, one crash and three records violate it.
- With `"length"` in `DamageKinds` and segments of three frames, `NoSilentSkip` fails: a damaged length field
  in an acknowledged frame hides the rest of its segment. With one failed operation and one failed fdatasync
  `DurableOnDisk` fails: a segment sealed without its fdatasync is declared durable by the next sync. With two
  failed operations and a crash it fails as well: frames are appended behind garbage that could not be cut, and
  the next recovery stops at the garbage.
- With a failed fdatasync in `mark_reported` the line is written a second time and the ledger no longer parses;
  the next process starts a new one. `AtMostOnce` holds all the same, by the new ledger's epoch
  and under the assumption on restarts given below.
- `OneAnswer` leaves out `turned_away`: a command turned away for want of room may be run when it comes again.
- `RateBounded` fails after a crash (`change_times_` is in memory only) and with `SlowCalls = TRUE` (a change
  is entered under the time of its check, not of its action).
- `AtMostOnce` fails after a lost ledger with `created` 0, the exception `handle()` makes, and with `ClockSkew
  = ManagerAhead = 2`, `RestartDelay = 1` and a command created at 2: the epoch of the new ledger is not later
  than the command. ADR 028 records this residual; the comment on `open_or_recover` ("no command issued before
  it can run") does not.
- `LossesExplained`, `LossesExact` and `BlindIsKnown` leave out the case of `report_overtaken`. `LossesExact`
  leaves out records the Manager stored while the log dropped them. `BlindIsKnown` leaves out a process that
  died before it could write a marker over a clean one, a "clean" marker written over reports still in memory,
  and a gap report whose count was added to one of another stage at
  `MaximumPending`. `MaximumTracked` (8192 in the code) is not exceeded by the four records of the run; with 1
  `LossesExplained` fails, because reports of one stage are then merged under one of their records.
- `PolicyTaken` is checked with every write leaving its own timestamp. With `SameTick = TRUE` it fails, as ADR
  032 says. A replacement signed by a pinned key is not judged in the pass that revokes the old policy.
- `ExitTold` and `MembersLeave` leave out an instance whose PID the graph had given to another before its exit
  was seen.
- `AnswerStaysTrue` leaves out a record that was lost: `save_state` truncates in place and does not sync, so a
  helper that dies or fails between truncation and rewriting, or a power loss before the write-back, leaves a
  file that says nothing of the isolation, and a reboot then ends it.
- `RescanFinds` leaves out changes whose record a failed write or a crash kept out: the baseline was stored
  before.
- `NoQuietRollback` leaves out a high-water mark that could not be saved and went with the process that held it.
- `NobodyLeftBehind` leaves out a new member that has the PID of one met earlier: `known` holds PIDs, so it is
  passed over. `OnlyTheTree` leaves out a scan in which a child was read under one instance of its parent's PID
  and another instance of that PID was read as a member. It also counts the children of
  a later holder of the target's PID as the tree: `descendants_of` starts from the PID, which is not checked
  again, so they are signalled if the target exits and its PID is given again between two rounds. TLC finds each
  case when the exception is left out.

### Bounds

Logs end at `MaxSeq` (3 to 5 records), with segments of one or two frames and a quota of two segments: enough
to rotate, to drop at the quota, to leave a hole between two files and to have a file on either side of it. A
behaviour may stop at `MaxSeq`, so these runs do not check deadlock. Batches are of up to two records, and
record 2 is one the Manager never accepts. Fault budgets are per kind: one or two crashes, one damaged frame,
one removal, one failed operation. Commands are one to three, time is a handful of seconds, and every window and
lifetime is scaled to it. In `command_answers` the ledger holds two of three commands, an unreadable one expires
first, so that its entry goes while the others can still run, and those two are symmetric. `command_once` has a restart that takes a second and time that ends, so it does not
check deadlock either.

`pipeline` has queues, caches and limits of one or two, four records, four subjects of two contents and three
artifacts of two chunks: every limit is reached, and a loss record can be dropped, carried and dropped again.
`local` has three bundles of one version and a newer one, under two keys; two PIDs that are reused; three
orders to the helper; a directory with a file below it; two builds; a target with a child, a stranger and a
free PID. Troubles come in budgets, one set of budgets per initial state (`MCLocal` and `MCPipeline` list
them): every kind occurs, and not all of them in one behaviour. Among the combinations `local` leaves out are
a change of the trusted keys with a lost or unsaved policy state or a crash, an exec with a fork, an unreadable
`/proc` with forks and lost records, and an edit of the binary with a manifest edit and a restart. Four PIDs and
three rounds are too few for a tree that keeps growing until the responder gives up; that branch is covered by
the proof of `ReleasedUnharmed` alone. All budgets end, so these runs do not check deadlock.

### Fairness

`delivery_live` assumes that both threads keep running (their loops have no exit but shutdown), that systemd
restarts the process (`Restart=always`), and, as strong fairness, that a post that is tried again and again is
sometimes stored and answered. `command_live` assumes the same of the channel thread and of restarts, and that
a result that is sent again and again is sometimes taken. `pipeline` assumes that the pipeline thread, the
hash worker and the artifact thread keep running, that a process that ended is started again, and that a
deferred report is retried (`collect_losses`, once a second); refusals and lost exchanges are bounded, and
nothing is assumed of providers, the uplink or shutdowns.

## What is proved

`DeliveryAccounts`: `Spec => []NoSilentSkip` for every size, quota, batch limit and fault budget, if `"length"
\notin DamageKinds` (with it the statement is false, see above). `NoSilentSkip` is not inductive: that the
cursor may move to the end of a batch needs the batch to cover everything from the cursor on (`BatchCovers`),
which needs every seq above the cursor to be in a segment or in a loss (`Accounted`), which survives a restart
only if index and files are ordered and agree (`Ordered`, `Indexed`, `Filed`) and if what is missing before
the first file is already accounted for (`FrontForgotten`). `IInv` is their conjunction; `NextInv` has one
lemma per action, spread over three modules by the thread that takes it. `DeliveryTypes` follows from the same
invariant.

`CommandsAtMostOnce`: `Spec => []AtMostOnce` for every set of commands, if a restart takes longer than `Lead`
(the smaller of the permitted skew and the lead of the Manager's clock) and every command carries its creation
time. Both assumptions are needed: without either, `AtMostOnce` has the counterexamples given above. The
invariant says that what ran is known to the ledger, expired or older than the ledger's epoch, in memory and
in what a crash would leave (`RanIsBarred`, `Recorded`), and that what is about to run is recorded and has not
run (`AboutToRun`).

`FimProofs`: `RescanFinds`, `ChangesReal`, `DueFinds` and `BaselineTold` for every tree of paths and any
trouble. The invariant `FimInv` adds to the types that a path is there only if the directory above it is
(`FilesTree`), that what is in `changes` is what the baseline says (`FimLinks`), and that whatever the
baseline adopted is in the records, being written, or kept out by a failure (`BaselineTold`), from which the
rescan's promise follows.

`HostProofs`: four short inductions, for any budgets. `IsolationInv` says what the state file and the ruleset
are at each step of the helper, so that an answer that stands survives a restart from the file unless the record was lost. `IntegrityInv`
ties the mark in memory and on disk to the newest build ever verified, by what `mark` says of it. `PolicyInv` says that the record of the
accepted version and the newest policy have one content unless the record was tampered with. `TreeInv` says
that whoever is stopped is held by a responder that is still at work and past its first round, and that it has
killed only on the way to saying so; `SignalledTasks` and `EndedTasks` are the facts about the process table
it rests on.

`OutboxProofs`: `RetiredRetained` and `PledgeKept` for every quota of at least two segments. `PledgeKept`
needs that the quota check leaves room, so that the log never drops a segment that holds a record
(`DiskHolds`), that only what was synced is pledged (`PledgedSynced`), and that an upload under way is of the
oldest record (`UploadOfOldest`).

Only model-checked: `NextAboveSent`, `DurableOnDisk`, `DiskWithinQuota`, the refinement `ImplementsStream`,
`OneAnswer`, `AnswersTrue`, `RateBounded`, the properties of `Reporting`, `HashService` and
`EntityGraph`, `PolicyTaken`, `AllDecided`, `ReportedIsWrong`, `NobodyLeftBehind` and `OnlyTheTree`. The
liveness properties are out of the prover's reach, and so is what the recursively defined set of descendants
contains.

## Not modelled

- The providers and the eBPF programs: collection in the kernel and parsing of its interfaces. What they lose
  reaches the models as counters (`Reporting`) and missing records (`EntityGraph`).
  `bpf/vmlinux/x86_64/vmlinux.h` is generated and is most of the repository's lines.
- File actions, host state and diffs, the control socket, serialisation and parsing, HTTP and cryptography: no
  state between calls, or I/O. A command's action is its outcome in `CommandChannel`.
- The rule engine of the policy, health and audit records.
- The one-shot foundation agent (`main.cpp`, `spool.cpp`, `replay_ledger.cpp`, `transport.cpp` and what they
  use): sequential code which the sensor does not run, and whose durability ADR 008 hands to the log.
- `respond_terminate_process`: one SIGTERM, and perhaps one SIGKILL, through the handle `TerminateTree` has.
