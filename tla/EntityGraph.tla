---------------------------- MODULE EntityGraph ----------------------------
(***************************************************************************)
(* The process table of the sensor (sensor/entity_graph.cpp) and the       *)
(* containers derived from it (sensor/container_tracker.cpp), fed by       *)
(* kernel records that arrive late or not at all, and by procfs scans that *)
(* show the host as it is when they are read.                              *)
(*                                                                         *)
(* A process instance is <<pid, start>>, what compute_entity_id hashes.    *)
(* Kept of an entity: whose it is, its parent's PID, its cgroup's          *)
(* container, when it was first seen and when it ended.  Names, arguments, *)
(* credentials, exec_gen and parent links are left out; records about      *)
(* threads change nothing.                                                 *)
(***************************************************************************)
EXTENDS Integers, Sequences, FiniteSets, SequencesExt

CONSTANTS
    Pids,                \* PIDs the host hands out, and hands out again
    Containers,          \* container ids a cgroup can name
    StartTicks,          \* TRUE: records carry start times (eBPF); FALSE: CNPROC
    ExitGrace,           \* entity_graph_options::exit_grace_ns, in ticks
    MaximumEntities,     \* entity_graph_options::maximum_entities
    MaximumContainers,   \* container_tracker: maximum_containers_
    MaximumProcesses,    \* container_tracker: maximum_processes_
    MaxTicks,              \* bound: clock ticks
    MaxRecords,          \* bound: records queued
    HostBudgets          \* bound: what the host does, a set of [fork, exec, touch, lose, hide]

Host == 0        \* a PID of which the graph always knows the live process
NoBox == "host"  \* a cgroup that names no container
None == [pid |-> 0]

ASSUME GraphAssumption ==
    /\ Pids \subseteq Nat \ {0} /\ NoBox \notin Containers /\ StartTicks \in BOOLEAN
    /\ {ExitGrace, MaximumEntities, MaximumContainers, MaximumProcesses, MaxRecords} \subseteq Nat

Instances == Pids \X (1..MaxTicks)

VARIABLES
    proc,        \* the kernel: PID -> the task /proc shows, or None
    now,         \* the clock
    records,     \* the provider's records not yet applied
    slot,        \* by_tgid_: PID -> entity or None
    entities,    \* by_entity_id_: instance -> entity or None
    missing,     \* missing_: PIDs the last scan did not find
    member_of,   \* member_of_: instance -> container, or NoBox
    left,        \* what remains of the host's budget
    \* History.
    told,        \* instances a process event has named
    ended,       \* instances a process.exit has named
    superseded,  \* live instances whose PID the graph gave to another
    scans        \* scans of /proc in a row with nothing queued and no change on the host

kernelVars == <<proc, now, records, left>>
graphVars == <<slot, entities, missing, member_of, told, ended, superseded>>
treeVars == <<kernelVars, graphVars, scans>>
-----------------------------------------------------------------------------
(* The host, as the providers and procfs show it.                          *)

Running(p) == p # Host /\ proc[p] # None /\ ~proc[p].zombie
Record(kind, task) ==
    [kind |-> kind, pid |-> task.pid, parent |-> task.ppid, start |-> task.start, time |-> now']

\* A record is queued, or the provider loses it; `budget` is left otherwise.
Report(r, budget) ==
    \/ Len(records) < MaxRecords /\ records' = Append(records, r) /\ left' = budget
    \/ left.lose > 0 /\ left' = [budget EXCEPT !.lose = @ - 1] /\ UNCHANGED records

\* A PID is handed out again at the earliest in the next tick (ADR 007).
HostForks(parent, p) ==
    /\ proc[p] = None /\ (parent = Host \/ Running(parent))
    /\ now < MaxTicks /\ now' = now + 1 /\ left.fork > 0
    /\ proc' = [proc EXCEPT ![p] = [pid |-> p, start |-> now', ppid |-> parent, zombie |-> FALSE,
                                    box |-> IF parent = Host THEN NoBox ELSE proc[parent].box]]
    /\ Report(Record("fork", proc'[p]), [left EXCEPT !.fork = @ - 1])
    /\ scans' = 0 /\ UNCHANGED graphVars

\* execve, possibly after the runtime moved the task into a container's cgroup.
HostExecs(p, box) ==
    /\ Running(p) /\ left.exec > 0 /\ UNCHANGED now
    /\ proc' = [proc EXCEPT ![p].box = box]
    /\ Report(Record("exec", proc[p]), [left EXCEPT !.exec = @ - 1])
    /\ scans' = 0 /\ UNCHANGED graphVars

\* The task becomes a zombie, its children the host's.
HostExits(p) ==
    /\ Running(p) /\ UNCHANGED now
    /\ proc' = [q \in Pids |-> IF q = p THEN [proc[p] EXCEPT !.zombie = TRUE]
                               ELSE IF proc[q] # None /\ proc[q].ppid = p
                               THEN [proc[q] EXCEPT !.ppid = Host] ELSE proc[q]]
    /\ Report(Record("exit", proc[p]), left)
    /\ scans' = 0 /\ UNCHANGED graphVars

HostReaps(p) ==
    /\ proc[p] # None /\ proc[p].zombie
    /\ proc' = [proc EXCEPT ![p] = None]
    /\ scans' = 0 /\ UNCHANGED <<now, records, left, graphVars>>

\* A process renames itself, changes credentials, session or namespaces, or is
\* named by a signal or a trace.
HostTouches(p) ==
    /\ Running(p) /\ left.touch > 0 /\ UNCHANGED <<now, proc>>
    /\ Report(Record("touch", proc[p]), [left EXCEPT !.touch = @ - 1])
    /\ scans' = 0 /\ UNCHANGED graphVars

HostTicks == now < MaxTicks /\ now' = now + 1 /\ UNCHANGED <<proc, records, left, scans, graphVars>>
-----------------------------------------------------------------------------
(* entity_graph's lookups.  `g` is a graph: [slot, entities, superseded].  *)

Graph == [slot |-> slot, entities |-> entities, superseded |-> superseded]
Id(e) == <<e.pid, e.start>>
Live(e) == e # None /\ e.exited = 0

\* Mutant: the entity that loses its PID keeps its place in the table.
StoreKeepsLive(g, e) ==
    LET old == g.slot[e.pid]
        reused == Live(old) /\ Id(old) # Id(e)
    IN  [slot |-> IF reused THEN g.slot ELSE [g.slot EXCEPT ![e.pid] = e],
         entities |-> [g.entities EXCEPT ![Id(e)] = e],
         superseded |-> IF reused THEN g.superseded \cup {Id(old)} ELSE g.superseded]

\* store(): an entity that never reported an exit ends when its PID is reused.
Store(g, e) ==
    LET old == g.slot[e.pid]
        reused == Live(old) /\ Id(old) # Id(e)
        kept == IF reused THEN [g.entities EXCEPT ![Id(old)] = [old EXCEPT !.exited = e.seen]]
                ELSE g.entities
    IN  [slot |-> [g.slot EXCEPT ![e.pid] = e],
         entities |-> [kept EXCEPT ![Id(e)] = e],
         superseded |-> IF reused THEN g.superseded \cup {Id(old)} ELSE g.superseded]

\* load(): what /proc says, a zombie included.
Loaded(p, t) ==
    IF proc[p] = None THEN None
    ELSE [pid |-> p, start |-> proc[p].start, ppid |-> proc[p].ppid, box |-> proc[p].box,
          seen |-> t, exited |-> 0]

LookupOrLoad(g, p, t) ==
    IF p = Host \/ Live(g.slot[p]) \/ Loaded(p, t) = None THEN g ELSE Store(g, Loaded(p, t))
-----------------------------------------------------------------------------
(* container_tracker::observe over a sequence of process events.           *)

Event(type, e) == [type |-> type, process |-> e]
Members(m) == {i \in Instances : m[i] # NoBox}
Tracked(m) == {m[i] : i \in Members(m)}

Join(m, e) ==
    IF \/ Cardinality(Members(m)) >= MaximumProcesses
       \/ e.box \notin Tracked(m) /\ Cardinality(Tracked(m)) >= MaximumContainers
    THEN m ELSE [m EXCEPT ![Id(e)] = e.box]
Leave(m, e) == [m EXCEPT ![Id(e)] = NoBox]

ObserveOne(m, event) ==
    LET e == event.process
    IN  IF event.type = "exit" THEN Leave(m, e)
        ELSE IF e.box = NoBox \/ m[Id(e)] = e.box THEN m
        ELSE Join(Leave(m, e), e)
Observe(events) == member_of' = FoldLeft(ObserveOne, member_of, events)

\* What a handler leaves behind: the graph, and the events it returns.
Becomes(g, events) ==
    /\ slot' = g.slot /\ entities' = g.entities /\ superseded' = g.superseded
    /\ Observe(events)
    /\ told' = told \cup {Id(events[k].process) : k \in DOMAIN events}
    /\ ended' = ended \cup {Id(events[k].process) : k \in {j \in DOMAIN events : events[j].type = "exit"}}
-----------------------------------------------------------------------------
(* apply(): one record.                                                    *)

TakeRecord ==
    records # <<>> /\ records' = Tail(records) /\ scans' = 0 /\ UNCHANGED <<proc, now, left, missing>>

\* The identity of a forked child: from the record, else from /proc, else
\* inferred from the record's time.
ChildStart(r) ==
    IF StartTicks \/ proc[r.pid] = None THEN r.start ELSE proc[r.pid].start

OnFork ==
    /\ TakeRecord /\ Head(records).kind = "fork"
    /\ LET r == Head(records)
           g == LookupOrLoad(Graph, r.parent, r.time)
           known == r.parent # Host /\ Live(g.slot[r.parent])
           child == [pid |-> r.pid, start |-> ChildStart(r), ppid |-> r.parent,
                     box |-> IF known THEN g.slot[r.parent].box ELSE NoBox,
                     seen |-> r.time, exited |-> 0]
       IN  Becomes(Store(g, child), <<Event("fork", child)>>)

OnExec ==
    /\ TakeRecord /\ Head(records).kind = "exec"
    /\ LET r == Head(records)
           old == slot[r.pid]
           read == Loaded(r.pid, now)
           prior == IF Live(old) /\ (read = None \/ read.start = old.start) THEN old ELSE None
           seen == IF Live(old) THEN old.seen ELSE r.time
           start == IF StartTicks THEN r.start
                    ELSE IF read # None THEN read.start
                    ELSE IF prior # None THEN prior.start ELSE r.time
           info == IF read # None THEN read
                   ELSE IF prior # None THEN prior
                   ELSE [pid |-> r.pid, start |-> start, ppid |-> Host, box |-> NoBox, seen |-> seen,
                         exited |-> 0]
           entity == [info EXCEPT !.start = start, !.seen = seen]
           g == IF prior # None /\ Id(prior) = Id(entity) THEN Graph
                ELSE LookupOrLoad(Graph, entity.ppid, r.time)
       IN  Becomes(Store(g, entity), <<Event("exec", entity)>>)

\* An exit names a PID only.  One already ended says nothing more; one the
\* graph does not know is reported without an identity.
OnExit ==
    /\ TakeRecord /\ Head(records).kind = "exit"
    /\ LET r == Head(records)
           over == [slot[r.pid] EXCEPT !.exited = r.time]
       IN  IF Live(slot[r.pid]) THEN Becomes(Store(Graph, over), <<Event("exit", over)>>)
           ELSE Becomes(Graph, <<>>)

\* on_credentials, on_comm, on_session, on_namespaces, on_signal, on_ptrace:
\* the process is looked up, or loaded without an event of its own.
OnOther ==
    /\ TakeRecord /\ Head(records).kind = "touch"
    /\ Becomes(LookupOrLoad(Graph, Head(records).pid, Head(records).time), <<>>)
-----------------------------------------------------------------------------
(* reconcile() and purge().                                                *)

\* A scan lists the PIDs first; if /proc cannot be opened (`readable`), list_pids()
\* returns none, and nobody hears of it.

\* Mutant: a live entry is taken for the process /proc shows, whatever its start.
NewProcessByPid(p) == proc[p] # None /\ ~Live(slot[p])

\* The processes /proc shows that the graph does not hold as live.
NewProcess(p) == proc[p] # None /\ ~(Live(slot[p]) /\ slot[p].start = proc[p].start)

\* Missed by this scan and by the last: its exit may have been queued then.
Unlisted(p, readable) == Live(slot[p]) /\ (proc[p] = None \/ ~readable)
Vanished(p, readable) == Unlisted(p, readable) /\ p \in missing

Sorted(S) == SetToSortSeq(S, LAMBDA a, b : a < b)
Events(type, S, Of(_)) == [k \in DOMAIN Sorted(S) |-> Event(type, Of(Sorted(S)[k]))]

\* Mutant: a process that vanished is ended without an event.
ScannedQuietly(readable) ==
    LET new == {p \in Pids : readable /\ NewProcess(p)}
        found(p) == Loaded(p, now)
        over(p) == [slot[p] EXCEPT !.exited = now]
        gone == {p \in Pids : Vanished(p, readable)}
        add(g, p) == Store(g, found(p))
        end(g, p) == Store(g, over(p))
    IN  [graph |-> FoldLeft(end, FoldLeft(add, Graph, Sorted(new)), Sorted(gone)),
         events |-> Events("discovered", new, found)]

\* The scan: what is new is stored, what has vanished is ended, with events.
Scanned(readable) ==
    LET new == {p \in Pids : readable /\ NewProcess(p)}
        found(p) == Loaded(p, now)
        over(p) == [slot[p] EXCEPT !.exited = now]
        gone == {p \in Pids : Vanished(p, readable)}
        add(g, p) == Store(g, found(p))
        end(g, p) == Store(g, over(p))
    IN  [graph |-> FoldLeft(end, FoldLeft(add, Graph, Sorted(new)), Sorted(gone)),
         events |-> Events("discovered", new, found) \o Events("exit", gone, over)]

\* What purge() drops: the ended past their grace, then the oldest ended while
\* there are too many.
Purged(g) ==
    LET expired(e) == e # None /\ e.exited # 0 /\ e.exited + ExitGrace <= now
        s == [p \in Pids |-> IF expired(g.slot[p]) THEN None ELSE g.slot[p]]
        i == [x \in Instances |-> IF expired(g.entities[x]) THEN None ELSE g.entities[x]]
        known == {x \in Instances : i[x] # None}
        over == {x \in known : i[x].exited # 0}
        excess == Cardinality(known) - MaximumEntities
        drop == IF excess <= 0 THEN {{}}
                ELSE {S \in SUBSET over :
                        /\ Cardinality(S) = IF excess < Cardinality(over) THEN excess ELSE Cardinality(over)
                        /\ \A x \in S, y \in over \ S : i[x].exited <= i[y].exited}
    IN  {[slot |-> [p \in Pids |-> IF s[p] # None /\ Id(s[p]) \in S /\ s[p] = i[Id(s[p])]
                                   THEN None ELSE s[p]],
          entities |-> [x \in Instances |-> IF x \in S THEN None ELSE i[x]],
          superseded |-> g.superseded] : S \in drop}

\* The periodic scan purges; the one a loss report asks for does not.
Reconcile(readable) ==
    /\ readable \/ left.hide > 0
    /\ left' = IF readable THEN left ELSE [left EXCEPT !.hide = @ - 1]
    /\ LET scan == Scanned(readable)
       IN  \E g \in {scan.graph} \cup Purged(scan.graph) : Becomes(g, scan.events)
    /\ missing' = {p \in Pids : Unlisted(p, readable) /\ p \notin missing}
    /\ scans' = IF records # <<>> \/ ~readable THEN 0 ELSE IF scans < 2 THEN scans + 1 ELSE 2
    /\ UNCHANGED <<proc, now, records>>
-----------------------------------------------------------------------------
\* start(): the processes that run before the sensor does are seeded silently.
GraphInit ==
    /\ now = 1 /\ records = <<>> /\ missing = {} /\ left \in HostBudgets
    /\ \E old \in {{}} \cup {{p} : p \in Pids}, box \in Containers \cup {NoBox} :
          /\ proc = [p \in Pids |-> IF p \in old
                        THEN [pid |-> p, start |-> 1, ppid |-> Host, zombie |-> FALSE, box |-> box] ELSE None]
          /\ slot = [p \in Pids |-> IF p \in old
                        THEN [pid |-> p, start |-> 1, ppid |-> Host, box |-> box, seen |-> 1, exited |-> 0]
                        ELSE None]
          /\ member_of = [i \in Instances |-> IF i[1] \in old /\ i[2] = 1 THEN box ELSE NoBox]
          /\ told = old \X {1}
    /\ entities = [i \in Instances |-> IF slot[i[1]] # None /\ i[2] = 1 THEN slot[i[1]] ELSE None]
    /\ ended = {} /\ superseded = {} /\ scans = 0

GraphApplies == OnFork \/ OnExec \/ OnExit \/ OnOther
GraphHost ==
    \/ \E p \in Pids, parent \in Pids \cup {Host} : HostForks(parent, p)
    \/ \E p \in Pids, box \in Containers \cup {NoBox} : HostExecs(p, box)
    \/ \E p \in Pids : HostExits(p) \/ HostReaps(p) \/ HostTouches(p)
    \/ HostTicks
GraphNext == GraphHost \/ GraphApplies \/ \E readable \in BOOLEAN : Reconcile(readable)

GraphSpec == GraphInit /\ [][GraphNext]_treeVars
-----------------------------------------------------------------------------
\* Both indexes tell the same story: the entity a PID leads to is the one its
\* identity leads to, and it is the only live one of its PID, however stores,
\* scans, purges and evictions interleave.
IndexesAgree ==
    /\ \A p \in Pids : slot[p] # None => slot[p].pid = p /\ entities[Id(slot[p])] = slot[p]
    /\ \A i \in Instances : Live(entities[i]) => slot[i[1]] = entities[i]

\* Two scans of a quiet host repair whatever was lost, late or misread, the exits of
\* living processes that unreadable scans made up included: the live entities are
\* then the processes /proc shows.
Settled == scans = 2
GraphRepaired == Settled => \A p \in Pids :
    IF proc[p] = None THEN ~Live(slot[p]) ELSE Live(slot[p]) /\ slot[p].start = proc[p].start

\* By then every process an event named and that is gone has had its
\* process.exit, unless the graph had given its PID to another instance.
Present(i) == proc[i[1]] # None /\ proc[i[1]].start = i[2]
ExitTold == Settled => \A i \in told : Present(i) \/ i \in ended \/ i \in superseded

\* And every member of a container that is gone has left it, so that the exit of
\* the last one is the stop (container_tracker.hpp), with the same exception.
MembersLeave == Settled => \A i \in Members(member_of) : Present(i) \/ i \in superseded

\* A process whose exit was reported is not followed again: "unknown live
\* processes produce process.discovered" (entity_graph.hpp).
EndedOnce == \A i \in ended : ~Live(entities[i])
=============================================================================
