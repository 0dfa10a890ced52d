---------------------------- MODULE MCPipeline ----------------------------
(* Small instances of the components whose answers must arrive: the        *)
(* pipeline's loss reports, the hash service and the artifact outbox.      *)
(* They share no state, so a behaviour is one of any one of them           *)
(* (`component`); the others stay where they start.                        *)
EXTENDS Reporting, HashService, ArtifactOutbox

VARIABLE component

allVars == <<vars, hashVars, outboxVars, component>>
AnyOf(set) == CHOOSE x \in set : TRUE

\* Reports: a busy queue, a refusing sink, a log that drops two ranges, three processes.
Bounded(event, kernels, refuse, drop, crash, stop, mark) ==
    [event |-> event, kernel |-> kernels, refuse |-> refuse, drop |-> drop,
     crash |-> crash, stop |-> stop, mark |-> mark]
Some == {Bounded(2, 1, 0, 1, 0, 0, 0), Bounded(2, 0, 1, 1, 0, 0, 0),
         Bounded(2, 0, 0, 2, 0, 0, 0), Bounded(0, 1, 2, 0, 1, 1, 0),
         Bounded(0, 0, 1, 0, 1, 1, 1)}

\* Hashes: three subjects with one content, one with another.
Keyed == [s \in {"a", "b", "c", "d"} |-> IF s = "d" THEN "l" ELSE "k"]

\* Artifacts: deaths, power losses, lost exchanges, expired transfers, failed syncs.
Outages(c, p, l, e, s) == [crash |-> c, power |-> p, lose |-> l, expire |-> e, sync |-> s]
SomeOutages == {Outages(1, 1, 0, 0, 0), Outages(0, 1, 1, 0, 1), Outages(1, 0, 1, 1, 0),
                Outages(0, 0, 2, 1, 0)}

PipelineInit ==
    /\ component \in {"reports", "hashes", "artifacts"}
    /\ Init /\ (component # "reports" => left = AnyOf(Budgets))
    /\ HashInit
    /\ OutboxInit /\ (component # "artifacts" => outbox_left = AnyOf(OutboxBudgets))

\* A step of one component, which only a behaviour of that component takes.
Reports(step) == component = "reports" /\ step /\ UNCHANGED <<hashVars, outboxVars, component>>
Hashes(step) == component = "hashes" /\ step /\ UNCHANGED <<vars, outboxVars, component>>
Uploaded(step) == component = "artifacts" /\ step /\ UNCHANGED <<vars, hashVars, component>>

PipelineNext == Reports(Next) \/ Hashes(HashNext) \/ Uploaded(OutboxNext)

\* The fairness of each component, for its own behaviours: a condition on a
\* disjunction is one on the disjunct of the component that moves.
PipelineSpec ==
    /\ PipelineInit /\ [][PipelineNext]_allVars
    /\ WF_allVars(Reports(Working) \/ Hashes(HashWorker) \/ Uploaded(Uploads))
    /\ WF_allVars(Reports(Begin) \/ Hashes(Drain) \/ Uploaded(OpenOutbox))
    /\ SF_allVars(Reports(Retry))
=============================================================================
