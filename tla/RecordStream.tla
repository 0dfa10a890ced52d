---------------------------- MODULE RecordStream ----------------------------
(***************************************************************************)
(* What the log and the uplink promise together, without segments, files,  *)
(* batches or requests: records are numbered without a gap; a record ends  *)
(* stored by the Manager, rejected by it, or lost and known to be lost;    *)
(* the cursor passes only records that have ended; a restart takes back    *)
(* numbers nobody has seen.  Delivery is shown to implement this module    *)
(* and Reporting is built on it.                                           *)
(***************************************************************************)
EXTENDS Integers

CONSTANTS
    MaxSeq,   \* bound: no record above this seq
    Reuses    \* the files can be damaged or removed, so that a restart may
              \* find less than the Manager was sent and give a seq again

VARIABLES
    next,      \* the seq of the next record; 0 while no process runs
    cursor,    \* delivery has passed every seq up to here
    stored,    \* seqs the Manager stored
    rejected,  \* seqs it will never store, kept aside by the uplink
    lost       \* seqs known to be lost

streamVars == <<next, cursor, stored, rejected, lost>>

Seqs == 1 .. MaxSeq
Given == {q \in Seqs : q < next}
Ended == stored \cup rejected \cup lost

StreamInit ==
    next = 1 /\ cursor = 0 /\ stored = {} /\ rejected = {} /\ lost = {}

\* The log takes a record; to make room it may drop older ones.
Give ==
    /\ next \in Seqs /\ next' = next + 1
    /\ lost \ {next} \subseteq lost' /\ lost' \subseteq lost \cup Given
    /\ UNCHANGED <<cursor, stored, rejected>>

\* Records turn out to be gone from the log.
Lose ==
    /\ lost \subseteq lost' /\ lost' \subseteq Seqs
    /\ UNCHANGED <<next, cursor, stored, rejected>>

\* The Manager stores records it was sent.
Store ==
    /\ stored \subseteq stored' /\ stored' \subseteq stored \cup Given
    /\ UNCHANGED <<next, cursor, rejected, lost>>

\* The uplink takes the Manager's answer: rejected records are put aside, and
\* the cursor moves over records that have ended.  It may move back: a cursor
\* file whose write failed after the rename is ahead of the next answer.
Settle ==
    /\ rejected \subseteq rejected' /\ rejected' \subseteq rejected \cup Given
    /\ cursor' \in 0 .. MaxSeq /\ cursor' < next
    /\ \A q \in Seqs : q <= cursor' => q \in stored \cup rejected' \cup lost
    /\ UNCHANGED <<next, stored, lost>>

Stop ==
    /\ next # 0 /\ next' = 0
    /\ lost \subseteq lost' /\ lost' \subseteq Seqs
    /\ UNCHANGED <<cursor, stored, rejected>>

\* What a restart has found gives the next seq: above every seq the Manager
\* has seen, unless the files were tampered with.
Start ==
    /\ next = 0 /\ next' \in cursor + 1 .. MaxSeq + 1
    /\ Reuses \/ \A q \in stored \cup rejected : q < next'
    /\ lost \subseteq lost' /\ lost' \subseteq Seqs
    /\ UNCHANGED <<cursor, stored, rejected>>

StreamNext == Give \/ Lose \/ Store \/ Settle \/ Stop \/ Start

StreamSpec == StreamInit /\ [][StreamNext]_streamVars
=============================================================================
